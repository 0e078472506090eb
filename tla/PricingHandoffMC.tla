-------------------------- MODULE PricingHandoffMC --------------------------
(* Instances of PricingHandoff for TLC: two cases, two strategies for two  *)
(* clients, one wording whose timing can change between blocking and not.  *)
EXTENDS PricingHandoff, TLC

CONSTANTS s1, s2, k1, k2

TwoStrategies == s1 :> k1 @@ s2 :> k2
Symmetry == Permutations(Cases)

OneStrategy == s1 :> k1
=============================================================================
