----------------------------- MODULE Confidence -----------------------------
(* The four confidence levels and the three operations every derivation    *)
(* goes through (core/research/confidence.py).                             *)
EXTENDS Naturals

Levels == {"UNKNOWN", "LOW", "MEDIUM", "HIGH"}

rank(level) ==
    CASE level = "UNKNOWN" -> 0
      [] level = "LOW"     -> 1
      [] level = "MEDIUM"  -> 2
      [] level = "HIGH"    -> 3

(* An inference is as strong as its weakest support. *)
weakest(levels) ==
    IF levels = {} THEN "UNKNOWN"
    ELSE CHOOSE l \in levels : \A k \in levels : rank(l) <= rank(k)

(* Lowers a level to its ceiling. *)
cap(proposed, ceiling) ==
    IF rank(proposed) <= rank(ceiling) THEN proposed ELSE ceiling
=============================================================================
