-------------------------------- MODULE Places --------------------------------
(* Places in a list, as sets of positions: the first and the last of them, *)
(* the number of one among them, the one with a number.                    *)
EXTENDS Integers, FiniteSets

First(s) == CHOOSE i \in s : \A j \in s : i <= j

End(s) == CHOOSE i \in s : \A j \in s : j <= i

Upto(s, i) == Cardinality({j \in s : j <= i})

Numbered(s, n) == CHOOSE i \in s : Upto(s, i) = n
=============================================================================
