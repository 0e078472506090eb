---------------------------- MODULE EvidenceTrail ----------------------------
(* What storage promises of an engagement, whatever stage wrote a record   *)
(* and wherever one of them failed: records are only added, and a record   *)
(* is added only when everything it cites is there. So at any moment, a    *)
(* crash included, whoever opens the store can follow every reference.     *)
EXTENDS FiniteSets

VARIABLE trail    \* the records kept: ids, and the ids each one cites

Ids(records) == {r.id : r \in records}

Init == trail = {}

Keep(record) ==
    /\ record.id \notin Ids(trail)
    /\ record.refs \subseteq Ids(trail)
    /\ trail' = trail \cup {record}

Next == \E record \in trail' : Keep(record)

Spec == Init /\ [][Next]_trail

(* Every reference resolves. *)
Closed == \A r \in trail : r.refs \subseteq Ids(trail)
=============================================================================
