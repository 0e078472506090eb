---------------------------- MODULE EntityStore ----------------------------
(* What every StorageProvider owes the pipelines, in the terms of          *)
(* adapters/storage/memory.py: saving a project replaces it, saving        *)
(* anything else appends, each in one step, and nothing is ever dropped.   *)
EXTENDS Sequences

CONSTANTS Projects, Payloads, Absent

VARIABLES
    project,   \* get_project: project id -> payload, or Absent
    list       \* get_findings and its like: project id -> payloads in order

Init ==
    /\ project = [p \in Projects |-> Absent]
    /\ list = [p \in Projects |-> <<>>]

SaveProject(p, v) == project' = [project EXCEPT ![p] = v] /\ UNCHANGED list

Save(p, v) == list' = [list EXCEPT ![p] = Append(@, v)] /\ UNCHANGED project

Next == \E p \in Projects, v \in Payloads : SaveProject(p, v) \/ Save(p, v)

Spec == Init /\ [][Next]_<<project, list>>
=============================================================================
