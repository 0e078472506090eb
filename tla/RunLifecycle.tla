---------------------------- MODULE RunLifecycle ----------------------------
(* What the application promises whoever looks at a run: the readings of   *)
(* one run only ever move along these edges, and a process loss turns      *)
(* every RUNNING_* reading into an interruption at once.  This is the      *)
(* lifecycle of runs.py's docstrings and docs/product-spec.md, with the    *)
(* failure edges the code really has.                                      *)
EXTENDS RunStatus

CONSTANT Runs

VARIABLE reading

(* Successors of each reading.  RUNNING_RESEARCH can be followed by the    *)
(* partial success because report() notes the stage before its write, so a *)
(* failed RESEARCH_COMPLETED write is already a failure after research.    *)
Edges ==
    {<<ABSENT, "NOT_STARTED">>,
     <<"NOT_STARTED", "RUNNING_RESEARCH">>,
     <<"RUNNING_RESEARCH", "RESEARCH_COMPLETED">>,
     <<"RUNNING_RESEARCH", "RESEARCH_FAILED">>,
     <<"RUNNING_RESEARCH", "DISCOVERY_FAILED_REUPLOAD_REQUIRED">>,
     <<"RESEARCH_COMPLETED", "RUNNING_DISCOVERY">>,
     <<"RESEARCH_COMPLETED", "DISCOVERY_FAILED_REUPLOAD_REQUIRED">>,
     <<"RUNNING_DISCOVERY", "COMPLETED">>,
     <<"RUNNING_DISCOVERY", "DISCOVERY_FAILED_REUPLOAD_REQUIRED">>}

Init == reading = [r \in Runs |-> ABSENT]

Advance(r) ==
    \E s \in BootstrapStatus :
        /\ <<reading[r], s>> \in Edges
        /\ reading' = [reading EXCEPT ![r] = s]

ProcessLost ==
    reading' = [r \in Runs |-> IF reading[r] \in RUNNING_STATES
                               THEN "INTERRUPTED_REUPLOAD_REQUIRED"
                               ELSE reading[r]]

Next == ProcessLost \/ \E r \in Runs : Advance(r)

Spec == Init /\ [][Next]_reading

TypeOK == reading \in [Runs -> Readings]
=============================================================================
