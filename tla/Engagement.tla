------------------------------ MODULE Engagement ------------------------------
(* A diagnosis and the discovery that follows it, composed: the uploads of *)
(* an IntakeSession and the results of a search become passages, run_research *)
(* reads them, run_discovery reads them again with what it established.    *)
(* Callers do the three in this order in one process (harness_probe.py:83, *)
(* run_example.py:200); an exception of any call ends the engagement, and  *)
(* what was saved before it stays.                                         *)
EXTENDS IntakeSession, ClientDiscovery

vars == <<records, session, research, discovery>>

EngagementInit == Init /\ IntakeInit /\ ResearchInit /\ DiscoveryInit

Next ==
    \/ IntakeStep /\ UNCHANGED <<research, discovery>>
    \/ SearchStep /\ UNCHANGED <<research, discovery>>
    \/ ResearchStep /\ UNCHANGED <<session, discovery>>
    \/ DiscoveryStep /\ UNCHANGED session

(* Every provider call ends, with an answer or an exception, and a thread  *)
(* runs until its function returns; answers have finitely many rows.       *)
Spec == EngagementInit /\ [][Next]_vars /\ WF_vars(Next)

-----------------------------------------------------------------------------

TypeOK ==
    /\ sources \in Seq(SourceMetadata)
    /\ IntakeTypeOK /\ ResearchTypeOK
    /\ \A n \in DOMAIN clients : _check_fit(clients[n].fit)

(* Whatever a provider answered, every record the run would keep passes    *)
(* the evidence rules, although no stage but discovery asks them: nothing  *)
(* partially formed reaches storage (core/evidence.py:61, pipeline.py:28). *)
RecordsAreValid ==
    /\ \A n \in DOMAIN sources : check_source_metadata(sources[n])
    /\ \A n \in DOMAIN findings :
          check_finding(findings[n], 1 .. (n - 1))
    /\ \A n \in DOMAIN swot : check_swot_issue(swot[n], DOMAIN findings)
    /\ \A n \in DOMAIN key_issues :
          check_key_issue(key_issues[n], DOMAIN swot, DOMAIN findings)
    /\ \A n \in DOMAIN clients :
          /\ check_client_candidate(clients[n])
          /\ clients[n].finding_ids \subseteq DOMAIN findings

Trail == INSTANCE EvidenceTrail WITH trail <- stored

(* The stages together keep the evidence trail: no record is ever saved    *)
(* before all it cites, in any order of stages and failures.               *)
ImplementsTrail == Trail!Spec

(* An engagement ends, in the end of its last stage or in the failure of   *)
(* one of them.                                                            *)
EngagementEnds ==
    <>(at \in {"done", "intake failed", "research failed",
               "discovery failed"})
=============================================================================
