--------------------------- MODULE PricingHandoff ---------------------------
(* One pricing case between this harness and the separate pricing harness: *)
(* the gap gate and the builds (core/pricing_bridge), the file contract    *)
(* (adapters/pricing/file.py), the answer coming back, and the records in  *)
(* storage, which only ever appends them.                                  *)
(*                                                                         *)
(* A payload is its identity plus the cost sheet it was assembled from; an *)
(* answer is the identity in its source block plus the sheet it was really *)
(* computed from, which the document does not say.  gap_ref's digest is    *)
(* modelled as the tuple it digests.  A refused build changes nothing and  *)
(* is a stuttering step.                                                   *)
EXTENDS Naturals, Sequences

CONSTANTS
    Cases,       \* pricing_case_id: fresh, or the caller's to rebuild in place
    Strategies,  \* strategy_id
    Clients,     \* client_id
    ClientOf,    \* strategy id -> the client it is for
    Texts,       \* the wordings of a need
    Timings,     \* the EvidenceTiming values in play
    Sheets,      \* cost sheets a caller can hand in
    None,
    MaxRecords   \* bound: records stored

ASSUME PricingAssumption ==
    /\ ClientOf \in [Strategies -> Clients]
    /\ Timings \subseteq {"BEFORE_PROPOSAL", "BEFORE_PRICING", "BEFORE_CONTRACT",
                          "OPTIONAL", "UNCLASSIFIED"}
    /\ MaxRecords \in Nat
    /\ None \notin [case : Cases, client : Clients, sheet : Sheets]
    /\ None \notin {"ENGINE_RESULT_MALFORMED", "ENGINE_RESULT_MISMATCH"}

VARIABLES
    needs,     \* strategy id -> its evidence_needs
    records,   \* the PricingResults in storage, in the order they were saved
    approved,  \* gaps a person approved, as the screen showed them
    files,     \* case id -> <case>.client_input.json
    answers    \* analysis_result documents the pricing harness has written

vars == <<needs, records, approved, files, answers>>

Needs == [text : Texts, timing : Timings]
BLOCKING_TIMING == "BEFORE_PRICING"
COMMERCIAL_TIMINGS == {"BEFORE_PRICING", "BEFORE_CONTRACT"}

\* Mutant: a blocked build is handed over, flagged, instead of held back.
SENDABLE_flagged == {"HANDOFF_BLOCKED", "PAYLOAD_READY", "COMPLETED"}

SENDABLE == {"PAYLOAD_READY", "COMPLETED"}

Payloads == [case : Cases, client : Clients, sheet : Sheets]
GapRefs == Strategies \X Texts \X Timings
Gaps == [gap_ref : GapRefs, need : Needs]
Records ==
    [case : Cases, strategy : Strategies, client : Clients, payload : Payloads,
     context : SUBSET Gaps, engine : Payloads \cup {None},
     status : {"HANDOFF_BLOCKED", "PAYLOAD_READY", "COMPLETED", "FAILED"},
     error_code : {None, "ENGINE_RESULT_MALFORMED", "ENGINE_RESULT_MISMATCH"}]

TypeOK ==
    /\ needs \in [Strategies -> SUBSET Needs]
    /\ records \in Seq(Records)
    /\ approved \subseteq [gap_ref : GapRefs, strategy : Strategies, need : Needs]
    /\ files \in [Cases -> Payloads \cup {None}]
    /\ answers \subseteq Payloads

Init ==
    /\ needs \in [Strategies -> SUBSET Needs]
    /\ records = <<>>
    /\ approved = {}
    /\ files = [c \in Cases |-> None]
    /\ answers = {}

(******************************** the gate ********************************)
\* Mutant: a ref of the strategy and the wording alone.
gap_ref_timeless(s, need) == <<s, need.text, BLOCKING_TIMING>>

gap_ref_for(s, need) == <<s, need.text, need.timing>>

gaps_for(s) == {[gap_ref |-> gap_ref_for(s, n), need |-> n] : n \in needs[s]}

open_before_pricing(s) == {g \in gaps_for(s) : g.need.timing = BLOCKING_TIMING}

unacknowledged(s, refs) == {g \in open_before_pricing(s) : g.gap_ref \notin refs}

unknown_refs(s, refs) == refs \ {g.gap_ref : g \in gaps_for(s)}

resolve_gate(s, refs) ==
    IF unacknowledged(s, refs) = {} THEN "PAYLOAD_READY" ELSE "HANDOFF_BLOCKED"

\* commercial_context.evidence_needs: both halves of every commercial gap.
evidence_needs(s) == {g \in gaps_for(s) : g.need.timing \in COMMERCIAL_TIMINGS}

(******************************* the builds *******************************)
save_pricing_result(result) ==
    Len(records) < MaxRecords /\ records' = Append(records, result)

build_pricing_payload(c, s, sheet) == [case |-> c, client |-> ClientOf[s], sheet |-> sheet]

(* run_pricing_handoff and persist.  The refs a caller sends are any it    *)
(* was given approval for; one the strategy does not have refuses the run. *)
run_pricing_handoff(c, s, sheet, refs) ==
    /\ unknown_refs(s, refs) = {}
    /\ save_pricing_result(
           [case |-> c, strategy |-> s, client |-> ClientOf[s],
            payload |-> build_pricing_payload(c, s, sheet),
            context |-> evidence_needs(s), engine |-> None,
            status |-> resolve_gate(s, refs), error_code |-> None])
    /\ UNCHANGED <<needs, approved, files, answers>>

\* A person reads one gap of a stored case and takes responsibility for it.
Approve(i) ==
    /\ \E g \in records[i].context :
           approved' = approved \cup {[gap_ref |-> g.gap_ref, need |-> g.need,
                                       strategy |-> records[i].strategy]}
    /\ UNCHANGED <<needs, records, files, answers>>

\* The gap list of a strategy is reworded, retimed, closed or extended.
Revise(s) ==
    /\ \E ns \in SUBSET Needs : needs' = [needs EXCEPT ![s] = ns]
    /\ UNCHANGED <<records, approved, files, answers>>

(*************************** the file contract ****************************)
\* Any stored record may be handed to the adapter, not only the latest one.
write_payload(i) ==
    /\ records[i].status \in SENDABLE
    /\ files' = [files EXCEPT ![records[i].case] = records[i].payload]
    /\ UNCHANGED <<needs, records, approved, answers>>

\* The pricing harness, in its own process, answers a file it finds.
EngineAnswers(c) ==
    /\ files[c] # None
    /\ answers' = answers \cup {files[c]}
    /\ UNCHANGED <<needs, records, approved, files>>

\* Mutant: only the case is compared, not the client.
Attached_anyClient(result, document) ==
    IF document.case # result.case
    THEN [result EXCEPT !.status = "FAILED", !.engine = None,
                        !.error_code = "ENGINE_RESULT_MISMATCH"]
    ELSE [result EXCEPT !.status = "COMPLETED", !.engine = document,
                        !.error_code = None]

(* attach_engine_result and the save of what it returns.  Only the ids are *)
(* compared; the record's own status is not looked at.                     *)
Attached(result, document) ==
    IF document.case # result.case \/ document.client # result.client
    THEN [result EXCEPT !.status = "FAILED", !.engine = None,
                        !.error_code = "ENGINE_RESULT_MISMATCH"]
    ELSE [result EXCEPT !.status = "COMPLETED", !.engine = document,
                        !.error_code = None]

attach_engine_result(i) ==
    /\ \E document \in answers : save_pricing_result(Attached(records[i], document))
    /\ UNCHANGED <<needs, approved, files, answers>>

\* A document without a usable source block fails the case and keeps the rest.
attach_malformed(i) ==
    /\ save_pricing_result([records[i] EXCEPT !.status = "FAILED",
                                              !.error_code = "ENGINE_RESULT_MALFORMED"])
    /\ UNCHANGED <<needs, approved, files, answers>>

Next ==
    \/ \E c \in Cases, s \in Strategies, sheet \in Sheets :
           \E refs \in SUBSET {a.gap_ref : a \in approved} :
               run_pricing_handoff(c, s, sheet, refs)
    \/ \E i \in DOMAIN records :
           Approve(i) \/ write_payload(i) \/ attach_engine_result(i) \/ attach_malformed(i)
    \/ \E s \in Strategies : Revise(s)
    \/ \E c \in Cases : EngineAnswers(c)

Spec == Init /\ [][Next]_vars

(****************************** properties ********************************)
Released(c) == \E i \in DOMAIN records : records[i].case = c
                                         /\ records[i].status = "PAYLOAD_READY"

(* Nothing of a case leaves before some build of it had every blocking gap *)
(* acknowledged: no file is written, nothing is answered, no answer makes  *)
(* a record sendable.  The bypass would need several calls: an answer to   *)
(* another case, or a blocked record turned COMPLETED.                     *)
FirstHandoffIsGated ==
    /\ \A c \in Cases : files[c] # None => Released(c)
    /\ \A d \in answers : Released(d.case)
    /\ \A i \in DOMAIN records : records[i].status \in SENDABLE => Released(records[i].case)

(* A released build rests on approvals of the very gaps it was built with: *)
(* every blocking gap in its context was approved by a person, for this    *)
(* strategy and in this wording and timing.  An approval survives neither  *)
(* a revision of the gap nor the move to another strategy.                 *)
ReleasedMeansApproved ==
    \A i \in DOMAIN records :
        records[i].status = "PAYLOAD_READY" =>
            \A g \in records[i].context :
                g.need.timing = BLOCKING_TIMING =>
                    \E a \in approved : a.strategy = records[i].strategy /\ a.need = g.need

(* Whatever documents are handed back, an answer filed under a record      *)
(* names that record's case and client, and a completed record has one.    *)
AnswerIsForThisCase ==
    \A i \in DOMAIN records :
        LET r == records[i]
        IN  /\ r.engine # None => r.engine.case = r.case /\ r.engine.client = r.client
            /\ r.status = "COMPLETED" => r.engine # None
            /\ r.status = "FAILED" <=> r.error_code # None

(************ what the repository says and the code does not do ***********)
(* An open BEFORE_PRICING gap "holds the hand-off back": no payload of a   *)
(* build that was blocked is ever written out.                             *)
BlockedBuildIsNeverSent ==
    \A c \in Cases :
        files[c] # None => \E i \in DOMAIN records : records[i].payload = files[c]
                                                     /\ records[i].status = "PAYLOAD_READY"
=============================================================================
