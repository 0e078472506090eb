----------------------- MODULE PricingHandoff_proofs -----------------------
(* Proofs about PricingHandoff, for any cases, strategies, wordings and    *)
(* timings and without the bound on records mattering.                     *)
EXTENDS PricingHandoff, TLAPS

(* A gap_ref names one strategy and one need, whoever carries it.          *)
RefsAreDigests ==
    /\ \A i \in DOMAIN records : \A g \in records[i].context :
           g.gap_ref = gap_ref_for(records[i].strategy, g.need)
    /\ \A a \in approved : a.gap_ref = gap_ref_for(a.strategy, a.need)

(* A payload names its record's case, and a file is found under the case   *)
(* its payload names.                                                      *)
FilesAreNamed ==
    /\ \A i \in DOMAIN records : records[i].payload.case = records[i].case
    /\ \A c \in Cases : files[c] # None => files[c].case = c

Inv == TypeOK /\ RefsAreDigests /\ FilesAreNamed
       /\ FirstHandoffIsGated /\ ReleasedMeansApproved /\ AnswerIsForThisCase

(* Every step saves at most one record, after all the others.              *)
LEMMA AppendRecord ==
  ASSUME NEW R \in Seq(Records), NEW x \in Records
  PROVE  /\ Append(R, x) \in Seq(Records)
         /\ DOMAIN Append(R, x) = DOMAIN R \cup {Len(R) + 1}
         /\ Append(R, x)[Len(R) + 1] = x
         /\ \A i \in DOMAIN R : Append(R, x)[i] = R[i]
OBVIOUS

(* What a person approved fits a gap only if it is the same need of the    *)
(* same strategy.                                                          *)
LEMMA RefDeterminesNeed ==
  ASSUME NEW s, NEW t, NEW m \in Needs, NEW n \in Needs,
         gap_ref_for(s, m) = gap_ref_for(t, n)
  PROVE  s = t /\ m = n
BY DEF gap_ref_for, Needs

\* No case has a file or a record at the start.
LEMMA InitInv == Init => Inv
<1> SUFFICES ASSUME Init PROVE Inv
  OBVIOUS
<1>1. TypeOK
  BY DEF Init, TypeOK
<1>2. DOMAIN records = {}
  BY DEF Init
<1> QED
  BY <1>1, <1>2 DEF Init, Inv, RefsAreDigests, FilesAreNamed, FirstHandoffIsGated,
     ReleasedMeansApproved, AnswerIsForThisCase

(* The types.  Only a save touches the records, and what it saves is a     *)
(* record whatever was handed in.                                          *)
LEMMA StepType == TypeOK /\ [Next]_vars => TypeOK'
<1> SUFFICES ASSUME TypeOK, [Next]_vars PROVE TypeOK'
  OBVIOUS
<1> USE PricingAssumption
<1>1. ASSUME NEW c \in Cases, NEW s \in Strategies, NEW sheet \in Sheets, NEW refs,
             run_pricing_handoff(c, s, sheet, refs)
      PROVE  TypeOK'
  <2>1. evidence_needs(s) \in SUBSET Gaps
    BY DEF TypeOK, evidence_needs, gaps_for, gap_ref_for, Gaps, GapRefs, Needs
  <2>2. build_pricing_payload(c, s, sheet) \in Payloads
    BY DEF build_pricing_payload, Payloads
  <2>3. resolve_gate(s, refs) \in {"HANDOFF_BLOCKED", "PAYLOAD_READY"}
    BY DEF resolve_gate
  <2>4. [case |-> c, strategy |-> s, client |-> ClientOf[s],
         payload |-> build_pricing_payload(c, s, sheet),
         context |-> evidence_needs(s), engine |-> None,
         status |-> resolve_gate(s, refs), error_code |-> None] \in Records
    BY <2>1, <2>2, <2>3 DEF Records
  <2> QED
    BY <1>1, <2>4, AppendRecord DEF run_pricing_handoff, save_pricing_result, TypeOK
<1>2. ASSUME NEW i \in DOMAIN records PROVE records[i] \in Records
  BY <1>2 DEF TypeOK
<1>3. ASSUME NEW i \in DOMAIN records, Approve(i) PROVE TypeOK'
  <2>1. PICK g \in records[i].context :
          approved' = approved \cup {[gap_ref |-> g.gap_ref, need |-> g.need,
                                       strategy |-> records[i].strategy]}
    BY <1>3 DEF Approve
  <2>2. g \in Gaps /\ records[i].strategy \in Strategies
    BY <1>2, <2>1 DEF Records
  <2> QED
    BY <1>3, <2>1, <2>2 DEF Approve, TypeOK, Gaps
<1>4. ASSUME NEW i \in DOMAIN records, write_payload(i) PROVE TypeOK'
  BY <1>2, <1>4 DEF write_payload, TypeOK, Records
<1>5. ASSUME NEW i \in DOMAIN records, attach_engine_result(i) PROVE TypeOK'
  <2>1. PICK d \in answers : save_pricing_result(Attached(records[i], d))
    BY <1>5 DEF attach_engine_result
  <2>2. Attached(records[i], d) \in Records
    BY <1>2, <2>1 DEF Attached, Records, TypeOK
  <2> QED
    BY <1>5, <2>1, <2>2, AppendRecord DEF attach_engine_result, save_pricing_result, TypeOK
<1>6. ASSUME NEW i \in DOMAIN records, attach_malformed(i) PROVE TypeOK'
  <2>1. [records[i] EXCEPT !.status = "FAILED",
                           !.error_code = "ENGINE_RESULT_MALFORMED"] \in Records
    BY <1>2 DEF Records
  <2> QED
    BY <1>6, <2>1, AppendRecord DEF attach_malformed, save_pricing_result, TypeOK
<1>7. ASSUME NEW s \in Strategies, Revise(s) PROVE TypeOK'
  BY <1>7 DEF Revise, TypeOK
<1>8. ASSUME NEW c \in Cases, EngineAnswers(c) PROVE TypeOK'
  BY <1>8 DEF EngineAnswers, TypeOK
<1>9. CASE UNCHANGED vars
  BY <1>9 DEF vars, TypeOK
<1> QED
  BY <1>1, <1>3, <1>4, <1>5, <1>6, <1>7, <1>8, <1>9 DEF Next

(* A release is never taken back: records are only ever added.             *)
LEMMA ReleasedGrows ==
  ASSUME TypeOK, NEW x \in Records, records' = Append(records, x), NEW c, Released(c)
  PROVE  Released(c)'
<1>1. PICK i \in DOMAIN records : records[i].case = c /\ records[i].status = "PAYLOAD_READY"
  BY DEF Released
<1>2. i \in DOMAIN records' /\ records'[i] = records[i]
  BY <1>1, AppendRecord DEF TypeOK
<1> QED
  BY <1>1, <1>2 DEF Released

(* What a saved record owes to the invariant, next to the ones before it.  *)
GoodRecord(x) ==
    /\ x.payload.case = x.case
    /\ \A g \in x.context : g.gap_ref = gap_ref_for(x.strategy, g.need)
    /\ x.status = "COMPLETED" => Released(x.case)
    /\ x.status = "PAYLOAD_READY" =>
           \A g \in x.context :
               g.need.timing = BLOCKING_TIMING =>
                   \E a \in approved : a.strategy = x.strategy /\ a.need = g.need
    /\ x.engine # None => x.engine.case = x.case /\ x.engine.client = x.client
    /\ x.status = "COMPLETED" => x.engine # None
    /\ x.status = "FAILED" <=> x.error_code # None

\* A save of a good record keeps the invariant.
LEMMA SaveKeepsInv ==
  ASSUME Inv, NEW x \in Records, GoodRecord(x), save_pricing_result(x),
         UNCHANGED <<approved, files, answers>>, TypeOK'
  PROVE  Inv'
<1>1. records' = Append(records, x) /\ TypeOK
  BY DEF save_pricing_result, Inv
<1>2. /\ DOMAIN records' = DOMAIN records \cup {Len(records) + 1}
      /\ records'[Len(records) + 1] = x
      /\ \A i \in DOMAIN records : records'[i] = records[i]
  BY <1>1, AppendRecord DEF TypeOK
<1>3. \A c : Released(c) => Released(c)'
  BY <1>1, ReleasedGrows
<1>4. x.status = "PAYLOAD_READY" => Released(x.case)'
  BY <1>2 DEF Released
<1>5. RefsAreDigests' /\ FilesAreNamed'
  BY <1>2 DEF Inv, RefsAreDigests, FilesAreNamed, GoodRecord, gap_ref_for
<1>6. FirstHandoffIsGated'
  <2>1. \A c \in Cases : files'[c] # None => Released(c)'
    BY <1>3 DEF Inv, FirstHandoffIsGated
  <2>2. \A d \in answers' : Released(d.case)'
    BY <1>3 DEF Inv, FirstHandoffIsGated
  <2>3. ASSUME NEW i \in DOMAIN records',
               (records[i].status \in SENDABLE)'
        PROVE  (Released(records[i].case))'
    <3>1. CASE i \in DOMAIN records
      <4>1. records'[i] = records[i] /\ Released(records[i].case)
        BY <1>2, <2>3, <3>1 DEF Inv, FirstHandoffIsGated
      <4> QED
        BY <1>3, <4>1 DEF Released
    <3>2. CASE i = Len(records) + 1
      <4>1. Released(x.case)'
        BY <1>2, <1>3, <1>4, <2>3, <3>2 DEF GoodRecord, SENDABLE
      <4> QED
        BY <1>2, <3>2, <4>1 DEF Released
    <3> QED
      BY <1>2, <3>1, <3>2
  <2> QED
    BY <2>1, <2>2, <2>3 DEF FirstHandoffIsGated
<1>7. ReleasedMeansApproved' /\ AnswerIsForThisCase'
  BY <1>2 DEF Inv, ReleasedMeansApproved, AnswerIsForThisCase, GoodRecord
<1> QED
  BY <1>5, <1>6, <1>7 DEF Inv

(* A step that saves no record and only adds approvals keeps everything    *)
(* said of the records.                                                    *)
LEMMA RecordsUntouched ==
  ASSUME Inv, records' = records, approved \subseteq approved'
  PROVE  /\ \A c : Released(c) => Released(c)'
         /\ ReleasedMeansApproved' /\ AnswerIsForThisCase'
         /\ (\A i \in DOMAIN records :
                 records[i].status \in SENDABLE => Released(records[i].case))'
         /\ (\A i \in DOMAIN records :
                 \A g \in records[i].context : g.gap_ref = gap_ref_for(records[i].strategy, g.need))'
         /\ (\A i \in DOMAIN records : records[i].payload.case = records[i].case)'
<1>1. \A c : Released(c) => Released(c)'
  BY DEF Released
<1>2. ReleasedMeansApproved'
  BY DEF Inv, ReleasedMeansApproved
<1>3. AnswerIsForThisCase'
  BY DEF Inv, AnswerIsForThisCase
<1>4. (\A i \in DOMAIN records :
          records[i].status \in SENDABLE => Released(records[i].case))'
  BY DEF Inv, FirstHandoffIsGated, Released
<1>5. (\A i \in DOMAIN records :
          \A g \in records[i].context : g.gap_ref = gap_ref_for(records[i].strategy, g.need))'
  BY DEF Inv, RefsAreDigests, gap_ref_for
<1>6. (\A i \in DOMAIN records : records[i].payload.case = records[i].case)'
  BY DEF Inv, FilesAreNamed
<1> QED
  BY <1>1, <1>2, <1>3, <1>4, <1>5, <1>6

\* The invariant is inductive.
LEMMA StepInv == Inv /\ [Next]_vars => Inv'
<1> SUFFICES ASSUME Inv, [Next]_vars PROVE Inv'
  OBVIOUS
<1>0. TypeOK /\ TypeOK'
  BY StepType DEF Inv
<1>1. ASSUME NEW c \in Cases, NEW s \in Strategies, NEW sheet \in Sheets,
             NEW refs \in SUBSET {a.gap_ref : a \in approved},
             run_pricing_handoff(c, s, sheet, refs)
      PROVE  Inv'
  <2> DEFINE x == [case |-> c, strategy |-> s, client |-> ClientOf[s],
                   payload |-> build_pricing_payload(c, s, sheet),
                   context |-> evidence_needs(s), engine |-> None,
                   status |-> resolve_gate(s, refs), error_code |-> None]
  <2>1. x \in Records
    <3>1. evidence_needs(s) \in SUBSET Gaps
      BY <1>0 DEF TypeOK, evidence_needs, gaps_for, gap_ref_for, Gaps, GapRefs, Needs
    <3>2. build_pricing_payload(c, s, sheet) \in Payloads
      BY PricingAssumption DEF build_pricing_payload, Payloads
    <3> QED
      BY <3>1, <3>2, PricingAssumption DEF Records, resolve_gate
  <2>2. \A g \in evidence_needs(s) :
            g.gap_ref = gap_ref_for(s, g.need) /\ g \in gaps_for(s) /\ g.need \in Needs
    BY <1>0 DEF TypeOK, evidence_needs, gaps_for
  <2>3. ASSUME resolve_gate(s, refs) = "PAYLOAD_READY", NEW g \in evidence_needs(s),
               g.need.timing = BLOCKING_TIMING
        PROVE  \E a \in approved : a.strategy = s /\ a.need = g.need
    <3>1. g.gap_ref \in refs
      BY <2>2, <2>3 DEF resolve_gate, unacknowledged, open_before_pricing
    <3>2. PICK a \in approved : a.gap_ref = g.gap_ref
      BY <3>1
    <3>3. a.need \in Needs /\ gap_ref_for(a.strategy, a.need) = gap_ref_for(s, g.need)
      BY <1>0, <2>2, <3>2 DEF TypeOK, Inv, RefsAreDigests
    <3> QED
      BY <2>2, <3>3, RefDeterminesNeed
  <2>4. resolve_gate(s, refs) \in {"HANDOFF_BLOCKED", "PAYLOAD_READY"}
    BY DEF resolve_gate
  <2>5. GoodRecord(x)
    BY <2>2, <2>3, <2>4 DEF GoodRecord, build_pricing_payload
  <2> QED
    BY <1>0, <1>1, <2>1, <2>5, SaveKeepsInv DEF run_pricing_handoff
<1>2. ASSUME NEW i \in DOMAIN records, Approve(i) PROVE Inv'
  <2>1. PICK g \in records[i].context :
          approved' = approved \cup {[gap_ref |-> g.gap_ref, need |-> g.need,
                                       strategy |-> records[i].strategy]}
    BY <1>2 DEF Approve
  <2>2. g.gap_ref = gap_ref_for(records[i].strategy, g.need)
    BY <2>1 DEF Inv, RefsAreDigests
  <2>3. records' = records /\ files' = files /\ answers' = answers
    BY <1>2 DEF Approve
  <2>4. \A a \in approved' : a.gap_ref = gap_ref_for(a.strategy, a.need)
    BY <2>1, <2>2 DEF Inv, RefsAreDigests
  <2> QED
    BY <1>0, <2>1, <2>3, <2>4, RecordsUntouched
       DEF Inv, FirstHandoffIsGated, RefsAreDigests, FilesAreNamed
<1>3. ASSUME NEW i \in DOMAIN records, write_payload(i) PROVE Inv'
  <2>1. records' = records /\ answers' = answers /\ approved' = approved
    BY <1>3 DEF write_payload
  <2>2. Released(records[i].case)
    BY <1>3 DEF write_payload, Inv, FirstHandoffIsGated
  <2>3. \A c \in Cases :
            \/ files'[c] = files[c]
            \/ c = records[i].case /\ files'[c] = records[i].payload
    <3>1. DOMAIN files = Cases
      BY <1>0 DEF TypeOK
    <3>2. files' = [files EXCEPT ![records[i].case] = records[i].payload]
      BY <1>3 DEF write_payload
    <3> QED
      BY <3>1, <3>2
  <2>4. FilesAreNamed'
    BY <2>1, <2>3, RecordsUntouched DEF Inv, FilesAreNamed
  <2>5. FirstHandoffIsGated'
    BY <2>1, <2>2, <2>3, RecordsUntouched DEF Inv, FirstHandoffIsGated
  <2>6. RefsAreDigests'
    BY <2>1 DEF Inv, RefsAreDigests
  <2> QED
    BY <1>0, <2>1, <2>4, <2>5, <2>6, RecordsUntouched DEF Inv
<1>4. ASSUME NEW i \in DOMAIN records, attach_engine_result(i) PROVE Inv'
  <2>1. PICK d \in answers : save_pricing_result(Attached(records[i], d))
    BY <1>4 DEF attach_engine_result
  <2>2. d # None /\ Released(d.case) /\ records[i] \in Records
    BY <1>0, <2>1, PricingAssumption DEF TypeOK, Payloads, Inv, FirstHandoffIsGated
  <2>3. Attached(records[i], d) \in Records
    BY <1>0, <2>1, <2>2 DEF Attached, Records, TypeOK
  <2>4. GoodRecord(Attached(records[i], d))
    BY <2>2, PricingAssumption DEF Attached, GoodRecord, Records, Inv, RefsAreDigests, FilesAreNamed
  <2> QED
    BY <1>0, <1>4, <2>1, <2>3, <2>4, SaveKeepsInv DEF attach_engine_result
<1>5. ASSUME NEW i \in DOMAIN records, attach_malformed(i) PROVE Inv'
  <2> DEFINE x == [records[i] EXCEPT !.status = "FAILED",
                                     !.error_code = "ENGINE_RESULT_MALFORMED"]
  <2>1. records[i] \in Records
    BY <1>0 DEF TypeOK
  <2>2. x \in Records
    BY <2>1 DEF Records
  <2>3. GoodRecord(x)
    BY <2>1, PricingAssumption DEF GoodRecord, Records, Inv, RefsAreDigests, FilesAreNamed, AnswerIsForThisCase
  <2> QED
    BY <1>0, <1>5, <2>2, <2>3, SaveKeepsInv DEF attach_malformed
<1>6. ASSUME NEW s \in Strategies, Revise(s) PROVE Inv'
  BY <1>0, <1>6, RecordsUntouched
     DEF Revise, Inv, FirstHandoffIsGated, RefsAreDigests, FilesAreNamed
<1>7. ASSUME NEW c \in Cases, EngineAnswers(c) PROVE Inv'
  <2>1. files[c].case = c /\ Released(c)
    BY <1>7 DEF EngineAnswers, Inv, FilesAreNamed, FirstHandoffIsGated
  <2> QED
    BY <1>0, <1>7, <2>1, RecordsUntouched
       DEF EngineAnswers, Inv, FirstHandoffIsGated, RefsAreDigests, FilesAreNamed
<1>8. CASE UNCHANGED vars
  BY <1>0, <1>8, RecordsUntouched
     DEF vars, Inv, FirstHandoffIsGated, RefsAreDigests, FilesAreNamed
<1> QED
  BY <1>1, <1>2, <1>3, <1>4, <1>5, <1>6, <1>7, <1>8 DEF Next

(* The inductive invariant holds throughout.                               *)
THEOREM Invariance == Spec => []Inv
BY InitInv, StepInv, PTL DEF Spec

(* Type correctness, for any constants.                                    *)
THEOREM TypeCorrect == Spec => []TypeOK
<1>1. Inv => TypeOK
  BY DEF Inv
<1> QED
  BY <1>1, Invariance, PTL

(* Nothing of a case leaves before one of its builds was released.         *)
THEOREM HandoffIsGated == Spec => []FirstHandoffIsGated
<1>1. Inv => FirstHandoffIsGated
  BY DEF Inv
<1> QED
  BY <1>1, Invariance, PTL

(* A released build had each of its blocking gaps approved as it stood.    *)
THEOREM ReleaseIsApproved == Spec => []ReleasedMeansApproved
<1>1. Inv => ReleasedMeansApproved
  BY DEF Inv
<1> QED
  BY <1>1, Invariance, PTL

(* An answer is only ever filed under the case and client it names.        *)
THEOREM AnswersMatch == Spec => []AnswerIsForThisCase
<1>1. Inv => AnswerIsForThisCase
  BY DEF Inv
<1> QED
  BY <1>1, Invariance, PTL
=============================================================================
