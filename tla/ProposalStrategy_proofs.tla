----------------------- MODULE ProposalStrategy_proofs -----------------------
(* Proofs about ProposalStrategy for every analysis, every answer of a     *)
(* provider, every objection and every limit.                              *)
EXTENDS ProposalStrategy, SequenceTheorems, WellFoundedInduction, TLAPS

-----------------------------------------------------------------------------
(* Positions *)

(* A nonempty set of natural numbers has a least one. *)
LEMMA LeastNat ==
  ASSUME NEW S \in SUBSET Nat, S # {}
  PROVE  \E m \in S : \A i \in S : m <= i
  <1>1. PICK m \in S : \A i \in S : ~(<<i, m>> \in OpToRel(<, Nat))
    BY NatLessThanWellFounded, WFMin, Zenon
  <1>2. \A i \in S : m <= i
    <2> TAKE i \in S
    <2>1. <<i, m>> \notin OpToRel(<, Nat)
      BY <1>1
    <2> QED BY <2>1 DEF OpToRel
  <1> QED BY <1>2

(* A nonempty set of positions of a list has a last one. *)
LEMMA LastPosition ==
  ASSUME NEW n \in Nat, NEW S \in SUBSET (1 .. n), S # {}
  PROVE  \E m \in S : \A i \in S : i <= m
  <1> DEFINE Above == {k \in Nat : \A i \in S : i <= k}
  <1>1. n \in Above
    OBVIOUS
  <1>2. PICK m \in Above : \A k \in Above : m <= k
    BY <1>1, LeastNat
  <1>3. m \in S
    <2> SUFFICES ASSUME m \notin S PROVE FALSE
      OBVIOUS
    <2>1. PICK i \in S : TRUE
      OBVIOUS
    <2>2. m - 1 \in Above
      BY <2>1
    <2> QED BY <2>2, <1>2
  <1> QED BY <1>3

-----------------------------------------------------------------------------
(* Requests *)

LEMMA RequestFacts ==
  ASSUME request \in Requests
  PROVE  /\ request.objective \in ProposalObjective \cup {NoObjective}
         /\ request.objections \subseteq ObjectionDraft
         /\ \A n : Len(GapsOf(n)) \in Nat /\ DOMAIN GapsOf(n) = 1 .. Len(GapsOf(n))
         /\ \A result \in request.answers :
               /\ Len(result.timings) \in Nat
               /\ DOMAIN result.timings = 1 .. Len(result.timings)
               /\ Len(result.storyline) \in Nat
               /\ DOMAIN result.storyline = 1 .. Len(result.storyline)
  <1>1. ASSUME NEW n
        PROVE  GapsOf(n) \in Seq(STRING)
    <2>1. CASE n \in DOMAIN AnalysisDimension
      <3>1. AnalysisDimension[n] \in Dimensions
        BY <2>1 DEF Dimensions
      <3> QED BY <2>1, <3>1, RequestsAssumption DEF GapsOf, Claim
    <2>2. CASE n \notin DOMAIN AnalysisDimension
      BY <2>2, RequestsAssumption DEF GapsOf
    <2> QED BY <2>1, <2>2
  <1>2. \A n : Len(GapsOf(n)) \in Nat /\ DOMAIN GapsOf(n) = 1 .. Len(GapsOf(n))
    BY <1>1, LenProperties
  <1>3. ASSUME NEW result \in request.answers
        PROVE  /\ Len(result.timings) \in Nat
               /\ DOMAIN result.timings = 1 .. Len(result.timings)
               /\ Len(result.storyline) \in Nat
               /\ DOMAIN result.storyline = 1 .. Len(result.storyline)
    <2>1. /\ result.timings \in Seq([need : STRING, timing : STRING])
          /\ result.storyline \in Seq(StoryRow)
      BY RequestsAssumption
    <2> QED BY <2>1, LenProperties
  <1>4. /\ request.objective \in ProposalObjective \cup {NoObjective}
        /\ request.objections \subseteq ObjectionDraft
    BY RequestsAssumption
  <1> QED BY <1>2, <1>3, <1>4

-----------------------------------------------------------------------------
(* The gaps *)

(* A timing is one the answer gave this very text, or none. *)
LEMMA ClassifiedFacts ==
  ASSUME NEW timings, NEW need, Len(timings) \in Nat,
         DOMAIN timings = 1 .. Len(timings)
  PROVE  /\ classified(timings, need) \in EvidenceTiming
         /\ \/ classified(timings, need) = "UNCLASSIFIED"
            \/ \E t \in DOMAIN timings :
                  /\ timings[t].need = need
                  /\ timings[t].timing = classified(timings, need)
  <1> DEFINE of == {t \in DOMAIN timings : /\ timings[t].need = need
                                           /\ timings[t].timing \in EvidenceTiming}
             last == CHOOSE t \in of : \A u \in of : u <= t
  <1>1. CASE of = {}
    BY <1>1 DEF classified, EvidenceTiming
  <1>2. CASE of # {}
    <2>1. of \in SUBSET (1 .. Len(timings))
      OBVIOUS
    <2>2. \E t \in of : \A u \in of : u <= t
      <3> HIDE DEF of
      <3> QED BY <1>2, <2>1, LastPosition
    <2>3. last \in of
      BY <2>2
    <2>4. classified(timings, need) = timings[last].timing
      BY <1>2 DEF classified
    <2> QED BY <2>3, <2>4
  <1> QED BY <1>1, <1>2

(* Where a gap is written down for the first time. *)
LEMMA FirstIsRecorded ==
  ASSUME request \in Requests, NEW g \in AllGaps
  PROVE  \E p \in FirstRecorded : Gap(p) = Gap(g)
  <1> DEFINE same == {p \in AllGaps : Gap(p) = Gap(g)}
             lists == {n \in Nat : \E i \in Nat : <<n, i>> \in same}
  <1>1. \A p \in AllGaps :
           /\ p = <<p[1], p[2]>>
           /\ p[1] \in 1 .. Len(AnalysisDimension) + 1 /\ p[1] \in Nat /\ p[2] \in Nat
    <2> TAKE p \in AllGaps
    <2>1. PICK n \in GapLists : p \in {n} \X DOMAIN GapsOf(n)
      BY DEF AllGaps
    <2>2. DOMAIN GapsOf(n) \subseteq Nat
      BY RequestFacts
    <2>3. n \in Nat
      BY DEF GapLists, AnalysisDimension
    <2> QED BY <2>1, <2>2, <2>3 DEF GapLists
  <1>2. g[1] \in lists
    BY <1>1
  <1>3. PICK n \in lists : \A m \in lists : n <= m
    <2> HIDE DEF lists
    <2>1. lists \in SUBSET Nat
      BY DEF lists
    <2> QED BY <2>1, <1>2, LeastNat
  <1> DEFINE places == {i \in Nat : <<n, i>> \in same}
  <1>4. PICK i \in places : \A j \in places : i <= j
    <2>1. places \in SUBSET Nat /\ places # {}
      BY <1>3
    <2> HIDE DEF places
    <2> QED BY <2>1, LeastNat
  <1>5. <<n, i>> \in same
    OBVIOUS
  <1>6. ASSUME NEW q \in AllGaps, Gap(q) = Gap(g), ReadBefore(q, <<n, i>>)
        PROVE  FALSE
    <2>1. q \in same /\ q = <<q[1], q[2]>> /\ q[1] \in Nat /\ q[2] \in Nat
      BY <1>1, <1>6
    <2>2. q[1] \in lists
      BY <2>1
    <2>3. n <= q[1] /\ n \in Nat
      BY <2>2, <1>3
    <2>4. q[1] = n /\ q[2] < i
      BY <2>1, <2>3, <1>6 DEF ReadBefore
    <2>5. q[2] \in places
      BY <2>1, <2>4
    <2> QED BY <2>4, <2>5, <2>1, <1>4
  <1>7. <<n, i>> \in FirstRecorded
    BY <1>5, <1>6 DEF FirstRecorded
  <1> QED BY <1>5, <1>7

(* No two of them are the same gap. *)
LEMMA FirstIsUnique ==
  ASSUME request \in Requests, NEW p \in FirstRecorded, NEW q \in FirstRecorded,
         Gap(p) = Gap(q)
  PROVE  p = q
  <1>1. \A r \in AllGaps : r = <<r[1], r[2]>> /\ r[1] \in Nat /\ r[2] \in Nat
    <2> TAKE r \in AllGaps
    <2>1. PICK n \in GapLists : r \in {n} \X DOMAIN GapsOf(n)
      BY DEF AllGaps
    <2>2. DOMAIN GapsOf(n) \subseteq Nat
      BY RequestFacts
    <2>3. n \in Nat
      BY DEF GapLists, AnalysisDimension
    <2> QED BY <2>1, <2>2, <2>3
  <1>2. p \in AllGaps /\ q \in AllGaps
    BY DEF FirstRecorded
  <1>3. ~ReadBefore(p, q) /\ ~ReadBefore(q, p)
    BY <1>2 DEF FirstRecorded
  <1>4. p[1] = q[1] /\ p[2] = q[2]
    BY <1>1, <1>2, <1>3 DEF ReadBefore
  <1> QED BY <1>1, <1>2, <1>4

LEMMA ListsComeLater == \A p \in AllGaps : p \notin {<<0, 1>>, <<0, 2>>}
  <1> SUFFICES ASSUME NEW p \in AllGaps PROVE p[1] # 0
    OBVIOUS
  <1>1. PICK n \in GapLists : p \in {n} \X DOMAIN GapsOf(n)
    BY DEF AllGaps
  <1>2. n # 0
    BY DEF GapLists
  <1> QED BY <1>1, <1>2

(* What a strategy asks for: every gap, no gap twice beside its own two    *)
(* needs, nothing sooner than a row says, and each claim it went without.  *)
NeedsAreTrue(needs, timings) ==
    /\ \A g \in AllGaps : \E n \in DOMAIN needs : needs[n].need = Gap(g)
    /\ \A m, n \in DOMAIN needs :
          needs[m].need = needs[n].need =>
              m = n \/ {m, n} \cap {<<0, 1>>, <<0, 2>>} # {}
    /\ \A n \in DOMAIN needs :
          /\ needs[n].timing \in EvidenceTiming
          /\ \/ needs[n].timing = "UNCLASSIFIED"
             \/ needs[n] \in {AdvantageNeed, PropositionNeed}
             \/ \E t \in DOMAIN timings :
                   /\ timings[t].need = needs[n].need
                   /\ timings[t].timing = needs[n].timing
    /\ \A d \in {"COMPETITIVE_ADVANTAGE", "VALUE_PROPOSITION"} :
          d \notin established => \E n \in DOMAIN needs : needs[n].dimension = d

LEMMA NeedsFacts ==
  ASSUME request \in Requests, NEW timings, Len(timings) \in Nat,
         DOMAIN timings = 1 .. Len(timings)
  PROVE  NeedsAreTrue(evidence_needs(timings), timings)
  <1> DEFINE carried == carry_forward_gaps(timings)
             inserted == {p \in {<<0, 1>>, <<0, 2>>} :
                            Foremost(p).dimension \notin established}
             needs == evidence_needs(timings)
  <1>1. /\ DOMAIN carried = FirstRecorded
        /\ \A p \in FirstRecorded :
              /\ carried[p].need = Gap(p)
              /\ carried[p].timing = classified(timings, Gap(p))
    BY DEF carry_forward_gaps, Needed
  <1> HIDE DEF carried
  <1>2. /\ DOMAIN needs = inserted \cup FirstRecorded
        /\ \A p \in inserted : needs[p] = Foremost(p)
        /\ \A p \in FirstRecorded : p \notin inserted => needs[p] = carried[p]
    BY <1>1 DEF evidence_needs, carried
  <1>3. FirstRecorded \cap {<<0, 1>>, <<0, 2>>} = {}
    BY ListsComeLater DEF FirstRecorded
  <1>4. \A p \in FirstRecorded : p \notin inserted
    BY <1>3
  <1>5. \A p \in inserted :
           /\ p \in {<<0, 1>>, <<0, 2>>}
           /\ Foremost(p) \in {AdvantageNeed, PropositionNeed}
    BY DEF Foremost
  <1>6. /\ AdvantageNeed.timing = "BEFORE_PROPOSAL"
        /\ PropositionNeed.timing = "BEFORE_PROPOSAL"
        /\ AdvantageNeed.dimension = "COMPETITIVE_ADVANTAGE"
        /\ PropositionNeed.dimension = "VALUE_PROPOSITION"
    BY DEF AdvantageNeed, PropositionNeed, Needed
  <1>7. /\ Foremost(<<0, 1>>) = AdvantageNeed
        /\ Foremost(<<0, 2>>) = PropositionNeed
    BY DEF Foremost
  <1>8. /\ "COMPETITIVE_ADVANTAGE" \notin established => <<0, 1>> \in inserted
        /\ "VALUE_PROPOSITION" \notin established => <<0, 2>> \in inserted
    BY <1>6, <1>7
  <1> HIDE DEF inserted, needs
  <1>9. ASSUME NEW g \in AllGaps
        PROVE  \E n \in DOMAIN needs : needs[n].need = Gap(g)
    <2>1. PICK p \in FirstRecorded : Gap(p) = Gap(g)
      BY FirstIsRecorded
    <2> QED BY <2>1, <1>1, <1>2, <1>4
  <1>10. ASSUME NEW m \in DOMAIN needs, NEW n \in DOMAIN needs,
                needs[m].need = needs[n].need,
                {m, n} \cap {<<0, 1>>, <<0, 2>>} = {}
         PROVE  m = n
    <2>1. m \in FirstRecorded /\ n \in FirstRecorded
      BY <1>2, <1>5, <1>10
    <2>2. Gap(m) = Gap(n)
      BY <2>1, <1>1, <1>2, <1>4, <1>10
    <2> QED BY <2>1, <2>2, FirstIsUnique
  <1>11. ASSUME NEW n \in DOMAIN needs
         PROVE  /\ needs[n].timing \in EvidenceTiming
                /\ \/ needs[n].timing = "UNCLASSIFIED"
                   \/ needs[n] \in {AdvantageNeed, PropositionNeed}
                   \/ \E t \in DOMAIN timings :
                         /\ timings[t].need = needs[n].need
                         /\ timings[t].timing = needs[n].timing
    <2>1. CASE n \in inserted
      BY <2>1, <1>2, <1>5, <1>6 DEF EvidenceTiming
    <2>2. CASE n \in FirstRecorded
      <3>1. /\ needs[n].need = Gap(n)
            /\ needs[n].timing = classified(timings, Gap(n))
        BY <2>2, <1>1, <1>2, <1>4
      <3> QED BY <3>1, ClassifiedFacts
    <2> QED BY <2>1, <2>2, <1>2
  <1>12. \A d \in {"COMPETITIVE_ADVANTAGE", "VALUE_PROPOSITION"} :
            d \notin established => \E n \in DOMAIN needs : needs[n].dimension = d
    BY <1>2, <1>6, <1>7, <1>8
  <1>13. NeedsAreTrue(needs, timings)
    BY <1>9, <1>10, <1>11, <1>12 DEF NeedsAreTrue
  <1> QED BY <1>13 DEF needs

-----------------------------------------------------------------------------
(* What is drafted *)

(* The caller's objective, the one suggested with nothing unmet, or none.  *)
LEMMA ObjectiveCases ==
  ASSUME NEW suggested
  PROVE  LET chosen == resolve_objective(suggested) IN
         \/ /\ request.objective # NoObjective
            /\ chosen = Objective(request.objective, "HUMAN")
         \/ /\ request.objective = NoObjective /\ suggested \in ProposalObjective
            /\ unmet_requirements(suggested) = {}
            /\ chosen = Objective(suggested, "AI_SUGGESTED")
         \/ /\ request.objective = NoObjective
            /\ chosen = Objective(NoObjective, NoObjective)
  <1>1. CASE request.objective # NoObjective
    BY <1>1, Zenon DEF resolve_objective
  <1>2. CASE /\ request.objective = NoObjective
             /\ suggested \in ProposalObjective
             /\ unmet_requirements(suggested) = {}
    BY <1>2, Zenon DEF resolve_objective
  <1>3. CASE /\ request.objective = NoObjective
             /\ ~(/\ suggested \in ProposalObjective
                  /\ unmet_requirements(suggested) = {})
    BY <1>3, Zenon DEF resolve_objective
  <1> QED BY <1>1, <1>2, <1>3

LEMMA NoneIsNoObjective == NoObjective \notin ProposalObjective
  BY DEF NoObjective, ProposalObjective, OBJECTIVE_REQUIREMENTS

(* A statement that survives cites settled claims, has its figures from    *)
(* them and offers what the caller has.                                    *)
LEMMA StatementFacts ==
  ASSUME NEW draft, NEW required, NEW part \in resolve_statement(draft, required)
  PROVE  /\ part.dimensions # {} /\ part.dimensions \subseteq established
         /\ part.solution_element_refs # {}
         /\ part.solution_element_refs \subseteq request.elements
         /\ \A figure \in part.figures :
               \E d \in part.dimensions : figure \in Claim(d).figures
  BY DEF resolve_statement, resolve_elements, unsourced_figures

(* Every type of step once, every step on settled claims, and no           *)
(* differentiation without the advantage.                                  *)
LEMMA StorylineFacts ==
  ASSUME NEW story, NEW objective, Len(story) \in Nat,
         DOMAIN story = 1 .. Len(story)
  PROVE  LET steps == storyline(story, objective) IN
         /\ \A n \in DOMAIN steps : steps[n].dimensions \subseteq established
         /\ \A m, n \in DOMAIN steps :
               steps[m].step_type = steps[n].step_type => m = n
         /\ \A n \in DOMAIN steps :
               steps[n].step_type = "DIFFERENTIATION" =>
                   "COMPETITIVE_ADVANTAGE" \in established
  <1> DEFINE standing == {n \in StorylineRows(story) :
                            /\ story[n].step_type \in StoryStepType
                            /\ step_stands(story[n], objective)}
             kept == {n \in standing :
                        ~\E m \in standing :
                            m < n /\ story[m].step_type = story[n].step_type}
             steps == storyline(story, objective)
  <1>1. /\ DOMAIN steps = kept
        /\ \A n \in kept : steps[n] = resolve_step(story[n])
    BY DEF storyline
  <1> HIDE DEF steps
  <1>2. \A n \in kept : /\ steps[n].step_type = story[n].step_type
                        /\ steps[n].dimensions \subseteq established
    <2> HIDE DEF kept
    <2> TAKE n \in kept
    <2>1. steps[n] = resolve_step(story[n])
      BY <1>1
    <2> QED BY <2>1 DEF resolve_step
  <1>3. \A n \in standing : n \in Nat /\ step_stands(story[n], objective)
    BY DEF StorylineRows
  <1>4. ASSUME NEW m \in kept, NEW n \in kept,
               story[m].step_type = story[n].step_type
        PROVE  m = n
    <2>1. m \in Nat /\ n \in Nat /\ ~(m < n) /\ ~(n < m)
      BY <1>3, <1>4
    <2> QED BY <2>1
  <1>5. \A n \in kept : story[n].step_type = "DIFFERENTIATION" =>
                            "COMPETITIVE_ADVANTAGE" \in established
    BY <1>3 DEF step_stands
  <1> HIDE DEF kept
  <1>6. /\ \A n \in DOMAIN steps : steps[n].dimensions \subseteq established
        /\ \A m, n \in DOMAIN steps :
               steps[m].step_type = steps[n].step_type => m = n
        /\ \A n \in DOMAIN steps :
               steps[n].step_type = "DIFFERENTIATION" =>
                   "COMPETITIVE_ADVANTAGE" \in established
    BY <1>1, <1>2, <1>4, <1>5
  <1> QED BY <1>6 DEF steps

(* An objection that passes its check, on settled claims. *)
SoundObjection ==
    {o \in [basis : ObjectionBasis, dimensions : SUBSET established,
            response : BOOLEAN, response_dimensions : SUBSET established,
            admits : BOOLEAN] : _check_objection(o)}

(* Whatever was expected of the client, resolve_objection makes it sound   *)
(* or drops it.                                                            *)
LEMMA ObjectionFacts ==
  ASSUME NEW draft \in ObjectionDraft
  PROVE  resolve_objection(draft) \in Seq(SoundObjection)
  <1> DEFINE dimensions == draft.dimensions \cap established
             rests_on == draft.response_dimensions \cap established
             response == draft.response = "given"
             basis == IF dimensions = {} \/ draft.basis \notin ObjectionBasis
                      THEN "ANTICIPATED" ELSE draft.basis
             o == [basis |-> basis, dimensions |-> dimensions,
                   response |-> response, response_dimensions |-> rests_on,
                   admits |-> draft.admits \/ (response /\ rests_on = {})]
  <1>1. /\ basis \in ObjectionBasis
        /\ basis = "EVIDENCE_BACKED" => dimensions # {}
    BY DEF ObjectionBasis
  <1>2. (draft.admits \/ (response /\ rests_on = {})) \in BOOLEAN
    OBVIOUS
  <1>3. o \in [basis : ObjectionBasis, dimensions : SUBSET established,
               response : BOOLEAN, response_dimensions : SUBSET established,
               admits : BOOLEAN]
    BY <1>1, <1>2
  <1>4. _check_objection(o)
    BY <1>1 DEF _check_objection
  <1>5. o \in SoundObjection
    BY <1>3, <1>4 DEF SoundObjection
  <1>6. resolve_objection(draft) = IF draft.text # "given" THEN <<>> ELSE <<o>>
    BY DEF resolve_objection
  <1> HIDE DEF o
  <1> QED BY <1>5, <1>6

-----------------------------------------------------------------------------
(* The inductive invariant: a strategy is what the rules make of the first *)
(* answer, with sound objections; what was decided of it was its check.    *)

IsDraft ==
    /\ answer \in request.answers /\ request.analysis.identified
    /\ strategy.objections \in Seq(SoundObjection)
    /\ strategy = [Drafted(answer) EXCEPT !.objections = strategy.objections]

Inv ==
    /\ request \in Requests
    /\ at \in {"proposing", "objecting", "objections", "saving", "done", "failed"}
    /\ outcome \in {"none", "drafted", "refused"}
    /\ rows \in 0 .. MaxObjections
    /\ strategy = Nothing \/ IsDraft
    /\ at = "proposing" => strategy = Nothing
    /\ at \in {"objecting", "objections", "saving"} => IsDraft
    /\ at \in {"proposing", "objecting", "objections"} =>
          outcome = "none" /\ saved = {}
    /\ outcome # "none" =>
          /\ IsDraft
          /\ outcome = "drafted" <=> check_proposal_strategy(strategy)
    /\ at = "saving" => outcome = "drafted" /\ saved = {}
    /\ saved \subseteq {strategy}
    /\ saved # {} => outcome = "drafted"

(* The rules of the request do not change during a call. *)
LEMMA RulesStay ==
  ASSUME request' = request
  PROVE  /\ SoundObjection' = SoundObjection
         /\ \A a : Drafted(a)' = Drafted(a)
         /\ \A s : check_proposal_strategy(s)' = check_proposal_strategy(s)
  <1>1. established' = established
    BY DEF established, Claim
  <1>2. SoundObjection' = SoundObjection
    BY <1>1 DEF SoundObjection
  <1>3. \A a : Drafted(a)' = Drafted(a)
    <2>1. \A o : resolve_objective(o)' = resolve_objective(o)
      BY <1>1 DEF resolve_objective, unmet_requirements
    <2>2. \A n : GapsOf(n)' = GapsOf(n)
      BY DEF GapsOf, Claim
    <2>3. AllGaps' = AllGaps /\ \A p : Gap(p)' = Gap(p)
      BY <2>2 DEF AllGaps, Gap
    <2>4. FirstRecorded' = FirstRecorded
      BY <2>3 DEF FirstRecorded
    <2>5. \A timings : carry_forward_gaps(timings)' = carry_forward_gaps(timings)
      BY <2>3, <2>4 DEF carry_forward_gaps
    <2>6. \A timings : evidence_needs(timings)' = evidence_needs(timings)
      BY <2>5, <1>1 DEF evidence_needs
    <2>7. \A refs : resolve_elements(refs)' = resolve_elements(refs)
      BY DEF resolve_elements
    <2>8. \A figures, dimensions :
             unsourced_figures(figures, dimensions)'
               = unsourced_figures(figures, dimensions)
      BY DEF unsourced_figures, Claim
    <2>9. \A draft, required :
             resolve_statement(draft, required)' = resolve_statement(draft, required)
      BY <1>1, <2>7, <2>8 DEF resolve_statement
    <2>10. \A raw, objective : /\ step_stands(raw, objective)' = step_stands(raw, objective)
                               /\ resolve_step(raw)' = resolve_step(raw)
      BY <1>1 DEF step_stands, resolve_step
    <2>11. \A story, objective : storyline(story, objective)' = storyline(story, objective)
      BY <2>10 DEF storyline
    <2> QED BY <1>1, <2>1, <2>6, <2>7, <2>9, <2>11 DEF Drafted
  <1>4. \A s : check_proposal_strategy(s)' = check_proposal_strategy(s)
    BY <1>1 DEF check_proposal_strategy, _check_dimension_refs
  <1> QED BY <1>2, <1>3, <1>4

THEOREM StrategyInvariance == Spec => []Inv
  <1>1. Init => Inv
    BY ProposalPolicyAssumption DEF Init, Inv
  <1>2. Inv /\ [Next]_vars => Inv'
    <2> SUFFICES ASSUME Inv, [Next]_vars PROVE Inv'
      OBVIOUS
    <2>1. CASE propose_strategy
      <3>1. /\ at = "proposing" /\ request' = request /\ rows' = rows
            /\ outcome' = outcome /\ saved' = saved
            /\ \/ at' = "done" /\ answer' = answer /\ strategy' = strategy
               \/ at' = "failed" /\ answer' = answer /\ strategy' = strategy
               \/ /\ at' = "objecting" /\ answer' \in request.answers
                  /\ request.analysis.identified /\ strategy' = Drafted(answer')
        BY <2>1 DEF propose_strategy
      <3>2. /\ SoundObjection' = SoundObjection /\ \A a : Drafted(a)' = Drafted(a)
        BY <3>1, RulesStay
      <3>3. CASE at' \in {"done", "failed"} /\ strategy' = strategy
        BY <3>1, <3>3 DEF Inv
      <3>4. CASE /\ at' = "objecting" /\ answer' \in request.answers
                 /\ request.analysis.identified /\ strategy' = Drafted(answer')
        <4>1. strategy'.objections = <<>>
          BY <3>4 DEF Drafted
        <4>2. strategy' = [strategy' EXCEPT !.objections = <<>>]
          <5> DEFINE s == Drafted(answer')
          <5>1. s = [f \in DOMAIN s |-> s[f]] /\ s.objections = <<>>
            BY DEF Drafted
          <5> HIDE DEF s
          <5>2. s = [s EXCEPT !.objections = <<>>]
            BY <5>1
          <5> QED BY <5>2, <3>4 DEF s
        <4>3. IsDraft'
          BY <3>1, <3>2, <3>4, <4>1, <4>2 DEF IsDraft
        <4> QED BY <3>1, <3>4, <4>3 DEF Inv
      <3> QED BY <3>1, <3>3, <3>4
    <2>2. CASE anticipate_objections
      <3>1. /\ at = "objecting" /\ at' \in {"objections", "failed"}
            /\ request' = request /\ answer' = answer /\ strategy' = strategy
            /\ rows' = rows /\ outcome' = outcome /\ saved' = saved
        BY <2>2 DEF anticipate_objections
      <3>2. IsDraft'
        BY <3>1, RulesStay DEF Inv, IsDraft
      <3> QED BY <3>1, <3>2 DEF Inv
    <2>3. CASE read_objection
      <3>1. /\ at = "objections" /\ rows < MaxObjections /\ rows' = rows + 1
            /\ request' = request /\ at' = at /\ answer' = answer
            /\ outcome' = outcome /\ saved' = saved
        BY <2>3 DEF read_objection
      <3>2. PICK draft \in request.objections :
               strategy' = [strategy EXCEPT !.objections =
                              strategy.objections \o resolve_objection(draft)]
        BY <2>3 DEF read_objection
      <3>3. IsDraft /\ request \in Requests
        BY <3>1 DEF Inv
      <3>4. resolve_objection(draft) \in Seq(SoundObjection)
        <4>1. draft \in ObjectionDraft
          BY <3>3, RequestFacts
        <4> QED BY <4>1, ObjectionFacts
      <3>5. strategy.objections \o resolve_objection(draft) \in Seq(SoundObjection)
        BY <3>3, <3>4, ConcatProperties DEF IsDraft
      <3>6. /\ strategy = [Drafted(answer) EXCEPT !.objections = strategy.objections]
            /\ "objections" \in DOMAIN Drafted(answer)
        BY <3>3 DEF IsDraft, Drafted
      <3>7. /\ strategy'.objections
                 = strategy.objections \o resolve_objection(draft)
            /\ strategy' = [Drafted(answer) EXCEPT !.objections
                              = strategy.objections \o resolve_objection(draft)]
        BY <3>2, <3>6
      <3>8. IsDraft'
        BY <3>1, <3>3, <3>5, <3>7, RulesStay DEF IsDraft
      <3>9. rows' \in 0 .. MaxObjections
        BY <3>1, ProposalPolicyAssumption DEF Inv
      <3> QED BY <3>1, <3>8, <3>9 DEF Inv
    <2>4. CASE check
      <3>1. /\ at = "objections" /\ request' = request /\ answer' = answer
            /\ strategy' = strategy /\ rows' = rows /\ saved' = saved
            /\ IF check_proposal_strategy(strategy)
               THEN outcome' = "drafted" /\ at' = "saving"
               ELSE outcome' = "refused" /\ at' = "done"
        BY <2>4 DEF check
      <3>2. IsDraft'
        BY <3>1, RulesStay DEF Inv, IsDraft
      <3>3. check_proposal_strategy(strategy)' = check_proposal_strategy(strategy)
        BY <3>1, RulesStay
      <3>4. CASE check_proposal_strategy(strategy)
        <4>1. outcome' = "drafted" /\ at' = "saving" /\ saved' = {}
          BY <3>1, <3>4 DEF Inv
        <4> QED BY <3>1, <3>2, <3>3, <4>1 DEF Inv
      <3>5. CASE ~check_proposal_strategy(strategy)
        <4>1. outcome' = "refused" /\ at' = "done" /\ saved' = {}
          BY <3>1, <3>5 DEF Inv
        <4> QED BY <3>1, <3>2, <3>3, <4>1 DEF Inv
      <3> QED BY <3>4, <3>5
    <2>5. CASE persist
      <3>1. /\ at = "saving" /\ request' = request /\ answer' = answer
            /\ strategy' = strategy /\ rows' = rows /\ outcome' = outcome
            /\ \/ saved' = saved \cup {strategy} /\ at' = "done"
               \/ at' = "failed" /\ saved' = saved
        BY <2>5 DEF persist
      <3>2. IsDraft'
        BY <3>1, RulesStay DEF Inv, IsDraft
      <3>3. outcome' = "drafted" <=> check_proposal_strategy(strategy)'
        BY <3>1, RulesStay DEF Inv
      <3> QED BY <3>1, <3>2, <3>3 DEF Inv
    <2>6. CASE UNCHANGED vars
      <3>1. /\ at' = at /\ request' = request /\ answer' = answer
            /\ strategy' = strategy /\ rows' = rows /\ outcome' = outcome
            /\ saved' = saved
        BY <2>6 DEF vars
      <3>2. /\ IsDraft' = IsDraft
            /\ check_proposal_strategy(strategy)' = check_proposal_strategy(strategy)
        BY <3>1, RulesStay DEF IsDraft
      <3> QED BY <3>1, <3>2 DEF Inv
    <2> QED BY <2>1, <2>2, <2>3, <2>4, <2>5, <2>6 DEF Next
  <1> QED BY <1>1, <1>2, PTL DEF Spec
-----------------------------------------------------------------------------
(* What the invariant promises *)

(* The parts of a drafted strategy, one by one. *)
LEMMA DraftParts ==
  ASSUME IsDraft
  PROVE  LET chosen == resolve_objective(answer.objective) IN
         /\ strategy.objective = chosen.objective
         /\ strategy.objective_source = chosen.source
         /\ strategy.selected = resolve_elements(answer.refs)
         /\ strategy.value_proposition =
               IF "VALUE_PROPOSITION" \notin established THEN {}
               ELSE resolve_statement(answer.value_proposition,
                                      VALUE_PROPOSITION_REQUIREMENTS)
         /\ strategy.key_message =
               resolve_statement(answer.key_message, KEY_MESSAGE_REQUIREMENTS)
         /\ strategy.storyline = storyline(answer.storyline, chosen.objective)
         /\ strategy.evidence_needs = evidence_needs(answer.timings)
         /\ strategy.status = IF chosen.objective = NoObjective
                              THEN "NOT_STARTED" ELSE "STRATEGY_DRAFTED"
  <1> DEFINE s == Drafted(answer)
  <1>1. strategy = [s EXCEPT !.objections = strategy.objections]
    BY DEF IsDraft
  <1>2. DOMAIN s = {"objective", "objective_source", "selected",
                    "value_proposition", "key_message", "storyline",
                    "objections", "evidence_needs", "status"}
    BY DEF Drafted
  <1> HIDE DEF s
  <1>3. /\ strategy.objective = s.objective
        /\ strategy.objective_source = s.objective_source
        /\ strategy.selected = s.selected
        /\ strategy.value_proposition = s.value_proposition
        /\ strategy.key_message = s.key_message
        /\ strategy.storyline = s.storyline
        /\ strategy.evidence_needs = s.evidence_needs
        /\ strategy.status = s.status
    BY <1>1, <1>2
  <1> QED BY <1>3 DEF s, Drafted

(* The objective of a draft is the caller's or a carried suggestion. *)
LEMMA DraftObjective ==
  ASSUME IsDraft, request \in Requests
  PROVE  \/ /\ strategy.objective = request.objective
            /\ strategy.objective \in ProposalObjective
            /\ strategy.objective_source = "HUMAN"
         \/ /\ request.objective = NoObjective
            /\ strategy.objective = answer.objective
            /\ strategy.objective \in ProposalObjective
            /\ unmet_requirements(strategy.objective) = {}
            /\ strategy.objective_source = "AI_SUGGESTED"
         \/ /\ request.objective = NoObjective
            /\ strategy.objective = NoObjective
            /\ strategy.objective_source = NoObjective
  <1>1. /\ strategy.objective = resolve_objective(answer.objective).objective
        /\ strategy.objective_source = resolve_objective(answer.objective).source
    BY DraftParts
  <1>2. request.objective \in ProposalObjective \cup {NoObjective}
    BY RequestFacts
  <1>3. \A o, w : Objective(o, w).objective = o /\ Objective(o, w).source = w
    BY DEF Objective
  <1> QED BY <1>1, <1>2, <1>3, ObjectiveCases

(* The figures, the citations and the offer of a drafted sentence. *)
LEMMA DraftStatements ==
  ASSUME IsDraft,
         NEW part \in strategy.value_proposition \cup strategy.key_message
  PROVE  /\ part.dimensions # {} /\ part.dimensions \subseteq established
         /\ part.solution_element_refs # {}
         /\ \A figure \in part.figures :
               \E d \in part.dimensions : figure \in Claim(d).figures
  <1>1. CASE part \in strategy.value_proposition
    <2>1. part \in resolve_statement(answer.value_proposition,
                                     VALUE_PROPOSITION_REQUIREMENTS)
      BY <1>1, DraftParts
    <2> QED BY <2>1, StatementFacts
  <1>2. CASE part \in strategy.key_message
    <2>1. part \in resolve_statement(answer.key_message,
                                     KEY_MESSAGE_REQUIREMENTS)
      BY <1>2, DraftParts
    <2> QED BY <2>1, StatementFacts
  <1> QED BY <1>1, <1>2

(* What a draft asks for and in which steps it argues. *)
LEMMA DraftLists ==
  ASSUME IsDraft, request \in Requests
  PROVE  /\ NeedsAreTrue(strategy.evidence_needs, answer.timings)
         /\ \A n \in DOMAIN strategy.storyline :
               strategy.storyline[n].dimensions \subseteq established
         /\ \A m, n \in DOMAIN strategy.storyline :
               strategy.storyline[m].step_type = strategy.storyline[n].step_type
                  => m = n
         /\ \A n \in DOMAIN strategy.storyline :
               strategy.storyline[n].step_type = "DIFFERENTIATION" =>
                   "COMPETITIVE_ADVANTAGE" \in established
  <1>1. /\ Len(answer.timings) \in Nat
        /\ DOMAIN answer.timings = 1 .. Len(answer.timings)
        /\ Len(answer.storyline) \in Nat
        /\ DOMAIN answer.storyline = 1 .. Len(answer.storyline)
    BY RequestFacts DEF IsDraft
  <1>2. NeedsAreTrue(strategy.evidence_needs, answer.timings)
    BY <1>1, NeedsFacts, DraftParts
  <1> DEFINE objective == resolve_objective(answer.objective).objective
  <1>3. strategy.storyline = storyline(answer.storyline, objective)
    BY DraftParts
  <1> HIDE DEF objective
  <1> QED BY <1>1, <1>2, <1>3, StorylineFacts

(* Every objection of a draft is sound. *)
LEMMA DraftObjections ==
  ASSUME IsDraft, NEW n \in DOMAIN strategy.objections
  PROVE  /\ _check_objection(strategy.objections[n])
         /\ strategy.objections[n].dimensions \subseteq established
         /\ strategy.objections[n].response_dimensions \subseteq established
  <1>1. strategy.objections[n] \in SoundObjection
    BY ElementOfSeq, LenProperties DEF IsDraft
  <1> QED BY <1>1 DEF SoundObjection

(* So the rules a draft can break are the offer of its sentences and those *)
(* about what the caller gave.                                             *)
LEMMA OnlyKnownCausesFail ==
  ASSUME IsDraft, request \in Requests
  PROVE  check_proposal_strategy(strategy) <=>
            /\ request.analysis.named /\ strategy.selected \cap request.blank = {}
            /\ \A part \in strategy.value_proposition \cup strategy.key_message :
                  part.solution_element_refs \subseteq strategy.selected
  <1>1. /\ (strategy.objective = NoObjective)
               = (strategy.objective_source = NoObjective)
        /\ strategy.objective = NoObjective => strategy.status = "NOT_STARTED"
    <2>1. strategy.objective = NoObjective => strategy.status = "NOT_STARTED"
      BY DraftParts
    <2>2. "HUMAN" # NoObjective /\ "AI_SUGGESTED" # NoObjective
      BY DEF NoObjective
    <2> QED BY <2>1, <2>2, DraftObjective, NoneIsNoObjective
  <1>2. \A part \in strategy.value_proposition \cup strategy.key_message :
           /\ part.dimensions # {} /\ part.dimensions \subseteq established
           /\ part.solution_element_refs # {}
    BY DraftStatements
  <1>3. \A n \in DOMAIN strategy.objections :
           /\ _check_objection(strategy.objections[n])
           /\ strategy.objections[n].dimensions
                 \cup strategy.objections[n].response_dimensions
                    \subseteq established
    BY DraftObjections
  <1>4. _check_dimension_refs(strategy)
    BY <1>2, <1>3, DraftLists DEF _check_dimension_refs
  <1>5. \A m, n \in DOMAIN strategy.storyline :
           strategy.storyline[m].step_type = strategy.storyline[n].step_type
              => m = n
    BY DraftLists
  <1>6. check_proposal_strategy(strategy) <=>
           /\ request.analysis.named /\ strategy.selected \cap request.blank = {}
           /\ \A part \in strategy.value_proposition \cup strategy.key_message :
                 _check_statement(part, strategy.selected)
    <2>1. request.analysis.identified
      BY DEF IsDraft
    <2> QED BY <2>1, <1>1, <1>3, <1>4, <1>5 DEF check_proposal_strategy
  <1> QED BY <1>2, <1>6 DEF _check_statement

(* Types: an objective has a source exactly when there is one, and every   *)
(* need has a timing of the list (models.py).                              *)
THEOREM TypeCorrect == Spec => []TypeOK
  <1>1. Inv => TypeOK
    <2> SUFFICES ASSUME Inv PROVE TypeOK
      OBVIOUS
    <2>1. request \in Requests
      BY DEF Inv
    <2>2. CASE strategy = Nothing
      BY <2>2 DEF Inv, TypeOK, Nothing, NoObjective
    <2>3. CASE IsDraft
      <3>1. <<strategy.objective, strategy.objective_source>> \in
                (ProposalObjective \X {"HUMAN", "AI_SUGGESTED"})
                \cup {<<NoObjective, NoObjective>>}
        BY <2>1, <2>3, DraftObjective
      <3>2. strategy.selected \subseteq request.elements
        BY <2>3, DraftParts DEF resolve_elements
      <3>3. \A n \in DOMAIN strategy.evidence_needs :
               strategy.evidence_needs[n].timing \in EvidenceTiming
        BY <2>1, <2>3, DraftLists DEF NeedsAreTrue
      <3> QED BY <3>1, <3>2, <3>3 DEF Inv, TypeOK
    <2> QED BY <2>2, <2>3 DEF Inv
  <1> QED BY <1>1, StrategyInvariance, PTL

(* What is saved is the draft the check passed. *)
LEMMA SavedIsDraft ==
  ASSUME Inv, NEW s \in saved
  PROVE  s = strategy /\ IsDraft /\ request \in Requests
  BY DEF Inv

(* The objective is the caller's or the one suggested, never one the run   *)
(* chose (objectives.py:90).                                               *)
THEOREM ObjectivesAreGiven == Spec => []ObjectiveIsSomebodys
  <1>1. Inv => ObjectiveIsSomebodys
    <2> SUFFICES ASSUME Inv, NEW s \in saved
                 PROVE  \/ s.objective = request.objective
                        \/ /\ request.objective = NoObjective
                           /\ s.objective = answer.objective
                           /\ s.objective_source = "AI_SUGGESTED"
                           /\ \A group \in OBJECTIVE_REQUIREMENTS[s.objective] :
                                 \E d \in group : Claim(d).settled
      BY DEF ObjectiveIsSomebodys
    <2>1. s = strategy /\ IsDraft /\ request \in Requests
      BY SavedIsDraft
    <2>2. unmet_requirements(s.objective) = {} =>
             \A group \in OBJECTIVE_REQUIREMENTS[s.objective] :
                 \E d \in group : Claim(d).settled
      BY DEF unmet_requirements, established
    <2> QED BY <2>1, <2>2, DraftObjective
  <1> QED BY <1>1, StrategyInvariance, PTL

(* Every gap of the analysis is asked for, and none sooner than a row of   *)
(* the answer says (strategy.py:306).                                      *)
THEOREM GapsAreCarried == Spec => []NoGapIsLostOrPromoted
  <1>1. Inv => NoGapIsLostOrPromoted
    <2>1. ASSUME Inv, NEW s \in saved
          PROVE  NeedsAreTrue(s.evidence_needs, answer.timings)
      BY <2>1, SavedIsDraft, DraftLists
    <2> QED BY <2>1 DEF NoGapIsLostOrPromoted, NeedsAreTrue
  <1> QED BY <1>1, StrategyInvariance, PTL

(* No argument without the claim it needs, and the missing claim is asked  *)
(* for (strategy.py:6).                                                    *)
THEOREM RefusalsHold == Spec => []RefusedClaimsStayRefused
  <1>1. Inv => RefusedClaimsStayRefused
    <2> SUFFICES ASSUME Inv, NEW s \in saved
                 PROVE
                 LET argued == {s.storyline[n].step_type : n \in DOMAIN s.storyline}
                     asked == {s.evidence_needs[n].dimension :
                                  n \in DOMAIN s.evidence_needs}
                 IN  /\ "DIFFERENTIATION" \in argued =>
                           Claim("COMPETITIVE_ADVANTAGE").settled
                     /\ s.value_proposition # {} => Claim("VALUE_PROPOSITION").settled
                     /\ \A d \in {"COMPETITIVE_ADVANTAGE", "VALUE_PROPOSITION"} :
                           ~Claim(d).settled => d \in asked
                     /\ \A n \in DOMAIN s.objections :
                           s.objections[n].basis = "EVIDENCE_BACKED" =>
                               \E d \in s.objections[n].dimensions : Claim(d).settled
      BY DEF RefusedClaimsStayRefused
    <2>1. s = strategy /\ IsDraft /\ request \in Requests
      BY SavedIsDraft
    <2>2. \A d \in established : Claim(d).settled
      BY DEF established
    <2>3. "DIFFERENTIATION" \in {s.storyline[n].step_type : n \in DOMAIN s.storyline}
             => Claim("COMPETITIVE_ADVANTAGE").settled
      BY <2>1, <2>2, DraftLists
    <2>4. s.value_proposition # {} => Claim("VALUE_PROPOSITION").settled
      BY <2>1, <2>2, DraftParts
    <2>5. ASSUME NEW d \in {"COMPETITIVE_ADVANTAGE", "VALUE_PROPOSITION"},
                 ~Claim(d).settled
          PROVE  d \in {s.evidence_needs[n].dimension :
                           n \in DOMAIN s.evidence_needs}
      <3>1. d \notin established
        BY <2>2, <2>5
      <3> QED BY <2>1, <3>1, DraftLists DEF NeedsAreTrue
    <2>6. ASSUME NEW n \in DOMAIN s.objections,
                 s.objections[n].basis = "EVIDENCE_BACKED"
          PROVE  \E d \in s.objections[n].dimensions : Claim(d).settled
      BY <2>1, <2>2, <2>6, DraftObjections DEF _check_objection
    <2> QED BY <2>3, <2>4, <2>5, <2>6
  <1> QED BY <1>1, StrategyInvariance, PTL

(* A figure in a sentence is in a claim it cites (strategy.py:15). *)
THEOREM FiguresHaveSources == Spec => []FiguresAreSourced
  <1>1. Inv => FiguresAreSourced
    BY SavedIsDraft, DraftStatements DEF FiguresAreSourced
  <1> QED BY <1>1, StrategyInvariance, PTL

(* A draft is refused exactly when a sentence of it offers what it did not *)
(* select, when the analysis has no client id, or when an element of the   *)
(* caller's it selected is blank (pipeline.py:124, 234, evidence.py:500,   *)
(* 534, 612).                                                              *)
THEOREM RefusalCausesAreKnown == Spec => []RefusedOnlyForKnownCauses
  <1>1. Inv => RefusedOnlyForKnownCauses
    <2> SUFFICES ASSUME Inv, outcome # "none"
                 PROVE  (outcome = "refused") =
                          (\/ \E part \in strategy.value_proposition
                                            \cup strategy.key_message :
                                 ~(part.solution_element_refs
                                      \subseteq strategy.selected)
                           \/ ~request.analysis.named
                           \/ strategy.selected \cap request.blank # {})
      BY DEF RefusedOnlyForKnownCauses
    <2>1. /\ IsDraft /\ request \in Requests
          /\ outcome = "drafted" <=> check_proposal_strategy(strategy)
          /\ outcome = "drafted" \/ outcome = "refused"
      BY DEF Inv
    <2>2. outcome = "refused" <=> ~check_proposal_strategy(strategy)
      BY <2>1
    <2> QED BY <2>1, <2>2, OnlyKnownCausesFail
  <1> QED BY <1>1, StrategyInvariance, PTL

=============================================================================
