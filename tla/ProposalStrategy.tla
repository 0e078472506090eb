-------------------------- MODULE ProposalStrategy --------------------------
(* One call of run_proposal_strategy (core/proposal/pipeline.py) and the   *)
(* persist after it: one analysed client, what a provider proposes for it, *)
(* what it expects the client to object, and one strategy or none.         *)
(*                                                                         *)
(* A provider answers anything or raises, and nothing of a run that raised *)
(* is kept. Optional parts are sets of at most one. Prose is the figures   *)
(* and the objectives its words contain. Rejections and review flags are   *)
(* reports nothing reads: left out.                                        *)
EXTENDS Integers, Sequences

CONSTANTS
    Requests,            \* what a caller may ask for and a provider answer
    MaxStorylineSteps,   \* policy.max_storyline_steps
    MaxObjections        \* policy.max_objections

ASSUME ProposalPolicyAssumption ==
    MaxStorylineSteps \in Nat /\ MaxObjections \in Nat

VARIABLES
    request,     \* analysis, solution elements, objective, and the answers
    at,          \* the step about to be taken
    answer,      \* what the provider answered first
    strategy,    \* the strategy as far as it has been drafted
    rows,        \* objections read so far
    outcome,     \* what became of the draft
    saved        \* strategies in storage

vars == <<request, at, answer, strategy, rows, outcome, saved>>

-----------------------------------------------------------------------------
(* The analysis *)

(* The dimensions a rule names, in the order an analysis lists them; the   *)
(* other twelve are only carried.                                          *)
AnalysisDimension ==
    <<"BUYER", "DECISION_MAKER", "PROBLEM", "VALUE_PROPOSITION",
      "COMPETITIVE_ADVANTAGE", "VALUE_DRIVER", "PROCUREMENT_CONTEXT">>

Dimensions == {AnalysisDimension[n] : n \in DOMAIN AnalysisDimension}

Claim(d) == request.analysis.claims[d]

(* A claim counts when it says something and cites a finding. *)
established == {d \in Dimensions : Claim(d).settled}

EvidenceTiming ==
    {"BEFORE_PROPOSAL", "BEFORE_PRICING", "BEFORE_CONTRACT", "OPTIONAL",
     "UNCLASSIFIED"}

(* International gaps have no dimension of the analysis. *)
NoDimension == "none"

(* The lists of gaps, in the order they are read: one per dimension, then  *)
(* the international ones.                                                 *)
GapLists == 1 .. Len(AnalysisDimension) + 1

GapsOf(n) ==
    IF n \in DOMAIN AnalysisDimension THEN Claim(AnalysisDimension[n]).gaps
    ELSE request.analysis.international

Recorder(n) ==
    IF n \in DOMAIN AnalysisDimension THEN AnalysisDimension[n] ELSE NoDimension

(* Where the gaps are: list and place in it. *)
AllGaps == UNION {{n} \X DOMAIN GapsOf(n) : n \in GapLists}

Gap(p) == GapsOf(p[1])[p[2]]

ReadBefore(p, q) == p[1] < q[1] \/ (p[1] = q[1] /\ p[2] < q[2])

Needed(need, timing, dimension) ==
    [need |-> need, timing |-> timing, dimension |-> dimension]

(* The last row that times this text, word for word. *)
classified(timings, need) ==
    LET of == {t \in DOMAIN timings : /\ timings[t].need = need
                                      /\ timings[t].timing \in EvidenceTiming}
    IN  IF of = {} THEN "UNCLASSIFIED"
        ELSE timings[CHOOSE t \in of : \A u \in of : u <= t].timing

FirstRecorded ==
    {p \in AllGaps : ~\E q \in AllGaps : ReadBefore(q, p) /\ Gap(q) = Gap(p)}

\* Mutant: a gap nobody timed is due first.
carry_forward_gaps_promoting(timings) ==
    LET due(need) == IF classified(timings, need) = "UNCLASSIFIED"
                     THEN "BEFORE_PROPOSAL" ELSE classified(timings, need)
    IN  [p \in FirstRecorded |-> Needed(Gap(p), due(Gap(p)), Recorder(p[1]))]

(* Each gap once, under the first dimension that recorded it. *)
carry_forward_gaps(timings) ==
    [p \in FirstRecorded |->
        Needed(Gap(p), classified(timings, Gap(p)), Recorder(p[1]))]

AdvantageNeed ==
    Needed("a comparison that establishes an advantage", "BEFORE_PROPOSAL",
           "COMPETITIVE_ADVANTAGE")

PropositionNeed ==
    Needed("a value proposition the analysis can support", "BEFORE_PROPOSAL",
           "VALUE_PROPOSITION")

(* Before the first list: the claims a proposal would have rested on. *)
Foremost(p) == IF p = <<0, 1>> THEN AdvantageNeed ELSE PropositionNeed

evidence_needs(timings) ==
    LET carried == carry_forward_gaps(timings)
        inserted == {p \in {<<0, 1>>, <<0, 2>>} :
                       Foremost(p).dimension \notin established}
    IN  [p \in inserted \cup DOMAIN carried |->
            IF p \in inserted THEN Foremost(p) ELSE carried[p]]

-----------------------------------------------------------------------------
(* The objective *)

Somebody == {"BUYER", "DECISION_MAKER"}

(* What has to be settled first: of each group, any one. *)
OBJECTIVE_REQUIREMENTS ==
    [DISCOVERY_MEETING |-> {}, TECHNICAL_REVIEW |-> {},
     PARTNERSHIP_DISCUSSION |-> {}, POC |-> {{"PROBLEM"}},
     PILOT |-> {{"PROBLEM"}, Somebody},
     SUPPLIER_REGISTRATION |-> {{"PROCUREMENT_CONTEXT"}},
     FORMAL_PROPOSAL |-> {{"PROBLEM"}, Somebody},
     PROCUREMENT_RESPONSE |-> {{"PROCUREMENT_CONTEXT"}, Somebody}]

ProposalObjective == DOMAIN OBJECTIVE_REQUIREMENTS

NoObjective == "none"

unmet_requirements(objective) ==
    {group \in OBJECTIVE_REQUIREMENTS[objective] : group \cap established = {}}

Objective(objective, source) == [objective |-> objective, source |-> source]

\* Mutant: a suggestion the evidence does not carry is lowered to a meeting.
resolve_objective_lowered(suggested) ==
    CASE request.objective # NoObjective ->
            Objective(request.objective, "HUMAN")
      [] request.objective = NoObjective /\ suggested \in ProposalObjective ->
            Objective(IF unmet_requirements(suggested) = {} THEN suggested
                      ELSE "DISCOVERY_MEETING", "AI_SUGGESTED")
      [] OTHER -> Objective(NoObjective, NoObjective)

(* A person's objective stands. A suggestion stands when it is carried, and*)
(* nothing takes the place of one that is not.                             *)
resolve_objective(suggested) ==
    CASE request.objective # NoObjective ->
            Objective(request.objective, "HUMAN")
      [] /\ request.objective = NoObjective
         /\ suggested \in ProposalObjective
         /\ unmet_requirements(suggested) = {} ->
            Objective(suggested, "AI_SUGGESTED")
      [] OTHER -> Objective(NoObjective, NoObjective)

(* A step contradicts only by naming another objective of the list; under  *)
(* no objective nothing contradicts.                                       *)
next_step_matches(objective, named) ==
    objective # NoObjective => named \subseteq {objective}

-----------------------------------------------------------------------------
(* What is said *)

(* Keys of the caller's list, whatever else was cited. *)
resolve_elements(refs) == refs \cap request.elements

\* Mutant: any settled claim may be the source of a figure, cited or not.
unsourced_figures_anywhere(figures, dimensions) ==
    figures \ UNION {Claim(d).figures : d \in established}

unsourced_figures(figures, dimensions) ==
    figures \ UNION {Claim(d).figures : d \in dimensions}

KEY_MESSAGE_REQUIREMENTS ==
    {{"PROBLEM"}, {"VALUE_PROPOSITION", "VALUE_DRIVER"}}

VALUE_PROPOSITION_REQUIREMENTS == {{"PROBLEM"}, {"VALUE_PROPOSITION"}}

(* Text of at most the length allowed, resting on what is required, with   *)
(* figures of what it cites, offering something.                           *)
resolve_statement(draft, required) ==
    LET dimensions == draft.dimensions \cap established
        offered == resolve_elements(draft.refs)
    IN  IF /\ draft.text = "given"
           /\ \A group \in required : group \cap dimensions # {}
           /\ dimensions # {}
           /\ unsourced_figures(draft.figures, dimensions) = {}
           /\ offered # {}
        THEN {[dimensions |-> dimensions, figures |-> draft.figures,
               solution_element_refs |-> offered]}
        ELSE {}

StoryStepType ==
    {"CONTEXT", "PROBLEM", "SOLUTION", "VALUE", "DIFFERENTIATION", "NEXT_STEP"}

\* Mutant: a step arguing an advantage needs no settled one.
step_stands_ungated(raw, objective) ==
    /\ raw.message = "given"
    /\ raw.step_type = "NEXT_STEP" => next_step_matches(objective, raw.named)

step_stands(raw, objective) ==
    /\ raw.message = "given"
    /\ raw.step_type = "DIFFERENTIATION" =>
          "COMPETITIVE_ADVANTAGE" \in established
    /\ raw.step_type = "NEXT_STEP" => next_step_matches(objective, raw.named)

resolve_step(raw) ==
    [step_type |-> raw.step_type, named |-> raw.named,
     dimensions |-> raw.dimensions \cap established]

(* Rows that count, usable or not. *)
StorylineRows(story) == {n \in DOMAIN story : n <= MaxStorylineSteps}

(* The first step of each type that stands, by its row. *)
storyline(story, objective) ==
    LET standing == {n \in StorylineRows(story) :
                        /\ story[n].step_type \in StoryStepType
                        /\ step_stands(story[n], objective)}
        kept == {n \in standing :
                    ~\E m \in standing :
                        m < n /\ story[m].step_type = story[n].step_type}
    IN  [n \in kept |-> resolve_step(story[n])]

-----------------------------------------------------------------------------
(* Objections *)

ObjectionBasis == {"EVIDENCE_BACKED", "ANTICIPATED"}

\* Mutant: an answer that rests on nothing is kept as it is.
resolve_objection_unadmitted(draft) ==
    LET dimensions == draft.dimensions \cap established
        rests_on == draft.response_dimensions \cap established
    IN  IF draft.text # "given" THEN <<>>
        ELSE <<[basis |-> IF dimensions = {} THEN "ANTICIPATED" ELSE draft.basis,
                dimensions |-> dimensions,
                response |-> draft.response = "given",
                response_dimensions |-> rests_on, admits |-> draft.admits]>>

(* Without a settled dimension it is anticipated, as with a basis nobody   *)
(* knows. An answer resting on nothing admits the gap.                     *)
resolve_objection(draft) ==
    LET dimensions == draft.dimensions \cap established
        rests_on == draft.response_dimensions \cap established
        response == draft.response = "given"
    IN  IF draft.text # "given" THEN <<>>
        ELSE <<[basis |-> IF dimensions = {} \/ draft.basis \notin ObjectionBasis
                          THEN "ANTICIPATED" ELSE draft.basis,
                dimensions |-> dimensions, response |-> response,
                response_dimensions |-> rests_on,
                admits |-> draft.admits \/ (response /\ rests_on = {})]>>

-----------------------------------------------------------------------------
(* What a strategy may be *)

_check_statement(statement, selected) ==
    /\ statement.dimensions # {}
    /\ statement.solution_element_refs # {}
    /\ statement.solution_element_refs \subseteq selected

_check_objection(objection) ==
    /\ objection.basis = "EVIDENCE_BACKED" => objection.dimensions # {}
    /\ objection.response =>
          objection.response_dimensions # {} \/ objection.admits

_check_dimension_refs(s) ==
    /\ \A part \in s.value_proposition \cup s.key_message :
          part.dimensions \subseteq established
    /\ \A n \in DOMAIN s.storyline : s.storyline[n].dimensions \subseteq established
    /\ \A n \in DOMAIN s.objections :
          s.objections[n].dimensions \cup s.objections[n].response_dimensions
              \subseteq established

(* A blank element is one of the caller's whose key or wording is missing: *)
(* nobody looks at the caller's list before this. The analysis, its client *)
(* and the wording offered are copied from the caller, a selection names   *)
(* no key twice and a gap without words was never carried, so the rules    *)
(* about those compare a thing with itself and are left out.               *)
check_proposal_strategy(s) ==
    /\ request.analysis.named /\ request.analysis.identified
    /\ s.selected \cap request.blank = {}
    /\ (s.objective = NoObjective) = (s.objective_source = NoObjective)
    /\ s.objective = NoObjective => s.status = "NOT_STARTED"
    /\ \A part \in s.value_proposition \cup s.key_message :
          _check_statement(part, s.selected)
    /\ \A m, n \in DOMAIN s.storyline :
          s.storyline[m].step_type = s.storyline[n].step_type => m = n
    /\ \A n \in DOMAIN s.objections : _check_objection(s.objections[n])
    /\ _check_dimension_refs(s)

-----------------------------------------------------------------------------
(* The run *)

StoryRow == [step_type : STRING, message : STRING, named : SUBSET STRING,
             dimensions : SUBSET STRING]

ObjectionDraft ==
    [text : STRING, basis : STRING, dimensions : SUBSET STRING,
     response : STRING, response_dimensions : SUBSET STRING, admits : BOOLEAN]

(* Lists are lists, the caller's objective is of the list or none, and the *)
(* blank elements are some of the caller's.                                *)
ASSUME RequestsAssumption ==
    \A r \in Requests :
        /\ r.analysis.international \in Seq(STRING)
        /\ \A d \in Dimensions : r.analysis.claims[d].gaps \in Seq(STRING)
        /\ r.objective \in ProposalObjective \cup {NoObjective}
        /\ r.blank \subseteq r.elements
        /\ \A result \in r.answers :
              /\ result.timings \in Seq([need : STRING, timing : STRING])
              /\ result.storyline \in Seq(StoryRow)
        /\ r.objections \subseteq ObjectionDraft

Nothing == [objective |-> NoObjective, objective_source |-> NoObjective,
            selected |-> {}, value_proposition |-> {}, key_message |-> {},
            storyline |-> <<>>, objections |-> <<>>, evidence_needs |-> <<>>,
            status |-> "NOT_STARTED"]

NoAnswer == [objective |-> NoObjective, storyline |-> <<>>, timings |-> <<>>]

Init ==
    /\ request \in Requests
    /\ at = "proposing" /\ answer = NoAnswer /\ strategy = Nothing
    /\ rows = 0 /\ outcome = "none" /\ saved = {}

Drafted(result) ==
    LET chosen == resolve_objective(result.objective) IN
    [objective |-> chosen.objective, objective_source |-> chosen.source,
     selected |-> resolve_elements(result.refs),
     value_proposition |->
        IF "VALUE_PROPOSITION" \notin established THEN {}
        ELSE resolve_statement(result.value_proposition,
                               VALUE_PROPOSITION_REQUIREMENTS),
     key_message |->
        resolve_statement(result.key_message, KEY_MESSAGE_REQUIREMENTS),
     storyline |-> storyline(result.storyline, chosen.objective),
     objections |-> <<>>, evidence_needs |-> evidence_needs(result.timings),
     status |-> IF chosen.objective = NoObjective THEN "NOT_STARTED"
                ELSE "STRATEGY_DRAFTED"]

(* An analysis that was never given an id is not read at all. *)
propose_strategy ==
    /\ at = "proposing"
    /\ \/ /\ ~request.analysis.identified
          /\ at' = "done" /\ UNCHANGED <<answer, strategy>>
       \/ /\ request.analysis.identified
          /\ at' = "failed" /\ UNCHANGED <<answer, strategy>>
       \/ /\ request.analysis.identified
          /\ \E result \in request.answers :
                answer' = result /\ strategy' = Drafted(result)
          /\ at' = "objecting"
    /\ UNCHANGED <<request, rows, outcome, saved>>

(* The second call; if it raises, the first one was for nothing. *)
anticipate_objections ==
    /\ at = "objecting" /\ at' \in {"objections", "failed"}
    /\ UNCHANGED <<request, answer, strategy, rows, outcome, saved>>

read_objection ==
    /\ at = "objections" /\ rows < request.rows /\ rows < MaxObjections
    /\ \E draft \in request.objections :
          strategy' = [strategy EXCEPT !.objections =
                                            @ \o resolve_objection(draft)]
    /\ rows' = rows + 1
    /\ UNCHANGED <<request, at, answer, outcome, saved>>

(* One that breaks a rule is refused whole. *)
check ==
    /\ at = "objections"
    /\ IF check_proposal_strategy(strategy)
       THEN outcome' = "drafted" /\ at' = "saving"
       ELSE outcome' = "refused" /\ at' = "done"
    /\ UNCHANGED <<request, answer, strategy, rows, saved>>

persist ==
    /\ at = "saving"
    /\ \/ saved' = saved \cup {strategy} /\ at' = "done"
       \/ at' = "failed" /\ UNCHANGED saved
    /\ UNCHANGED <<request, answer, strategy, rows, outcome>>

Next ==
    \/ propose_strategy \/ anticipate_objections \/ read_objection
    \/ check \/ persist

Spec == Init /\ [][Next]_vars

-----------------------------------------------------------------------------
(* What a strategy promises *)

TypeOK ==
    /\ at \in {"proposing", "objecting", "objections", "saving", "done", "failed"}
    /\ outcome \in {"none", "drafted", "refused"} /\ rows \in 0 .. MaxObjections
    /\ <<strategy.objective, strategy.objective_source>> \in
            (ProposalObjective \X {"HUMAN", "AI_SUGGESTED"})
            \cup {<<NoObjective, NoObjective>>}
    /\ strategy.selected \subseteq request.elements
    /\ \A n \in DOMAIN strategy.evidence_needs :
          strategy.evidence_needs[n].timing \in EvidenceTiming

(* The objective of a strategy is the caller's, whatever was suggested, or *)
(* the very one suggested with everything it commits to settled: the run   *)
(* itself never chooses one (objectives.py:90).                            *)
ObjectiveIsSomebodys ==
    \A s \in saved :
        \/ s.objective = request.objective
        \/ /\ request.objective = NoObjective
           /\ s.objective = answer.objective
           /\ s.objective_source = "AI_SUGGESTED"
           /\ \A group \in OBJECTIVE_REQUIREMENTS[s.objective] :
                 \E d \in group : Claim(d).settled

(* Every gap of the analysis reaches the strategy, once beside the two     *)
(* needs of its own, and none is due sooner than a row of the answer says: *)
(* pricing is held back by what is due before it, so a gap lost or timed   *)
(* by default changes what is sent (strategy.py:306).                      *)
NoGapIsLostOrPromoted ==
    \A s \in saved :
        /\ \A g \in AllGaps :
              \E n \in DOMAIN s.evidence_needs :
                  s.evidence_needs[n].need = Gap(g)
        /\ \A m, n \in DOMAIN s.evidence_needs :
              s.evidence_needs[m].need = s.evidence_needs[n].need =>
                  m = n \/ {m, n} \cap {<<0, 1>>, <<0, 2>>} # {}
        /\ \A n \in DOMAIN s.evidence_needs :
              LET gap == s.evidence_needs[n] IN
              \/ gap.timing = "UNCLASSIFIED"
              \/ gap \in {AdvantageNeed, PropositionNeed}
              \/ \E t \in DOMAIN answer.timings :
                    /\ answer.timings[t].need = gap.need
                    /\ answer.timings[t].timing = gap.timing

(* What the analysis refused to establish is not argued a phase later: no  *)
(* proposition, no differentiation and no objection said to be the         *)
(* client's own without a settled claim, and the claim that is missing is  *)
(* asked for (strategy.py:6).                                              *)
RefusedClaimsStayRefused ==
    \A s \in saved :
        LET argued == {s.storyline[n].step_type : n \in DOMAIN s.storyline}
            asked == {s.evidence_needs[n].dimension : n \in DOMAIN s.evidence_needs}
        IN  /\ "DIFFERENTIATION" \in argued =>
                  Claim("COMPETITIVE_ADVANTAGE").settled
            /\ s.value_proposition # {} => Claim("VALUE_PROPOSITION").settled
            /\ \A d \in {"COMPETITIVE_ADVANTAGE", "VALUE_PROPOSITION"} :
                  ~Claim(d).settled => d \in asked
            /\ \A n \in DOMAIN s.objections :
                  s.objections[n].basis = "EVIDENCE_BACKED" =>
                      \E d \in s.objections[n].dimensions : Claim(d).settled

(* A figure the customer will read is in a claim the sentence cites        *)
(* (strategy.py:15).                                                       *)
FiguresAreSourced ==
    \A s \in saved : \A part \in s.value_proposition \cup s.key_message :
        \A figure \in part.figures :
            \E d \in part.dimensions : figure \in Claim(d).figures

(* The rules repair or drop every other part of an answer, so a draft is   *)
(* refused whole, both calls paid, exactly when a sentence that survived   *)
(* offers an element the answer did not also select, or for what the       *)
(* caller gave: a client without id, or a blank element that the answer    *)
(* happened to select (pipeline.py:124, 234, evidence.py:500, 534, 612).   *)
RefusedOnlyForKnownCauses ==
    outcome # "none" =>
        (outcome = "refused") =
            (\/ \E part \in strategy.value_proposition \cup strategy.key_message :
                   ~(part.solution_element_refs \subseteq strategy.selected)
             \/ ~request.analysis.named
             \/ strategy.selected \cap request.blank # {})

=============================================================================
