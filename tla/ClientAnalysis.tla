--------------------------- MODULE ClientAnalysis ---------------------------
(* One call of run_client_analysis (core/analysis/pipeline.py): the        *)
(* selected clients in the order they were asked for, each with its        *)
(* optional research (core/analysis/research.py), four framework groups of *)
(* answers, the rules across them and the check, and then persist.         *)
(*                                                                         *)
(* A provider (LLM or search) answers anything or raises at every call; no *)
(* handler in core catches that. References F1..Fn of a prompt are the     *)
(* positions of the offered findings. Rejections, flags, transmission      *)
(* records and partner profiles are reports nothing reads back: left out.  *)
EXTENDS AnalysisClaims, FiniteSets

CONSTANTS
    Candidates,     \* client ids of the candidate pool
    Scenarios,      \* the inputs of the call
    MaxClients,     \* policy.max_clients_per_run
    MaxFindings,    \* policy.max_findings_per_group
    MaxQueries,     \* policy.max_queries_per_client
    Discoverable,   \* what a search can bring: findings without their id
    Drafts          \* the rows it may answer with

ASSUME BoundsAssumption ==
    /\ MaxClients \in Nat \ {0}
    /\ MaxFindings \in Nat /\ MaxQueries \in Nat
    /\ Drafts \subseteq ClaimDraft(Nat)

Reading == [evidence_type : EvidenceTypes, confidence : Levels,
            mn_basis : SUBSET Frameworks]

(* A finding of the project has origin 0, one researched for the p-th      *)
(* requested client has origin p; new_id never repeats.                    *)
Finding(origin, n, reading) ==
    [id |-> <<origin, n>>, evidence_type |-> reading.evidence_type,
     confidence |-> reading.confidence, mn_basis |-> reading.mn_basis]

Findings(ids) ==
    [id : ids, evidence_type : EvidenceTypes, confidence : Levels,
     mn_basis : SUBSET Frameworks]

(* What a caller passes: the project's findings each have their own id. *)
ASSUME ScenariosAssumption ==
    \A s \in Scenarios :
        /\ s.client_ids \in Seq(STRING)
        /\ s.findings \in Seq(Findings({0} \X Nat))
        /\ \A i, j \in DOMAIN s.findings :
              s.findings[i].id = s.findings[j].id => i = j
        /\ s.our_solution \in BOOLEAN /\ s.search \in BOOLEAN

ASSUME DiscoverableAssumption == Discoverable \subseteq Reading

FRAMEWORK_GROUPS == <<"MN03", "MN04", "MN05", "MN06">>

VARIABLES
    input,       \* client_ids, findings, our_solution, scope, search, and
                 \* answered: the dimensions the provider has answers to
    pc,          \* where the call is
    position,    \* the client being analysed
    queries,     \* search queries still to run for it
    all,         \* all_findings: what it may cite
    group,       \* the framework group being answered
    claims,      \* dimension -> claim, as far as answered
    overseas,    \* international dimension -> claim
    outcome      \* what the call returns: analyses and new findings

vars == <<input, pc, position, queries, all, group, claims, overseas, outcome>>

Nothing == [analyses |-> <<>>, findings |-> {}]

NoClaims == [d \in {} |-> NotAssessed]

Init ==
    /\ input \in Scenarios
    /\ pc = "called" /\ position = 1 /\ queries = 0 /\ all = <<>>
    /\ group = 1 /\ claims = NoClaims /\ overseas = NoClaims
    /\ outcome = Nothing

Client == input.client_ids[position]

-----------------------------------------------------------------------------
(* Which clients *)

TooMany(client_ids) == Len(client_ids) > MaxClients

Call ==
    /\ pc = "called"
    /\ pc' = IF TooMany(input.client_ids) THEN "returned" ELSE "next client"
    /\ UNCHANGED <<input, position, queries, all, group, claims, overseas,
                   outcome>>

Return ==
    /\ pc = "next client" /\ position > Len(input.client_ids)
    /\ pc' = "returned"
    /\ UNCHANGED <<input, position, queries, all, group, claims, overseas,
                   outcome>>

(* An id outside the pool is refused and the next one taken. *)
UnknownClient ==
    /\ pc = "next client" /\ position <= Len(input.client_ids)
    /\ Client \notin Candidates
    /\ position' = position + 1
    /\ UNCHANGED <<input, pc, queries, all, group, claims, overseas, outcome>>

\* Mutant: research done for an earlier client is offered to a later one.
InitialFindings_of_run == IF all = <<>> THEN input.findings ELSE all

InitialFindings == input.findings

Selected ==
    /\ pc = "next client" /\ position <= Len(input.client_ids)
    /\ Client \in Candidates
    /\ all' = InitialFindings
    /\ group' = 1 /\ claims' = NoClaims /\ overseas' = NoClaims
    /\ pc' = IF input.search THEN "criteria" ELSE "asking"
    /\ UNCHANGED <<input, position, queries, outcome>>

-----------------------------------------------------------------------------
(* Research for this client *)

build_client_criteria ==
    /\ pc = "criteria"
    /\ \E n \in 0 .. MaxQueries :
          /\ queries' = n
          /\ pc' = IF n = 0 THEN "asking" ELSE "searching"
    /\ UNCHANGED <<input, position, all, group, claims, overseas, outcome>>

(* One query: no hit, hits that yield nothing, or a finding read from one. *)
research_client ==
    /\ pc = "searching"
    /\ \/ UNCHANGED <<all, outcome>>
       \/ \E reading \in Discoverable :
             LET found == Finding(position, queries, reading) IN
             /\ all' = Append(all, found)
             /\ outcome' = [outcome EXCEPT !.findings = @ \cup {found}]
    /\ queries' = queries - 1
    /\ pc' = IF queries = 1 THEN "asking" ELSE "searching"
    /\ UNCHANGED <<input, position, group, claims, overseas>>

-----------------------------------------------------------------------------
(* The framework groups *)

FirstOf(pool, n) == {i \in pool : Cardinality({j \in pool : j <= i}) <= n}

\* Mutant: every group is offered every finding.
Offered_unfiltered(framework) == FirstOf(DOMAIN all, MaxFindings)

(* The findings read through this framework, or all when there are none,   *)
(* up to the limit.                                                        *)
Offered(framework) ==
    LET relevant == {i \in DOMAIN all : framework \in all[i].mn_basis}
    IN  FirstOf(IF relevant = {} THEN DOMAIN all ELSE relevant, MaxFindings)

(* The prompt of a group leaves; its answer is about to be read. *)
AskGroup ==
    /\ pc = "asking" /\ pc' = "answering"
    /\ UNCHANGED <<input, position, queries, all, group, claims, overseas,
                   outcome>>

(* One row of the answer. A row outside the group, one whose statement is  *)
(* too long and a second row for a dimension change no claim.              *)
Row(d, draft) ==
    LET framework == FRAMEWORK_GROUPS[group] IN
    /\ pc = "answering"
    /\ d \in dimensions_for(framework) \ DOMAIN claims
    /\ claims' =
         [e \in DOMAIN claims \cup {d} |->
             IF e = d
             THEN resolve_claim(d, draft, [i \in Offered(framework) |-> all[i]])
             ELSE claims[e]]
    /\ UNCHANGED <<input, pc, position, queries, all, group, overseas, outcome>>

EndOfGroup ==
    /\ pc = "answering" /\ group < Len(FRAMEWORK_GROUPS)
    /\ group' = group + 1 /\ pc' = "asking"
    /\ UNCHANGED <<input, position, queries, all, claims, overseas, outcome>>

Complete(answered) ==
    [d \in AnalysisDimension |->
        IF d \in DOMAIN answered THEN answered[d] ELSE NotAssessed]

(* After the last group: the silent dimensions, then the dependent ones. *)
EndOfGroups ==
    /\ pc = "answering" /\ group = Len(FRAMEWORK_GROUPS)
    /\ claims' = apply_cross_dimension_rules(Complete(claims),
                                             input.our_solution)
    /\ pc' = IF input.scope = "INTERNATIONAL" THEN "overseas" ELSE "checking"
    /\ UNCHANGED <<input, position, queries, all, group, overseas, outcome>>

(* One more call, and one claim per overseas dimension. *)
_international_claims ==
    /\ pc = "overseas"
    /\ \E answered \in SUBSET (input.answered \cap InternationalDimension) :
       \E draft \in [answered -> Drafts] :
          overseas' = [d \in InternationalDimension |->
              IF d \in answered
              THEN resolve_international(draft[d],
                     [i \in FirstOf(DOMAIN all, MaxFindings) |-> all[i]])
              ELSE NotAssessed]
    /\ pc' = "checking"
    /\ UNCHANGED <<input, position, queries, all, group, claims, outcome>>

-----------------------------------------------------------------------------
(* The analysis *)

Cited(answered) == UNION {answered[d].finding_ids : d \in DOMAIN answered}

Analysis ==
    [position |-> position, client |-> Client, claims |-> claims,
     international |-> overseas,
     finding_ids |-> Cited(claims) \cup Cited(overseas)]

(* An analysis that fails its own check is refused, not repaired. *)
Assemble ==
    /\ pc = "checking"
    /\ outcome' =
         IF check_client_analysis(claims, overseas, input.scope,
                                  {all[i].id : i \in DOMAIN all})
         THEN [outcome EXCEPT !.analyses = Append(@, Analysis)]
         ELSE outcome
    /\ position' = position + 1 /\ pc' = "next client"
    /\ UNCHANGED <<input, queries, all, group, claims, overseas>>

(* Nothing on the way out keeps what was built before. *)
ProviderRaises ==
    /\ pc \in {"criteria", "searching", "asking", "overseas"}
    /\ pc' = "raised" /\ outcome' = Nothing
    /\ UNCHANGED <<input, position, queries, all, group, claims, overseas>>

(* The analyses, and nothing else, are handed to storage. *)
persist ==
    /\ pc = "returned" /\ pc' = "persisted"
    /\ UNCHANGED <<input, position, queries, all, group, claims, overseas,
                   outcome>>

Rest ==
    /\ pc \in {"raised", "persisted"}
    /\ UNCHANGED vars

Next ==
    \/ Call \/ Return \/ UnknownClient \/ Selected
    \/ build_client_criteria \/ research_client
    \/ AskGroup
    \/ \E d \in input.answered \cap AnalysisDimension, draft \in Drafts :
          Row(d, draft)
    \/ EndOfGroup \/ EndOfGroups \/ _international_claims \/ Assemble
    \/ ProviderRaises \/ persist \/ Rest

Spec == Init /\ [][Next]_vars

-----------------------------------------------------------------------------
(* What must hold *)

Ids == (0 .. Len(input.client_ids)) \X Nat

(* The shape of the state; no claim cites more than was offered. *)
TypeOK ==
    /\ pc \in {"called", "next client", "criteria", "searching", "asking",
               "answering", "overseas", "checking", "returned", "raised",
               "persisted"}
    /\ position \in 1 .. Len(input.client_ids) + 1
    /\ queries \in 0 .. MaxQueries /\ group \in 1 .. 4
    /\ \A i \in DOMAIN all : all[i].id \in Ids
    /\ DOMAIN claims \subseteq AnalysisDimension
    /\ DOMAIN overseas \in {{}, InternationalDimension}
    /\ \A d \in DOMAIN claims :
          /\ claims[d] \in Claims(Ids)
          /\ Cardinality(claims[d].finding_ids) <= MaxFindings
    /\ \A d \in DOMAIN overseas : overseas[d] \in Claims(Ids)

Analyses == {outcome.analyses[i] : i \in DOMAIN outcome.analyses}

(* Whatever the provider answered, every requested client of the pool has  *)
(* its analysis, in the order asked for: no answer makes the assembled     *)
(* record fail the check that would silently drop it                       *)
(* (pipeline.py, "if violations"). A refused request has none.             *)
NoAnalysisIsLost ==
    pc \in {"returned", "persisted"} =>
        LET asked == input.client_ids
            known == {p \in DOMAIN asked : asked[p] \in Candidates}
            built == outcome.analyses
        IN  IF Len(asked) > MaxClients THEN built = <<>>
            ELSE /\ {a.position : a \in Analyses} = known
                 /\ \A i \in DOMAIN built :
                       /\ built[i].client = asked[built[i].position]
                       /\ \A j \in 1 .. i - 1 :
                             built[j].position < built[i].position

Evidence == {input.findings[i] : i \in DOMAIN input.findings}
              \cup outcome.findings

CitedBy(claim) == {f \in Evidence : f.id \in claim.finding_ids}

(* A competitive advantage that survives is a comparison: buying factor    *)
(* and some alternative are established, and it cites a finding of its     *)
(* own, read through MN04, that neither of them uses. The code tests MN04  *)
(* over all the claim's findings; that this is enough rests on what each   *)
(* group is offered (claims.py docstring; pipeline.py, "relevant").        *)
AdvantageIsComparative ==
    \A a \in Analyses :
        LET c == a.claims["COMPETITIVE_ADVANTAGE"]
            alternatives == {d \in COMPARATOR_DIMENSIONS :
                               a.claims[d].statement}
        IN  c.statement =>
              /\ a.claims["KBF"].statement /\ alternatives # {}
              /\ \E f \in CitedBy(c) :
                    /\ "MN04" \in f.mn_basis
                    /\ \A d \in {"KBF"} \cup alternatives :
                          f.id \notin a.claims[d].finding_ids

(* A surviving value proposition addresses an established problem with     *)
(* something to offer, and is worth at most MEDIUM; without established    *)
(* buying factors at most LOW, and it says what to test it against.        *)
PropositionAddressesAProblem ==
    \A a \in Analyses :
        LET c == a.claims["VALUE_PROPOSITION"] IN
        c.statement =>
          /\ a.claims["PROBLEM"].statement /\ input.our_solution
          /\ c.confidence # "HIGH"
          /\ a.claims["KBF"].statement
             \/ (c.confidence # "MEDIUM" /\ "buying factors" \in c.missing)

(* No claim is worth more than any finding it cites, than its dimension    *)
(* allows, or a fact that no document states; a claim that settles nothing *)
(* carries no credit and says what is missing.                             *)
ClaimsAreEarned ==
    \A a \in Analyses, d \in AnalysisDimension :
        LET c == a.claims[d] IN
        IF c.statement
        THEN /\ c.finding_ids # {}
             /\ rank(c.confidence) <= rank(DIMENSION_CEILING(d))
             /\ \A f \in CitedBy(c) : rank(c.confidence) <= rank(f.confidence)
             /\ c.evidence_type = "FACT" =>
                  /\ d \notin SYNTHESIS
                  /\ \E f \in CitedBy(c) : f.evidence_type = "FACT"
        ELSE c.evidence_type = "MISSING_EVIDENCE" /\ c.confidence = "UNKNOWN"

(* Research done for one client never supports a claim about another, nor  *)
(* one about the same client requested a second time.                      *)
EvidenceStaysWithItsClient ==
    \A a \in Analyses : \A id \in a.finding_ids : id[1] \in {0, a.position}
=============================================================================
