----------------------------- MODULE ResearchRun -----------------------------
(* One call of run_research (core/research/pipeline.py) and the persist    *)
(* after it: every batch of passages read through every framework, then    *)
(* inferences, SWOT items and key issues from what was found.              *)
(*                                                                         *)
(* A provider answers anything, row by row, or raises at any call; no      *)
(* handler in core catches that and nothing was saved yet. E, F and S      *)
(* references are positions in what the prompt listed. Rejections, review  *)
(* flags and transmission records are reports nothing reads: left out.     *)
EXTENDS ProjectRecords, Places, Confidence

CONSTANTS
    PolicyFrameworks,      \* policy.frameworks
    MaxPassagesPerBatch,   \* policy.max_candidates_per_batch
    MaxTextPerBatch,       \* policy.max_evidence_chars_per_batch
    MaxTextPerPassage,     \* policy.max_chars_per_candidate
    MaxFindingsPerBatch,   \* policy.max_findings_per_batch
    CorroborationForHigh   \* policy.corroboration_for_high

ASSUME ResearchPolicyAssumption ==
    /\ MaxPassagesPerBatch \in Nat \ {0} /\ MaxTextPerBatch \in Nat
    /\ MaxTextPerPassage \in Nat /\ MaxFindingsPerBatch \in Nat
    /\ CorroborationForHigh \in Nat
    /\ DOMAIN PolicyFrameworks = 1 .. Len(PolicyFrameworks)
    /\ Len(PolicyFrameworks) \in Nat

(* A confidence that is not one of the four is read as UNKNOWN. *)
ASSUME AnswersAssumption ==
    \A q \in Requests :
        /\ Len(q.frameworks) \in Nat
        /\ DOMAIN q.frameworks = 1 .. Len(q.frameworks)
        /\ \A d \in q.answers.findings :
              d.confidence \in Levels /\ d.summary \in BOOLEAN
        /\ \A d \in q.answers.inferences \cup q.answers.issues :
              d.confidence \in Levels

VARIABLES
    call,         \* the provider call being made: first item of its batch,
                  \* place of its framework, rows read
    offered,      \* the extraction calls made: framework and passages
    skipped,      \* outcome.skipped_frameworks: of some batch
    findings,     \* outcome.findings
    swot,         \* outcome.swot_issues
    key_issues    \* outcome.key_issues

research == <<call, offered, skipped, findings, swot, key_issues>>

FirstCall == [first |-> 1, framework |-> 1, rows |-> 0]

ResearchInit ==
    /\ call = FirstCall /\ offered = <<>> /\ skipped = {}
    /\ findings = <<>> /\ swot = <<>> /\ key_issues = <<>>

-----------------------------------------------------------------------------
(* Batches and frameworks *)

Lesser(a, b) == IF a <= b THEN a ELSE b

(* The text of the passages before one, as long as it is after truncation. *)
text_before(listed) ==
    LET upto[i \in 1 .. Len(listed) + 1] ==
            IF i = 1 THEN 0
            ELSE upto[i - 1] + Lesser(listed[i - 1].size, MaxTextPerPassage)
    IN  upto

(* The passage that does not fit any more into a batch opens the next one. *)
next_batch(first) ==
    LET before == text_before(passages) IN
    First({i \in first + 1 .. Len(passages) + 1 :
              \/ i = Len(passages) + 1
              \/ i - first >= MaxPassagesPerBatch
              \/ before[i + 1] - before[first] > MaxTextPerBatch})

\* Mutant: the batch still open after the last passage is not kept.
batch_candidates_unfinished(first) ==
    IF next_batch(first) > Len(passages) THEN {}
    ELSE first .. next_batch(first) - 1

(* Consecutive passages, as many as both limits allow and at least one: an *)
(* over-long passage is a batch of its own.                                *)
batch_candidates(first) == first .. next_batch(first) - 1

(* Findings are batched by number alone. *)
batch_items(first) ==
    IF MaxFindingsPerBatch = 0 THEN first .. Len(findings)
    ELSE first .. Lesser(first + MaxFindingsPerBatch - 1, Len(findings))

(* What the operator asked for, else the policy's list. *)
Resolved ==
    IF request.frameworks = <<>> THEN PolicyFrameworks ELSE request.frameworks

Frameworks == {Resolved[n] : n \in DOMAIN Resolved}

Findings ==
    [evidence_type : {"FACT", "INFERENCE", "ASSUMPTION", "MISSING_EVIDENCE"},
     confidence : Levels, mn_basis : SUBSET Frameworks, source_id : Nat,
     locator : Locators, supporting : SUBSET Nat, gap : BOOLEAN]

(* Only the policy's list is shortlisted, by the vocabulary of the batch;  *)
(* a shortlist that keeps nothing keeps everything. By place in the list.  *)
shortlist(batch) ==
    LET kept == {n \in DOMAIN Resolved :
                    \E p \in batch : Resolved[n] \in passages[p].topics}
    IN  IF kept = {} THEN DOMAIN Resolved ELSE kept

frameworks_for(batch) ==
    IF request.frameworks # <<>> \/ ~request.shortlist THEN DOMAIN Resolved
    ELSE shortlist(batch)

-----------------------------------------------------------------------------
(* How firm a finding may be *)

_authority_known(source) ==
    IF \/ source.source_origin = "SEARCH_RESULT"
       \/ source.source_category = "EXTERNAL_BUSINESS_DATA"
    THEN source.publisher
    ELSE source.source_category \in {"CONSULTING_OUTPUT", "COMPANY_DATA"}

_is_unverified_snippet(source, locator) ==
    source.source_origin = "SEARCH_RESULT" /\ locator = SNIPPET_LOCATOR

_is_recent(source) == source.source_date = "recent"

(* The pipeline never counts a second source of the same claim. *)
CorroboratingSources == 1

FactCeiling(source, locator) ==
    IF \/ _is_unverified_snippet(source, locator)
       \/ ~_authority_known(source)
       \/ CorroboratingSources < CorroborationForHigh
       \/ ~_is_recent(source)
    THEN "MEDIUM" ELSE "HIGH"

(* Nothing limits a FACT but its source, an inference but its supports. *)
ceiling_for(evidence_type, fact, supporting) ==
    CASE evidence_type = "MISSING_EVIDENCE" -> "UNKNOWN"
      [] evidence_type = "ASSUMPTION" -> "LOW"
      [] evidence_type = "INFERENCE" -> weakest(supporting)
      [] evidence_type = "FACT" -> fact

-----------------------------------------------------------------------------
(* Calls *)

(* A provider call: its answer is about to be read, or it raises and the   *)
(* run is lost.                                                            *)
send(reading, framework) ==
    \/ at' = reading /\ call' = [call EXCEPT !.framework = framework, !.rows = 0]
    \/ at' = "research failed" /\ UNCHANGED call

MayAnswer(stage) == call.rows < request.rows[stage]

RowRead == call' = [call EXCEPT !.rows = @ + 1]

-----------------------------------------------------------------------------
(* Evidence -> Finding *)

Batch == batch_candidates(call.first)

(* The frameworks the batch was not put to yet. *)
FrameworksLeft == {n \in frameworks_for(Batch) : n >= call.framework}

Skipped(batch) == {Resolved[n] : n \in DOMAIN Resolved \ frameworks_for(batch)}

extraction ==
    /\ at = "extraction"
    /\ \/ /\ call.first > Len(passages)
          /\ at' = "inference" /\ call' = FirstCall
          /\ UNCHANGED <<offered, skipped>>
       \/ /\ call.first <= Len(passages) /\ FrameworksLeft = {}
          /\ call' = [FirstCall EXCEPT !.first = next_batch(call.first)]
          /\ UNCHANGED <<at, offered, skipped>>
       \/ /\ call.first <= Len(passages) /\ FrameworksLeft # {}
          /\ send("findings", First(FrameworksLeft))
          /\ offered' = Append(offered, [framework |-> First(FrameworksLeft),
                                        passages |-> Batch])
          /\ skipped' = skipped \cup Skipped(Batch)
    /\ UNCHANGED <<request, sources, passages, stored, findings, swot,
                   key_issues>>

(* References a prompt did not list are dropped; the others are numbers in *)
(* the list of the prompt.                                                 *)
Cited(listed, refs) == {i \in listed : Upto(listed, i) \in refs}

(* A FACT cites a passage it was shown and carries its source; another     *)
(* type carries none. A gap without a summary is given its statement.      *)
Extracted(draft, framework, block) ==
    LET cited == Cited(block, {draft.ref})
        passage == passages[First(cited)]
        fact == draft.evidence_type = "FACT"
    IN  IF \/ draft.evidence_type \notin
                {"FACT", "ASSUMPTION", "MISSING_EVIDENCE"}
           \/ fact /\ cited = {}
        THEN <<>>
        ELSE <<[evidence_type |-> draft.evidence_type,
                confidence |->
                    cap(draft.confidence,
                        ceiling_for(draft.evidence_type,
                            IF fact
                            THEN FactCeiling(sources[passage.source_id],
                                             passage.locator)
                            ELSE "UNKNOWN", {})),
                mn_basis |-> {framework},
                source_id |-> IF fact THEN passage.source_id ELSE 0,
                locator |-> IF fact THEN passage.locator ELSE NoLocator,
                supporting |-> {},
                gap |-> draft.evidence_type = "MISSING_EVIDENCE"
                        \/ draft.summary]>>

extract_findings ==
    /\ at = "findings" /\ MayAnswer("findings")
    /\ \E draft \in request.answers.findings :
          findings' = findings \o
              Extracted(draft, Resolved[call.framework], Batch)
    /\ RowRead
    /\ UNCHANGED <<request, at, sources, passages, stored, offered, skipped,
                   swot, key_issues>>

FindingsRead ==
    /\ at = "findings" /\ at' = "extraction"
    /\ call' = [call EXCEPT !.framework = @ + 1]
    /\ UNCHANGED <<request, sources, passages, stored, offered, skipped,
                   findings, swot, key_issues>>

-----------------------------------------------------------------------------
(* Finding -> Inference *)

(* The facts one framework established: in order, what F1, F2... mean. *)
Scoped(framework) ==
    {i \in DOMAIN findings : /\ findings[i].evidence_type = "FACT"
                             /\ framework \in findings[i].mn_basis}

inference ==
    /\ at = "inference"
    /\ IF \/ ~request.infer \/ findings = <<>>
          \/ call.framework > Len(Resolved)
       THEN at' = "classification" /\ call' = FirstCall
       ELSE IF Scoped(Resolved[call.framework]) = {}
       THEN call' = [call EXCEPT !.framework = @ + 1] /\ UNCHANGED at
       ELSE send("inferences", call.framework)
    /\ UNCHANGED <<request, sources, passages, stored, offered, skipped,
                   findings, swot, key_issues>>

\* Mutant: an inference is as firm as the provider says.
Inferred_uncapped(draft, framework) ==
    LET supports == Cited(Scoped(framework), draft.refs)
    IN  IF supports = {} THEN <<>>
        ELSE <<[evidence_type |-> "INFERENCE",
                confidence |-> draft.confidence,
                mn_basis |-> {framework}, source_id |-> 0,
                locator |-> NoLocator, supporting |-> supports,
                gap |-> FALSE]>>

\* Mutant: an inference whose supports were not listed is kept without them.
Inferred_unsupported(draft, framework) ==
    LET supports == Cited(Scoped(framework), draft.refs)
        levels == {findings[i].confidence : i \in supports}
    IN  <<[evidence_type |-> "INFERENCE",
           confidence |-> cap(draft.confidence,
                              ceiling_for("INFERENCE", "HIGH", levels)),
           mn_basis |-> {framework}, source_id |-> 0,
           locator |-> NoLocator, supporting |-> supports, gap |-> FALSE]>>

Inferred(draft, framework) ==
    LET supports == Cited(Scoped(framework), draft.refs)
        levels == {findings[i].confidence : i \in supports}
    IN  IF supports = {} THEN <<>>
        ELSE <<[evidence_type |-> "INFERENCE",
                confidence |-> cap(draft.confidence,
                                   ceiling_for("INFERENCE", "HIGH", levels)),
                mn_basis |-> {framework}, source_id |-> 0,
                locator |-> NoLocator, supporting |-> supports,
                gap |-> FALSE]>>

infer_findings ==
    /\ at = "inferences" /\ MayAnswer("inferences")
    /\ \E draft \in request.answers.inferences :
          findings' = findings \o Inferred(draft, Resolved[call.framework])
    /\ RowRead
    /\ UNCHANGED <<request, at, sources, passages, stored, offered, skipped,
                   swot, key_issues>>

InferencesRead ==
    /\ at = "inferences" /\ at' = "inference"
    /\ call' = [call EXCEPT !.framework = @ + 1]
    /\ UNCHANGED <<request, sources, passages, stored, offered, skipped,
                   findings, swot, key_issues>>

-----------------------------------------------------------------------------
(* Finding -> SWOT *)

classification ==
    /\ at = "classification"
    /\ IF call.first > Len(findings)
       THEN at' = "synthesis" /\ call' = FirstCall
       ELSE send("issues", 1)
    /\ UNCHANGED <<request, sources, passages, stored, offered, skipped,
                   findings, swot, key_issues>>

\* Mutant: F1 of every batch is read as the first finding of the run.
Classified_by_position(draft, batch) ==
    LET cited == Cited(DOMAIN findings, draft.refs)
    IN  IF draft.category = "none" \/ cited = {} THEN <<>>
        ELSE <<[finding_ids |-> cited,
                mn_basis |-> UNION {findings[i].mn_basis : i \in cited}]>>

(* An item carries the frameworks of what it cites. *)
Classified(draft, batch) ==
    LET cited == Cited(batch, draft.refs)
    IN  IF draft.category = "none" \/ cited = {} THEN <<>>
        ELSE <<[finding_ids |-> cited,
                mn_basis |-> UNION {findings[i].mn_basis : i \in cited}]>>

classify_swot ==
    /\ at = "issues" /\ MayAnswer("swot")
    /\ \E draft \in request.answers.swot :
          swot' = swot \o Classified(draft, batch_items(call.first))
    /\ RowRead
    /\ UNCHANGED <<request, at, sources, passages, stored, offered, skipped,
                   findings, key_issues>>

IssuesRead ==
    /\ at = "issues" /\ at' = "classification"
    /\ call' = [call EXCEPT !.first = @ + Cardinality(batch_items(@))]
    /\ UNCHANGED <<request, sources, passages, stored, offered, skipped,
                   findings, swot, key_issues>>

-----------------------------------------------------------------------------
(* SWOT -> Key Issue *)

synthesis ==
    /\ at = "synthesis"
    /\ IF swot = <<>> THEN at' = "saving research" /\ UNCHANGED call
       ELSE send("key issues", 1)
    /\ UNCHANGED <<request, sources, passages, stored, offered, skipped,
                   findings, swot, key_issues>>

(* Binds SWOT items, with the findings behind them whether cited or not;   *)
(* an F reference is a position among all findings.                        *)
Derived(draft) ==
    LET items == draft.swot_refs \cap DOMAIN swot
        support == (draft.refs \cap DOMAIN findings)
                   \cup UNION {swot[s].finding_ids : s \in items}
        levels == {findings[i].confidence : i \in support}
    IN  IF items = {} \/ ~draft.complete THEN <<>>
        ELSE <<[swot_issue_ids |-> items, finding_ids |-> support,
                confidence |-> cap(draft.confidence, weakest(levels)),
                mn_basis |-> UNION {swot[s].mn_basis : s \in items},
                implication |-> TRUE]>>

derive_key_issues ==
    /\ at = "key issues" /\ MayAnswer("issues")
    /\ \E draft \in request.answers.issues :
          key_issues' = key_issues \o Derived(draft)
    /\ RowRead
    /\ UNCHANGED <<request, at, sources, passages, stored, offered, skipped,
                   findings, swot>>

KeyIssuesRead ==
    /\ at = "key issues" /\ at' = "saving research"
    /\ UNCHANGED <<request, sources, passages, stored, research>>

-----------------------------------------------------------------------------
(* What is kept *)

FindingRecord(n) ==
    LET f == findings[n] IN
    Entity(<<"finding", n>>,
           {<<"finding", i>> : i \in f.supporting}
           \cup {<<"source", s>> : s \in {f.source_id} \ {0}})

SwotRecord(n) ==
    Entity(<<"swot", n>>, {<<"finding", i>> : i \in swot[n].finding_ids})

KeyIssueRecord(n) ==
    Entity(<<"key issue", n>>,
           {<<"finding", i>> : i \in key_issues[n].finding_ids}
           \cup {<<"swot", s>> : s \in key_issues[n].swot_issue_ids})

\* Mutant: the summaries are saved first.
ResearchRecords_reversed ==
    [n \in DOMAIN key_issues |-> KeyIssueRecord(n)]
    \o [n \in DOMAIN swot |-> SwotRecord(n)]
    \o [n \in DOMAIN findings |-> FindingRecord(n)]

ResearchRecords ==
    [n \in DOMAIN findings |-> FindingRecord(n)]
    \o [n \in DOMAIN swot |-> SwotRecord(n)]
    \o [n \in DOMAIN key_issues |-> KeyIssueRecord(n)]

NotYet(entities) ==
    {n \in DOMAIN entities : \A e \in stored : e.id # entities[n].id}

(* persist: one record at a time; a save may raise with others done. *)
persist_research ==
    /\ at = "saving research"
    /\ LET left == NotYet(ResearchRecords) IN
       IF left = {}
       THEN /\ at' = IF request.discovery THEN "criteria" ELSE "done"
            /\ UNCHANGED stored
       ELSE \/ /\ stored' = stored \cup
                    {ResearchRecords[CHOOSE n \in left :
                                        \A k \in left : n <= k]}
               /\ UNCHANGED at
            \/ at' = "research failed" /\ UNCHANGED stored
    /\ UNCHANGED <<request, sources, passages, research>>

ResearchStep ==
    \/ extraction \/ extract_findings \/ FindingsRead
    \/ inference \/ infer_findings \/ InferencesRead
    \/ classification \/ classify_swot \/ IssuesRead
    \/ synthesis \/ derive_key_issues \/ KeyIssuesRead
    \/ persist_research

-----------------------------------------------------------------------------
(* What the diagnosis promises *)

ResearchTypeOK ==
    /\ call \in [first : Nat, framework : Nat, rows : Nat]
    /\ findings \in Seq(Findings)
    /\ \A n \in DOMAIN key_issues : key_issues[n].confidence \in Levels

(* By the time inference begins every passage was put to every framework   *)
(* of its run exactly once, unless the framework is reported as skipped    *)
(* and none of its vocabulary occurs in the passage (pipeline.py:63,       *)
(* policy.py:99, select.py:38).                                            *)
EveryPassageIsRead ==
    at = "inference" =>
        \A p \in DOMAIN passages, n \in DOMAIN Resolved :
            LET calls == {c \in DOMAIN offered :
                            offered[c].framework = n
                            /\ p \in offered[c].passages}
            IN  \/ Cardinality(calls) = 1
                \/ /\ calls = {} /\ Resolved[n] \in skipped
                   /\ Resolved[n] \notin passages[p].topics

FactsUnder(n) ==
    IF findings[n].evidence_type = "FACT" THEN {n} ELSE findings[n].supporting

(* No conclusion is firmer than any passage it comes down to: not an       *)
(* inference over facts, not a key issue over findings behind SWOT items   *)
(* that were read in different batches (confidence.py:135).                *)
ConfidenceIsNeverRaised ==
    /\ \A n \in DOMAIN findings : \A i \in FactsUnder(n) :
          LET fact == findings[i] IN
          /\ fact.evidence_type = "FACT"
          /\ rank(findings[n].confidence) <=
                rank(FactCeiling(sources[fact.source_id], fact.locator))
    /\ \A k \in DOMAIN key_issues : \A s \in key_issues[k].swot_issue_ids :
          \A i \in swot[s].finding_ids :
             rank(key_issues[k].confidence) <= rank(findings[i].confidence)

(* A fact has its source among the passages of the call being answered, an *)
(* inference its supports among the facts of its framework, a SWOT item    *)
(* its findings in its batch.                                              *)
CitesItsPrompt ==
    /\ \A n \in DOMAIN findings' \ DOMAIN findings :
          LET new == findings'[n] IN
          /\ new.source_id # 0 =>
                \E p \in offered[Len(offered)].passages :
                    /\ passages[p].source_id = new.source_id
                    /\ passages[p].locator = new.locator
          /\ \A i \in new.supporting :
                findings[i].mn_basis = {Resolved[call.framework]}
    /\ \A s \in DOMAIN swot' \ DOMAIN swot :
          swot'[s].finding_ids \subseteq batch_items(call.first)

(* A reference means the list of its own prompt, whatever was answered to  *)
(* the calls before (extract.py:36, classify.py:40).                       *)
CitationsWereOffered == [][CitesItsPrompt]_research
=============================================================================
