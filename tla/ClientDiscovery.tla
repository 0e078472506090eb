--------------------------- MODULE ClientDiscovery ---------------------------
(* One call of run_discovery (core/client/pipeline.py) and the persist     *)
(* after it: organizations the passages name, eight criteria for each of   *)
(* them, and the band the levels add up to. The diagnosis it reads is the  *)
(* one of the run before it.                                               *)
(*                                                                         *)
(* What a provider answers is data: mentions row by row, one answer of fit *)
(* per organization. Hypotheses and criteria are never kept: left out.     *)
EXTENDS ResearchRun, NameMatch, EvidenceChecks

CONSTANTS
    MaxOrganizations,        \* policy.max_organizations
    MaxFindingsOffered,      \* policy.max_findings_per_assessment
    RequireIdentity          \* policy.require_identity_for_p1

ASSUME DiscoveryPolicyAssumption ==
    /\ MaxOrganizations \in Nat /\ MaxFindingsOffered \in Nat
    /\ RequireIdentity \in BOOLEAN

(* A rationale is given, or not, or too long to be kept. *)
ASSUME MentionsAssumption ==
    \A q \in Requests :
        /\ \A draft \in q.answers.mentions : draft.name \in Seq(STRING)
        /\ \A answer \in q.answers.fit :
              /\ answer.rationale \in {"given", "absent", "too long"}
              /\ Len(answer.rows) \in Nat
              /\ DOMAIN answer.rows = 1 .. Len(answer.rows)

VARIABLES
    organizations,   \* verified organizations, in order of first mention
    assessed,        \* how many of them have been assessed
    clients,         \* outcome.candidates
    dropped          \* why an organization is not among them

discovery == <<organizations, assessed, clients, dropped>>

DiscoveryInit ==
    /\ organizations = <<>> /\ assessed = 0 /\ clients = <<>>
    /\ dropped = <<>>

-----------------------------------------------------------------------------
(* The calls *)

Ask(reading) ==
    \/ at' = reading
    \/ at' = "discovery failed"

(* Without findings and key issues there is nothing to derive criteria of. *)
build_criteria ==
    /\ at = "criteria"
    /\ IF findings = <<>> /\ key_issues = <<>>
       THEN at' = "organizations" ELSE Ask("organizations")
    /\ UNCHANGED <<request, sources, passages, stored, research, discovery>>

find_organizations ==
    /\ at = "organizations"
    /\ IF passages = <<>> THEN at' = "assessment" /\ UNCHANGED call
       ELSE Ask("mentions") /\ call' = FirstCall
    /\ UNCHANGED <<request, sources, passages, stored, offered, skipped,
                   findings, swot, key_issues, discovery>>

-----------------------------------------------------------------------------
(* Organizations *)

\* Mutant: the passage the provider cites is not looked into.
Mentioned_unread(draft) == draft.ref \in DOMAIN passages

(* All passages go into one prompt. *)
Mentioned(draft) ==
    /\ draft.ref \in DOMAIN passages
    /\ name_appears_in(draft.name, passages[draft.ref].says)

(* The first mention of a key names the organization, the others add their *)
(* sources.                                                                *)
verify_mentions(draft) ==
    LET source_id == passages[draft.ref].source_id
        same == {o \in DOMAIN organizations :
                    OrganizationKey(organizations[o].name)
                        = OrganizationKey(draft.name)}
    IN  IF same = {}
        THEN Append(organizations,
                    [name |-> draft.name, source_ids |-> {source_id},
                     refs |-> {draft.ref}])
        ELSE [o \in DOMAIN organizations |->
                IF o \in same
                THEN [organizations[o] EXCEPT !.source_ids = @ \cup {source_id},
                                              !.refs = @ \cup {draft.ref}]
                ELSE organizations[o]]

read_mention ==
    /\ at = "mentions" /\ MayAnswer("mentions")
    /\ \E draft \in request.answers.mentions :
          organizations' = IF Mentioned(draft) THEN verify_mentions(draft)
                           ELSE organizations
    /\ RowRead
    /\ UNCHANGED <<request, at, sources, passages, stored, offered, skipped,
                   findings, swot, key_issues, assessed, clients, dropped>>

MentionsRead ==
    /\ at = "mentions" /\ at' = "assessment"
    /\ UNCHANGED <<request, sources, passages, stored, research, discovery>>

-----------------------------------------------------------------------------
(* Fit *)

(* Sources that are documents and not what a search engine showed. *)
direct_source_ids ==
    {s \in DOMAIN sources : sources[s].source_origin # "SEARCH_RESULT"}

(* EVIDENCE_QUALITY takes findings of every framework. *)
Context == 1 .. Lesser(Len(findings), MaxFindingsOffered)

(* Cited sources decide; what cites none is taken to rest on the diagnosis.*)
has_direct_evidence(assessment) ==
    \/ assessment.source_ids \cap direct_source_ids # {}
    \/ assessment.finding_ids # {} /\ assessment.source_ids = {}

_SNIPPET_SENSITIVE == {"PROBLEM_FIT", "PURCHASING_POTENTIAL", "ACCESSIBILITY"}

_SIGNAL_REQUIRED == {"PURCHASING_POTENTIAL", "ACCESSIBILITY"}

(* A favourable level needs a reference, on some criteria a signal too. *)
Earned(draft, cites) ==
    IF /\ draft.level \in Favourable
       /\ ~cites \/ (draft.criterion \in _SIGNAL_REQUIRED /\ ~draft.signal)
    THEN "EVIDENCE_NEEDED" ELSE draft.level

(* On some criteria a search summary does not carry the strongest level;   *)
(* a level that asks for evidence says of what.                            *)
_resolve(draft) ==
    LET cited == draft.refs \cap Context
        source_ids == {findings[i].source_id : i \in cited} \ {0}
        basis == [finding_ids |-> cited, source_ids |-> source_ids]
        earned == Earned(draft, cited # {})
        level == IF /\ earned = "STRONG"
                    /\ draft.criterion \in _SNIPPET_SENSITIVE
                    /\ ~has_direct_evidence(basis)
                 THEN "MODERATE" ELSE earned
    IN  [level |-> level, finding_ids |-> cited, source_ids |-> source_ids,
         missing_evidence |->
            IF draft.gap THEN {<<draft.criterion, "stated">>}
            ELSE IF level = "EVIDENCE_NEEDED"
            THEN {<<draft.criterion, "direct evidence">>} ELSE {}]

\* Mutant: a criterion nobody judged is simply absent.
assess_fit_without_fill(rows) ==
    LET usable(c) == {r \in DOMAIN rows : rows[r].criterion = c
                                          /\ ~rows[r].too_long}
        judged == {c \in FitCriterion : usable(c) # {}}
    IN  [c \in judged |-> _resolve(rows[CHOOSE r \in usable(c) :
                                        \A k \in usable(c) : r <= k])]

(* The first usable row of a criterion is its assessment; a criterion      *)
(* without one is UNKNOWN, and says so unless its rows were discarded.     *)
assess_fit(rows) ==
    LET of(c) == {r \in DOMAIN rows : rows[r].criterion = c}
        usable(c) == {r \in of(c) : ~rows[r].too_long}
    IN  [c \in FitCriterion |->
            IF usable(c) # {}
            THEN _resolve(rows[CHOOSE r \in usable(c) :
                                \A k \in usable(c) : r <= k])
            ELSE [level |-> "UNKNOWN", finding_ids |-> {}, source_ids |-> {},
                  missing_evidence |->
                    IF of(c) # {} THEN {} ELSE {<<"not assessed">>}]]

-----------------------------------------------------------------------------
(* Bands *)

CORE_CRITERIA == {"PROBLEM_FIT", "SOLUTION_FIT", "CAPABILITY_FIT"}

COMMERCIAL_CRITERIA == {"PURCHASING_POTENTIAL", "ACCESSIBILITY"}

_UNSETTLED == {"UNKNOWN", "EVIDENCE_NEEDED"}

_level(fit, c) == IF c \in DOMAIN fit THEN fit[c].level ELSE "UNKNOWN"

Unsettled(fit, criteria) == {c \in criteria : _level(fit, c) \in _UNSETTLED}

(* Rests on evidence, but on search summaries only. *)
_is_snippet_limited(fit) ==
    \E c \in ({"PROBLEM_FIT"} \cup COMMERCIAL_CRITERIA) \cap DOMAIN fit :
        /\ fit[c].finding_ids # {} \/ fit[c].source_ids # {}
        /\ ~has_direct_evidence(fit[c])

\* Mutant: the problem is as good as its level.
CaseForP1_by_level(fit) ==
    \E c \in COMMERCIAL_CRITERIA :
        _level(fit, c) \in Favourable /\ has_direct_evidence(fit[c])

(* The problem and one way to sell rest on more than search summaries. *)
CaseForP1(fit) ==
    /\ has_direct_evidence(fit["PROBLEM_FIT"])
    /\ \E c \in COMMERCIAL_CRITERIA :
          _level(fit, c) \in Favourable /\ has_direct_evidence(fit[c])

NeededEvidence(fit, identity_verified) ==
    {code \in {"PURCHASE_EVIDENCE_NEEDED", "ACCESS_EVIDENCE_NEEDED",
               "IDENTITY_VERIFICATION_NEEDED"} :
        CASE code = "PURCHASE_EVIDENCE_NEEDED" ->
                _level(fit, "PURCHASING_POTENTIAL") \in _UNSETTLED
          [] code = "ACCESS_EVIDENCE_NEEDED" ->
                _level(fit, "ACCESSIBILITY") \in _UNSETTLED
          [] OTHER -> ~identity_verified}

Decision(fit, band, codes) ==
    [band |-> band, reason_codes |-> codes,
     missing_evidence |-> aggregate_missing_evidence(fit)]

(* The first disqualifier wins, then P1 and its gate, then the rest. *)
decide_priority(fit, identity_verified) ==
    LET level(c) == _level(fit, c)
        needed == NeededEvidence(fit, identity_verified)
    IN  CASE \E c \in CORE_CRITERIA : level(c) = "WEAK" ->
               Decision(fit, "DEFERRED", {"CORE_FIT_WEAK"})
          [] level("COMPETITIVE_SITUATION") = "WEAK" ->
               Decision(fit, "DEFERRED", {"COMPETITIVE_BARRIER"})
          [] OTHER ->
               IF \A c \in CORE_CRITERIA : level(c) \in Favourable
               THEN IF CaseForP1(fit)
                    THEN Decision(fit, "P1",
                            {"CORE_FIT_POSITIVE", "COMMERCIAL_SIGNAL_CONFIRMED"}
                            \cup (needed \cap {"IDENTITY_VERIFICATION_NEEDED"}))
                    ELSE Decision(fit, "P2",
                            {"CORE_FIT_POSITIVE"} \cup needed \cup
                            (IF _is_snippet_limited(fit)
                             THEN {"SNIPPET_ONLY_LIMITATION"} ELSE {}))
               ELSE IF Cardinality(Unsettled(fit, CORE_CRITERIA)) >= 2
               THEN Decision(fit, "UNKNOWN", {"INSUFFICIENT_EVIDENCE"})
               ELSE Decision(fit,
                        IF Cardinality(Unsettled(fit, FitCriterion)) >= 2
                        THEN "P3" ELSE "UNKNOWN",
                        {"INSUFFICIENT_EVIDENCE"} \cup needed)

_status_for(band) ==
    CASE band = "DEFERRED" -> "DEFERRED"
      [] band \in {"P1", "P2", "P3"} -> "PRIORITIZED"
      [] OTHER -> "SCREENED"

-----------------------------------------------------------------------------
(* Candidates *)

(* No step of discovery sets an identity. *)
Candidate(organization, fit) ==
    LET priority == decide_priority(fit, ~RequireIdentity) IN
    [name |-> organization.name, source_ids |-> organization.source_ids,
     refs |-> organization.refs, finding_ids |-> aggregate_finding_ids(fit),
     key_issue_ids |-> DOMAIN key_issues, fit |-> fit, priority |-> priority,
     missing_evidence |-> aggregate_missing_evidence(fit),
     status |-> _status_for(priority.band)]

(* Without a rationale no candidate; one that fails the check is dropped   *)
(* whole.                                                                  *)
_build_candidate(organization, answer) ==
    LET candidate == Candidate(organization, assess_fit(answer.rows)) IN
    CASE answer.rationale # "given" ->
            clients' = clients /\ dropped' = Append(dropped, answer.rationale)
      [] answer.rationale = "given" /\ check_client_candidate(candidate) ->
            clients' = Append(clients, candidate) /\ dropped' = dropped
      [] OTHER ->
            /\ clients' = clients
            /\ dropped' = Append(dropped, "CANDIDATE_INVALID")

assess ==
    /\ at = "assessment"
    /\ IF assessed = Lesser(Len(organizations), MaxOrganizations)
       THEN at' = "saving clients" /\ UNCHANGED <<assessed, clients, dropped>>
       ELSE \/ /\ at' = "discovery failed"
               /\ UNCHANGED <<assessed, clients, dropped>>
            \/ /\ \E answer \in request.answers.fit :
                     _build_candidate(organizations[assessed + 1], answer)
               /\ assessed' = assessed + 1 /\ UNCHANGED at
    /\ UNCHANGED <<request, sources, passages, stored, research,
                   organizations>>

ClientRecord(n) ==
    Entity(<<"client", n>>,
           {<<"source", s>> : s \in clients[n].source_ids}
           \cup {<<"finding", i>> : i \in clients[n].finding_ids}
           \cup {<<"key issue", k>> : k \in clients[n].key_issue_ids})

persist_clients ==
    /\ at = "saving clients"
    /\ LET records_of == [n \in DOMAIN clients |-> ClientRecord(n)]
           left == NotYet(records_of)
       IN  IF left = {} THEN at' = "done" /\ UNCHANGED stored
           ELSE \/ /\ stored' = stored \cup
                        {records_of[CHOOSE n \in left :
                                        \A k \in left : n <= k]}
                   /\ UNCHANGED at
                \/ at' = "discovery failed" /\ UNCHANGED stored
    /\ UNCHANGED <<request, sources, passages, research, discovery>>

DiscoveryStep ==
    \/ build_criteria \/ find_organizations \/ read_mention \/ MentionsRead
    \/ assess \/ persist_clients

-----------------------------------------------------------------------------
(* What discovery promises *)

(* Every source a candidate is recorded with holds a passage that writes   *)
(* its name, give or take the legal form, and goes on in no word of the    *)
(* same name: whatever the provider cited, and however mentions were       *)
(* grouped (discover.py:141, verify.py:263).                               *)
SourcesNameTheFirm ==
    \A n \in DOMAIN clients : \A s \in clients[n].source_ids :
        \E p \in DOMAIN passages :
            LET bare == strip_legal_suffix(clients[n].name)
                says == passages[p].says
                writes(i) ==
                    /\ i + Len(bare) - 1 <= Len(says)
                    /\ \A k \in 1 .. Len(bare) :
                          says[i + k - 1].word = bare[k]
                next(i) == i + Len(bare)
            IN  /\ passages[p].source_id = s
                /\ \E i \in DOMAIN says :
                      /\ writes(i)
                      /\ \/ says[next(i) - 1].glued
                         \/ next(i) > Len(says)
                         \/ ~_continues_a_name(says[next(i)])
                         \/ says[next(i)].word \in LEGAL_SUFFIXES

(* A document, and not only what a search engine showed, is under it. *)
RestsOnADocument(assessment) ==
    \E i \in assessment.finding_ids : \E f \in FactsUnder(i) :
        /\ findings[f].evidence_type = "FACT"
        /\ findings[f].source_id \in direct_source_ids

(* A candidate is placed first only when each of the three core criteria   *)
(* and one commercial one is favourable with findings behind it, and where *)
(* any of the facts cited for the problem names a source, one of those     *)
(* sources is a document (priority.py:61, fit.py:212).                     *)
P1IsEarned ==
    \A n \in DOMAIN clients :
        LET fit == clients[n].fit
            facts == {i \in fit["PROBLEM_FIT"].finding_ids :
                        findings[i].evidence_type = "FACT"}
        IN  clients[n].priority.band = "P1" =>
                /\ \A c \in CORE_CRITERIA :
                      fit[c].level \in Favourable /\ fit[c].finding_ids # {}
                /\ \E c \in COMMERCIAL_CRITERIA :
                      fit[c].level \in Favourable /\ fit[c].finding_ids # {}
                /\ facts # {} => RestsOnADocument(fit["PROBLEM_FIT"])

(* The check at the end only ever drops a candidate no criterion of which  *)
(* cites a finding: the pipeline has repaired everything else by then      *)
(* (pipeline.py:194).                                                      *)
OnlyUngroundedAreDropped ==
    at = "saving clients" =>
        \A n \in DOMAIN dropped :
            dropped[n] = "CANDIDATE_INVALID" =>
                \E answer \in request.answers.fit :
                    /\ answer.rationale = "given"
                    /\ \A r \in DOMAIN answer.rows :
                          \/ answer.rows[r].criterion \notin FitCriterion
                          \/ answer.rows[r].too_long
                          \/ answer.rows[r].refs \cap Context = {}
                          \/ \E k \in 1 .. r - 1 :
                                answer.rows[k].criterion
                                    = answer.rows[r].criterion
                                /\ ~answer.rows[k].too_long

(* A candidate known only from search summaries is not placed first. *)
P1RestsOnADocument ==
    \A n \in DOMAIN clients :
        clients[n].priority.band = "P1" =>
            RestsOnADocument(clients[n].fit["PROBLEM_FIT"])

(* The name accounts for the whole of the name a source writes: no         *)
(* capitalised word runs into it from the left or goes on to the right.    *)
NameIsTheWholeName ==
    \A n \in DOMAIN clients : \A r \in clients[n].refs :
        LET bare == strip_legal_suffix(clients[n].name)
            says == passages[r].says
        IN  \E i \in DOMAIN says :
                /\ i + Len(bare) - 1 <= Len(says)
                /\ \A k \in 1 .. Len(bare) : says[i + k - 1].word = bare[k]
                /\ i = 1 \/ ~_continues_a_name(says[i - 1])
=============================================================================
