--------------------------- MODULE EvidenceChecks ---------------------------
(* The rules of core/evidence.py over sources, findings, SWOT items, key   *)
(* issues and client candidates: TRUE when the check returns no violation. *)
EXTENDS ProjectRecords

check_source_metadata(s) ==
    IF s.source_origin = "UPLOADED_FILE"
    THEN /\ s.file_type # Unset /\ s.file_size
         /\ ~s.title /\ ~s.publisher /\ ~s.retrieved_at
    ELSE /\ s.title /\ s.retrieved_at
         /\ s.file_type = Unset /\ ~s.file_size

(* known: the positions of the findings there are. *)
check_finding(f, known) ==
    /\ f.mn_basis # {}
    /\ CASE f.evidence_type = "FACT" ->
              f.source_id # 0 /\ f.supporting = {}
         [] f.evidence_type = "INFERENCE" ->
              /\ f.supporting # {} /\ f.supporting \subseteq known
              /\ f.source_id = 0 /\ f.locator = NoLocator
         [] OTHER ->
              /\ f.source_id = 0 /\ f.supporting = {}
              /\ f.evidence_type = "MISSING_EVIDENCE" => f.gap

check_swot_issue(item, known) ==
    item.finding_ids # {} /\ item.finding_ids \subseteq known

check_key_issue(issue, known_swot, known) ==
    /\ issue.implication
    /\ issue.swot_issue_ids # {} /\ issue.swot_issue_ids \subseteq known_swot
    /\ issue.finding_ids \subseteq known

-----------------------------------------------------------------------------
(* Candidates *)

FitCriterion ==
    {"PROBLEM_FIT", "SOLUTION_FIT", "CAPABILITY_FIT", "MARKET_ATTRACTIVENESS",
     "PURCHASING_POTENTIAL", "ACCESSIBILITY", "COMPETITIVE_SITUATION",
     "EVIDENCE_QUALITY"}

FitLevel == {"STRONG", "MODERATE", "WEAK", "UNKNOWN", "EVIDENCE_NEEDED"}

Favourable == {"STRONG", "MODERATE"}

aggregate_finding_ids(fit) == UNION {fit[c].finding_ids : c \in DOMAIN fit}

aggregate_missing_evidence(fit) ==
    UNION {fit[c].missing_evidence : c \in DOMAIN fit}

_check_derived_aggregates(candidate) ==
    /\ candidate.finding_ids = {} \/ candidate.finding_ids
            = aggregate_finding_ids(candidate.fit)
    /\ candidate.missing_evidence = aggregate_missing_evidence(candidate.fit)
    /\ candidate.priority.missing_evidence = candidate.missing_evidence

_check_fit(fit) ==
    /\ DOMAIN fit = FitCriterion
    /\ \A c \in DOMAIN fit :
          /\ fit[c].level \in Favourable =>
                fit[c].finding_ids # {} \/ fit[c].source_ids # {}
          /\ fit[c].level = "EVIDENCE_NEEDED" => fit[c].missing_evidence # {}

(* The rationale is present by the time this is asked. *)
check_client_candidate(candidate) ==
    /\ candidate.source_ids # {} /\ candidate.finding_ids # {}
    /\ _check_fit(candidate.fit) /\ _check_derived_aggregates(candidate)
=============================================================================
