--------------------------- MODULE AnalysisClaims ---------------------------
(* One dimension's answer to one claim, and the claims that depend on      *)
(* other claims (core/analysis/claims.py, dimensions.py) together with the *)
(* checks an assembled analysis has to pass (core/evidence.py).            *)
(*                                                                         *)
(* A statement is BOOLEAN: whether there is one. Findings are records with *)
(* their id, evidence type, confidence and the Master Notes they were read *)
(* through. A gap is named by what would close it.                         *)
EXTENDS Confidence, Sequences

Frameworks == {"MN03", "MN04", "MN05", "MN06"}

dimensions_for(framework) ==
    CASE framework = "MN03" ->
           {"USER", "BUYER", "DECISION_MAKER", "BUDGET_OWNER", "PROBLEM",
            "PROBLEM_SEVERITY", "CURRENT_WORKAROUND", "KBF"}
      [] framework = "MN04" ->
           {"CURRENT_SOLUTION", "COMPETITOR", "SUBSTITUTE",
            "VALUE_PROPOSITION", "COMPETITIVE_ADVANTAGE"}
      [] framework = "MN05" -> {"SALES_ACCESS_ROUTE", "PARTNER"}
      [] framework = "MN06" ->
           {"VALUE_DRIVER", "PRICE_SENSITIVITY", "BUDGET_EVIDENCE",
            "PROCUREMENT_CONTEXT"}

AnalysisDimension == UNION {dimensions_for(f) : f \in Frameworks}

DIMENSION_FRAMEWORK(d) == CHOOSE f \in Frameworks : d \in dimensions_for(f)

InternationalDimension ==
    {"LOCAL_BUYING_STRUCTURE", "REGULATION", "CERTIFICATION", "TARIFF",
     "LOGISTICS", "CURRENCY_FX", "ENTRY_BARRIER", "LOCAL_PARTNER_REQUIREMENT"}

SYNTHESIS ==
    {"VALUE_DRIVER", "PRICE_SENSITIVITY", "VALUE_PROPOSITION",
     "COMPETITIVE_ADVANTAGE"}

MIXED == {"PROBLEM_SEVERITY", "KBF", "SALES_ACCESS_ROUTE"}

(* No entry in the table is no ceiling. *)
DIMENSION_CEILING(d) ==
    IF d \in {"VALUE_DRIVER", "PRICE_SENSITIVITY"} THEN "LOW"
    ELSE IF d \in {"BUYER", "DECISION_MAKER", "BUDGET_OWNER",
                   "BUDGET_EVIDENCE", "PROCUREMENT_CONTEXT",
                   "COMPETITIVE_ADVANTAGE"}
         THEN "MEDIUM"
    ELSE "HIGH"

NAMED_ORGANIZATION_DIMENSIONS ==
    {"CURRENT_SOLUTION", "COMPETITOR", "SUBSTITUTE", "PARTNER"}

COMPARATOR_DIMENSIONS == {"CURRENT_SOLUTION", "COMPETITOR", "SUBSTITUTE"}

EvidenceTypes == {"FACT", "INFERENCE", "ASSUMPTION", "MISSING_EVIDENCE"}

(* What a provider may put in one row: whether it states something, which  *)
(* of the offered references it cites, whether it lists gaps, and the      *)
(* organization it names. References nobody offered are cited too.         *)
ClaimDraft(refs) ==
    [statement : BOOLEAN, refs : SUBSET refs, gaps : BOOLEAN,
     organization : {"none", "in the passage", "invented"}]

Gaps == {"stated", "evidence", "not assessed", "problem", "buying factors",
         "comparison"}

Claims(ids) ==
    [statement : BOOLEAN, finding_ids : SUBSET ids, missing : SUBSET Gaps,
     evidence_type : EvidenceTypes, confidence : Levels,
     framework_basis : SUBSET Frameworks, named : BOOLEAN]

-----------------------------------------------------------------------------
(* One draft, one claim *)

\* Mutant: a conclusion inherits its findings' evidence type.
evidence_type_inherited(d, cited) ==
    IF \E f \in cited : f.evidence_type = "FACT" THEN "FACT" ELSE "INFERENCE"

_evidence_type(d, cited) ==
    IF cited = {} THEN "MISSING_EVIDENCE"
    ELSE IF /\ d \notin SYNTHESIS
            /\ \E f \in cited :
                  /\ f.evidence_type = "FACT"
                  /\ d \in MIXED => DIMENSION_FRAMEWORK(d) \in f.mn_basis
         THEN "FACT"
    ELSE "INFERENCE"

_confidence(d, cited) ==
    IF cited = {} THEN "UNKNOWN"
    ELSE cap(weakest({f.confidence : f \in cited}), DIMENSION_CEILING(d))

(* The findings behind the references that were offered. *)
Resolved(draft, keyed) == {keyed[r] : r \in draft.refs \cap DOMAIN keyed}

(* A name on a dimension that may carry one has to be in what it cites. *)
NameRefused(d, draft, cited) ==
    /\ d \in NAMED_ORGANIZATION_DIMENSIONS
    /\ draft.organization # "none"
    /\ draft.organization = "invented" \/ cited = {}

(* Gaps as given; a claim with no statement never goes without one. *)
MissingFor(statement, draft) ==
    IF draft.gaps THEN {"stated"}
    ELSE IF statement THEN {} ELSE {"evidence"}

Claim(statement, cited, missing, evidence_type, confidence, named) ==
    [statement |-> statement, finding_ids |-> {f.id : f \in cited},
     missing |-> missing, evidence_type |-> evidence_type,
     confidence |-> confidence,
     framework_basis |-> UNION {f.mn_basis : f \in cited}, named |-> named]

\* Mutant: a refused name takes the references along but not the statement.
resolve_claim_keeps_statement(d, draft, keyed) ==
    LET refused == NameRefused(d, draft, Resolved(draft, keyed))
        cited == IF refused THEN {} ELSE Resolved(draft, keyed)
    IN  Claim(draft.statement, cited, MissingFor(draft.statement, draft),
              _evidence_type(d, cited), _confidence(d, cited),
              ~refused /\ d \in NAMED_ORGANIZATION_DIMENSIONS
                       /\ draft.organization # "none")

(* References that were not offered resolve to nothing; an invented name   *)
(* takes the statement and its references with it; a statement with        *)
(* nothing behind it is dropped, and what it cites then earns no credit.   *)
resolve_claim(d, draft, keyed) ==
    LET refused == NameRefused(d, draft, Resolved(draft, keyed))
        cited == IF refused THEN {} ELSE Resolved(draft, keyed)
        statement == draft.statement /\ cited # {}
    IN  Claim(statement, cited, MissingFor(statement, draft),
              IF statement THEN _evidence_type(d, cited)
                           ELSE "MISSING_EVIDENCE",
              IF statement THEN _confidence(d, cited) ELSE "UNKNOWN",
              /\ ~refused
              /\ d \in NAMED_ORGANIZATION_DIMENSIONS
              /\ draft.organization # "none")

(* Overseas claims are all direct, capped at MEDIUM, and keep no           *)
(* reference without a statement.                                          *)
resolve_international(draft, keyed) ==
    LET statement == draft.statement /\ Resolved(draft, keyed) # {}
        cited == IF statement THEN Resolved(draft, keyed) ELSE {}
    IN  Claim(statement, cited, MissingFor(statement, draft),
              IF ~statement THEN "MISSING_EVIDENCE"
              ELSE IF \E f \in cited : f.evidence_type = "FACT" THEN "FACT"
              ELSE "INFERENCE",
              cap(weakest({f.confidence : f \in cited}), "MEDIUM"),
              FALSE)

(* A dimension nobody answered says so. *)
NotAssessed ==
    Claim(FALSE, {}, {"not assessed"}, "MISSING_EVIDENCE", "UNKNOWN", FALSE)

-----------------------------------------------------------------------------
(* Claims that depend on other claims *)

is_established(claim) == claim.statement /\ claim.finding_ids # {}

_unsettle(claim, gap) ==
    [claim EXCEPT !.statement = FALSE, !.finding_ids = {},
                  !.framework_basis = {}, !.confidence = "UNKNOWN",
                  !.evidence_type = "MISSING_EVIDENCE",
                  !.missing = @ \cup {gap}]

\* Mutant: a proposition without buying factors keeps the higher ceiling.
proposition_flat_ceiling(claims, our_solution) ==
    LET c == claims["VALUE_PROPOSITION"] IN
    IF ~c.statement THEN c
    ELSE IF ~is_established(claims["PROBLEM"]) \/ ~our_solution
         THEN _unsettle(c, "problem")
    ELSE [c EXCEPT !.confidence = cap(@, "MEDIUM")]

(* A problem and something to offer; without the buying factors it is a    *)
(* hypothesis, kept low with its gap recorded.                             *)
ValueProposition(claims, our_solution) ==
    LET c == claims["VALUE_PROPOSITION"] IN
    IF ~c.statement THEN c
    ELSE IF ~is_established(claims["PROBLEM"]) \/ ~our_solution
         THEN _unsettle(c, "problem")
    ELSE IF is_established(claims["KBF"])
         THEN [c EXCEPT !.confidence = cap(@, "MEDIUM")]
    ELSE [c EXCEPT !.confidence = cap(@, "LOW"),
                   !.missing = @ \cup {"buying factors"}]

EstablishedComparators(claims) ==
    {d \in COMPARATOR_DIMENSIONS : is_established(claims[d])}

(* What the buying factor and the established comparators already cite. *)
Spent(claims) ==
    UNION {claims[d].finding_ids :
             d \in {e \in {"KBF"} \cup COMPARATOR_DIMENSIONS :
                      is_established(claims[e])}}

(* The four conditions, all needed. *)
Compared(claims) ==
    LET c == claims["COMPETITIVE_ADVANTAGE"] IN
    /\ is_established(claims["KBF"])
    /\ EstablishedComparators(claims) # {}
    /\ c.finding_ids \ Spent(claims) # {}
    /\ "MN04" \in c.framework_basis

CompetitiveAdvantage(claims) ==
    LET c == claims["COMPETITIVE_ADVANTAGE"] IN
    IF c.statement /\ ~Compared(claims) THEN _unsettle(c, "comparison") ELSE c

apply_cross_dimension_rules(claims, our_solution) ==
    [claims EXCEPT !["VALUE_PROPOSITION"] =
                       ValueProposition(claims, our_solution),
                   !["COMPETITIVE_ADVANTAGE"] = CompetitiveAdvantage(claims)]

-----------------------------------------------------------------------------
(* The entity check *)

_check_claim(claim) ==
    /\ claim.statement => claim.finding_ids # {}
    /\ ~claim.statement => claim.missing # {}
    /\ claim.statement => claim.evidence_type # "MISSING_EVIDENCE"
    /\ claim.named => claim.finding_ids # {}

(* The aggregates are computed from the same claims, so they agree. *)
check_client_analysis(claims, international, scope, known) ==
    /\ DOMAIN claims = AnalysisDimension
    /\ \A d \in DOMAIN claims : _check_claim(claims[d])
    /\ scope # "INTERNATIONAL" => DOMAIN international = {}
    /\ \A d \in DOMAIN international : _check_claim(international[d])
    /\ \A d \in DOMAIN claims : claims[d].finding_ids \subseteq known
    /\ \A d \in DOMAIN international :
          international[d].finding_ids \subseteq known
=============================================================================
