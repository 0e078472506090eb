------------------------ MODULE ClientAnalysis_proofs ------------------------
(* Proofs about ClientAnalysis for every pool of candidates, every input,  *)
(* every answer a provider may give and every limit.                       *)
EXTENDS ClientAnalysis, FiniteSetTheorems, SequenceTheorems, TLAPS

-----------------------------------------------------------------------------
(* Levels *)

(* The four levels are ordered as the code ranks them. *)
LEMMA RankValues ==
    /\ rank("UNKNOWN") = 0 /\ rank("LOW") = 1
    /\ rank("MEDIUM") = 2 /\ rank("HIGH") = 3
  BY Zenon DEF rank

(* Every level has a rank from 0 to 3. *)
LEMMA RankType == \A l \in Levels : rank(l) \in 0 .. 3
  BY RankValues DEF Levels

(* A capped level is a level, no higher than the one it came from and no   *)
(* higher than the ceiling.                                                *)
LEMMA CapLowers ==
  ASSUME NEW p \in Levels, NEW c \in Levels
  PROVE  /\ cap(p, c) \in Levels
         /\ rank(cap(p, c)) <= rank(p) /\ rank(cap(p, c)) <= rank(c)
  <1>1. rank(p) \in 0 .. 3 /\ rank(c) \in 0 .. 3
    BY RankType
  <1> QED BY <1>1 DEF cap

(* The weakest of some levels is one of them, and no other is weaker. *)
LEMMA WeakestIsLeast ==
  ASSUME NEW S \in SUBSET Levels, S # {}
  PROVE  /\ weakest(S) \in S
         /\ \A k \in S : rank(weakest(S)) <= rank(k)
  <1> DEFINE Least(l) == \A k \in S : rank(l) <= rank(k)
  <1>1. \E l \in S : Least(l)
    <2>1. CASE "UNKNOWN" \in S
      BY <2>1, RankValues, RankType
    <2>2. CASE "UNKNOWN" \notin S /\ "LOW" \in S
      BY <2>2, RankValues DEF Levels
    <2>3. CASE "UNKNOWN" \notin S /\ "LOW" \notin S /\ "MEDIUM" \in S
      BY <2>3, RankValues DEF Levels
    <2>4. CASE S = {"HIGH"}
      BY <2>4, RankValues
    <2> QED BY <2>1, <2>2, <2>3, <2>4 DEF Levels
  <1> QED BY <1>1 DEF weakest

(* What has no support has no credit. *)
LEMMA NoSupport == weakest({}) = "UNKNOWN"
  BY DEF weakest

(* Every dimension has a ceiling. *)
LEMMA CeilingIsALevel == \A d : DIMENSION_CEILING(d) \in Levels
  BY DEF DIMENSION_CEILING, Levels

-----------------------------------------------------------------------------
(* The first few of a set of positions *)

(* A finite nonempty set of positions has a last one. *)
LEMMA LastPosition ==
  ASSUME NEW n \in Nat, NEW S \in SUBSET (1 .. n), S # {}
  PROVE  \E m \in S : \A i \in S : i <= m
  <1> DEFINE Above == {k \in Nat : \A i \in S : i <= k}
  <1>1. n \in Above
    OBVIOUS
  <1>2. PICK m \in Above : \A k \in Above : ~(<<k, m>> \in OpToRel(<, Nat))
    BY <1>1, NatLessThanWellFounded, WFMin, Zenon
  <1>3. \A k \in Above : m <= k
    <2> TAKE k \in Above
    <2>1. <<k, m>> \notin OpToRel(<, Nat)
      BY <1>2
    <2> QED BY <2>1 DEF OpToRel
  <1>4. m \in S
    <2> SUFFICES ASSUME m \notin S PROVE FALSE
      OBVIOUS
    <2>1. PICK i \in S : TRUE
      OBVIOUS
    <2>2. m - 1 \in Above
      BY <2>1
    <2> QED BY <2>2, <1>3
  <1> QED BY <1>4

(* FirstOf takes at most n positions, all of them from the pool. *)
LEMMA FirstOfIsBounded ==
  ASSUME NEW len \in Nat, NEW pool \in SUBSET (1 .. len), NEW n \in Nat
  PROVE  /\ FirstOf(pool, n) \subseteq pool
         /\ IsFiniteSet(FirstOf(pool, n))
         /\ Cardinality(FirstOf(pool, n)) <= n
  <1> DEFINE S == FirstOf(pool, n)
  <1>1. S \subseteq pool
    BY DEF FirstOf
  <1>2. IsFiniteSet(pool)
    <2>1. IsFiniteSet(1 .. len)
      BY FS_Interval
    <2> QED BY <2>1, FS_Subset
  <1>3. IsFiniteSet(S)
    BY <1>1, <1>2, FS_Subset
  <1>4. CASE S = {}
    BY <1>4, <1>1, FS_EmptySet
  <1>5. CASE S # {}
    <2>1. PICK m \in S : \A i \in S : i <= m
      BY <1>5, <1>1, LastPosition
    <2> DEFINE T == {j \in pool : j <= m}
    <2>2. Cardinality(T) <= n
      BY <2>1 DEF FirstOf
    <2>3. S \subseteq T /\ IsFiniteSet(T)
      BY <2>1, <1>1, <1>2, FS_Subset
    <2>4. Cardinality(S) <= Cardinality(T)
      BY <2>3, FS_Subset
    <2>5. Cardinality(S) \in Nat /\ Cardinality(T) \in Nat
      BY <2>3, <1>3, FS_CardinalityType
    <2> QED BY <2>2, <2>4, <2>5, <1>1, <1>3
  <1> QED BY <1>4, <1>5

-----------------------------------------------------------------------------
(* What one claim owes to the findings it is made from *)

IdsOf(found) == {f.id : f \in found}

(* No two findings share an id. *)
Distinct(found) == \A f, g \in found : f.id = g.id => f = g

Behind(c, found) == {f \in found : f.id \in c.finding_ids}

(* A claim that settles something: all it says is behind it. *)
Settled(d, c, found) ==
    /\ c.finding_ids # {}
    /\ rank(c.confidence) <= rank(DIMENSION_CEILING(d))
    /\ \A f \in Behind(c, found) : rank(c.confidence) <= rank(f.confidence)
    /\ c.evidence_type = "FACT" =>
          /\ d \notin SYNTHESIS
          /\ \E f \in Behind(c, found) : f.evidence_type = "FACT"
    /\ c.evidence_type # "MISSING_EVIDENCE"

Unsettled(c) ==
    /\ c.missing # {}
    /\ c.evidence_type = "MISSING_EVIDENCE" /\ c.confidence = "UNKNOWN"

(* What holds of every claim a client's analysis is made of. *)
Sound(d, c, found) ==
    /\ c \in Claims(IdsOf(found))
    /\ IsFiniteSet(c.finding_ids) /\ Cardinality(c.finding_ids) <= MaxFindings
    /\ c.framework_basis = UNION {f.mn_basis : f \in Behind(c, found)}
    /\ c.statement => Settled(d, c, found)
    /\ ~c.statement => Unsettled(c)
    /\ c.named => d \in NAMED_ORGANIZATION_DIMENSIONS /\ c.finding_ids # {}

(* The findings behind the offered references are findings, and there are  *)
(* no more of them than were offered.                                      *)
LEMMA ResolvedAreOffered ==
  ASSUME NEW ids, NEW found \in SUBSET Findings(ids),
         NEW draft, NEW keyed,
         \A r \in DOMAIN keyed : keyed[r] \in found,
         IsFiniteSet(DOMAIN keyed),
         Cardinality(DOMAIN keyed) <= MaxFindings
  PROVE  LET cited == Resolved(draft, keyed) IN
         /\ cited \subseteq found
         /\ IsFiniteSet(IdsOf(cited)) /\ Cardinality(IdsOf(cited)) <= MaxFindings
  <1> DEFINE S == draft.refs \cap DOMAIN keyed
             T == IdsOf(Resolved(draft, keyed))
             g == [r \in S |-> keyed[r].id]
  <1>1. IsFiniteSet(S) /\ Cardinality(S) <= Cardinality(DOMAIN keyed)
    BY FS_Subset
  <1>2. g \in Surjection(S, T)
    BY DEF Surjection, Resolved, IdsOf
  <1>3. IsFiniteSet(T) /\ Cardinality(T) <= Cardinality(S)
    <2> HIDE DEF S, T, g
    <2> QED BY <1>1, <1>2, FS_Surjection
  <1>4. /\ Cardinality(S) \in Nat /\ Cardinality(T) \in Nat
        /\ Cardinality(DOMAIN keyed) \in Nat
    BY <1>1, <1>3, FS_CardinalityType
  <1>5. Resolved(draft, keyed) \subseteq found
    BY DEF Resolved
  <1> QED BY <1>1, <1>3, <1>4, <1>5, BoundsAssumption

(* With ids of their own, the findings a claim made from some of them      *)
(* cites are those and no others.                                          *)
LEMMA CitedAreBehind ==
  ASSUME NEW found, Distinct(found), NEW cited \in SUBSET found, NEW c,
         c.finding_ids = IdsOf(cited)
  PROVE  Behind(c, found) = cited
  BY DEF Behind, Distinct, IdsOf

(* The confidence of what some findings say: no more than each of them,    *)
(* nor than the dimension allows.                                          *)
LEMMA ConfidenceIsCovered ==
  ASSUME NEW ids, NEW found \in SUBSET Findings(ids),
         NEW cited \in SUBSET found, NEW ceiling \in Levels
  PROVE  LET level == cap(weakest({f.confidence : f \in cited}), ceiling) IN
         /\ level \in Levels
         /\ cited # {} => /\ rank(level) <= rank(ceiling)
                          /\ \A f \in cited : rank(level) <= rank(f.confidence)
  <1> DEFINE S == {f.confidence : f \in cited}
  <1>1. S \in SUBSET Levels
    BY DEF Findings
  <1>2. weakest(S) \in Levels
    BY <1>1, WeakestIsLeast, NoSupport DEF Levels
  <1>3. ASSUME NEW f \in cited
        PROVE  rank(weakest(S)) <= rank(f.confidence)
    BY <1>1, WeakestIsLeast
  <1>4. \A f \in cited : rank(f.confidence) \in 0 .. 3
    BY <1>1, RankType
  <1> HIDE DEF S
  <1>5. /\ cap(weakest(S), ceiling) \in Levels
        /\ rank(cap(weakest(S), ceiling)) <= rank(weakest(S))
        /\ rank(cap(weakest(S), ceiling)) <= rank(ceiling)
    BY <1>2, CapLowers
  <1>6. rank(cap(weakest(S), ceiling)) \in 0 .. 3 /\ rank(weakest(S)) \in 0 .. 3
    BY <1>5, <1>2, RankType
  <1>7. ASSUME NEW f \in cited
        PROVE  rank(cap(weakest(S), ceiling)) <= rank(f.confidence)
    <2>1. rank(weakest(S)) <= rank(f.confidence)
      BY <1>3
    <2>2. rank(f.confidence) \in 0 .. 3
      BY <1>4
    <2> QED BY <2>1, <2>2, <1>5, <1>6
  <1> QED BY <1>5, <1>7 DEF S

(* Whatever a provider answers, resolve_claim makes a sound claim of it.   *)
LEMMA ResolveIsSound ==
  ASSUME NEW ids, NEW found \in SUBSET Findings(ids), Distinct(found),
         NEW d, NEW draft \in ClaimDraft(Nat), NEW keyed,
         \A r \in DOMAIN keyed : keyed[r] \in found,
         IsFiniteSet(DOMAIN keyed),
         Cardinality(DOMAIN keyed) <= MaxFindings
  PROVE  /\ Sound(d, resolve_claim(d, draft, keyed), found)
         /\ Behind(resolve_claim(d, draft, keyed), found)
              \subseteq {keyed[r] : r \in DOMAIN keyed}
  <1> DEFINE refused == NameRefused(d, draft, Resolved(draft, keyed))
             cited == IF refused THEN {} ELSE Resolved(draft, keyed)
             statement == draft.statement /\ cited # {}
             c == resolve_claim(d, draft, keyed)
             type == IF statement THEN _evidence_type(d, cited)
                                  ELSE "MISSING_EVIDENCE"
             level == IF statement THEN _confidence(d, cited) ELSE "UNKNOWN"
             name == /\ ~refused /\ d \in NAMED_ORGANIZATION_DIMENSIONS
                     /\ draft.organization # "none"
  <1>1. /\ cited \subseteq found
        /\ IsFiniteSet(IdsOf(cited)) /\ Cardinality(IdsOf(cited)) <= MaxFindings
    <2>1. CASE refused
      BY <2>1, FS_EmptySet, BoundsAssumption DEF IdsOf
    <2>2. CASE ~refused
      BY <2>2, ResolvedAreOffered
    <2> QED BY <2>1, <2>2
  <1>2. cited \subseteq {keyed[r] : r \in DOMAIN keyed}
    BY DEF Resolved
  <1>3. c = Claim(statement, cited, MissingFor(statement, draft), type, level,
                  name)
    BY DEF resolve_claim
  <1>4. /\ statement \in BOOLEAN /\ name \in BOOLEAN
        /\ MissingFor(statement, draft) \in SUBSET Gaps
        /\ ~statement => MissingFor(statement, draft) # {}
    BY DEF MissingFor, Gaps
  <1>5. name => cited # {}
    BY DEF NameRefused
  <1>6. /\ type \in EvidenceTypes
        /\ statement => type # "MISSING_EVIDENCE"
        /\ statement /\ type = "FACT" =>
              d \notin SYNTHESIS /\ \E f \in cited : f.evidence_type = "FACT"
        /\ ~statement => type = "MISSING_EVIDENCE"
    BY DEF _evidence_type, EvidenceTypes
  <1>7. /\ level \in Levels
        /\ statement =>
              /\ rank(level) <= rank(DIMENSION_CEILING(d))
              /\ \A f \in cited : rank(level) <= rank(f.confidence)
        /\ ~statement => level = "UNKNOWN"
    <2>1. DIMENSION_CEILING(d) \in Levels
      BY CeilingIsALevel
    <2> HIDE DEF cited
    <2> QED BY <2>1, <1>1, ConfidenceIsCovered DEF _confidence, Levels
  <1> HIDE DEF refused, cited, statement, type, level, name, c
  <1>8. /\ c.finding_ids = IdsOf(cited) /\ c.statement = statement
        /\ c.evidence_type = type /\ c.confidence = level /\ c.named = name
        /\ c.missing = MissingFor(statement, draft)
        /\ c.framework_basis = UNION {f.mn_basis : f \in cited}
    BY <1>3 DEF Claim, IdsOf
  <1>9. Behind(c, found) = cited
    BY <1>8, <1>1, CitedAreBehind
  <1>10. statement => IdsOf(cited) # {}
    BY <1>1 DEF statement, IdsOf
  <1>11. name => IdsOf(cited) # {}
    BY <1>5 DEF IdsOf
  <1>12. c \in Claims(IdsOf(found))
    <2>1. UNION {f.mn_basis : f \in cited} \in SUBSET Frameworks
      BY <1>1 DEF Findings
    <2>2. IdsOf(cited) \in SUBSET IdsOf(found)
      BY <1>1 DEF IdsOf
    <2> QED BY <2>1, <2>2, <1>3, <1>4, <1>6, <1>7 DEF Claim, Claims, IdsOf
  <1>13. statement => Settled(d, c, found)
    BY <1>6, <1>7, <1>8, <1>9, <1>10 DEF Settled
  <1>14. ~statement => Unsettled(c)
    BY <1>4, <1>6, <1>7, <1>8 DEF Unsettled
  <1>15. name => d \in NAMED_ORGANIZATION_DIMENSIONS
    BY DEF name
  <1>16. Sound(d, c, found)
    BY <1>1, <1>8, <1>9, <1>11, <1>12, <1>13, <1>14, <1>15 DEF Sound
  <1> QED BY <1>2, <1>9, <1>16 DEF c

(* The same of the answer about an overseas dimension. *)
LEMMA ResolveInternationalIsSound ==
  ASSUME NEW ids, NEW found \in SUBSET Findings(ids),
         NEW draft \in ClaimDraft(Nat), NEW keyed,
         \A r \in DOMAIN keyed : keyed[r] \in found
  PROVE  LET c == resolve_international(draft, keyed) IN
         /\ c \in Claims(IdsOf(found)) /\ _check_claim(c)
         /\ Behind(c, found) \subseteq found
  <1> DEFINE statement == draft.statement /\ Resolved(draft, keyed) # {}
             cited == IF statement THEN Resolved(draft, keyed) ELSE {}
             type == IF ~statement THEN "MISSING_EVIDENCE"
                     ELSE IF \E f \in cited : f.evidence_type = "FACT"
                     THEN "FACT" ELSE "INFERENCE"
             level == cap(weakest({f.confidence : f \in cited}), "MEDIUM")
             c == resolve_international(draft, keyed)
  <1>1. cited \subseteq found
    BY DEF Resolved
  <1>2. c = Claim(statement, cited, MissingFor(statement, draft), type, level,
                  FALSE)
    BY DEF resolve_international
  <1>3. /\ statement \in BOOLEAN
        /\ MissingFor(statement, draft) \in SUBSET Gaps
        /\ ~statement => MissingFor(statement, draft) # {}
    BY DEF MissingFor, Gaps
  <1>4. type \in EvidenceTypes /\ (statement => type # "MISSING_EVIDENCE")
    BY DEF EvidenceTypes
  <1>5. level \in Levels
    <2>1. "MEDIUM" \in Levels
      BY DEF Levels
    <2> HIDE DEF cited
    <2> QED BY <2>1, <1>1, ConfidenceIsCovered
  <1>6. statement => cited # {}
    OBVIOUS
  <1> HIDE DEF statement, cited, type, level, c
  <1>7. /\ UNION {f.mn_basis : f \in cited} \in SUBSET Frameworks
        /\ IdsOf(cited) \in SUBSET IdsOf(found)
    BY <1>1 DEF Findings, IdsOf
  <1>8. c \in Claims(IdsOf(found))
    BY <1>2, <1>3, <1>4, <1>5, <1>7 DEF Claim, Claims, IdsOf
  <1>9. _check_claim(c)
    BY <1>2, <1>3, <1>4, <1>6 DEF Claim, _check_claim
  <1> QED BY <1>8, <1>9 DEF c, Behind

(* A dimension nobody answered is a sound claim too. *)
LEMMA NotAssessedIsSound ==
  ASSUME NEW found, NEW d
  PROVE  /\ Sound(d, NotAssessed, found) /\ _check_claim(NotAssessed)
         /\ NotAssessed.finding_ids = {} /\ ~NotAssessed.statement
         /\ NotAssessed.framework_basis = {}
  <1>1. IsFiniteSet({}) /\ Cardinality({}) = 0
    BY FS_EmptySet
  <1>2. NotAssessed \in Claims(IdsOf(found))
    BY DEF NotAssessed, Claim, Claims, Gaps, EvidenceTypes, Levels
  <1>3. /\ NotAssessed.finding_ids = {} /\ NotAssessed.framework_basis = {}
        /\ ~NotAssessed.statement /\ ~NotAssessed.named
        /\ NotAssessed.missing = {"not assessed"}
        /\ NotAssessed.evidence_type = "MISSING_EVIDENCE"
        /\ NotAssessed.confidence = "UNKNOWN"
    BY DEF NotAssessed, Claim
  <1>4. UNION {f.mn_basis : f \in Behind(NotAssessed, found)} = {}
    BY <1>3 DEF Behind
  <1>5. Unsettled(NotAssessed)
    BY <1>3 DEF Unsettled
  <1>6. Cardinality(NotAssessed.finding_ids) <= MaxFindings
    <2>1. Cardinality(NotAssessed.finding_ids) = Cardinality({})
      BY <1>3, Zenon
    <2> QED BY <2>1, <1>1, BoundsAssumption
  <1> QED BY <1>1, <1>2, <1>3, <1>4, <1>5, <1>6 DEF Sound, _check_claim

(* A sound claim passes its check. *)
LEMMA SoundPasses ==
  ASSUME NEW d, NEW c, NEW found, Sound(d, c, found)
  PROVE  _check_claim(c)
  BY DEF Sound, Settled, Unsettled, _check_claim

(* What an unsettled claim is. *)
LEMMA UnsettleIsSound ==
  ASSUME NEW d, NEW c, NEW found, NEW gap \in Gaps, Sound(d, c, found),
         ~c.named
  PROVE  /\ Sound(d, _unsettle(c, gap), found)
         /\ _unsettle(c, gap).statement = FALSE
         /\ _unsettle(c, gap).finding_ids = {}
  <1> DEFINE u == _unsettle(c, gap)
  <1>1. c \in Claims(IdsOf(found))
    BY DEF Sound
  <1>2. /\ u \in Claims(IdsOf(found))
        /\ u.statement = FALSE /\ u.finding_ids = {} /\ u.framework_basis = {}
        /\ u.confidence = "UNKNOWN" /\ u.evidence_type = "MISSING_EVIDENCE"
        /\ u.missing = c.missing \cup {gap} /\ u.named = c.named
    BY <1>1 DEF _unsettle, Claims, Levels, EvidenceTypes
  <1>3. IsFiniteSet({}) /\ Cardinality({}) = 0
    BY FS_EmptySet
  <1> HIDE DEF u
  <1>4. UNION {f.mn_basis : f \in Behind(u, found)} = {}
    BY <1>2 DEF Behind
  <1>5. Unsettled(u)
    BY <1>2 DEF Unsettled
  <1>6. Sound(d, u, found)
    BY <1>2, <1>3, <1>4, <1>5, BoundsAssumption DEF Sound
  <1> QED BY <1>2, <1>6 DEF u

-----------------------------------------------------------------------------
(* The rules across the dimensions *)

(* The dimensions the rules read and write belong to an analysis. *)
LEMMA Dimensions ==
  /\ dimensions_for("MN04") \subseteq AnalysisDimension
  /\ {"PROBLEM", "KBF"} \cup dimensions_for("MN04") \subseteq AnalysisDimension
  /\ {"VALUE_PROPOSITION", "COMPETITIVE_ADVANTAGE"} \subseteq dimensions_for("MN04")
  /\ COMPARATOR_DIMENSIONS \subseteq dimensions_for("MN04")
  /\ \A f \in Frameworks :
        "COMPETITIVE_ADVANTAGE" \in dimensions_for(f) => f = "MN04"
  <1>1. /\ dimensions_for("MN03") =
           {"USER", "BUYER", "DECISION_MAKER", "BUDGET_OWNER", "PROBLEM",
            "PROBLEM_SEVERITY", "CURRENT_WORKAROUND", "KBF"}
        /\ dimensions_for("MN04") =
           {"CURRENT_SOLUTION", "COMPETITOR", "SUBSTITUTE",
            "VALUE_PROPOSITION", "COMPETITIVE_ADVANTAGE"}
        /\ dimensions_for("MN05") = {"SALES_ACCESS_ROUTE", "PARTNER"}
        /\ dimensions_for("MN06") =
           {"VALUE_DRIVER", "PRICE_SENSITIVITY", "BUDGET_EVIDENCE",
            "PROCUREMENT_CONTEXT"}
    BY Zenon DEF dimensions_for
  <1>2. \A f \in Frameworks : dimensions_for(f) \subseteq AnalysisDimension
    BY DEF AnalysisDimension
  <1> QED BY <1>1, <1>2 DEF Frameworks, COMPARATOR_DIMENSIONS

(* What the rules leave of a value proposition. *)
PropositionStands(answered, our_solution) ==
    LET c == answered["VALUE_PROPOSITION"] IN
    c.statement =>
        /\ answered["PROBLEM"].statement /\ our_solution
        /\ c.confidence # "HIGH"
        /\ answered["KBF"].statement
           \/ (c.confidence # "MEDIUM" /\ "buying factors" \in c.missing)

(* And of a competitive advantage. *)
AdvantageStands(answered) ==
    answered["COMPETITIVE_ADVANTAGE"].statement => Compared(answered)

Capped(c, ceiling, missing) ==
    [c EXCEPT !.confidence = cap(@, ceiling), !.missing = missing]

(* A capped claim is still sound. *)
LEMMA CappedIsSound ==
  ASSUME NEW d, NEW c, NEW ids, NEW found \in SUBSET Findings(ids),
         NEW ceiling \in Levels,
         NEW missing \in SUBSET Gaps, c.missing \subseteq missing,
         Sound(d, c, found), c.statement
  PROVE  LET u == Capped(c, ceiling, missing) IN
         /\ Sound(d, u, found)
         /\ u.finding_ids = c.finding_ids /\ u.statement
         /\ u.missing = missing
         /\ u.confidence \in Levels /\ rank(u.confidence) <= rank(ceiling)
  <1> DEFINE u == Capped(c, ceiling, missing)
  <1>1. c \in Claims(IdsOf(found))
    BY DEF Sound
  <1>2. c.confidence \in Levels /\ c.missing \in SUBSET Gaps
    BY <1>1 DEF Claims
  <1>3. /\ cap(c.confidence, ceiling) \in Levels
        /\ rank(cap(c.confidence, ceiling)) <= rank(c.confidence)
        /\ rank(cap(c.confidence, ceiling)) <= rank(ceiling)
    BY <1>2, CapLowers
  <1>4. /\ u \in Claims(IdsOf(found))
        /\ u.confidence = cap(c.confidence, ceiling) /\ u.missing = missing
        /\ u.finding_ids = c.finding_ids /\ u.statement = c.statement
        /\ u.evidence_type = c.evidence_type /\ u.named = c.named
        /\ u.framework_basis = c.framework_basis
    BY <1>1, <1>3 DEF Claims, Capped
  <1> HIDE DEF u
  <1>5. Behind(u, found) = Behind(c, found)
    BY <1>4 DEF Behind
  <1>6. Settled(d, u, found)
    <2>1. Settled(d, c, found)
      BY DEF Sound
    <2>2. rank(c.confidence) <= rank(DIMENSION_CEILING(d))
      BY <2>1 DEF Settled
    <2>3. /\ rank(DIMENSION_CEILING(d)) \in 0 .. 3 /\ rank(c.confidence) \in 0 .. 3
          /\ rank(u.confidence) \in 0 .. 3
      BY <1>2, <1>3, <1>4, CeilingIsALevel, RankType
    <2>4. rank(u.confidence) <= rank(DIMENSION_CEILING(d))
      BY <2>2, <2>3, <1>3, <1>4
    <2>5. ASSUME NEW f \in Behind(u, found)
          PROVE  rank(u.confidence) <= rank(f.confidence)
      <3>1. rank(c.confidence) <= rank(f.confidence)
        BY <2>1, <1>5 DEF Settled
      <3>2. rank(f.confidence) \in 0 .. 3
        BY RankType DEF Behind, Findings
      <3> QED BY <3>1, <3>2, <2>3, <1>3, <1>4
    <2> QED BY <2>1, <2>4, <2>5, <1>4, <1>5 DEF Settled
  <1>7. Sound(d, u, found)
    BY <1>4, <1>5, <1>6 DEF Sound
  <1> QED BY <1>3, <1>4, <1>7 DEF u

(* The rules turn sound claims into sound claims, and what they let stand  *)
(* stands on the others. They add no reference.                            *)
LEMMA RulesAreSound ==
  ASSUME NEW ids, NEW found \in SUBSET Findings(ids), NEW answered,
         answered = [d \in AnalysisDimension |-> answered[d]],
         \A d \in AnalysisDimension : Sound(d, answered[d], found),
         NEW our_solution \in BOOLEAN
  PROVE  LET after == apply_cross_dimension_rules(answered, our_solution) IN
         /\ after = [d \in AnalysisDimension |-> after[d]]
         /\ \A d \in AnalysisDimension :
               /\ Sound(d, after[d], found)
               /\ after[d].finding_ids \subseteq answered[d].finding_ids
         /\ PropositionStands(after, our_solution)
         /\ AdvantageStands(after)
         /\ \/ after["COMPETITIVE_ADVANTAGE"] = answered["COMPETITIVE_ADVANTAGE"]
            \/ after["COMPETITIVE_ADVANTAGE"].finding_ids = {}
  <1> DEFINE after == apply_cross_dimension_rules(answered, our_solution)
             v == answered["VALUE_PROPOSITION"]
             a == answered["COMPETITIVE_ADVANTAGE"]
             v2 == ValueProposition(answered, our_solution)
             a2 == CompetitiveAdvantage(answered)
  <1>1. /\ {"VALUE_PROPOSITION", "COMPETITIVE_ADVANTAGE", "PROBLEM", "KBF"}
              \cup COMPARATOR_DIMENSIONS \subseteq AnalysisDimension
        /\ {"VALUE_PROPOSITION", "COMPETITIVE_ADVANTAGE"} \cap
              ({"PROBLEM", "KBF"} \cup COMPARATOR_DIMENSIONS
                 \cup NAMED_ORGANIZATION_DIMENSIONS) = {}
    BY Dimensions DEF COMPARATOR_DIMENSIONS, NAMED_ORGANIZATION_DIMENSIONS
  <1>2. /\ Sound("VALUE_PROPOSITION", v, found) /\ ~v.named
        /\ Sound("COMPETITIVE_ADVANTAGE", a, found) /\ ~a.named
    BY <1>1 DEF Sound
  <1>3. /\ after = [d \in AnalysisDimension |-> after[d]]
        /\ after["VALUE_PROPOSITION"] = v2 /\ after["COMPETITIVE_ADVANTAGE"] = a2
        /\ \A d \in AnalysisDimension \
                    {"VALUE_PROPOSITION", "COMPETITIVE_ADVANTAGE"} :
              after[d] = answered[d]
    BY <1>1 DEF apply_cross_dimension_rules
  <1> HIDE DEF after
  <1>4. /\ Sound("VALUE_PROPOSITION", v2, found)
        /\ v2.finding_ids \subseteq v.finding_ids
        /\ v2.statement =>
              /\ is_established(answered["PROBLEM"]) /\ our_solution
              /\ v2.confidence # "HIGH"
              /\ answered["KBF"].statement
                 \/ (v2.confidence # "MEDIUM" /\ "buying factors" \in v2.missing)
    <2>1. CASE ~v.statement
      BY <2>1, <1>2 DEF ValueProposition
    <2>2. CASE v.statement /\ (~is_established(answered["PROBLEM"]) \/ ~our_solution)
      <3>1. v2 = _unsettle(v, "problem")
        BY <2>2 DEF ValueProposition
      <3>2. "problem" \in Gaps
        BY DEF Gaps
      <3> HIDE DEF v, v2
      <3>3. /\ Sound("VALUE_PROPOSITION", v2, found)
            /\ v2.statement = FALSE /\ v2.finding_ids = {}
        BY <3>1, <3>2, <1>2, UnsettleIsSound
      <3> QED BY <3>3
    <2>3. CASE /\ v.statement /\ is_established(answered["PROBLEM"])
               /\ our_solution /\ is_established(answered["KBF"])
      <3>1. v \in Claims(IdsOf(found))
        BY <1>2 DEF Sound
      <3>2. v2 = Capped(v, "MEDIUM", v.missing)
        BY <3>1, <2>3 DEF ValueProposition, Claims, Capped
      <3>3. v.missing \in SUBSET Gaps /\ "MEDIUM" \in Levels
        BY <3>1 DEF Claims, Levels
      <3> HIDE DEF v, v2
      <3>4. /\ Sound("VALUE_PROPOSITION", v2, found)
            /\ v2.finding_ids = v.finding_ids
            /\ rank(v2.confidence) <= rank("MEDIUM")
        BY <3>2, <3>3, <2>3, <1>2, CappedIsSound
      <3>5. v2.confidence # "HIGH"
        BY <3>4, RankValues
      <3> QED BY <3>4, <3>5, <2>3 DEF is_established
    <2>4. CASE /\ v.statement /\ is_established(answered["PROBLEM"])
               /\ our_solution /\ ~is_established(answered["KBF"])
      <3>1. v \in Claims(IdsOf(found))
        BY <1>2 DEF Sound
      <3> DEFINE missing == v.missing \cup {"buying factors"}
      <3>2. v2 = Capped(v, "LOW", missing)
        BY <2>4 DEF ValueProposition, Capped
      <3>3. /\ missing \in SUBSET Gaps /\ "LOW" \in Levels
            /\ v.missing \subseteq missing
        BY <3>1 DEF Claims, Levels, Gaps
      <3> HIDE DEF v, v2, missing
      <3>4. /\ Sound("VALUE_PROPOSITION", v2, found)
            /\ v2.finding_ids = v.finding_ids
            /\ v2.missing = missing
            /\ rank(v2.confidence) <= rank("LOW")
        BY <3>2, <3>3, <2>4, <1>2, CappedIsSound
      <3>5. v2.confidence # "HIGH" /\ v2.confidence # "MEDIUM"
        <4>1. rank(v2.confidence) <= 1
          BY <3>4, RankValues
        <4>2. CASE v2.confidence = "HIGH"
          BY <4>1, <4>2, RankValues
        <4>3. CASE v2.confidence = "MEDIUM"
          BY <4>1, <4>3, RankValues
        <4> QED BY <4>2, <4>3
      <3> QED BY <3>4, <3>5, <2>4 DEF missing
    <2> QED BY <2>1, <2>2, <2>3, <2>4
  <1>5. /\ Sound("COMPETITIVE_ADVANTAGE", a2, found)
        /\ a2.finding_ids \subseteq a.finding_ids
        /\ a2.statement => a2 = a /\ Compared(answered)
        /\ a2 = a \/ a2.finding_ids = {}
    <2>1. CASE a.statement /\ ~Compared(answered)
      <3>1. a2 = _unsettle(a, "comparison")
        BY <2>1 DEF CompetitiveAdvantage
      <3>2. "comparison" \in Gaps
        BY DEF Gaps
      <3> HIDE DEF a, a2
      <3>3. /\ Sound("COMPETITIVE_ADVANTAGE", a2, found)
            /\ a2.statement = FALSE /\ a2.finding_ids = {}
        BY <3>1, <3>2, <1>2, UnsettleIsSound
      <3> QED BY <3>3
    <2>2. CASE ~(a.statement /\ ~Compared(answered))
      BY <2>2, <1>2 DEF CompetitiveAdvantage
    <2> QED BY <2>1, <2>2
  <1>6. PropositionStands(after, our_solution)
    BY <1>1, <1>3, <1>4 DEF PropositionStands, is_established
  <1>7. AdvantageStands(after)
    <2> SUFFICES ASSUME after["COMPETITIVE_ADVANTAGE"].statement
                 PROVE  Compared(after)
      BY DEF AdvantageStands
    <2>1. a2 = a /\ Compared(answered)
      BY <1>3, <1>5
    <2>2. \A d \in {"KBF"} \cup COMPARATOR_DIMENSIONS : after[d] = answered[d]
      BY <1>1, <1>3
    <2>3. /\ EstablishedComparators(after) = EstablishedComparators(answered)
          /\ Spent(after) = Spent(answered)
      BY <2>2 DEF EstablishedComparators, Spent
    <2> QED BY <2>1, <2>2, <2>3, <1>3 DEF Compared
  <1>8. \A d \in AnalysisDimension :
           /\ Sound(d, after[d], found)
           /\ after[d].finding_ids \subseteq answered[d].finding_ids
    BY <1>3, <1>4, <1>5
  <1> QED BY <1>3, <1>5, <1>6, <1>7, <1>8 DEF after

-----------------------------------------------------------------------------
(* The inductive invariant *)

Pool == {all[i] : i \in DOMAIN all}

Working ==
    pc \in {"criteria", "searching", "asking", "answering", "overseas",
            "checking"}

AnalysisRecord ==
    [position : Nat \ {0}, client : Candidates,
     claims : [AnalysisDimension -> Claims(Ids)],
     international : [{} -> Claims(Ids)]
                       \cup [InternationalDimension -> Claims(Ids)],
     finding_ids : SUBSET Ids]

Typed ==
    /\ input \in Scenarios
    /\ pc \in {"called", "next client", "criteria", "searching", "asking",
               "answering", "overseas", "checking", "returned", "raised",
               "persisted"}
    /\ position \in 1 .. Len(input.client_ids) + 1
    /\ queries \in 0 .. MaxQueries /\ group \in 1 .. 4
    /\ all \in Seq(Findings(Ids))
    /\ outcome \in [analyses : Seq(AnalysisRecord),
                    findings : SUBSET Findings(Ids)]

(* A finding of this client that is still to be read has an id nobody has. *)
Fresh ==
    /\ Distinct(Evidence)
    /\ \A f \in outcome.findings :
          /\ f.id[1] \in 1 .. position
          /\ pc \in {"called", "next client", "criteria"} => f.id[1] < position
          /\ pc = "searching" /\ f.id[1] = position => f.id[2] > queries
    /\ pc = "searching" => queries # 0

(* What this client may be told about is the project's or its own. *)
OwnPool ==
    Working =>
        /\ position \in DOMAIN input.client_ids /\ Client \in Candidates
        /\ Pool \subseteq Evidence
        /\ \A f \in Pool : f.id[1] \in {0, position}

(* The advantage was asked for with findings of MN04, or with none. *)
OneFramework(c, found) ==
    "MN04" \in c.framework_basis =>
        \A f \in Behind(c, found) : "MN04" \in f.mn_basis

(* The claims of this client so far. *)
ClaimsSoFar ==
    /\ claims = [d \in DOMAIN claims |-> claims[d]]
    /\ DOMAIN claims \subseteq AnalysisDimension
    /\ \A d \in DOMAIN claims : Sound(d, claims[d], Pool)
    /\ "COMPETITIVE_ADVANTAGE" \in DOMAIN claims =>
          OneFramework(claims["COMPETITIVE_ADVANTAGE"], Pool)
    /\ pc \in {"criteria", "searching"} => claims = NoClaims
    /\ pc \in {"overseas", "checking"} =>
          /\ DOMAIN claims = AnalysisDimension
          /\ PropositionStands(claims, input.our_solution)
          /\ AdvantageStands(claims)

OverseasSoFar ==
    /\ overseas = [d \in DOMAIN overseas |-> overseas[d]]
    /\ DOMAIN overseas \in {{}, InternationalDimension}
    /\ \A d \in DOMAIN overseas :
          overseas[d] \in Claims(IdsOf(Pool)) /\ _check_claim(overseas[d])
    /\ Working /\ pc # "checking" => DOMAIN overseas = {}
    /\ pc = "overseas" => input.scope = "INTERNATIONAL"
    /\ pc = "checking" /\ input.scope # "INTERNATIONAL" => DOMAIN overseas = {}

(* What an analysis keeps once it is built. *)
Kept(a) ==
    /\ a.position < position /\ a.client = input.client_ids[a.position]
    /\ \A d \in AnalysisDimension : Sound(d, a.claims[d], Evidence)
    /\ PropositionStands(a.claims, input.our_solution)
    /\ AdvantageStands(a.claims)
    /\ OneFramework(a.claims["COMPETITIVE_ADVANTAGE"], Evidence)
    /\ \A id \in a.finding_ids : id[1] \in {0, a.position}

(* Every candidate passed so far has its analysis, in order. *)
NoneMissing ==
    /\ pc \in {"called", "raised"} => outcome = Nothing
    /\ pc = "called" => position = 1
    /\ TooMany(input.client_ids) =>
          pc \in {"called", "returned", "persisted"} /\ outcome = Nothing
    /\ pc # "raised" /\ ~TooMany(input.client_ids) =>
          {a.position : a \in Analyses} =
              {p \in 1 .. position - 1 : input.client_ids[p] \in Candidates}
    /\ \A i, j \in DOMAIN outcome.analyses :
          j < i => outcome.analyses[j].position < outcome.analyses[i].position
    /\ pc \in {"returned", "persisted"} /\ ~TooMany(input.client_ids) =>
          position = Len(input.client_ids) + 1

Inv ==
    /\ Typed /\ Fresh /\ OwnPool /\ ClaimsSoFar /\ OverseasSoFar
    /\ \A a \in Analyses : Kept(a)
    /\ NoneMissing

(* What an input is: requested ids, findings with ids of their own. *)
LEMMA InputFacts ==
  ASSUME NEW s \in Scenarios
  PROVE  /\ Len(s.client_ids) \in Nat
         /\ DOMAIN s.client_ids = 1 .. Len(s.client_ids)
         /\ s.findings \in Seq(Findings({0} \X Nat))
         /\ Len(s.findings) \in Nat
         /\ DOMAIN s.findings = 1 .. Len(s.findings)
         /\ \A i \in DOMAIN s.findings : s.findings[i] \in Findings({0} \X Nat)
         /\ s.our_solution \in BOOLEAN
  <1>1. s.client_ids \in Seq(STRING) /\ s.findings \in Seq(Findings({0} \X Nat))
    BY ScenariosAssumption
  <1>2. s.our_solution \in BOOLEAN
    BY ScenariosAssumption
  <1> QED BY <1>1, <1>2, ElementOfSeq, LenProperties

(* Nothing but findings is evidence; the project's come first. *)
LEMMA EvidenceIsFindings ==
  ASSUME Typed
  PROVE  /\ Evidence \subseteq Findings(Ids)
         /\ \A i \in DOMAIN input.findings : input.findings[i].id[1] = 0
         /\ input.findings \in Seq(Findings(Ids))
  <1>1. input \in Scenarios /\ outcome.findings \subseteq Findings(Ids)
    BY DEF Typed
  <1>2. {0} \X Nat \subseteq Ids
    BY <1>1, InputFacts DEF Ids
  <1>3. Findings({0} \X Nat) \subseteq Findings(Ids)
    BY <1>2 DEF Findings
  <1>4. \A i \in DOMAIN input.findings : input.findings[i] \in Findings({0} \X Nat)
    BY <1>1, InputFacts
  <1>5. \A f \in Findings({0} \X Nat) : f.id[1] = 0
    BY DEF Findings
  <1>6. input.findings \in Seq(Findings(Ids))
    BY <1>1, <1>3, <1>4, InputFacts, SeqDef
  <1> QED BY <1>1, <1>3, <1>4, <1>5, <1>6 DEF Evidence

LEMMA PositionIsNatural ==
  ASSUME Typed
  PROVE  position \in Nat \ {0} /\ position <= Len(input.client_ids) + 1
  <1>1. /\ input \in Scenarios /\ position \in 1 .. Len(input.client_ids) + 1
    BY DEF Typed
  <1>2. Len(input.client_ids) \in Nat
    BY <1>1, InputFacts
  <1> QED BY <1>1, <1>2

LEMMA AnalysesAreRecords ==
  ASSUME Typed
  PROVE  /\ outcome.analyses \in Seq(AnalysisRecord)
         /\ Analyses \subseteq AnalysisRecord
         /\ \A i \in DOMAIN outcome.analyses :
               outcome.analyses[i] \in AnalysisRecord
         /\ Len(outcome.analyses) \in Nat
         /\ DOMAIN outcome.analyses = 1 .. Len(outcome.analyses)
  <1>1. outcome.analyses \in Seq(AnalysisRecord)
    BY DEF Typed
  <1>2. \A i \in DOMAIN outcome.analyses :
           outcome.analyses[i] \in AnalysisRecord
    BY <1>1, ElementOfSeq, LenProperties
  <1>3. Analyses \subseteq AnalysisRecord
    BY <1>2 DEF Analyses
  <1> QED BY <1>1, <1>2, <1>3, LenProperties

(* More evidence leaves what is behind a claim as it is. *)
LEMMA BehindTransfers ==
  ASSUME NEW found, NEW more, found \subseteq more, Distinct(more), NEW c,
         c.finding_ids \subseteq IdsOf(found)
  PROVE  Behind(c, more) = Behind(c, found)
  BY DEF Behind, Distinct, IdsOf

LEMMA SoundTransfers ==
  ASSUME NEW d, NEW c, NEW found, NEW more, found \subseteq more,
         Distinct(more), Sound(d, c, found)
  PROVE  Sound(d, c, more) /\ Behind(c, more) = Behind(c, found)
  <1>1. c \in Claims(IdsOf(found))
    BY DEF Sound
  <1>2. IdsOf(found) \subseteq IdsOf(more)
    BY DEF IdsOf
  <1>3. c \in Claims(IdsOf(more)) /\ c.finding_ids \subseteq IdsOf(found)
    BY <1>1, <1>2 DEF Claims
  <1>4. Behind(c, more) = Behind(c, found)
    BY <1>3, BehindTransfers
  <1>5. c.statement => Settled(d, c, more)
    BY <1>4 DEF Sound, Settled
  <1> QED BY <1>3, <1>4, <1>5 DEF Sound

(* An analysis stays as it should be while evidence is added and the call  *)
(* goes on.                                                                *)
LEMMA KeptStays ==
  ASSUME Inv, input' = input, Evidence \subseteq Evidence', Distinct(Evidence'),
         position' \in Nat, position <= position', NEW a \in Analyses
  PROVE  Kept(a)'
  <1>1. Kept(a)
    BY DEF Inv
  <1>2. a \in AnalysisRecord
    <2>1. Typed
      BY DEF Inv
    <2> QED BY <2>1, AnalysesAreRecords
  <1>3. a.position \in Nat /\ position \in Nat
    <2>1. a.position \in Nat
      BY <1>2 DEF AnalysisRecord
    <2>2. Typed
      BY DEF Inv
    <2> QED BY <2>1, <2>2, PositionIsNatural
  <1>4. a.position < position' /\ a.client = input'.client_ids[a.position]
    BY <1>1, <1>3 DEF Kept
  <1>5. ASSUME NEW d \in AnalysisDimension
        PROVE  /\ Sound(d, a.claims[d], Evidence')
               /\ Behind(a.claims[d], Evidence') = Behind(a.claims[d], Evidence)
    <2>1. Sound(d, a.claims[d], Evidence)
      BY <1>1 DEF Kept
    <2> QED BY <2>1, SoundTransfers
  <1>6. OneFramework(a.claims["COMPETITIVE_ADVANTAGE"], Evidence')
    BY <1>1, <1>5, Dimensions DEF Kept, OneFramework
  <1> QED BY <1>1, <1>4, <1>5, <1>6 DEF Kept

(* A step that moves the control only keeps everything about the state     *)
(* that does not name it.                                                  *)
LEMMA Unmoved ==
  ASSUME Inv, UNCHANGED <<input, all, claims, overseas, outcome>>,
         position' \in Nat, position <= position'
  PROVE  /\ Evidence' = Evidence /\ Pool' = Pool /\ Analyses' = Analyses
         /\ Ids' = Ids /\ AnalysisRecord' = AnalysisRecord
         /\ Distinct(Evidence') /\ \A a \in Analyses' : Kept(a)'
  <1>1. Evidence' = Evidence /\ Pool' = Pool /\ Analyses' = Analyses
    BY DEF Evidence, Pool, Analyses
  <1>2. Ids' = Ids
    BY DEF Ids
  <1>3. AnalysisRecord' = AnalysisRecord
    BY <1>2 DEF AnalysisRecord
  <1>4. Distinct(Evidence')
    BY <1>1 DEF Inv, Fresh
  <1> QED BY <1>1, <1>2, <1>3, <1>4, KeptStays

(* A sequence of findings of the pool. *)
LEMMA PoolFacts ==
  ASSUME Typed
  PROVE  /\ Len(all) \in Nat /\ DOMAIN all = 1 .. Len(all)
         /\ \A i \in DOMAIN all : all[i] \in Pool
         /\ Pool \subseteq Findings(Ids)
  <1>1. all \in Seq(Findings(Ids))
    BY DEF Typed
  <1>2. \A i \in DOMAIN all : all[i] \in Findings(Ids)
    BY <1>1, ElementOfSeq, LenProperties
  <1> QED BY <1>1, <1>2, LenProperties DEF Pool

(* The invariant holds when the call begins. *)
LEMMA InitInv == Init => Inv
  <1> SUFFICES ASSUME Init PROVE Inv
    OBVIOUS
  <1>1. /\ input \in Scenarios /\ pc = "called" /\ position = 1 /\ queries = 0
        /\ all = <<>> /\ group = 1 /\ claims = NoClaims /\ overseas = NoClaims
        /\ outcome = Nothing
    BY DEF Init
  <1>2. /\ Len(input.client_ids) \in Nat
        /\ DOMAIN input.findings = 1 .. Len(input.findings)
    BY <1>1, InputFacts
  <1>3. /\ outcome.analyses = <<>> /\ outcome.findings = {}
        /\ Analyses = {} /\ Evidence = {input.findings[i] : i \in DOMAIN input.findings}
    BY <1>1 DEF Nothing, Analyses, Evidence
  <1>4. Typed
    BY <1>1, <1>2, BoundsAssumption DEF Typed, Nothing
  <1>5. Fresh
    <2>1. \A i, j \in DOMAIN input.findings :
             input.findings[i].id = input.findings[j].id => i = j
      BY <1>1, ScenariosAssumption
    <2> QED BY <2>1, <1>1, <1>3 DEF Fresh, Distinct
  <1>6. OwnPool
    BY <1>1 DEF OwnPool, Working
  <1>7. ClaimsSoFar /\ OverseasSoFar
    BY <1>1 DEF ClaimsSoFar, OverseasSoFar, NoClaims
  <1>8. NoneMissing
    BY <1>1, <1>3 DEF NoneMissing
  <1> QED BY <1>3, <1>4, <1>5, <1>6, <1>7, <1>8 DEF Inv

LEMMA CallStep == Inv /\ Call => Inv'
  <1> SUFFICES ASSUME Inv, Call PROVE Inv'
    OBVIOUS
  <1>1. /\ pc = "called"
        /\ pc' = IF TooMany(input.client_ids) THEN "returned" ELSE "next client"
        /\ UNCHANGED <<input, position, queries, all, group, claims, overseas,
                       outcome>>
        /\ position' = position
    BY DEF Call
  <1>2. /\ Typed /\ Fresh /\ OwnPool /\ ClaimsSoFar /\ OverseasSoFar
        /\ NoneMissing
    BY DEF Inv
  <1>3. position' \in Nat /\ position <= position'
    <2>1. position \in Nat
      BY <1>2, PositionIsNatural
    <2>2. position' = position
      BY <1>1
    <2> QED BY <2>1, <2>2
  <1>4. /\ Evidence' = Evidence /\ Pool' = Pool /\ Analyses' = Analyses
        /\ Ids' = Ids /\ AnalysisRecord' = AnalysisRecord
        /\ Distinct(Evidence') /\ \A a \in Analyses' : Kept(a)'
    BY <1>1, <1>3, Unmoved
  <1>5. Typed'
    BY <1>1, <1>2, <1>4 DEF Typed
  <1>6. Fresh'
    BY <1>1, <1>2, <1>4 DEF Fresh
  <1>7. OwnPool' /\ ClaimsSoFar' /\ OverseasSoFar'
    BY <1>1, <1>2, <1>4 DEF OwnPool, Working, ClaimsSoFar, OverseasSoFar, Client
  <1>8. NoneMissing'
    BY <1>1, <1>2, <1>4 DEF NoneMissing
  <1> QED BY <1>4, <1>5, <1>6, <1>7, <1>8 DEF Inv

LEMMA ReturnStep == Inv /\ Return => Inv'
  <1> SUFFICES ASSUME Inv, Return PROVE Inv'
    OBVIOUS
  <1>1. /\ pc = "next client" /\ position > Len(input.client_ids)
        /\ pc' = "returned"
        /\ UNCHANGED <<input, position, queries, all, group, claims, overseas,
                       outcome>>
        /\ position' = position
    BY DEF Return
  <1>2. /\ Typed /\ Fresh /\ OwnPool /\ ClaimsSoFar /\ OverseasSoFar
        /\ NoneMissing
    BY DEF Inv
  <1>3. /\ position = Len(input.client_ids) + 1
        /\ position' \in Nat /\ position <= position'
    <2>1. /\ position \in Nat /\ position <= Len(input.client_ids) + 1
          /\ Len(input.client_ids) \in Nat
      BY <1>2, PositionIsNatural, InputFacts DEF Typed
    <2>2. position' = position /\ position > Len(input.client_ids)
      BY <1>1
    <2> QED BY <2>1, <2>2
  <1>4. /\ Evidence' = Evidence /\ Pool' = Pool /\ Analyses' = Analyses
        /\ Ids' = Ids /\ AnalysisRecord' = AnalysisRecord
        /\ Distinct(Evidence') /\ \A a \in Analyses' : Kept(a)'
    BY <1>1, <1>3, Unmoved
  <1>5. Typed'
    BY <1>1, <1>2, <1>4 DEF Typed
  <1>6. Fresh'
    BY <1>1, <1>2, <1>4 DEF Fresh
  <1>7. OwnPool' /\ ClaimsSoFar' /\ OverseasSoFar'
    BY <1>1, <1>2, <1>4 DEF OwnPool, Working, ClaimsSoFar, OverseasSoFar, Client
  <1>8. NoneMissing'
    BY <1>1, <1>2, <1>3, <1>4 DEF NoneMissing
  <1> QED BY <1>4, <1>5, <1>6, <1>7, <1>8 DEF Inv

(* A client that is not a candidate adds no position to be analysed. *)
LEMMA UnknownClientStep == Inv /\ UnknownClient => Inv'
  <1> SUFFICES ASSUME Inv, UnknownClient PROVE Inv'
    OBVIOUS
  <1>1. /\ pc = "next client" /\ position <= Len(input.client_ids)
        /\ Client \notin Candidates
        /\ position' = position + 1
        /\ UNCHANGED <<input, pc, queries, all, group, claims, overseas, outcome>>
    BY DEF UnknownClient
  <1>2. /\ Typed /\ Fresh /\ OwnPool /\ ClaimsSoFar /\ OverseasSoFar
        /\ NoneMissing
    BY DEF Inv
  <1>3. /\ position \in Nat \ {0} /\ Len(input.client_ids) \in Nat
        /\ position' = position + 1
        /\ position' \in 1 .. Len(input.client_ids) + 1
        /\ position' \in Nat /\ position <= position'
    <2>1. position \in Nat \ {0}
      BY <1>2, PositionIsNatural
    <2>2. Len(input.client_ids) \in Nat
      BY <1>2, InputFacts DEF Typed
    <2>3. position' = position + 1 /\ position <= Len(input.client_ids)
      BY <1>1
    <2> QED BY <2>1, <2>2, <2>3
  <1>4. /\ Evidence' = Evidence /\ Pool' = Pool /\ Analyses' = Analyses
        /\ Ids' = Ids /\ AnalysisRecord' = AnalysisRecord
        /\ Distinct(Evidence') /\ \A a \in Analyses' : Kept(a)'
    BY <1>1, <1>3, Unmoved
  <1>5. Typed'
    BY <1>1, <1>2, <1>3, <1>4 DEF Typed
  <1>6. Fresh'
    <2>1. ASSUME NEW f \in outcome.findings
          PROVE  f.id[1] \in 1 .. position' /\ f.id[1] < position'
      <3>1. f.id[1] \in 1 .. position
        BY <1>2 DEF Fresh
      <3> QED BY <3>1, <1>3
    <2> QED BY <2>1, <1>1, <1>4 DEF Fresh
  <1>7. OwnPool' /\ ClaimsSoFar' /\ OverseasSoFar'
    BY <1>1, <1>2, <1>4 DEF OwnPool, Working, ClaimsSoFar, OverseasSoFar
  <1>8. {p \in 1 .. position' - 1 : input.client_ids[p] \in Candidates}
          = {p \in 1 .. position - 1 : input.client_ids[p] \in Candidates}
    <2>1. input.client_ids[position] \notin Candidates
      BY <1>1 DEF Client
    <2>2. \A p : p \in 1 .. position' - 1
                  <=> p \in 1 .. position - 1 \/ p = position
      BY <1>3
    <2> QED BY <2>1, <2>2
  <1>9. NoneMissing'
    BY <1>1, <1>2, <1>4, <1>8 DEF NoneMissing
  <1> QED BY <1>4, <1>5, <1>6, <1>7, <1>9 DEF Inv

(* The next client starts with the project's findings and no claim. *)
LEMMA SelectedStep == Inv /\ Selected => Inv'
  <1> SUFFICES ASSUME Inv, Selected PROVE Inv'
    OBVIOUS
  <1>1. /\ pc = "next client" /\ position <= Len(input.client_ids)
        /\ Client \in Candidates /\ all' = input.findings
        /\ group' = 1 /\ claims' = NoClaims /\ overseas' = NoClaims
        /\ pc' \in {"criteria", "asking"}
        /\ UNCHANGED <<input, position, queries, outcome>>
        /\ position' = position
    BY DEF Selected, InitialFindings
  <1>2. Typed /\ Fresh /\ NoneMissing
    BY DEF Inv
  <1>3. /\ position \in DOMAIN input.client_ids
        /\ position' \in Nat /\ position <= position'
    <2>1. position \in Nat \ {0}
      BY <1>2, PositionIsNatural
    <2>2. /\ Len(input.client_ids) \in Nat
          /\ DOMAIN input.client_ids = 1 .. Len(input.client_ids)
      BY <1>2, InputFacts DEF Typed
    <2>3. position' = position /\ position <= Len(input.client_ids)
      BY <1>1
    <2> QED BY <2>1, <2>2, <2>3
  <1>4. /\ Evidence' = Evidence /\ Analyses' = Analyses
        /\ Ids' = Ids /\ Client' = Client
    BY <1>1 DEF Evidence, Analyses, Ids, Client
  <1>5. AnalysisRecord' = AnalysisRecord
    BY <1>4 DEF AnalysisRecord
  <1>6. Distinct(Evidence')
    BY <1>2, <1>4 DEF Fresh
  <1>7. \A a \in Analyses' : Kept(a)'
    BY <1>1, <1>3, <1>4, <1>6, KeptStays
  <1>8. Typed'
    <2>1. all' \in Seq(Findings(Ids))
      BY <1>1, <1>2, EvidenceIsFindings
    <2>2. /\ input' = input /\ position' = position /\ queries' = queries
          /\ outcome' = outcome /\ group' = 1
          /\ pc' \in {"criteria", "asking"}
      BY <1>1
    <2>3. group' \in 1 .. 4
      BY <2>2
    <2>4. /\ position' \in 1 .. Len(input'.client_ids) + 1
          /\ queries' \in 0 .. MaxQueries
      BY <2>2, <1>2 DEF Typed
    <2> QED BY <2>1, <2>2, <2>3, <2>4, <1>2, <1>4, <1>5 DEF Typed
  <1>9. Fresh'
    BY <1>1, <1>2, <1>4, <1>6 DEF Fresh
  <1>10. OwnPool'
    <2>1. Pool' = {input.findings[i] : i \in DOMAIN input.findings}
      BY <1>1 DEF Pool
    <2>2. \A f \in Pool' : f.id[1] = 0
      BY <2>1, <1>2, EvidenceIsFindings
    <2>3. Pool' \subseteq Evidence'
      BY <2>1, <1>4 DEF Evidence
    <2> QED BY <2>2, <2>3, <1>1, <1>3, <1>4 DEF OwnPool
  <1>11. ClaimsSoFar' /\ OverseasSoFar'
    BY <1>1 DEF ClaimsSoFar, OverseasSoFar, NoClaims
  <1>12. NoneMissing'
    BY <1>1, <1>2, <1>4 DEF NoneMissing
  <1> QED BY <1>7, <1>8, <1>9, <1>10, <1>11, <1>12 DEF Inv

LEMMA build_client_criteriaStep == Inv /\ build_client_criteria => Inv'
  <1> SUFFICES ASSUME Inv, build_client_criteria PROVE Inv'
    OBVIOUS
  <1>1. /\ pc = "criteria" /\ queries' \in 0 .. MaxQueries
        /\ group' = group
        /\ pc' = IF queries' = 0 THEN "asking" ELSE "searching"
        /\ input' = input /\ position' = position /\ all' = all
        /\ claims' = claims /\ overseas' = overseas /\ outcome' = outcome
    BY DEF build_client_criteria
  <1>2. /\ Typed /\ Fresh /\ OwnPool /\ ClaimsSoFar /\ OverseasSoFar
        /\ NoneMissing
    BY DEF Inv
  <1>3. position' \in Nat /\ position <= position'
    <2>1. position \in Nat
      BY <1>2, PositionIsNatural
    <2>2. position' = position
      BY <1>1
    <2> QED BY <2>1, <2>2
  <1>4. /\ Evidence' = Evidence /\ Pool' = Pool /\ Analyses' = Analyses
        /\ Ids' = Ids /\ AnalysisRecord' = AnalysisRecord
        /\ Distinct(Evidence') /\ \A a \in Analyses' : Kept(a)'
    BY <1>1, <1>3, Unmoved
  <1>5. Typed'
    BY <1>1, <1>2, <1>4 DEF Typed
  <1>6. Fresh'
    <2>1. ASSUME NEW f \in outcome.findings
          PROVE  /\ f.id[1] \in 1 .. position
                 /\ f.id[1] # position
      <3>1. f.id[1] \in 1 .. position /\ f.id[1] < position
        BY <1>1, <1>2 DEF Fresh
      <3>2. position \in Nat
        BY <1>2, PositionIsNatural
      <3> QED BY <3>1, <3>2
    <2> QED BY <2>1, <1>1, <1>2, <1>4 DEF Fresh
  <1>7. OwnPool' /\ ClaimsSoFar' /\ OverseasSoFar'
    BY <1>1, <1>2, <1>4 DEF OwnPool, Working, ClaimsSoFar, OverseasSoFar, Client
  <1>8. NoneMissing'
    BY <1>1, <1>2, <1>4 DEF NoneMissing
  <1> QED BY <1>4, <1>5, <1>6, <1>7, <1>8 DEF Inv

LEMMA AskGroupStep == Inv /\ AskGroup => Inv'
  <1> SUFFICES ASSUME Inv, AskGroup PROVE Inv'
    OBVIOUS
  <1>1. /\ pc = "asking" /\ pc' = "answering"
        /\ queries' = queries /\ group' = group
        /\ input' = input /\ position' = position /\ all' = all
        /\ claims' = claims /\ overseas' = overseas /\ outcome' = outcome
    BY DEF AskGroup
  <1>2. /\ Typed /\ Fresh /\ OwnPool /\ ClaimsSoFar /\ OverseasSoFar
        /\ NoneMissing
    BY DEF Inv
  <1>3. position' \in Nat /\ position <= position'
    <2>1. position \in Nat
      BY <1>2, PositionIsNatural
    <2>2. position' = position
      BY <1>1
    <2> QED BY <2>1, <2>2
  <1>4. /\ Evidence' = Evidence /\ Pool' = Pool /\ Analyses' = Analyses
        /\ Ids' = Ids /\ AnalysisRecord' = AnalysisRecord
        /\ Distinct(Evidence') /\ \A a \in Analyses' : Kept(a)'
    BY <1>1, <1>3, Unmoved
  <1>5. Typed'
    BY <1>1, <1>2, <1>4 DEF Typed
  <1>6. Fresh'
    BY <1>1, <1>2, <1>4 DEF Fresh
  <1>7. OwnPool' /\ ClaimsSoFar' /\ OverseasSoFar'
    BY <1>1, <1>2, <1>4 DEF OwnPool, Working, ClaimsSoFar, OverseasSoFar, Client
  <1>8. NoneMissing'
    BY <1>1, <1>2, <1>4 DEF NoneMissing
  <1> QED BY <1>4, <1>5, <1>6, <1>7, <1>8 DEF Inv

LEMMA EndOfGroupStep == Inv /\ EndOfGroup => Inv'
  <1> SUFFICES ASSUME Inv, EndOfGroup PROVE Inv'
    OBVIOUS
  <1>1. /\ pc = "answering" /\ pc' = "asking"
        /\ queries' = queries /\ group' = group + 1 /\ group < 4
        /\ input' = input /\ position' = position /\ all' = all
        /\ claims' = claims /\ overseas' = overseas /\ outcome' = outcome
    BY DEF EndOfGroup, FRAMEWORK_GROUPS
  <1>2. /\ Typed /\ Fresh /\ OwnPool /\ ClaimsSoFar /\ OverseasSoFar
        /\ NoneMissing
    BY DEF Inv
  <1>3. position' \in Nat /\ position <= position'
    <2>1. position \in Nat
      BY <1>2, PositionIsNatural
    <2>2. position' = position
      BY <1>1
    <2> QED BY <2>1, <2>2
  <1>4. /\ Evidence' = Evidence /\ Pool' = Pool /\ Analyses' = Analyses
        /\ Ids' = Ids /\ AnalysisRecord' = AnalysisRecord
        /\ Distinct(Evidence') /\ \A a \in Analyses' : Kept(a)'
    BY <1>1, <1>3, Unmoved
  <1>5. Typed'
    <2>1. group \in 1 .. 4
      BY <1>2 DEF Typed
    <2>2. group' \in 1 .. 4
      BY <2>1, <1>1
    <2> QED BY <2>2, <1>1, <1>2, <1>4 DEF Typed
  <1>6. Fresh'
    BY <1>1, <1>2, <1>4 DEF Fresh
  <1>7. OwnPool' /\ ClaimsSoFar' /\ OverseasSoFar'
    BY <1>1, <1>2, <1>4 DEF OwnPool, Working, ClaimsSoFar, OverseasSoFar, Client
  <1>8. NoneMissing'
    BY <1>1, <1>2, <1>4 DEF NoneMissing
  <1> QED BY <1>4, <1>5, <1>6, <1>7, <1>8 DEF Inv

LEMMA PersistStep == Inv /\ persist => Inv'
  <1> SUFFICES ASSUME Inv, persist PROVE Inv'
    OBVIOUS
  <1>1. /\ pc = "returned" /\ pc' = "persisted"
        /\ queries' = queries /\ group' = group
        /\ input' = input /\ position' = position /\ all' = all
        /\ claims' = claims /\ overseas' = overseas /\ outcome' = outcome
    BY DEF persist
  <1>2. /\ Typed /\ Fresh /\ OwnPool /\ ClaimsSoFar /\ OverseasSoFar
        /\ NoneMissing
    BY DEF Inv
  <1>3. position' \in Nat /\ position <= position'
    <2>1. position \in Nat
      BY <1>2, PositionIsNatural
    <2>2. position' = position
      BY <1>1
    <2> QED BY <2>1, <2>2
  <1>4. /\ Evidence' = Evidence /\ Pool' = Pool /\ Analyses' = Analyses
        /\ Ids' = Ids /\ AnalysisRecord' = AnalysisRecord
        /\ Distinct(Evidence') /\ \A a \in Analyses' : Kept(a)'
    BY <1>1, <1>3, Unmoved
  <1>5. Typed'
    BY <1>1, <1>2, <1>4 DEF Typed
  <1>6. Fresh'
    BY <1>1, <1>2, <1>4 DEF Fresh
  <1>7. OwnPool' /\ ClaimsSoFar' /\ OverseasSoFar'
    BY <1>1, <1>2, <1>4 DEF OwnPool, Working, ClaimsSoFar, OverseasSoFar, Client
  <1>8. NoneMissing'
    BY <1>1, <1>2, <1>4 DEF NoneMissing
  <1> QED BY <1>4, <1>5, <1>6, <1>7, <1>8 DEF Inv

(* What a query brings is new: no evidence has its id. *)
LEMMA research_clientStep == Inv /\ research_client => Inv'
  <1> SUFFICES ASSUME Inv, research_client PROVE Inv'
    OBVIOUS
  <1>1. /\ pc = "searching" /\ queries' = queries - 1
        /\ pc' = IF queries = 1 THEN "asking" ELSE "searching"
        /\ input' = input /\ position' = position /\ group' = group
        /\ claims' = claims /\ overseas' = overseas
    BY DEF research_client
  <1>2. /\ Typed /\ Fresh /\ OwnPool /\ ClaimsSoFar /\ OverseasSoFar
        /\ NoneMissing
    BY DEF Inv
  <1>3. position' \in Nat /\ position <= position'
    <2>1. position \in Nat
      BY <1>2, PositionIsNatural
    <2>2. position' = position
      BY <1>1
    <2> QED BY <2>1, <2>2
  <1>4. /\ queries \in Nat /\ queries # 0 /\ queries' \in 0 .. MaxQueries
        /\ queries' < queries /\ (pc' = "searching" => queries' # 0)
    <2>1. queries \in 0 .. MaxQueries
      BY <1>2 DEF Typed
    <2>2. queries # 0
      BY <1>1, <1>2 DEF Fresh
    <2>3. queries' = queries - 1
      BY <1>1
    <2>4. pc' = "searching" => queries # 1
      BY <1>1
    <2> QED BY <2>1, <2>2, <2>3, <2>4, BoundsAssumption
  <1>5. Ids' = Ids
    BY <1>1 DEF Ids
  <1>6. AnalysisRecord' = AnalysisRecord
    BY <1>5 DEF AnalysisRecord
  <1>7. claims' = NoClaims /\ DOMAIN overseas' = {}
    BY <1>1, <1>2 DEF ClaimsSoFar, OverseasSoFar, Working
  <1>8. ClaimsSoFar' /\ OverseasSoFar'
    BY <1>1, <1>2, <1>7 DEF ClaimsSoFar, OverseasSoFar, NoClaims
  <1>9. \A f \in outcome.findings :
           f.id[1] \in 1 .. position /\ (f.id[1] = position => f.id[2] > queries)
    BY <1>1, <1>2 DEF Fresh
  <1>10. \A f \in outcome.findings :
            f.id[1] = position => f.id[2] > queries'
    <2> TAKE f \in outcome.findings
    <2>1. f.id[2] \in Nat
      BY <1>2 DEF Typed, Findings, Ids
    <2>2. f.id[1] = position => f.id[2] > queries
      BY <1>9
    <2> QED BY <2>1, <2>2, <1>4
  <1>11. CASE UNCHANGED <<all, outcome>>
    <2>1. all' = all /\ outcome' = outcome
      BY <1>11
    <2>2. /\ Evidence' = Evidence /\ Pool' = Pool /\ Analyses' = Analyses
          /\ Distinct(Evidence') /\ \A a \in Analyses' : Kept(a)'
      BY <1>1, <1>3, <2>1, Unmoved
    <2>3. Typed'
      BY <1>1, <1>2, <1>4, <1>5, <1>6, <2>1 DEF Typed
    <2>4. Fresh'
      BY <1>1, <1>4, <1>9, <1>10, <2>1, <2>2 DEF Fresh
    <2>5. OwnPool'
      BY <1>1, <1>2, <2>2 DEF OwnPool, Working, Client
    <2>6. NoneMissing'
      BY <1>1, <1>2, <2>1, <2>2 DEF NoneMissing
    <2> QED BY <1>8, <2>2, <2>3, <2>4, <2>5, <2>6 DEF Inv
  <1>12. ASSUME NEW reading \in Discoverable,
                all' = Append(all, Finding(position, queries, reading)),
                outcome' = [outcome EXCEPT !.findings =
                              @ \cup {Finding(position, queries, reading)}]
         PROVE  Inv'
    <2> DEFINE found == Finding(position, queries, reading)
    <2>1. /\ position \in 1 .. Len(input.client_ids)
          /\ Client \in Candidates /\ position \in DOMAIN input.client_ids
      <3>1. position \in DOMAIN input.client_ids /\ Client \in Candidates
        BY <1>1, <1>2 DEF OwnPool, Working
      <3> QED BY <3>1, <1>2, InputFacts DEF Typed
    <2>2. found \in Findings(Ids) /\ found.id = <<position, queries>>
      <3>1. <<position, queries>> \in Ids
        <4>1. position \in 0 .. Len(input.client_ids)
          BY <2>1
        <4> QED BY <4>1, <1>4 DEF Ids
      <3>2. reading \in Reading
        BY DiscoverableAssumption
      <3> QED BY <3>1, <3>2 DEF Finding, Findings, Reading
    <2> HIDE DEF found
    <2>3. /\ outcome'.analyses = outcome.analyses
          /\ outcome'.findings = outcome.findings \cup {found}
          /\ outcome' \in [analyses : Seq(AnalysisRecord),
                           findings : SUBSET Findings(Ids)]
      BY <1>2, <1>12, <2>2 DEF Typed, found
    <2>4. Analyses' = Analyses /\ Evidence' = Evidence \cup {found}
      BY <1>1, <2>3 DEF Analyses, Evidence
    <2>5. /\ all' \in Seq(Findings(Ids)) /\ Pool' = Pool \cup {found}
      <3>1. all \in Seq(Findings(Ids)) /\ all' = Append(all, found)
        BY <1>2, <1>12 DEF Typed, found
      <3>2. /\ Len(all) \in Nat /\ DOMAIN all = 1 .. Len(all)
            /\ DOMAIN all' = 1 .. Len(all) + 1
            /\ all'[Len(all) + 1] = found
            /\ \A i \in 1 .. Len(all) : all'[i] = all[i]
            /\ all' \in Seq(Findings(Ids))
        BY <3>1, <2>2, AppendProperties, LenProperties
      <3>3. DOMAIN all' = DOMAIN all \cup {Len(all) + 1}
        BY <3>2
      <3>4. \A i \in DOMAIN all : all'[i] = all[i]
        BY <3>2
      <3> QED BY <3>2, <3>3, <3>4 DEF Pool
    <2>6. \A f \in Evidence : f.id # found.id
      <3> SUFFICES ASSUME NEW f \in Evidence, f.id = <<position, queries>>
                   PROVE  FALSE
        BY <2>2
      <3>1. f.id[1] = position /\ f.id[2] = queries
        OBVIOUS
      <3>2. position \in Nat \ {0}
        BY <1>2, PositionIsNatural
      <3>3. CASE f \in outcome.findings
        <4>1. queries > queries
          BY <3>1, <3>3, <1>9
        <4> QED BY <4>1, <1>4
      <3>4. CASE f \notin outcome.findings
        BY <3>1, <3>2, <3>4, <1>2, EvidenceIsFindings DEF Evidence
      <3> QED BY <3>3, <3>4
    <2>7. Distinct(Evidence')
      BY <1>2, <2>4, <2>6 DEF Fresh, Distinct
    <2>8. \A a \in Analyses' : Kept(a)'
      BY <1>1, <1>3, <2>4, <2>7, KeptStays
    <2>9. Typed'
      BY <1>1, <1>2, <1>4, <1>5, <1>6, <2>3, <2>5 DEF Typed
    <2>10. Fresh'
      <3>1. found.id[1] \in 1 .. position /\ found.id[2] > queries'
        <4>1. position \in Nat \ {0}
          BY <1>2, PositionIsNatural
        <4>2. queries > queries'
          BY <1>4
        <4> QED BY <4>1, <4>2, <2>2
      <3> QED BY <3>1, <1>1, <1>4, <1>9, <1>10, <2>3, <2>7 DEF Fresh
    <2>11. OwnPool'
      <3>1. /\ Pool \subseteq Evidence /\ \A f \in Pool : f.id[1] \in {0, position}
        BY <1>1, <1>2 DEF OwnPool, Working
      <3>2. found.id[1] = position
        BY <2>2
      <3>3. \A f \in Pool' : f.id[1] \in {0, position'}
        BY <3>1, <3>2, <2>5, <1>1
      <3>4. Pool' \subseteq Evidence'
        BY <3>1, <2>4, <2>5
      <3> QED BY <3>3, <3>4, <2>1, <1>1 DEF OwnPool, Client
    <2>12. NoneMissing'
      <3>1. ~TooMany(input.client_ids)
        BY <1>1, <1>2 DEF NoneMissing
      <3> QED BY <3>1, <1>1, <1>2, <2>3, <2>4 DEF NoneMissing
    <2> QED BY <1>8, <2>8, <2>9, <2>10, <2>11, <2>12 DEF Inv
  <1> QED BY <1>11, <1>12 DEF research_client

(* What is offered to a group: findings of the pool, within the limit, and *)
(* of that framework alone when there are any.                             *)
LEMMA OfferedFacts ==
  ASSUME Typed, NEW framework
  PROVE  LET keyed == [i \in Offered(framework) |-> all[i]] IN
         /\ \A r \in DOMAIN keyed : keyed[r] \in Pool
         /\ IsFiniteSet(DOMAIN keyed) /\ Cardinality(DOMAIN keyed) <= MaxFindings
         /\ \/ \A f \in Pool : framework \notin f.mn_basis
            \/ \A r \in DOMAIN keyed : framework \in keyed[r].mn_basis
  <1> DEFINE relevant == {i \in DOMAIN all : framework \in all[i].mn_basis}
             pool == IF relevant = {} THEN DOMAIN all ELSE relevant
             keyed == [i \in Offered(framework) |-> all[i]]
  <1>1. Len(all) \in Nat /\ DOMAIN all = 1 .. Len(all)
    BY PoolFacts
  <1>2. pool \in SUBSET (1 .. Len(all)) /\ MaxFindings \in Nat
    BY <1>1, BoundsAssumption
  <1>3. Offered(framework) = FirstOf(pool, MaxFindings)
    BY DEF Offered
  <1> HIDE DEF pool
  <1>4. /\ Offered(framework) \subseteq pool
        /\ IsFiniteSet(Offered(framework))
        /\ Cardinality(Offered(framework)) <= MaxFindings
    BY <1>1, <1>2, <1>3, FirstOfIsBounded
  <1>5. DOMAIN keyed = Offered(framework)
    OBVIOUS
  <1>6. \A r \in DOMAIN keyed : keyed[r] \in Pool
    BY <1>1, <1>2, <1>4 DEF Pool
  <1>7. CASE relevant = {}
    BY <1>7, <1>4, <1>5, <1>6 DEF Pool
  <1>8. CASE relevant # {}
    <2>1. pool = relevant
      BY <1>8 DEF pool
    <2>2. \A r \in DOMAIN keyed : framework \in keyed[r].mn_basis
      BY <2>1, <1>4, <1>5
    <2> QED BY <2>2, <1>4, <1>5, <1>6
  <1> QED BY <1>7, <1>8

(* A row makes one more sound claim. *)
LEMMA RowStep ==
  ASSUME Inv, NEW d \in AnalysisDimension, NEW draft \in Drafts, Row(d, draft)
  PROVE  Inv'
  <1> DEFINE framework == FRAMEWORK_GROUPS[group]
             keyed == [i \in Offered(framework) |-> all[i]]
             c == resolve_claim(d, draft, keyed)
  <1>1. /\ pc = "answering" /\ d \in dimensions_for(framework) \ DOMAIN claims
        /\ claims' = [e \in DOMAIN claims \cup {d} |->
                        IF e = d THEN c ELSE claims[e]]
        /\ input' = input /\ position' = position /\ all' = all /\ pc' = pc
        /\ queries' = queries /\ group' = group
        /\ overseas' = overseas /\ outcome' = outcome
    BY DEF Row
  <1>2. /\ Typed /\ Fresh /\ OwnPool /\ ClaimsSoFar /\ OverseasSoFar
        /\ NoneMissing
    BY DEF Inv
  <1>3. framework \in Frameworks
    <2>1. group \in 1 .. 4
      BY <1>2 DEF Typed
    <2> QED BY <2>1 DEF FRAMEWORK_GROUPS, Frameworks
  <1> HIDE DEF framework, keyed, c
  <1>4. /\ Evidence' = Evidence /\ Pool' = Pool /\ Analyses' = Analyses
        /\ Ids' = Ids /\ Client' = Client
    BY <1>1 DEF Evidence, Pool, Analyses, Ids, Client
  <1>5. AnalysisRecord' = AnalysisRecord
    BY <1>4 DEF AnalysisRecord
  <1>6. \A a \in Analyses' : Kept(a)'
    BY <1>1, <1>4 DEF Inv, Kept
  <1>7. Typed'
    BY <1>1, <1>2, <1>4, <1>5 DEF Typed
  <1>8. Fresh' /\ OwnPool' /\ NoneMissing'
    BY <1>1, <1>2, <1>4 DEF Fresh, OwnPool, Working, NoneMissing
  <1>9. OverseasSoFar'
    BY <1>1, <1>2, <1>4 DEF OverseasSoFar, Working
  <1>10. Pool \in SUBSET Findings(Ids) /\ Distinct(Pool)
    <2>1. Pool \subseteq Evidence
      BY <1>1, <1>2 DEF OwnPool, Working
    <2> QED BY <2>1, <1>2, PoolFacts DEF Fresh, Distinct
  <1>11. /\ \A r \in DOMAIN keyed : keyed[r] \in Pool
         /\ IsFiniteSet(DOMAIN keyed) /\ Cardinality(DOMAIN keyed) <= MaxFindings
         /\ \/ \A f \in Pool : framework \notin f.mn_basis
            \/ \A r \in DOMAIN keyed : framework \in keyed[r].mn_basis
    BY <1>2, OfferedFacts DEF keyed
  <1>12. draft \in ClaimDraft(Nat)
    BY BoundsAssumption
  <1>13. /\ Sound(d, c, Pool)
         /\ Behind(c, Pool) \subseteq {keyed[r] : r \in DOMAIN keyed}
    BY <1>10, <1>11, <1>12, ResolveIsSound DEF c
  <1>14. d = "COMPETITIVE_ADVANTAGE" => OneFramework(c, Pool)
    <2> SUFFICES ASSUME d = "COMPETITIVE_ADVANTAGE", "MN04" \in c.framework_basis,
                        NEW f \in Behind(c, Pool)
                 PROVE  "MN04" \in f.mn_basis
      BY DEF OneFramework
    <2>1. framework = "MN04"
      BY <1>1, <1>3, Dimensions
    <2>2. PICK g \in Behind(c, Pool) : "MN04" \in g.mn_basis
      BY <1>13 DEF Sound
    <2>3. g \in Pool
      BY DEF Behind
    <2> QED BY <2>1, <2>2, <2>3, <1>11, <1>13
  <1>15. ClaimsSoFar'
    <2>1. /\ claims' = [e \in DOMAIN claims' |-> claims'[e]]
          /\ DOMAIN claims' = DOMAIN claims \cup {d}
          /\ claims'[d] = c
          /\ \A e \in DOMAIN claims : claims'[e] = claims[e]
      BY <1>1
    <2>2. /\ DOMAIN claims \subseteq AnalysisDimension
          /\ \A e \in DOMAIN claims : Sound(e, claims[e], Pool)
          /\ "COMPETITIVE_ADVANTAGE" \in DOMAIN claims =>
                OneFramework(claims["COMPETITIVE_ADVANTAGE"], Pool)
      BY <1>2 DEF ClaimsSoFar
    <2>3. \A e \in DOMAIN claims' : Sound(e, claims'[e], Pool)
      BY <2>1, <2>2, <1>13
    <2>4. "COMPETITIVE_ADVANTAGE" \in DOMAIN claims' =>
             OneFramework(claims'["COMPETITIVE_ADVANTAGE"], Pool)
      BY <2>1, <2>2, <1>14
    <2> QED BY <2>1, <2>2, <2>3, <2>4, <1>1, <1>4 DEF ClaimsSoFar
  <1> QED BY <1>6, <1>7, <1>8, <1>9, <1>15 DEF Inv

(* The silent dimensions are sound claims, and so is what the rules make.  *)
LEMMA EndOfGroupsStep == Inv /\ EndOfGroups => Inv'
  <1> SUFFICES ASSUME Inv, EndOfGroups PROVE Inv'
    OBVIOUS
  <1> DEFINE answered == Complete(claims)
             after == apply_cross_dimension_rules(answered, input.our_solution)
             a == answered["COMPETITIVE_ADVANTAGE"]
  <1>1. /\ pc = "answering" /\ claims' = after
        /\ pc' = IF input.scope = "INTERNATIONAL" THEN "overseas" ELSE "checking"
        /\ input' = input /\ position' = position /\ all' = all
        /\ queries' = queries /\ group' = group
        /\ overseas' = overseas /\ outcome' = outcome
    BY DEF EndOfGroups
  <1>2. /\ Typed /\ Fresh /\ OwnPool /\ ClaimsSoFar /\ OverseasSoFar
        /\ NoneMissing
    BY DEF Inv
  <1>3. /\ answered = [d \in AnalysisDimension |-> answered[d]]
        /\ \A d \in AnalysisDimension :
              answered[d] = IF d \in DOMAIN claims THEN claims[d] ELSE NotAssessed
    BY DEF Complete
  <1> HIDE DEF answered, after
  <1>4. /\ Evidence' = Evidence /\ Pool' = Pool /\ Analyses' = Analyses
        /\ Ids' = Ids /\ Client' = Client
    BY <1>1 DEF Evidence, Pool, Analyses, Ids, Client
  <1>5. AnalysisRecord' = AnalysisRecord
    BY <1>4 DEF AnalysisRecord
  <1>6. \A b \in Analyses' : Kept(b)'
    BY <1>1, <1>4 DEF Inv, Kept
  <1>7. Typed'
    BY <1>1, <1>2, <1>4, <1>5 DEF Typed
  <1>8. Fresh' /\ OwnPool' /\ NoneMissing'
    BY <1>1, <1>2, <1>4 DEF Fresh, OwnPool, Working, NoneMissing
  <1>9. OverseasSoFar'
    BY <1>1, <1>2, <1>4 DEF OverseasSoFar, Working
  <1>10. \A d \in AnalysisDimension : Sound(d, answered[d], Pool)
    <2> TAKE d \in AnalysisDimension
    <2>1. CASE d \in DOMAIN claims
      BY <2>1, <1>2, <1>3 DEF ClaimsSoFar
    <2>2. CASE d \notin DOMAIN claims
      BY <2>2, <1>3, NotAssessedIsSound
    <2> QED BY <2>1, <2>2
  <1>11. Pool \in SUBSET Findings(Ids) /\ input.our_solution \in BOOLEAN
    BY <1>2, PoolFacts, InputFacts DEF Typed
  <1>12. /\ after = [d \in AnalysisDimension |-> after[d]]
         /\ \A d \in AnalysisDimension : Sound(d, after[d], Pool)
         /\ PropositionStands(after, input.our_solution)
         /\ AdvantageStands(after)
         /\ \/ after["COMPETITIVE_ADVANTAGE"] = a
            \/ after["COMPETITIVE_ADVANTAGE"].finding_ids = {}
    BY <1>3, <1>10, <1>11, RulesAreSound DEF after
  <1>13. "COMPETITIVE_ADVANTAGE" \in AnalysisDimension
    BY Dimensions
  <1>14. OneFramework(a, Pool)
    <2>1. CASE "COMPETITIVE_ADVANTAGE" \in DOMAIN claims
      BY <2>1, <1>2, <1>3, <1>13 DEF ClaimsSoFar
    <2>2. CASE "COMPETITIVE_ADVANTAGE" \notin DOMAIN claims
      <3>1. a = NotAssessed
        BY <2>2, <1>3, <1>13
      <3>2. a.framework_basis = {}
        BY <3>1, NotAssessedIsSound
      <3> QED BY <3>2 DEF OneFramework
    <2> QED BY <2>1, <2>2
  <1>15. OneFramework(after["COMPETITIVE_ADVANTAGE"], Pool)
    <2>1. CASE after["COMPETITIVE_ADVANTAGE"] = a
      BY <2>1, <1>14
    <2>2. CASE after["COMPETITIVE_ADVANTAGE"].finding_ids = {}
      BY <2>2 DEF OneFramework, Behind
    <2> QED BY <2>1, <2>2, <1>12
  <1>16. ClaimsSoFar'
    <2>1. /\ claims' = [d \in AnalysisDimension |-> claims'[d]]
          /\ DOMAIN claims' = AnalysisDimension
      BY <1>1, <1>12
    <2>2. claims' = [d \in DOMAIN claims' |-> claims'[d]]
      BY <2>1
    <2> QED BY <2>1, <2>2, <1>1, <1>4, <1>12, <1>15 DEF ClaimsSoFar
  <1> QED BY <1>6, <1>7, <1>8, <1>9, <1>16 DEF Inv

(* The overseas claims pass their check whatever was answered. *)
LEMMA _international_claimsStep == Inv /\ _international_claims => Inv'
  <1> SUFFICES ASSUME Inv, _international_claims PROVE Inv'
    OBVIOUS
  <1> DEFINE keyed == [i \in FirstOf(DOMAIN all, MaxFindings) |-> all[i]]
  <1>0. PICK answered \in SUBSET (input.answered \cap InternationalDimension) :
           \E draft \in [answered -> Drafts] :
              overseas' = [d \in InternationalDimension |->
                  IF d \in answered THEN resolve_international(draft[d], keyed)
                  ELSE NotAssessed]
    BY DEF _international_claims
  <1>1. PICK draft \in [answered -> Drafts] :
          overseas' = [d \in InternationalDimension |->
              IF d \in answered THEN resolve_international(draft[d], keyed)
              ELSE NotAssessed]
    BY <1>0
  <1>2. /\ pc = "overseas" /\ pc' = "checking"
        /\ input' = input /\ position' = position /\ all' = all
        /\ queries' = queries /\ group' = group
        /\ claims' = claims /\ outcome' = outcome
    BY DEF _international_claims
  <1>3. /\ Typed /\ Fresh /\ OwnPool /\ ClaimsSoFar /\ OverseasSoFar
        /\ NoneMissing
    BY DEF Inv
  <1>4. /\ Evidence' = Evidence /\ Pool' = Pool /\ Analyses' = Analyses
        /\ Ids' = Ids /\ Client' = Client
    BY <1>2 DEF Evidence, Pool, Analyses, Ids, Client
  <1>5. AnalysisRecord' = AnalysisRecord
    BY <1>4 DEF AnalysisRecord
  <1>6. \A a \in Analyses' : Kept(a)'
    BY <1>2, <1>4 DEF Inv, Kept
  <1>7. Typed'
    BY <1>2, <1>3, <1>4, <1>5 DEF Typed
  <1>8. Fresh' /\ OwnPool' /\ NoneMissing'
    BY <1>2, <1>3, <1>4 DEF Fresh, OwnPool, Working, NoneMissing
  <1>9. ClaimsSoFar'
    BY <1>2, <1>3, <1>4 DEF ClaimsSoFar
  <1>10. \A r \in DOMAIN keyed : keyed[r] \in Pool
    BY DEF FirstOf, Pool
  <1>11. Pool \in SUBSET Findings(Ids)
    BY <1>3, PoolFacts
  <1> HIDE DEF keyed
  <1>12. ASSUME NEW d \in InternationalDimension
         PROVE  overseas'[d] \in Claims(IdsOf(Pool)) /\ _check_claim(overseas'[d])
    <2>1. CASE d \in answered
      <3>1. draft[d] \in ClaimDraft(Nat)
        BY <2>1, BoundsAssumption
      <3>2. overseas'[d] = resolve_international(draft[d], keyed)
        BY <1>1, <2>1
      <3> QED BY <3>1, <3>2, <1>10, <1>11, ResolveInternationalIsSound
    <2>2. CASE d \notin answered
      <3>1. overseas'[d] = NotAssessed
        BY <1>1, <2>2
      <3> QED BY <3>1, NotAssessedIsSound DEF Sound
    <2> QED BY <2>1, <2>2
  <1>13. OverseasSoFar'
    <2>1. /\ DOMAIN overseas' = InternationalDimension
          /\ overseas' = [d \in InternationalDimension |-> overseas'[d]]
      BY <1>1
    <2>2. input.scope = "INTERNATIONAL"
      BY <1>2, <1>3 DEF OverseasSoFar
    <2>3. overseas' = [d \in DOMAIN overseas' |-> overseas'[d]]
      BY <2>1
    <2> QED BY <2>1, <2>2, <2>3, <1>2, <1>4, <1>12 DEF OverseasSoFar, Working
  <1> QED BY <1>6, <1>7, <1>8, <1>9, <1>13 DEF Inv

(* The assembled analysis passes its check, so it is kept. *)
LEMMA AssemblePasses ==
  ASSUME Inv, pc = "checking"
  PROVE  check_client_analysis(claims, overseas, input.scope,
                               {all[i].id : i \in DOMAIN all})
  <1>1. ClaimsSoFar /\ OverseasSoFar
    BY DEF Inv
  <1>2. {all[i].id : i \in DOMAIN all} = IdsOf(Pool)
    BY DEF IdsOf, Pool
  <1>3. /\ DOMAIN claims = AnalysisDimension
        /\ \A d \in DOMAIN claims : Sound(d, claims[d], Pool)
    BY <1>1 DEF ClaimsSoFar
  <1>4. \A d \in DOMAIN claims : _check_claim(claims[d])
    BY <1>3, SoundPasses
  <1>5. \A d \in DOMAIN claims : claims[d].finding_ids \subseteq IdsOf(Pool)
    BY <1>3 DEF Sound, Claims
  <1>6. /\ \A d \in DOMAIN overseas :
              overseas[d] \in Claims(IdsOf(Pool)) /\ _check_claim(overseas[d])
        /\ input.scope # "INTERNATIONAL" => DOMAIN overseas = {}
    BY <1>1 DEF OverseasSoFar
  <1>7. \A d \in DOMAIN overseas : overseas[d].finding_ids \subseteq IdsOf(Pool)
    BY <1>6 DEF Claims
  <1> QED BY <1>2, <1>3, <1>4, <1>5, <1>6, <1>7 DEF check_client_analysis

LEMMA AssembleStep == Inv /\ Assemble => Inv'
  <1> SUFFICES ASSUME Inv, Assemble PROVE Inv'
    OBVIOUS
  <1>1. /\ pc = "checking" /\ pc' = "next client" /\ position' = position + 1
        /\ outcome' = [outcome EXCEPT !.analyses = Append(@, Analysis)]
        /\ input' = input /\ all' = all /\ queries' = queries /\ group' = group
        /\ claims' = claims /\ overseas' = overseas
    BY AssemblePasses DEF Assemble
  <1>2. /\ Typed /\ Fresh /\ OwnPool /\ ClaimsSoFar /\ OverseasSoFar
        /\ NoneMissing
    BY DEF Inv
  <1>3. /\ position \in DOMAIN input.client_ids /\ Client \in Candidates
        /\ Pool \subseteq Evidence /\ \A f \in Pool : f.id[1] \in {0, position}
    BY <1>1, <1>2 DEF OwnPool, Working
  <1>4. /\ position \in Nat \ {0} /\ position <= Len(input.client_ids)
        /\ position' \in 1 .. Len(input.client_ids) + 1
        /\ position' \in Nat /\ position < position'
    <2>1. /\ Len(input.client_ids) \in Nat
          /\ position \in 1 .. Len(input.client_ids)
      BY <1>2, <1>3, InputFacts DEF Typed
    <2>2. position' = position + 1
      BY <1>1
    <2> QED BY <2>1, <2>2
  <1>5. Ids' = Ids /\ Pool' = Pool
    BY <1>1 DEF Ids, Pool
  <1>6. AnalysisRecord' = AnalysisRecord
    BY <1>5 DEF AnalysisRecord
  <1>7. Pool \subseteq Findings(Ids) /\ IdsOf(Pool) \subseteq Ids
    BY <1>2, PoolFacts DEF IdsOf, Findings
  <1>8. /\ DOMAIN claims = AnalysisDimension
        /\ claims = [d \in AnalysisDimension |-> claims[d]]
        /\ \A d \in AnalysisDimension : Sound(d, claims[d], Pool)
        /\ OneFramework(claims["COMPETITIVE_ADVANTAGE"], Pool)
        /\ PropositionStands(claims, input.our_solution)
        /\ AdvantageStands(claims)
    BY <1>1, <1>2, Dimensions DEF ClaimsSoFar
  <1>9. /\ overseas = [d \in DOMAIN overseas |-> overseas[d]]
        /\ DOMAIN overseas \in {{}, InternationalDimension}
        /\ \A d \in DOMAIN overseas : overseas[d] \in Claims(IdsOf(Pool))
    BY <1>1, <1>2 DEF OverseasSoFar
  <1>10. /\ Analysis.position = position /\ Analysis.client = Client
         /\ Analysis.claims = claims
         /\ Analysis.finding_ids = Cited(claims) \cup Cited(overseas)
    BY DEF Analysis
  <1>11. Claims(IdsOf(Pool)) \subseteq Claims(Ids)
    BY <1>7 DEF Claims
  <1>12. Analysis.finding_ids \subseteq IdsOf(Pool)
    <2>1. \A d \in DOMAIN claims : claims[d].finding_ids \subseteq IdsOf(Pool)
      BY <1>8 DEF Sound, Claims
    <2>2. \A d \in DOMAIN overseas : overseas[d].finding_ids \subseteq IdsOf(Pool)
      BY <1>9 DEF Claims
    <2> QED BY <2>1, <2>2, <1>10 DEF Cited
  <1>13. Analysis \in AnalysisRecord
    <2>1. claims \in [AnalysisDimension -> Claims(Ids)]
      BY <1>8, <1>11 DEF Sound
    <2>2. overseas \in [{} -> Claims(Ids)] \cup [InternationalDimension -> Claims(Ids)]
      BY <1>9, <1>11
    <2>3. Cited(claims) \cup Cited(overseas) \in SUBSET Ids
      BY <1>7, <1>10, <1>12
    <2> QED BY <2>1, <2>2, <2>3, <1>3, <1>4 DEF Analysis, AnalysisRecord
  <1> DEFINE built == outcome.analyses
  <1>0. PICK a \in AnalysisRecord : a = Analysis
    BY <1>13
  <1>14. /\ outcome'.findings = outcome.findings
         /\ outcome'.analyses = Append(built, a)
         /\ outcome' \in [analyses : Seq(AnalysisRecord),
                          findings : SUBSET Findings(Ids)]
    <2>1. /\ outcome \in [analyses : Seq(AnalysisRecord),
                          findings : SUBSET Findings(Ids)]
          /\ outcome' = [outcome EXCEPT !.analyses = Append(@, a)]
      BY <1>0, <1>1, <1>2 DEF Typed
    <2>2. Append(built, a) \in Seq(AnalysisRecord)
      BY <2>1, AppendProperties
    <2> QED BY <2>1, <2>2
  <1>15. /\ Len(built) \in Nat /\ DOMAIN built = 1 .. Len(built)
         /\ built \in Seq(AnalysisRecord)
         /\ DOMAIN outcome'.analyses = 1 .. Len(built) + 1
         /\ outcome'.analyses[Len(built) + 1] = a
         /\ \A i \in 1 .. Len(built) : outcome'.analyses[i] = built[i]
    <2>1. built \in Seq(AnalysisRecord) /\ a \in AnalysisRecord
      BY <1>2 DEF Typed
    <2> HIDE DEF built
    <2> QED BY <2>1, <1>14, AppendProperties, LenProperties
  <1>16. /\ Evidence' = Evidence /\ Analyses' = Analyses \cup {a}
    <2>1. DOMAIN outcome'.analyses = DOMAIN built \cup {Len(built) + 1}
      BY <1>15
    <2>2. \A i \in DOMAIN built : outcome'.analyses[i] = built[i]
      BY <1>15
    <2>3. Evidence' = Evidence
      BY <1>1, <1>14 DEF Evidence
    <2>4. Analyses' = {outcome'.analyses[i] : i \in DOMAIN built}
                        \cup {outcome'.analyses[Len(built) + 1]}
      BY <2>1 DEF Analyses
    <2>5. {outcome'.analyses[i] : i \in DOMAIN built} = Analyses
      BY <2>2 DEF Analyses
    <2> QED BY <2>3, <2>4, <2>5, <1>15
  <1>17. Distinct(Evidence') /\ position <= position'
    <2>1. Distinct(Evidence')
      BY <1>2, <1>16 DEF Fresh
    <2> QED BY <2>1, <1>4
  <1>18. \A b \in Analyses : Kept(b)'
    BY <1>1, <1>4, <1>16, <1>17, KeptStays
  <1>19. Kept(a)'
    <2>1. a.position < position' /\ a.client = input'.client_ids[a.position]
      BY <1>0, <1>1, <1>4, <1>10 DEF Client
    <2>2. \A d \in AnalysisDimension :
             /\ Sound(d, a.claims[d], Evidence')
             /\ Behind(a.claims[d], Evidence') = Behind(a.claims[d], Pool)
      BY <1>0, <1>3, <1>8, <1>10, <1>16, <1>17, SoundTransfers
    <2>3. OneFramework(a.claims["COMPETITIVE_ADVANTAGE"], Evidence')
      BY <2>2, <1>0, <1>8, <1>10, Dimensions DEF OneFramework
    <2>4. \A id \in a.finding_ids : id[1] \in {0, a.position}
      BY <1>0, <1>3, <1>10, <1>12 DEF IdsOf
    <2>5. /\ PropositionStands(a.claims, input'.our_solution)
          /\ AdvantageStands(a.claims)
      BY <1>0, <1>1, <1>8, <1>10
    <2> QED BY <2>1, <2>2, <2>3, <2>4, <2>5 DEF Kept
  <1>20. Typed'
    BY <1>1, <1>2, <1>4, <1>5, <1>6, <1>14 DEF Typed
  <1>21. Fresh'
    <2>1. ASSUME NEW f \in outcome.findings
          PROVE  f.id[1] \in 1 .. position' /\ f.id[1] < position'
      <3>1. f.id[1] \in 1 .. position
        BY <1>2 DEF Fresh
      <3> QED BY <3>1, <1>4
    <2> QED BY <2>1, <1>1, <1>14, <1>17 DEF Fresh
  <1>22. OwnPool' /\ ClaimsSoFar' /\ OverseasSoFar'
    BY <1>1, <1>2, <1>5 DEF OwnPool, Working, ClaimsSoFar, OverseasSoFar
  <1>23. NoneMissing'
    <2>1. ~TooMany(input.client_ids)
      BY <1>1, <1>2 DEF NoneMissing
    <2>2. {b.position : b \in Analyses'}
            = {p \in 1 .. position' - 1 : input'.client_ids[p] \in Candidates}
      <3>1. {b.position : b \in Analyses}
              = {p \in 1 .. position - 1 : input.client_ids[p] \in Candidates}
        BY <1>1, <1>2, <2>1 DEF NoneMissing
      <3>2. \A p : p \in 1 .. position' - 1
                     <=> p \in 1 .. position - 1 \/ p = position
        <4>1. position' = position + 1
          BY <1>1
        <4> QED BY <4>1, <1>4
      <3>3. input.client_ids[position] \in Candidates /\ a.position = position
        BY <1>0, <1>3, <1>10 DEF Client
      <3> QED BY <3>1, <3>2, <3>3, <1>1, <1>16
    <2>3. \A i, j \in DOMAIN outcome'.analyses :
             j < i => outcome'.analyses[j].position < outcome'.analyses[i].position
      <3> SUFFICES ASSUME NEW i \in 1 .. Len(built) + 1,
                          NEW j \in 1 .. Len(built) + 1, j < i
                   PROVE  outcome'.analyses[j].position
                            < outcome'.analyses[i].position
        BY <1>15
      <3>1. j \in 1 .. Len(built) /\ outcome'.analyses[j] = built[j]
        BY <1>15
      <3>2. CASE i \in 1 .. Len(built)
        <4>1. outcome'.analyses[i] = built[i] /\ i \in DOMAIN built /\ j \in DOMAIN built
          BY <3>1, <3>2, <1>15
        <4> QED BY <3>1, <4>1, <1>2 DEF NoneMissing
      <3>3. CASE i = Len(built) + 1
        <4>1. built[j] \in Analyses
          BY <3>1, <1>15 DEF Analyses
        <4>2. built[j].position < position
          BY <4>1 DEF Inv, Kept
        <4>3. a.position = position
          BY <1>0, <1>10
        <4> QED BY <3>1, <3>3, <4>2, <4>3, <1>15
      <3> QED BY <3>2, <3>3, <1>15
    <2> QED BY <2>1, <2>2, <2>3, <1>1 DEF NoneMissing
  <1> QED BY <1>16, <1>18, <1>19, <1>20, <1>21, <1>22, <1>23 DEF Inv

(* A provider that raises takes everything built with it. *)
LEMMA ProviderRaisesStep == Inv /\ ProviderRaises => Inv'
  <1> SUFFICES ASSUME Inv, ProviderRaises PROVE Inv'
    OBVIOUS
  <1>1. /\ pc \in {"criteria", "searching", "asking", "overseas"}
        /\ pc' = "raised" /\ outcome' = Nothing
        /\ input' = input /\ position' = position /\ all' = all
        /\ queries' = queries /\ group' = group
        /\ claims' = claims /\ overseas' = overseas
    BY DEF ProviderRaises
  <1>2. /\ Typed /\ Fresh /\ OwnPool /\ ClaimsSoFar /\ OverseasSoFar
        /\ NoneMissing
    BY DEF Inv
  <1>3. outcome'.analyses = <<>> /\ outcome'.findings = {} /\ Analyses' = {}
    BY <1>1 DEF Nothing, Analyses
  <1>4. Evidence' \subseteq Evidence /\ Ids' = Ids /\ Pool' = Pool
    BY <1>1, <1>3 DEF Evidence, Ids, Pool
  <1>5. Typed'
    <2>1. outcome' \in [analyses : Seq(AnalysisRecord'),
                        findings : SUBSET Findings(Ids')]
      BY <1>1 DEF Nothing
    <2> QED BY <2>1, <1>1, <1>2, <1>4 DEF Typed
  <1>6. Fresh'
    BY <1>1, <1>2, <1>3, <1>4 DEF Fresh, Distinct
  <1>7. OwnPool' /\ ClaimsSoFar' /\ OverseasSoFar'
    BY <1>1, <1>2, <1>4 DEF OwnPool, Working, ClaimsSoFar, OverseasSoFar
  <1>8. NoneMissing'
    <2>1. ~TooMany(input.client_ids)
      BY <1>1, <1>2 DEF NoneMissing
    <2> QED BY <2>1, <1>1, <1>3 DEF NoneMissing
  <1> QED BY <1>3, <1>5, <1>6, <1>7, <1>8 DEF Inv

-----------------------------------------------------------------------------
(* The results *)

(* The invariant is inductive: every step of the call, every answer and    *)
(* every provider error keeps it.                                          *)
THEOREM AnalysisInvariance == Spec => []Inv
  <1>1. Init => Inv
    BY InitInv
  <1>2. Inv /\ [Next]_vars => Inv'
    <2> SUFFICES ASSUME Inv, [Next]_vars PROVE Inv'
      OBVIOUS
    <2>1. ASSUME NEW d \in input.answered \cap AnalysisDimension,
                 NEW draft \in Drafts, Row(d, draft)
          PROVE  Inv'
      BY <2>1, RowStep
    <2>2. CASE UNCHANGED vars
      <3>1. /\ input' = input /\ pc' = pc /\ position' = position
            /\ queries' = queries /\ all' = all /\ group' = group
            /\ claims' = claims /\ overseas' = overseas /\ outcome' = outcome
        BY <2>2 DEF vars
      <3>2. /\ Evidence' = Evidence /\ Analyses' = Analyses /\ Pool' = Pool
            /\ Ids' = Ids /\ Client' = Client
        BY <3>1 DEF Evidence, Analyses, Pool, Ids, Client
      <3>3. AnalysisRecord' = AnalysisRecord
        BY <3>2 DEF AnalysisRecord
      <3>4. Typed' /\ Fresh' /\ OwnPool'
        BY <3>1, <3>2, <3>3 DEF Inv, Typed, Fresh, OwnPool, Working
      <3>5. ClaimsSoFar' /\ OverseasSoFar' /\ NoneMissing'
        BY <3>1, <3>2 DEF Inv, ClaimsSoFar, OverseasSoFar, NoneMissing, Working
      <3>6. \A a \in Analyses' : Kept(a)'
        BY <3>1, <3>2 DEF Inv, Kept
      <3> QED BY <3>4, <3>5, <3>6 DEF Inv
    <2>3. CASE Rest
      <3>1. UNCHANGED vars
        BY <2>3 DEF Rest
      <3> QED BY <2>2, <3>1
    <2> QED BY <2>1, <2>2, <2>3, CallStep, ReturnStep, UnknownClientStep,
               SelectedStep, build_client_criteriaStep, research_clientStep,
               AskGroupStep, EndOfGroupStep, EndOfGroupsStep,
               _international_claimsStep, AssembleStep, ProviderRaisesStep,
               PersistStep DEF Next
  <1> QED BY <1>1, <1>2, PTL DEF Spec

(* The call keeps its shape: positions, queries and groups stay in bounds, *)
(* and no claim ever cites an id nobody has, or more findings than the     *)
(* limit allows, whatever references the provider made up.                 *)
THEOREM TypeCorrect == Spec => []TypeOK
  <1>1. Inv => TypeOK
    <2> SUFFICES ASSUME Inv PROVE TypeOK
      OBVIOUS
    <2>1. Typed /\ ClaimsSoFar /\ OverseasSoFar
      BY DEF Inv
    <2>2. /\ \A i \in DOMAIN all : all[i] \in Pool
          /\ Pool \subseteq Findings(Ids)
      BY <2>1, PoolFacts
    <2>3. Claims(IdsOf(Pool)) \subseteq Claims(Ids)
      BY <2>2 DEF Claims, IdsOf, Findings
    <2>4. \A i \in DOMAIN all : all[i].id \in Ids
      BY <2>2 DEF Findings
    <2>5. \A d \in DOMAIN claims :
             /\ claims[d] \in Claims(Ids)
             /\ Cardinality(claims[d].finding_ids) <= MaxFindings
      BY <2>1, <2>3 DEF ClaimsSoFar, Sound
    <2>6. \A d \in DOMAIN overseas : overseas[d] \in Claims(Ids)
      BY <2>1, <2>3 DEF OverseasSoFar
    <2> QED BY <2>1, <2>4, <2>5, <2>6
            DEF TypeOK, Typed, ClaimsSoFar, OverseasSoFar
  <1> QED BY <1>1, AnalysisInvariance, PTL

(* Whatever the provider answers, every requested candidate has its        *)
(* analysis, in order: the check that would silently drop one (pipeline.py,*)
(* "if violations") never fails.                                           *)
THEOREM AnalysesAreAllThere == Spec => []NoAnalysisIsLost
  <1>1. Inv => NoAnalysisIsLost
    <2> SUFFICES ASSUME Inv, pc \in {"returned", "persisted"}
                 PROVE  LET asked == input.client_ids
                            known == {p \in DOMAIN asked :
                                        asked[p] \in Candidates}
                            built == outcome.analyses
                        IN  IF Len(asked) > MaxClients THEN built = <<>>
                            ELSE /\ {a.position : a \in Analyses} = known
                                 /\ \A i \in DOMAIN built :
                                       /\ built[i].client
                                            = asked[built[i].position]
                                       /\ \A j \in 1 .. i - 1 :
                                             built[j].position
                                               < built[i].position
      BY DEF NoAnalysisIsLost
    <2>1. Typed /\ NoneMissing /\ \A a \in Analyses : Kept(a)
      BY DEF Inv
    <2>2. CASE TooMany(input.client_ids)
      BY <2>1, <2>2 DEF NoneMissing, Nothing, TooMany
    <2>3. CASE ~TooMany(input.client_ids)
      <3>1. /\ position = Len(input.client_ids) + 1
            /\ {a.position : a \in Analyses}
                 = {p \in 1 .. position - 1 : input.client_ids[p] \in Candidates}
            /\ \A i, j \in DOMAIN outcome.analyses :
                  j < i => outcome.analyses[j].position
                             < outcome.analyses[i].position
        BY <2>1, <2>3 DEF NoneMissing
      <3>2. /\ Len(input.client_ids) \in Nat
            /\ DOMAIN input.client_ids = 1 .. Len(input.client_ids)
        BY <2>1, InputFacts DEF Typed
      <3>3. position - 1 = Len(input.client_ids)
        BY <3>1, <3>2
      <3>4. /\ DOMAIN outcome.analyses = 1 .. Len(outcome.analyses)
            /\ Len(outcome.analyses) \in Nat
        BY <2>1, AnalysesAreRecords
      <3>5. \A i \in DOMAIN outcome.analyses : \A j \in 1 .. i - 1 :
               j \in DOMAIN outcome.analyses /\ j < i
        BY <3>4
      <3>6. \A i \in DOMAIN outcome.analyses :
               outcome.analyses[i].client
                 = input.client_ids[outcome.analyses[i].position]
        BY <2>1 DEF Kept, Analyses
      <3> QED BY <2>3, <3>1, <3>2, <3>3, <3>5, <3>6 DEF TooMany
    <2> QED BY <2>2, <2>3
  <1> QED BY <1>1, AnalysisInvariance, PTL

(* A competitive advantage that survives compares: it cites a finding of   *)
(* its own, read through MN04, that no claim it is compared with uses.     *)
THEOREM AdvantagesCompare == Spec => []AdvantageIsComparative
  <1>1. Inv => AdvantageIsComparative
    <2> SUFFICES ASSUME Inv, NEW a \in Analyses,
                        a.claims["COMPETITIVE_ADVANTAGE"].statement
                 PROVE  LET c == a.claims["COMPETITIVE_ADVANTAGE"]
                            alternatives == {d \in COMPARATOR_DIMENSIONS :
                                               a.claims[d].statement}
                        IN  /\ a.claims["KBF"].statement /\ alternatives # {}
                            /\ \E f \in CitedBy(c) :
                                  /\ "MN04" \in f.mn_basis
                                  /\ \A d \in {"KBF"} \cup alternatives :
                                        f.id \notin a.claims[d].finding_ids
      BY DEF AdvantageIsComparative
    <2> DEFINE c == a.claims["COMPETITIVE_ADVANTAGE"]
    <2>1. Kept(a)
      BY DEF Inv
    <2>2. Compared(a.claims)
      BY <2>1 DEF Kept, AdvantageStands
    <2>3. /\ is_established(a.claims["KBF"])
          /\ EstablishedComparators(a.claims) # {}
          /\ c.finding_ids \ Spent(a.claims) # {}
          /\ "MN04" \in c.framework_basis
      BY <2>2 DEF Compared
    <2>4. /\ {"COMPETITIVE_ADVANTAGE", "KBF"} \cup COMPARATOR_DIMENSIONS
               \subseteq AnalysisDimension
      BY Dimensions
    <2>5. \A d \in AnalysisDimension :
             a.claims[d].statement => is_established(a.claims[d])
      BY <2>1 DEF Kept, Sound, Settled, is_established
    <2>6. CitedBy(c) = Behind(c, Evidence)
      BY DEF CitedBy, Behind
    <2>7. \A f \in Behind(c, Evidence) : "MN04" \in f.mn_basis
      BY <2>1, <2>3 DEF Kept, OneFramework
    <2>8. PICK id \in c.finding_ids : id \notin Spent(a.claims)
      BY <2>3
    <2>9. c.finding_ids \subseteq IdsOf(Evidence)
      BY <2>1, <2>4 DEF Kept, Sound, Claims
    <2>10. PICK f \in Evidence : f.id = id
      BY <2>8, <2>9 DEF IdsOf
    <2>11. f \in Behind(c, Evidence)
      BY <2>8, <2>10 DEF Behind
    <2>12. ASSUME NEW d \in {"KBF"} \cup COMPARATOR_DIMENSIONS,
                  a.claims[d].statement
           PROVE  f.id \notin a.claims[d].finding_ids
      <3>1. is_established(a.claims[d])
        BY <2>4, <2>5, <2>12
      <3> QED BY <3>1, <2>8, <2>10 DEF Spent
    <2>13. a.claims["KBF"].statement
      BY <2>3 DEF is_established
    <2>14. {d \in COMPARATOR_DIMENSIONS : a.claims[d].statement} # {}
      BY <2>3 DEF EstablishedComparators, is_established
    <2> QED BY <2>6, <2>7, <2>11, <2>12, <2>13, <2>14
  <1> QED BY <1>1, AnalysisInvariance, PTL

(* A surviving value proposition addresses an established problem with     *)
(* something to offer, and is held to its ceiling.                         *)
THEOREM PropositionsAddressProblems == Spec => []PropositionAddressesAProblem
  <1>1. Inv => PropositionAddressesAProblem
    BY DEF Inv, Kept, PropositionStands, PropositionAddressesAProblem
  <1> QED BY <1>1, AnalysisInvariance, PTL

(* No claim of an analysis is worth more than what it cites, and none that *)
(* settles nothing carries credit.                                         *)
THEOREM CreditIsEarned == Spec => []ClaimsAreEarned
  <1>1. Inv => ClaimsAreEarned
    <2> SUFFICES ASSUME Inv, NEW a \in Analyses, NEW d \in AnalysisDimension
                 PROVE  LET c == a.claims[d] IN
                        IF c.statement
                        THEN /\ c.finding_ids # {}
                             /\ rank(c.confidence) <= rank(DIMENSION_CEILING(d))
                             /\ \A f \in CitedBy(c) :
                                   rank(c.confidence) <= rank(f.confidence)
                             /\ c.evidence_type = "FACT" =>
                                  /\ d \notin SYNTHESIS
                                  /\ \E f \in CitedBy(c) :
                                        f.evidence_type = "FACT"
                        ELSE /\ c.evidence_type = "MISSING_EVIDENCE"
                             /\ c.confidence = "UNKNOWN"
      BY DEF ClaimsAreEarned
    <2>1. Sound(d, a.claims[d], Evidence)
      BY DEF Inv, Kept
    <2>2. CitedBy(a.claims[d]) = Behind(a.claims[d], Evidence)
      BY DEF CitedBy, Behind
    <2> QED BY <2>1, <2>2 DEF Sound, Settled, Unsettled
  <1> QED BY <1>1, AnalysisInvariance, PTL

(* Research done for one client never supports a claim about another, nor  *)
(* one about the same client requested a second time.                      *)
THEOREM EvidenceIsOwn == Spec => []EvidenceStaysWithItsClient
  <1>1. Inv => EvidenceStaysWithItsClient
    BY DEF Inv, Kept, EvidenceStaysWithItsClient
  <1> QED BY <1>1, AnalysisInvariance, PTL
=============================================================================
