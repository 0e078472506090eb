-------------------------- MODULE Engagement_proofs --------------------------
(* An engagement from its first upload to the last record saved, for any   *)
(* files, search results, limits, policies and answers of a provider: what *)
(* is read of a batch and what is left of it in memory, that every passage *)
(* is read, that nothing is concluded, kept or stored beyond its evidence. *)
EXTENDS Engagement, SequenceTheorems, FiniteSetTheorems, WellFoundedInduction,
        TLAPS

-----------------------------------------------------------------------------
(* Places in a list *)

(* A nonempty set of naturals has a least one, and First is it. *)
LEMMA FirstIsLeast ==
    ASSUME NEW S \in SUBSET Nat, S # {}
    PROVE  First(S) \in S /\ First(S) \in Nat /\ \A i \in S : First(S) <= i
<1>1. PICK m \in S : \A i \in S : ~(<<i, m>> \in OpToRel(<, Nat))
    BY NatLessThanWellFounded, WFMin, Zenon
<1>2. \A i \in S : m <= i
    <2> TAKE i \in S
    <2>1. <<i, m>> \notin OpToRel(<, Nat)
        BY <1>1, Zenon
    <2> QED  BY <2>1 DEF OpToRel
<1> QED  BY <1>2 DEF First

(* A nonempty bounded set of naturals has a last one. *)
LEMMA LastPlace ==
    ASSUME NEW n \in Nat, NEW S \in SUBSET (0 .. n), S # {}
    PROVE  \E m \in S : \A i \in S : i <= m
<1> DEFINE Above == {k \in Nat : \A i \in S : i <= k}
<1>1. n \in Above
    OBVIOUS
<1>2. PICK m \in Above : \A k \in Above : m <= k
    <2>1. Above \in SUBSET Nat /\ Above # {}
        BY <1>1
    <2> HIDE DEF Above
    <2> QED  BY <2>1, FirstIsLeast
<1>3. m \in S
    <2> SUFFICES ASSUME m \notin S PROVE FALSE
        OBVIOUS
    <2>1. PICK i \in S : TRUE
        OBVIOUS
    <2>2. m - 1 \in Above
        BY <2>1
    <2> QED  BY <2>2, <1>2
<1> QED  BY <1>3

(* Bounded sets of naturals are finite. *)
LEMMA BoundedIsFinite ==
    ASSUME NEW n \in Nat, NEW S \in SUBSET (0 .. n)
    PROVE  /\ IsFiniteSet(S) /\ Cardinality(S) \in Nat
           /\ \A j \in S : j \in Nat
<1>1. IsFiniteSet(0 .. n)
    BY FS_Interval
<1>2. IsFiniteSet(S)
    BY <1>1, FS_Subset
<1> QED  BY <1>2, FS_CardinalityType

(* How many of a set come up to a place: counted one by one. *)
LEMMA UptoCounts ==
    ASSUME NEW n \in Nat, NEW S \in SUBSET (0 .. n), NEW i \in S
    PROVE  /\ Upto(S, i) \in Nat /\ Upto(S, i) >= 1
           /\ Upto(S, i) = Cardinality({j \in S : j < i}) + 1
<1> DEFINE B == {j \in S : j < i}
<1>1. IsFiniteSet(S)
    BY BoundedIsFinite
<1>2. IsFiniteSet(B) /\ Cardinality(B) \in Nat
    BY <1>1, FS_Subset, FS_CardinalityType
<1>3. {j \in S : j <= i} = B \cup {i}
    <2>1. \A j \in S : j \in Nat
        OBVIOUS
    <2>2. \A j \in S : j <= i <=> j < i \/ j = i
        BY <2>1
    <2> QED  BY <2>2
<1>4. Cardinality(B \cup {i}) = Cardinality(B) + 1
    BY <1>2, FS_AddElement
<1> QED  BY <1>2, <1>3, <1>4 DEF Upto

(* The n-th place of a set is one of its places, and n-th. *)
LEMMA NumberedIsFound ==
    ASSUME NEW m \in Nat, NEW S \in SUBSET (0 .. m),
           NEW n \in 1 .. Cardinality(S)
    PROVE  Numbered(S, n) \in S /\ Upto(S, Numbered(S, n)) = n
<1> DEFINE P == {i \in S : Upto(S, i) >= n}
<1>1. IsFiniteSet(S) /\ Cardinality(S) \in Nat /\ \A j \in S : j \in Nat
    BY BoundedIsFinite
<1>2. S # {}
    BY <1>1, FS_EmptySet
<1>3. PICK last \in S : \A i \in S : i <= last
    BY <1>2, LastPlace
<1>4. last \in P
    <2>1. {j \in S : j <= last} = S
        BY <1>3
    <2> QED  BY <2>1, <1>1 DEF Upto
<1>5. PICK i \in P : \A j \in P : i <= j
    <2>1. P \in SUBSET Nat /\ P # {}
        BY <1>1, <1>4
    <2> HIDE DEF P
    <2> QED  BY <2>1, FirstIsLeast
<1> DEFINE B == {j \in S : j < i}
<1>6. Upto(S, i) \in Nat /\ Upto(S, i) = Cardinality(B) + 1 /\ Upto(S, i) >= n
    BY UptoCounts, <1>5
<1>7. Cardinality(B) < n
    <2>1. CASE B = {}
        BY <2>1, FS_EmptySet
    <2>2. CASE B # {}
        <3>1. PICK k \in B : \A j \in B : j <= k
            BY <2>2, LastPlace
        <3>2. B = {j \in S : j <= k}
            <4>1. k \in Nat /\ k < i /\ i \in Nat
                BY <3>1, <1>1, <1>5
            <4>2. \A j \in S : j \in Nat /\ (j < i => j <= k)
                BY <3>1, <1>1
            <4>3. \A j \in S : j <= k => j < i
                BY <4>1, <1>1
            <4> QED  BY <4>2, <4>3
        <3>3. Upto(S, k) \in Nat /\ ~(Upto(S, k) >= n)
            <4>1. k \in S /\ k \notin P
                BY <1>5, <3>1, <1>1
            <4> QED  BY <4>1, UptoCounts
        <3> QED  BY <3>2, <3>3 DEF Upto
    <2> QED  BY <2>1, <2>2
<1>8. Upto(S, i) = n
    BY <1>6, <1>7, <1>1, FS_Subset, FS_CardinalityType
<1> QED  BY <1>5, <1>8 DEF Numbered

(* A place further on has more of them before it. *)
LEMMA UptoGrows ==
    ASSUME NEW m \in Nat, NEW S \in SUBSET (0 .. m),
           NEW i \in S, NEW j \in S, i < j
    PROVE  Upto(S, i) < Upto(S, j)
<1> DEFINE A == {k \in S : k <= i}
           B == {k \in S : k < j}
<1>1. IsFiniteSet(S) /\ \A k \in S : k \in Nat
    BY BoundedIsFinite
<1>2. IsFiniteSet(B) /\ Cardinality(B) \in Nat /\ A \subseteq B
    <2>1. A \subseteq B
        <3> SUFFICES ASSUME NEW k \in S, k <= i PROVE k < j
            OBVIOUS
        <3> QED  BY <1>1
    <2>2. B \subseteq S
        OBVIOUS
    <2> HIDE DEF A, B
    <2> QED  BY <1>1, <2>1, <2>2, FS_Subset, FS_CardinalityType
<1>3. Cardinality(A) <= Cardinality(B) /\ Cardinality(A) \in Nat
    <2> HIDE DEF A, B
    <2> QED  BY <1>2, FS_Subset, FS_CardinalityType
<1>4. Upto(S, j) = Cardinality(B) + 1
    BY UptoCounts
<1> QED  BY <1>2, <1>3, <1>4 DEF Upto

(* Each place is the one with its number. *)
LEMMA NumberedIsOnly ==
    ASSUME NEW m \in Nat, NEW S \in SUBSET (0 .. m), NEW i \in S
    PROVE  Numbered(S, Upto(S, i)) = i
<1> DEFINE n == Upto(S, i)
<1>1. \A k \in S : k \in Nat /\ Upto(S, k) \in Nat
    <2> TAKE k \in S
    <2>1. Upto(S, k) \in Nat
        BY UptoCounts
    <2> QED  BY <2>1
<1>2. \A k \in S : Upto(S, k) = n => k = i
    <2> SUFFICES ASSUME NEW k \in S, Upto(S, k) = n, k # i PROVE FALSE
        OBVIOUS
    <2>1. k < i \/ i < k
        BY <1>1
    <2>2. Upto(S, k) < Upto(S, i) \/ Upto(S, i) < Upto(S, k)
        BY <2>1, UptoGrows
    <2> QED  BY <2>2, <1>1
<1> HIDE DEF n
<1>3. Upto(S, i) = n
    BY DEF n
<1> QED  BY <1>2, <1>3 DEF Numbered, n

(* The last place of a bounded set is in it, and none is after it. *)
LEMMA EndIsLast ==
    ASSUME NEW n \in Nat, NEW S \in SUBSET (0 .. n), S # {}
    PROVE  End(S) \in S /\ \A i \in S : i <= End(S)
BY LastPlace DEF End

-----------------------------------------------------------------------------
(* What a parser cuts out of a document *)

(* Each segment holds something of a document of so many units, and claims *)
(* to be somewhere.                                                        *)
Placed(S, n) ==
    \A s \in S : /\ s.holds \in SUBSET (1 .. n) /\ s.holds # {}
                 /\ s.claims \in SUBSET Nat

(* No two segments end with the same unit. *)
Apart(S) == \A s, t \in S : End(s.holds) = End(t.holds) => s = t

(* A list with each element of a set once. *)
Lists(q, S) ==
    /\ Len(q) \in Nat /\ DOMAIN q = 1 .. Len(q)
    /\ \A k \in DOMAIN q : q[k] \in S
    /\ \A s \in S : \E k \in DOMAIN q : q[k] = s
    /\ \A j, k \in DOMAIN q : q[j] = q[k] => j = k

(* One segment and no other holds a place. *)
Once(S, u) == \E s \in S : u \in s.holds /\ \A t \in S : u \in t.holds => t = s

(* Put in order, segments that are apart are all there, once. *)
LEMMA InOrderIsComplete ==
    ASSUME NEW S, NEW n \in Nat, Placed(S, n), Apart(S)
    PROVE  Lists(InOrder(S), S)
<1> DEFINE ends == {End(s.holds) : s \in S}
           found(k) == CHOOSE s \in S : End(s.holds) = Numbered(ends, k)
           size == Cardinality(ends)
<1>1. ends \in SUBSET (0 .. n)
    <2> SUFFICES ASSUME NEW s \in S PROVE End(s.holds) \in 0 .. n
        OBVIOUS
    <2>1. s.holds \in SUBSET (0 .. n) /\ s.holds # {}
        BY DEF Placed
    <2>2. End(s.holds) \in s.holds
        BY <2>1, EndIsLast
    <2> QED  BY <2>1, <2>2
<1>2. IsFiniteSet(ends) /\ size \in Nat
    <2> HIDE DEF ends
    <2> QED  BY <1>1, BoundedIsFinite
<1>3. \A k \in 1 .. size : /\ Numbered(ends, k) \in ends
                           /\ Upto(ends, Numbered(ends, k)) = k
    <2> HIDE DEF ends
    <2> QED  BY <1>1, NumberedIsFound
<1>4. \A k \in 1 .. size : found(k) \in S /\ End(found(k).holds) = Numbered(ends, k)
    BY <1>3
<1>5. ASSUME NEW s \in S PROVE \E k \in 1 .. size : found(k) = s
    <2> DEFINE i == End(s.holds)
               k == Upto(ends, i)
    <2>1. i \in ends
        OBVIOUS
    <2> HIDE DEF i
    <2>2. k \in 1 .. size /\ Numbered(ends, k) = i
        <3> HIDE DEF ends
        <3>1. k \in Nat /\ k >= 1 /\ Numbered(ends, k) = i
            BY <2>1, <1>1, UptoCounts, NumberedIsOnly
        <3>2. k <= size
            BY <1>2, FS_Subset DEF Upto
        <3> QED  BY <3>1, <3>2, <1>2
    <2> HIDE DEF k
    <2>3. found(k) \in S /\ End(found(k).holds) = End(s.holds)
        BY <1>4, <2>2 DEF i
    <2>4. found(k) = s
        <3> HIDE DEF found
        <3> QED  BY <2>3 DEF Apart
    <2> QED  BY <2>2, <2>4
<1>6. ASSUME NEW j \in 1 .. size, NEW k \in 1 .. size, found(j) = found(k)
      PROVE  j = k
    <2>1. Numbered(ends, j) = Numbered(ends, k)
        BY <1>4, <1>6
    <2> QED  BY <2>1, <1>3
<1>7. InOrder(S) = [k \in 1 .. size |-> found(k)]
    BY DEF InOrder
<1> HIDE DEF found, size
<1> DEFINE q == [k \in 1 .. size |-> found(k)]
<1>8. Len(q) = size /\ DOMAIN q = 1 .. size /\ \A k \in 1 .. size : q[k] = found(k)
    BY <1>2
<1> HIDE DEF q
<1>9. Lists(q, S)
    <2>1. Len(q) \in Nat /\ DOMAIN q = 1 .. Len(q)
        BY <1>2, <1>8
    <2>2. \A k \in DOMAIN q : q[k] \in S
        BY <1>4, <1>8
    <2>3. \A s \in S : \E k \in DOMAIN q : q[k] = s
        BY <1>5, <1>8
    <2>4. \A j, k \in DOMAIN q : q[j] = q[k] => j = k
        BY <1>6, <1>8
    <2> QED  BY <2>1, <2>2, <2>3, <2>4 DEF Lists
<1> QED  BY <1>7, <1>9 DEF q

(* One list after another has what both have. *)
LEMMA ListingsAreJoined ==
    ASSUME NEW S, NEW T \in SUBSET S, NEW p, NEW q, Lists(p, S \ T), Lists(q, T)
    PROVE  Lists(p \o q, S)
<1>1. /\ Len(p) \in Nat /\ DOMAIN p = 1 .. Len(p)
      /\ Len(q) \in Nat /\ DOMAIN q = 1 .. Len(q)
    BY DEF Lists
<1>2. /\ Len(p \o q) = Len(p) + Len(q)
      /\ DOMAIN (p \o q) = 1 .. Len(p) + Len(q)
      /\ \A i \in 1 .. Len(p) + Len(q) :
            (p \o q)[i] = IF i <= Len(p) THEN p[i] ELSE q[i - Len(p)]
    BY <1>1
<1> DEFINE r == p \o q
<1> HIDE DEF r
<1>3. ASSUME NEW i \in DOMAIN r
      PROVE  \/ i \in DOMAIN p /\ r[i] = p[i] /\ r[i] \in S \ T
             \/ i - Len(p) \in DOMAIN q /\ r[i] = q[i - Len(p)] /\ r[i] \in T
    <2>1. CASE i <= Len(p)
        <3>1. i \in DOMAIN p
            BY <2>1, <1>1, <1>2 DEF r
        <3> QED  BY <2>1, <3>1, <1>2 DEF r, Lists
    <2>2. CASE ~(i <= Len(p))
        <3>1. i - Len(p) \in DOMAIN q
            BY <2>2, <1>1, <1>2 DEF r
        <3> QED  BY <2>2, <3>1, <1>2 DEF r, Lists
    <2> QED  BY <2>1, <2>2
<1>4. ASSUME NEW s \in S PROVE \E k \in DOMAIN r : r[k] = s
    <2>1. CASE s \in T
        <3>1. PICK k \in DOMAIN q : q[k] = s
            BY <2>1 DEF Lists
        <3>2. k + Len(p) \in DOMAIN r /\ r[k + Len(p)] = q[k]
            BY <1>1, <1>2 DEF r
        <3> QED  BY <3>1, <3>2
    <2>2. CASE s \notin T
        <3>1. PICK k \in DOMAIN p : p[k] = s
            BY <2>2 DEF Lists
        <3>2. k \in DOMAIN r /\ r[k] = p[k]
            BY <1>1, <1>2 DEF r
        <3> QED  BY <3>1, <3>2
    <2> QED  BY <2>1, <2>2
<1>5. ASSUME NEW j \in DOMAIN r, NEW k \in DOMAIN r, r[j] = r[k]
      PROVE  j = k
    <2>1. j \in Nat /\ k \in Nat
        BY <1>1, <1>2 DEF r
    <2>2. CASE r[j] \in T
        <3>1. /\ j - Len(p) \in DOMAIN q /\ r[j] = q[j - Len(p)]
              /\ k - Len(p) \in DOMAIN q /\ r[k] = q[k - Len(p)]
            BY <2>2, <1>3, <1>5
        <3>2. j - Len(p) = k - Len(p)
            BY <3>1, <1>5 DEF Lists
        <3> QED  BY <3>2, <2>1, <1>1
    <2>3. CASE r[j] \notin T
        <3>1. /\ j \in DOMAIN p /\ r[j] = p[j]
              /\ k \in DOMAIN p /\ r[k] = p[k]
            BY <2>3, <1>3, <1>5
        <3> QED  BY <3>1, <1>5 DEF Lists
    <2> QED  BY <2>2, <2>3
<1>6. Len(r) \in Nat /\ DOMAIN r = 1 .. Len(r)
    BY <1>1, <1>2 DEF r
<1>7. \A k \in DOMAIN r : r[k] \in S
    BY <1>3
<1>8. Lists(r, S)
    BY <1>4, <1>5, <1>6, <1>7 DEF Lists
<1> QED  BY <1>8 DEF r

-----------------------------------------------------------------------------
(* The runs of a set of lines *)

(* A run of lines begins with its first and counts its length. *)
LEMMA RunFacts ==
    ASSUME NEW x \in Nat, NEW y \in Nat, x <= y
    PROVE  First(x .. y) = x /\ Cardinality(x .. y) = y - x + 1
<1>1. x .. y \in SUBSET Nat /\ x .. y # {} /\ x \in x .. y
    OBVIOUS
<1>2. First(x .. y) \in x .. y /\ First(x .. y) <= x
    BY <1>1, FirstIsLeast
<1>3. Cardinality(x .. y) = IF x > y THEN 0 ELSE y - x + 1
    BY FS_Interval
<1> QED  BY <1>2, <1>3

(* The run of a set from one line to another. *)
IsRun(b, S, x, y) ==
    /\ x \in Nat /\ y \in Nat /\ x <= y /\ b = x .. y /\ b \subseteq S
    /\ x - 1 \notin S /\ y + 1 \notin S
    /\ First(b) = x /\ x \in b /\ y \in b /\ Cardinality(b) = y - x + 1

LEMMA MaximalRun ==
    ASSUME NEW n \in Nat, NEW S \in SUBSET (1 .. n), NEW b \in MaximalRuns(S)
    PROVE  \E x, y \in S : IsRun(b, S, x, y)
<1>1. PICK x, y \in S : /\ x <= y /\ x .. y \subseteq S /\ b = x .. y
                        /\ x - 1 \notin S /\ y + 1 \notin S
    BY DEF MaximalRuns
<1>2. x \in Nat /\ y \in Nat
    OBVIOUS
<1>3. First(x .. y) = x /\ Cardinality(x .. y) = y - x + 1
    BY <1>1, <1>2, RunFacts
<1>4. x \in x .. y /\ y \in x .. y
    BY <1>1, <1>2
<1> QED  BY <1>1, <1>2, <1>3, <1>4 DEF IsRun

(* Each line of a set is in a maximal run of it. *)
LEMMA RunThrough ==
    ASSUME NEW n \in Nat, NEW S \in SUBSET (1 .. n), NEW u \in S
    PROVE  \E b \in MaximalRuns(S) : u \in b
<1> DEFINE Lows == {i \in S : i <= u /\ i .. u \subseteq S}
           Highs == {i \in S : u <= i /\ u .. i \subseteq S}
<1>1. \A i \in S : i \in Nat
    OBVIOUS
<1>2. u \in Lows /\ u \in Highs
    BY <1>1
<1>3. PICK x \in Lows : \A i \in Lows : x <= i
    <2>1. Lows \in SUBSET Nat /\ Lows # {}
        BY <1>1, <1>2
    <2> HIDE DEF Lows
    <2> QED  BY <2>1, FirstIsLeast
<1>4. PICK y \in Highs : \A i \in Highs : i <= y
    <2>1. Highs \in SUBSET (0 .. n) /\ Highs # {}
        <3>1. Highs \subseteq S /\ Highs # {}
            BY <1>2
        <3>2. \A i \in S : i \in 0 .. n
            OBVIOUS
        <3> HIDE DEF Highs
        <3> QED  BY <3>1, <3>2
    <2> HIDE DEF Highs
    <2> QED  BY <2>1, LastPlace
<1>5. /\ x \in S /\ y \in S /\ x \in Nat /\ y \in Nat /\ u \in Nat
      /\ x <= u /\ u <= y /\ x .. u \subseteq S /\ u .. y \subseteq S
    BY <1>1, <1>3, <1>4
<1>6. x - 1 \notin S
    <2> SUFFICES ASSUME x - 1 \in S PROVE FALSE
        OBVIOUS
    <2>1. \A i \in x - 1 .. u : i = x - 1 \/ i \in x .. u
        BY <1>5
    <2>2. x - 1 \in Lows
        BY <2>1, <1>5
    <2> HIDE DEF Lows
    <2> QED  BY <2>2, <1>3, <1>5
<1>7. y + 1 \notin S
    <2> SUFFICES ASSUME y + 1 \in S PROVE FALSE
        OBVIOUS
    <2>1. \A i \in u .. y + 1 : i = y + 1 \/ i \in u .. y
        BY <1>5
    <2>2. y + 1 \in Highs
        BY <2>1, <1>5
    <2> HIDE DEF Highs
    <2> QED  BY <2>2, <1>4, <1>5
<1>8. x .. y \subseteq S
    <2>1. \A i \in x .. y : i \in x .. u \/ i \in u .. y
        BY <1>5
    <2> QED  BY <2>1, <1>5
<1>9. x .. y \in MaximalRuns(S) /\ u \in x .. y
    <2>1. <<x, y>> \in S \X S /\ x <= y
        BY <1>5
    <2> QED  BY <2>1, <1>5, <1>6, <1>7, <1>8 DEF MaximalRuns
<1> QED  BY <1>9

(* Runs that share a line are the same. *)
LEMMA RunsAreApart ==
    ASSUME NEW n \in Nat, NEW S \in SUBSET (1 .. n),
           NEW b \in MaximalRuns(S), NEW c \in MaximalRuns(S), NEW u \in b \cap c
    PROVE  b = c
<1>1. PICK x, y \in S : IsRun(b, S, x, y)
    BY MaximalRun
<1>2. PICK v, w \in S : IsRun(c, S, v, w)
    BY MaximalRun
<1> USE DEF IsRun
<1>3. u \in x .. y /\ u \in v .. w
    BY <1>1, <1>2
<1>4. ~(x < v)
    <2> SUFFICES ASSUME x < v PROVE FALSE
        OBVIOUS
    <2>1. v - 1 \in x .. y
        BY <1>1, <1>2, <1>3
    <2> QED  BY <2>1, <1>1, <1>2
<1>5. ~(v < x)
    <2> SUFFICES ASSUME v < x PROVE FALSE
        OBVIOUS
    <2>1. x - 1 \in v .. w
        BY <1>1, <1>2, <1>3
    <2> QED  BY <2>1, <1>1, <1>2
<1>6. ~(y < w)
    <2> SUFFICES ASSUME y < w PROVE FALSE
        OBVIOUS
    <2>1. y + 1 \in v .. w
        BY <1>1, <1>2, <1>3
    <2> QED  BY <2>1, <1>1, <1>2
<1>7. ~(w < y)
    <2> SUFFICES ASSUME w < y PROVE FALSE
        OBVIOUS
    <2>1. w + 1 \in x .. y
        BY <1>1, <1>2, <1>3
    <2> QED  BY <2>1, <1>1, <1>2
<1> QED  BY <1>1, <1>2, <1>4, <1>5, <1>6, <1>7

(* A run begins with one of its lines; of two runs the one that begins     *)
(* first is all before the other.                                          *)
LEMMA RunBegins ==
    ASSUME NEW n \in Nat, NEW S \in SUBSET (1 .. n), NEW b \in MaximalRuns(S)
    PROVE  /\ First(b) \in Nat /\ First(b) \in b /\ b \subseteq S
           /\ \A u \in b : u \in Nat /\ First(b) <= u
<1>1. PICK x, y \in S : IsRun(b, S, x, y)
    BY MaximalRun
<1> QED  BY <1>1 DEF IsRun

LEMMA RunsAreOrdered ==
    ASSUME NEW n \in Nat, NEW S \in SUBSET (1 .. n),
           NEW b \in MaximalRuns(S), NEW c \in MaximalRuns(S)
    PROVE  /\ First(b) = First(c) => b = c
           /\ First(b) < First(c) => \A u \in b : u < First(c)
<1>1. PICK x, y \in S : IsRun(b, S, x, y)
    BY MaximalRun
<1>2. PICK v, w \in S : IsRun(c, S, v, w)
    BY MaximalRun
<1>3. First(b) = x /\ x \in b /\ First(c) = v /\ v \in c
    BY <1>1, <1>2 DEF IsRun
<1>4. ASSUME x = v PROVE b = c
    <2>1. x \in b \cap c
        BY <1>3, <1>4
    <2> QED  BY <2>1, RunsAreApart
<1>5. ASSUME x < v, NEW u \in b PROVE u < v
    <2> SUFFICES ASSUME ~(u < v) PROVE FALSE
        OBVIOUS
    <2>1. v \in b
        BY <1>1, <1>2, <1>5 DEF IsRun
    <2>2. v \in b \cap c
        BY <2>1, <1>3
    <2>3. b = c
        BY <2>2, RunsAreApart
    <2> QED  BY <2>3, <1>1, <1>2, <1>3, <1>5 DEF IsRun
<1> QED  BY <1>3, <1>4, <1>5

-----------------------------------------------------------------------------
(* Text files *)

(* The lines of a text file that are of some block. *)
BlockLines(lines) ==
    {i \in DOMAIN lines : i \in {1, Len(lines)} \/ lines[i] # "blank"}

BlocksBefore(lines, b) == {c \in Blocks(lines) : First(c) < First(b)}

(* Where the line counter stands when it comes to a block. *)
Counted(lines, b) ==
    1 + Cardinality(UNION BlocksBefore(lines, b))
      + Cardinality(BlocksBefore(lines, b))

(* It has counted from 1, and only the lines and blanks before the block. *)
LEMMA CounterCounts ==
    ASSUME NEW lines \in Seq(STRING), NEW b
    PROVE  Counted(lines, b) \in Nat \ {0}
<1> DEFINE n == Len(lines)
           S == BlockLines(lines)
           before == BlocksBefore(lines, b)
<1>1. n \in Nat /\ DOMAIN lines = 1 .. n
    BY LenProperties
<1>2. S \in SUBSET (1 .. n) /\ Blocks(lines) = MaximalRuns(S)
    BY <1>1 DEF BlockLines, Blocks
<1> HIDE DEF n, S
<1>3. \A e \in Blocks(lines) : e \in SUBSET (1 .. n)
    <2> SUFFICES ASSUME NEW e \in MaximalRuns(S) PROVE e \subseteq S
        BY <1>2
    <2> QED  BY <1>1, <1>2, RunBegins
<1>4. before \in SUBSET (SUBSET (1 .. n)) /\ UNION before \in SUBSET (1 .. n)
    BY <1>3 DEF BlocksBefore
<1>5. IsFiniteSet(1 .. n) /\ IsFiniteSet(SUBSET (1 .. n))
    <2>1. IsFiniteSet(1 .. n)
        BY <1>1, FS_Interval
    <2> QED  BY <2>1, FS_SUBSET
<1> HIDE DEF before
<1>6. Cardinality(before) \in Nat /\ Cardinality(UNION before) \in Nat
    BY <1>4, <1>5, FS_Subset, FS_CardinalityType
<1>7. Counted(lines, b) = 1 + Cardinality(UNION before) + Cardinality(before)
    BY DEF Counted, before
<1> QED  BY <1>6, <1>7

(* With one blank line after each block the counter is right. *)
LEMMA CounterIsRight ==
    ASSUME NEW lines \in Seq(STRING),
           \A i \in Positions(lines, {"blank"}) :
              i + 1 \notin Positions(lines, {"blank"}),
           NEW b \in Blocks(lines)
    PROVE  Counted(lines, b) = First(b)
<1> DEFINE n == Len(lines)
           S == BlockLines(lines)
           before == BlocksBefore(lines, b)
           lo == First(b)
           G == {g \in 1 .. lo - 1 : g \notin S}
           U == UNION before
<1>1. n \in Nat /\ DOMAIN lines = 1 .. n
    BY LenProperties
<1>2. S \in SUBSET (1 .. n) /\ Blocks(lines) = MaximalRuns(S)
    BY <1>1 DEF BlockLines, Blocks
<1>3. ASSUME NEW g \in 1 .. n, g \notin S
      PROVE  g - 1 \in S
    <2>1. g \in DOMAIN lines /\ g # 1 /\ g # n /\ lines[g] = "blank"
        BY <1>1, <1>3 DEF BlockLines
    <2>2. g \in Positions(lines, {"blank"})
        BY <2>1 DEF Positions
    <2>3. g - 1 \in DOMAIN lines /\ (g - 1) + 1 = g
        BY <2>1, <1>1
    <2>4. lines[g - 1] # "blank"
        BY <2>2, <2>3 DEF Positions
    <2> QED  BY <2>3, <2>4 DEF BlockLines
<1> HIDE DEF n, S
<1>a. b \in MaximalRuns(S)
    BY <1>2
<1>4. lo \in Nat /\ lo \in b /\ b \subseteq S /\ lo \in S /\ lo \in 1 .. n
    <2>1. lo \in Nat /\ lo \in b /\ b \subseteq S
        BY <1>a, <1>1, <1>2, RunBegins
    <2> HIDE DEF lo
    <2> QED  BY <2>1, <1>2
<1>5. \A c \in before : /\ c \in MaximalRuns(S) /\ First(c) < lo
                        /\ c \subseteq S /\ \A u \in c : u < lo
    <2> SUFFICES ASSUME NEW c \in before
                 PROVE  /\ c \in MaximalRuns(S) /\ First(c) < lo
                        /\ c \subseteq S /\ \A u \in c : u < lo
        OBVIOUS
    <2>1. c \in Blocks(lines) /\ First(c) < lo
        BY DEF BlocksBefore
    <2>2. c \in MaximalRuns(S)
        BY <2>1, <1>2
    <2>3. c \subseteq S
        BY <2>2, <1>1, <1>2, RunBegins
    <2>4. \A u \in c : u < lo
        BY <2>1, <2>2, <1>a, <1>1, <1>2, RunsAreOrdered
    <2> QED  BY <2>1, <2>2, <2>3, <2>4
(* The lines before the block are those of the blocks before it and blanks. *)
<1>6. \A i \in 1 .. lo - 1 : i \in S => i \in U
    <2> SUFFICES ASSUME NEW i \in 1 .. lo - 1, i \in S PROVE i \in U
        OBVIOUS
    <2>1. PICK c \in MaximalRuns(S) : i \in c
        BY <1>1, <1>2, RunThrough
    <2>2. First(c) \in Nat /\ First(c) <= i
        BY <2>1, <1>1, <1>2, RunBegins
    <2>3. First(c) < First(b)
        BY <2>2, <1>4
    <2>4. c \in before
        BY <2>1, <2>3, <1>2 DEF BlocksBefore
    <2> QED  BY <2>1, <2>4
<1>7. U \cup G = 1 .. lo - 1 /\ U \cap G = {}
    <2>1. \A u \in U : u \in S /\ u \in 1 .. lo - 1
        <3> SUFFICES ASSUME NEW c \in before, NEW u \in c
                     PROVE  u \in S /\ u \in 1 .. lo - 1
            OBVIOUS
        <3>1. u \in S /\ u < lo
            BY <1>5
        <3> QED  BY <3>1, <1>2, <1>4
    <2> HIDE DEF U
    <2> QED  BY <2>1, <1>6
<1>8. IsFiniteSet(U) /\ IsFiniteSet(G) /\ lo - 1 = Cardinality(U) + Cardinality(G)
      /\ Cardinality(U) \in Nat /\ Cardinality(G) \in Nat
    <2>1. IsFiniteSet(1 .. lo - 1) /\ Cardinality(1 .. lo - 1) = lo - 1
        <3>1. lo - 1 \in Int /\ lo >= 1
            BY <1>4
        <3> HIDE DEF lo
        <3> QED  BY <3>1, <1>4, FS_Interval
    <2>2. U \subseteq 1 .. lo - 1 /\ G \subseteq 1 .. lo - 1
        BY <1>7
    <2> HIDE DEF U, G
    <2>3. IsFiniteSet(U) /\ IsFiniteSet(G)
        BY <2>1, <2>2, FS_Subset
    <2>4. Cardinality(U) \in Nat /\ Cardinality(G) \in Nat
        BY <2>3, FS_CardinalityType
    <2>5. Cardinality(U \cup G) = Cardinality(U) + Cardinality(G) - Cardinality(U \cap G)
        BY <2>3, FS_Union
    <2>6. Cardinality(U \cap G) = 0
        BY <1>7, FS_EmptySet
    <2>7. Cardinality(U \cup G) = lo - 1
        BY <2>1, <1>7
    <2> HIDE DEF lo
    <2> QED  BY <2>3, <2>4, <2>5, <2>6, <2>7
(* Each blank among them ends one block. *)
<1> DEFINE f == [g \in G |-> CHOOSE c \in before : g - 1 \in c]
<1>9. \A g \in G : f[g] \in before /\ g - 1 \in f[g]
    <2> SUFFICES ASSUME NEW g \in G PROVE \E c \in before : g - 1 \in c
        OBVIOUS
    <2>1. g \in 1 .. n /\ g \notin S /\ g \in Nat
        BY <1>1, <1>4
    <2>2. g - 1 \in S
        BY <2>1, <1>3
    <2>3. g - 1 \in 1 .. lo - 1
        BY <2>1, <2>2, <1>2, <1>4
    <2>4. g - 1 \in U
        BY <2>2, <2>3, <1>6
    <2> QED  BY <2>4
<1>10. \A g, h \in G : f[g] = f[h] => ~(g < h)
    <2> SUFFICES ASSUME NEW g \in G, NEW h \in G, f[g] = f[h], g < h PROVE FALSE
        OBVIOUS
    <2>1. g \in Nat /\ h \in Nat /\ g \notin S
        BY <1>4
    <2>2. f[g] \in MaximalRuns(S) /\ g - 1 \in f[g] /\ h - 1 \in f[g]
        BY <1>5, <1>9
    <2> HIDE DEF f
    <2>3. PICK x, y \in S : IsRun(f[g], S, x, y)
        BY <2>2, <1>1, <1>2, MaximalRun
    <2>4. g \in x .. y
        BY <2>1, <2>2, <2>3 DEF IsRun
    <2> QED  BY <2>1, <2>3, <2>4 DEF IsRun
<1>11. \A c \in before : \E g \in G : f[g] = c
    <2> SUFFICES ASSUME NEW c \in before PROVE \E g \in G : f[g] = c
        OBVIOUS
    <2>1. c \in MaximalRuns(S) /\ \A u \in c : u < lo
        BY <1>5
    <2>a. PICK x, y \in S : IsRun(c, S, x, y)
        BY <2>1, <1>1, <1>2, MaximalRun
    <2>2. y \in Nat /\ y \in c /\ y + 1 \notin S
        BY <2>a DEF IsRun
    <2>3. y < lo /\ lo \in S
        BY <2>1, <2>2, <1>4
    <2>4. y + 1 \in G
        BY <2>2, <2>3, <1>4
    <2>5. f[y + 1] \in before /\ y \in f[y + 1]
        <3>1. (y + 1) - 1 = y
            BY <2>2
        <3> HIDE DEF f
        <3> QED  BY <2>4, <3>1, <1>9
    <2> HIDE DEF f
    <2>6. f[y + 1] = c
        <3>1. f[y + 1] \in MaximalRuns(S) /\ y \in f[y + 1] \cap c
            BY <2>2, <2>5, <1>5
        <3>2. ASSUME NEW e \in MaximalRuns(S), y \in e PROVE e = c
            <4>1. c \in MaximalRuns(S) /\ y \in e \cap c
                BY <2>1, <2>2, <3>2
            <4>2. n \in Nat /\ S \in SUBSET (1 .. n)
                BY <1>1, <1>2
            <4> QED  BY <4>1, <4>2, RunsAreApart
        <3> QED  BY <3>1, <3>2
    <2> QED  BY <2>4, <2>6
<1>12. Cardinality(before) = Cardinality(G)
    <2>1. \A g \in G : g \in Nat
        BY <1>4
    <2>2. \A g, h \in G : f[g] = f[h] => g = h
        <3> HIDE DEF f, G
        <3> QED  BY <2>1, <1>10
    <2>3. f \in [G -> before]
        BY <1>9
    <2> HIDE DEF f, G, before
    <2>4. f \in Injection(G, before)
        BY <2>2, <2>3 DEF Injection, IsInjective
    <2>5. f \in Surjection(G, before)
        BY <2>3, <1>11 DEF Surjection
    <2>6. f \in Bijection(G, before)
        BY <2>4, <2>5 DEF Bijection
    <2> QED  BY <2>6, <1>8, FS_Bijection DEF ExistsBijection
<1>13. Counted(lines, b) = 1 + Cardinality(U) + Cardinality(before)
    BY DEF Counted
<1> HIDE DEF U, G, before, f, lo
<1>14. Counted(lines, b) = lo
    BY <1>4, <1>8, <1>12, <1>13
<1> QED  BY <1>14 DEF lo

(* Nothing empty is kept. *)
LEMMA KeptHolds ==
    ASSUME NEW units, NEW holds, Kept(units, holds)
    PROVE  holds # {}
<1> SUFFICES ASSUME holds = {} PROVE FALSE
    OBVIOUS
<1>1. {i \in holds : units[i] = "mark"} = {}
    OBVIOUS
<1>2. Cardinality({i \in holds : units[i] = "mark"}) = 0
    BY <1>1, FS_EmptySet
<1> QED  BY <1>2 DEF Kept

(* A text file: each readable line is in its block, and with one blank     *)
(* line after each block the lines claimed are the block's.                *)
LEMMA TextIsFaithful ==
    ASSUME NEW lines \in Seq(STRING)
    PROVE  LET S == _txt_segments(lines) IN
           /\ Placed(S, Len(lines)) /\ Apart(S)
           /\ \A u \in Positions(lines, Readable) : Once(S, u)
           /\ (\A i \in Positions(lines, {"blank"}) :
                  i + 1 \notin Positions(lines, {"blank"})) =>
                 \A s \in S : s.holds \subseteq s.claims
<1> DEFINE n == Len(lines)
           L == BlockLines(lines)
           S == _txt_segments(lines)
           last(b) == Counted(lines, b) + Cardinality(b) - 1
           seg(b) == make_segment(b, Counted(lines, b) .. last(b))
<1>1. n \in Nat /\ DOMAIN lines = 1 .. n
    BY LenProperties
<1>2. L \in SUBSET (1 .. n) /\ Blocks(lines) = MaximalRuns(L)
    BY <1>1 DEF BlockLines, Blocks
<1>3. S = {seg(b) : b \in {c \in Blocks(lines) : Kept(lines, c)}}
    BY DEF _txt_segments, Counted, BlocksBefore
<1> HIDE DEF n, S, L
<1>4. ASSUME NEW b \in Blocks(lines)
      PROVE  /\ b \in SUBSET (1 .. n) /\ b # {}
             /\ seg(b).holds = b /\ seg(b).claims = Counted(lines, b) .. last(b)
             /\ seg(b).claims \in SUBSET Nat
    <2>1. b \in MaximalRuns(L)
        BY <1>2
    <2>2. PICK x, y \in L : IsRun(b, L, x, y)
        BY <2>1, <1>1, <1>2, MaximalRun
    <2>3. b \subseteq L /\ b # {}
        BY <2>2 DEF IsRun
    <2>4. Counted(lines, b) \in Nat \ {0}
        BY CounterCounts
    <2> HIDE DEF last
    <2>5. seg(b).holds = b /\ seg(b).claims = Counted(lines, b) .. last(b)
        BY DEF make_segment
    <2>6. \A i \in Counted(lines, b) .. last(b) : i \in Nat
        BY <2>4
    <2> HIDE DEF seg
    <2> QED  BY <1>2, <2>3, <2>5, <2>6
<1>5. \A s \in S : \E b \in Blocks(lines) : s = seg(b)
    BY <1>3
<1>6. \A b \in Blocks(lines) : Kept(lines, b) => seg(b) \in S
    BY <1>3
<1> HIDE DEF seg, last
<1>7. Placed(S, n)
    <2> SUFFICES ASSUME NEW s \in S
                 PROVE  /\ s.holds \in SUBSET (1 .. n) /\ s.holds # {}
                        /\ s.claims \in SUBSET Nat
        BY DEF Placed
    <2>1. PICK b \in Blocks(lines) : s = seg(b)
        BY <1>5
    <2> QED  BY <2>1, <1>4
<1>8. ASSUME NEW b \in Blocks(lines), NEW c \in Blocks(lines), NEW u \in b \cap c
      PROVE  b = c
    <2>1. b \in MaximalRuns(L) /\ c \in MaximalRuns(L)
        BY <1>2
    <2> QED  BY <2>1, <1>1, <1>2, RunsAreApart
<1>9. \A b \in Blocks(lines) : End(b) \in b
    <2> SUFFICES ASSUME NEW b \in Blocks(lines) PROVE End(b) \in b
        OBVIOUS
    <2>1. b \in SUBSET (0 .. n) /\ b # {}
        BY <1>4
    <2> QED  BY <2>1, <1>1, EndIsLast
<1>10. Apart(S)
    <2> SUFFICES ASSUME NEW s \in S, NEW t \in S, End(s.holds) = End(t.holds)
                 PROVE  s = t
        BY DEF Apart
    <2>1. PICK b \in Blocks(lines) : s = seg(b)
        BY <1>5
    <2>2. PICK c \in Blocks(lines) : t = seg(c)
        BY <1>5
    <2>3. End(b) \in b \cap c
        BY <2>1, <2>2, <1>4, <1>9
    <2> QED  BY <2>1, <2>2, <2>3, <1>8
<1>11. ASSUME NEW u \in Positions(lines, Readable) PROVE Once(S, u)
    <2>1. u \in DOMAIN lines /\ lines[u] \in Readable /\ lines[u] # "blank"
        BY DEF Positions, Readable
    <2>2. u \in L
        BY <2>1 DEF L, BlockLines
    <2>3. PICK b \in MaximalRuns(L) : u \in b
        BY <2>2, <1>1, <1>2, RunThrough
    <2>4. b \in Blocks(lines) /\ Kept(lines, b)
        BY <2>1, <2>3, <1>2 DEF Kept
    <2>5. seg(b) \in S /\ u \in seg(b).holds
        BY <2>3, <2>4, <1>4, <1>6
    <2>6. ASSUME NEW t \in S, u \in t.holds PROVE t = seg(b)
        <3>1. PICK c \in Blocks(lines) : t = seg(c)
            BY <1>5
        <3>2. u \in b \cap c
            BY <2>3, <2>6, <3>1, <1>4
        <3>3. b = c
            BY <2>4, <3>2, <1>8
        <3> QED  BY <3>1, <3>3
    <2> QED  BY <2>5, <2>6 DEF Once
<1>12. ASSUME \A i \in Positions(lines, {"blank"}) :
                 i + 1 \notin Positions(lines, {"blank"}),
              NEW s \in S
       PROVE  s.holds \subseteq s.claims
    <2>1. PICK b \in Blocks(lines) : s = seg(b)
        BY <1>5
    <2>2. b \in MaximalRuns(L)
        BY <1>2
    <2>3. PICK x, y \in L : IsRun(b, L, x, y)
        BY <2>2, <1>1, <1>2, MaximalRun
    <2>4. Counted(lines, b) = x
        BY <2>3, <1>12, CounterIsRight DEF IsRun
    <2>5. last(b) = y
        BY <2>3, <2>4 DEF last, IsRun
    <2> QED  BY <2>1, <2>3, <2>4, <2>5, <1>4 DEF IsRun
<1> QED  BY <1>7, <1>10, <1>11, <1>12 DEF S, n

-----------------------------------------------------------------------------
(* Passages that are parts of a document *)

(* Each place is in one group, and only in that one. *)
LEMMA GroupsDivide ==
    ASSUME NEW D, NEW key
    PROVE  /\ \A c \in Groups(D, key) : c \subseteq D /\ c # {}
           /\ \A u \in D : \E c \in Groups(D, key) : u \in c
           /\ \A b, c \in Groups(D, key) : b \cap c # {} => b = c
<1>1. ASSUME NEW b \in Groups(D, key), NEW c \in Groups(D, key), b \cap c # {}
      PROVE  b = c
    <2>1. PICK i \in D : b = {j \in D : key[j] = key[i]}
        BY DEF Groups
    <2>2. PICK k \in D : c = {j \in D : key[j] = key[k]}
        BY DEF Groups
    <2>3. PICK u \in D : key[u] = key[i] /\ key[u] = key[k]
        BY <2>1, <2>2, <1>1
    <2> QED  BY <2>1, <2>2, <2>3
<1>2. ASSUME NEW c \in Groups(D, key)
      PROVE  c \subseteq D /\ c # {}
    <2>1. PICK i \in D : c = {j \in D : key[j] = key[i]}
        BY DEF Groups
    <2>2. i \in c
        BY <2>1
    <2> QED  BY <2>1, <2>2
<1>3. ASSUME NEW u \in D
      PROVE  \E c \in Groups(D, key) : u \in c
    <2>1. /\ {j \in D : key[j] = key[u]} \in Groups(D, key)
          /\ u \in {j \in D : key[j] = key[u]}
        BY DEF Groups
    <2> QED  BY <2>1
<1> QED  BY <1>1, <1>2, <1>3

(* What is kept of the groups of some places, each named by some places. *)
Parts(units, D, key, named) ==
    {make_segment(c, named[c]) : c \in {e \in Groups(D, key) : Kept(units, e)}}

AreNamed(D, key, named) ==
    \A c \in Groups(D, key) : named[c] \in SUBSET Nat

HaveTheirNames(D, key, named) ==
    \A c \in Groups(D, key) : c \subseteq named[c]

LEMMA PartsAreFaithful ==
    ASSUME NEW n \in Nat, NEW units, NEW D \in SUBSET (1 .. n), NEW key,
           NEW named, AreNamed(D, key, named)
    PROVE  LET S == Parts(units, D, key, named) IN
           /\ Placed(S, n) /\ Apart(S)
           /\ \A u \in D : units[u] \in Readable => Once(S, u)
           /\ HaveTheirNames(D, key, named) =>
                 \A s \in S : s.holds \subseteq s.claims
<1> DEFINE S == Parts(units, D, key, named)
<1> DEFINE P == Groups(D, key)
<1>1. /\ \A c \in P : c \subseteq D /\ c # {}
      /\ \A u \in D : \E c \in P : u \in c
      /\ \A b, c \in P : b \cap c # {} => b = c
    BY GroupsDivide
<1>2. \A c \in P : named[c] \in SUBSET Nat
    BY DEF AreNamed
<1>3. S = {make_segment(c, named[c]) : c \in {e \in P : Kept(units, e)}}
    BY DEF Parts
<1> HIDE DEF P, S
<1>4. \A c \in P : End(c) \in c
    <2> SUFFICES ASSUME NEW c \in P PROVE End(c) \in c
        OBVIOUS
    <2>1. \A i \in 1 .. n : i \in 0 .. n
        OBVIOUS
    <2>2. c \in SUBSET (0 .. n) /\ c # {}
        BY <2>1, <1>1
    <2> QED  BY <2>2, EndIsLast
<1>5. \A s \in S : \E c \in P : /\ s = make_segment(c, named[c])
                                /\ s.holds = c /\ s.claims = named[c]
    BY <1>3 DEF make_segment
<1>6. ASSUME NEW u \in D, units[u] \in Readable PROVE Once(S, u)
    <2>1. PICK c \in P : u \in c
        BY <1>1
    <2>2. Kept(units, c)
        BY <2>1, <1>6 DEF Kept
    <2>3. make_segment(c, named[c]) \in S /\ make_segment(c, named[c]).holds = c
        BY <2>1, <2>2, <1>3 DEF make_segment
    <2>4. ASSUME NEW t \in S, u \in t.holds PROVE t = make_segment(c, named[c])
        BY <2>1, <2>4, <1>1, <1>5
    <2> QED  BY <2>1, <2>3, <2>4 DEF Once
<1>7. Apart(S)
    <2> SUFFICES ASSUME NEW s \in S, NEW t \in S, End(s.holds) = End(t.holds)
                 PROVE  s = t
        BY DEF Apart
    <2>1. PICK b \in P : s = make_segment(b, named[b]) /\ s.holds = b
        BY <1>5
    <2>2. PICK c \in P : t = make_segment(c, named[c]) /\ t.holds = c
        BY <1>5
    <2>3. End(b) \in b \cap c
        BY <2>1, <2>2, <1>4
    <2> QED  BY <2>1, <2>2, <2>3, <1>1
<1>8. Placed(S, n)
    <2> SUFFICES ASSUME NEW s \in S
                 PROVE  /\ s.holds \in SUBSET (1 .. n) /\ s.holds # {}
                        /\ s.claims \in SUBSET Nat
        BY DEF Placed
    <2>1. PICK c \in P : s.holds = c /\ s.claims = named[c]
        BY <1>5
    <2>2. c \subseteq D /\ c # {} /\ named[c] \in SUBSET Nat
        BY <1>1, <1>2
    <2> QED  BY <2>1, <2>2
<1>9. ASSUME HaveTheirNames(D, key, named), NEW s \in S
      PROVE  s.holds \subseteq s.claims
    BY <1>5, <1>9 DEF HaveTheirNames, P
<1> QED  BY <1>6, <1>7, <1>8, <1>9 DEF S

(* Places of their own are the groups of themselves. *)
LEMMA EachIsAGroup ==
    ASSUME NEW D
    PROVE  Groups(D, [j \in D |-> j]) = {{i} : i \in D}
BY DEF Groups

-----------------------------------------------------------------------------
(* Markdown and office files, PDF *)

LEMMA SectionsAreFaithful ==
    ASSUME NEW lines \in Seq(STRING)
    PROVE  LET S == _md_segments(lines) IN
           /\ Placed(S, Len(lines)) /\ Apart(S)
           /\ \A u \in Positions(lines, Readable) : Once(S, u)
           /\ \A s \in S : s.holds \subseteq s.claims
<1> DEFINE D == DOMAIN lines
           n == Len(lines)
           key == Part(lines, {"head"})
           P == Groups(D, key)
           named == [c \in P |-> c]
           S == _md_segments(lines)
<1>1. n \in Nat /\ D = 1 .. n
    BY LenProperties
<1>2. \A c \in P : named[c] = c
    OBVIOUS
<1>3. S = Parts(lines, D, key, named)
    BY DEF _md_segments, Parts
<1>4. D \in SUBSET (1 .. n) /\ \A i \in D : i \in Nat
    BY <1>1
<1>5. \A u \in Positions(lines, Readable) : u \in D /\ lines[u] \in Readable
    BY DEF Positions
<1> HIDE DEF D, key, named, S, n
<1>6. \A c \in P : c \subseteq D
    BY GroupsDivide
<1>7. AreNamed(D, key, named) /\ HaveTheirNames(D, key, named)
    BY <1>6, <1>2, <1>4 DEF AreNamed, HaveTheirNames
<1>8. /\ Placed(S, n) /\ Apart(S)
      /\ \A u \in D : lines[u] \in Readable => Once(S, u)
      /\ \A s \in S : s.holds \subseteq s.claims
    BY <1>1, <1>3, <1>4, <1>7, PartsAreFaithful
<1> QED  BY <1>5, <1>8 DEF S, n

LEMMA ParagraphsAreFaithful ==
    ASSUME NEW units \in Seq(STRING)
    PROVE  LET S == _docx_segments(units) IN
           /\ Placed(S, Len(units)) /\ Apart(S)
           /\ \A u \in Positions(units, Readable) : Once(S, u)
           /\ \A s \in S : s.holds \subseteq s.claims
<1> DEFINE D == DOMAIN units
           n == Len(units)
           key == [j \in D |-> j]
           P == Groups(D, key)
           named == [c \in P |-> c]
           S == _docx_segments(units)
<1>1. n \in Nat /\ D = 1 .. n
    BY LenProperties
<1>2. P = {{i} : i \in D}
    BY EachIsAGroup
<1>3. \A c \in P : named[c] = c
    OBVIOUS
<1>4. S = {make_segment({i}, {i}) : i \in {j \in D : Kept(units, {j})}}
    BY DEF _docx_segments
<1>5. D \in SUBSET (1 .. n) /\ \A i \in D : i \in Nat
    BY <1>1
<1>6. \A u \in Positions(units, Readable) : u \in D /\ units[u] \in Readable
    BY DEF Positions
<1> HIDE DEF D, key, named, S, n, P
<1>7. AreNamed(D, key, named) /\ HaveTheirNames(D, key, named)
    <2>1. \A c \in P : named[c] \in SUBSET Nat /\ c \subseteq named[c]
        BY <1>2, <1>3, <1>5
    <2> QED  BY <2>1 DEF AreNamed, HaveTheirNames, P
<1>8. S = Parts(units, D, key, named)
    <2>1. ASSUME NEW i \in D, Kept(units, {i})
          PROVE  /\ {i} \in {e \in P : Kept(units, e)}
                 /\ make_segment({i}, {i}) = make_segment({i}, named[{i}])
        BY <1>2, <1>3, <2>1
    <2>2. ASSUME NEW c \in {e \in P : Kept(units, e)}
          PROVE  make_segment(c, named[c]) \in S
        <3>1. PICK i \in D : c = {i} /\ Kept(units, {i})
            BY <1>2
        <3> QED  BY <3>1, <1>3, <1>4
    <2> QED  BY <1>4, <2>1, <2>2 DEF Parts, P
<1>9. /\ Placed(S, n) /\ Apart(S)
      /\ \A u \in D : units[u] \in Readable => Once(S, u)
      /\ \A s \in S : s.holds \subseteq s.claims
    BY <1>1, <1>5, <1>7, <1>8, PartsAreFaithful
<1> QED  BY <1>6, <1>9 DEF S, n

(* A page of a PDF that could be read: each block of it names the page. *)
LEMMA PagesAreFaithful ==
    ASSUME NEW units \in Seq(STRING)
    PROVE  LET S == PdfParser(units) IN
           /\ Placed(S, Len(units)) /\ Apart(S)
           /\ \A u \in Positions(units, Readable) \ Lost(units) : Once(S, u)
           /\ \A s \in S : s.holds \subseteq s.claims
<1> DEFINE n == Len(units)
           D == DOMAIN units \ Lost(units)
           page == Part(units, {"page", "lost page"})
           whole(i) == {j \in DOMAIN units : page[j] = page[i]}
           key == [j \in D |-> j]
           P == Groups(D, key)
           named == [c \in P |-> UNION {whole(i) : i \in c}]
           S == PdfParser(units)
<1>1. n \in Nat /\ DOMAIN units = 1 .. n
    BY LenProperties
<1>2. P = {{i} : i \in D}
    BY EachIsAGroup
<1>3. S = {make_segment({i}, whole(i)) : i \in {j \in D : Kept(units, {j})}}
    BY DEF PdfParser
<1>4. \A i \in D : i \in whole(i) /\ whole(i) \in SUBSET Nat
    <2> SUFFICES ASSUME NEW i \in D PROVE i \in whole(i) /\ whole(i) \in SUBSET Nat
        OBVIOUS
    <2> HIDE DEF page
    <2>1. i \in DOMAIN units
        OBVIOUS
    <2> QED  BY <1>1, <2>1
<1>5. D \in SUBSET (1 .. n)
    BY <1>1
<1>6. \A u \in Positions(units, Readable) \ Lost(units) :
         u \in D /\ units[u] \in Readable
    BY DEF Positions
<1> HIDE DEF D, key, S, n, P, whole
<1>7. \A i \in D : named[{i}] = whole(i)
    BY <1>2
<1> HIDE DEF named
<1>8. AreNamed(D, key, named) /\ HaveTheirNames(D, key, named)
    <2> SUFFICES ASSUME NEW i \in D
                 PROVE  named[{i}] \in SUBSET Nat /\ {i} \subseteq named[{i}]
        BY <1>2 DEF AreNamed, HaveTheirNames, P
    <2> QED  BY <1>4, <1>7
<1>9. S = Parts(units, D, key, named)
    <2>1. ASSUME NEW i \in D, Kept(units, {i})
          PROVE  /\ {i} \in {e \in P : Kept(units, e)}
                 /\ make_segment({i}, whole(i)) = make_segment({i}, named[{i}])
        BY <1>2, <1>7, <2>1
    <2>2. ASSUME NEW c \in {e \in P : Kept(units, e)}
          PROVE  make_segment(c, named[c]) \in S
        <3>1. PICK i \in D : c = {i} /\ Kept(units, {i})
            BY <1>2
        <3> QED  BY <3>1, <1>3, <1>7
    <2> QED  BY <1>3, <2>1, <2>2 DEF Parts, P
<1>10. /\ Placed(S, n) /\ Apart(S)
       /\ \A u \in D : units[u] \in Readable => Once(S, u)
       /\ \A s \in S : s.holds \subseteq s.claims
    BY <1>1, <1>5, <1>8, <1>9, PartsAreFaithful
<1> QED  BY <1>6, <1>10 DEF S, n

(* The text of a slide and its notes, each located by the slide. *)
LEMMA SlidesAreFaithful ==
    ASSUME NEW units \in Seq(STRING)
    PROVE  LET S == _pptx_segments(units) IN
           /\ Placed(S, Len(units)) /\ Apart(S)
           /\ \A u \in Positions(units, Readable) : Once(S, u)
           /\ \A s \in S : s.holds \subseteq s.claims
<1> DEFINE n == Len(units)
           slide == Part(units, {"slide"})
           notes == Positions(units, {"note"})
           place == [i \in DOMAIN units |->
                        <<slide[i], IF i \in notes THEN "notes" ELSE "slide">>]
           D == Positions(units, Readable \cup {"mark"})
           whole(c) == {j \in DOMAIN units : \E i \in c : place[j] = place[i]}
           P == Groups(D, place)
           named == [c \in P |-> whole(c)]
           S == _pptx_segments(units)
<1>1. n \in Nat /\ DOMAIN units = 1 .. n
    BY LenProperties
<1>2. S = {make_segment(c, whole(c)) : c \in {e \in P : Kept(units, e)}}
    BY DEF _pptx_segments
<1>3. D \in SUBSET (1 .. n) /\ D \subseteq DOMAIN units
    BY <1>1 DEF Positions
<1>4. \A u \in Positions(units, Readable) : u \in D /\ units[u] \in Readable
    BY DEF Positions
<1> HIDE DEF place, D, n, S
<1>5. \A c \in P : c \subseteq D
    BY GroupsDivide
<1>6. \A c \in P : whole(c) \in SUBSET Nat /\ c \subseteq whole(c)
    <2> SUFFICES ASSUME NEW c \in P PROVE whole(c) \in SUBSET Nat /\ c \subseteq whole(c)
        OBVIOUS
    <2>1. c \subseteq DOMAIN units
        BY <1>3, <1>5
    <2>2. \A i \in DOMAIN units : i \in Nat
        BY <1>1
    <2> HIDE DEF P
    <2> QED  BY <2>1, <2>2
<1> HIDE DEF whole
<1>7. \A c \in P : named[c] = whole(c)
    OBVIOUS
<1>8. S = Parts(units, D, place, named)
    BY <1>2, <1>7 DEF Parts
<1> HIDE DEF named
<1>9. AreNamed(D, place, named) /\ HaveTheirNames(D, place, named)
    BY <1>6, <1>7 DEF AreNamed, HaveTheirNames
<1>10. /\ Placed(S, n) /\ Apart(S)
       /\ \A u \in D : units[u] \in Readable => Once(S, u)
       /\ \A s \in S : s.holds \subseteq s.claims
    BY <1>1, <1>3, <1>8, <1>9, PartsAreFaithful
<1> QED  BY <1>4, <1>10 DEF S, n

(* A workbook: each row is in one passage, and without blank rows the rows *)
(* counted are those of the sheet.                                         *)
LEMMA SheetsAreFaithful ==
    ASSUME NEW units \in Seq(STRING)
    PROVE  LET S == _xlsx_segments(units) IN
           /\ Placed(S, Len(units)) /\ Apart(S)
           /\ \A u \in Positions(units, Readable) : Once(S, u)
           /\ Positions(units, {"blank"}) = {} => \A s \in S : s.holds \subseteq s.claims
<1> DEFINE n == Len(units)
           sheet == Part(units, {"sheet"})
           rows == DOMAIN units \ Positions(units, {"sheet"})
           filled == rows \ Positions(units, {"blank"})
           number(s, i) == Upto({j \in s : sheet[j] = sheet[i]}, i)
           key == [i \in filled |->
                    <<sheet[i], (number(filled, i) - 1) \div RowsPerSegment>>]
           range(c) == {j \in rows : \E i \in c : sheet[j] = sheet[i]
                                        /\ number(rows, j) = number(filled, i)}
           P == Groups(filled, key)
           named == [c \in P |-> range(c)]
           S == _xlsx_segments(units)
<1>1. n \in Nat /\ DOMAIN units = 1 .. n
    BY LenProperties
<1>2. S = {make_segment(c, range(c)) : c \in {e \in P : Kept(units, e)}}
    BY DEF _xlsx_segments
<1>3. filled \in SUBSET (1 .. n) /\ rows \in SUBSET Nat /\ filled \subseteq rows
    BY <1>1
<1>4. \A u \in Positions(units, Readable) : u \in filled /\ units[u] \in Readable
    BY DEF Positions, Readable
<1>5. Positions(units, {"blank"}) = {} => filled = rows
    OBVIOUS
<1> HIDE DEF filled, rows, key, n, S, sheet, number
<1>6. \A c \in P : c \subseteq filled
    BY GroupsDivide
<1>7. \A c \in P : range(c) \in SUBSET Nat
    BY <1>3
<1>8. ASSUME filled = rows, NEW c \in P PROVE c \subseteq range(c)
    BY <1>6, <1>8
<1> HIDE DEF range
<1>9. \A c \in P : named[c] = range(c)
    OBVIOUS
<1>10. S = Parts(units, filled, key, named)
    BY <1>2, <1>9 DEF Parts
<1> HIDE DEF named
<1>11. AreNamed(filled, key, named)
    BY <1>7, <1>9 DEF AreNamed
<1>12. /\ Placed(S, n) /\ Apart(S)
       /\ \A u \in filled : units[u] \in Readable => Once(S, u)
       /\ HaveTheirNames(filled, key, named) =>
             \A s \in S : s.holds \subseteq s.claims
    BY <1>1, <1>3, <1>11, <1>10, PartsAreFaithful
<1>13. ASSUME Positions(units, {"blank"}) = {}
       PROVE  HaveTheirNames(filled, key, named)
    BY <1>5, <1>8, <1>9, <1>13 DEF HaveTheirNames
<1> QED  BY <1>4, <1>12, <1>13 DEF S, n

-----------------------------------------------------------------------------
(* A CSV file: the header is in every passage, each other row in one. *)
LEMMA RowsAreFaithful ==
    ASSUME NEW rows \in Seq(STRING)
    PROVE  LET S == _csv_segments(rows) IN
           /\ Placed(S, Len(rows) + 1) /\ Apart(S)
           /\ \A u \in Positions(rows, Readable) :
                 /\ \E s \in S : u \in s.holds
                 /\ u # 1 => Once(S, u)
           /\ \A s \in S : s.holds \ {1} \subseteq s.claims
<1> DEFINE n == Len(rows)
           D == 2 .. n
           key == [j \in D |-> (j - 2) \div RowsPerSegment]
           P == IF n = 1 THEN {{1}} ELSE Groups(D, key)
           S == _csv_segments(rows)
<1>1. n \in Nat /\ DOMAIN rows = 1 .. n
    BY LenProperties
<1>2. S = {make_segment(c \cup {1}, c) : c \in {e \in P : Kept(rows, e \cup {1})}}
    BY DEF _csv_segments
<1>3. /\ \A c \in P : c \subseteq 1 .. n /\ c # {} /\ (n # 1 => 1 \notin c)
      /\ \A u \in 1 .. n : u # 1 \/ n = 1 => \E c \in P : u \in c
      /\ \A b, c \in P : b \cap c # {} => b = c
    <2>1. CASE n = 1
        BY <2>1
    <2>2. CASE n # 1
        <3> HIDE DEF D, key
        <3>1. /\ \A c \in P : c \subseteq D /\ c # {}
              /\ \A u \in D : \E c \in P : u \in c
              /\ \A b, c \in P : b \cap c # {} => b = c
            BY <2>2, GroupsDivide
        <3>2. /\ D \subseteq 1 .. n /\ 1 \notin D
              /\ \A u \in 1 .. n : u # 1 => u \in D
            BY <1>1 DEF D
        <3> HIDE DEF P
        <3> QED  BY <2>2, <3>1, <3>2
    <2> QED  BY <2>1, <2>2
<1>4. n = 1 => \A b, c \in P : b = c
    OBVIOUS
<1> HIDE DEF P, S, D
<1>5. \A s \in S : \E c \in P : /\ s = make_segment(c \cup {1}, c)
                                /\ s.holds = c \cup {1} /\ s.claims = c
    <2> SUFFICES ASSUME NEW s \in S
                 PROVE  \E c \in P : /\ s = make_segment(c \cup {1}, c)
                                    /\ s.holds = c \cup {1} /\ s.claims = c
        OBVIOUS
    <2>1. PICK c \in P : s = make_segment(c \cup {1}, c)
        BY <1>2
    <2>2. s.holds = c \cup {1} /\ s.claims = c
        BY <2>1 DEF make_segment
    <2> QED  BY <2>1, <2>2
<1>6. ASSUME NEW c \in P, NEW u \in c \cup {1}, rows[u] \in Readable
      PROVE  /\ make_segment(c \cup {1}, c) \in S
             /\ u \in make_segment(c \cup {1}, c).holds
    BY <1>2, <1>6 DEF Kept, make_segment
<1>7. ASSUME NEW u \in Positions(rows, Readable)
      PROVE  \E s \in S : u \in s.holds
    <2>1. u \in 1 .. n /\ rows[u] \in Readable
        BY <1>1 DEF Positions
    <2>2. \E c \in P : u \in c \cup {1}
        <3>1. CASE u # 1 \/ n = 1
            BY <2>1, <3>1, <1>3
        <3>2. CASE u = 1 /\ n # 1
            <4>1. 2 \in 1 .. n
                BY <2>1, <3>2, <1>1
            <4> QED  BY <3>2, <4>1, <1>3
        <3> QED  BY <3>1, <3>2
    <2> QED  BY <2>1, <2>2, <1>6
<1>8. ASSUME NEW u \in Positions(rows, Readable), u # 1 PROVE Once(S, u)
    <2>1. u \in 1 .. n /\ rows[u] \in Readable
        BY <1>1 DEF Positions
    <2>2. PICK c \in P : u \in c
        BY <2>1, <1>3, <1>8
    <2>3. /\ make_segment(c \cup {1}, c) \in S
          /\ u \in make_segment(c \cup {1}, c).holds
        BY <2>1, <2>2, <1>6
    <2>4. ASSUME NEW t \in S, u \in t.holds PROVE t = make_segment(c \cup {1}, c)
        <3>1. PICK b \in P : t = make_segment(b \cup {1}, b) /\ t.holds = b \cup {1}
            BY <1>5
        <3>2. b = c
            BY <2>2, <2>4, <3>1, <1>3, <1>8
        <3> QED  BY <3>1, <3>2
    <2> QED  BY <2>3, <2>4 DEF Once
<1>9. ASSUME NEW c \in P
      PROVE  /\ c \cup {1} \in SUBSET (1 .. n + 1)
             /\ n # 1 => End(c \cup {1}) \in c
    <2>1. c \subseteq 1 .. n /\ c # {} /\ (n # 1 => 1 \notin c)
        BY <1>3
    <2>2. c \cup {1} \in SUBSET (0 .. n + 1) /\ c \cup {1} \in SUBSET (1 .. n + 1)
        BY <2>1, <1>1
    <2>3. /\ End(c \cup {1}) \in c \cup {1}
          /\ \A i \in c \cup {1} : i <= End(c \cup {1})
        <3>1. n + 1 \in Nat
            BY <1>1
        <3> HIDE DEF n
        <3> QED  BY <2>2, <3>1, EndIsLast
    <2>4. ASSUME n # 1 PROVE End(c \cup {1}) # 1
        <3>1. PICK i \in c : TRUE
            BY <2>1
        <3>2. i \in 1 .. n /\ i # 1
            BY <2>1, <2>4, <3>1
        <3>3. i <= End(c \cup {1})
            BY <2>3
        <3> QED  BY <3>2, <3>3
    <2> QED  BY <2>2, <2>3, <2>4
<1>10. Apart(S)
    <2> SUFFICES ASSUME NEW s \in S, NEW t \in S, End(s.holds) = End(t.holds)
                 PROVE  s = t
        BY DEF Apart
    <2>1. PICK b \in P : s = make_segment(b \cup {1}, b) /\ s.holds = b \cup {1}
        BY <1>5
    <2>2. PICK c \in P : t = make_segment(c \cup {1}, c) /\ t.holds = c \cup {1}
        BY <1>5
    <2>3. b = c
        <3>1. CASE n = 1
            BY <3>1, <1>4
        <3>2. CASE n # 1
            <4>1. End(b \cup {1}) \in b \cap c
                BY <2>1, <2>2, <3>2, <1>9
            <4> QED  BY <4>1, <1>3
        <3> QED  BY <3>1, <3>2
    <2> QED  BY <2>1, <2>2, <2>3
<1>11. Placed(S, n + 1)
    <2> SUFFICES ASSUME NEW s \in S
                 PROVE  /\ s.holds \in SUBSET (1 .. n + 1) /\ s.holds # {}
                        /\ s.claims \in SUBSET Nat
        BY DEF Placed
    <2>1. PICK c \in P : s.holds = c \cup {1} /\ s.claims = c
        BY <1>5
    <2>2. c \subseteq 1 .. n /\ c \cup {1} \in SUBSET (1 .. n + 1)
        BY <1>3, <1>9
    <2> QED  BY <2>1, <2>2
<1>12. \A s \in S : s.holds \ {1} \subseteq s.claims
    BY <1>5
<1> QED  BY <1>7, <1>8, <1>10, <1>11, <1>12 DEF S, n

-----------------------------------------------------------------------------
(* A page of markup *)

(* The depth after a tag, by the depth before it. *)
DepthAfter(tag, before) ==
    IF tag = "open" THEN before + 1
    ELSE IF tag = "close" /\ before > 0 THEN before - 1 ELSE before

IsDepth(g, tags, k) ==
    g = [i \in 0 .. k |-> IF i = 0 THEN 0 ELSE DepthAfter(tags[i], g[i - 1])]

(* The depth is defined at every tag. *)
LEMMA DepthIsDefined ==
    ASSUME NEW tags \in Seq(STRING)
    PROVE  IsDepth(depth(tags), tags, Len(tags))
<1> DEFINE n == Len(tags)
           Bad == {k \in 0 .. n : ~\E g : IsDepth(g, tags, k)}
<1>1. n \in Nat
    BY LenProperties
<1> HIDE DEF n
<1>2. Bad = {}
    <2> SUFFICES ASSUME Bad # {} PROVE FALSE
        OBVIOUS
    <2>1. PICK k \in Bad : \A j \in Bad : k <= j
        <3>1. Bad \in SUBSET Nat
            BY <1>1
        <3> HIDE DEF Bad
        <3> QED  BY <3>1, FirstIsLeast
    <2>2. k \in 0 .. n /\ ~\E g : IsDepth(g, tags, k)
        OBVIOUS
    <2>3. k # 0
        <3>1. IsDepth([i \in 0 .. 0 |-> 0], tags, 0)
            BY DEF IsDepth
        <3> QED  BY <2>2, <3>1
    <2>4. k - 1 \in 0 .. n /\ k - 1 \notin Bad
        <3>1. k - 1 \in 0 .. n /\ ~(k <= k - 1)
            BY <1>1, <2>2, <2>3
        <3> HIDE DEF Bad
        <3> QED  BY <2>1, <3>1
    <2>5. PICK g : IsDepth(g, tags, k - 1)
        BY <2>4
    <2> DEFINE h == [i \in 0 .. k |->
                        IF i = k THEN DepthAfter(tags[k], g[k - 1]) ELSE g[i]]
    <2>6. IsDepth(h, tags, k)
        <3>1. \A i \in 0 .. k :
                 h[i] = IF i = 0 THEN 0 ELSE DepthAfter(tags[i], h[i - 1])
            <4> SUFFICES ASSUME NEW i \in 0 .. k
                         PROVE  h[i] = IF i = 0 THEN 0
                                       ELSE DepthAfter(tags[i], h[i - 1])
                OBVIOUS
            <4>1. CASE i = k
                <5>1. h[k - 1] = g[k - 1] /\ h[k] = DepthAfter(tags[k], g[k - 1])
                    BY <1>1, <2>2, <2>3
                <5> HIDE DEF h
                <5> QED  BY <4>1, <5>1, <2>3
            <4>2. CASE i # k
                <5>1. i \in 0 .. k - 1 /\ h[i] = g[i]
                    BY <4>2, <1>1, <2>2
                <5>2. g[i] = IF i = 0 THEN 0 ELSE DepthAfter(tags[i], g[i - 1])
                    BY <5>1, <2>5 DEF IsDepth
                <5>3. i # 0 => h[i - 1] = g[i - 1]
                    BY <5>1, <1>1, <2>2
                <5> HIDE DEF h
                <5> QED  BY <5>1, <5>2, <5>3
            <4> QED  BY <4>1, <4>2
        <3>2. h = [i \in 0 .. k |-> h[i]]
            OBVIOUS
        <3> HIDE DEF h
        <3>3. h = [i \in 0 .. k |-> IF i = 0 THEN 0 ELSE DepthAfter(tags[i], h[i - 1])]
            BY <3>1, <3>2
        <3> QED  BY <3>3 DEF IsDepth
    <2> HIDE DEF h
    <2> QED  BY <2>2, <2>6
<1>3. \E g : IsDepth(g, tags, n)
    <2>1. n \in 0 .. n
        BY <1>1
    <2> QED  BY <1>2, <2>1
<1>4. depth(tags) = CHOOSE g : IsDepth(g, tags, n)
    BY DEF depth, IsDepth, DepthAfter, n
<1> QED  BY <1>3, <1>4 DEF n

(* How many tags of a kind there are from one place to another. *)
Count(tags, kind, j, i) == Cardinality({k \in j .. i : tags[k] = kind})

LEMMA CountsOneMore ==
    ASSUME NEW tags, NEW kind, NEW j \in Nat, NEW i \in Nat, j <= i
    PROVE  /\ Count(tags, kind, j, i - 1) \in Nat
           /\ Count(tags, kind, j, i)
                = Count(tags, kind, j, i - 1) + (IF tags[i] = kind THEN 1 ELSE 0)
<1> DEFINE A == {k \in j .. i - 1 : tags[k] = kind}
           B == {k \in j .. i : tags[k] = kind}
<1>1. IsFiniteSet(A) /\ Cardinality(A) \in Nat
    <2>1. IsFiniteSet(j .. i - 1)
        BY FS_Interval
    <2>2. IsFiniteSet(A)
        BY <2>1, FS_Subset
    <2> QED  BY <2>2, FS_CardinalityType
<1>2. B = (IF tags[i] = kind THEN A \cup {i} ELSE A) /\ i \notin A
    <2>1. \A k \in j .. i : k = i \/ k \in j .. i - 1
        OBVIOUS
    <2>2. \A k \in j .. i - 1 : k \in j .. i /\ k # i
        OBVIOUS
    <2>3. i \in j .. i
        OBVIOUS
    <2> QED  BY <2>1, <2>2, <2>3
<1> HIDE DEF A, B
<1>3. Cardinality(A \cup {i}) = Cardinality(A) + 1
    BY <1>1, <1>2, FS_AddElement
<1>4. Cardinality(B) = Cardinality(A) + (IF tags[i] = kind THEN 1 ELSE 0)
    BY <1>1, <1>2, <1>3
<1> QED  BY <1>1, <1>4 DEF A, B, Count

(* Where the parser skips, more is open than was closed since some place.  *)
LEMMA SkippedIsHidden ==
    ASSUME NEW tags \in Seq(STRING), NEW u \in DOMAIN tags, u \notin Hidden(tags)
    PROVE  depth(tags)[u] = 0
<1> DEFINE n == Len(tags)
           d == depth(tags)
           within(kind, j, i) == Count(tags, kind, j, i)
           Right(i) ==
               /\ d[i] \in Nat
               /\ d[i] > 0 => \E j \in 1 .. i :
                                 within("open", j, i) >= within("close", j, i) + d[i]
           Bad == {i \in 0 .. n : ~Right(i)}
<1>1. n \in Nat /\ DOMAIN tags = 1 .. n
    BY LenProperties
<1>2. /\ d[0] = 0
      /\ \A i \in 1 .. n : d[i] = DepthAfter(tags[i], d[i - 1])
    <2>1. IsDepth(d, tags, n)
        BY DepthIsDefined
    <2> HIDE DEF d, n
    <2>2. \A i \in 0 .. n :
             d[i] = IF i = 0 THEN 0 ELSE DepthAfter(tags[i], d[i - 1])
        BY <2>1 DEF IsDepth
    <2>3. 0 \in 0 .. n /\ \A i \in 1 .. n : i \in 0 .. n /\ i # 0
        BY <1>1
    <2> QED  BY <2>2, <2>3
<1> HIDE DEF n, d
<1>3. ASSUME NEW i \in 1 .. n, Right(i - 1) PROVE Right(i)
    <2> DEFINE was == d[i - 1]
    <2>1. was \in Nat /\ i \in Nat /\ i - 1 \in Nat
        BY <1>1, <1>3
    <2>2. d[i] = DepthAfter(tags[i], was)
        BY <1>2
    <2>3. d[i] \in Nat
        BY <2>1, <2>2 DEF DepthAfter
    <2>4. \A j \in 1 .. i :
             LET o == within("open", j, i - 1)
                 c == within("close", j, i - 1)
             IN  /\ o \in Nat /\ c \in Nat
                 /\ within("open", j, i) = o + (IF tags[i] = "open" THEN 1 ELSE 0)
                 /\ within("close", j, i) = c + (IF tags[i] = "close" THEN 1 ELSE 0)
        <3> TAKE j \in 1 .. i
        <3>1. j \in Nat /\ j <= i
            OBVIOUS
        <3> QED  BY <2>1, <3>1, CountsOneMore
    <2> HIDE DEF within
    <2>5. ASSUME d[i] > 0
          PROVE  \E j \in 1 .. i : within("open", j, i) >= within("close", j, i) + d[i]
        <3>1. CASE was > 0
            <4>1. PICK j \in 1 .. i - 1 :
                     within("open", j, i - 1) >= within("close", j, i - 1) + was
                BY <3>1, <1>3
            <4>2. j \in 1 .. i
                BY <2>1
            <4> DEFINE o == within("open", j, i - 1)
                       c == within("close", j, i - 1)
            <4>3. /\ o \in Nat /\ c \in Nat /\ o >= c + was
                  /\ within("open", j, i) = o + (IF tags[i] = "open" THEN 1 ELSE 0)
                  /\ within("close", j, i) = c + (IF tags[i] = "close" THEN 1 ELSE 0)
                BY <2>4, <4>1, <4>2
            <4> HIDE DEF o, c, was
            <4>4. within("open", j, i) >= within("close", j, i) + d[i]
                BY <4>3, <2>1, <2>2, <3>1 DEF DepthAfter
            <4> QED  BY <4>2, <4>4
        <3>2. CASE was = 0
            <4> HIDE DEF was
            <4>1. tags[i] = "open" /\ d[i] = 1
                BY <2>2, <2>5, <3>2 DEF DepthAfter
            <4>2. i \in 1 .. i
                BY <2>1
            <4>3. within("open", i, i - 1) = 0 /\ within("close", i, i - 1) = 0
                <5>1. \A kind : {k \in i .. i - 1 : tags[k] = kind} = {}
                    BY <2>1
                <5> QED  BY <5>1, FS_EmptySet DEF within, Count
            <4>4. within("open", i, i) = 1 /\ within("close", i, i) = 0
                BY <2>4, <4>1, <4>2, <4>3
            <4> QED  BY <4>1, <4>2, <4>4
        <3> HIDE DEF was
        <3> QED  BY <2>1, <3>1, <3>2
    <2> QED  BY <2>3, <2>5
<1>4. Right(0)
    BY <1>2
<1> HIDE DEF Right
<1>5. Bad = {}
    <2> SUFFICES ASSUME Bad # {} PROVE FALSE
        OBVIOUS
    <2>1. PICK k \in Bad : \A j \in Bad : k <= j
        <3>1. Bad \in SUBSET Nat
            BY <1>1
        <3> HIDE DEF Bad
        <3> QED  BY <3>1, FirstIsLeast
    <2>2. k \in 0 .. n /\ ~Right(k) /\ k # 0
        BY <1>4
    <2>3. k \in 1 .. n /\ k - 1 \in 0 .. n /\ ~(k <= k - 1)
        BY <1>1, <2>2
    <2>4. Right(k - 1)
        BY <2>1, <2>3
    <2> QED  BY <2>2, <2>3, <2>4, <1>3
<1>6. Right(u) /\ u \in 1 .. n /\ u \in Nat
    <2>1. u \in 0 .. n /\ u \in 1 .. n
        BY <1>1
    <2> QED  BY <2>1, <1>1, <1>5
<1>7. \A j \in 1 .. u : ~(within("open", j, u) > within("close", j, u))
    BY DEF Hidden, Count
<1>8. \A j \in 1 .. u : within("open", j, u) \in Nat /\ within("close", j, u) \in Nat
    <2> TAKE j \in 1 .. u
    <2>1. \A kind : {k \in j .. u : tags[k] = kind} \in SUBSET (j .. u)
        OBVIOUS
    <2>2. IsFiniteSet(j .. u)
        BY <1>6, FS_Interval
    <2> QED  BY <2>1, <2>2, FS_Subset, FS_CardinalityType DEF Count
<1> HIDE DEF within
<1>9. d[u] = 0
    <2>1. d[u] \in Nat
        BY <1>6 DEF Right
    <2>2. ASSUME d[u] > 0 PROVE FALSE
        <3>1. PICK j \in 1 .. u : within("open", j, u) >= within("close", j, u) + d[u]
            BY <1>6, <2>2 DEF Right
        <3> QED  BY <3>1, <2>1, <2>2, <1>7, <1>8
    <2> QED  BY <2>1, <2>2
<1> QED  BY <1>9 DEF d

LEMMA ChunksAreFaithful ==
    ASSUME NEW tags \in Seq(STRING)
    PROVE  LET S == _ReadableText(tags) IN
           /\ Placed(S, Len(tags)) /\ Apart(S)
           /\ \A u \in Positions(tags, Readable) \ Hidden(tags) : Once(S, u)
           /\ \A s \in S : s.holds \subseteq s.claims
<1> DEFINE n == Len(tags)
           shown == {i \in DOMAIN tags : depth(tags)[i] = 0}
           breaks == shown \cap Positions(tags, {"block"})
           data == shown \cap Positions(tags, Readable \cup {"mark"})
           key == [i \in data |-> Upto(breaks, i)]
           P == Groups(data, key)
           named == [c \in P |-> c]
           S == _ReadableText(tags)
<1>1. n \in Nat /\ DOMAIN tags = 1 .. n
    BY LenProperties
<1>2. S = {make_segment(c, c) : c \in {e \in P : Kept(tags, e)}}
    BY DEF _ReadableText
<1>3. ASSUME NEW u \in Positions(tags, Readable) \ Hidden(tags)
      PROVE  u \in data /\ tags[u] \in Readable
    <2>1. u \in DOMAIN tags /\ tags[u] \in Readable
        BY DEF Positions
    <2>2. depth(tags)[u] = 0
        BY <2>1, SkippedIsHidden
    <2> QED  BY <2>1, <2>2 DEF Positions
<1>4. data \in SUBSET (1 .. n) /\ \A i \in 1 .. n : i \in Nat
    BY <1>1
<1> HIDE DEF data, key, n, S
<1>5. \A c \in P : c \subseteq data
    BY GroupsDivide
<1>6. \A c \in P : named[c] = c /\ named[c] \in SUBSET Nat
    BY <1>4, <1>5
<1>7. S = Parts(tags, data, key, named)
    BY <1>2, <1>6 DEF Parts
<1> HIDE DEF named
<1>8. AreNamed(data, key, named) /\ HaveTheirNames(data, key, named)
    BY <1>6 DEF AreNamed, HaveTheirNames
<1>9. /\ Placed(S, n) /\ Apart(S)
      /\ \A u \in data : tags[u] \in Readable => Once(S, u)
      /\ \A s \in S : s.holds \subseteq s.claims
    BY <1>1, <1>4, <1>7, <1>8, PartsAreFaithful
<1> QED  BY <1>3, <1>9 DEF S, n

-----------------------------------------------------------------------------
(* Every document *)

(* Every parser's answer lists some set of passages of this kind. *)
LEMMA SegmentsAreFaithful ==
    ASSUME NEW file, file.units \in Seq(STRING), file.declared \in FileTypes
    PROVE  \E S : /\ Lists(segments(file), S)
                  /\ \A s \in S : s.claims \in SUBSET Nat
                  /\ \A u \in ReadableUnits(file.declared, file.units) :
                        /\ \E s \in S : u \in s.holds
                        /\ ~(file.declared = "CSV" /\ u = 1) => Once(S, u)
                  /\ CountedAsItIs(file) =>
                        \A s \in S :
                            s.holds \ (IF file.declared = "CSV" THEN {1} ELSE {})
                                \subseteq s.claims
<1> DEFINE units == file.units
           type == file.declared
<1>1. Len(units) \in Nat /\ Len(units) + 1 \in Nat
    BY LenProperties
<1>2. \A S, u : Once(S, u) => \E s \in S : u \in s.holds
    BY DEF Once
<1>3. /\ ReadableUnits(type, units) \subseteq Positions(units, Readable)
      /\ type = "HTML" =>
            ReadableUnits(type, units) = Positions(units, Readable) \ Hidden(units)
      /\ type = "PDF" =>
            ReadableUnits(type, units) = Positions(units, Readable) \ Lost(units)
    BY DEF ReadableUnits
<1>4. \A S, n : Placed(S, n) => \A s \in S : s.claims \in SUBSET Nat
    BY DEF Placed
<1>5. CASE type = "TXT"
    <2> DEFINE S == _txt_segments(units)
    <2>1. /\ Placed(S, Len(units)) /\ Apart(S)
          /\ \A u \in Positions(units, Readable) : Once(S, u)
          /\ (\A i \in Positions(units, {"blank"}) :
                 i + 1 \notin Positions(units, {"blank"})) =>
                \A s \in S : s.holds \subseteq s.claims
        BY TextIsFaithful
    <2>2. segments(file) = InOrder(S)
        BY <1>5 DEF segments, segments_of
    <2>3. CountedAsItIs(file) =>
             \A i \in Positions(units, {"blank"}) : i + 1 \notin Positions(units, {"blank"})
        BY <1>5 DEF CountedAsItIs
    <2> HIDE DEF S
    <2>4. Lists(InOrder(S), S)
        BY <1>1, <2>1, InOrderIsComplete
    <2> QED  BY <2>1, <2>2, <2>3, <2>4, <1>2, <1>3, <1>4, <1>5
<1>6. CASE type = "MD"
    <2> DEFINE S == _md_segments(units)
    <2>1. /\ Placed(S, Len(units)) /\ Apart(S)
          /\ \A u \in Positions(units, Readable) : Once(S, u)
          /\ \A s \in S : s.holds \subseteq s.claims
        BY SectionsAreFaithful
    <2>2. segments(file) = InOrder(S)
        BY <1>6 DEF segments, segments_of
    <2> HIDE DEF S
    <2>3. Lists(InOrder(S), S)
        BY <1>1, <2>1, InOrderIsComplete
    <2> QED  BY <2>1, <2>2, <2>3, <1>2, <1>3, <1>4, <1>6
<1>7. CASE type = "CSV"
    <2> DEFINE S == _csv_segments(units)
    <2>1. /\ Placed(S, Len(units) + 1) /\ Apart(S)
          /\ \A u \in Positions(units, Readable) :
                /\ \E s \in S : u \in s.holds
                /\ u # 1 => Once(S, u)
          /\ \A s \in S : s.holds \ {1} \subseteq s.claims
        BY RowsAreFaithful
    <2>2. segments(file) = InOrder(S)
        BY <1>7 DEF segments, segments_of
    <2> HIDE DEF S
    <2>3. Lists(InOrder(S), S)
        BY <1>1, <2>1, InOrderIsComplete
    <2> QED  BY <2>1, <2>2, <2>3, <1>3, <1>4, <1>7
<1>8. CASE type = "XLSX"
    <2> DEFINE S == _xlsx_segments(units)
    <2>1. /\ Placed(S, Len(units)) /\ Apart(S)
          /\ \A u \in Positions(units, Readable) : Once(S, u)
          /\ Positions(units, {"blank"}) = {} => \A s \in S : s.holds \subseteq s.claims
        BY SheetsAreFaithful
    <2>2. segments(file) = InOrder(S)
        BY <1>8 DEF segments, segments_of
    <2>3. CountedAsItIs(file) => Positions(units, {"blank"}) = {}
        BY <1>8 DEF CountedAsItIs
    <2> HIDE DEF S
    <2>4. Lists(InOrder(S), S)
        BY <1>1, <2>1, InOrderIsComplete
    <2> QED  BY <2>1, <2>2, <2>3, <2>4, <1>2, <1>3, <1>4, <1>8
<1>9. CASE type = "PPTX"
    <2> DEFINE S == _pptx_segments(units)
    <2>1. /\ Placed(S, Len(units)) /\ Apart(S)
          /\ \A u \in Positions(units, Readable) : Once(S, u)
          /\ \A s \in S : s.holds \subseteq s.claims
        BY SlidesAreFaithful
    <2>2. segments(file) = InOrder(S)
        BY <1>9 DEF segments, segments_of
    <2> HIDE DEF S
    <2>3. Lists(InOrder(S), S)
        BY <1>1, <2>1, InOrderIsComplete
    <2> QED  BY <2>1, <2>2, <2>3, <1>2, <1>3, <1>4, <1>9
<1>10. CASE type = "HTML"
    <2> DEFINE S == _ReadableText(units)
    <2>1. /\ Placed(S, Len(units)) /\ Apart(S)
          /\ \A u \in Positions(units, Readable) \ Hidden(units) : Once(S, u)
          /\ \A s \in S : s.holds \subseteq s.claims
        BY ChunksAreFaithful
    <2>2. segments(file) = InOrder(S)
        BY <1>10 DEF segments, segments_of
    <2> HIDE DEF S
    <2>3. Lists(InOrder(S), S)
        BY <1>1, <2>1, InOrderIsComplete
    <2> QED  BY <2>1, <2>2, <2>3, <1>2, <1>3, <1>4, <1>10
<1>11. CASE type = "DOCX"
    <2> DEFINE S == _docx_segments(units)
               tables == {s \in S : units[First(s.holds)] = "table"}
    <2>1. /\ Placed(S, Len(units)) /\ Apart(S)
          /\ \A u \in Positions(units, Readable) : Once(S, u)
          /\ \A s \in S : s.holds \subseteq s.claims
        BY ParagraphsAreFaithful
    <2>2. segments(file) = InOrder(S \ tables) \o InOrder(tables)
        BY <1>11 DEF segments, segments_of
    <2>3. tables \in SUBSET S
        OBVIOUS
    <2> HIDE DEF S, tables
    <2>4. /\ Placed(tables, Len(units)) /\ Apart(tables)
          /\ Placed(S \ tables, Len(units)) /\ Apart(S \ tables)
        BY <2>1, <2>3 DEF Placed, Apart
    <2>5. Lists(InOrder(S \ tables), S \ tables) /\ Lists(InOrder(tables), tables)
        BY <2>4, <1>1, InOrderIsComplete
    <2>6. Lists(InOrder(S \ tables) \o InOrder(tables), S)
        BY <2>3, <2>5, ListingsAreJoined
    <2> QED  BY <2>1, <2>2, <2>6, <1>2, <1>3, <1>4, <1>11
<1>12. CASE type = "PDF"
    <2> DEFINE S == PdfParser(units)
    <2>1. /\ Placed(S, Len(units)) /\ Apart(S)
          /\ \A u \in Positions(units, Readable) \ Lost(units) : Once(S, u)
          /\ \A s \in S : s.holds \subseteq s.claims
        BY PagesAreFaithful
    <2>2. segments(file) = InOrder(S)
        BY <1>12 DEF segments, segments_of
    <2> HIDE DEF S
    <2>3. Lists(InOrder(S), S)
        BY <1>1, <2>1, InOrderIsComplete
    <2> QED  BY <2>1, <2>2, <2>3, <1>2, <1>3, <1>4, <1>12
<1>13. type \in {"PDF", "DOCX", "PPTX", "XLSX", "CSV", "TXT", "MD", "HTML"}
    BY DEF FileTypes
<1> QED  BY <1>5, <1>6, <1>7, <1>8, <1>9, <1>10, <1>11, <1>12, <1>13

(* What a parser answers is a list of segments, whatever the document. *)
LEMMA SegmentsAreListed ==
    ASSUME NEW file, file.units \in Seq(STRING), file.declared \in FileTypes
    PROVE  LET q == segments(file) IN
           /\ Len(q) \in Nat /\ DOMAIN q = 1 .. Len(q)
           /\ \A i \in 1 .. Len(q) : q[i].claims \in SUBSET Nat
<1> DEFINE q == segments(file)
<1>1. PICK S : Lists(q, S) /\ \A s \in S : s.claims \in SUBSET Nat
    BY SegmentsAreFaithful
<1> HIDE DEF q
<1>2. /\ Len(q) \in Nat /\ DOMAIN q = 1 .. Len(q)
      /\ \A i \in 1 .. Len(q) : q[i].claims \in SUBSET Nat
    BY <1>1 DEF Lists
<1> QED  BY <1>2 DEF q

(* Everything readable in a document is passed on once, with its place.    *)
LEMMA DocumentsAreFaithful ==
    ASSUME NEW file, file.units \in Seq(STRING), file.declared \in FileTypes
    PROVE  LET passage == segments(file)
               header == IF file.declared = "CSV" THEN {1} ELSE {}
               quotable == Positions(file.units, Readable)
           IN  /\ \A u \in ReadableUnits(file.declared, file.units) :
                     LET within == {k \in DOMAIN passage : u \in passage[k].holds}
                     IN  /\ within # {}
                         /\ u \notin header => Cardinality(within) = 1
               /\ CountedAsItIs(file) =>
                     \A k \in DOMAIN passage :
                         quotable \cap (passage[k].holds \ header)
                             \subseteq passage[k].claims
<1> DEFINE passage == segments(file)
           header == IF file.declared = "CSV" THEN {1} ELSE {}
           quotable == Positions(file.units, Readable)
           within(u) == {k \in DOMAIN passage : u \in passage[k].holds}
<1>1. PICK S : /\ Lists(passage, S)
               /\ \A u \in ReadableUnits(file.declared, file.units) :
                     /\ \E s \in S : u \in s.holds
                     /\ ~(file.declared = "CSV" /\ u = 1) => Once(S, u)
               /\ CountedAsItIs(file) => \A s \in S : s.holds \ header \subseteq s.claims
    BY SegmentsAreFaithful
<1>2. \A u : u \notin header => ~(file.declared = "CSV" /\ u = 1)
    OBVIOUS
<1> HIDE DEF passage, header
<1>3. ASSUME NEW u \in ReadableUnits(file.declared, file.units)
      PROVE  within(u) # {} /\ (u \notin header => Cardinality(within(u)) = 1)
    <2>1. within(u) # {}
        <3>1. PICK s \in S : u \in s.holds
            BY <1>1
        <3>2. PICK k \in DOMAIN passage : passage[k] = s
            BY <1>1 DEF Lists
        <3> QED  BY <3>1, <3>2
    <2>2. ASSUME u \notin header
          PROVE  Cardinality(within(u)) = 1
        <3>1. PICK s \in S : u \in s.holds /\ \A t \in S : u \in t.holds => t = s
            BY <1>1, <1>2, <2>2 DEF Once
        <3>2. PICK k \in within(u) : TRUE
            BY <2>1
        <3>3. ASSUME NEW j \in within(u) PROVE j = k
            <4>1. passage[j] = s /\ passage[k] = s
                BY <3>1, <3>2, <3>3, <1>1 DEF Lists
            <4> QED  BY <4>1, <3>2, <3>3, <1>1 DEF Lists
        <3>4. within(u) = {k}
            <4> HIDE DEF within
            <4> QED  BY <3>2, <3>3
        <3> QED  BY <3>4, FS_Singleton
    <2> QED  BY <2>1, <2>2
<1>4. ASSUME CountedAsItIs(file), NEW k \in DOMAIN passage
      PROVE  quotable \cap (passage[k].holds \ header) \subseteq passage[k].claims
    <2>1. passage[k] \in S
        BY <1>1 DEF Lists
    <2> QED  BY <2>1, <1>1, <1>4
<1> QED  BY <1>3, <1>4 DEF passage, header

-----------------------------------------------------------------------------
(* What intake keeps *)

(* While a file is checked its buffer is the last one handed over, and the *)
(* only one that still holds something. *)
OnlyTheLastIsHeld ==
    at = "checking" =>
        /\ Len(buffers) \in 1 .. Len(request.files)
        /\ \A i \in 1 .. (Len(buffers) - 1) : ~buffers[i]

(* What was read was counted; what was counted may exceed the limit, since *)
(* a refused file is counted too. *)
ReadIsCounted == read_bytes <= batch_bytes

IntakeInv ==
    /\ request \in Requests
    /\ IntakeTypeOK /\ ReadIsCounted /\ OnlyTheLastIsHeld
    /\ BatchIsBounded /\ BuffersAreReleased

-----------------------------------------------------------------------------
(* A file that is read passed the limits. *)
LEMMA ReadIsWithinLimits ==
    ASSUME NEW file, verdict(file) = "accepted"
    PROVE  ~(batch_bytes + file.size > MaxBatchBytes)
<1>1. check_limits(file) = "accepted"
    BY Zenon DEF verdict
<1> QED  BY <1>1 DEF check_limits

(* The sizes of the files of a request are naturals. *)
LEMMA FileIsOfTheBatch ==
    ASSUME IntakeInv, at = "checking"
    PROVE  File.size \in Nat
<1>1. Len(request.files) \in Nat /\ Len(buffers) \in 1 .. Len(request.files)
    BY FilesAssumption DEF IntakeInv, OnlyTheLastIsHeld
<1> QED  BY <1>1, FilesAssumption DEF IntakeInv, File, IsContent

(* Releasing the buffer under check leaves none that holds anything. *)
LEMMA ReleaseLeavesNone ==
    ASSUME IntakeInv, at = "checking", release_buffer
    PROVE  buffers' \in Seq(BOOLEAN) /\ \A i \in DOMAIN buffers' : ~buffers'[i]
<1>1. Len(buffers) \in 1 .. Len(request.files) /\ Len(request.files) \in Nat
    BY FilesAssumption DEF IntakeInv, OnlyTheLastIsHeld
<1>2. buffers \in Seq(BOOLEAN) /\ \A i \in 1 .. (Len(buffers) - 1) : ~buffers[i]
    BY DEF IntakeInv, IntakeTypeOK, OnlyTheLastIsHeld
<1> QED  BY <1>1, <1>2 DEF release_buffer

-----------------------------------------------------------------------------
(* One lemma per step of the session. *)

(* A buffer handed over is the only one that holds anything. *)
LEMMA IngestKeeps ==
    ASSUME IntakeInv, ingest
    PROVE  IntakeInv'
<1>1. buffers \in Seq(BOOLEAN) /\ (\A i \in DOMAIN buffers : ~buffers[i])
    BY DEF IntakeInv, IntakeTypeOK, BuffersAreReleased, ingest
<1>2. /\ Len(request.files) \in Nat /\ Len(buffers) < Len(request.files)
      /\ request' = request /\ at' = "checking"
      /\ buffers' = Append(buffers, TRUE)
    BY FilesAssumption DEF IntakeInv, ingest
<1>3. buffers' \in Seq(BOOLEAN) /\ Len(buffers') = Len(buffers) + 1
      /\ \A i \in 1 .. Len(buffers) : ~buffers'[i]
    BY <1>1, <1>2
<1>4. OnlyTheLastIsHeld'
    BY <1>1, <1>2, <1>3 DEF OnlyTheLastIsHeld
<1> QED
    BY <1>2, <1>3, <1>4
    DEF IntakeInv, IntakeTypeOK, ReadIsCounted, BatchIsBounded,
        BuffersAreReleased, ingest

(* A refused file is counted and not read. *)
LEMMA FailKeeps ==
    ASSUME IntakeInv, _fail
    PROVE  IntakeInv'
<1>1. File.size \in Nat
    BY FileIsOfTheBatch DEF _fail
<1>2. buffers' \in Seq(BOOLEAN) /\ \A i \in DOMAIN buffers' : ~buffers'[i]
    BY ReleaseLeavesNone DEF _fail
<1> QED
    BY <1>1, <1>2
    DEF IntakeInv, IntakeTypeOK, ReadIsCounted, OnlyTheLastIsHeld,
        BatchIsBounded, BuffersAreReleased, _fail

(* A file that is read fits in what the limit leaves. *)
LEMMA SucceedKeeps ==
    ASSUME IntakeInv, _succeed
    PROVE  IntakeInv'
<1>1. File.size \in Nat
    BY FileIsOfTheBatch DEF _succeed
<1>2. buffers' \in Seq(BOOLEAN) /\ \A i \in DOMAIN buffers' : ~buffers'[i]
    BY ReleaseLeavesNone DEF _succeed
<1>3. ~(batch_bytes + File.size > MaxBatchBytes)
    BY ReadIsWithinLimits DEF _succeed
<1> QED
    BY <1>1, <1>2, <1>3, LimitsAssumption
    DEF IntakeInv, IntakeTypeOK, ReadIsCounted, OnlyTheLastIsHeld,
        BatchIsBounded, BuffersAreReleased, _succeed

(* A file whose parser raises past the guard is not counted, and released. *)
LEMMA RaiseKeeps ==
    ASSUME IntakeInv, ingest_raises
    PROVE  IntakeInv'
<1>1. buffers' \in Seq(BOOLEAN) /\ \A i \in DOMAIN buffers' : ~buffers'[i]
    BY ReleaseLeavesNone DEF ingest_raises
<1> QED
    BY <1>1
    DEF IntakeInv, IntakeTypeOK, ReadIsCounted, OnlyTheLastIsHeld,
        BatchIsBounded, BuffersAreReleased, ingest_raises

(* Closing releases whatever is left. *)
LEMMA CloseKeeps ==
    ASSUME IntakeInv, close
    PROVE  IntakeInv'
<1>1. buffers' \in Seq(BOOLEAN) /\ \A i \in DOMAIN buffers' : ~buffers'[i]
    <2>1. Len(buffers) \in Nat /\ DOMAIN buffers = 1 .. Len(buffers)
        BY LenProperties DEF IntakeInv, IntakeTypeOK
    <2>2. buffers' = [i \in 1 .. Len(buffers) |-> FALSE]
        BY <2>1 DEF close
    <2>3. buffers' \in [1 .. Len(buffers) -> BOOLEAN]
        BY <2>2
    <2>4. buffers' \in Seq(BOOLEAN)
        BY <2>1, <2>3, SeqDef, Zenon
    <2> QED  BY <2>2, <2>4
<1> QED
    BY <1>1
    DEF IntakeInv, IntakeTypeOK, ReadIsCounted, OnlyTheLastIsHeld,
        BatchIsBounded, BuffersAreReleased, close

(* A step that is nobody's business of the session leaves it as it is. *)
LEMMA OutsideKeeps ==
    ASSUME IntakeInv, UNCHANGED <<request, session>>,
           at # "checking", at' # "checking"
    PROVE  IntakeInv'
BY DEF IntakeInv, IntakeTypeOK, ReadIsCounted, OnlyTheLastIsHeld,
       BatchIsBounded, BuffersAreReleased, session

-----------------------------------------------------------------------------
(* The later stages take no buffer and ask for nothing else. *)

(* The search after the uploads touches nothing of the session. *)
LEMMA SearchIsOutside ==
    ASSUME SearchStep
    PROVE  UNCHANGED <<request, session>> /\ at # "checking" /\ at' # "checking"
BY DEF SearchStep, ingest_search_results, save_found_source, BeginResearch

(* No step of research does. *)
LEMMA ResearchIsOutside ==
    ASSUME ResearchStep
    PROVE  UNCHANGED request /\ at # "checking" /\ at' # "checking"
<1>1. CASE extraction
    BY <1>1, Zenon DEF extraction, send
<1>2. CASE extract_findings \/ infer_findings \/ classify_swot
           \/ derive_key_issues
    BY <1>2 DEF extract_findings, infer_findings, classify_swot,
                derive_key_issues
<1>3. CASE FindingsRead \/ InferencesRead \/ IssuesRead \/ KeyIssuesRead
    BY <1>3 DEF FindingsRead, InferencesRead, IssuesRead, KeyIssuesRead
<1>4. CASE inference
    BY <1>4, Zenon DEF inference, send
<1>5. CASE classification
    BY <1>5, Zenon DEF classification, send
<1>6. CASE synthesis
    BY <1>6, Zenon DEF synthesis, send
<1>7. CASE persist_research
    BY <1>7, Zenon DEF persist_research
<1> QED
    BY <1>1, <1>2, <1>3, <1>4, <1>5, <1>6, <1>7 DEF ResearchStep

(* No step of discovery does. *)
LEMMA DiscoveryIsOutside ==
    ASSUME DiscoveryStep
    PROVE  UNCHANGED request /\ at # "checking" /\ at' # "checking"
<1>1. CASE build_criteria
    BY <1>1, Zenon DEF build_criteria, Ask
<1>2. CASE find_organizations
    BY <1>2, Zenon DEF find_organizations, Ask
<1>3. CASE read_mention \/ MentionsRead
    BY <1>3 DEF read_mention, MentionsRead
<1>4. CASE assess
    BY <1>4, Zenon DEF assess
<1>5. CASE persist_clients
    BY <1>5, Zenon DEF persist_clients
<1> QED  BY <1>1, <1>2, <1>3, <1>4, <1>5 DEF DiscoveryStep

(* The steps of the session together. *)
LEMMA IntakeKeeps ==
    ASSUME IntakeInv, IntakeStep
    PROVE  IntakeInv'
<1>1. CASE save_source_metadata \/ SaveRaises
    <2>1. /\ UNCHANGED <<request, session>>
          /\ at # "checking" /\ at' # "checking"
        BY <1>1 DEF save_source_metadata, SaveRaises
    <2> QED  BY <2>1, OutsideKeeps
<1> QED
    BY <1>1, IngestKeeps, FailKeeps, SucceedKeeps, RaiseKeeps, CloseKeeps
    DEF IntakeStep

(* Whatever step is taken. *)
LEMMA IntakeNext ==
    ASSUME IntakeInv, [Next]_vars
    PROVE  IntakeInv'
<1>1. CASE IntakeStep
    BY <1>1, IntakeKeeps
<1>2. CASE SearchStep
    BY <1>2, SearchIsOutside, OutsideKeeps
<1>3. CASE ResearchStep /\ UNCHANGED session
    BY <1>3, ResearchIsOutside, OutsideKeeps
<1>4. CASE DiscoveryStep /\ UNCHANGED session
    BY <1>4, DiscoveryIsOutside, OutsideKeeps
<1>5. CASE UNCHANGED vars
    BY <1>5
    DEF vars, records, session, IntakeInv, IntakeTypeOK, ReadIsCounted,
        OnlyTheLastIsHeld, BatchIsBounded, BuffersAreReleased
<1> QED
    BY <1>1, <1>2, <1>3, <1>4, <1>5 DEF Next

-----------------------------------------------------------------------------
(* An engagement begins with nothing read and nothing held. *)
LEMMA InitialIntake ==
    ASSUME EngagementInit
    PROVE  IntakeInv
<1>1. /\ request \in Requests /\ at = "uploading" /\ buffers = <<>>
      /\ batch_bytes = 0 /\ read_bytes = 0 /\ closed \in BOOLEAN
    BY DEF EngagementInit, Init, IntakeInit
<1>2. buffers \in Seq(BOOLEAN) /\ \A i \in DOMAIN buffers : ~buffers[i]
    BY <1>1
<1>3. ReadIsCounted /\ BatchIsBounded
    BY <1>1, LimitsAssumption DEF ReadIsCounted, BatchIsBounded
<1>4. IntakeTypeOK
    BY <1>1, <1>2 DEF IntakeTypeOK
<1>5. OnlyTheLastIsHeld /\ BuffersAreReleased
    BY <1>1, <1>2 DEF OnlyTheLastIsHeld, BuffersAreReleased
<1> QED  BY <1>1, <1>3, <1>4, <1>5 DEF IntakeInv

(* The inductive invariant of intake holds of every engagement. *)
THEOREM IntakeInvariance == Spec => []IntakeInv
<1>1. EngagementInit => IntakeInv
    BY InitialIntake
<1>2. IntakeInv /\ [Next]_vars => IntakeInv'
    BY IntakeNext
<1> QED  BY <1>1, <1>2, PTL DEF Spec

(* The bytes read of a batch stay within its limit, for any limits, any    *)
(* files and any order of refusals and exceptions (session.py:164).        *)
THEOREM BatchesAreBounded == Spec => []BatchIsBounded
<1>1. IntakeInv => BatchIsBounded
    BY DEF IntakeInv
<1> QED  BY <1>1, IntakeInvariance, PTL

(* Outside the check of a file no buffer holds its content, whatever       *)
(* became of the file and of the stages after intake (session.py:160).     *)
THEOREM NoBufferIsKept == Spec => []BuffersAreReleased
<1>1. IntakeInv => BuffersAreReleased
    BY DEF IntakeInv
<1> QED  BY <1>1, IntakeInvariance, PTL

-----------------------------------------------------------------------------
(* Stages *)

IntakeStages == {"uploading", "checking", "answered", "leaving", "searching",
                 "saving hits", "intake failed"}

ResearchStages == {"extraction", "findings", "inference", "inferences",
                   "classification", "issues", "synthesis", "key issues",
                   "saving research", "research failed"}

DiscoveryStages == {"criteria", "organizations", "mentions", "assessment",
                    "saving clients", "discovery failed"}

(* What a provider call changes. *)
LEMMA SendFrame ==
    ASSUME NEW reading, NEW n, send(reading, n)
    PROVE  /\ at' \in {reading, "research failed"}
           /\ at' = reading =>
                 \/ reading = "research failed"
                 \/ call' = [call EXCEPT !.framework = n, !.rows = 0]
           /\ call' = call \/ call' = [call EXCEPT !.framework = n, !.rows = 0]
BY DEF send

(* Intake ends in a failure, in the end, or where research begins. *)
LEMMA IntakeFrame ==
    ASSUME IntakeStep \/ SearchStep
    PROVE  /\ at \in IntakeStages /\ request' = request
           /\ at' \in IntakeStages \cup {"extraction", "done"}
<1>1. CASE ingest \/ _fail \/ _succeed \/ ingest_raises
    BY <1>1 DEF ingest, _fail, _succeed, ingest_raises, IntakeStages
<1>2. CASE save_source_metadata \/ SaveRaises \/ close
    BY <1>2 DEF save_source_metadata, SaveRaises, close, IntakeStages
<1>3. CASE SearchStep
    BY <1>3 DEF SearchStep, ingest_search_results, save_found_source,
                BeginResearch, IntakeStages
<1> QED  BY <1>1, <1>2, <1>3 DEF IntakeStep

(* Research reads the sources and passages and ends where discovery        *)
(* begins.                                                                 *)
LEMMA ResearchFrame ==
    ASSUME ResearchStep
    PROVE  /\ at \in ResearchStages /\ request' = request
           /\ sources' = sources /\ passages' = passages
           /\ at' \in ResearchStages \cup {"criteria", "done"}
<1>1. CASE extraction
    <2>1. at \in ResearchStages /\ request' = request
          /\ sources' = sources /\ passages' = passages
        BY <1>1, Zenon DEF extraction, ResearchStages
    <2>2. at = "extraction"
          /\ (at' = "inference" \/ at' = at \/ at' \in {"findings", "research failed"})
        BY <1>1, SendFrame, Zenon DEF extraction
    <2> QED  BY <2>1, <2>2 DEF ResearchStages
<1>2. CASE extract_findings \/ infer_findings \/ classify_swot
           \/ derive_key_issues
    BY <1>2 DEF extract_findings, infer_findings, classify_swot,
                derive_key_issues, ResearchStages
<1>3. CASE FindingsRead \/ InferencesRead \/ IssuesRead \/ KeyIssuesRead
    BY <1>3 DEF FindingsRead, InferencesRead, IssuesRead, KeyIssuesRead,
                ResearchStages
<1>4. CASE inference
    <2>1. at \in ResearchStages /\ request' = request
          /\ sources' = sources /\ passages' = passages
        BY <1>4, Zenon DEF inference, ResearchStages
    <2>2. at = "inference"
          /\ (\/ at' = "classification" \/ at' = at
              \/ at' \in {"inferences", "research failed"})
        BY <1>4, SendFrame, Zenon DEF inference
    <2> QED  BY <2>1, <2>2 DEF ResearchStages
<1>5. CASE classification \/ synthesis
    <2>1. at \in ResearchStages /\ request' = request
          /\ sources' = sources /\ passages' = passages
        BY <1>5, Zenon DEF classification, synthesis, ResearchStages
    <2>2. \/ at' \in {"synthesis", "saving research"}
          \/ at' \in {"issues", "research failed"}
          \/ at' \in {"key issues", "research failed"}
        <3>1. CASE classification
            <4>1. at' = "synthesis" \/ at' \in {"issues", "research failed"}
                BY <3>1, SendFrame, Zenon DEF classification
            <4> QED  BY <4>1
        <3>2. CASE synthesis
            <4>1. \/ at' = "saving research"
                  \/ at' \in {"key issues", "research failed"}
                BY <3>2, SendFrame, Zenon DEF synthesis
            <4> QED  BY <4>1
        <3> QED  BY <1>5, <3>1, <3>2
    <2> QED  BY <2>1, <2>2 DEF ResearchStages
<1>6. CASE persist_research
    <2>1. at \in ResearchStages /\ request' = request
          /\ sources' = sources /\ passages' = passages
        BY <1>6, Zenon DEF persist_research, ResearchStages
    <2>2. at = "saving research"
          /\ at' \in {"criteria", "done", "saving research", "research failed"}
        BY <1>6 DEF persist_research
    <2> QED  BY <2>1, <2>2 DEF ResearchStages
<1> QED
    BY <1>1, <1>2, <1>3, <1>4, <1>5, <1>6 DEF ResearchStep

(* Discovery reads the diagnosis as well. *)
LEMMA DiscoveryFrame ==
    ASSUME DiscoveryStep
    PROVE  /\ at \in DiscoveryStages /\ request' = request
           /\ sources' = sources /\ passages' = passages
           /\ offered' = offered /\ skipped' = skipped /\ findings' = findings
           /\ swot' = swot /\ key_issues' = key_issues
           /\ at' \in DiscoveryStages \cup {"done"}
<1>1. CASE build_criteria
    <2>1. /\ at \in DiscoveryStages /\ request' = request
          /\ sources' = sources /\ passages' = passages /\ research' = research
        BY <1>1, Zenon DEF build_criteria, DiscoveryStages
    <2>2. at' \in {"organizations", "discovery failed"}
        BY <1>1 DEF build_criteria, Ask
    <2> QED  BY <2>1, <2>2 DEF DiscoveryStages, research
<1>2. CASE find_organizations
    <2>1. at' \in {"assessment", "mentions", "discovery failed"}
        BY <1>2 DEF find_organizations, Ask
    <2> QED  BY <1>2, <2>1 DEF find_organizations, DiscoveryStages
<1>3. CASE read_mention \/ MentionsRead
    BY <1>3 DEF read_mention, MentionsRead, DiscoveryStages, research
<1>4. CASE assess
    <2>1. at' \in {"assessment", "saving clients", "discovery failed"}
        BY <1>4 DEF assess
    <2>2. /\ at = "assessment" /\ request' = request
          /\ sources' = sources /\ passages' = passages /\ research' = research
        BY <1>4, Zenon DEF assess
    <2> QED  BY <2>1, <2>2 DEF DiscoveryStages, research
<1>5. CASE persist_clients
    <2>1. at' \in {"saving clients", "done", "discovery failed"}
        BY <1>5 DEF persist_clients
    <2>2. /\ at = "saving clients" /\ request' = request
          /\ sources' = sources /\ passages' = passages /\ research' = research
        BY <1>5, Zenon DEF persist_clients
    <2> QED  BY <2>1, <2>2 DEF DiscoveryStages, research
<1> QED  BY <1>1, <1>2, <1>3, <1>4, <1>5 DEF DiscoveryStep

-----------------------------------------------------------------------------
(* Sources and passages *)

(* Every source is whole, every passage is one of a source there is. A     *)
(* source record is added before the passages of its document.             *)
SourcesInv ==
    /\ sources \in Seq(SourceMetadata)
    /\ \A n \in DOMAIN sources : check_source_metadata(sources[n])
    /\ passages \in Seq(Passages)
    /\ \A p \in DOMAIN passages : passages[p].source_id \in DOMAIN sources
    /\ at = "answered" =>
          sources # <<>> /\ Len(buffers) \in 1 .. Len(request.files)

(* The file under check is one of the request. *)
LEMMA FileFacts ==
    ASSUME request \in Requests, Len(buffers) \in 1 .. Len(request.files)
    PROVE  /\ IsContent(File) /\ File.declared \in FileTypes
           /\ File.category \in SourceCategories /\ File.units \in Seq(STRING)
BY FilesAssumption DEF File

(* What is refused is refused with one of the codes there are. *)
LEMMA VerdictIsCode ==
    \A file : verdict(file) \in INTAKE_ERROR_CODES \cup {"accepted", "escapes"}
<1> DEFINE Codes == INTAKE_ERROR_CODES \cup {"accepted", "escapes"}
<1>1. ASSUME NEW file PROVE verify_ooxml_package(file) \in Codes
    BY DEF verify_ooxml_package, INTAKE_ERROR_CODES
<1>2. ASSUME NEW file PROVE parse(file) \in Codes
    <2> DEFINE opened == IF file.declared \in OOXML_TYPES
                         THEN verify_ooxml_package(file) ELSE "accepted"
    <2>1. opened \in Codes
        BY <1>1
    <2> HIDE DEF opened
    <2> QED  BY <2>1 DEF parse, INTAKE_ERROR_CODES, opened
<1>3. ASSUME NEW file PROVE check_limits(file) \in Codes
    BY DEF check_limits, INTAKE_ERROR_CODES
<1>4. ASSUME NEW file PROVE verdict(file) \in Codes
    BY <1>2, <1>3 DEF verdict, INTAKE_ERROR_CODES
<1> QED  BY <1>4

(* The record of an upload passes the check of evidence.py for any         *)
(* verdict.                                                                *)
LEMMA UploadIsWhole ==
    ASSUME request \in Requests, Len(buffers) \in 1 .. Len(request.files),
           NEW status \in {"PURGED", "FAILED"},
           NEW code \in INTAKE_ERROR_CODES \cup {"none"}
    PROVE  /\ Upload(File, status, code) \in SourceMetadata
           /\ check_source_metadata(Upload(File, status, code))
<1>1. /\ File.declared \in FileTypes /\ File.category \in SourceCategories
      /\ File.source_date \in Dates
    BY FileFacts DEF IsContent
<1>2. File.declared # Unset
    BY <1>1 DEF FileTypes, Unset
<1> QED
    BY <1>1, <1>2 DEF Upload, SourceMetadata, check_source_metadata

(* The record of a search result passes it too. *)
LEMMA FoundIsWhole ==
    ASSUME NEW hit, hit.source_date \in Dates, hit.publisher \in BOOLEAN
    PROVE  /\ source_from_search_result(hit) \in SourceMetadata
           /\ check_source_metadata(source_from_search_result(hit))
BY DEF source_from_search_result, SourceMetadata, SourceCategories,
       check_source_metadata

(* A passage of text is a passage. *)
LEMMA PassageType ==
    ASSUME NEW s \in Nat, NEW l \in Locators, NEW c, IsContent(c)
    PROVE  Passage(s, l, c) \in Passages /\ Passage(s, l, c).source_id = s
BY DEF Passage, Passages, IsContent

(* The passages of a document are passages of its source. *)
LEMMA CandidatesAreOfTheSource ==
    ASSUME request \in Requests, Len(buffers) \in 1 .. Len(request.files),
           NEW s \in Nat
    PROVE  /\ candidates_from(File, s) \in Seq(Passages)
           /\ \A i \in DOMAIN candidates_from(File, s) :
                 candidates_from(File, s)[i].source_id = s
<1> DEFINE q == segments(File)
           read == candidates_from(File, s)
<1>1. Len(q) \in Nat /\ DOMAIN q = 1 .. Len(q)
      /\ \A i \in 1 .. Len(q) : q[i].claims \in SUBSET Nat
    BY FileFacts, SegmentsAreListed
<1> HIDE DEF q
<1>2. read = [i \in 1 .. Len(q) |-> Passage(s, <<"at", q[i].claims>>, File)]
    BY <1>1 DEF candidates_from, q
<1>3. ASSUME NEW i \in 1 .. Len(q)
      PROVE  /\ Passage(s, <<"at", q[i].claims>>, File) \in Passages
             /\ Passage(s, <<"at", q[i].claims>>, File).source_id = s
    <2>1. <<"at", q[i].claims>> \in Locators
        BY <1>1 DEF Locators
    <2> QED  BY <2>1, FileFacts, PassageType
<1>4. read \in [1 .. Len(q) -> Passages]
    BY <1>2, <1>3
<1>5. read \in Seq(Passages)
    <2> HIDE DEF read
    <2> QED  BY <1>1, <1>4, SeqDef
<1> QED  BY <1>2, <1>3, <1>5

(* The results with a snippet are a list of results. *)
LEMMA HitsAreCitable ==
    ASSUME request \in Requests
    PROVE  /\ Len(CitableHits) \in Nat
           /\ DOMAIN CitableHits = 1 .. Len(CitableHits)
           /\ \A i \in 1 .. Len(CitableHits) :
                 IsContent(CitableHits[i]) /\ CitableHits[i].publisher \in BOOLEAN
<1> DEFINE citable == {i \in DOMAIN request.hits : request.hits[i].snippet}
           k == Cardinality(citable)
<1>1. /\ Len(request.hits) \in Nat
      /\ DOMAIN request.hits = 1 .. Len(request.hits)
      /\ \A i \in DOMAIN request.hits :
            IsContent(request.hits[i]) /\ request.hits[i].publisher \in BOOLEAN
    BY HitsAssumption
<1>2. citable \in SUBSET (0 .. Len(request.hits))
      /\ citable \in SUBSET DOMAIN request.hits
    BY <1>1
<1>3. CitableHits = [n \in 1 .. k |-> request.hits[Numbered(citable, n)]]
    BY DEF CitableHits
<1> HIDE DEF citable
<1>4. k \in Nat
    BY <1>1, <1>2, BoundedIsFinite
<1>5. ASSUME NEW n \in 1 .. k PROVE Numbered(citable, n) \in DOMAIN request.hits
    BY <1>1, <1>2, NumberedIsFound
<1> DEFINE hits == CitableHits
<1>6. Len(hits) = k /\ DOMAIN hits = 1 .. k
    BY <1>3, <1>4
<1> QED  BY <1>1, <1>3, <1>4, <1>5, <1>6

-----------------------------------------------------------------------------

(* What does not touch a source or a passage keeps them. *)
LEMMA SourcesStay ==
    ASSUME SourcesInv, sources' = sources, passages' = passages,
           at' # "answered"
    PROVE  SourcesInv'
BY DEF SourcesInv, check_source_metadata

(* One more source leaves the others, and the passages, as they are. *)
LEMMA SourceIsAdded ==
    ASSUME SourcesInv, NEW s \in SourceMetadata, check_source_metadata(s),
           sources' = Append(sources, s), passages' = passages,
           Len(buffers') \in 1 .. Len(request'.files)
    PROVE  SourcesInv'
<1>1. sources \in Seq(SourceMetadata) /\ Len(sources) \in Nat
    BY LenProperties DEF SourcesInv
<1>2. /\ sources' \in Seq(SourceMetadata) /\ sources' # <<>>
      /\ DOMAIN sources' = 1 .. Len(sources) + 1
      /\ DOMAIN sources = 1 .. Len(sources)
      /\ sources'[Len(sources) + 1] = s
      /\ \A n \in 1 .. Len(sources) : sources'[n] = sources[n]
    BY <1>1
<1>3. \A n \in DOMAIN sources' : check_source_metadata(sources'[n])
    BY <1>1, <1>2 DEF SourcesInv
<1>4. \A p \in DOMAIN passages : passages[p].source_id \in DOMAIN sources'
    BY <1>1, <1>2 DEF SourcesInv
<1> QED
    BY <1>2, <1>3, <1>4 DEF SourcesInv, check_source_metadata

(* A file under check is recorded whole, whatever was wrong with it. *)
LEMMA AnswerKeepsSources ==
    ASSUME IntakeInv, SourcesInv, _fail \/ _succeed
    PROVE  SourcesInv'
<1>1. request \in Requests /\ Len(buffers) \in 1 .. Len(request.files)
    BY DEF IntakeInv, OnlyTheLastIsHeld, _fail, _succeed
<1>2. Len(buffers') = Len(buffers) /\ request' = request
      /\ passages' = passages
    <2>1. buffers \in Seq(BOOLEAN)
        BY DEF IntakeInv, IntakeTypeOK
    <2> QED  BY <2>1 DEF _fail, _succeed, release_buffer
<1>3. CASE _fail
    <2>1. /\ sources' = Append(sources, Upload(File, "FAILED", verdict(File)))
          /\ verdict(File) \in INTAKE_ERROR_CODES
        BY <1>3, VerdictIsCode DEF _fail
    <2> QED  BY <2>1, <1>1, <1>2, UploadIsWhole, SourceIsAdded
<1>4. CASE _succeed
    <2>1. sources' = Append(sources, Upload(File, "PURGED", "none"))
        BY <1>4 DEF _succeed
    <2>2. /\ Upload(File, "PURGED", "none") \in SourceMetadata
          /\ check_source_metadata(Upload(File, "PURGED", "none"))
        BY <1>1, UploadIsWhole
    <2> QED  BY <2>1, <2>2, <1>1, <1>2, SourceIsAdded
<1> QED  BY <1>3, <1>4

(* More passages of sources there are. *)
LEMMA PassagesAreAdded ==
    ASSUME SourcesInv, NEW more \in Seq(Passages),
           \A i \in DOMAIN more : more[i].source_id \in DOMAIN sources',
           passages' = passages \o more, sources' \in Seq(SourceMetadata),
           DOMAIN sources \subseteq DOMAIN sources',
           \A n \in DOMAIN sources' : check_source_metadata(sources'[n]),
           at' # "answered"
    PROVE  SourcesInv'
<1>1. /\ passages \in Seq(Passages) /\ Len(passages) \in Nat
      /\ Len(more) \in Nat /\ DOMAIN more = 1 .. Len(more)
      /\ DOMAIN passages = 1 .. Len(passages)
    BY LenProperties DEF SourcesInv
<1>2. passages' \in Seq(Passages)
    BY <1>1
<1>3. ASSUME NEW p \in DOMAIN passages'
      PROVE  passages'[p].source_id \in DOMAIN sources'
    <2>1. p \in 1 .. Len(passages) + Len(more)
        BY <1>1
    <2>2. CASE p <= Len(passages)
        BY <1>1, <2>1, <2>2 DEF SourcesInv
    <2>3. CASE p > Len(passages)
        BY <1>1, <2>1, <2>3
    <2> QED  BY <1>1, <2>1, <2>2, <2>3
<1>4. \A n \in DOMAIN sources' : check_source_metadata(sources'[n])
    OBVIOUS
<1>5. (\A n \in DOMAIN sources : check_source_metadata(sources[n]))'
    BY <1>4 DEF check_source_metadata
<1> QED  BY <1>2, <1>3, <1>5 DEF SourcesInv

(* The passages of a saved upload are of its source, the last one. *)
LEMMA SaveKeepsSources ==
    ASSUME request \in Requests, SourcesInv, save_source_metadata
    PROVE  SourcesInv'
<1>1. /\ Len(buffers) \in 1 .. Len(request.files)
      /\ sources \in Seq(SourceMetadata) /\ Len(sources) \in DOMAIN sources
      /\ Len(sources) \in Nat
    <2>1. sources \in Seq(SourceMetadata) /\ sources # <<>>
          /\ Len(buffers) \in 1 .. Len(request.files)
        BY DEF SourcesInv, save_source_metadata
    <2> QED  BY <2>1, LenProperties, EmptySeq
<1> DEFINE more == IF sources[Len(sources)].processing_status = "PURGED"
                   THEN candidates_from(File, Len(sources)) ELSE <<>>
<1>2. /\ more \in Seq(Passages)
      /\ \A i \in DOMAIN more : more[i].source_id = Len(sources)
    <2>1. /\ candidates_from(File, Len(sources)) \in Seq(Passages)
          /\ \A i \in DOMAIN candidates_from(File, Len(sources)) :
                candidates_from(File, Len(sources))[i].source_id = Len(sources)
        BY <1>1, CandidatesAreOfTheSource
    <2>2. <<>> \in Seq(Passages) /\ DOMAIN <<>> = {}
        OBVIOUS
    <2> QED  BY <2>1, <2>2
<1>3. /\ passages' = passages \o more /\ sources' = sources
      /\ at' # "answered"
    BY DEF save_source_metadata
<1> HIDE DEF more
<1>4. \A n \in DOMAIN sources' : check_source_metadata(sources'[n])
    BY <1>3 DEF SourcesInv
<1> QED  BY <1>1, <1>2, <1>3, <1>4, PassagesAreAdded

(* The passages of a search are of the sources it adds. *)
LEMMA HitsKeepSources ==
    ASSUME request \in Requests, SourcesInv, ingest_search_results
    PROVE  SourcesInv'
<1> DEFINE k == Len(CitableHits)
           found == [i \in DOMAIN CitableHits |->
                        source_from_search_result(CitableHits[i])]
           more == [i \in DOMAIN CitableHits |->
                        Passage(Len(sources) + i, SNIPPET_LOCATOR, CitableHits[i])]
<1>1. /\ k \in Nat /\ DOMAIN CitableHits = 1 .. k
      /\ \A i \in 1 .. k : IsContent(CitableHits[i])
                           /\ CitableHits[i].publisher \in BOOLEAN
    BY HitsAreCitable
<1>2. sources \in Seq(SourceMetadata) /\ Len(sources) \in Nat
      /\ DOMAIN sources = 1 .. Len(sources)
    BY LenProperties DEF SourcesInv
<1>3. ASSUME NEW i \in 1 .. k
      PROVE  /\ source_from_search_result(CitableHits[i]) \in SourceMetadata
             /\ check_source_metadata(source_from_search_result(CitableHits[i]))
             /\ Passage(Len(sources) + i, SNIPPET_LOCATOR, CitableHits[i])
                    \in Passages
             /\ Passage(Len(sources) + i, SNIPPET_LOCATOR,
                        CitableHits[i]).source_id = Len(sources) + i
    <2>1. CitableHits[i].source_date \in Dates
          /\ CitableHits[i].publisher \in BOOLEAN
        BY <1>1 DEF IsContent
    <2>2. /\ source_from_search_result(CitableHits[i]) \in SourceMetadata
          /\ check_source_metadata(source_from_search_result(CitableHits[i]))
        BY <2>1, FoundIsWhole
    <2>4. SNIPPET_LOCATOR \in Locators /\ Len(sources) + i \in Nat
        BY <1>2 DEF Locators
    <2> QED  BY <2>2, <2>4, <1>1, PassageType
<1>4. found \in Seq(SourceMetadata) /\ Len(found) = k
      /\ DOMAIN found = 1 .. k
      /\ \A i \in 1 .. k : check_source_metadata(found[i])
    <2>1. found \in [1 .. k -> SourceMetadata]
        BY <1>1, <1>3
    <2>2. \A i \in 1 .. k : check_source_metadata(found[i])
        BY <1>1, <1>3
    <2> HIDE DEF found, k
    <2> QED  BY <1>1, <2>1, <2>2, SeqDef, LenProperties
<1>5. more \in Seq(Passages) /\ DOMAIN more = 1 .. k
      /\ \A i \in 1 .. k : more[i].source_id = Len(sources) + i
    <2>1. more \in [1 .. k -> Passages]
        BY <1>1, <1>3
    <2>2. \A i \in 1 .. k : more[i].source_id = Len(sources) + i
        BY <1>1, <1>3
    <2> HIDE DEF more, k
    <2> QED  BY <1>1, <2>1, <2>2, SeqDef
<1>6. /\ sources' = sources \o found /\ passages' = passages \o more
      /\ at' # "answered"
    BY DEF ingest_search_results
<1> HIDE DEF found, more, k
<1>7. /\ sources' \in Seq(SourceMetadata)
      /\ DOMAIN sources' = 1 .. Len(sources) + k
    <2>1. sources \o found \in Seq(SourceMetadata)
        BY <1>2, <1>4
    <2>2. Len(sources \o found) = Len(sources) + k
        BY <1>2, <1>4
    <2> QED  BY <2>1, <2>2, <1>6, LenProperties
<1>8. ASSUME NEW n \in DOMAIN sources' PROVE check_source_metadata(sources'[n])
    <2>1. CASE n <= Len(sources)
        <3>1. sources'[n] = sources[n] /\ n \in DOMAIN sources
            BY <1>1, <1>2, <1>4, <1>6, <1>7, <2>1
        <3> QED  BY <3>1 DEF SourcesInv
    <2>2. CASE n > Len(sources)
        <3>1. sources'[n] = found[n - Len(sources)]
              /\ n - Len(sources) \in 1 .. k
            BY <1>1, <1>2, <1>4, <1>6, <1>7, <2>2
        <3> QED  BY <3>1, <1>4
    <2> QED  BY <1>2, <1>7, <2>1, <2>2
<1>9. \A i \in DOMAIN more : more[i].source_id \in DOMAIN sources'
    BY <1>1, <1>2, <1>5, <1>7
<1>10. DOMAIN sources \subseteq DOMAIN sources'
    BY <1>1, <1>2, <1>7
<1> QED
    BY <1>5, <1>6, <1>7, <1>8, <1>9, <1>10, PassagesAreAdded

(* No step leaves a passage without its source. *)
LEMMA SourcesNext ==
    ASSUME IntakeInv, SourcesInv, [Next]_vars
    PROVE  SourcesInv'
<1>1. request \in Requests
    BY DEF IntakeInv
<1>2. CASE _fail \/ _succeed
    BY <1>2, AnswerKeepsSources
<1>3. CASE save_source_metadata
    BY <1>1, <1>3, SaveKeepsSources
<1>4. CASE ingest_search_results
    BY <1>1, <1>4, HitsKeepSources
<1>5. CASE ingest \/ ingest_raises \/ SaveRaises \/ close
    BY <1>5, SourcesStay DEF ingest, ingest_raises, SaveRaises, close
<1>6. CASE save_found_source \/ BeginResearch
    <2>1. sources' = sources /\ passages' = passages /\ at' # "answered"
        BY <1>6 DEF save_found_source, BeginResearch
    <2> QED  BY <2>1, SourcesStay
<1>7. CASE ResearchStep
    BY <1>7, ResearchFrame, SourcesStay DEF ResearchStages
<1>8. CASE DiscoveryStep
    BY <1>8, DiscoveryFrame, SourcesStay DEF DiscoveryStages
<1>9. CASE UNCHANGED vars
    BY <1>9 DEF vars, records, session, SourcesInv, check_source_metadata
<1> QED
    BY <1>2, <1>3, <1>4, <1>5, <1>6, <1>7, <1>8, <1>9
    DEF Next, IntakeStep, SearchStep

-----------------------------------------------------------------------------
(* What has not begun yet *)

(* Before its stage a result is empty. *)
StageInv ==
    /\ at \in IntakeStages \cup ResearchStages \cup DiscoveryStages \cup {"done"}
    /\ at \in IntakeStages =>
          /\ call = FirstCall /\ offered = <<>> /\ skipped = {}
          /\ findings = <<>> /\ swot = <<>> /\ key_issues = <<>>
    /\ at \notin {"mentions", "assessment", "saving clients",
                  "discovery failed", "done"} => organizations = <<>>
    /\ at \notin {"assessment", "saving clients", "discovery failed", "done"} =>
          assessed = 0 /\ clients = <<>> /\ dropped = <<>>

(* What a later stage fills is empty until it begins. *)
LEMMA StageNext ==
    ASSUME StageInv, [Next]_vars
    PROVE  StageInv'
<1>1. CASE (IntakeStep \/ SearchStep) /\ UNCHANGED <<research, discovery>>
    BY <1>1, IntakeFrame
    DEF StageInv, IntakeStages, ResearchStages, research, discovery
<1>2. CASE ResearchStep /\ UNCHANGED discovery
    BY <1>2, ResearchFrame
    DEF StageInv, IntakeStages, ResearchStages, DiscoveryStages, discovery
<1>3. CASE DiscoveryStep
    <2>1. /\ at \in DiscoveryStages /\ at' \in DiscoveryStages \cup {"done"}
        BY <1>3, DiscoveryFrame
    <2>2. CASE build_criteria
        <3>1. at = "criteria" /\ at' \in {"organizations", "discovery failed"}
            BY <2>2 DEF build_criteria, Ask
        <3>2. discovery' = discovery
            BY <2>2, Zenon DEF build_criteria
        <3> QED
            BY <3>1, <3>2
            DEF StageInv, IntakeStages, DiscoveryStages, discovery
    <2>3. CASE find_organizations
        <3>1. /\ at = "organizations"
              /\ at' \in {"assessment", "mentions", "discovery failed"}
            BY <2>3 DEF find_organizations, Ask
        <3>2. discovery' = discovery
            BY <2>3, Zenon DEF find_organizations
        <3> QED
            BY <3>1, <3>2
            DEF StageInv, IntakeStages, DiscoveryStages, discovery
    <2>4. CASE read_mention
        BY <2>4 DEF read_mention, StageInv, IntakeStages, DiscoveryStages
    <2>5. CASE MentionsRead
        BY <2>5 DEF MentionsRead, StageInv, IntakeStages, DiscoveryStages,
                    discovery
    <2>6. CASE assess \/ persist_clients
        <3>1. at' \in {"assessment", "saving clients", "done",
                       "discovery failed"}
            BY <2>6 DEF assess, persist_clients
        <3> QED  BY <3>1 DEF StageInv, IntakeStages, DiscoveryStages
    <2> QED  BY <1>3, <2>2, <2>3, <2>4, <2>5, <2>6 DEF DiscoveryStep
<1>4. CASE UNCHANGED vars
    BY <1>4 DEF StageInv, vars, records, research, discovery
<1> QED  BY <1>1, <1>2, <1>3, <1>4 DEF Next

-----------------------------------------------------------------------------
(* Batches and calls *)

(* Frameworks are put to a batch by their places in the resolved list. *)
LEMMA ResolvedIsList ==
    ASSUME request \in Requests
    PROVE  /\ Len(Resolved) \in Nat /\ DOMAIN Resolved = 1 .. Len(Resolved)
           /\ \A batch : frameworks_for(batch) \in SUBSET DOMAIN Resolved
BY ResearchPolicyAssumption, AnswersAssumption
DEF Resolved, frameworks_for, shortlist

(* A batch begins where it is asked to and takes one passage at least. *)
LEMMA BatchIsAhead ==
    ASSUME SourcesInv, NEW first \in Nat \ {0}, first <= Len(passages)
    PROVE  /\ next_batch(first) \in first + 1 .. Len(passages) + 1
           /\ first \in batch_candidates(first)
           /\ batch_candidates(first) \in SUBSET (1 .. Len(passages))
           /\ DOMAIN passages = 1 .. Len(passages) /\ Len(passages) \in Nat
<1>1. Len(passages) \in Nat /\ DOMAIN passages = 1 .. Len(passages)
    BY LenProperties DEF SourcesInv
<1> DEFINE Ends == {i \in first + 1 .. Len(passages) + 1 :
                       \/ i = Len(passages) + 1
                       \/ i - first >= MaxPassagesPerBatch
                       \/ text_before(passages)[i + 1]
                              - text_before(passages)[first]
                              > MaxTextPerBatch}
<1>2. next_batch(first) = First(Ends)
    BY DEF next_batch
<1>3. Ends \in SUBSET (first + 1 .. Len(passages) + 1)
    OBVIOUS
<1>4. Len(passages) + 1 \in Ends
    BY <1>1
<1> HIDE DEF Ends
<1>5. Ends \in SUBSET Nat
    BY <1>1, <1>3
<1>6. First(Ends) \in Ends
    BY <1>4, <1>5, FirstIsLeast
<1>7. next_batch(first) \in first + 1 .. Len(passages) + 1
    BY <1>2, <1>3, <1>6
<1> QED  BY <1>1, <1>7 DEF batch_candidates

(* Inside a call its batch and its framework are those of the prompt. *)
CallInv ==
    /\ call \in [first : Nat \ {0}, framework : Nat \ {0}, rows : Nat]
    /\ offered \in Seq([framework : Nat \ {0}, passages : SUBSET Nat])
    /\ at \in {"extraction", "findings"} => call.first \in 1 .. Len(passages) + 1
    /\ at = "findings" =>
          /\ call.framework \in frameworks_for(Batch)
          /\ call.first <= Len(passages)
          /\ offered # <<>> /\ offered[Len(offered)].passages = Batch
    /\ at = "inferences" => call.framework \in DOMAIN Resolved

(* Which frameworks a batch is put to is settled with the passages. *)
LEMMA FrameworksStay ==
    ASSUME passages' = passages, request' = request, NEW batch
    PROVE  /\ Resolved' = Resolved
           /\ frameworks_for(batch)' = frameworks_for(batch)
           /\ Skipped(batch)' = Skipped(batch)
           /\ Findings' = Findings
<1>1. Resolved' = Resolved
    BY DEF Resolved
<1>2. shortlist(batch)' = shortlist(batch)
    BY <1>1 DEF shortlist
<1>3. frameworks_for(batch)' = frameworks_for(batch)
    BY <1>1, <1>2 DEF frameworks_for
<1>4. Frameworks' = Frameworks
    BY <1>1 DEF Frameworks
<1> QED  BY <1>1, <1>3, <1>4 DEF Skipped, Findings

Calls == [first : Nat \ {0}, framework : Nat \ {0}, rows : Nat]

(* Outside extraction and inference a call may be any. *)
LEMMA CallIsMoved ==
    ASSUME CallInv, call' \in Calls, offered' = offered,
           at' \notin {"extraction", "findings", "inferences"}
    PROVE  CallInv'
BY DEF CallInv, Calls

(* Reading a row leaves the call where it is. *)
LEMMA RowIsRead ==
    ASSUME CallInv, RowRead
    PROVE  /\ call' \in Calls /\ call'.first = call.first
           /\ call'.framework = call.framework
BY DEF CallInv, RowRead, Calls

(* The batch of a call is settled with the passages. *)
LEMMA BatchStays ==
    ASSUME passages' = passages, call'.first = call.first
    PROVE  Batch' = Batch
BY DEF Batch, batch_candidates, next_batch

(* A call is made for a batch that is there and a framework it is put to. *)
LEMMA CallNext ==
    ASSUME IntakeInv, SourcesInv, SourcesInv', StageInv, CallInv, [Next]_vars,
           Len(findings) \in Nat
    PROVE  CallInv'
<1>1. /\ call \in Calls /\ call.first \in Nat \ {0}
      /\ call.framework \in Nat \ {0} /\ FirstCall \in Calls
      /\ Len(passages') \in Nat /\ request \in Requests
    BY LenProperties DEF CallInv, Calls, FirstCall, SourcesInv, IntakeInv
<1>2. CASE (IntakeStep \/ SearchStep) /\ UNCHANGED research
    <2>1. /\ call' = FirstCall /\ offered' = offered
          /\ at' \notin {"findings", "inferences"}
        BY <1>2, IntakeFrame DEF StageInv, IntakeStages, research
    <2> QED  BY <2>1, <1>1 DEF CallInv, FirstCall
<1>3. CASE extraction
    <2>1. /\ at = "extraction" /\ passages' = passages /\ request' = request
          /\ call.first \in 1 .. Len(passages) + 1
        BY <1>3, Zenon DEF extraction, CallInv
    <2>2. CASE /\ call.first > Len(passages)
               /\ at' = "inference" /\ call' = FirstCall
               /\ UNCHANGED <<offered, skipped>>
        BY <2>2, <1>1, CallIsMoved
    <2>3. CASE /\ call.first <= Len(passages) /\ FrameworksLeft = {}
               /\ call' = [FirstCall EXCEPT !.first = next_batch(call.first)]
               /\ UNCHANGED <<at, offered, skipped>>
        <3>1. next_batch(call.first) \in call.first + 1 .. Len(passages) + 1
            BY <2>3, <1>1, BatchIsAhead
        <3>2. call' \in Calls /\ call'.first = next_batch(call.first)
            BY <2>3, <3>1, <1>1 DEF Calls, FirstCall
        <3>3. call'.first \in 1 .. Len(passages') + 1
            BY <3>1, <3>2, <2>1, <1>1
        <3>4. at' = "extraction" /\ offered' = offered
            BY <2>1, <2>3
        <3> QED  BY <3>2, <3>3, <3>4 DEF CallInv, Calls
    <2>4. CASE /\ call.first <= Len(passages) /\ FrameworksLeft # {}
               /\ send("findings", First(FrameworksLeft))
               /\ offered' = Append(offered,
                                [framework |-> First(FrameworksLeft),
                                 passages |-> Batch])
        <3> DEFINE n == First(FrameworksLeft)
        <3>1. /\ n \in frameworks_for(Batch) /\ n \in Nat \ {0}
            <4>1. /\ FrameworksLeft \in SUBSET Nat
                  /\ FrameworksLeft \subseteq frameworks_for(Batch)
                  /\ 0 \notin FrameworksLeft
                BY <1>1, ResolvedIsList DEF FrameworksLeft
            <4> QED  BY <2>4, <4>1, FirstIsLeast
        <3>2. Batch \in SUBSET Nat
            <4>1. batch_candidates(call.first) \in SUBSET (1 .. Len(passages))
                  /\ Len(passages) \in Nat
                BY <2>4, <1>1, BatchIsAhead
            <4> QED  BY <4>1 DEF Batch
        <3>3. /\ offered \in Seq([framework : Nat \ {0}, passages : SUBSET Nat])
            BY DEF CallInv
        <3> HIDE DEF n
        <3>4. /\ offered' = Append(offered, [framework |-> n, passages |-> Batch])
              /\ [framework |-> n, passages |-> Batch]
                    \in [framework : Nat \ {0}, passages : SUBSET Nat]
            BY <2>4, <3>1, <3>2 DEF n
        <3>5. /\ offered' \in Seq([framework : Nat \ {0}, passages : SUBSET Nat])
              /\ offered' # <<>> /\ offered'[Len(offered')].passages = Batch
            BY <3>3, <3>4
        <3>6. \/ /\ at' = "findings"
                 /\ call' = [call EXCEPT !.framework = n, !.rows = 0]
              \/ at' = "research failed" /\ call' = call
            BY <2>4 DEF send, n
        <3>7. CASE at' = "research failed" /\ call' = call
            BY <3>5, <3>7, <1>1 DEF CallInv, Calls
        <3>8. CASE /\ at' = "findings"
                   /\ call' = [call EXCEPT !.framework = n, !.rows = 0]
            <4>1. call' \in Calls /\ call'.first = call.first
                  /\ call'.framework = n
                BY <3>8, <3>1, <1>1 DEF Calls
            <4>2. Batch' = Batch
                BY <2>1, <4>1, BatchStays
            <4>3. frameworks_for(Batch)' = frameworks_for(Batch)
                BY <2>1, <4>2, FrameworksStay
            <4> QED
                BY <2>1, <2>4, <3>1, <3>5, <3>8, <4>1, <4>2, <4>3
                DEF CallInv, Calls
        <3> QED  BY <3>6, <3>7, <3>8
    <2> QED  BY <1>3, <2>2, <2>3, <2>4, Zenon DEF extraction
<1>4. CASE extract_findings
    <2>1. /\ at = "findings" /\ at' = "findings" /\ passages' = passages
          /\ request' = request /\ offered' = offered /\ RowRead
        BY <1>4 DEF extract_findings
    <2>2. /\ call' \in Calls /\ call'.first = call.first
          /\ call'.framework = call.framework
        BY <2>1, RowIsRead
    <2>3. Batch' = Batch
        BY <2>1, <2>2, BatchStays
    <2>4. frameworks_for(Batch)' = frameworks_for(Batch)
        BY <2>1, <2>3, FrameworksStay
    <2> QED  BY <2>1, <2>2, <2>3, <2>4 DEF CallInv, Calls
<1>5. CASE FindingsRead
    <2>1. /\ at = "findings" /\ at' = "extraction" /\ passages' = passages
          /\ offered' = offered
          /\ call' = [call EXCEPT !.framework = @ + 1]
        BY <1>5 DEF FindingsRead
    <2>2. call' \in Calls /\ call'.first = call.first
        BY <2>1, <1>1 DEF Calls
    <2> QED  BY <2>1, <2>2 DEF CallInv, Calls
<1>6. CASE inference
    <2>1. at = "inference" /\ offered' = offered /\ request' = request
        BY <1>6, Zenon DEF inference
    <2>2. CASE at' = "classification" /\ call' = FirstCall
        BY <2>1, <2>2, <1>1, CallIsMoved
    <2>3. CASE call' = [call EXCEPT !.framework = @ + 1] /\ UNCHANGED at
        <3>1. call' \in Calls
            BY <2>3, <1>1 DEF Calls
        <3> QED  BY <2>1, <2>3, <3>1, CallIsMoved
    <2>4. CASE /\ send("inferences", call.framework)
               /\ ~(call.framework > Len(Resolved))
        <3>1. call.framework \in DOMAIN Resolved
            BY <2>4, <1>1, ResolvedIsList
        <3>2. DOMAIN Resolved = DOMAIN Resolved'
            BY <2>1 DEF Resolved
        <3>3. \/ at' = "research failed" /\ call' = call
              \/ /\ at' = "inferences"
                 /\ call' = [call EXCEPT !.framework = call.framework, !.rows = 0]
            BY <2>4 DEF send
        <3>4. call' \in Calls /\ call'.framework = call.framework
            <4>1. LET c == [call EXCEPT !.framework = call.framework, !.rows = 0]
                  IN  c \in Calls /\ c.framework = call.framework
                BY <1>1 DEF Calls
            <4> QED  BY <3>3, <4>1, <1>1
        <3> QED  BY <2>1, <3>1, <3>2, <3>3, <3>4 DEF CallInv, Calls
    <2> QED  BY <1>6, <2>2, <2>3, <2>4, Zenon DEF inference
<1>7. CASE infer_findings
    <2>1. /\ at = "inferences" /\ at' = "inferences" /\ request' = request
          /\ offered' = offered /\ RowRead
        BY <1>7 DEF infer_findings
    <2>2. call' \in Calls /\ call'.framework = call.framework
        BY <2>1, RowIsRead
    <2>3. DOMAIN Resolved = DOMAIN Resolved'
        BY <2>1 DEF Resolved
    <2> QED  BY <2>1, <2>2, <2>3 DEF CallInv, Calls
<1>8. CASE InferencesRead
    <2>1. /\ at' = "inference" /\ offered' = offered
          /\ call' = [call EXCEPT !.framework = @ + 1]
        BY <1>8 DEF InferencesRead
    <2>2. call' \in Calls
        BY <2>1, <1>1 DEF Calls
    <2> QED  BY <2>1, <2>2, CallIsMoved
<1>9. CASE classification \/ synthesis
    <2>1. offered' = offered
        BY <1>9, Zenon DEF classification, synthesis
    <2>2. /\ at' \in {"synthesis", "saving research", "issues", "key issues",
                      "research failed"}
          /\ \/ call' = FirstCall \/ call' = call
             \/ call' = [call EXCEPT !.framework = 1, !.rows = 0]
        <3>1. CASE classification
            BY <3>1 DEF classification, send
        <3>2. CASE synthesis
            BY <3>2 DEF synthesis, send
        <3> QED  BY <1>9, <3>1, <3>2
    <2>3. call' \in Calls
        <3>1. [call EXCEPT !.framework = 1, !.rows = 0] \in Calls
            <4>1. 1 \in Nat \ {0} /\ 0 \in Nat
                OBVIOUS
            <4> QED  BY <4>1, <1>1 DEF Calls
        <3> QED  BY <2>2, <3>1, <1>1
    <2> QED  BY <2>1, <2>2, <2>3, CallIsMoved
<1>10. CASE classify_swot \/ derive_key_issues \/ read_mention
    <2>1. /\ at' \in {"issues", "key issues", "mentions"} /\ offered' = offered
          /\ RowRead
        BY <1>10 DEF classify_swot, derive_key_issues, read_mention
    <2> QED  BY <2>1, RowIsRead, CallIsMoved
<1>11. CASE IssuesRead
    <2>1. /\ at' = "classification" /\ offered' = offered
          /\ call' = [call EXCEPT !.first =
                          @ + Cardinality(batch_items(call.first))]
        BY <1>11 DEF IssuesRead
    <2>2. Cardinality(batch_items(call.first)) \in Nat
        <3>1. PICK b \in Int : batch_items(call.first) = call.first .. b
            BY <1>1, ResearchPolicyAssumption DEF batch_items, Lesser
        <3>2. Cardinality(call.first .. b) \in Nat
            <4>1. call.first \in Int
                BY <1>1
            <4>2. IsFiniteSet(call.first .. b)
                BY <4>1, FS_Interval
            <4> QED  BY <4>2, FS_CardinalityType
        <3> QED  BY <3>1, <3>2
    <2>3. call' \in Calls
        BY <2>1, <2>2, <1>1 DEF Calls
    <2> QED  BY <2>1, <2>3, CallIsMoved
<1>12. CASE KeyIssuesRead \/ persist_research \/ (UNCHANGED research /\ DiscoveryStep)
    <2>1. call' = call /\ offered' = offered
        BY <1>12, Zenon DEF KeyIssuesRead, persist_research, research
    <2>2. at' \notin {"extraction", "findings", "inferences"}
        <3>1. CASE KeyIssuesRead \/ persist_research
            BY <3>1 DEF KeyIssuesRead, persist_research
        <3>2. CASE DiscoveryStep
            BY <3>2, DiscoveryFrame DEF DiscoveryStages
        <3> QED  BY <1>12, <3>1, <3>2
    <2> QED  BY <2>1, <2>2, <1>1, CallIsMoved
<1>13. CASE find_organizations
    <2>1. /\ at' \in {"assessment", "mentions", "discovery failed"}
          /\ offered' = offered /\ (call' = call \/ call' = FirstCall)
        BY <1>13 DEF find_organizations, Ask
    <2> QED  BY <2>1, <1>1, CallIsMoved
<1>14. CASE build_criteria \/ MentionsRead \/ assess \/ persist_clients
    <2>1. research' = research /\ DiscoveryStep
        BY <1>14, Zenon DEF build_criteria, MentionsRead, assess,
            persist_clients, DiscoveryStep
    <2> QED  BY <2>1, <1>12
<1>15. CASE UNCHANGED vars
    <2>1. /\ call' = call /\ offered' = offered /\ at' = at
          /\ passages' = passages /\ request' = request
        BY <1>15 DEF vars, records, research
    <2>2. Batch' = Batch
        BY <2>1, BatchStays
    <2>3. frameworks_for(Batch)' = frameworks_for(Batch)
          /\ Resolved' = Resolved
        BY <2>1, <2>2, FrameworksStay
    <2> QED  BY <2>1, <2>2, <2>3 DEF CallInv
<1> QED
    BY <1>2, <1>3, <1>4, <1>5, <1>6, <1>7, <1>8, <1>9, <1>10, <1>11, <1>12,
       <1>13, <1>14, <1>15
    DEF Next, ResearchStep, DiscoveryStep

-----------------------------------------------------------------------------
(* Every passage is put to every framework *)

CallsOf(p, n) ==
    {c \in DOMAIN offered : offered[c].framework = n
                            /\ p \in offered[c].passages}

PutOnce(p, n) == \E c \in DOMAIN offered : CallsOf(p, n) = {c}

Settled(p, n) ==
    \/ PutOnce(p, n)
    \/ /\ CallsOf(p, n) = {} /\ Resolved[n] \in skipped
       /\ Resolved[n] \notin passages[p].topics

(* The frameworks of the batch the call was made for, or is being. *)
Begun(n) ==
    /\ IF at = "extraction" THEN n < call.framework ELSE n <= call.framework
    /\ n \in frameworks_for(Batch)

(* What lies before the batch is settled, what lies after it was not put   *)
(* to anything yet, and the batch itself only to the frameworks begun; what *)
(* it is not put to was reported by the first of them.                     *)
ReadInv ==
    /\ at \in {"extraction", "findings"} =>
          /\ \A p \in 1 .. call.first - 1, n \in DOMAIN Resolved : Settled(p, n)
          /\ \A p \in call.first .. Len(passages), n \in DOMAIN Resolved :
                IF p \in Batch /\ Begun(n) THEN PutOnce(p, n)
                ELSE CallsOf(p, n) = {}
          /\ (\E n \in DOMAIN Resolved : Begun(n)) =>
                Skipped(Batch) \subseteq skipped
    /\ at \in {"inference", "inferences"} =>
          \A p \in DOMAIN passages, n \in DOMAIN Resolved : Settled(p, n)

(* Once a passage was put to a framework, or spared it, it stays so. *)
LEMMA SettledStays ==
    ASSUME offered' = offered, skipped \subseteq skipped', passages' = passages,
           request' = request, NEW p, NEW n
    PROVE  /\ CallsOf(p, n)' = CallsOf(p, n)
           /\ PutOnce(p, n)' <=> PutOnce(p, n)
           /\ Settled(p, n) => Settled(p, n)'
<1>1. CallsOf(p, n)' = CallsOf(p, n)
    BY DEF CallsOf
<1>2. PutOnce(p, n)' <=> PutOnce(p, n)
    BY <1>1 DEF PutOnce
<1>3. Resolved' = Resolved
    BY DEF Resolved
<1> QED  BY <1>1, <1>2, <1>3 DEF Settled

(* A step that makes no call changes nothing of what was read. *)
LEMMA OnceBegunRead ==
    ASSUME ReadInv, offered' = offered, skipped' = skipped,
           passages' = passages, request' = request,
           call'.first = call.first,
           at \in {"extraction", "findings"}, at' \in {"extraction", "findings"},
           \A n \in DOMAIN Resolved : Begun(n)' <=> Begun(n),
           \A n : Begun(n)' => n \in DOMAIN Resolved
    PROVE  ReadInv'
<1>1. Batch' = Batch
    BY BatchStays
<1>2. /\ Resolved' = Resolved
      /\ Skipped(Batch)' = Skipped(Batch)
    BY <1>1, FrameworksStay
<1>3. \A p \in 1 .. call'.first - 1, n \in DOMAIN Resolved' : Settled(p, n)'
    BY <1>2, SettledStays DEF ReadInv
<1>4. ASSUME NEW p \in call'.first .. Len(passages'), NEW n \in DOMAIN Resolved'
      PROVE  (IF p \in Batch /\ Begun(n) THEN PutOnce(p, n)
              ELSE CallsOf(p, n) = {})'
    <2>1. /\ CallsOf(p, n)' = CallsOf(p, n)
          /\ PutOnce(p, n)' <=> PutOnce(p, n)
        BY SettledStays
    <2>2. IF p \in Batch /\ Begun(n) THEN PutOnce(p, n)
          ELSE CallsOf(p, n) = {}
        BY <1>2 DEF ReadInv
    <2>3. Begun(n)' <=> Begun(n)
        BY <1>2
    <2> QED  BY <1>1, <2>1, <2>2, <2>3
<1>5. ((\E n \in DOMAIN Resolved : Begun(n)) =>
          Skipped(Batch) \subseteq skipped)'
    <2> SUFFICES ASSUME NEW n, Begun(n)' PROVE Skipped(Batch)' \subseteq skipped'
        OBVIOUS
    <2>1. Begun(n)
        OBVIOUS
    <2> QED  BY <1>2, <2>1 DEF ReadInv
<1> QED  BY <1>3, <1>4, <1>5 DEF ReadInv

(* A framework the batch is not put to has none of its vocabulary there,   *)
(* and another one is put to it. *)
LEMMA SkippedIsSilent ==
    ASSUME request \in Requests, NEW batch, NEW n \in DOMAIN Resolved,
           n \notin frameworks_for(batch)
    PROVE  /\ \E k \in DOMAIN Resolved : k \in frameworks_for(batch)
           /\ Resolved[n] \in Skipped(batch)
           /\ \A p \in batch : Resolved[n] \notin passages[p].topics
<1> DEFINE kept == {k \in DOMAIN Resolved :
                       \E p \in batch : Resolved[k] \in passages[p].topics}
<1>1. /\ frameworks_for(batch) = shortlist(batch)
      /\ shortlist(batch) = IF kept = {} THEN DOMAIN Resolved ELSE kept
    BY DEF frameworks_for, shortlist
<1>2. kept # {} /\ frameworks_for(batch) = kept
    BY <1>1
<1> QED  BY <1>2 DEF Skipped

(* The next batch: all of this one is settled. *)
LEMMA NextBatchIsUnread ==
    ASSUME request \in Requests, SourcesInv, CallInv, ReadInv,
           at = "extraction", at' = "extraction",
           call.first <= Len(passages), FrameworksLeft = {},
           call' = [FirstCall EXCEPT !.first = next_batch(call.first)],
           offered' = offered, skipped' = skipped, passages' = passages,
           request' = request
    PROVE  ReadInv'
<1> DEFINE next == next_batch(call.first)
<1>1. /\ next \in call.first + 1 .. Len(passages) + 1
      /\ Len(passages) \in Nat /\ call.first \in Nat \ {0}
      /\ call.framework \in Nat
      /\ Batch = call.first .. next - 1
    BY BatchIsAhead DEF CallInv, Batch, batch_candidates
<1>2. call'.first = next /\ call'.framework = 1
    BY DEF FirstCall
<1>3. Resolved' = Resolved /\ DOMAIN Resolved = 1 .. Len(Resolved)
      /\ Len(Resolved) \in Nat
    BY FrameworksStay, ResolvedIsList
<1> HIDE DEF next
<1>4. \A n : n \in frameworks_for(Batch) => Begun(n)
    <2> SUFFICES ASSUME NEW n, n \in frameworks_for(Batch) PROVE Begun(n)
        OBVIOUS
    <2>1. n \in Nat /\ ~(n >= call.framework)
        BY <1>3, ResolvedIsList DEF FrameworksLeft
    <2> QED  BY <2>1, <1>1 DEF Begun
<1>5. ASSUME NEW p \in 1 .. next - 1, NEW n \in DOMAIN Resolved
      PROVE  Settled(p, n)
    <2>1. CASE p < call.first
        <3>1. p \in 1 .. call.first - 1
            BY <2>1, <1>1
        <3> QED  BY <3>1 DEF ReadInv
    <2>2. CASE ~(p < call.first)
        <3>1. p \in call.first .. Len(passages) /\ p \in Batch
            BY <2>2, <1>1
        <3>2. CASE n \in frameworks_for(Batch)
            BY <3>1, <3>2, <1>4 DEF ReadInv, Settled
        <3>3. CASE n \notin frameworks_for(Batch)
            <4>1. CallsOf(p, n) = {}
                BY <3>1, <3>3 DEF ReadInv, Begun
            <4>2. /\ \E k \in DOMAIN Resolved : k \in frameworks_for(Batch)
                  /\ Resolved[n] \in Skipped(Batch)
                  /\ Resolved[n] \notin passages[p].topics
                BY <3>1, <3>3, SkippedIsSilent
            <4>3. Skipped(Batch) \subseteq skipped
                BY <4>2, <1>4 DEF ReadInv
            <4> QED  BY <4>1, <4>2, <4>3 DEF Settled
        <3> QED  BY <3>2, <3>3
    <2> QED  BY <2>1, <2>2
<1>6. \A p \in 1 .. call'.first - 1, n \in DOMAIN Resolved' : Settled(p, n)'
    BY <1>2, <1>3, <1>5, SettledStays
<1>7. \A n : ~Begun(n)'
    <2> SUFFICES ASSUME NEW n, Begun(n)' PROVE FALSE
        OBVIOUS
    <2>1. n \in DOMAIN Resolved /\ n < 1
        <3>1. n \in frameworks_for(Batch)' /\ n < call'.framework
            BY DEF Begun
        <3>2. n \in DOMAIN Resolved'
            BY <3>1 DEF frameworks_for, shortlist
        <3> QED  BY <3>1, <3>2, <1>2, <1>3
    <2> QED  BY <2>1, <1>3
<1>8. ASSUME NEW p \in call'.first .. Len(passages'), NEW n \in DOMAIN Resolved'
      PROVE  CallsOf(p, n)' = {}
    <2>1. p \in call.first .. Len(passages) /\ p \notin Batch
        BY <1>1, <1>2
    <2>2. CallsOf(p, n) = {}
        BY <2>1, <1>3 DEF ReadInv
    <2> QED  BY <2>2, SettledStays
<1> QED  BY <1>6, <1>7, <1>8 DEF ReadInv

(* One more call: the batch is put to the least framework left. *)
LEMMA CallIsCounted ==
    ASSUME request \in Requests, SourcesInv, CallInv, ReadInv,
           at = "extraction", at' = "findings",
           call.first <= Len(passages), FrameworksLeft # {},
           call' = [call EXCEPT !.framework = First(FrameworksLeft), !.rows = 0],
           offered' = Append(offered, [framework |-> First(FrameworksLeft),
                                       passages |-> Batch]),
           skipped' = skipped \cup Skipped(Batch), passages' = passages,
           request' = request
    PROVE  ReadInv'
<1> DEFINE m == First(FrameworksLeft)
           last == Len(offered) + 1
<1>1. /\ Len(passages) \in Nat /\ call.first \in Nat \ {0}
      /\ call.framework \in Nat /\ call \in Calls
      /\ offered \in Seq([framework : Nat \ {0}, passages : SUBSET Nat])
      /\ Len(offered) \in Nat
      /\ Batch \in SUBSET (call.first .. Len(passages))
    <2>1. next_batch(call.first) \in call.first + 1 .. Len(passages) + 1
          /\ Len(passages) \in Nat /\ call.first \in Nat \ {0}
        BY BatchIsAhead DEF CallInv
    <2>2. Batch \in SUBSET (call.first .. Len(passages))
        BY <2>1 DEF Batch, batch_candidates
    <2> QED  BY <2>1, <2>2, LenProperties DEF CallInv, Calls
<1>2. /\ m \in frameworks_for(Batch) /\ m \in Nat /\ m >= call.framework
      /\ \A n \in frameworks_for(Batch) : n < m <=> n < call.framework
    <2>1. FrameworksLeft \in SUBSET Nat
          /\ frameworks_for(Batch) \in SUBSET Nat
        BY ResolvedIsList DEF FrameworksLeft
    <2>2. m \in FrameworksLeft /\ m \in Nat /\ \A n \in FrameworksLeft : m <= n
        BY <2>1, FirstIsLeast
    <2> HIDE DEF m
    <2>3. m \in frameworks_for(Batch) /\ m >= call.framework
        BY <2>2 DEF FrameworksLeft
    <2>4. ASSUME NEW n \in frameworks_for(Batch)
          PROVE  n < m <=> n < call.framework
        <3>1. n \in Nat
            BY <2>1
        <3>2. n >= call.framework => m <= n
            BY <2>2 DEF FrameworksLeft
        <3> QED  BY <3>1, <3>2, <2>2, <2>3, <1>1
    <2> QED  BY <2>2, <2>3, <2>4
<1> HIDE DEF m
<1>3. /\ call'.first = call.first /\ call'.framework = m
    BY <1>1 DEF Calls, m
<1>4. Batch' = Batch
    BY <1>3, BatchStays
<1>5. /\ Resolved' = Resolved
      /\ frameworks_for(Batch)' = frameworks_for(Batch)
      /\ Skipped(Batch)' = Skipped(Batch)
    BY <1>4, FrameworksStay
<1>6. ASSUME NEW p, NEW n
      PROVE  CallsOf(p, n)' = IF n = m /\ p \in Batch
                              THEN CallsOf(p, n) \cup {last} ELSE CallsOf(p, n)
    <2>1. /\ DOMAIN offered' = 1 .. last /\ DOMAIN offered = 1 .. Len(offered)
          /\ offered'[last] = [framework |-> m, passages |-> Batch]
          /\ \A c \in 1 .. Len(offered) : offered'[c] = offered[c]
        BY <1>1 DEF m
    <2>2. 1 .. last = (1 .. Len(offered)) \cup {last}
        BY <1>1
    <2>3. /\ offered'[last].framework = m /\ offered'[last].passages = Batch
        BY <2>1
    <2> QED  BY <2>1, <2>2, <2>3 DEF CallsOf
<1> HIDE DEF last
<1>7. ASSUME NEW n
      PROVE  /\ Begun(n)' <=> Begun(n) \/ n = m
             /\ ~Begun(m)
    <2>1. n \in frameworks_for(Batch) =>
              (n <= m <=> (n < call.framework \/ n = m))
        <3>1. frameworks_for(Batch) \in SUBSET Nat
            BY ResolvedIsList
        <3> QED  BY <3>1, <1>2
    <2>2. Begun(n) <=> n \in frameworks_for(Batch) /\ n < call.framework
        BY DEF Begun
    <2>3. Begun(n)' <=> n \in frameworks_for(Batch) /\ n <= m
        BY <1>3, <1>5 DEF Begun
    <2>4. ~(m < call.framework)
        BY <1>2, <1>1
    <2> QED  BY <2>1, <2>2, <2>3, <2>4, <1>2 DEF Begun
<1>8. ASSUME NEW p \in 1 .. call'.first - 1, NEW n \in DOMAIN Resolved'
      PROVE  Settled(p, n)'
    <2>1. Settled(p, n)
        BY <1>3, <1>5 DEF ReadInv
    <2>2. p \notin Batch
        BY <1>1, <1>3
    <2>3. CallsOf(p, n)' = CallsOf(p, n)
        BY <2>2, <1>6
    <2>4. skipped \subseteq skipped'
        OBVIOUS
    <2> QED  BY <2>1, <2>3, <2>4, <1>5 DEF Settled, PutOnce
<1>9. ASSUME NEW p \in call'.first .. Len(passages'), NEW n \in DOMAIN Resolved'
      PROVE  (IF p \in Batch /\ Begun(n) THEN PutOnce(p, n)
              ELSE CallsOf(p, n) = {})'
    <2>1. IF p \in Batch /\ Begun(n) THEN PutOnce(p, n)
          ELSE CallsOf(p, n) = {}
        BY <1>3, <1>5 DEF ReadInv
    <2>2. CASE p \in Batch /\ n = m
        <3>1. CallsOf(p, n)' = {last}
            BY <2>1, <2>2, <1>6, <1>7
        <3>2. Begun(n)' /\ p \in Batch'
            BY <2>2, <1>4, <1>7
        <3>3. last \in DOMAIN offered'
            BY <3>1 DEF CallsOf
        <3> QED  BY <3>1, <3>2, <3>3 DEF PutOnce
    <2>3. CASE ~(p \in Batch /\ n = m)
        <3>1. CallsOf(p, n)' = CallsOf(p, n)
            BY <2>3, <1>6
        <3>2. p \in Batch' /\ Begun(n)' <=> p \in Batch /\ Begun(n)
            BY <2>3, <1>4, <1>7
        <3> QED  BY <2>1, <3>1, <3>2 DEF PutOnce
    <2> QED  BY <2>2, <2>3
<1>10. Skipped(Batch)' \subseteq skipped'
    BY <1>5
<1> QED  BY <1>8, <1>9, <1>10 DEF ReadInv

(* No step puts a passage to a framework twice or forgets it. *)
LEMMA ReadNext ==
    ASSUME IntakeInv, SourcesInv, StageInv, CallInv, ReadInv, [Next]_vars
    PROVE  ReadInv'
<1>1. request \in Requests
    BY DEF IntakeInv
<1>2. CASE (IntakeStep \/ SearchStep) /\ UNCHANGED research
    <2>1. /\ at' \in IntakeStages \cup {"extraction", "done"}
          /\ call' = FirstCall /\ offered' = <<>> /\ skipped' = {}
          /\ request' = request
        BY <1>2, IntakeFrame DEF StageInv, research
    <2>2. CASE at' = "extraction"
        <3>1. \A n : ~Begun(n)'
            <4> SUFFICES ASSUME NEW n, Begun(n)' PROVE FALSE
                OBVIOUS
            <4>1. n \in frameworks_for(Batch)' /\ n < call'.framework
                BY <2>2 DEF Begun
            <4>2. n \in DOMAIN Resolved'
                BY <4>1 DEF frameworks_for, shortlist
            <4>3. Resolved' = Resolved /\ n \in Nat \ {0}
                BY <4>2, <2>1, <1>1, ResolvedIsList DEF Resolved
            <4> QED  BY <4>1, <4>3, <2>1 DEF FirstCall
        <3>2. \A p, n : CallsOf(p, n)' = {}
            BY <2>1 DEF CallsOf
        <3>3. 1 .. call'.first - 1 = {}
            BY <2>1 DEF FirstCall
        <3> QED  BY <2>2, <3>1, <3>2, <3>3 DEF ReadInv
    <2>3. CASE at' # "extraction"
        BY <2>1, <2>3 DEF ReadInv, IntakeStages
    <2> QED  BY <2>2, <2>3
<1>3. CASE extraction
    <2>1. /\ at = "extraction" /\ passages' = passages /\ request' = request
          /\ call.first \in 1 .. Len(passages) + 1
        BY <1>3, Zenon DEF extraction, CallInv
    <2>2. CASE /\ call.first > Len(passages)
               /\ at' = "inference" /\ call' = FirstCall
               /\ UNCHANGED <<offered, skipped>>
        <3>1. DOMAIN passages = 1 .. call.first - 1
            <4>1. Len(passages) \in Nat /\ DOMAIN passages = 1 .. Len(passages)
                BY LenProperties DEF SourcesInv
            <4> QED  BY <4>1, <2>1, <2>2
        <3>2. \A p \in DOMAIN passages, n \in DOMAIN Resolved : Settled(p, n)
            BY <2>1, <3>1 DEF ReadInv
        <3>3. Resolved' = Resolved
            BY <2>1 DEF Resolved
        <3>4. offered' = offered /\ skipped \subseteq skipped'
            BY <2>2
        <3>5. \A p \in DOMAIN passages', n \in DOMAIN Resolved' : Settled(p, n)'
            BY <2>1, <3>2, <3>3, <3>4, SettledStays
        <3> QED  BY <2>2, <3>5 DEF ReadInv
    <2>3. CASE /\ call.first <= Len(passages) /\ FrameworksLeft = {}
               /\ call' = [FirstCall EXCEPT !.first = next_batch(call.first)]
               /\ UNCHANGED <<at, offered, skipped>>
        BY <1>1, <2>1, <2>3, NextBatchIsUnread
    <2>4. CASE /\ call.first <= Len(passages) /\ FrameworksLeft # {}
               /\ send("findings", First(FrameworksLeft))
               /\ offered' = Append(offered,
                                [framework |-> First(FrameworksLeft),
                                 passages |-> Batch])
               /\ skipped' = skipped \cup Skipped(Batch)
        <3>1. CASE at' = "findings"
            <4>1. call' = [call EXCEPT !.framework = First(FrameworksLeft),
                                       !.rows = 0]
                BY <2>4, <3>1 DEF send
            <4> QED  BY <1>1, <2>1, <2>4, <3>1, <4>1, CallIsCounted
        <3>2. CASE at' = "research failed"
            BY <3>2 DEF ReadInv
        <3> QED  BY <2>4, <3>1, <3>2 DEF send
    <2> QED  BY <1>3, <2>2, <2>3, <2>4, Zenon DEF extraction
<1>4. CASE extract_findings \/ FindingsRead
    <2>1. /\ passages' = passages /\ request' = request /\ offered' = offered
          /\ skipped' = skipped /\ call'.first = call.first
          /\ at = "findings" /\ at' \in {"extraction", "findings"}
          /\ call'.framework \in Nat /\ call.framework \in Nat
          /\ at' = "findings" => call'.framework = call.framework
          /\ at' = "extraction" => call'.framework = call.framework + 1
        <3>1. call \in Calls
            BY DEF CallInv, Calls
        <3>2. CASE extract_findings
            BY <3>1, <3>2, RowIsRead DEF extract_findings, Calls
        <3>3. CASE FindingsRead
            BY <3>1, <3>3 DEF FindingsRead, Calls
        <3> QED  BY <1>4, <3>2, <3>3
    <2>2. /\ Batch' = Batch /\ Resolved' = Resolved
          /\ frameworks_for(Batch)' = frameworks_for(Batch)
          /\ frameworks_for(Batch) \in SUBSET DOMAIN Resolved
          /\ DOMAIN Resolved \in SUBSET Nat
        BY <1>1, <2>1, BatchStays, FrameworksStay, ResolvedIsList
    <2>3. ASSUME NEW n \in DOMAIN Resolved
          PROVE  Begun(n)' <=> Begun(n)
        <3>1. n \in Nat
            BY <2>2
        <3> QED  BY <2>1, <2>2, <3>1 DEF Begun
    <2>4. \A n : Begun(n)' => n \in DOMAIN Resolved
        BY <2>2 DEF Begun
    <2> QED  BY <2>1, <2>3, <2>4, OnceBegunRead
<1>5. CASE inference \/ infer_findings \/ InferencesRead
    <2>1. /\ passages' = passages /\ request' = request /\ offered' = offered
          /\ skipped' = skipped /\ at \in {"inference", "inferences"}
        BY <1>5, Zenon DEF inference, infer_findings, InferencesRead
    <2>2. at' \notin {"extraction", "findings"}
        <3>1. CASE inference
            <4>1. at' \in {"classification", "inference", "inferences",
                           "research failed"}
                BY <3>1, <2>1 DEF inference, send
            <4> QED  BY <4>1
        <3>2. CASE infer_findings \/ InferencesRead
            BY <3>2 DEF infer_findings, InferencesRead
        <3> QED  BY <1>5, <3>1, <3>2
    <2>3. Resolved' = Resolved
        BY <2>1 DEF Resolved
    <2>4. \A p \in DOMAIN passages', n \in DOMAIN Resolved' : Settled(p, n)'
        BY <2>1, <2>3, SettledStays DEF ReadInv
    <2> QED  BY <2>2, <2>4 DEF ReadInv
<1>6. CASE classification \/ synthesis
    <2>1. at' \in {"synthesis", "saving research", "issues", "key issues",
                   "research failed"}
        <3>1. CASE classification
            BY <3>1 DEF classification, send
        <3>2. CASE synthesis
            BY <3>2 DEF synthesis, send
        <3> QED  BY <1>6, <3>1, <3>2
    <2> QED  BY <2>1 DEF ReadInv
<1>7. CASE classify_swot \/ IssuesRead \/ derive_key_issues \/ KeyIssuesRead
           \/ persist_research
    <2>1. at' \notin {"extraction", "findings", "inference", "inferences"}
        BY <1>7 DEF classify_swot, IssuesRead, derive_key_issues,
                    KeyIssuesRead, persist_research
    <2> QED  BY <2>1 DEF ReadInv
<1>8. CASE DiscoveryStep
    BY <1>8, DiscoveryFrame DEF ReadInv, DiscoveryStages
<1>9. CASE UNCHANGED vars
    <2>1. /\ passages' = passages /\ request' = request /\ offered' = offered
          /\ skipped' = skipped /\ call' = call /\ at' = at
        BY <1>9 DEF vars, records, research
    <2>2. /\ Batch' = Batch /\ Resolved' = Resolved
          /\ frameworks_for(Batch)' = frameworks_for(Batch)
          /\ frameworks_for(Batch) \in SUBSET DOMAIN Resolved
        BY <1>1, <2>1, BatchStays, FrameworksStay, ResolvedIsList
    <2>3. CASE at \in {"extraction", "findings"}
        <3>1. \A n : (Begun(n)' <=> Begun(n)) /\ (Begun(n)' => n \in DOMAIN Resolved)
            BY <2>1, <2>2 DEF Begun
        <3> QED  BY <2>1, <2>3, <3>1, OnceBegunRead
    <2>4. CASE at \notin {"extraction", "findings"}
        <3>1. at \in {"inference", "inferences"} =>
                  \A p \in DOMAIN passages', n \in DOMAIN Resolved' :
                      Settled(p, n)'
            BY <2>1, <2>2, SettledStays DEF ReadInv
        <3> QED  BY <2>1, <2>4, <3>1 DEF ReadInv
    <2> QED  BY <2>3, <2>4
<1> QED
    BY <1>2, <1>3, <1>4, <1>5, <1>6, <1>7, <1>8, <1>9 DEF Next, ResearchStep

(* What is settled is what is promised. *)
LEMMA SettledIsRead ==
    ASSUME ReadInv
    PROVE  EveryPassageIsRead
<1> SUFFICES ASSUME at = "inference",
                    NEW p \in DOMAIN passages, NEW n \in DOMAIN Resolved
             PROVE  \/ Cardinality(CallsOf(p, n)) = 1
                    \/ /\ CallsOf(p, n) = {} /\ Resolved[n] \in skipped
                       /\ Resolved[n] \notin passages[p].topics
    BY DEF EveryPassageIsRead, CallsOf
<1>1. Settled(p, n)
    BY DEF ReadInv
<1> QED  BY <1>1, FS_Singleton DEF Settled, PutOnce

-----------------------------------------------------------------------------
(* Levels of confidence *)

(* The four levels as numbers. *)
LEMMA RankValues ==
    /\ rank("UNKNOWN") = 0 /\ rank("LOW") = 1
    /\ rank("MEDIUM") = 2 /\ rank("HIGH") = 3
BY DEF rank

(* Each level has one of four ranks. *)
LEMMA RankType == \A l \in Levels : rank(l) \in 0 .. 3
BY RankValues DEF Levels

(* A capped level is no higher than the one it came from or its ceiling. *)
LEMMA CapLowers ==
    ASSUME NEW p \in Levels, NEW c \in Levels
    PROVE  /\ cap(p, c) \in Levels
           /\ rank(cap(p, c)) <= rank(p) /\ rank(cap(p, c)) <= rank(c)
<1>1. rank(p) \in 0 .. 3 /\ rank(c) \in 0 .. 3
    BY RankType
<1> QED  BY <1>1 DEF cap

(* The weakest of some levels is one of them, and no other is weaker. *)
LEMMA WeakestIsLeast ==
    ASSUME NEW S \in SUBSET Levels
    PROVE  /\ weakest(S) \in Levels
           /\ \A k \in S : rank(weakest(S)) <= rank(k)
<1> DEFINE Least(l) == \A k \in S : rank(l) <= rank(k)
<1>1. CASE S = {}
    BY <1>1 DEF weakest, Levels
<1>2. CASE S # {}
    <2>1. \E l \in S : Least(l)
        <3>1. CASE "UNKNOWN" \in S
            BY <3>1, RankValues, RankType
        <3>2. CASE "UNKNOWN" \notin S /\ "LOW" \in S
            BY <3>2, RankValues DEF Levels
        <3>3. CASE "UNKNOWN" \notin S /\ "LOW" \notin S /\ "MEDIUM" \in S
            BY <3>3, RankValues DEF Levels
        <3>4. CASE S = {"HIGH"}
            BY <3>4, RankValues
        <3> QED  BY <1>2, <3>1, <3>2, <3>3, <3>4 DEF Levels
    <2> QED  BY <1>2, <2>1 DEF weakest
<1> QED  BY <1>1, <1>2

(* The ceiling of a fact is a level. *)
LEMMA CeilingIsALevel ==
    \A s, l : FactCeiling(s, l) \in Levels
BY DEF FactCeiling, Levels

-----------------------------------------------------------------------------
(* Findings *)

(* A finding rests on what was found before it and is no firmer: a fact on *)
(* its source, an inference on facts. *)
Grounded(f, n) ==
    /\ check_finding(f, 1 .. n - 1)
    /\ f.evidence_type = "FACT" =>
          /\ f.source_id \in DOMAIN sources
          /\ \E k \in DOMAIN Resolved : f.mn_basis = {Resolved[k]}
          /\ rank(f.confidence) <= rank(FactCeiling(sources[f.source_id],
                                                    f.locator))
    /\ \A i \in f.supporting :
          /\ findings[i].evidence_type = "FACT"
          /\ rank(f.confidence) <= rank(findings[i].confidence)

FindingsInv ==
    /\ findings \in Seq(Findings)
    /\ \A n \in DOMAIN findings : Grounded(findings[n], n)

(* What a reference cites is in the list. *)
LEMMA CitedIsListed ==
    \A listed, refs : Cited(listed, refs) \subseteq listed
BY DEF Cited

(* What an answer to extraction adds: nothing, or a finding of the call's  *)
(* framework, and of a passage it was shown when it is a fact.             *)
LEMMA ExtractedIsGrounded ==
    ASSUME request \in Requests, SourcesInv, NEW n \in Nat \ {0},
           NEW draft \in request.answers.findings,
           NEW k \in DOMAIN Resolved, NEW block \in SUBSET DOMAIN passages
    PROVE  \/ Extracted(draft, Resolved[k], block) = <<>>
           \/ \E f \in Findings :
                 /\ Extracted(draft, Resolved[k], block) = <<f>>
                 /\ Grounded(f, n) /\ f.supporting = {}
                 /\ f.source_id # 0 =>
                       \E p \in block : /\ passages[p].source_id = f.source_id
                                        /\ passages[p].locator = f.locator
<1> DEFINE cited == Cited(block, {draft.ref})
           passage == passages[First(cited)]
           fact == draft.evidence_type = "FACT"
           ceiling == ceiling_for(draft.evidence_type,
                          IF fact THEN FactCeiling(sources[passage.source_id],
                                                   passage.locator)
                          ELSE "UNKNOWN", {})
           f == [evidence_type |-> draft.evidence_type,
                 confidence |-> cap(draft.confidence, ceiling),
                 mn_basis |-> {Resolved[k]},
                 source_id |-> IF fact THEN passage.source_id ELSE 0,
                 locator |-> IF fact THEN passage.locator ELSE NoLocator,
                 supporting |-> {},
                 gap |-> draft.evidence_type = "MISSING_EVIDENCE"
                         \/ draft.summary]
<1>1. Extracted(draft, Resolved[k], block)
        = IF \/ draft.evidence_type \notin
                  {"FACT", "ASSUMPTION", "MISSING_EVIDENCE"}
             \/ fact /\ cited = {}
          THEN <<>> ELSE <<f>>
    BY DEF Extracted
<1> SUFFICES ASSUME draft.evidence_type \in
                        {"FACT", "ASSUMPTION", "MISSING_EVIDENCE"},
                    fact => cited # {}
             PROVE  /\ f \in Findings /\ Grounded(f, n)
                    /\ f.source_id # 0 =>
                          \E p \in block :
                              /\ passages[p].source_id = f.source_id
                              /\ passages[p].locator = f.locator
    BY <1>1
<1>2. fact => /\ First(cited) \in block
              /\ passage.source_id \in DOMAIN sources
              /\ passage.source_id \in Nat \ {0} /\ passage.locator \in Locators
    <2> SUFFICES ASSUME fact
                 PROVE  /\ First(cited) \in block
                        /\ passage.source_id \in DOMAIN sources
                        /\ passage.source_id \in Nat \ {0}
                        /\ passage.locator \in Locators
        OBVIOUS
    <2>1. /\ DOMAIN passages = 1 .. Len(passages) /\ Len(passages) \in Nat
          /\ DOMAIN sources = 1 .. Len(sources) /\ Len(sources) \in Nat
          /\ \A p \in DOMAIN passages : passages[p] \in Passages
        BY LenProperties, ElementOfSeq DEF SourcesInv
    <2>2. cited \in SUBSET Nat /\ cited # {} /\ cited \subseteq block
        <3>1. cited \subseteq block
            BY CitedIsListed
        <3>2. cited # {}
            OBVIOUS
        <3> HIDE DEF cited
        <3> QED  BY <2>1, <3>1, <3>2
    <2>3. First(cited) \in block
        <3> HIDE DEF cited
        <3> QED  BY <2>2, FirstIsLeast
    <2> QED  BY <2>1, <2>3 DEF SourcesInv, Passages
<1>3. draft.confidence \in Levels /\ draft.summary \in BOOLEAN
    BY AnswersAssumption
<1>4. /\ ceiling \in Levels
      /\ fact => ceiling = FactCeiling(sources[passage.source_id],
                                       passage.locator)
    <2> HIDE DEF passage
    <2> QED  BY CeilingIsALevel DEF ceiling_for, Levels
<1> HIDE DEF cited, passage, ceiling
<1>5. cap(draft.confidence, ceiling) \in Levels
      /\ rank(cap(draft.confidence, ceiling)) <= rank(ceiling)
    BY <1>3, <1>4, CapLowers
<1>6. /\ {Resolved[k]} \in SUBSET Frameworks
      /\ NoLocator \in Locators
    BY DEF Frameworks, Locators
<1>7. f \in Findings
    <2>1. f.gap \in BOOLEAN
        BY <1>3
    <2> QED  BY <1>2, <1>5, <1>6, <2>1 DEF Findings
<1>8. check_finding(f, 1 .. n - 1)
    BY <1>2 DEF check_finding
<1>9. Grounded(f, n)
    BY <1>2, <1>4, <1>5, <1>8 DEF Grounded
<1>10. ASSUME f.source_id # 0
       PROVE  \E p \in block : /\ passages[p].source_id = f.source_id
                              /\ passages[p].locator = f.locator
    <2>1. fact
        BY <1>10
    <2>2. /\ f.source_id = passage.source_id /\ f.locator = passage.locator
        BY <2>1
    <2> QED  BY <1>2, <2>1, <2>2 DEF passage
<1> QED  BY <1>7, <1>9, <1>10

(* What an answer to inference adds: nothing, or a finding on facts of the *)
(* call's framework. *)
LEMMA InferredIsGrounded ==
    ASSUME FindingsInv, NEW k \in DOMAIN Resolved, NEW draft,
           draft.confidence \in Levels
    PROVE  \/ Inferred(draft, Resolved[k]) = <<>>
           \/ \E f \in Findings :
                 /\ Inferred(draft, Resolved[k]) = <<f>>
                 /\ Grounded(f, Len(findings) + 1) /\ f.source_id = 0
                 /\ \A i \in f.supporting :
                       i \in DOMAIN findings /\ findings[i].mn_basis = {Resolved[k]}
<1> DEFINE supports == Cited(Scoped(Resolved[k]), draft.refs)
           levels == {findings[i].confidence : i \in supports}
           ceiling == ceiling_for("INFERENCE", "HIGH", levels)
           f == [evidence_type |-> "INFERENCE",
                 confidence |-> cap(draft.confidence, ceiling),
                 mn_basis |-> {Resolved[k]}, source_id |-> 0,
                 locator |-> NoLocator, supporting |-> supports, gap |-> FALSE]
<1>1. Inferred(draft, Resolved[k])
        = IF supports = {} THEN <<>> ELSE <<f>>
    BY DEF Inferred
<1> SUFFICES ASSUME supports # {}
             PROVE  /\ f \in Findings
                    /\ Grounded(f, Len(findings) + 1) /\ f.source_id = 0
                    /\ \A i \in f.supporting :
                          /\ i \in DOMAIN findings
                          /\ findings[i].mn_basis = {Resolved[k]}
    BY <1>1
<1>2. /\ Len(findings) \in Nat /\ DOMAIN findings = 1 .. Len(findings)
      /\ \A i \in DOMAIN findings : findings[i] \in Findings
    BY LenProperties, ElementOfSeq DEF FindingsInv
<1>3. ASSUME NEW i \in supports
      PROVE  /\ i \in DOMAIN findings /\ i \in Nat
             /\ findings[i].evidence_type = "FACT"
             /\ findings[i].mn_basis = {Resolved[k]}
             /\ findings[i].confidence \in Levels
    <2>1. i \in Scoped(Resolved[k])
        BY CitedIsListed
    <2>2. /\ i \in DOMAIN findings /\ findings[i].evidence_type = "FACT"
          /\ Resolved[k] \in findings[i].mn_basis
        BY <2>1 DEF Scoped
    <2>3. PICK j \in DOMAIN Resolved : findings[i].mn_basis = {Resolved[j]}
        BY <2>2 DEF FindingsInv, Grounded
    <2> QED  BY <1>2, <2>2, <2>3 DEF Findings
<1>4. ceiling = weakest(levels)
    BY DEF ceiling_for
<1> HIDE DEF supports
<1>5. levels \in SUBSET Levels
    BY <1>3
<1> HIDE DEF levels, ceiling
<1>6. ceiling \in Levels /\ \A l \in levels : rank(ceiling) <= rank(l)
    BY <1>4, <1>5, WeakestIsLeast
<1>7. cap(draft.confidence, ceiling) \in Levels
      /\ rank(cap(draft.confidence, ceiling)) <= rank(ceiling)
    BY <1>6, CapLowers
<1>8. ASSUME NEW i \in supports
      PROVE  rank(cap(draft.confidence, ceiling)) <= rank(findings[i].confidence)
    <2>1. findings[i].confidence \in levels
        BY DEF levels
    <2>2. rank(ceiling) <= rank(findings[i].confidence)
        BY <1>6, <2>1
    <2>3. /\ rank(findings[i].confidence) \in 0 .. 3 /\ rank(ceiling) \in 0 .. 3
          /\ rank(cap(draft.confidence, ceiling)) \in 0 .. 3
        BY <1>3, <1>6, <1>7, RankType
    <2> QED  BY <1>7, <2>2, <2>3
<1>9. f \in Findings
    <2>1. /\ {Resolved[k]} \in SUBSET Frameworks /\ NoLocator \in Locators
          /\ supports \in SUBSET Nat
        BY <1>3 DEF Frameworks, Locators
    <2> QED  BY <1>7, <2>1 DEF Findings
<1>10. supports \subseteq 1 .. (Len(findings) + 1) - 1
    BY <1>2, <1>3
<1>11. check_finding(f, 1 .. (Len(findings) + 1) - 1)
    BY <1>10 DEF check_finding
<1>12. Grounded(f, Len(findings) + 1)
    BY <1>3, <1>8, <1>11 DEF Grounded
<1> QED  BY <1>3, <1>9, <1>12

(* A grounded finding at the end leaves the others as they are. *)
LEMMA FindingIsAdded ==
    ASSUME FindingsInv, NEW f \in Findings, Grounded(f, Len(findings) + 1),
           findings' = findings \o <<f>>, sources' = sources, request' = request,
           passages' = passages
    PROVE  FindingsInv'
<1>1. /\ findings \in Seq(Findings) /\ Len(findings) \in Nat
      /\ DOMAIN findings = 1 .. Len(findings)
    BY LenProperties DEF FindingsInv
<1>2. /\ findings' \in Seq(Findings)
      /\ DOMAIN findings' = 1 .. Len(findings) + 1
      /\ findings'[Len(findings) + 1] = f
      /\ \A i \in 1 .. Len(findings) : findings'[i] = findings[i]
    BY <1>1
<1>3. Findings' = Findings /\ Resolved' = Resolved
    BY FrameworksStay
<1>4. ASSUME NEW g, NEW n \in 1 .. Len(findings) + 1, Grounded(g, n)
      PROVE  Grounded(g, n)'
    <2>1. ASSUME NEW i \in g.supporting PROVE findings'[i] = findings[i]
        <3>1. g.supporting # {} => g.supporting \subseteq 1 .. n - 1
            BY <1>4 DEF Grounded, check_finding
        <3>2. i \in 1 .. Len(findings)
            BY <1>1, <3>1
        <3> QED  BY <1>2, <3>2
    <2> QED  BY <1>3, <1>4, <2>1 DEF Grounded, check_finding, FactCeiling,
                _is_unverified_snippet, _authority_known, _is_recent
<1>5. ASSUME NEW n \in DOMAIN findings' PROVE Grounded(findings[n], n)'
    <2>1. CASE n = Len(findings) + 1
        BY <1>2, <1>4, <2>1
    <2>2. CASE n # Len(findings) + 1
        <3>1. n \in DOMAIN findings /\ n \in 1 .. Len(findings) + 1
              /\ findings'[n] = findings[n]
            BY <1>1, <1>2, <2>2
        <3>2. Grounded(findings[n], n)
            BY <3>1 DEF FindingsInv
        <3> QED  BY <3>1, <3>2, <1>4
    <2> QED  BY <2>1, <2>2
<1>6. (\A n \in DOMAIN findings : Grounded(findings[n], n))'
    BY <1>5
<1> QED  BY <1>2, <1>3, <1>6 DEF FindingsInv

(* A step that adds no finding leaves each as well founded as it was. *)
LEMMA FindingsStay ==
    ASSUME FindingsInv, findings' = findings, sources' = sources,
           request' = request, passages' = passages
    PROVE  FindingsInv'
<1>1. Findings' = Findings /\ Resolved' = Resolved
    BY FrameworksStay
<1>2. ASSUME NEW n \in DOMAIN findings' PROVE Grounded(findings[n], n)'
    <2>1. Grounded(findings[n], n)
        BY <1>2 DEF FindingsInv
    <2> QED  BY <1>1, <2>1 DEF Grounded, check_finding, FactCeiling,
                _is_unverified_snippet, _authority_known, _is_recent
<1>3. (\A n \in DOMAIN findings : Grounded(findings[n], n))'
    BY <1>2
<1> QED  BY <1>1, <1>3 DEF FindingsInv

(* What an answer to extraction or inference adds, if anything. *)
LEMMA ExtractionAdds ==
    ASSUME request \in Requests, SourcesInv, CallInv, FindingsInv,
           extract_findings
    PROVE  \/ findings' = findings
           \/ \E f \in Findings :
                 /\ findings' = findings \o <<f>>
                 /\ Grounded(f, Len(findings) + 1) /\ f.supporting = {}
                 /\ f.source_id # 0 =>
                       \E p \in offered[Len(offered)].passages :
                           /\ passages[p].source_id = f.source_id
                           /\ passages[p].locator = f.locator
<1>1. /\ at = "findings" /\ call.framework \in DOMAIN Resolved
      /\ call.first <= Len(passages) /\ call.first \in Nat \ {0}
      /\ offered[Len(offered)].passages = Batch
    BY ResolvedIsList DEF extract_findings, CallInv
<1>2. Batch \in SUBSET DOMAIN passages
    BY <1>1, BatchIsAhead DEF Batch
<1>3. findings \in Seq(Findings) /\ Len(findings) + 1 \in Nat \ {0}
    BY LenProperties DEF FindingsInv
<1>4. PICK draft \in request.answers.findings :
          findings' = findings \o Extracted(draft, Resolved[call.framework], Batch)
    BY DEF extract_findings
<1>5. CASE Extracted(draft, Resolved[call.framework], Batch) = <<>>
    <2>1. findings \o <<>> = findings
        BY <1>3
    <2> QED  BY <1>4, <1>5, <2>1
<1>6. CASE Extracted(draft, Resolved[call.framework], Batch) # <<>>
    <2>1. PICK f \in Findings :
             /\ Extracted(draft, Resolved[call.framework], Batch) = <<f>>
             /\ Grounded(f, Len(findings) + 1) /\ f.supporting = {}
             /\ f.source_id # 0 =>
                   \E p \in Batch : /\ passages[p].source_id = f.source_id
                                    /\ passages[p].locator = f.locator
        BY <1>1, <1>2, <1>3, <1>6, ExtractedIsGrounded
    <2> QED  BY <1>1, <1>4, <2>1
<1> QED  BY <1>5, <1>6

(* What an answer to inference adds: nothing, or an inference over facts   *)
(* of the framework of the call.                                           *)
LEMMA InferenceAdds ==
    ASSUME request \in Requests, CallInv, FindingsInv, infer_findings
    PROVE  \/ findings' = findings
           \/ \E f \in Findings :
                 /\ findings' = findings \o <<f>>
                 /\ Grounded(f, Len(findings) + 1) /\ f.source_id = 0
                 /\ \A i \in f.supporting :
                       /\ i \in DOMAIN findings
                       /\ findings[i].mn_basis = {Resolved[call.framework]}
<1>1. call.framework \in DOMAIN Resolved
    BY DEF infer_findings, CallInv
<1>2. findings \in Seq(Findings)
    BY DEF FindingsInv
<1>3. PICK draft \in request.answers.inferences :
          findings' = findings \o Inferred(draft, Resolved[call.framework])
    BY DEF infer_findings
<1>4. draft.confidence \in Levels
    BY AnswersAssumption
<1>5. CASE Inferred(draft, Resolved[call.framework]) = <<>>
    <2>1. findings \o <<>> = findings
        BY <1>2
    <2> QED  BY <1>3, <1>5, <2>1
<1>6. CASE Inferred(draft, Resolved[call.framework]) # <<>>
    <2>1. PICK f \in Findings :
             /\ Inferred(draft, Resolved[call.framework]) = <<f>>
             /\ Grounded(f, Len(findings) + 1) /\ f.source_id = 0
             /\ \A i \in f.supporting :
                   /\ i \in DOMAIN findings
                   /\ findings[i].mn_basis = {Resolved[call.framework]}
        BY <1>1, <1>4, <1>6, InferredIsGrounded
    <2> QED  BY <1>3, <2>1
<1> QED  BY <1>5, <1>6

(* Every finding stays grounded in a passage or in facts before it. *)
LEMMA FindingsNext ==
    ASSUME IntakeInv, SourcesInv, StageInv, CallInv, FindingsInv, [Next]_vars
    PROVE  FindingsInv'
<1>1. request \in Requests
    BY DEF IntakeInv
<1>2. CASE (IntakeStep \/ SearchStep) /\ UNCHANGED research
    <2>1. findings' = <<>>
        BY <1>2, IntakeFrame DEF StageInv, research
    <2> QED  BY <2>1 DEF FindingsInv
<1>3. CASE extract_findings \/ infer_findings
    <2>1. sources' = sources /\ request' = request /\ passages' = passages
        BY <1>3 DEF extract_findings, infer_findings
    <2>2. \/ findings' = findings
          \/ \E f \in Findings : /\ findings' = findings \o <<f>>
                                 /\ Grounded(f, Len(findings) + 1)
        BY <1>1, <1>3, ExtractionAdds, InferenceAdds
    <2> QED  BY <2>1, <2>2, FindingsStay, FindingIsAdded
<1>4. CASE \/ extraction \/ FindingsRead \/ inference \/ InferencesRead
           \/ classification \/ classify_swot \/ IssuesRead \/ synthesis
           \/ derive_key_issues \/ KeyIssuesRead \/ persist_research
    <2>1. ResearchStep /\ findings' = findings
        BY <1>4, Zenon
        DEF ResearchStep, extraction, FindingsRead, inference, InferencesRead,
            classification, classify_swot, IssuesRead, synthesis,
            derive_key_issues, KeyIssuesRead, persist_research, research
    <2> QED  BY <2>1, ResearchFrame, FindingsStay
<1>5. CASE DiscoveryStep
    BY <1>5, DiscoveryFrame, FindingsStay
<1>6. CASE UNCHANGED vars
    BY <1>6, FindingsStay DEF vars, records, research
<1> QED
    BY <1>2, <1>3, <1>4, <1>5, <1>6 DEF Next, ResearchStep

-----------------------------------------------------------------------------
(* SWOT items and key issues *)

SwotItems == [finding_ids : SUBSET Nat, mn_basis : SUBSET Frameworks]

KeyIssues ==
    [swot_issue_ids : SUBSET Nat, finding_ids : SUBSET Nat,
     confidence : Levels, mn_basis : SUBSET Frameworks, implication : BOOLEAN]

(* A key issue is no firmer than what is behind its items. *)
Founded(issue) ==
    /\ check_key_issue(issue, DOMAIN swot, DOMAIN findings)
    /\ \A s \in issue.swot_issue_ids : \A i \in swot[s].finding_ids :
          rank(issue.confidence) <= rank(findings[i].confidence)

IssuesInv ==
    /\ swot \in Seq(SwotItems)
    /\ \A s \in DOMAIN swot : check_swot_issue(swot[s], DOMAIN findings)
    /\ key_issues \in Seq(KeyIssues)
    /\ \A k \in DOMAIN key_issues : Founded(key_issues[k])

(* An element put at the end of a list leaves the others where they are. *)
LEMMA AppendedLast ==
    ASSUME NEW S, NEW q \in Seq(S), NEW x \in S
    PROVE  /\ q \o <<x>> \in Seq(S) /\ DOMAIN q \subseteq DOMAIN (q \o <<x>>)
           /\ \A n \in DOMAIN q : (q \o <<x>>)[n] = q[n]
           /\ \A n \in DOMAIN (q \o <<x>>) \ DOMAIN q : (q \o <<x>>)[n] = x
OBVIOUS

(* Findings and items are never changed or taken back. *)
NothingIsTakenBack ==
    /\ DOMAIN findings \subseteq DOMAIN findings'
    /\ \A n \in DOMAIN findings : findings'[n] = findings[n]
    /\ DOMAIN swot \subseteq DOMAIN swot'
    /\ \A n \in DOMAIN swot : swot'[n] = swot[n]

(* A key issue stays founded when findings and items are only added. *)
LEMMA FoundedStays ==
    ASSUME IssuesInv, NothingIsTakenBack, NEW issue, Founded(issue)
    PROVE  Founded(issue)'
<1>1. ASSUME NEW s \in issue.swot_issue_ids, NEW i \in swot'[s].finding_ids
      PROVE  /\ swot'[s] = swot[s] /\ i \in swot[s].finding_ids
             /\ findings'[i] = findings[i]
    <2>1. s \in DOMAIN swot
        BY DEF Founded, check_key_issue
    <2>2. swot'[s] = swot[s] /\ check_swot_issue(swot[s], DOMAIN findings)
        BY <2>1 DEF NothingIsTakenBack, IssuesInv
    <2> QED  BY <1>1, <2>2 DEF check_swot_issue, NothingIsTakenBack
<1>2. check_key_issue(issue, DOMAIN swot, DOMAIN findings)'
    BY DEF Founded, check_key_issue, NothingIsTakenBack
<1>3. \A s \in issue.swot_issue_ids : \A i \in swot'[s].finding_ids :
          rank(issue.confidence) <= rank(findings'[i].confidence)
    BY <1>1 DEF Founded
<1> QED  BY <1>2, <1>3 DEF Founded

(* So does an item. *)
LEMMA ItemStays ==
    ASSUME NothingIsTakenBack, NEW item, check_swot_issue(item, DOMAIN findings)
    PROVE  check_swot_issue(item, DOMAIN findings)'
BY DEF check_swot_issue, NothingIsTakenBack

(* The two sets of records name frameworks of the request. *)
LEMMA RecordsStay ==
    ASSUME passages' = passages, request' = request
    PROVE  SwotItems' = SwotItems /\ KeyIssues' = KeyIssues
<1>1. Frameworks' = Frameworks
    BY FrameworksStay DEF Frameworks
<1> QED  BY <1>1 DEF SwotItems, KeyIssues

(* A step that adds neither leaves both as they are. *)
LEMMA IssuesStay ==
    ASSUME IssuesInv, NothingIsTakenBack, swot' = swot,
           key_issues' = key_issues, request' = request, passages' = passages
    PROVE  IssuesInv'
<1>1. SwotItems' = SwotItems /\ KeyIssues' = KeyIssues
    BY RecordsStay
<1>2. (\A s \in DOMAIN swot : check_swot_issue(swot[s], DOMAIN findings))'
    BY ItemStays DEF IssuesInv
<1>3. (\A k \in DOMAIN key_issues : Founded(key_issues[k]))'
    <2> SUFFICES ASSUME NEW k \in DOMAIN key_issues PROVE Founded(key_issues[k])'
        OBVIOUS
    <2>1. PICK issue : issue = key_issues[k]
        OBVIOUS
    <2>2. Founded(issue)'
        BY <2>1, FoundedStays DEF IssuesInv
    <2> QED  BY <2>1, <2>2 DEF Founded, check_key_issue
<1> QED  BY <1>1, <1>2, <1>3 DEF IssuesInv

(* One more item over findings that are there. *)
LEMMA ItemIsAdded ==
    ASSUME IssuesInv, NEW item \in SwotItems,
           check_swot_issue(item, DOMAIN findings), swot' = swot \o <<item>>,
           findings' = findings, key_issues' = key_issues,
           request' = request, passages' = passages
    PROVE  IssuesInv'
<1>1. SwotItems' = SwotItems /\ KeyIssues' = KeyIssues
    BY RecordsStay
<1>2. /\ swot' \in Seq(SwotItems) /\ DOMAIN swot \subseteq DOMAIN swot'
      /\ \A n \in DOMAIN swot : swot'[n] = swot[n]
      /\ \A n \in DOMAIN swot' \ DOMAIN swot : swot'[n] = item
    BY AppendedLast DEF IssuesInv
<1>3. NothingIsTakenBack
    BY <1>2 DEF NothingIsTakenBack
<1>4. \A s \in DOMAIN swot' : check_swot_issue(swot'[s], DOMAIN findings')
    BY <1>2 DEF IssuesInv
<1>5. \A k \in DOMAIN key_issues : Founded(key_issues[k])'
    <2> TAKE k \in DOMAIN key_issues
    <2>1. PICK issue : issue = key_issues[k]
        OBVIOUS
    <2>2. Founded(issue)'
        BY <1>3, <2>1, FoundedStays DEF IssuesInv
    <2> QED  BY <2>1, <2>2 DEF Founded, check_key_issue
<1> QED  BY <1>1, <1>2, <1>4, <1>5 DEF IssuesInv, check_swot_issue

(* One more key issue over items that are there. *)
LEMMA IssueIsAdded ==
    ASSUME IssuesInv, NEW issue \in KeyIssues, Founded(issue),
           key_issues' = key_issues \o <<issue>>,
           findings' = findings, swot' = swot,
           request' = request, passages' = passages
    PROVE  IssuesInv'
<1>1. SwotItems' = SwotItems /\ KeyIssues' = KeyIssues
    BY RecordsStay
<1>2. /\ key_issues' \in Seq(KeyIssues)
      /\ \A n \in DOMAIN key_issues : key_issues'[n] = key_issues[n]
      /\ \A n \in DOMAIN key_issues' \ DOMAIN key_issues :
            key_issues'[n] = issue
    BY AppendedLast DEF IssuesInv
<1>3. \A k \in DOMAIN key_issues' : Founded(key_issues'[k])
    BY <1>2 DEF IssuesInv
<1>4. (\A k \in DOMAIN key_issues : Founded(key_issues[k]))'
    BY <1>3 DEF Founded, check_key_issue
<1> QED  BY <1>1, <1>2, <1>4 DEF IssuesInv, check_swot_issue

(* What an answer to classification adds, if anything: an item of findings *)
(* of the batch. *)
LEMMA ClassificationAdds ==
    ASSUME CallInv, FindingsInv, IssuesInv, classify_swot
    PROVE  \/ swot' = swot
           \/ \E item \in SwotItems :
                 /\ swot' = swot \o <<item>>
                 /\ check_swot_issue(item, DOMAIN findings)
                 /\ item.finding_ids \subseteq batch_items(call.first)
<1>1. PICK draft \in request.answers.swot :
          swot' = swot \o Classified(draft, batch_items(call.first))
    BY DEF classify_swot
<1> DEFINE cited == Cited(batch_items(call.first), draft.refs)
           item == [finding_ids |-> cited,
                    mn_basis |-> UNION {findings[i].mn_basis : i \in cited}]
<1>2. Classified(draft, batch_items(call.first))
        = IF draft.category = "none" \/ cited = {} THEN <<>> ELSE <<item>>
    BY DEF Classified
<1>3. /\ Len(findings) \in Nat /\ DOMAIN findings = 1 .. Len(findings)
      /\ \A i \in DOMAIN findings : findings[i] \in Findings
    BY LenProperties, ElementOfSeq DEF FindingsInv
<1>4. cited \subseteq batch_items(call.first)
    BY CitedIsListed
<1> HIDE DEF cited
<1>5. batch_items(call.first) \subseteq DOMAIN findings
    <2>1. call.first \in Nat \ {0}
        BY DEF CallInv
    <2>2. MaxFindingsPerBatch \in Nat
        BY ResearchPolicyAssumption
    <2> QED  BY <1>3, <2>1, <2>2 DEF batch_items, Lesser
<1>6. \A i \in cited : findings[i].mn_basis \in SUBSET Frameworks
    BY <1>3, <1>4, <1>5 DEF Findings
<1>7. item \in SwotItems
    <2>1. cited \in SUBSET Nat
        BY <1>3, <1>4, <1>5
    <2>2. UNION {findings[i].mn_basis : i \in cited} \in SUBSET Frameworks
        BY <1>6
    <2> QED  BY <2>1, <2>2 DEF SwotItems
<1>8. CASE draft.category = "none" \/ cited = {}
    <2>1. swot \o <<>> = swot
        BY DEF IssuesInv
    <2> QED  BY <1>1, <1>2, <1>8, <2>1
<1>9. CASE ~(draft.category = "none" \/ cited = {})
    <2>1. swot' = swot \o <<item>>
        BY <1>1, <1>2, <1>9
    <2>2. check_swot_issue(item, DOMAIN findings)
        BY <1>4, <1>5, <1>9 DEF check_swot_issue
    <2> QED  BY <1>4, <1>7, <2>1, <2>2
<1> QED  BY <1>8, <1>9

(* What an answer to synthesis adds, if anything: an issue as firm as the  *)
(* weakest finding behind its items. *)
LEMMA DerivationAdds ==
    ASSUME request \in Requests, FindingsInv, IssuesInv, derive_key_issues
    PROVE  \/ key_issues' = key_issues
           \/ \E issue \in KeyIssues :
                 key_issues' = key_issues \o <<issue>> /\ Founded(issue)
<1>1. PICK draft \in request.answers.issues :
          key_issues' = key_issues \o Derived(draft)
    BY DEF derive_key_issues
<1> DEFINE items == draft.swot_refs \cap DOMAIN swot
           support == (draft.refs \cap DOMAIN findings)
                      \cup UNION {swot[s].finding_ids : s \in items}
           levels == {findings[i].confidence : i \in support}
           firm == cap(draft.confidence, weakest(levels))
           issue == [swot_issue_ids |-> items, finding_ids |-> support,
                     confidence |-> firm,
                     mn_basis |-> UNION {swot[s].mn_basis : s \in items},
                     implication |-> TRUE]
<1>2. Derived(draft)
        = IF items = {} \/ ~draft.complete THEN <<>> ELSE <<issue>>
    BY DEF Derived
<1>3. /\ Len(findings) \in Nat /\ DOMAIN findings = 1 .. Len(findings)
      /\ \A i \in DOMAIN findings : findings[i].confidence \in Levels
    <2>1. \A i \in DOMAIN findings : findings[i] \in Findings
        BY ElementOfSeq DEF FindingsInv
    <2> QED  BY <2>1, LenProperties DEF FindingsInv, Findings
<1>4. /\ Len(swot) \in Nat /\ DOMAIN swot = 1 .. Len(swot)
      /\ \A s \in DOMAIN swot : /\ swot[s].mn_basis \in SUBSET Frameworks
                                /\ swot[s].finding_ids \subseteq DOMAIN findings
    <2>1. \A s \in DOMAIN swot : swot[s] \in SwotItems
        BY ElementOfSeq DEF IssuesInv
    <2> QED  BY <2>1, LenProperties DEF IssuesInv, SwotItems, check_swot_issue
<1>5. draft.confidence \in Levels
    BY <1>1, AnswersAssumption
<1>6. items \subseteq DOMAIN swot /\ items \in SUBSET Nat
    BY <1>4
<1>7. support \subseteq DOMAIN findings /\ support \in SUBSET Nat
    BY <1>3, <1>4, <1>6
<1>8. levels \in SUBSET Levels
    <2> HIDE DEF support
    <2> QED  BY <1>3, <1>7
<1>9. /\ firm \in Levels /\ rank(firm) <= rank(weakest(levels))
      /\ weakest(levels) \in Levels
      /\ \A l \in levels : rank(weakest(levels)) <= rank(l)
    <2> HIDE DEF levels
    <2> QED  BY <1>5, <1>8, CapLowers, WeakestIsLeast
<1>10. ASSUME NEW s \in items, NEW i \in swot[s].finding_ids
       PROVE  rank(firm) <= rank(findings[i].confidence)
    <2>1. i \in support
        OBVIOUS
    <2>2. findings[i].confidence \in levels /\ findings[i].confidence \in Levels
        BY <1>3, <1>7, <2>1
    <2>3. /\ rank(firm) \in 0 .. 3 /\ rank(weakest(levels)) \in 0 .. 3
          /\ rank(findings[i].confidence) \in 0 .. 3
        BY <1>9, <2>2, RankType
    <2>4. rank(weakest(levels)) <= rank(findings[i].confidence)
        BY <1>9, <2>2
    <2> HIDE DEF firm, levels
    <2> QED  BY <1>9, <2>3, <2>4
<1>11. UNION {swot[s].mn_basis : s \in items} \in SUBSET Frameworks
    BY <1>4, <1>6
<1> HIDE DEF items, support, levels, firm
<1>12. issue \in KeyIssues
    BY <1>6, <1>7, <1>9, <1>11 DEF KeyIssues
<1>13. CASE items = {} \/ ~draft.complete
    <2>1. key_issues \o <<>> = key_issues
        BY DEF IssuesInv
    <2> QED  BY <1>1, <1>2, <1>13, <2>1
<1>14. CASE ~(items = {} \/ ~draft.complete)
    <2>1. key_issues' = key_issues \o <<issue>>
        BY <1>1, <1>2, <1>14
    <2>2. Founded(issue)
        BY <1>6, <1>7, <1>10, <1>14 DEF Founded, check_key_issue
    <2> QED  BY <1>12, <2>1, <2>2
<1> QED  BY <1>13, <1>14

(* Findings and items stay what they are, in every stage. *)
LEMMA ListsGrow ==
    ASSUME IntakeInv, SourcesInv, StageInv, CallInv, FindingsInv, IssuesInv,
           [Next]_vars
    PROVE  NothingIsTakenBack
<1>1. request \in Requests
    BY DEF IntakeInv
<1>2. CASE extract_findings \/ infer_findings
    <2>1. findings' = findings \/ \E f \in Findings : findings' = findings \o <<f>>
        BY <1>1, <1>2, ExtractionAdds, InferenceAdds
    <2>2. swot' = swot
        BY <1>2 DEF extract_findings, infer_findings
    <2>3. /\ DOMAIN findings \subseteq DOMAIN findings'
          /\ \A n \in DOMAIN findings : findings'[n] = findings[n]
        <3>1. CASE findings' = findings
            BY <3>1
        <3>2. CASE \E f \in Findings : findings' = findings \o <<f>>
            <4>1. PICK f \in Findings : findings' = findings \o <<f>>
                BY <3>2
            <4> QED  BY <4>1, AppendedLast DEF FindingsInv
        <3> QED  BY <2>1, <3>1, <3>2
    <2> QED  BY <2>2, <2>3 DEF NothingIsTakenBack
<1>3. CASE classify_swot
    <2>1. swot' = swot \/ \E item \in SwotItems : swot' = swot \o <<item>>
        BY <1>3, ClassificationAdds
    <2>2. findings' = findings
        BY <1>3 DEF classify_swot
    <2>3. /\ DOMAIN swot \subseteq DOMAIN swot'
          /\ \A n \in DOMAIN swot : swot'[n] = swot[n]
        <3>1. CASE swot' = swot
            BY <3>1
        <3>2. CASE \E item \in SwotItems : swot' = swot \o <<item>>
            <4>1. PICK item \in SwotItems : swot' = swot \o <<item>>
                BY <3>2
            <4> QED  BY <4>1, AppendedLast DEF IssuesInv
        <3> QED  BY <2>1, <3>1, <3>2
    <2> QED  BY <2>2, <2>3 DEF NothingIsTakenBack
<1>4. CASE \/ extraction \/ FindingsRead \/ inference \/ InferencesRead
           \/ classification \/ IssuesRead \/ synthesis
           \/ derive_key_issues \/ KeyIssuesRead \/ persist_research
    <2>1. findings' = findings /\ swot' = swot
        BY <1>4, Zenon
        DEF extraction, FindingsRead, inference, InferencesRead,
            classification, IssuesRead, synthesis,
            derive_key_issues, KeyIssuesRead, persist_research, research
    <2> QED  BY <2>1 DEF NothingIsTakenBack
<1>5. CASE \/ DiscoveryStep \/ UNCHANGED vars \/ UNCHANGED research
    BY <1>5, DiscoveryFrame DEF vars, research, NothingIsTakenBack
<1> QED
    BY <1>2, <1>3, <1>4, <1>5 DEF Next, ResearchStep

(* No step leaves an item or a key issue over what is not there. *)
LEMMA IssuesNext ==
    ASSUME IntakeInv, SourcesInv, StageInv, CallInv, FindingsInv, IssuesInv,
           [Next]_vars
    PROVE  IssuesInv'
<1>1. request \in Requests
    BY DEF IntakeInv
<1>2. CASE (IntakeStep \/ SearchStep) /\ UNCHANGED research
    <2>1. swot' = <<>> /\ key_issues' = <<>>
        BY <1>2, IntakeFrame DEF StageInv, research
    <2> QED  BY <2>1 DEF IssuesInv
<1>3. CASE classify_swot
    <2>1. /\ findings' = findings /\ key_issues' = key_issues
          /\ request' = request /\ passages' = passages
        BY <1>3 DEF classify_swot
    <2>2. CASE swot' = swot
        <3>1. NothingIsTakenBack
            BY <2>1, <2>2 DEF NothingIsTakenBack
        <3> QED  BY <2>1, <2>2, <3>1, IssuesStay
    <2> QED  BY <1>3, <2>1, <2>2, ClassificationAdds, ItemIsAdded
<1>4. CASE derive_key_issues
    <2>1. /\ findings' = findings /\ swot' = swot
          /\ request' = request /\ passages' = passages
        BY <1>4 DEF derive_key_issues
    <2>2. CASE key_issues' = key_issues
        <3>1. NothingIsTakenBack
            BY <2>1 DEF NothingIsTakenBack
        <3> QED  BY <2>1, <2>2, <3>1, IssuesStay
    <2> QED  BY <1>1, <1>4, <2>1, <2>2, DerivationAdds, IssueIsAdded
<1>5. CASE \/ extraction \/ extract_findings \/ FindingsRead
           \/ inference \/ infer_findings \/ InferencesRead
           \/ classification \/ IssuesRead \/ synthesis
           \/ KeyIssuesRead \/ persist_research
    <2>1. /\ ResearchStep /\ swot' = swot /\ key_issues' = key_issues
        BY <1>5, Zenon
        DEF ResearchStep, extraction, extract_findings, FindingsRead, inference,
            infer_findings, InferencesRead, classification, IssuesRead,
            synthesis, KeyIssuesRead, persist_research, research
    <2> QED  BY <2>1, ResearchFrame, ListsGrow, IssuesStay
<1>6. CASE DiscoveryStep
    BY <1>6, DiscoveryFrame, IssuesStay DEF NothingIsTakenBack
<1>7. CASE UNCHANGED vars
    BY <1>7, IssuesStay DEF vars, records, research, NothingIsTakenBack
<1> QED
    BY <1>2, <1>3, <1>4, <1>5, <1>6, <1>7 DEF Next, ResearchStep

(* What a research call adds cites the list of its own prompt. *)
LEMMA StepsCiteTheirPrompt ==
    ASSUME IntakeInv, SourcesInv, StageInv, CallInv, FindingsInv, IssuesInv,
           [Next]_vars
    PROVE  CitesItsPrompt
<1>1. request \in Requests
    BY DEF IntakeInv
<1>2. CASE extract_findings \/ infer_findings
    <2>1. swot' = swot
        BY <1>2 DEF extract_findings, infer_findings
    <2>2. CASE findings' = findings
        BY <2>1, <2>2 DEF CitesItsPrompt
    <2>3. CASE findings' # findings
        <3>1. PICK f \in Findings :
                 /\ findings' = findings \o <<f>>
                 /\ f.source_id # 0 =>
                       \E p \in offered[Len(offered)].passages :
                           /\ passages[p].source_id = f.source_id
                           /\ passages[p].locator = f.locator
                 /\ \A i \in f.supporting :
                       findings[i].mn_basis = {Resolved[call.framework]}
            <4>1. CASE extract_findings
                BY <1>1, <2>3, <4>1, ExtractionAdds
            <4>2. CASE infer_findings
                BY <1>1, <2>3, <4>2, InferenceAdds
            <4> QED  BY <1>2, <4>1, <4>2
        <3>2. \A n \in DOMAIN findings' \ DOMAIN findings : findings'[n] = f
            BY <3>1, AppendedLast DEF FindingsInv
        <3> QED  BY <2>1, <3>1, <3>2 DEF CitesItsPrompt
    <2> QED  BY <2>2, <2>3
<1>3. CASE classify_swot
    <2>1. findings' = findings
        BY <1>3 DEF classify_swot
    <2>2. CASE swot' = swot
        BY <2>1, <2>2 DEF CitesItsPrompt
    <2>3. CASE swot' # swot
        <3>1. PICK item \in SwotItems :
                 /\ swot' = swot \o <<item>>
                 /\ item.finding_ids \subseteq batch_items(call.first)
            BY <1>3, <2>3, ClassificationAdds
        <3>2. \A n \in DOMAIN swot' \ DOMAIN swot : swot'[n] = item
            BY <3>1, AppendedLast DEF IssuesInv
        <3> QED  BY <2>1, <3>1, <3>2 DEF CitesItsPrompt
    <2> QED  BY <2>2, <2>3
<1>4. CASE \/ extraction \/ FindingsRead \/ inference \/ InferencesRead
           \/ classification \/ IssuesRead \/ synthesis
           \/ derive_key_issues \/ KeyIssuesRead \/ persist_research
    <2>1. findings' = findings /\ swot' = swot
        BY <1>4, Zenon
        DEF extraction, FindingsRead, inference, InferencesRead,
            classification, IssuesRead, synthesis,
            derive_key_issues, KeyIssuesRead, persist_research, research
    <2> QED  BY <2>1 DEF CitesItsPrompt
<1>5. CASE \/ DiscoveryStep \/ UNCHANGED vars \/ UNCHANGED research
    <2>1. findings' = findings /\ swot' = swot
        BY <1>5, DiscoveryFrame DEF vars, research
    <2> QED  BY <2>1 DEF CitesItsPrompt
<1> QED
    BY <1>2, <1>3, <1>4, <1>5 DEF Next, ResearchStep

(* What the invariants say of a confidence. *)
LEMMA NoneIsRaised ==
    ASSUME FindingsInv, IssuesInv
    PROVE  ConfidenceIsNeverRaised
<1>1. /\ Len(findings) \in Nat /\ DOMAIN findings = 1 .. Len(findings)
      /\ \A n \in DOMAIN findings : /\ rank(findings[n].confidence) \in 0 .. 3
                                    /\ Grounded(findings[n], n)
    <2>1. \A n \in DOMAIN findings : findings[n] \in Findings
        BY ElementOfSeq DEF FindingsInv
    <2>2. \A n \in DOMAIN findings : findings[n].confidence \in Levels
        BY <2>1 DEF Findings
    <2> QED  BY <2>2, LenProperties, RankType DEF FindingsInv
<1>2. ASSUME NEW n \in DOMAIN findings, NEW i \in FactsUnder(n)
      PROVE  /\ findings[i].evidence_type = "FACT"
             /\ rank(findings[n].confidence) <=
                   rank(FactCeiling(sources[findings[i].source_id],
                                    findings[i].locator))
    <2>1. i \in DOMAIN findings /\ findings[i].evidence_type = "FACT"
          /\ rank(findings[n].confidence) <= rank(findings[i].confidence)
        <3>1. CASE findings[n].evidence_type = "FACT"
            <4>1. i = n
                BY <3>1 DEF FactsUnder
            <4> QED  BY <1>1, <3>1, <4>1
        <3>2. CASE findings[n].evidence_type # "FACT"
            <4>1. i \in findings[n].supporting
                BY <3>2 DEF FactsUnder
            <4>2. findings[n].supporting \subseteq 1 .. n - 1
                BY <1>1, <3>2, <4>1 DEF Grounded, check_finding
            <4> QED  BY <1>1, <4>1, <4>2 DEF Grounded
        <3> QED  BY <3>1, <3>2
    <2>2. rank(findings[i].confidence) <=
              rank(FactCeiling(sources[findings[i].source_id],
                               findings[i].locator))
        BY <1>1, <2>1 DEF Grounded
    <2>3. rank(FactCeiling(sources[findings[i].source_id],
                           findings[i].locator)) \in 0 .. 3
        BY CeilingIsALevel, RankType
    <2> QED  BY <1>1, <2>1, <2>2, <2>3
<1>3. \A k \in DOMAIN key_issues : \A s \in key_issues[k].swot_issue_ids :
          \A i \in swot[s].finding_ids :
             rank(key_issues[k].confidence) <= rank(findings[i].confidence)
    BY DEF IssuesInv, Founded
<1> QED  BY <1>2, <1>3 DEF ConfidenceIsNeverRaised

-----------------------------------------------------------------------------
(* Names *)

(* A passage writes a name, and goes on in no word of the same name. *)
Written(bare, says) ==
    \E i \in DOMAIN says :
        /\ i + Len(bare) - 1 <= Len(says)
        /\ \A k \in 1 .. Len(bare) : says[i + k - 1].word = bare[k]
        /\ \/ says[i + Len(bare) - 1].glued
           \/ i + Len(bare) > Len(says)
           \/ ~_continues_a_name(says[i + Len(bare)])
           \/ says[i + Len(bare)].word \in LEGAL_SUFFIXES

(* Where a name matches, it is written. *)
LEMMA MatchIsWritten ==
    ASSUME NEW name \in Seq(STRING), NEW says \in Seq(Words),
           NEW i \in DOMAIN says, NEW supplied \in BOOLEAN,
           MatchesAt(name, says, i, supplied)
    PROVE  Written(name, says)
<1>1. /\ Len(name) \in Nat /\ Len(says) \in Nat /\ i \in Nat
      /\ DOMAIN says = 1 .. Len(says)
    BY LenProperties
<1>2. i + Len(name) - 1 <= Len(says)
    BY DEF MatchesAt
<1>3. ASSUME NEW k \in 1 .. Len(name) PROVE says[i + k - 1].word = name[k]
    <2>1. i + k - 1 \in i .. i + Len(name) - 1 /\ (i + k - 1) - i + 1 = k
        BY <1>1
    <2>2. \A j \in i .. i + Len(name) - 1 : says[j].word = name[j - i + 1]
        BY Zenon DEF MatchesAt
    <2> QED  BY <2>1, <2>2
<1>4. (i + Len(name) - 1) + 1 = i + Len(name)
    BY <1>1
<1>5. \/ says[i + Len(name) - 1].glued
      \/ i + Len(name) > Len(says)
      \/ ~_continues_a_name(says[i + Len(name)])
      \/ says[i + Len(name)].word \in LEGAL_SUFFIXES
    <2>1. \/ says[i + Len(name) - 1].glued
          \/ _match_ends_the_name(says, i + Len(name), supplied)
        BY <1>4 DEF MatchesAt
    <2>2. says[i + Len(name)].written = "particle" =>
              ~_continues_a_name(says[i + Len(name)])
        BY DEF _continues_a_name
    <2> QED  BY <2>1, <2>2 DEF _match_ends_the_name
<1> QED  BY <1>2, <1>3, <1>5 DEF Written

(* A name that ends in a legal form is written without it, too. *)
LEMMA BareIsWritten ==
    ASSUME NEW name \in Seq(STRING), NEW says \in Seq(Words),
           NEW i \in DOMAIN says, MatchesAt(name, says, i, FALSE)
    PROVE  Written(strip_legal_suffix(name), says)
<1>1. CASE ~(Len(name) > 1 /\ name[Len(name)] \in LEGAL_SUFFIXES)
    BY <1>1, MatchIsWritten DEF strip_legal_suffix
<1>2. CASE Len(name) > 1 /\ name[Len(name)] \in LEGAL_SUFFIXES
    <2> DEFINE bare == SubSeq(name, 1, Len(name) - 1)
               n == Len(name) - 1
    <2>1. /\ Len(name) \in Nat /\ Len(says) \in Nat /\ i \in Nat /\ n \in Nat
          /\ DOMAIN says = 1 .. Len(says)
        BY <1>2, LenProperties
    <2>2. Len(bare) = n /\ \A k \in 1 .. n : bare[k] = name[k]
        BY <1>2, <2>1
    <2>3. i + Len(name) - 1 <= Len(says)
        BY DEF MatchesAt
    <2>4. \A j \in i .. i + Len(name) - 1 : says[j].word = name[j - i + 1]
        BY Zenon DEF MatchesAt
    <2>5. ASSUME NEW k \in 1 .. n PROVE says[i + k - 1].word = bare[k]
        <3>1. i + k - 1 \in i .. i + Len(name) - 1 /\ (i + k - 1) - i + 1 = k
            BY <2>1
        <3> QED  BY <2>2, <2>4, <3>1
    <2>6. says[i + n].word \in LEGAL_SUFFIXES
        <3>1. i + n \in i .. i + Len(name) - 1 /\ (i + n) - i + 1 = Len(name)
            BY <2>1
        <3> QED  BY <1>2, <2>4, <3>1
    <2>7. i + n - 1 <= Len(says)
        BY <2>1, <2>3
    <2>8. strip_legal_suffix(name) = bare
        BY <1>2 DEF strip_legal_suffix
    <2> HIDE DEF bare, n
    <2> QED  BY <2>2, <2>5, <2>6, <2>7, <2>8 DEF Written
<1> QED  BY <1>1, <1>2

(* A mention passes only when the passage writes the words the name is     *)
(* merged by.                                                              *)
LEMMA MentionIsWritten ==
    ASSUME NEW name \in Seq(STRING), NEW says \in Seq(Words),
           name_appears_in(name, says)
    PROVE  Written(OrganizationKey(name), says)
<1>1. CASE _match_index(name, says, FALSE)
    BY <1>1, BareIsWritten DEF _match_index, OrganizationKey
<1>2. CASE _match_index(strip_legal_suffix(name), says, TRUE)
    <2>1. strip_legal_suffix(name) \in Seq(STRING)
        <3>1. CASE Len(name) > 1
            <4>1. SubSeq(name, 1, Len(name) - 1) \in Seq(STRING)
                BY <3>1, LenProperties
            <4> QED  BY <4>1 DEF strip_legal_suffix
        <3>2. CASE ~(Len(name) > 1)
            BY <3>2 DEF strip_legal_suffix
        <3> QED  BY <3>1, <3>2
    <2> QED  BY <1>2, <2>1, MatchIsWritten DEF _match_index, OrganizationKey
<1> QED  BY <1>1, <1>2 DEF name_appears_in

-----------------------------------------------------------------------------
(* Organizations *)

Organizations ==
    [name : Seq(STRING), source_ids : SUBSET Nat, refs : SUBSET Nat]

(* Every source of a record has a passage that writes its name. *)
NamedBySources(r) ==
    /\ r.source_ids # {} /\ r.source_ids \subseteq DOMAIN sources
    /\ \A s \in r.source_ids :
          \E p \in DOMAIN passages :
              /\ passages[p].source_id = s
              /\ Written(strip_legal_suffix(r.name), passages[p].says)

OrganizationsInv ==
    /\ organizations \in Seq(Organizations)
    /\ \A o \in DOMAIN organizations : NamedBySources(organizations[o])

(* A mention that is kept brings a source that writes the name. *)
LEMMA MentionIsNamed ==
    ASSUME SourcesInv, NEW draft, draft.name \in Seq(STRING), Mentioned(draft)
    PROVE  /\ draft.ref \in DOMAIN passages /\ draft.ref \in Nat
           /\ passages[draft.ref].source_id \in DOMAIN sources
           /\ passages[draft.ref].source_id \in Nat
           /\ Written(strip_legal_suffix(draft.name), passages[draft.ref].says)
<1>1. draft.ref \in DOMAIN passages
      /\ name_appears_in(draft.name, passages[draft.ref].says)
    BY DEF Mentioned
<1>2. passages[draft.ref] \in Passages /\ draft.ref \in Nat
    BY <1>1, ElementOfSeq, LenProperties DEF SourcesInv
<1>3. /\ passages[draft.ref].says \in Seq(Words)
      /\ passages[draft.ref].source_id \in Nat
    BY <1>2 DEF Passages
<1> QED
    BY <1>1, <1>2, <1>3, MentionIsWritten DEF SourcesInv, OrganizationKey

(* Whatever organization a mention is merged into, its sources write the   *)
(* name it goes by.                                                        *)
LEMMA MentionKeepsOrganizations ==
    ASSUME SourcesInv, OrganizationsInv, NEW draft,
           draft.name \in Seq(STRING), Mentioned(draft)
    PROVE  /\ verify_mentions(draft) \in Seq(Organizations)
           /\ \A o \in DOMAIN verify_mentions(draft) :
                 NamedBySources(verify_mentions(draft)[o])
<1> DEFINE source_id == passages[draft.ref].source_id
           same == {o \in DOMAIN organizations :
                       OrganizationKey(organizations[o].name)
                           = OrganizationKey(draft.name)}
           new == [name |-> draft.name, source_ids |-> {source_id},
                   refs |-> {draft.ref}]
           joined(o) == [organizations[o] EXCEPT !.source_ids = @ \cup {source_id},
                                                 !.refs = @ \cup {draft.ref}]
           merged == [o \in DOMAIN organizations |->
                        IF o \in same THEN joined(o) ELSE organizations[o]]
<1>1. verify_mentions(draft)
        = IF same = {} THEN Append(organizations, new) ELSE merged
    BY DEF verify_mentions
<1>2. /\ draft.ref \in DOMAIN passages /\ draft.ref \in Nat
      /\ source_id \in DOMAIN sources /\ source_id \in Nat
      /\ Written(strip_legal_suffix(draft.name), passages[draft.ref].says)
    BY MentionIsNamed
<1>3. /\ Len(organizations) \in Nat
      /\ DOMAIN organizations = 1 .. Len(organizations)
      /\ organizations \in Seq(Organizations)
      /\ \A o \in DOMAIN organizations : organizations[o] \in Organizations
    BY LenProperties, ElementOfSeq DEF OrganizationsInv
<1>4. CASE same = {}
    <2>1. new \in Organizations
        BY <1>2 DEF Organizations
    <2>2. NamedBySources(new)
        BY <1>2 DEF NamedBySources
    <2> HIDE DEF new, same
    <2>3. verify_mentions(draft) = Append(organizations, new)
        BY <1>1, <1>4
    <2>4. /\ Append(organizations, new) \in Seq(Organizations)
          /\ \A o \in DOMAIN Append(organizations, new) :
                \/ o \in DOMAIN organizations
                   /\ Append(organizations, new)[o] = organizations[o]
                \/ Append(organizations, new)[o] = new
        BY <1>3, <2>1
    <2> QED  BY <2>2, <2>3, <2>4 DEF OrganizationsInv
<1>5. CASE same # {}
    <2>1. ASSUME NEW o \in same
          PROVE  joined(o) \in Organizations /\ NamedBySources(joined(o))
        <3>1. /\ o \in DOMAIN organizations /\ organizations[o] \in Organizations
              /\ NamedBySources(organizations[o])
              /\ strip_legal_suffix(organizations[o].name)
                    = strip_legal_suffix(draft.name)
            BY <1>3 DEF OrganizationsInv, OrganizationKey
        <3>2. /\ joined(o).name = organizations[o].name
              /\ joined(o).source_ids
                    = organizations[o].source_ids \cup {source_id}
              /\ joined(o).refs = organizations[o].refs \cup {draft.ref}
              /\ joined(o) \in Organizations
            BY <1>2, <3>1 DEF Organizations
        <3> HIDE DEF joined
        <3>3. /\ joined(o).source_ids # {}
              /\ joined(o).source_ids \subseteq DOMAIN sources
            BY <1>2, <3>1, <3>2 DEF NamedBySources
        <3>4. ASSUME NEW s \in joined(o).source_ids
              PROVE  \E p \in DOMAIN passages :
                        /\ passages[p].source_id = s
                        /\ Written(strip_legal_suffix(joined(o).name),
                                   passages[p].says)
            <4>1. CASE s = source_id
                BY <1>2, <3>1, <3>2, <4>1
            <4>2. CASE s \in organizations[o].source_ids
                BY <3>1, <3>2, <4>2 DEF NamedBySources
            <4> QED  BY <3>2, <4>1, <4>2
        <3> QED  BY <3>2, <3>3, <3>4 DEF NamedBySources
    <2> HIDE DEF same, joined
    <2>2. /\ merged \in [1 .. Len(organizations) -> Organizations]
          /\ \A o \in DOMAIN merged : NamedBySources(merged[o])
        BY <1>3, <2>1 DEF OrganizationsInv
    <2>3. merged \in Seq(Organizations)
        <3> HIDE DEF merged
        <3> QED  BY <1>3, <2>2, SeqDef
    <2> QED  BY <1>1, <1>5, <2>2, <2>3
<1> QED  BY <1>4, <1>5

(* A step that reads no mention leaves the organizations as they are. *)
LEMMA OrganizationsStay ==
    ASSUME OrganizationsInv, organizations' = organizations,
           sources' = sources, passages' = passages
    PROVE  OrganizationsInv'
BY DEF OrganizationsInv, NamedBySources

(* Every organization stays named by each of its sources. *)
LEMMA OrganizationsNext ==
    ASSUME IntakeInv, SourcesInv, StageInv, OrganizationsInv, [Next]_vars
    PROVE  OrganizationsInv'
<1>1. CASE (IntakeStep \/ SearchStep) /\ UNCHANGED discovery
    <2>1. organizations' = <<>>
        BY <1>1, IntakeFrame
        DEF StageInv, IntakeStages, discovery
    <2> QED  BY <2>1 DEF OrganizationsInv
<1>2. CASE ResearchStep /\ UNCHANGED discovery
    BY <1>2, ResearchFrame, OrganizationsStay DEF discovery
<1>3. CASE read_mention
    <2>1. /\ sources' = sources /\ passages' = passages
        BY <1>3 DEF read_mention
    <2>2. PICK draft \in request.answers.mentions :
             organizations' = IF Mentioned(draft) THEN verify_mentions(draft)
                              ELSE organizations
        BY <1>3 DEF read_mention
    <2>3. draft.name \in Seq(STRING)
        BY MentionsAssumption DEF IntakeInv
    <2>4. CASE Mentioned(draft)
        <3>1. organizations' = verify_mentions(draft)
            BY <2>2, <2>4
        <3>2. /\ organizations' \in Seq(Organizations)
              /\ \A o \in DOMAIN organizations' : NamedBySources(organizations'[o])
            BY <2>3, <2>4, <3>1, MentionKeepsOrganizations
        <3> QED  BY <2>1, <3>2 DEF OrganizationsInv, NamedBySources
    <2>5. CASE ~Mentioned(draft)
        BY <2>1, <2>2, <2>5, OrganizationsStay
    <2> QED  BY <2>4, <2>5
<1>4. CASE build_criteria \/ find_organizations \/ MentionsRead \/ assess
           \/ persist_clients
    <2>1. DiscoveryStep /\ organizations' = organizations
        BY <1>4, Zenon
        DEF DiscoveryStep, build_criteria, find_organizations, MentionsRead,
            assess, persist_clients, discovery
    <2> QED  BY <2>1, DiscoveryFrame, OrganizationsStay
<1>5. CASE UNCHANGED vars
    BY <1>5, OrganizationsStay DEF vars, records, discovery
<1> QED  BY <1>1, <1>2, <1>3, <1>4, <1>5 DEF Next, DiscoveryStep

-----------------------------------------------------------------------------
(* Fit *)

(* An assessment cites findings that were offered and their sources; a     *)
(* favourable one cites some, one that needs evidence says of what. *)
Assessed(a) ==
    /\ a.finding_ids \subseteq Context
    /\ a.source_ids = {findings[i].source_id : i \in a.finding_ids} \ {0}
    /\ a.level \in Favourable => a.finding_ids # {}
    /\ a.level = "EVIDENCE_NEEDED" => a.missing_evidence # {}

(* An answer is lowered to what it cites from the context. *)
LEMMA ResolvedIsAssessed ==
    ASSUME NEW draft
    PROVE  Assessed(_resolve(draft)) /\ _resolve(draft).finding_ids
                                          = draft.refs \cap Context
<1> DEFINE cited == draft.refs \cap Context
           source_ids == {findings[i].source_id : i \in cited} \ {0}
           basis == [finding_ids |-> cited, source_ids |-> source_ids]
           earned == Earned(draft, cited # {})
           level == IF /\ earned = "STRONG"
                       /\ draft.criterion \in _SNIPPET_SENSITIVE
                       /\ ~has_direct_evidence(basis)
                    THEN "MODERATE" ELSE earned
           missing == IF draft.gap THEN {<<draft.criterion, "stated">>}
                      ELSE IF level = "EVIDENCE_NEEDED"
                      THEN {<<draft.criterion, "direct evidence">>} ELSE {}
<1>1. _resolve(draft) = [level |-> level, finding_ids |-> cited,
                         source_ids |-> source_ids, missing_evidence |-> missing]
    BY DEF _resolve
<1>2. earned \in Favourable => cited # {}
    BY DEF Earned, Favourable
<1>3. level \in Favourable => cited # {}
    <2> HIDE DEF earned, basis
    <2> QED  BY <1>2 DEF Favourable
<1>4. level = "EVIDENCE_NEEDED" => missing # {}
    <2> HIDE DEF level
    <2> QED  OBVIOUS
<1> HIDE DEF level, missing
<1> QED  BY <1>1, <1>3, <1>4 DEF Assessed

(* The rows of an answer that can be used for a criterion. *)
Usable(rows, c) ==
    {r \in DOMAIN rows : rows[r].criterion = c /\ ~rows[r].too_long}

(* Every criterion is assessed, from its first usable row when it has one. *)
LEMMA FitIsAssessed ==
    ASSUME NEW rows, Len(rows) \in Nat, DOMAIN rows = 1 .. Len(rows)
    PROVE  /\ DOMAIN assess_fit(rows) = FitCriterion
           /\ \A c \in FitCriterion :
                 /\ Assessed(assess_fit(rows)[c])
                 /\ Usable(rows, c) # {} =>
                       /\ First(Usable(rows, c)) \in Usable(rows, c)
                       /\ \A k \in Usable(rows, c) : First(Usable(rows, c)) <= k
                       /\ assess_fit(rows)[c]
                             = _resolve(rows[First(Usable(rows, c))])
<1> DEFINE unjudged(c) ==
                [level |-> "UNKNOWN", finding_ids |-> {}, source_ids |-> {},
                 missing_evidence |->
                    IF {r \in DOMAIN rows : rows[r].criterion = c} # {} THEN {}
                    ELSE {<<"not assessed">>}]
<1>1. assess_fit(rows)
        = [c \in FitCriterion |->
              IF Usable(rows, c) # {} THEN _resolve(rows[First(Usable(rows, c))])
              ELSE unjudged(c)]
    <2>1. \A c : {r \in {q \in DOMAIN rows : rows[q].criterion = c} :
                     ~rows[r].too_long} = Usable(rows, c)
        BY DEF Usable
    <2> DEFINE usable(c) == {r \in {q \in DOMAIN rows : rows[q].criterion = c} :
                                ~rows[r].too_long}
    <2>2. assess_fit(rows)
            = [c \in FitCriterion |->
                  IF usable(c) # {} THEN _resolve(rows[First(usable(c))])
                  ELSE unjudged(c)]
        BY DEF assess_fit, First
    <2>3. \A c : usable(c) = Usable(rows, c)
        BY <2>1
    <2> HIDE DEF usable, unjudged
    <2> QED  BY <2>2, <2>3
<1>2. ASSUME NEW c \in FitCriterion, Usable(rows, c) # {}
      PROVE  /\ First(Usable(rows, c)) \in Usable(rows, c)
             /\ \A k \in Usable(rows, c) : First(Usable(rows, c)) <= k
    <2>1. Usable(rows, c) \in SUBSET Nat
        BY DEF Usable
    <2> QED  BY <1>2, <2>1, FirstIsLeast
<1>3. ASSUME NEW c \in FitCriterion PROVE Assessed(unjudged(c))
    BY DEF Assessed, Favourable
<1> HIDE DEF unjudged
<1> QED  BY <1>1, <1>2, <1>3, ResolvedIsAssessed

(* An answer from which no criterion gets a finding. *)
Ungrounded(answer) ==
    /\ answer.rationale = "given"
    /\ \A r \in DOMAIN answer.rows :
          \/ answer.rows[r].criterion \notin FitCriterion
          \/ answer.rows[r].too_long
          \/ answer.rows[r].refs \cap Context = {}
          \/ \E k \in 1 .. r - 1 :
                /\ answer.rows[k].criterion = answer.rows[r].criterion
                /\ ~answer.rows[k].too_long

(* A fit that cites no finding was answered without a usable reference. *)
LEMMA NothingIsCited ==
    ASSUME NEW answer, answer.rationale = "given",
           Len(answer.rows) \in Nat, DOMAIN answer.rows = 1 .. Len(answer.rows),
           aggregate_finding_ids(assess_fit(answer.rows)) = {}
    PROVE  Ungrounded(answer)
<1> DEFINE rows == answer.rows
<1> SUFFICES ASSUME NEW r \in DOMAIN rows, rows[r].criterion \in FitCriterion,
                    ~rows[r].too_long, rows[r].refs \cap Context # {}
             PROVE  \E k \in 1 .. r - 1 :
                       /\ rows[k].criterion = rows[r].criterion
                       /\ ~rows[k].too_long
    BY DEF Ungrounded
<1> DEFINE c == rows[r].criterion
           k == First(Usable(rows, c))
<1>1. r \in Usable(rows, c)
    BY DEF Usable
<1>2. /\ k \in Usable(rows, c) /\ k <= r
      /\ assess_fit(rows)[c] = _resolve(rows[k])
      /\ DOMAIN assess_fit(rows) = FitCriterion
    BY <1>1, FitIsAssessed
<1>3. assess_fit(rows)[c].finding_ids = {}
    BY <1>2 DEF aggregate_finding_ids
<1>4. rows[k].refs \cap Context = {}
    BY <1>2, <1>3, ResolvedIsAssessed
<1>5. k \in DOMAIN rows /\ rows[k].criterion = c /\ ~rows[k].too_long
    BY <1>2 DEF Usable
<1>6. k # r
    BY <1>4
<1> HIDE DEF k, rows
<1> QED  BY <1>2, <1>5, <1>6 DEF rows

-----------------------------------------------------------------------------
(* Clients *)

(* Every band carries what the assessments lack, and the first one needs   *)
(* the core criteria and the case for it. *)
LEMMA BandsAreDecided ==
    ASSUME NEW fit, NEW v
    PROVE  /\ decide_priority(fit, v).missing_evidence
                = aggregate_missing_evidence(fit)
           /\ decide_priority(fit, v).band = "P1" =>
                /\ \A c \in CORE_CRITERIA : _level(fit, c) \in Favourable
                /\ CaseForP1(fit)
<1> DEFINE d == decide_priority(fit, v)
<1>1. d.missing_evidence = aggregate_missing_evidence(fit)
    BY DEF decide_priority, Decision
<1>2. ASSUME d.band = "P1"
      PROVE  (\A c \in CORE_CRITERIA : _level(fit, c) \in Favourable)
             /\ CaseForP1(fit)
    BY <1>2 DEF decide_priority, Decision
<1> QED  BY <1>1, <1>2

(* What has direct evidence and cites facts rests on a document. *)
LEMMA DirectIsDocumented ==
    ASSUME FindingsInv, NEW a, Assessed(a), has_direct_evidence(a),
           {i \in a.finding_ids : findings[i].evidence_type = "FACT"} # {}
    PROVE  RestsOnADocument(a)
<1>1. /\ Len(findings) \in Nat /\ DOMAIN findings = 1 .. Len(findings)
    BY LenProperties DEF FindingsInv
<1>2. Context \subseteq DOMAIN findings
    BY <1>1, DiscoveryPolicyAssumption DEF Context, Lesser
<1>3. ASSUME NEW i \in a.finding_ids
      PROVE  /\ findings[i].evidence_type = "FACT" <=> findings[i].source_id # 0
    <2>1. i \in DOMAIN findings /\ findings[i] \in Findings
        BY <1>2, ElementOfSeq DEF Assessed, FindingsInv
    <2>2. check_finding(findings[i], 1 .. i - 1)
        BY <2>1 DEF FindingsInv, Grounded
    <2>3. findings[i].evidence_type
            \in {"FACT", "INFERENCE", "ASSUMPTION", "MISSING_EVIDENCE"}
        BY <2>1 DEF Findings
    <2> QED  BY <2>2, <2>3 DEF check_finding
<1>4. PICK i \in a.finding_ids : findings[i].evidence_type = "FACT"
    OBVIOUS
<1>5. a.source_ids # {}
    BY <1>3, <1>4 DEF Assessed
<1>6. PICK s \in a.source_ids : s \in direct_source_ids
    BY <1>5 DEF has_direct_evidence
<1>7. PICK j \in a.finding_ids : findings[j].source_id = s /\ s # 0
    BY <1>6 DEF Assessed
<1>8. findings[j].evidence_type = "FACT"
    BY <1>3, <1>7
<1>9. FactsUnder(j) = {j}
    BY <1>8 DEF FactsUnder
<1> QED  BY <1>6, <1>7, <1>8, <1>9 DEF RestsOnADocument

(* What a place in the first band asks for. *)
EarnsP1(fit) ==
    /\ \A c \in CORE_CRITERIA :
          fit[c].level \in Favourable /\ fit[c].finding_ids # {}
    /\ \E c \in COMMERCIAL_CRITERIA :
          fit[c].level \in Favourable /\ fit[c].finding_ids # {}
    /\ {i \in fit["PROBLEM_FIT"].finding_ids :
            findings[i].evidence_type = "FACT"} # {}
          => RestsOnADocument(fit["PROBLEM_FIT"])

(* The first band needs both: the problem and one way to sell, on          *)
(* documents.                                                              *)
LEMMA FirstBandIsEarned ==
    ASSUME FindingsInv, NEW fit, NEW v, DOMAIN fit = FitCriterion,
           \A c \in FitCriterion : Assessed(fit[c]),
           decide_priority(fit, v).band = "P1"
    PROVE  EarnsP1(fit)
<1>1. /\ \A c \in FitCriterion : _level(fit, c) = fit[c].level
      /\ CORE_CRITERIA \subseteq FitCriterion
      /\ COMMERCIAL_CRITERIA \subseteq FitCriterion
      /\ "PROBLEM_FIT" \in FitCriterion
    BY DEF _level, FitCriterion, CORE_CRITERIA, COMMERCIAL_CRITERIA
<1>2. /\ \A c \in CORE_CRITERIA : fit[c].level \in Favourable
      /\ CaseForP1(fit)
    BY <1>1, BandsAreDecided
<1>3. \E c \in COMMERCIAL_CRITERIA : fit[c].level \in Favourable
    BY <1>1, <1>2 DEF CaseForP1
<1>4. \A c \in FitCriterion : fit[c].level \in Favourable => fit[c].finding_ids # {}
    BY DEF Assessed
<1>5. has_direct_evidence(fit["PROBLEM_FIT"]) /\ Assessed(fit["PROBLEM_FIT"])
    BY <1>1, <1>2 DEF CaseForP1
<1> QED  BY <1>1, <1>2, <1>3, <1>4, <1>5, DirectIsDocumented DEF EarnsP1

(* A client the run keeps. *)
SoundClient(c) ==
    /\ NamedBySources(c) /\ check_client_candidate(c)
    /\ c.finding_ids \subseteq DOMAIN findings
    /\ c.key_issue_ids \subseteq DOMAIN key_issues
    /\ c.priority.band = "P1" => EarnsP1(c.fit)

(* The candidate of a verified organization is sound when it passes the    *)
(* check, and fails it only when no criterion cites anything. *)
LEMMA CandidateIsSound ==
    ASSUME FindingsInv, NEW o, NamedBySources(o), NEW answer,
           answer.rationale = "given", Len(answer.rows) \in Nat,
           DOMAIN answer.rows = 1 .. Len(answer.rows)
    PROVE  LET candidate == Candidate(o, assess_fit(answer.rows)) IN
           IF check_client_candidate(candidate) THEN SoundClient(candidate)
           ELSE Ungrounded(answer)
<1> DEFINE fit == assess_fit(answer.rows)
           candidate == Candidate(o, fit)
           priority == decide_priority(fit, ~RequireIdentity)
<1>1. /\ DOMAIN fit = FitCriterion /\ \A c \in FitCriterion : Assessed(fit[c])
    BY FitIsAssessed
<1> HIDE DEF fit
<1>2. /\ candidate.name = o.name /\ candidate.source_ids = o.source_ids
      /\ candidate.finding_ids = aggregate_finding_ids(fit)
      /\ candidate.key_issue_ids = DOMAIN key_issues
      /\ candidate.fit = fit /\ candidate.priority = priority
      /\ candidate.missing_evidence = aggregate_missing_evidence(fit)
    BY DEF Candidate
<1>3. priority.missing_evidence = aggregate_missing_evidence(fit)
      /\ (priority.band = "P1" => EarnsP1(fit))
    BY <1>1, BandsAreDecided, FirstBandIsEarned
<1> HIDE DEF candidate, priority
<1>4. Context \subseteq DOMAIN findings
    <2>1. Len(findings) \in Nat /\ DOMAIN findings = 1 .. Len(findings)
        BY LenProperties DEF FindingsInv
    <2> QED  BY <2>1, DiscoveryPolicyAssumption DEF Context, Lesser
<1>5. candidate.finding_ids \subseteq DOMAIN findings
    BY <1>1, <1>2, <1>4 DEF aggregate_finding_ids, Assessed
<1>6. NamedBySources(candidate)
    BY <1>2 DEF NamedBySources
<1>7. CASE check_client_candidate(candidate)
    BY <1>2, <1>3, <1>5, <1>6, <1>7 DEF SoundClient, candidate, fit
<1>8. CASE ~check_client_candidate(candidate)
    <2>1. _check_fit(fit)
        BY <1>1 DEF _check_fit, Assessed
    <2>2. _check_derived_aggregates(candidate)
        BY <1>2, <1>3 DEF _check_derived_aggregates
    <2>3. candidate.source_ids # {}
        BY <1>6 DEF NamedBySources
    <2>4. aggregate_finding_ids(fit) = {}
        BY <1>2, <1>8, <2>1, <2>2, <2>3 DEF check_client_candidate
    <2> QED  BY <1>8, <2>4, NothingIsCited DEF candidate, fit
<1> QED  BY <1>7, <1>8 DEF candidate, fit

IsList(q) == q \in Seq({q[n] : n \in DOMAIN q})

(* A list with one more element at its end. *)
LEMMA ListIsAppended ==
    ASSUME NEW q, IsList(q), NEW x
    PROVE  /\ IsList(Append(q, x))
           /\ \A n \in DOMAIN Append(q, x) :
                 \/ n \in DOMAIN q /\ Append(q, x)[n] = q[n]
                 \/ Append(q, x)[n] = x
<1> DEFINE S == {q[n] : n \in DOMAIN q}
           T == S \cup {x}
           more == Append(q, x)
<1>1. Len(q) \in Nat /\ DOMAIN q = 1 .. Len(q) /\ q \in [1 .. Len(q) -> S]
    BY LenProperties DEF IsList
<1>2. q \in Seq(T)
    <2>1. q \in [1 .. Len(q) -> T]
        BY <1>1
    <2> HIDE DEF T
    <2> QED  BY <1>1, <2>1, SeqDef
<1>3. x \in T
    OBVIOUS
<1> HIDE DEF S, T
<1>4. /\ more \in Seq(T) /\ DOMAIN more = 1 .. Len(q) + 1
      /\ Len(more) = Len(q) + 1
      /\ \A n \in 1 .. Len(q) : more[n] = q[n]
      /\ more[Len(q) + 1] = x
    BY <1>1, <1>2, <1>3
<1>5. \A n \in DOMAIN more : n \in DOMAIN q \/ n = Len(q) + 1
    BY <1>1, <1>4
<1>6. IsList(more)
    <2> DEFINE R == {more[n] : n \in DOMAIN more}
    <2>1. more \in [1 .. Len(q) + 1 -> R]
        <3> HIDE DEF more
        <3>0. more \in [1 .. Len(q) + 1 -> T]
            BY <1>4, LenProperties
        <3>1. more = [n \in 1 .. Len(q) + 1 |-> more[n]]
            BY <3>0
        <3> QED  BY <1>4, <3>1
    <2>2. Len(q) + 1 \in Nat
        BY <1>1
    <2>3. more \in Seq(R)
        <3> HIDE DEF R, more
        <3> QED  BY <2>1, <2>2, SeqDef
    <2> QED  BY <2>3 DEF IsList
<1> HIDE DEF more
<1>7. \A n \in DOMAIN more :
          (n \in DOMAIN q /\ more[n] = q[n]) \/ more[n] = x
    BY <1>1, <1>4, <1>5
<1> QED  BY <1>6, <1>7 DEF more

(* The clients kept and the reasons of those that were not. *)
ClientsInv ==
    /\ IsList(clients) /\ \A n \in DOMAIN clients : SoundClient(clients[n])
    /\ IsList(dropped)
    /\ \A n \in DOMAIN dropped :
          dropped[n] = "CANDIDATE_INVALID" =>
              \E answer \in request.answers.fit : Ungrounded(answer)
    /\ assessed \in Nat
    /\ at = "assessment" =>
          assessed <= Lesser(Len(organizations), MaxOrganizations)

(* A candidate stays sound while what it cites stays. *)
LEMMA SoundStays ==
    ASSUME sources' = sources, passages' = passages, findings' = findings,
           key_issues' = key_issues, NEW c, SoundClient(c)
    PROVE  SoundClient(c)'
<1>1. NamedBySources(c)'
    BY DEF SoundClient, NamedBySources
<1>2. check_client_candidate(c)'
    BY DEF SoundClient, check_client_candidate, _check_fit,
           _check_derived_aggregates, aggregate_finding_ids,
           aggregate_missing_evidence
<1>3. direct_source_ids' = direct_source_ids
    BY DEF direct_source_ids
<1>4. \A i : FactsUnder(i)' = FactsUnder(i)
    BY DEF FactsUnder
<1>5. ASSUME NEW a, RestsOnADocument(a) PROVE RestsOnADocument(a)'
    BY <1>3, <1>4, <1>5 DEF RestsOnADocument
<1>6. ASSUME NEW fit, EarnsP1(fit) PROVE EarnsP1(fit)'
    <2>1. RestsOnADocument(fit["PROBLEM_FIT"])
              => RestsOnADocument(fit["PROBLEM_FIT"])'
        BY <1>5
    <2> QED  BY <1>6, <2>1 DEF EarnsP1
<1>7. c.priority.band = "P1" => EarnsP1(c.fit)'
    BY <1>6 DEF SoundClient
<1> QED  BY <1>1, <1>2, <1>7 DEF SoundClient

(* An answer stays without references while the findings stay. *)
LEMMA UngroundedStays ==
    ASSUME findings' = findings, NEW answer, Ungrounded(answer)
    PROVE  Ungrounded(answer)'
<1>1. Context' = Context
    BY DEF Context
<1> QED  BY <1>1 DEF Ungrounded

(* A step that adds no client. *)
LEMMA ClientsStay ==
    ASSUME ClientsInv, sources' = sources, passages' = passages,
           findings' = findings, key_issues' = key_issues, request' = request,
           clients' = clients, dropped' = dropped, assessed' = assessed,
           at' = "assessment" =>
              assessed <= Lesser(Len(organizations'), MaxOrganizations)
    PROVE  ClientsInv'
<1>1. ASSUME NEW n \in DOMAIN clients PROVE SoundClient(clients[n])'
    <2>1. PICK c : c = clients[n]
        OBVIOUS
    <2>2. SoundClient(c)'
        BY <2>1, SoundStays DEF ClientsInv
    <2> QED  BY <2>1, <2>2
<1>2. \A answer : Ungrounded(answer) => Ungrounded(answer)'
    BY UngroundedStays
<1> QED  BY <1>1, <1>2 DEF ClientsInv, IsList, Lesser

(* One more organization is assessed. *)
LEMMA AssessKeepsClients ==
    ASSUME request \in Requests, FindingsInv, OrganizationsInv, ClientsInv,
           assess
    PROVE  ClientsInv'
<1>1. /\ at = "assessment" /\ request' = request /\ sources' = sources
      /\ passages' = passages /\ organizations' = organizations
      /\ findings' = findings /\ key_issues' = key_issues
    BY Zenon DEF assess, research
<1>2. /\ assessed \in Nat /\ MaxOrganizations \in Nat
      /\ Len(organizations) \in Nat
      /\ DOMAIN organizations = 1 .. Len(organizations)
      /\ assessed <= Lesser(Len(organizations), MaxOrganizations)
    BY <1>1, LenProperties, DiscoveryPolicyAssumption
    DEF ClientsInv, OrganizationsInv
<1>3. CASE UNCHANGED <<assessed, clients, dropped>>
    BY <1>1, <1>2, <1>3, ClientsStay
<1>4. CASE /\ assessed # Lesser(Len(organizations), MaxOrganizations)
           /\ \E answer \in request.answers.fit :
                 _build_candidate(organizations[assessed + 1], answer)
           /\ assessed' = assessed + 1
    <2>1. PICK answer \in request.answers.fit :
              _build_candidate(organizations[assessed + 1], answer)
        BY <1>4
    <2> DEFINE o == organizations[assessed + 1]
               c == Candidate(o, assess_fit(answer.rows))
    <2>2. /\ assessed + 1 \in DOMAIN organizations
          /\ assessed' \in Nat
          /\ assessed' <= Lesser(Len(organizations'), MaxOrganizations)
        <3> DEFINE most == Lesser(Len(organizations), MaxOrganizations)
        <3>1. most \in Nat /\ most <= Len(organizations)
            BY <1>2 DEF Lesser
        <3>2. assessed <= most /\ assessed # most
            BY <1>2, <1>4
        <3>3. Lesser(Len(organizations'), MaxOrganizations) = most
            BY <1>1
        <3> HIDE DEF most
        <3> QED  BY <1>2, <1>4, <3>1, <3>2, <3>3
    <2>3. NamedBySources(o)
        BY <2>2 DEF OrganizationsInv
    <2>4. /\ answer.rationale \in {"given", "absent", "too long"}
          /\ Len(answer.rows) \in Nat
          /\ DOMAIN answer.rows = 1 .. Len(answer.rows)
        BY MentionsAssumption
    <2> HIDE DEF o
    <2>5. answer.rationale = "given" =>
              IF check_client_candidate(c) THEN SoundClient(c)
              ELSE Ungrounded(answer)
        BY <2>3, <2>4, CandidateIsSound
    <2>6. CASE answer.rationale # "given"
        <3>1. clients' = clients /\ dropped' = Append(dropped, answer.rationale)
            BY <2>1, <2>6 DEF _build_candidate
        <3>2. answer.rationale # "CANDIDATE_INVALID"
            BY <2>4
        <3>3. /\ IsList(dropped')
              /\ \A n \in DOMAIN dropped' :
                    dropped'[n] = "CANDIDATE_INVALID" =>
                        n \in DOMAIN dropped /\ dropped[n] = "CANDIDATE_INVALID"
            BY <3>1, <3>2, ListIsAppended DEF ClientsInv
        <3>4. \A n \in DOMAIN dropped' :
                 dropped'[n] = "CANDIDATE_INVALID" =>
                     \E a \in request.answers.fit : Ungrounded(a)'
            BY <1>1, <3>3, UngroundedStays DEF ClientsInv
        <3>5. \A n \in DOMAIN clients : SoundClient(clients[n])'
            <4> TAKE n \in DOMAIN clients
            <4>1. PICK k : k = clients[n]
                OBVIOUS
            <4>2. SoundClient(k)'
                BY <1>1, <4>1, SoundStays DEF ClientsInv
            <4> QED  BY <3>1, <4>1, <4>2
        <3> QED
            BY <1>1, <2>2, <3>1, <3>3, <3>4, <3>5 DEF ClientsInv, IsList
    <2>7. CASE answer.rationale = "given" /\ check_client_candidate(c)
        <3>1. clients' = Append(clients, c) /\ dropped' = dropped
            BY <2>1, <2>7 DEF _build_candidate, o
        <3>2. PICK k : k = c
            OBVIOUS
        <3>3. SoundClient(k)'
            BY <1>1, <2>5, <2>7, <3>2, SoundStays
        <3>4. IsList(clients')
              /\ \A n \in DOMAIN clients' :
                    \/ n \in DOMAIN clients /\ clients'[n] = clients[n]
                    \/ clients'[n] = k
            <4> HIDE DEF c
            <4> QED  BY <3>1, <3>2, ListIsAppended DEF ClientsInv
        <3>5. ASSUME NEW n \in DOMAIN clients' PROVE SoundClient(clients[n])'
            <4>1. PICK j : j = clients'[n]
                OBVIOUS
            <4>2. SoundClient(j)'
                <5>1. CASE n \in DOMAIN clients /\ clients'[n] = clients[n]
                    BY <1>1, <4>1, <5>1, SoundStays DEF ClientsInv
                <5>2. CASE clients'[n] = k
                    BY <3>3, <4>1, <5>2
                <5> QED  BY <3>4, <5>1, <5>2
            <4> QED  BY <4>1, <4>2
        <3>6. \A n \in DOMAIN dropped' :
                 dropped'[n] = "CANDIDATE_INVALID" =>
                     \E a \in request.answers.fit : Ungrounded(a)'
            BY <1>1, <3>1, UngroundedStays DEF ClientsInv
        <3>7. (\A n \in DOMAIN clients : SoundClient(clients[n]))'
            BY <3>5
        <3> HIDE DEF c
        <3> QED
            BY <1>1, <2>2, <3>1, <3>4, <3>6, <3>7 DEF ClientsInv, IsList
    <2>8. CASE answer.rationale = "given" /\ ~check_client_candidate(c)
        <3>1. /\ clients' = clients
              /\ dropped' = Append(dropped, "CANDIDATE_INVALID")
            BY <2>1, <2>8 DEF _build_candidate, o
        <3>2. Ungrounded(answer)'
            BY <1>1, <2>5, <2>8, UngroundedStays
        <3>3. IsList(dropped')
            BY <3>1, ListIsAppended DEF ClientsInv
        <3>4. \A n \in DOMAIN clients : SoundClient(clients[n])'
            <4> TAKE n \in DOMAIN clients
            <4>1. PICK k : k = clients[n]
                OBVIOUS
            <4>2. SoundClient(k)'
                BY <1>1, <4>1, SoundStays DEF ClientsInv
            <4> QED  BY <3>1, <4>1, <4>2
        <3>5. \A n \in DOMAIN dropped' :
                 dropped'[n] = "CANDIDATE_INVALID" =>
                     \E a \in request.answers.fit : Ungrounded(a)'
            BY <3>2
        <3> HIDE DEF c
        <3> QED
            BY <1>1, <2>2, <3>1, <3>3, <3>4, <3>5 DEF ClientsInv, IsList
    <2> QED  BY <2>6, <2>7, <2>8
<1> QED  BY <1>3, <1>4, Zenon DEF assess

(* No step keeps a candidate that is not sound or drops one that is. *)
LEMMA ClientsNext ==
    ASSUME IntakeInv, StageInv, FindingsInv, OrganizationsInv, ClientsInv,
           [Next]_vars
    PROVE  ClientsInv'
<1>1. request \in Requests
    BY DEF IntakeInv
<1>2. CASE (IntakeStep \/ SearchStep \/ ResearchStep) /\ UNCHANGED discovery
    <2>1. /\ clients' = <<>> /\ dropped' = <<>> /\ assessed' = 0
          /\ at' # "assessment"
        BY <1>2, IntakeFrame, ResearchFrame
        DEF StageInv, IntakeStages, ResearchStages, discovery
    <2> QED  BY <2>1 DEF ClientsInv, IsList
<1>3. CASE build_criteria \/ find_organizations \/ read_mention \/ MentionsRead
    <2>1. clients = <<>> /\ dropped = <<>> /\ assessed = 0
        BY <1>3
        DEF StageInv, build_criteria, find_organizations, read_mention,
            MentionsRead
    <2>2. clients' = clients /\ dropped' = dropped /\ assessed' = assessed
        BY <1>3, Zenon
        DEF build_criteria, find_organizations, read_mention, MentionsRead,
            discovery
    <2>3. OrganizationsInv => Len(organizations) \in Nat
        BY LenProperties DEF OrganizationsInv
    <2>4. at' = "assessment" => organizations' = organizations
        BY <1>3
        DEF build_criteria, find_organizations, read_mention, MentionsRead,
            discovery, Ask
    <2>5. at' = "assessment" =>
              assessed' <= Lesser(Len(organizations'), MaxOrganizations)
        BY <2>1, <2>2, <2>3, <2>4, DiscoveryPolicyAssumption DEF Lesser
    <2> QED  BY <2>1, <2>2, <2>5 DEF ClientsInv, IsList
<1>4. CASE assess
    BY <1>1, <1>4, AssessKeepsClients
<1>5. CASE persist_clients
    <2>1. DiscoveryStep /\ UNCHANGED discovery
        BY <1>5, Zenon DEF DiscoveryStep, persist_clients
    <2>2. at' # "assessment"
        BY <1>5 DEF persist_clients
    <2> QED  BY <2>1, <2>2, DiscoveryFrame, ClientsStay DEF discovery
<1>6. CASE UNCHANGED vars
    <2>1. at' = "assessment" =>
              assessed <= Lesser(Len(organizations'), MaxOrganizations)
        BY <1>6 DEF vars, records, discovery, ClientsInv, Lesser
    <2> QED  BY <1>6, <2>1, ClientsStay DEF vars, records, research, discovery
<1> QED  BY <1>2, <1>3, <1>4, <1>5, <1>6 DEF Next, DiscoveryStep

-----------------------------------------------------------------------------
(* What the invariants say of a client. *)

(* What is promised of candidates, for the sound ones. *)
LEMMA ClientsAreSound ==
    ASSUME ClientsInv
    PROVE  SourcesNameTheFirm /\ P1IsEarned /\ OnlyUngroundedAreDropped
<1>1. SourcesNameTheFirm
    <2> SUFFICES ASSUME NEW n \in DOMAIN clients,
                        NEW s \in clients[n].source_ids
                 PROVE  \E p \in DOMAIN passages :
                           /\ passages[p].source_id = s
                           /\ Written(strip_legal_suffix(clients[n].name),
                                      passages[p].says)
        BY DEF SourcesNameTheFirm, Written
    <2> QED  BY DEF ClientsInv, SoundClient, NamedBySources
<1>2. P1IsEarned
    BY DEF P1IsEarned, ClientsInv, SoundClient, EarnsP1
<1>3. OnlyUngroundedAreDropped
    BY DEF OnlyUngroundedAreDropped, ClientsInv, Ungrounded
<1> QED  BY <1>1, <1>2, <1>3

(* What the lists hold passes the rules of evidence.py. *)
LEMMA ValidRecords ==
    ASSUME SourcesInv, FindingsInv, IssuesInv, ClientsInv
    PROVE  RecordsAreValid
<1>1. \A n \in DOMAIN sources : check_source_metadata(sources[n])
    BY DEF SourcesInv
<1>2. \A n \in DOMAIN findings : check_finding(findings[n], 1 .. (n - 1))
    BY DEF FindingsInv, Grounded
<1>3. /\ \A n \in DOMAIN swot : check_swot_issue(swot[n], DOMAIN findings)
      /\ \A n \in DOMAIN key_issues :
            check_key_issue(key_issues[n], DOMAIN swot, DOMAIN findings)
    BY DEF IssuesInv, Founded
<1>4. \A n \in DOMAIN clients :
          /\ check_client_candidate(clients[n])
          /\ clients[n].finding_ids \subseteq DOMAIN findings
    BY DEF ClientsInv, SoundClient
<1> QED  BY <1>1, <1>2, <1>3, <1>4 DEF RecordsAreValid

(* What the lists hold is of the records' shapes. *)
LEMMA RightTypes ==
    ASSUME IntakeInv, SourcesInv, CallInv, FindingsInv, IssuesInv, ClientsInv
    PROVE  TypeOK
<1>1. ResearchTypeOK
    <2>1. call \in [first : Nat, framework : Nat, rows : Nat]
        BY DEF CallInv
    <2>2. \A n \in DOMAIN key_issues : key_issues[n] \in KeyIssues
        BY ElementOfSeq DEF IssuesInv
    <2>3. \A n \in DOMAIN key_issues : key_issues[n].confidence \in Levels
        BY <2>2 DEF KeyIssues
    <2> QED  BY <2>1, <2>3 DEF ResearchTypeOK, FindingsInv
<1>2. \A n \in DOMAIN clients : _check_fit(clients[n].fit)
    BY DEF ClientsInv, SoundClient, check_client_candidate
<1> QED  BY <1>1, <1>2 DEF TypeOK, IntakeInv, SourcesInv

-----------------------------------------------------------------------------
(* Lists of records *)

(* A function over the first naturals is a list. *)
LEMMA ListByLength ==
    ASSUME NEW k \in Nat, NEW f, f = [n \in 1 .. k |-> f[n]]
    PROVE  IsList(f) /\ Len(f) = k /\ DOMAIN f = 1 .. k
<1> DEFINE R == {f[n] : n \in DOMAIN f}
<1>1. DOMAIN f = 1 .. k
    OBVIOUS
<1>2. f \in [1 .. k -> R]
    BY <1>1
<1>3. f \in Seq(R)
    <2> HIDE DEF R
    <2> QED  BY <1>2, SeqDef
<1>4. Len(f) = k
    <2> HIDE DEF R
    <2> QED  BY <1>1, <1>3, LenProperties
<1> QED  BY <1>1, <1>3, <1>4 DEF IsList

(* Two lists one after the other, whatever is in them. *)
LEMMA ListsAreJoined ==
    ASSUME NEW a, NEW b, IsList(a), IsList(b)
    PROVE  /\ IsList(a \o b) /\ Len(a) \in Nat /\ Len(b) \in Nat
           /\ Len(a \o b) = Len(a) + Len(b)
           /\ DOMAIN (a \o b) = 1 .. Len(a) + Len(b)
           /\ \A n \in 1 .. Len(a) : (a \o b)[n] = a[n]
           /\ \A n \in 1 .. Len(b) : (a \o b)[Len(a) + n] = b[n]
<1> DEFINE A == {a[n] : n \in DOMAIN a}
           B == {b[n] : n \in DOMAIN b}
           S == A \cup B
<1>1. /\ Len(a) \in Nat /\ DOMAIN a = 1 .. Len(a) /\ a \in [1 .. Len(a) -> A]
      /\ Len(b) \in Nat /\ DOMAIN b = 1 .. Len(b) /\ b \in [1 .. Len(b) -> B]
    BY LenProperties DEF IsList
<1>2. a \in [1 .. Len(a) -> S] /\ b \in [1 .. Len(b) -> S]
    <2> HIDE DEF A, B
    <2> QED  BY <1>1
<1>3. a \in Seq(S) /\ b \in Seq(S)
    <2> HIDE DEF S
    <2> QED  BY <1>1, <1>2, SeqDef
<1> HIDE DEF S
<1>4. /\ a \o b \in Seq(S) /\ Len(a \o b) = Len(a) + Len(b)
      /\ \A n \in 1 .. Len(a) : (a \o b)[n] = a[n]
      /\ \A n \in 1 .. Len(b) : (a \o b)[Len(a) + n] = b[n]
    BY <1>1, <1>3
<1> DEFINE q == a \o b
<1>5. q \in [1 .. Len(a) + Len(b) -> S]
    BY <1>4, LenProperties
<1>6. q = [n \in 1 .. Len(a) + Len(b) |-> q[n]] /\ Len(a) + Len(b) \in Nat
    <2> HIDE DEF q
    <2> QED  BY <1>1, <1>5
<1>7. IsList(q) /\ DOMAIN q = 1 .. Len(a) + Len(b)
    <2> HIDE DEF q
    <2> QED  BY <1>6, ListByLength
<1> QED  BY <1>1, <1>4, <1>7

(* Findings come before items, items before key issues. *)
LEMMA RecordsAreListed ==
    ASSUME FindingsInv, IssuesInv
    PROVE  /\ Len(findings) \in Nat /\ DOMAIN findings = 1 .. Len(findings)
           /\ Len(swot) \in Nat /\ DOMAIN swot = 1 .. Len(swot)
           /\ Len(key_issues) \in Nat
           /\ DOMAIN key_issues = 1 .. Len(key_issues)
           /\ DOMAIN ResearchRecords
                = 1 .. Len(findings) + Len(swot) + Len(key_issues)
           /\ \A n \in 1 .. Len(findings) :
                 ResearchRecords[n] = FindingRecord(n)
           /\ \A n \in 1 .. Len(swot) :
                 ResearchRecords[Len(findings) + n] = SwotRecord(n)
           /\ \A n \in 1 .. Len(key_issues) :
                 ResearchRecords[Len(findings) + Len(swot) + n]
                    = KeyIssueRecord(n)
<1> DEFINE a == [n \in DOMAIN findings |-> FindingRecord(n)]
           b == [n \in DOMAIN swot |-> SwotRecord(n)]
           c == [n \in DOMAIN key_issues |-> KeyIssueRecord(n)]
<1>1. /\ Len(findings) \in Nat /\ DOMAIN findings = 1 .. Len(findings)
      /\ Len(swot) \in Nat /\ DOMAIN swot = 1 .. Len(swot)
      /\ Len(key_issues) \in Nat /\ DOMAIN key_issues = 1 .. Len(key_issues)
    BY LenProperties DEF FindingsInv, IssuesInv
<1>2. ResearchRecords = (a \o b) \o c
    BY DEF ResearchRecords
<1>3. /\ a = [n \in 1 .. Len(findings) |-> a[n]]
      /\ \A n \in 1 .. Len(findings) : a[n] = FindingRecord(n)
    BY <1>1
<1>4. /\ b = [n \in 1 .. Len(swot) |-> b[n]]
      /\ \A n \in 1 .. Len(swot) : b[n] = SwotRecord(n)
    BY <1>1
<1>5. /\ c = [n \in 1 .. Len(key_issues) |-> c[n]]
      /\ \A n \in 1 .. Len(key_issues) : c[n] = KeyIssueRecord(n)
    BY <1>1
<1> HIDE DEF a, b, c
<1>6. /\ IsList(a) /\ Len(a) = Len(findings)
      /\ IsList(b) /\ Len(b) = Len(swot)
      /\ IsList(c) /\ Len(c) = Len(key_issues)
    BY <1>1, <1>3, <1>4, <1>5, ListByLength
<1> DEFINE ab == a \o b
<1>7. /\ IsList(ab) /\ Len(ab) = Len(findings) + Len(swot)
      /\ \A n \in 1 .. Len(findings) : ab[n] = a[n]
      /\ \A n \in 1 .. Len(swot) : ab[Len(findings) + n] = b[n]
    <2>0. IsList(a) /\ IsList(b)
        BY <1>6
    <2>1. /\ IsList(a \o b) /\ Len(a \o b) = Len(a) + Len(b)
          /\ \A n \in 1 .. Len(a) : (a \o b)[n] = a[n]
          /\ \A n \in 1 .. Len(b) : (a \o b)[Len(a) + n] = b[n]
        BY ONLY <2>0, ListsAreJoined
    <2> QED  BY <2>1, <1>6, Zenon
<1> HIDE DEF ab
<1> DEFINE q == ab \o c
<1>8. /\ DOMAIN q = 1 .. Len(findings) + Len(swot) + Len(key_issues)
      /\ \A n \in 1 .. Len(findings) + Len(swot) : q[n] = ab[n]
      /\ \A n \in 1 .. Len(key_issues) :
            q[Len(findings) + Len(swot) + n] = c[n]
    <2>0. IsList(ab) /\ IsList(c)
        BY <1>6, <1>7
    <2>1. /\ DOMAIN (ab \o c) = 1 .. Len(ab) + Len(c)
          /\ \A n \in 1 .. Len(ab) : (ab \o c)[n] = ab[n]
          /\ \A n \in 1 .. Len(c) : (ab \o c)[Len(ab) + n] = c[n]
        BY ONLY <2>0, ListsAreJoined
    <2> QED  BY <2>1, <1>6, <1>7, Zenon
<1>9. ResearchRecords = q
    BY <1>2 DEF ab
<1> HIDE DEF q
<1>10. ASSUME NEW n \in 1 .. Len(findings)
       PROVE  ResearchRecords[n] = FindingRecord(n)
    <2>1. n \in 1 .. Len(findings) + Len(swot)
        BY <1>1
    <2> QED  BY <1>3, <1>7, <1>8, <1>9, <2>1
<1>11. ASSUME NEW n \in 1 .. Len(swot)
       PROVE  ResearchRecords[Len(findings) + n] = SwotRecord(n)
    <2>1. Len(findings) + n \in 1 .. Len(findings) + Len(swot)
        BY <1>1
    <2> QED  BY <1>4, <1>7, <1>8, <1>9, <2>1
<1>12. \A n \in 1 .. Len(key_issues) :
           ResearchRecords[Len(findings) + Len(swot) + n] = KeyIssueRecord(n)
    BY <1>5, <1>8, <1>9
<1> QED  BY <1>1, <1>8, <1>9, <1>10, <1>11, <1>12

-----------------------------------------------------------------------------
(* The evidence trail *)

SavedIds == {e.id : e \in stored}

(* During intake only sources are stored, and of the one that is being     *)
(* answered not yet; the later stages find all that was recorded before.   *)
StoredInv ==
    /\ at \in IntakeStages =>
          SavedIds \subseteq
              {<<"source", n>> :
                  n \in 1 .. Len(sources) - (IF at = "answered" THEN 1 ELSE 0)}
    /\ at \in ResearchStages \cup DiscoveryStages =>
          \A n \in DOMAIN sources : <<"source", n>> \in SavedIds
    /\ at \in DiscoveryStages =>
          \A n \in DOMAIN ResearchRecords : ResearchRecords[n].id \in SavedIds

(* What a stored list still lacks. *)
LEMMA LeftIsUnsaved ==
    \A q : NotYet(q) = {n \in DOMAIN q : q[n].id \notin SavedIds}
BY DEF NotYet, SavedIds

(* The fields of a record. *)
LEMMA RecordFields ==
    /\ \A i : FindingRecord(i).id = <<"finding", i>>
    /\ \A i : FindingRecord(i).refs
                = {<<"finding", j>> : j \in findings[i].supporting}
                  \cup {<<"source", s>> : s \in {findings[i].source_id} \ {0}}
    /\ \A i : SwotRecord(i).id = <<"swot", i>>
    /\ \A i : SwotRecord(i).refs
                = {<<"finding", j>> : j \in swot[i].finding_ids}
    /\ \A i : KeyIssueRecord(i).refs
                = {<<"finding", j>> : j \in key_issues[i].finding_ids}
                  \cup {<<"swot", s>> : s \in key_issues[i].swot_issue_ids}
    /\ \A i : KeyIssueRecord(i).id = <<"key issue", i>>
    /\ \A i : ClientRecord(i).refs
                = {<<"source", s>> : s \in clients[i].source_ids}
                  \cup {<<"finding", j>> : j \in clients[i].finding_ids}
                  \cup {<<"key issue", k>> : k \in clients[i].key_issue_ids}
BY DEF FindingRecord, SwotRecord, KeyIssueRecord, ClientRecord, Entity

(* What comes first of the records left cites only what is stored. *)
LEMMA CitedIsSaved ==
    ASSUME SourcesInv, FindingsInv, IssuesInv,
           \A n \in DOMAIN sources : <<"source", n>> \in SavedIds,
           NEW n \in DOMAIN ResearchRecords,
           \A k \in DOMAIN ResearchRecords :
              k < n => ResearchRecords[k].id \in SavedIds
    PROVE  ResearchRecords[n].refs \subseteq SavedIds
<1> DEFINE F == Len(findings)
           W == Len(swot)
           K == Len(key_issues)
<1>1. /\ F \in Nat /\ DOMAIN findings = 1 .. F
      /\ W \in Nat /\ DOMAIN swot = 1 .. W
      /\ K \in Nat /\ DOMAIN key_issues = 1 .. K
      /\ DOMAIN ResearchRecords = 1 .. F + W + K
      /\ \A i \in 1 .. F : ResearchRecords[i] = FindingRecord(i)
      /\ \A i \in 1 .. W : ResearchRecords[F + i] = SwotRecord(i)
      /\ \A i \in 1 .. K : ResearchRecords[F + W + i] = KeyIssueRecord(i)
    BY RecordsAreListed
<1> HIDE DEF F, W, K
<1>2. ASSUME NEW i \in 1 .. F, i < n PROVE <<"finding", i>> \in SavedIds
    <2>1. ResearchRecords[i].id = <<"finding", i>>
        BY <1>1, RecordFields
    <2>2. i \in DOMAIN ResearchRecords
        BY <1>1
    <2> QED  BY <1>2, <2>1, <2>2
<1>3. ASSUME NEW i \in 1 .. W, F + i < n PROVE <<"swot", i>> \in SavedIds
    <2>1. ResearchRecords[F + i].id = <<"swot", i>>
        BY <1>1, RecordFields
    <2>2. F + i \in DOMAIN ResearchRecords
        BY <1>1
    <2> QED  BY <1>3, <2>1, <2>2
<1>4. CASE n \in 1 .. F
    <2>1. /\ findings[n] \in Findings /\ Grounded(findings[n], n)
        BY <1>1, <1>4, ElementOfSeq DEF FindingsInv
    <2>2. ResearchRecords[n].refs
            = {<<"finding", i>> : i \in findings[n].supporting}
              \cup {<<"source", s>> : s \in {findings[n].source_id} \ {0}}
        BY <1>1, <1>4, RecordFields
    <2>3. ASSUME NEW i \in findings[n].supporting
          PROVE  <<"finding", i>> \in SavedIds
        <3>1. i \in 1 .. n - 1
            BY <2>1 DEF Grounded, check_finding
        <3>2. i \in 1 .. F /\ i < n
            BY <1>1, <1>4, <3>1
        <3> QED  BY <1>2, <3>2
    <2>4. ASSUME findings[n].source_id # 0
          PROVE  <<"source", findings[n].source_id>> \in SavedIds
        <3>1. findings[n].evidence_type = "FACT"
            BY <2>1, <2>4 DEF Grounded, check_finding, Findings
        <3>2. findings[n].source_id \in DOMAIN sources
            BY <2>1, <3>1 DEF Grounded
        <3> QED  BY <3>2
    <2> QED  BY <2>2, <2>3, <2>4
<1>5. CASE n \in F + 1 .. F + W
    <2>1. PICK s \in 1 .. W : n = F + s
        <3>1. n - F \in 1 .. W /\ n = F + (n - F)
            BY <1>1, <1>5
        <3> QED  BY <3>1
    <2>2. ResearchRecords[n].refs = {<<"finding", i>> : i \in swot[s].finding_ids}
        BY <1>1, <2>1, RecordFields
    <2>3. swot[s].finding_ids \subseteq 1 .. F
        BY <1>1 DEF IssuesInv, check_swot_issue
    <2>4. \A i \in swot[s].finding_ids : i \in 1 .. F /\ i < n
        BY <1>1, <1>5, <2>3
    <2> QED  BY <1>2, <2>2, <2>4
<1>6. CASE n \in F + W + 1 .. F + W + K
    <2>1. PICK k \in 1 .. K : n = F + W + k
        <3>1. n - (F + W) \in 1 .. K /\ n = F + W + (n - (F + W))
            BY <1>1, <1>6
        <3> QED  BY <3>1
    <2>2. ResearchRecords[n].refs
            = {<<"finding", i>> : i \in key_issues[k].finding_ids}
              \cup {<<"swot", s>> : s \in key_issues[k].swot_issue_ids}
        BY <1>1, <2>1, RecordFields
    <2>3. /\ key_issues[k].finding_ids \subseteq 1 .. F
          /\ key_issues[k].swot_issue_ids \subseteq 1 .. W
        BY <1>1 DEF IssuesInv, Founded, check_key_issue
    <2>4. /\ \A i \in key_issues[k].finding_ids : i \in 1 .. F /\ i < n
          /\ \A s \in key_issues[k].swot_issue_ids : s \in 1 .. W /\ F + s < n
        BY <1>1, <1>6, <2>3
    <2> QED  BY <1>2, <1>3, <2>2, <2>4
<1>7. n \in 1 .. F \/ n \in F + 1 .. F + W \/ n \in F + W + 1 .. F + W + K
    BY <1>1
<1> QED  BY <1>4, <1>5, <1>6, <1>7

(* A record that is new and cites what is stored is a step of the trail. *)
LEMMA RecordIsKept ==
    ASSUME NEW r, r.id \notin SavedIds, r.refs \subseteq SavedIds,
           stored' = stored \cup {r}
    PROVE  Trail!Next
BY DEF Trail!Next, Trail!Keep, Trail!Ids, SavedIds

(* The fields of what is stored. *)
LEMMA EntityFields ==
    \A i, refs : Entity(i, refs).id = i /\ Entity(i, refs).refs = refs
BY DEF Entity

(* A source that is not stored yet is found first to last. *)
LEMMA UnsavedIsLeft ==
    ASSUME SourcesInv
    PROVE  /\ Unsaved = {n \in DOMAIN sources : <<"source", n>> \notin SavedIds}
           /\ Unsaved # {} => First(Unsaved) \in Unsaved
<1>1. Unsaved = {n \in DOMAIN sources : <<"source", n>> \notin SavedIds}
    BY DEF Unsaved, Stored, SavedIds
<1>2. Unsaved \in SUBSET Nat
    BY <1>1, LenProperties DEF SourcesInv
<1> QED  BY <1>1, <1>2, FirstIsLeast

(* The least of the places left, and what is before it. *)
LEMMA LeastIsLeft ==
    ASSUME NEW left \in SUBSET Nat, left # {}
    PROVE  LET n == CHOOSE k \in left : \A j \in left : k <= j IN
           /\ n \in left /\ n \in Nat /\ \A j \in left : n <= j
BY FirstIsLeast DEF First

(* A record of the diagnosis is saved after all it cites. *)
LEMMA ResearchIsKept ==
    ASSUME SourcesInv, FindingsInv, IssuesInv, StoredInv, persist_research
    PROVE  Trail!Next \/ stored' = stored
<1> DEFINE left == NotYet(ResearchRecords)
           n == CHOOSE k \in left : \A j \in left : k <= j
<1>1. \/ stored' = stored
      \/ left # {} /\ stored' = stored \cup {ResearchRecords[n]}
    BY DEF persist_research
<1>2. left = {k \in DOMAIN ResearchRecords :
                 ResearchRecords[k].id \notin SavedIds}
    BY LeftIsUnsaved
<1>3. left \in SUBSET Nat /\ \A k \in DOMAIN ResearchRecords : k \in Nat
    BY <1>2, RecordsAreListed
<1> SUFFICES ASSUME left # {}, stored' = stored \cup {ResearchRecords[n]}
             PROVE  Trail!Next
    BY <1>1
<1> HIDE DEF left
<1>4. n \in left /\ n \in Nat /\ \A j \in left : n <= j
    BY <1>3, LeastIsLeft
<1> HIDE DEF n
<1>5. /\ n \in DOMAIN ResearchRecords
      /\ ResearchRecords[n].id \notin SavedIds
    BY <1>2, <1>4
<1>6. \A k \in DOMAIN ResearchRecords :
          k < n => ResearchRecords[k].id \in SavedIds
    <2> TAKE k \in DOMAIN ResearchRecords
    <2> HAVE k < n
    <2>1. k \notin left
        BY <1>3, <1>4
    <2> QED  BY <1>2, <2>1
<1>7. \A s \in DOMAIN sources : <<"source", s>> \in SavedIds
    BY DEF StoredInv, ResearchStages, persist_research
<1>8. ResearchRecords[n].refs \subseteq SavedIds
    BY <1>5, <1>6, <1>7, CitedIsSaved
<1> QED  BY <1>5, <1>8, RecordIsKept

(* A candidate is saved after the diagnosis it cites. *)
LEMMA ClientsAreKept ==
    ASSUME FindingsInv, IssuesInv, ClientsInv, StoredInv, persist_clients
    PROVE  Trail!Next \/ stored' = stored
<1> DEFINE q == [i \in DOMAIN clients |-> ClientRecord(i)]
           left == NotYet(q)
           n == CHOOSE k \in left : \A j \in left : k <= j
<1>1. \/ stored' = stored
      \/ left # {} /\ stored' = stored \cup {q[n]}
    BY DEF persist_clients
<1> SUFFICES ASSUME left # {}, stored' = stored \cup {q[n]}
             PROVE  Trail!Next
    BY <1>1
<1>2. left = {k \in DOMAIN clients : q[k].id \notin SavedIds}
    BY LeftIsUnsaved
<1>3. left \in SUBSET Nat
    BY <1>2, LenProperties DEF ClientsInv, IsList
<1> HIDE DEF left
<1>4. n \in left
    BY <1>3, LeastIsLeft
<1> HIDE DEF n
<1>5. n \in DOMAIN clients /\ q[n].id \notin SavedIds /\ q[n] = ClientRecord(n)
    BY <1>2, <1>4
<1> HIDE DEF q
<1>6. q[n].refs = {<<"source", s>> : s \in clients[n].source_ids}
                  \cup {<<"finding", i>> : i \in clients[n].finding_ids}
                  \cup {<<"key issue", k>> : k \in clients[n].key_issue_ids}
    BY <1>5, RecordFields
<1>7. /\ clients[n].source_ids \subseteq DOMAIN sources
      /\ clients[n].finding_ids \subseteq DOMAIN findings
      /\ clients[n].key_issue_ids \subseteq DOMAIN key_issues
    BY <1>5 DEF ClientsInv, SoundClient, NamedBySources
<1>8. /\ \A s \in DOMAIN sources : <<"source", s>> \in SavedIds
      /\ \A k \in DOMAIN ResearchRecords : ResearchRecords[k].id \in SavedIds
    BY DEF StoredInv, DiscoveryStages, persist_clients
<1>9. ASSUME NEW i \in DOMAIN findings PROVE <<"finding", i>> \in SavedIds
    <2>1. i \in DOMAIN ResearchRecords
          /\ ResearchRecords[i] = FindingRecord(i)
        BY RecordsAreListed
    <2> QED  BY <1>8, <2>1, RecordFields
<1>10. ASSUME NEW k \in DOMAIN key_issues PROVE <<"key issue", k>> \in SavedIds
    <2>1. /\ Len(findings) + Len(swot) + k \in DOMAIN ResearchRecords
          /\ ResearchRecords[Len(findings) + Len(swot) + k] = KeyIssueRecord(k)
        BY RecordsAreListed
    <2> QED  BY <1>8, <2>1, RecordFields
<1>11. q[n].refs \subseteq SavedIds
    BY <1>6, <1>7, <1>8, <1>9, <1>10
<1> QED  BY <1>5, <1>11, RecordIsKept

(* Whatever a step saves is new and cites what is there. *)
LEMMA TrailNext ==
    ASSUME SourcesInv, FindingsInv, IssuesInv, ClientsInv, StoredInv,
           [Next]_vars
    PROVE  Trail!Next \/ stored' = stored
<1>1. CASE save_source_metadata
    <2> DEFINE r == Entity(<<"source", Len(sources)>>, {})
    <2>1. at = "answered" /\ stored' = stored \cup {r}
        BY <1>1 DEF save_source_metadata
    <2>2. SavedIds \subseteq {<<"source", n>> : n \in 1 .. Len(sources) - 1}
        BY <2>1 DEF StoredInv, IntakeStages
    <2>3. Len(sources) \in Nat
        BY LenProperties DEF SourcesInv
    <2>4. <<"source", Len(sources)>> \notin SavedIds
        BY <2>2, <2>3
    <2>5. r.id = <<"source", Len(sources)>> /\ r.refs = {}
        BY EntityFields
    <2> HIDE DEF r
    <2> QED  BY <2>1, <2>4, <2>5, RecordIsKept
<1>2. CASE save_found_source
    <2> DEFINE r == Entity(<<"source", First(Unsaved)>>, {})
    <2>1. /\ Unsaved # {}
          /\ stored' = stored \cup {r} \/ stored' = stored
        BY <1>2 DEF save_found_source
    <2>2. r.id \notin SavedIds /\ r.refs = {}
        BY <2>1, UnsavedIsLeft, EntityFields
    <2> HIDE DEF r
    <2> QED  BY <2>1, <2>2, RecordIsKept
<1>3. CASE persist_research
    BY <1>3, ResearchIsKept
<1>4. CASE persist_clients
    BY <1>4, ClientsAreKept
<1>5. CASE \/ ingest \/ _fail \/ _succeed \/ ingest_raises \/ SaveRaises
           \/ close \/ ingest_search_results \/ BeginResearch
    BY <1>5, Zenon
    DEF ingest, _fail, _succeed, ingest_raises, SaveRaises, close,
        ingest_search_results, BeginResearch
<1>6. CASE \/ extraction \/ extract_findings \/ FindingsRead
           \/ inference \/ infer_findings \/ InferencesRead
           \/ classification \/ classify_swot \/ IssuesRead
           \/ synthesis \/ derive_key_issues \/ KeyIssuesRead
    BY <1>6, Zenon
    DEF extraction, extract_findings, FindingsRead, inference, infer_findings,
        InferencesRead, classification, classify_swot, IssuesRead, synthesis,
        derive_key_issues, KeyIssuesRead
<1>7. CASE build_criteria \/ find_organizations \/ read_mention
           \/ MentionsRead \/ assess
    BY <1>7, Zenon
    DEF build_criteria, find_organizations, read_mention, MentionsRead, assess
<1>8. CASE UNCHANGED vars
    BY <1>8 DEF vars, records
<1> QED
    BY <1>1, <1>2, <1>3, <1>4, <1>5, <1>6, <1>7, <1>8
    DEF Next, IntakeStep, SearchStep, ResearchStep, DiscoveryStep

(* Discovery begins when all of the diagnosis is stored. *)
LEMMA DiscoveryIsLater ==
    ASSUME ResearchStep, at' \in DiscoveryStages
    PROVE  /\ persist_research /\ NotYet(ResearchRecords) = {}
           /\ stored' = stored
<1>1. ~extraction
    <2> SUFFICES ASSUME extraction PROVE FALSE
        OBVIOUS
    <2>1. at = "extraction"
          /\ (at' = "inference" \/ at' = at \/ at' \in {"findings", "research failed"})
        BY SendFrame, Zenon DEF extraction
    <2> QED  BY <2>1 DEF DiscoveryStages
<1>2. ~(extract_findings \/ infer_findings \/ classify_swot
        \/ derive_key_issues)
    BY DEF extract_findings, infer_findings, classify_swot,
           derive_key_issues, DiscoveryStages
<1>3. ~(FindingsRead \/ InferencesRead \/ IssuesRead \/ KeyIssuesRead)
    BY DEF FindingsRead, InferencesRead, IssuesRead, KeyIssuesRead,
           DiscoveryStages
<1>4. ~inference
    <2> SUFFICES ASSUME inference PROVE FALSE
        OBVIOUS
    <2>1. at = "inference"
          /\ (\/ at' = "classification" \/ at' = at
              \/ at' \in {"inferences", "research failed"})
        BY SendFrame, Zenon DEF inference
    <2> QED  BY <2>1 DEF DiscoveryStages
<1>5. ~classification
    <2> SUFFICES ASSUME classification PROVE FALSE
        OBVIOUS
    <2>1. at' = "synthesis" \/ at' \in {"issues", "research failed"}
        BY SendFrame, Zenon DEF classification
    <2> QED  BY <2>1 DEF DiscoveryStages
<1>6. ~synthesis
    <2> SUFFICES ASSUME synthesis PROVE FALSE
        OBVIOUS
    <2>1. at' = "saving research" \/ at' \in {"key issues", "research failed"}
        BY SendFrame, Zenon DEF synthesis
    <2> QED  BY <2>1 DEF DiscoveryStages
<1>7. persist_research
    BY <1>1, <1>2, <1>3, <1>4, <1>5, <1>6 DEF ResearchStep
<1>8. NotYet(ResearchRecords) = {} /\ stored' = stored
    BY <1>7 DEF persist_research, DiscoveryStages
<1> QED  BY <1>7, <1>8

(* Nothing that was stored goes. *)
LEMMA StoredGrows ==
    ASSUME [Next]_vars
    PROVE  stored \subseteq stored'
<1>1. CASE IntakeStep
    BY <1>1
    DEF IntakeStep, ingest, _fail, _succeed, ingest_raises,
        save_source_metadata, SaveRaises, close
<1>2. CASE SearchStep
    BY <1>2
    DEF SearchStep, ingest_search_results, save_found_source, BeginResearch
<1>3. CASE persist_research \/ persist_clients
    BY <1>3 DEF persist_research, persist_clients
<1>4. CASE \/ extraction \/ extract_findings \/ FindingsRead
           \/ inference \/ infer_findings \/ InferencesRead
           \/ classification \/ classify_swot \/ IssuesRead
           \/ synthesis \/ derive_key_issues \/ KeyIssuesRead
    BY <1>4, Zenon
    DEF extraction, extract_findings, FindingsRead, inference, infer_findings,
        InferencesRead, classification, classify_swot, IssuesRead, synthesis,
        derive_key_issues, KeyIssuesRead
<1>5. CASE build_criteria \/ find_organizations \/ read_mention
           \/ MentionsRead \/ assess
    BY <1>5, Zenon
    DEF build_criteria, find_organizations, read_mention, MentionsRead, assess
<1>6. CASE UNCHANGED vars
    BY <1>6 DEF vars, records
<1> QED
    BY <1>1, <1>2, <1>3, <1>4, <1>5, <1>6
    DEF Next, ResearchStep, DiscoveryStep

(* A search adds sources and takes none. *)
LEMMA SearchLengthens ==
    ASSUME request \in Requests, SourcesInv, ingest_search_results
    PROVE  Len(sources') \in Nat /\ Len(sources') >= Len(sources)
<1> DEFINE found == [i \in DOMAIN CitableHits |->
                        source_from_search_result(CitableHits[i])]
<1>1. /\ Len(CitableHits) \in Nat
      /\ DOMAIN CitableHits = 1 .. Len(CitableHits)
    BY HitsAreCitable
<1>2. found = [i \in 1 .. Len(CitableHits) |-> found[i]]
    BY <1>1
<1>3. sources' = sources \o found
    BY DEF ingest_search_results
<1> HIDE DEF found
<1>4. IsList(found)
    BY <1>1, <1>2, ListByLength
<1>5. IsList(sources)
    <2>1. Len(sources) \in Nat /\ sources = [i \in 1 .. Len(sources) |-> sources[i]]
        BY LenProperties DEF SourcesInv
    <2> QED  BY <2>1, ListByLength
<1>6. Len(sources \o found) = Len(sources) + Len(found)
      /\ Len(sources) \in Nat /\ Len(found) \in Nat
    BY ONLY <1>4, <1>5, ListsAreJoined
<1> QED  BY <1>3, <1>6

(* The sources stored during intake, as a step of it leaves them. *)
LEMMA IntakeKeepsStored ==
    ASSUME request \in Requests, SourcesInv, StoredInv, IntakeStep \/ SearchStep
    PROVE  StoredInv'
<1>1. Len(sources) \in Nat /\ DOMAIN sources = 1 .. Len(sources)
      /\ sources \in Seq(SourceMetadata)
    BY LenProperties DEF SourcesInv
<1>2. at \in IntakeStages /\ at' \in IntakeStages \cup {"extraction", "done"}
    BY IntakeFrame
<1> DEFINE Numbers(k) == {<<"source", n>> : n \in 1 .. k}
<1>3. SavedIds \subseteq Numbers(Len(sources))
      /\ (at = "answered" => SavedIds \subseteq Numbers(Len(sources) - 1))
    BY <1>1, <1>2 DEF StoredInv
<1>4. ASSUME at' \in IntakeStages,
             SavedIds' \subseteq
                 Numbers(Len(sources') - (IF at' = "answered" THEN 1 ELSE 0))
      PROVE  StoredInv'
    BY <1>4
    DEF StoredInv, IntakeStages, ResearchStages, DiscoveryStages
<1>5. CASE ingest \/ ingest_raises \/ SaveRaises \/ close
    <2>1. /\ stored' = stored /\ sources' = sources /\ at' # "answered"
          /\ at' \in IntakeStages
        BY <1>5 DEF ingest, ingest_raises, SaveRaises, close, IntakeStages
    <2>2. SavedIds' = SavedIds
        BY <2>1 DEF SavedIds
    <2> QED  BY <1>1, <1>3, <1>4, <2>1, <2>2
<1>6. CASE _fail \/ _succeed
    <2>1. /\ stored' = stored /\ at' = "answered"
          /\ \E s : sources' = Append(sources, s)
        BY <1>6 DEF _fail, _succeed
    <2>2. Len(sources') = Len(sources) + 1
        BY <1>1, <2>1
    <2>3. SavedIds' = SavedIds
        BY <2>1 DEF SavedIds
    <2>4. (Len(sources) + 1) - 1 = Len(sources)
        BY <1>1
    <2>5. at' \in IntakeStages
        BY <2>1 DEF IntakeStages
    <2> QED  BY <1>3, <1>4, <2>1, <2>2, <2>3, <2>4, <2>5
<1>7. CASE save_source_metadata
    <2>1. /\ stored' = stored \cup {Entity(<<"source", Len(sources)>>, {})}
          /\ sources' = sources /\ at' = "uploading" /\ at = "answered"
        BY <1>7 DEF save_source_metadata
    <2>2. sources # <<>>
        BY <2>1 DEF SourcesInv
    <2>3. Len(sources) \in 1 .. Len(sources)
        BY <1>1, <2>2, EmptySeq
    <2>4. SavedIds' = SavedIds \cup {<<"source", Len(sources)>>}
        BY <2>1, EntityFields DEF SavedIds
    <2>5. SavedIds' \subseteq Numbers(Len(sources))
        BY <1>3, <2>3, <2>4
    <2>6. at' \in IntakeStages /\ at' # "answered"
        BY <2>1 DEF IntakeStages
    <2> QED  BY <1>1, <1>4, <2>1, <2>5, <2>6
<1>8. CASE ingest_search_results
    <2>1. /\ stored' = stored /\ at' = "saving hits"
          /\ \E more : sources' = sources \o more
        BY <1>8 DEF ingest_search_results
    <2>2. SavedIds' = SavedIds
        BY <2>1 DEF SavedIds
    <2>3. Len(sources') \in Nat /\ Len(sources') >= Len(sources)
        BY <1>8, SearchLengthens
    <2>4. Numbers(Len(sources)) \subseteq Numbers(Len(sources'))
        BY <1>1, <2>3
    <2>5. at' \in IntakeStages /\ at' # "answered"
        BY <2>1 DEF IntakeStages
    <2> QED  BY <1>1, <1>3, <1>4, <2>2, <2>3, <2>4, <2>5
<1>9. CASE save_found_source
    <2>1. /\ Unsaved # {} /\ sources' = sources
          /\ at' \in IntakeStages /\ at' # "answered"
          /\ \/ stored' = stored \cup {Entity(<<"source", First(Unsaved)>>, {})}
             \/ stored' = stored
        BY <1>9 DEF save_found_source, IntakeStages
    <2>2. SavedIds' \subseteq SavedIds \cup {<<"source", First(Unsaved)>>}
        BY <2>1, EntityFields DEF SavedIds
    <2>3. First(Unsaved) \in 1 .. Len(sources)
        BY <1>1, <2>1, UnsavedIsLeft
    <2>4. SavedIds' \subseteq Numbers(Len(sources))
        BY <1>3, <2>2, <2>3
    <2> QED  BY <1>1, <1>4, <2>1, <2>4
<1>10. CASE BeginResearch
    <2>1. /\ Unsaved = {} /\ sources' = sources /\ stored' = stored
          /\ at' \in {"extraction", "done"}
        BY <1>10 DEF BeginResearch
    <2>2. \A n \in DOMAIN sources : <<"source", n>> \in SavedIds
        BY <2>1, UnsavedIsLeft
    <2>3. SavedIds' = SavedIds
        BY <2>1 DEF SavedIds
    <2> QED
        BY <2>1, <2>2, <2>3
        DEF StoredInv, IntakeStages, DiscoveryStages
<1> QED
    BY <1>5, <1>6, <1>7, <1>8, <1>9, <1>10 DEF IntakeStep, SearchStep

(* What a stage relies on is stored before it begins. *)
LEMMA StoredNext ==
    ASSUME IntakeInv, SourcesInv, StageInv, StoredInv, [Next]_vars
    PROVE  StoredInv'
<1>1. CASE IntakeStep \/ SearchStep
    BY <1>1, IntakeKeepsStored DEF IntakeInv
<1>2. SavedIds \subseteq SavedIds'
    BY StoredGrows DEF SavedIds
<1>3. CASE ResearchStep
    <2>1. /\ at \in ResearchStages /\ sources' = sources
          /\ at' \in ResearchStages \cup {"criteria", "done"}
        BY <1>3, ResearchFrame
    <2>2. at' \notin IntakeStages
        BY <2>1 DEF ResearchStages, IntakeStages
    <2>3. \A n \in DOMAIN sources : <<"source", n>> \in SavedIds'
        BY <1>2, <2>1 DEF StoredInv
    <2>4. ASSUME at' \in DiscoveryStages
          PROVE  \A n \in DOMAIN ResearchRecords' :
                    ResearchRecords'[n].id \in SavedIds'
        <3>1. persist_research /\ NotYet(ResearchRecords) = {}
            BY <1>3, <2>4, DiscoveryIsLater
        <3>2. findings' = findings /\ swot' = swot /\ key_issues' = key_issues
            BY <3>1 DEF persist_research, research
        <3>3. ResearchRecords' = ResearchRecords
            BY <3>2
            DEF ResearchRecords, FindingRecord, SwotRecord, KeyIssueRecord
        <3>4. \A n \in DOMAIN ResearchRecords :
                 ResearchRecords[n].id \in SavedIds
            BY <3>1, LeftIsUnsaved
        <3> QED  BY <1>2, <3>3, <3>4
    <2> QED  BY <2>1, <2>2, <2>3, <2>4 DEF StoredInv
<1>4. CASE DiscoveryStep \/ UNCHANGED vars
    <2>1. /\ sources' = sources /\ findings' = findings
          /\ swot' = swot /\ key_issues' = key_issues
          /\ \/ at \in DiscoveryStages /\ at' \in DiscoveryStages \cup {"done"}
             \/ at' = at /\ stored' = stored
        BY <1>4, DiscoveryFrame DEF vars, records, research
    <2>2. ResearchRecords' = ResearchRecords
        BY <2>1 DEF ResearchRecords, FindingRecord, SwotRecord, KeyIssueRecord
    <2>3. CASE at' = at /\ stored' = stored
        <3>1. SavedIds' = SavedIds
            BY <2>3 DEF SavedIds
        <3> QED  BY <2>1, <2>2, <2>3, <3>1 DEF StoredInv
    <2>4. CASE at \in DiscoveryStages /\ at' \in DiscoveryStages \cup {"done"}
        <3>1. at' \notin IntakeStages
            BY <2>4 DEF DiscoveryStages, IntakeStages
        <3>2. /\ \A n \in DOMAIN sources : <<"source", n>> \in SavedIds'
              /\ \A n \in DOMAIN ResearchRecords :
                    ResearchRecords[n].id \in SavedIds'
            BY <1>2, <2>4 DEF StoredInv
        <3> QED  BY <2>1, <2>2, <3>1, <3>2 DEF StoredInv
    <2> QED  BY <2>1, <2>3, <2>4
<1> QED
    BY <1>1, <1>3, <1>4 DEF Next

-----------------------------------------------------------------------------
(* The inductive invariant of an engagement. *)
EngagementInv ==
    /\ IntakeInv /\ SourcesInv /\ StageInv /\ CallInv /\ ReadInv
    /\ FindingsInv /\ IssuesInv /\ OrganizationsInv /\ ClientsInv /\ StoredInv

(* Every step keeps the invariant; each part relies on those before it. *)
LEMMA EngagementNext ==
    ASSUME EngagementInv, [Next]_vars
    PROVE  EngagementInv'
<1> USE DEF EngagementInv
<1>1. IntakeInv' /\ SourcesInv' /\ StageInv'
    BY IntakeNext, SourcesNext, StageNext
<1>2. Len(findings) \in Nat
    BY LenProperties DEF FindingsInv
<1>3. CallInv'
    BY <1>1, <1>2, CallNext
<1>4. ReadInv' /\ FindingsInv' /\ IssuesInv'
    BY ReadNext, FindingsNext, IssuesNext
<1>5. OrganizationsInv' /\ ClientsInv' /\ StoredInv'
    BY OrganizationsNext, ClientsNext, StoredNext
<1> QED  BY <1>1, <1>3, <1>4, <1>5

(* An engagement begins with empty lists and an empty store. *)
LEMMA EngagementBegins ==
    ASSUME EngagementInit
    PROVE  EngagementInv
<1>1. /\ request \in Requests /\ at = "uploading" /\ buffers = <<>>
      /\ batch_bytes = 0 /\ read_bytes = 0 /\ closed \in BOOLEAN
      /\ sources = <<>> /\ passages = <<>> /\ stored = {}
    BY DEF EngagementInit, Init, IntakeInit
<1>2. /\ call = FirstCall /\ offered = <<>> /\ skipped = {}
      /\ findings = <<>> /\ swot = <<>> /\ key_issues = <<>>
      /\ organizations = <<>> /\ assessed = 0 /\ clients = <<>>
      /\ dropped = <<>>
    BY DEF EngagementInit, ResearchInit, DiscoveryInit
<1>3. /\ at \in IntakeStages
      /\ at \notin ResearchStages \cup DiscoveryStages \cup {"done"}
    BY <1>1 DEF IntakeStages, ResearchStages, DiscoveryStages
<1>4. IntakeInv
    BY InitialIntake
<1>5. SourcesInv
    BY <1>1 DEF SourcesInv
<1>6. StageInv
    BY <1>1, <1>2, <1>3 DEF StageInv
<1>7. CallInv
    <2>1. call \in [first : Nat \ {0}, framework : Nat \ {0}, rows : Nat]
        BY <1>2 DEF FirstCall
    <2>2. offered \in Seq([framework : Nat \ {0}, passages : SUBSET Nat])
        BY <1>2
    <2> QED  BY <1>1, <2>1, <2>2 DEF CallInv
<1>8. ReadInv
    BY <1>1 DEF ReadInv
<1>9. FindingsInv /\ IssuesInv /\ OrganizationsInv
    BY <1>2 DEF FindingsInv, IssuesInv, OrganizationsInv
<1>10. ClientsInv
    <2>1. IsList(<<>>)
        BY DEF IsList
    <2> QED  BY <1>1, <1>2, <2>1 DEF ClientsInv
<1>11. StoredInv
    <2>1. SavedIds = {}
        BY <1>1 DEF SavedIds
    <2> QED  BY <1>3, <2>1 DEF StoredInv
<1> QED
    BY <1>4, <1>5, <1>6, <1>7, <1>8, <1>9, <1>10, <1>11 DEF EngagementInv

(* Whatever is uploaded, found and answered, and wherever a stage fails,   *)
(* the lists of an engagement stay what the stages after them rely on.     *)
THEOREM EngagementInvariance == Spec => []EngagementInv
<1>1. EngagementInit => EngagementInv
    BY EngagementBegins
<1>2. EngagementInv /\ [Next]_vars => EngagementInv'
    BY EngagementNext
<1> QED  BY <1>1, <1>2, PTL DEF Spec

(* What an engagement holds is of the records' shapes. *)
THEOREM TypeCorrect == Spec => []TypeOK
<1>1. EngagementInv => TypeOK
    BY RightTypes DEF EngagementInv
<1> QED  BY <1>1, EngagementInvariance, PTL

(* Every document, whatever is in it, hands on each readable unit in the   *)
(* reach of its parser in one passage, the header of a table apart, and    *)
(* where it is counted as it is its locators name the units its passages   *)
(* were taken from. The reach ends at pages that raise, shapes without a   *)
(* text frame and skipped HTML elements: all after one that is not closed. *)
THEOREM PassagesKeepTheirPlaces == Spec => []PassagesAreFaithful
<1>1. EngagementInv => PassagesAreFaithful
    <2> SUFFICES ASSUME EngagementInv, AnsweredWithADocument
                 PROVE  PassagesAreFaithful
        BY DEF PassagesAreFaithful
    <2>1. request \in Requests /\ Len(buffers) \in 1 .. Len(request.files)
        BY DEF EngagementInv, IntakeInv, SourcesInv, AnsweredWithADocument
    <2>2. File.units \in Seq(STRING) /\ File.declared \in FileTypes
        BY <2>1, FileFacts
    <2> QED  BY <2>2, DocumentsAreFaithful DEF PassagesAreFaithful
<1> QED  BY <1>1, EngagementInvariance, PTL

(* However long the passages are and however the limits cut them up, each  *)
(* of them is put to every framework once, or the framework is reported.   *)
THEOREM AllIsRead == Spec => []EveryPassageIsRead
<1>1. EngagementInv => EveryPassageIsRead
    BY SettledIsRead DEF EngagementInv
<1> QED  BY <1>1, EngagementInvariance, PTL

(* No confidence rises on the way from a passage to a key issue.           *)
THEOREM NoConfidenceRises == Spec => []ConfidenceIsNeverRaised
<1>1. EngagementInv => ConfidenceIsNeverRaised
    BY NoneIsRaised DEF EngagementInv
<1> QED  BY <1>1, EngagementInvariance, PTL

(* A reference is read against the list of its own prompt.                 *)
THEOREM ReferencesAreToTheirPrompt == Spec => CitationsWereOffered
<1>1. EngagementInv /\ [Next]_vars => [CitesItsPrompt]_research
    BY StepsCiteTheirPrompt DEF EngagementInv
<1> QED
    BY <1>1, EngagementInvariance, PTL DEF Spec, CitationsWereOffered

(* Whatever a provider answers, what is kept passes the evidence rules.    *)
THEOREM KeptRecordsAreValid == Spec => []RecordsAreValid
<1>1. EngagementInv => RecordsAreValid
    BY ValidRecords DEF EngagementInv
<1> QED  BY <1>1, EngagementInvariance, PTL

(* Of any firms, in any order of mention: the sources a candidate carries  *)
(* write its name, whatever they were merged under.                        *)
THEOREM CandidatesAreNamed == Spec => []SourcesNameTheFirm
<1>1. EngagementInv => SourcesNameTheFirm
    BY ClientsAreSound DEF EngagementInv
<1> QED  BY <1>1, EngagementInvariance, PTL

(* No answer of a provider earns the first band by its level alone.        *)
THEOREM FirstBandsAreEarned == Spec => []P1IsEarned
<1>1. EngagementInv => P1IsEarned
    BY ClientsAreSound DEF EngagementInv
<1> QED  BY <1>1, EngagementInvariance, PTL

(* The check at the end finds only what rests on nothing.                  *)
THEOREM OnlyTheUngroundedGo == Spec => []OnlyUngroundedAreDropped
<1>1. EngagementInv => OnlyUngroundedAreDropped
    BY ClientsAreSound DEF EngagementInv
<1> QED  BY <1>1, EngagementInvariance, PTL

(* The stages implement the evidence trail: what is stored is a trail, and *)
(* every step adds one record that cites what is there, or none.           *)
THEOREM StagesKeepTheTrail == Spec => ImplementsTrail
<1>1. EngagementInit => Trail!Init
    BY DEF EngagementInit, Init, Trail!Init
<1>2. EngagementInv /\ [Next]_vars => [Trail!Next]_stored
    BY TrailNext DEF EngagementInv
<1> QED
    BY <1>1, <1>2, EngagementInvariance, PTL
    DEF Spec, ImplementsTrail, Trail!Spec
=============================================================================
