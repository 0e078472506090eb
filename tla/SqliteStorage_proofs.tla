------------------------ MODULE SqliteStorage_proofs ------------------------
(* Proofs about SqliteStorage, for any processes, threads, projects and    *)
(* payloads.  They rest on the file's single write transaction; the write  *)
(* lock of an adapter is not needed for any of them.                       *)
EXTENDS SqliteStorage, Sequences, FiniteSetTheorems, WellFoundedInduction, TLAPS

\* The rows a replace leaves in place.
Kept(t) == {x \in rows : ~(x.type = "project" /\ x.project = call[t].project)}

(* The thread inside a transaction is the one that opened it, and what     *)
(* that transaction sees is fixed statement by statement.                  *)
SaveInv(t) ==
    /\ pc[t] \in {"insert", "commit"} <=> writer = t
    /\ pc[t] # "idle" => call[t] \in Calls
    /\ pc[t] = "insert" => call[t].type = "project" /\ pending = Kept(t)
    /\ pc[t] = "commit" /\ call[t].type = "project" => pending = Kept(t) \cup {NewRow(t)}
    /\ pc[t] = "commit" /\ call[t].type # "project" => pending = rows \cup {NewRow(t)}

(* What ordering by row_id needs to be a total order of the rows.           *)
IdsAreCounted ==
    /\ \A x, y \in rows : x.row_id = y.row_id => x = y
    /\ \A x \in rows : x.row_id \in 1 .. lastId

Inv == TypeOK /\ (\A t \in Threads : SaveInv(t)) /\ OneRowPerProject /\ IdsAreCounted

\* A new file holds nothing.
LEMMA InitInv == Init => Inv
<1> SUFFICES ASSUME Init PROVE Inv
  OBVIOUS
<1>1. TypeOK
  BY DEF Init, TypeOK, InitStates
<1>2. \A t \in Threads : SaveInv(t)
  BY SqliteAssumption DEF Init, SaveInv
<1>3. OneRowPerProject /\ IdsAreCounted
  BY DEF Init, OneRowPerProject, IdsAreCounted
<1> QED
  BY <1>1, <1>2, <1>3 DEF Inv

\* The row an INSERT adds is a row of the table.
LEMMA NewRowType ==
  ASSUME TypeOK, NEW t \in Threads, call[t] \in Calls
  PROVE  NewRow(t) \in Rows
BY DEF TypeOK, NewRow, Rows, Calls

\* Steps of _initialise touch neither the rows nor a save.
LEMMA InitialiseStep ==
  ASSUME TypeOK, NEW p \in Processes, _initialise(p)
  PROVE  /\ UNCHANGED <<data, lock, pc, call, saves, crashes>>
         /\ version' \in {0, SCHEMA_VERSION} /\ table' \in BOOLEAN
         /\ init' \in [Processes -> InitStates]
<1>1. CASE ReadVersion(p)
  BY <1>1 DEF ReadVersion, TypeOK, InitStates, file
<1>2. CASE ReadTable(p)
  BY <1>2 DEF ReadTable, TypeOK, InitStates, file
<1>3. CASE CreateTable(p)
  BY <1>3 DEF CreateTable, TypeOK, InitStates
<1>4. CASE SetVersion(p)
  BY <1>4 DEF SetVersion, TypeOK, InitStates
<1>5. CASE InitFails(p)
  BY <1>5 DEF InitFails, TypeOK, InitStates, file
<1> QED
  BY <1>1, <1>2, <1>3, <1>4, <1>5 DEF _initialise

\* Every step keeps the types.
LEMMA StepType == Inv /\ [Next]_vars => TypeOK'
<1> SUFFICES ASSUME Inv, [Next]_vars PROVE TypeOK'
  OBVIOUS
<1>0. TypeOK /\ \A t \in Threads : SaveInv(t)
  BY DEF Inv
<1> USE SqliteAssumption
<1>1. ASSUME NEW p \in Processes, _initialise(p) PROVE TypeOK'
  BY <1>0, <1>1, InitialiseStep DEF TypeOK, data
<1>2. ASSUME NEW p \in Processes, Crash(p) PROVE TypeOK'
  BY <1>0, <1>2 DEF Crash, TypeOK, file, InitStates
<1>3. ASSUME NEW t \in Threads, BeginSave(t) PROVE TypeOK'
  BY <1>0, <1>3 DEF BeginSave, TypeOK, file, data
<1>4. ASSUME NEW t \in Threads, AcquireLock(t) PROVE TypeOK'
  BY <1>0, <1>4 DEF AcquireLock, TypeOK, file, data
<1>5. ASSUME NEW t \in Threads, Delete(t) PROVE TypeOK'
  BY <1>0, <1>5 DEF Delete, TypeOK, file
<1>6. ASSUME NEW t \in Threads, Insert(t) PROVE TypeOK'
  <2>1. call[t] \in Calls
    BY <1>0, <1>6 DEF Insert, SaveInv
  <2>2. pending' \subseteq Rows
    BY <1>0, <1>6, <2>1, NewRowType DEF Insert, TypeOK
  <2> QED
    BY <1>0, <1>6, <2>2 DEF Insert, TypeOK, file
<1>7. ASSUME NEW t \in Threads, Commit(t) PROVE TypeOK'
  BY <1>0, <1>7 DEF Commit, Release, TypeOK, file
<1>8. ASSUME NEW t \in Threads, SaveFails(t) PROVE TypeOK'
  BY <1>0, <1>8 DEF SaveFails, Release, TypeOK, file
<1>9. CASE UNCHANGED vars
  BY <1>0, <1>9 DEF vars, file, data, TypeOK
<1> QED
  BY <1>1, <1>2, <1>3, <1>4, <1>5, <1>6, <1>7, <1>8, <1>9 DEF Next, SaveStep

\* A step that keeps the file, the transaction and the rows' order.
LEMMA RowsUntouched ==
  ASSUME Inv, rows' = rows, lastId' = lastId
  PROVE  OneRowPerProject' /\ IdsAreCounted'
BY DEF Inv, OneRowPerProject, IdsAreCounted

\* The row a save adds next to a set of rows that lacks its project's old one.
LEMMA CommittedRows ==
  ASSUME Inv, NEW t \in Threads, pc[t] = "commit"
  PROVE  /\ \A x \in pending : x \in rows \/ x = NewRow(t)
         /\ \A x \in rows : x.type # "project" => x \in pending
         /\ \A x \in rows : x \in pending \/ x.project = call[t].project
         /\ NewRow(t) \in pending
         /\ call[t].type = "project" =>
                \A x \in pending : x = NewRow(t) \/ x.type # "project"
                                   \/ x.project # call[t].project
         /\ call[t].type # "project" => rows \subseteq pending
BY DEF Inv, SaveInv, Kept

\* A thread is not disturbed by what leaves its save and its transaction alone.
LEMMA Frame ==
  ASSUME NEW u \in Threads, SaveInv(u),
         pc'[u] = pc[u], call'[u] = call[u], rows' = rows, lastId' = lastId,
         writer' = u <=> writer = u, writer = u => pending' = pending
  PROVE  SaveInv(u)'
BY DEF SaveInv, Kept, NewRow

\* Between saves a thread owes nothing but not to be the writer.
LEMMA Idle ==
  ASSUME NEW u \in Threads, pc'[u] = "idle", writer' # u
  PROVE  SaveInv(u)'
BY DEF SaveInv

\* The transaction invariant of every thread, step by step.
LEMMA StepSave == Inv /\ [Next]_vars => \A u \in Threads : SaveInv(u)'
<1> SUFFICES ASSUME Inv, [Next]_vars, NEW u \in Threads PROVE SaveInv(u)'
  OBVIOUS
<1>0. TypeOK /\ \A t \in Threads : SaveInv(t)
  BY DEF Inv
<1>00. \A t \in Threads : writer = t => pc[t] \in {"insert", "commit"}
  BY <1>0 DEF SaveInv
<1> USE SqliteAssumption
<1>1. ASSUME NEW p \in Processes, _initialise(p) PROVE SaveInv(u)'
  BY <1>0, <1>1, InitialiseStep, Frame DEF data
<1>2. ASSUME NEW p \in Processes, Crash(p) PROVE SaveInv(u)'
  <2>1. rows' = rows /\ lastId' = lastId
    BY <1>2 DEF Crash
  <2>2. CASE ProcessOf[u] = p
    <3>1. pc'[u] = "idle" /\ writer' # u
      BY <1>0, <1>2, <2>2 DEF Crash, TypeOK
    <3> QED
      BY <3>1, Idle
  <2>3. CASE ProcessOf[u] # p
    <3>1. pc'[u] = pc[u] /\ call'[u] = call[u]
      BY <1>2, <2>3 DEF Crash
    <3>2. (writer' = u <=> writer = u) /\ (writer = u => pending' = pending)
      BY <1>2, <2>3 DEF Crash
    <3> QED
      BY <1>0, <2>1, <3>1, <3>2, Frame
  <2> QED
    BY <2>2, <2>3
<1>3. ASSUME NEW t \in Threads, BeginSave(t) PROVE SaveInv(u)'
  <2>1. CASE u # t
    BY <1>0, <1>3, <2>1, Frame DEF BeginSave, TypeOK, data
  <2>2. CASE u = t
    <3>1. pc'[u] = "lock" /\ call'[u] \in Calls /\ writer' = writer /\ writer # u
      BY <1>0, <1>00, <1>3, <2>2 DEF BeginSave, TypeOK, data
    <3> QED
      BY <3>1 DEF SaveInv
  <2> QED
    BY <2>1, <2>2
<1>4. ASSUME NEW t \in Threads, AcquireLock(t) PROVE SaveInv(u)'
  <2>1. CASE u # t
    BY <1>0, <1>4, <2>1, Frame DEF AcquireLock, TypeOK, data
  <2>2. CASE u = t
    <3>1. pc'[u] = "execute" /\ call'[u] \in Calls /\ writer' = writer /\ writer # u
      BY <1>0, <1>00, <1>4, <2>2 DEF AcquireLock, TypeOK, data, SaveInv
    <3> QED
      BY <3>1 DEF SaveInv
  <2> QED
    BY <2>1, <2>2
<1>5. ASSUME NEW t \in Threads, Delete(t) PROVE SaveInv(u)'
  <2>1. CASE u # t
    BY <1>0, <1>5, <2>1, Frame DEF Delete, TypeOK
  <2>2. CASE u = t
    <3>1. /\ pc'[u] = "insert" /\ writer' = u /\ call' = call /\ rows' = rows
          /\ call[u] \in Calls /\ call[u].type = "project" /\ pending' = Kept(u)
      BY <1>0, <1>5, <2>2 DEF Delete, TypeOK, SaveInv, Kept
    <3> QED
      BY <3>1 DEF SaveInv, Kept
  <2> QED
    BY <2>1, <2>2
<1>6. ASSUME NEW t \in Threads, Insert(t) PROVE SaveInv(u)'
  <2>1. CASE u # t
    <3>1. writer # u
      BY <1>0, <1>6, <2>1 DEF Insert, SaveInv
    <3> QED
      BY <1>0, <1>6, <2>1, <3>1, Frame DEF Insert, TypeOK
  <2>2. CASE u = t
    <3>1. /\ pc'[u] = "commit" /\ writer' = u /\ call' = call /\ rows' = rows
          /\ lastId' = lastId /\ call[u] \in Calls
      BY <1>0, <1>6, <2>2 DEF Insert, TypeOK, SaveInv
    <3>2. /\ call[u].type = "project" => pending' = Kept(u) \cup {NewRow(u)}
          /\ call[u].type # "project" => pending' = rows \cup {NewRow(u)}
      BY <1>0, <1>6, <2>2 DEF Insert, SaveInv
    <3> QED
      BY <3>1, <3>2 DEF SaveInv, Kept, NewRow
  <2> QED
    BY <2>1, <2>2
<1>7. ASSUME NEW t \in Threads, Commit(t) PROVE SaveInv(u)'
  <2>1. writer = t /\ writer' = NoOne
    BY <1>0, <1>7 DEF Commit, SaveInv
  <2>2. CASE u # t
    <3>1. pc'[u] = pc[u] /\ call'[u] = call[u] /\ pc[u] \notin {"insert", "commit"}
      BY <1>0, <1>7, <2>1, <2>2 DEF Commit, Release, TypeOK, SaveInv
    <3> QED
      BY <1>0, <2>1, <3>1 DEF SaveInv
  <2>3. CASE u = t
    BY <1>0, <1>7, <2>1, <2>3, Idle DEF Commit, Release, TypeOK
  <2> QED
    BY <2>2, <2>3
<1>8. ASSUME NEW t \in Threads, SaveFails(t) PROVE SaveInv(u)'
  <2>1. CASE u # t
    BY <1>0, <1>8, <2>1, Frame DEF SaveFails, Release, TypeOK
  <2>2. CASE u = t
    BY <1>0, <1>8, <2>2, Idle DEF SaveFails, Release, TypeOK
  <2> QED
    BY <2>1, <2>2
<1>9. CASE UNCHANGED vars
  BY <1>0, <1>9, Frame DEF vars, data
<1> QED
  BY <1>1, <1>2, <1>3, <1>4, <1>5, <1>6, <1>7, <1>8, <1>9 DEF Next, SaveStep

\* Only a commit changes the rows.
LEMMA OnlyCommitsChangeRows ==
  ASSUME Inv, [Next]_vars
  PROVE  (rows' = rows /\ lastId' = lastId) \/ \E t \in Threads : Commit(t)
<1>1. ASSUME NEW p \in Processes, _initialise(p) PROVE rows' = rows /\ lastId' = lastId
  BY <1>1, InitialiseStep DEF Inv, data
<1>2. ASSUME NEW p \in Processes, Crash(p) PROVE rows' = rows /\ lastId' = lastId
  BY <1>2 DEF Crash
<1>3. ASSUME NEW t \in Threads,
             BeginSave(t) \/ AcquireLock(t) \/ Delete(t) \/ Insert(t) \/ SaveFails(t)
      PROVE  rows' = rows /\ lastId' = lastId
  BY <1>3 DEF BeginSave, AcquireLock, Delete, Insert, SaveFails, data
<1>4. CASE UNCHANGED vars
  BY <1>4 DEF vars, data
<1> QED
  BY <1>1, <1>2, <1>3, <1>4 DEF Next, SaveStep

\* A commit keeps the order of the row ids and the one row per project.
LEMMA CommitInv ==
  ASSUME Inv, NEW t \in Threads, Commit(t)
  PROVE  OneRowPerProject' /\ IdsAreCounted'
<1>1. pc[t] = "commit" /\ rows' = pending /\ lastId' = lastId + 1
  BY DEF Commit
<1>2. NewRow(t).row_id = lastId + 1 /\ NewRow(t).type = call[t].type
      /\ NewRow(t).project = call[t].project
  BY DEF NewRow
<1>3. lastId \in Nat /\ \A x \in rows : x.row_id \in 1 .. lastId
  BY DEF Inv, TypeOK, IdsAreCounted
<1>4. \A x \in pending : x \in rows \/ x = NewRow(t)
  BY <1>1, CommittedRows
<1>5. IdsAreCounted'
  BY <1>1, <1>2, <1>3, <1>4 DEF Inv, IdsAreCounted
<1>6. OneRowPerProject'
  BY <1>1, <1>2, <1>4, CommittedRows DEF Inv, OneRowPerProject
<1> QED
  BY <1>5, <1>6

\* The invariant is inductive.
LEMMA StepInv == Inv /\ [Next]_vars => Inv'
BY StepType, StepSave, OnlyCommitsChangeRows, RowsUntouched, CommitInv DEF Inv

(* The inductive invariant holds throughout.                               *)
THEOREM Invariance == SafeSpec => []Inv
BY InitInv, StepInv, PTL DEF SafeSpec

(* Type correctness, for any constants.                                    *)
THEOREM TypeCorrect == SafeSpec => []TypeOK
<1>1. Inv => TypeOK
  BY DEF Inv
<1> QED
  BY <1>1, Invariance, PTL

(* A project is never there twice.                                         *)
THEOREM ProjectsAreUnique == SafeSpec => []OneRowPerProject
<1>1. Inv => OneRowPerProject
  BY DEF Inv
<1> QED
  BY <1>1, Invariance, PTL

(* No step loses a saved project or drops another committed row.           *)
THEOREM NothingLost == SafeSpec => NothingSavedIsLost
<1> DEFINE Keeps == /\ \A p \in Projects : HasProject(rows, p) => HasProject(rows', p)
                    /\ \A x \in rows : x.type # "project" => x \in rows'
<1>1. Inv /\ [Next]_vars => [Keeps]_rows
  <2> SUFFICES ASSUME Inv, [Next]_vars, rows' # rows PROVE Keeps
    OBVIOUS
  <2>1. PICK t \in Threads : Commit(t)
    BY OnlyCommitsChangeRows
  <2>2. pc[t] = "commit" /\ rows' = pending
    BY <2>1 DEF Commit
  <2>3. \A x \in rows : x.type # "project" => x \in rows'
    BY <2>2, CommittedRows
  <2>4. ASSUME NEW p \in Projects, HasProject(rows, p) PROVE HasProject(rows', p)
    <3>1. PICK x \in rows : x.type = "project" /\ x.project = p
      BY <2>4 DEF HasProject
    <3>2. CASE x \in rows'
      BY <3>1, <3>2 DEF HasProject
    <3>3. CASE x \notin rows'
      <4>1. call[t].type = "project" /\ call[t].project = p
        BY <2>2, <3>1, <3>3, CommittedRows
      <4> QED
        BY <2>2, <4>1, CommittedRows DEF HasProject, NewRow
    <3> QED
      BY <3>2, <3>3
  <2> QED
    BY <2>3, <2>4
<1> QED
  BY <1>1, Invariance, PTL DEF SafeSpec, NothingSavedIsLost

-----------------------------------------------------------------------------
(* Places in a list *)

(* A nonempty set of naturals has a least one, and First is it. *)
LEMMA FirstIsLeast ==
    ASSUME NEW S \in SUBSET Nat, S # {}
    PROVE  First(S) \in S /\ First(S) \in Nat /\ \A i \in S : First(S) <= i
<1>1. PICK m \in S : \A i \in S : ~(<<i, m>> \in OpToRel(<, Nat))
    BY NatLessThanWellFounded, WFMin, Zenon
<1>2. \A i \in S : m <= i
    <2> TAKE i \in S
    <2>1. <<i, m>> \notin OpToRel(<, Nat)
        BY <1>1, Zenon
    <2> QED  BY <2>1 DEF OpToRel
<1> QED  BY <1>2 DEF First

(* A nonempty bounded set of naturals has a last one. *)
LEMMA LastPlace ==
    ASSUME NEW n \in Nat, NEW S \in SUBSET (0 .. n), S # {}
    PROVE  \E m \in S : \A i \in S : i <= m
<1> DEFINE Above == {k \in Nat : \A i \in S : i <= k}
<1>1. n \in Above
    OBVIOUS
<1>2. PICK m \in Above : \A k \in Above : m <= k
    <2>1. Above \in SUBSET Nat /\ Above # {}
        BY <1>1
    <2> HIDE DEF Above
    <2> QED  BY <2>1, FirstIsLeast
<1>3. m \in S
    <2> SUFFICES ASSUME m \notin S PROVE FALSE
        OBVIOUS
    <2>1. PICK i \in S : TRUE
        OBVIOUS
    <2>2. m - 1 \in Above
        BY <2>1
    <2> QED  BY <2>2, <1>2
<1> QED  BY <1>3

(* Bounded sets of naturals are finite. *)
LEMMA BoundedIsFinite ==
    ASSUME NEW n \in Nat, NEW S \in SUBSET (0 .. n)
    PROVE  /\ IsFiniteSet(S) /\ Cardinality(S) \in Nat
           /\ \A j \in S : j \in Nat
<1>1. IsFiniteSet(0 .. n)
    BY FS_Interval
<1>2. IsFiniteSet(S)
    BY <1>1, FS_Subset
<1> QED  BY <1>2, FS_CardinalityType

(* How many of a set come up to a place: counted one by one. *)
LEMMA UptoCounts ==
    ASSUME NEW n \in Nat, NEW S \in SUBSET (0 .. n), NEW i \in S
    PROVE  /\ Upto(S, i) \in Nat /\ Upto(S, i) >= 1
           /\ Upto(S, i) = Cardinality({j \in S : j < i}) + 1
<1> DEFINE B == {j \in S : j < i}
<1>1. IsFiniteSet(S)
    BY BoundedIsFinite
<1>2. IsFiniteSet(B) /\ Cardinality(B) \in Nat
    BY <1>1, FS_Subset, FS_CardinalityType
<1>3. {j \in S : j <= i} = B \cup {i}
    <2>1. \A j \in S : j \in Nat
        OBVIOUS
    <2>2. \A j \in S : j <= i <=> j < i \/ j = i
        BY <2>1
    <2> QED  BY <2>2
<1>4. Cardinality(B \cup {i}) = Cardinality(B) + 1
    BY <1>2, FS_AddElement
<1> QED  BY <1>2, <1>3, <1>4 DEF Upto

(* The n-th place of a set is one of its places, and n-th. *)
LEMMA NumberedIsFound ==
    ASSUME NEW m \in Nat, NEW S \in SUBSET (0 .. m),
           NEW n \in 1 .. Cardinality(S)
    PROVE  Numbered(S, n) \in S /\ Upto(S, Numbered(S, n)) = n
<1> DEFINE P == {i \in S : Upto(S, i) >= n}
<1>1. IsFiniteSet(S) /\ Cardinality(S) \in Nat /\ \A j \in S : j \in Nat
    BY BoundedIsFinite
<1>2. S # {}
    BY <1>1, FS_EmptySet
<1>3. PICK last \in S : \A i \in S : i <= last
    BY <1>2, LastPlace
<1>4. last \in P
    <2>1. {j \in S : j <= last} = S
        BY <1>3
    <2> QED  BY <2>1, <1>1 DEF Upto
<1>5. PICK i \in P : \A j \in P : i <= j
    <2>1. P \in SUBSET Nat /\ P # {}
        BY <1>1, <1>4
    <2> HIDE DEF P
    <2> QED  BY <2>1, FirstIsLeast
<1> DEFINE B == {j \in S : j < i}
<1>6. Upto(S, i) \in Nat /\ Upto(S, i) = Cardinality(B) + 1 /\ Upto(S, i) >= n
    BY UptoCounts, <1>5
<1>7. Cardinality(B) < n
    <2>1. CASE B = {}
        BY <2>1, FS_EmptySet
    <2>2. CASE B # {}
        <3>1. PICK k \in B : \A j \in B : j <= k
            BY <2>2, LastPlace
        <3>2. B = {j \in S : j <= k}
            <4>1. k \in Nat /\ k < i /\ i \in Nat
                BY <3>1, <1>1, <1>5
            <4>2. \A j \in S : j \in Nat /\ (j < i => j <= k)
                BY <3>1, <1>1
            <4>3. \A j \in S : j <= k => j < i
                BY <4>1, <1>1
            <4> QED  BY <4>2, <4>3
        <3>3. Upto(S, k) \in Nat /\ ~(Upto(S, k) >= n)
            <4>1. k \in S /\ k \notin P
                BY <1>5, <3>1, <1>1
            <4> QED  BY <4>1, UptoCounts
        <3> QED  BY <3>2, <3>3 DEF Upto
    <2> QED  BY <2>1, <2>2
<1>8. Upto(S, i) = n
    BY <1>6, <1>7, <1>1, FS_Subset, FS_CardinalityType
<1> QED  BY <1>5, <1>8 DEF Numbered

(* A place further on has more of them before it. *)
LEMMA UptoGrows ==
    ASSUME NEW m \in Nat, NEW S \in SUBSET (0 .. m),
           NEW i \in S, NEW j \in S, i < j
    PROVE  Upto(S, i) < Upto(S, j)
<1> DEFINE A == {k \in S : k <= i}
           B == {k \in S : k < j}
<1>1. IsFiniteSet(S) /\ \A k \in S : k \in Nat
    BY BoundedIsFinite
<1>2. IsFiniteSet(B) /\ Cardinality(B) \in Nat /\ A \subseteq B
    <2>1. A \subseteq B
        <3> SUFFICES ASSUME NEW k \in S, k <= i PROVE k < j
            OBVIOUS
        <3> QED  BY <1>1
    <2>2. B \subseteq S
        OBVIOUS
    <2> HIDE DEF A, B
    <2> QED  BY <1>1, <2>1, <2>2, FS_Subset, FS_CardinalityType
<1>3. Cardinality(A) <= Cardinality(B) /\ Cardinality(A) \in Nat
    <2> HIDE DEF A, B
    <2> QED  BY <1>2, FS_Subset, FS_CardinalityType
<1>4. Upto(S, j) = Cardinality(B) + 1
    BY UptoCounts
<1> QED  BY <1>2, <1>3, <1>4 DEF Upto

(* Each place is the one with its number. *)
LEMMA NumberedIsOnly ==
    ASSUME NEW m \in Nat, NEW S \in SUBSET (0 .. m), NEW i \in S
    PROVE  Numbered(S, Upto(S, i)) = i
<1> DEFINE n == Upto(S, i)
<1>1. \A k \in S : k \in Nat /\ Upto(S, k) \in Nat
    <2> TAKE k \in S
    <2>1. Upto(S, k) \in Nat
        BY UptoCounts
    <2> QED  BY <2>1
<1>2. \A k \in S : Upto(S, k) = n => k = i
    <2> SUFFICES ASSUME NEW k \in S, Upto(S, k) = n, k # i PROVE FALSE
        OBVIOUS
    <2>1. k < i \/ i < k
        BY <1>1
    <2>2. Upto(S, k) < Upto(S, i) \/ Upto(S, i) < Upto(S, k)
        BY <2>1, UptoGrows
    <2> QED  BY <2>2, <1>1
<1> HIDE DEF n
<1>3. Upto(S, i) = n
    BY DEF n
<1> QED  BY <1>2, <1>3 DEF Numbered, n

(* One more place after the others has the next number, and they keep theirs. *)
LEMMA LastIsAppended ==
    ASSUME NEW m \in Nat, NEW S \in SUBSET (0 .. m)
    PROVE  LET T == S \cup {m + 1} IN
           /\ Cardinality(S) \in Nat /\ Cardinality(T) = Cardinality(S) + 1
           /\ \A n \in 1 .. Cardinality(S) : Numbered(T, n) = Numbered(S, n)
           /\ Numbered(T, Cardinality(S) + 1) = m + 1
<1> DEFINE T == S \cup {m + 1}
<1>1. /\ IsFiniteSet(S) /\ Cardinality(S) \in Nat
      /\ \A j \in S : j \in Nat /\ j <= m
    <2>1. \A j \in S : j \in Nat /\ j <= m
        OBVIOUS
    <2> QED  BY <2>1, BoundedIsFinite
<1>2. m + 1 \in Nat /\ T \in SUBSET (0 .. m + 1) /\ m + 1 \notin S
    BY <1>1
<1>3. m + 1 \in T /\ S \subseteq T
    OBVIOUS
<1>4. Cardinality(T) = Cardinality(S) + 1
    BY <1>1, <1>2, FS_AddElement
<1>5. \A i \in S : Upto(T, i) = Upto(S, i)
    <2> TAKE i \in S
    <2>1. i \in Nat /\ i <= m /\ ~(m + 1 <= i)
        BY <1>1
    <2>2. \A j \in T : j <= i <=> (j \in S /\ j <= i)
        BY <2>1
    <2>3. {j \in T : j <= i} = {j \in S : j <= i}
        BY <2>2, <1>3
    <2> QED  BY <2>3 DEF Upto
<1>6. Upto(T, m + 1) = Cardinality(S) + 1
    <2>1. \A j \in T : j <= m + 1
        BY <1>1
    <2>2. {j \in T : j <= m + 1} = T
        BY <2>1
    <2> QED  BY <2>2, <1>4 DEF Upto
<1> HIDE DEF T
<1>7. \A i \in T : Numbered(T, Upto(T, i)) = i
    BY <1>2, NumberedIsOnly
<1>8. ASSUME NEW n \in 1 .. Cardinality(S)
      PROVE  Numbered(T, n) = Numbered(S, n)
    <2>1. Numbered(S, n) \in S /\ Upto(S, Numbered(S, n)) = n
        BY NumberedIsFound
    <2> QED  BY <2>1, <1>5, <1>3, <1>7
<1>9. Numbered(T, Cardinality(S) + 1) = m + 1
    BY <1>6, <1>3, <1>7
<1> QED  BY <1>1, <1>4, <1>8, <1>9 DEF T

-----------------------------------------------------------------------------
(* What the reads return *)

(* The row with an id among those selected is the one. *)
LEMMA RowById ==
    ASSUME IdsAreCounted, NEW type, NEW p, NEW x \in Selected(type, p)
    PROVE  (CHOOSE y \in Selected(type, p) : y.row_id = x.row_id) = x
<1>1. \A y \in Selected(type, p) : y.row_id = x.row_id => y = x
    BY DEF IdsAreCounted, Selected
<1> QED  BY <1>1

(* The ids of what is selected are among those given out. *)
LEMMA IdsAreGivenOut ==
    ASSUME TypeOK, IdsAreCounted, NEW type, NEW p
    PROVE  RowIds(type, p) \in SUBSET (0 .. lastId) /\ lastId \in Nat
BY DEF TypeOK, IdsAreCounted, RowIds, Selected

(* Reads that select the same rows return the same. *)
LEMMA SameSelection ==
    ASSUME NEW type, NEW p, Selected(type, p)' = Selected(type, p)
    PROVE  _list(type, p)' = _list(type, p) /\ _one(type, p)' = _one(type, p)
<1>1. RowIds(type, p)' = RowIds(type, p)
    BY DEF RowIds
<1> QED  BY <1>1 DEF _list, _one

(* A list is one payload longer when a row is committed to it. *)
LEMMA ListIsAppended ==
    ASSUME Inv, Inv', NEW type, NEW p, NEW x,
           Selected(type, p)' = Selected(type, p) \cup {x},
           x.row_id = lastId + 1
    PROVE  _list(type, p)' = Append(_list(type, p), x.payload)
<1> DEFINE S == RowIds(type, p)
           T == S \cup {lastId + 1}
           old(n) == CHOOSE y \in Selected(type, p) : y.row_id = Numbered(S, n)
           new(n) == CHOOSE y \in Selected(type, p)' : y.row_id = Numbered(T, n)
           k == Cardinality(S)
<1>1. S \in SUBSET (0 .. lastId) /\ lastId \in Nat
    BY IdsAreGivenOut DEF Inv
<1>2. RowIds(type, p)' = T
    BY DEF RowIds
<1>3. /\ k \in Nat /\ Cardinality(T) = k + 1
      /\ \A n \in 1 .. k : Numbered(T, n) = Numbered(S, n)
      /\ Numbered(T, k + 1) = lastId + 1
    <2> HIDE DEF S
    <2> QED  BY <1>1, LastIsAppended
<1>4. \A y \in Selected(type, p)' :
          (CHOOSE z \in Selected(type, p)' : z.row_id = y.row_id) = y
    <2>1. \A y, z \in rows' : y.row_id = z.row_id => y = z
        BY DEF Inv, IdsAreCounted
    <2>2. \A y, z \in Selected(type, p)' : y.row_id = z.row_id => y = z
        BY <2>1 DEF Selected
    <2> QED  BY <2>2
<1>5. new(k + 1) = x
    <2>1. x \in Selected(type, p)'
        OBVIOUS
    <2> QED  BY <2>1, <1>3, <1>4
<1>6. ASSUME NEW n \in 1 .. k PROVE new(n) = old(n)
    <2>1. Numbered(S, n) \in S
        <3> HIDE DEF S
        <3> QED  BY <1>1, NumberedIsFound
    <2>2. PICK y \in Selected(type, p) : y.row_id = Numbered(S, n)
        BY <2>1 DEF RowIds
    <2>3. old(n) = y
        BY <2>2, RowById DEF Inv
    <2>4. y \in Selected(type, p)' /\ y.row_id = Numbered(T, n)
        BY <2>2, <1>3
    <2>5. new(n) = y
        <3>1. (CHOOSE z \in Selected(type, p)' : z.row_id = y.row_id) = y
            BY <2>4, <1>4
        <3> QED  BY <2>4, <3>1
    <2> QED  BY <2>3, <2>5
<1>7. _list(type, p) = [n \in 1 .. k |-> old(n).payload]
    BY DEF _list
<1>8. _list(type, p)' = [n \in 1 .. k + 1 |-> new(n).payload]
    BY <1>2, <1>3 DEF _list
<1> HIDE DEF k, old, new, S, T
<1>9. [n \in 1 .. k + 1 |-> new(n).payload]
        = Append([n \in 1 .. k |-> old(n).payload], x.payload)
    BY <1>3, <1>5, <1>6
<1> QED  BY <1>7, <1>8, <1>9

(* What is read of a project with one row is that row. *)
LEMMA OneIsRead ==
    ASSUME NEW type, NEW p, NEW x, Selected(type, p)' = {x}, x.row_id \in Nat
    PROVE  _one(type, p)' = x.payload
<1>1. (CHOOSE y \in {x} : \A z \in {x} : z.row_id <= y.row_id) = x
    OBVIOUS
<1> QED  BY <1>1 DEF _one

(* A new file reads as an empty memory. *)
LEMMA MemoryInit == Init => Memory!Init
<1> SUFFICES ASSUME Init PROVE Memory!Init
    OBVIOUS
<1>1. \A type, p : Selected(type, p) = {} /\ RowIds(type, p) = {}
    BY DEF Init, Selected, RowIds
<1>2. \A p : _one("project", p) = NoOne
    BY <1>1 DEF _one
<1>3. \A p : _list("finding", p) = <<>>
    <2> TAKE p
    <2> DEFINE row(n) == CHOOSE x \in Selected("finding", p) :
                             x.row_id = Numbered(RowIds("finding", p), n)
    <2>1. Cardinality(RowIds("finding", p)) = 0
        BY <1>1, FS_EmptySet
    <2>2. _list("finding", p) = [n \in 1 .. 0 |-> row(n).payload]
        BY <2>1 DEF _list
    <2> HIDE DEF row
    <2> QED  BY <2>2
<1> QED  BY <1>2, <1>3 DEF Memory!Init

(* A commit is one whole save, of the one project it is of. *)
LEMMA CommitIsASave ==
    ASSUME Inv, Inv', NEW t \in Threads, Commit(t)
    PROVE  Memory!Next
<1> PICK new : new = NewRow(t)
    OBVIOUS
<1> PICK p0 \in Projects : p0 = call[t].project
    BY DEF Inv, SaveInv, Commit, Calls
<1> PICK v \in Payloads : v = call[t].payload
    BY DEF Inv, SaveInv, Commit, Calls
<1>1. /\ new.row_id = lastId + 1 /\ new.type = call[t].type
      /\ new.project = p0 /\ new.payload = v
    BY DEF NewRow
<1>2. /\ call[t].type \in {"project", "finding"}
      /\ call[t].type = "project" => rows' = Kept(t) \cup {new}
      /\ call[t].type # "project" => rows' = rows \cup {new}
      /\ lastId \in Nat
    BY DEF Inv, TypeOK, SaveInv, Commit, Calls
<1>3. CASE call[t].type = "finding"
    <2>1. \A p : Selected("project", p)' = Selected("project", p)
        BY <1>1, <1>2, <1>3 DEF Selected
    <2>2. \A p : p # p0 => Selected("finding", p)' = Selected("finding", p)
        BY <1>1, <1>2, <1>3 DEF Selected
    <2>3. Selected("finding", p0)' = Selected("finding", p0) \cup {new}
        BY <1>1, <1>2, <1>3 DEF Selected
    <2>4. \A p : _one("project", p)' = _one("project", p)
        BY <2>1, SameSelection
    <2>5. \A p : p # p0 => _list("finding", p)' = _list("finding", p)
        BY <2>2, SameSelection
    <2>6. _list("finding", p0)' = Append(_list("finding", p0), v)
        <3>1. _list("finding", p0)' = Append(_list("finding", p0), new.payload)
            <4>1. new.row_id = lastId + 1
                BY <1>1
            <4> QED  BY <2>3, <4>1, ListIsAppended
        <3> QED  BY <3>1, <1>1
    <2>7. Memory!Save(p0, v)
        BY <2>4, <2>5, <2>6 DEF Memory!Save
    <2> QED  BY <2>7 DEF Memory!Next
<1>4. CASE call[t].type = "project"
    <2>1. \A p : Selected("finding", p)' = Selected("finding", p)
        BY <1>1, <1>2, <1>4 DEF Selected, Kept
    <2>2. \A p : p # p0 => Selected("project", p)' = Selected("project", p)
        BY <1>1, <1>2, <1>4 DEF Selected, Kept
    <2>3. Selected("project", p0)' = {new}
        BY <1>1, <1>2, <1>4 DEF Selected, Kept
    <2>4. \A p : _list("finding", p)' = _list("finding", p)
        BY <2>1, SameSelection
    <2>5. \A p : p # p0 => _one("project", p)' = _one("project", p)
        BY <2>2, SameSelection
    <2>6. _one("project", p0)' = v
        BY <2>3, <1>1, <1>2, OneIsRead
    <2>7. Memory!SaveProject(p0, v)
        BY <2>4, <2>5, <2>6 DEF Memory!SaveProject
    <2> QED  BY <2>7 DEF Memory!Next
<1> QED  BY <1>2, <1>3, <1>4

(* A step that leaves the rows alone changes no read. *)
LEMMA ReadsStay ==
    ASSUME rows' = rows
    PROVE  \A type, p : _list(type, p)' = _list(type, p) /\ _one(type, p)' = _one(type, p)
<1>1. \A type, p : Selected(type, p)' = Selected(type, p)
    BY DEF Selected
<1> QED  BY <1>1, SameSelection

(* The file adapter implements the storage contract: seen through its      *)
(* reads, every step of every thread and process, and every crash, is a    *)
(* whole save of one entity or nothing at all.                             *)
THEOREM SavesAreWhole == SafeSpec => SameAsMemory
<1> DEFINE projectRead == [p \in Projects |-> _one("project", p)]
           listRead == [p \in Projects |-> _list("finding", p)]
<1>1. Inv /\ Inv' /\ [Next]_vars => [Memory!Next]_<<projectRead, listRead>>
  <2> SUFFICES ASSUME Inv, Inv', [Next]_vars
               PROVE  Memory!Next \/ UNCHANGED <<projectRead, listRead>>
    OBVIOUS
  <2>1. CASE rows' = rows
    BY <2>1, ReadsStay
  <2>2. ASSUME NEW t \in Threads, Commit(t) PROVE Memory!Next
    BY <2>2, CommitIsASave
  <2> QED
    BY <2>1, <2>2, OnlyCommitsChangeRows
<1> QED
  BY <1>1, MemoryInit, Invariance, PTL DEF SafeSpec, SameAsMemory, Memory!Spec
=============================================================================
