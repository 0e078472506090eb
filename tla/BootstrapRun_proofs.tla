------------------------ MODULE BootstrapRun_proofs ------------------------
(* Proofs about BootstrapRun, for any number of runs, threads, faults and  *)
(* restarts.  The inductive invariant says, for every run with work in     *)
(* flight, what its stored row must say while the thread is where it is.   *)
EXTENDS BootstrapRun, TLAPS

\* The work of r may still report, return or raise, or is about to be recorded.
InFlight(r) == task[r] \in {"pending", "cancelled"}

(* The row lags the thread: it says what the last successful report said.  *)
RowMatchesWorker(r) ==
    /\ worker[r] \in {"queued", "running"} =>
           /\ row[r].status = "RUNNING_RESEARCH" /\ stage[r] = "RUNNING_RESEARCH"
           /\ r \notin researched
    /\ worker[r] = "persisted" =>
           row[r].status = "RUNNING_RESEARCH" /\ r \in researched
    /\ worker[r] = "completedReported" =>
           row[r].status = "RESEARCH_COMPLETED" /\ r \in researched
    /\ worker[r] = "discovering" =>
           row[r].status = "RUNNING_DISCOVERY" /\ stage[r] = "RUNNING_DISCOVERY"
           /\ r \in researched
    /\ worker[r] = "returned" =>
           \/ /\ outcome[r] = "RESEARCH_FAILED" /\ stage[r] = "RUNNING_RESEARCH"
              /\ row[r].status = "RUNNING_RESEARCH" /\ r \notin researched
           \/ /\ outcome[r] \in {"COMPLETED", "DISCOVERY_FAILED_REUPLOAD_REQUIRED"}
              /\ stage[r] = "RUNNING_DISCOVERY"
              /\ row[r].status = "RUNNING_DISCOVERY" /\ r \in researched
    /\ worker[r] = "raised" =>
           \/ /\ stage[r] = "RUNNING_RESEARCH"
              /\ row[r].status = "RUNNING_RESEARCH" /\ r \notin researched
           \/ /\ stage[r] = "RESEARCH_COMPLETED"
              /\ row[r].status = "RUNNING_RESEARCH" /\ r \in researched
           \/ /\ stage[r] = "RUNNING_DISCOVERY"
              /\ row[r].status = "RESEARCH_COMPLETED" /\ r \in researched

RunInv(r) ==
    /\ task[r] = "none" <=> worker[r] = "idle"
    /\ task[r] = "none" => stage[r] = "RUNNING_RESEARCH"
    /\ task[r] = "done" => worker[r] \in {"returned", "raised"}
    /\ task[r] = "pending" => phase = "up"
    /\ task[r] = "cancelled" => phase = "stopping"
    /\ handler = r => phase = "up" /\ task[r] = "none" /\ row[r].status = "NOT_STARTED"
    /\ row[r].updated_at <= startedAt
    /\ row[r].status # "INTERRUPTED_REUPLOAD_REQUIRED"
    /\ row[r].status \in {ABSENT, "NOT_STARTED"} => task[r] = "none" /\ r \notin researched
    /\ InFlight(r) => row[r].updated_at = startedAt /\ RowMatchesWorker(r)
    /\ phase = "up" /\ row[r].status \in RUNNING_STATES /\ row[r].updated_at = startedAt
           => task[r] = "pending" \/ r \in unrecorded

Honest(r) ==
    /\ row[r].status = "RESEARCH_FAILED" => r \notin researched
    /\ row[r].status \in {"RESEARCH_COMPLETED", "RUNNING_DISCOVERY", "COMPLETED",
                         "DISCOVERY_FAILED_REUPLOAD_REQUIRED"} => r \in researched
    /\ row[r].error_code = ErrorCode(row[r].status)

Inv == TypeOK /\ \A r \in Runs : RunInv(r) /\ Honest(r)

Codes == {"", "RESEARCH_FAILED", "DISCOVERY_FAILED"}

(* The code stored with a status is one of three, and only a failure has   *)
(* one.                                                                    *)
LEMMA ErrorCodes ==
  /\ \A s : ErrorCode(s) \in Codes
  /\ ErrorCode("RESEARCH_FAILED") = "RESEARCH_FAILED"
  /\ ErrorCode("DISCOVERY_FAILED_REUPLOAD_REQUIRED") = "DISCOVERY_FAILED"
  /\ \A s : s \notin {"RESEARCH_FAILED", "DISCOVERY_FAILED_REUPLOAD_REQUIRED"}
              => ErrorCode(s) = ""
BY DEF ErrorCode, Codes

\* Where a failure is recorded, by the stage the work noted.
LEMMA FailureStatus ==
  /\ \A s : FailureAt(s) \in {"RESEARCH_FAILED", "DISCOVERY_FAILED_REUPLOAD_REQUIRED"}
  /\ FailureAt("RUNNING_RESEARCH") = "RESEARCH_FAILED"
  /\ FailureAt("RESEARCH_COMPLETED") = "DISCOVERY_FAILED_REUPLOAD_REQUIRED"
  /\ FailureAt("RUNNING_DISCOVERY") = "DISCOVERY_FAILED_REUPLOAD_REQUIRED"
BY DEF FailureAt

\* A write of set_status keeps the table well typed and touches one row.
LEMMA WriteRow ==
  ASSUME TypeOK, NEW r \in Runs, NEW s \in Readings, NEW c \in Codes
  PROVE  /\ WithStatus(r, s, c) \in [Runs -> Rows]
         /\ WithStatus(r, s, c)[r] = [status |-> s, error_code |-> c, updated_at |-> startedAt]
         /\ \A q \in Runs : q # r => WithStatus(r, s, c)[q] = row[q]
BY DEF TypeOK, WithStatus, Rows, Codes

(* Whatever a write of the store does, the table stays well typed.         *)
LEMMA StoreType ==
  ASSUME TypeOK
  PROVE  /\ \A r \in Runs, s \in Readings, c \in Codes :
              set_status(r, s, c) => row' \in [Runs -> Rows] /\ faults' \in Nat
         /\ \A n \in Nat : StoreRaises(n) => row' \in [Runs -> Rows] /\ faults' \in Nat
<1>1. ASSUME NEW r \in Runs, NEW s \in Readings, NEW c \in Codes, set_status(r, s, c)
      PROVE  row' \in [Runs -> Rows] /\ faults' \in Nat
  BY <1>1, WriteRow DEF set_status, TypeOK
<1>2. ASSUME NEW n \in Nat, StoreRaises(n)
      PROVE  row' \in [Runs -> Rows] /\ faults' \in Nat
  BY <1>2 DEF StoreRaises, TypeOK
<1> QED
  BY <1>1, <1>2

\* The table starts empty and well typed.
LEMMA InitType == Init => TypeOK
<1> SUFFICES ASSUME Init PROVE TypeOK
  OBVIOUS
<1>1. row \in [Runs -> Rows]
  <2>1. NoRow \in Rows
    BY DEF NoRow, Rows, Readings, ABSENT
  <2> QED
    BY <2>1 DEF Init
<1> QED
  BY <1>1 DEF Init, TypeOK, Outcomes, WorkerAt

\* Every step keeps the types; _drive needs the invariant for the outcome it stores.
LEMMA StepType == Inv /\ [Next]_vars => TypeOK'
<1> SUFFICES ASSUME Inv, [Next]_vars PROVE TypeOK'
  OBVIOUS
<1>0. TypeOK /\ \A r \in Runs : RunInv(r)
  BY DEF Inv
<1> USE BootstrapAssumption
<1>1. CASE StartProcess
  BY <1>0, <1>1 DEF StartProcess, TypeOK, memory
<1>2. CASE Shutdown
  BY <1>0, <1>2 DEF Shutdown, TypeOK
<1>3. CASE ProcessDies
  BY <1>0, <1>3 DEF ProcessDies, TypeOK, WorkerAt, Outcomes
<1>4. ASSUME NEW r \in Runs, create_run(r) PROVE TypeOK'
  <2>1. row' \in [Runs -> Rows]
    BY <1>0, <1>4, WriteRow DEF create_run, Codes, Readings, BootstrapStatus
  <2> QED
    BY <1>0, <1>4, <2>1 DEF create_run, TypeOK
<1>5. ASSUME NEW r \in Runs, start(r) PROVE TypeOK'
  <2>1. row' \in [Runs -> Rows] /\ faults' \in Nat
    BY <1>0, <1>5, StoreType DEF start, Codes, Readings, BootstrapStatus
  <2> QED
    BY <1>0, <1>5, <2>1 DEF start, set_status, StoreRaises, TypeOK, WorkerAt
<1>6. ASSUME NEW r \in Runs, ThreadBegins(r) PROVE TypeOK'
  BY <1>0, <1>6 DEF ThreadBegins, TypeOK, WorkerAt
<1>7. ASSUME NEW r \in Runs, IntakeRaises(r) PROVE TypeOK'
  BY <1>0, <1>7 DEF IntakeRaises, TypeOK, WorkerAt
<1>8. ASSUME NEW r \in Runs, ResearchFails(r) PROVE TypeOK'
  BY <1>0, <1>8 DEF ResearchFails, TypeOK, WorkerAt, Outcomes
<1>9. ASSUME NEW r \in Runs, ResearchPersists(r) PROVE TypeOK'
  BY <1>0, <1>9 DEF ResearchPersists, TypeOK, WorkerAt
<1>10. ASSUME NEW r \in Runs, NEW from, NEW to \in WorkerAt,
              NEW s \in {"RESEARCH_COMPLETED", "RUNNING_DISCOVERY"}, report(r, from, s, to)
       PROVE TypeOK'
  <2>1. row' \in [Runs -> Rows] /\ faults' \in Nat
    BY <1>0, <1>10, StoreType DEF report, Codes, Readings, BootstrapStatus
  <2>2. worker' \in [Runs -> WorkerAt]
    BY <1>0, <1>10 DEF report, TypeOK, WorkerAt
  <2> QED
    BY <1>0, <1>10, <2>1, <2>2 DEF report, TypeOK
<1>11. ASSUME NEW r \in Runs, DiscoveryReturns(r) PROVE TypeOK'
  BY <1>0, <1>11 DEF DiscoveryReturns, TypeOK, WorkerAt, Outcomes
<1>12. ASSUME NEW r \in Runs, _drive(r) PROVE TypeOK'
  <2>1. row' \in [Runs -> Rows] /\ faults' \in Nat /\ unrecorded' \subseteq Runs
    <3>1. CASE set_status(r, outcome[r], ErrorCode(outcome[r])) /\ UNCHANGED unrecorded
               /\ worker[r] = "returned" /\ task[r] = "pending"
      <4>1. outcome[r] \in Readings
        BY <1>0, <3>1 DEF RunInv, InFlight, RowMatchesWorker, Readings, BootstrapStatus
      <4> QED
        BY <1>0, <3>1, <4>1, WriteRow, ErrorCodes DEF set_status, TypeOK
    <3>2. ASSUME NEW n \in {0, 1}, _record_failure(r, n)
          PROVE  row' \in [Runs -> Rows] /\ faults' \in Nat /\ unrecorded' \subseteq Runs
      <4>1. FailureAt(stage[r]) \in Readings
        BY FailureStatus DEF Readings, BootstrapStatus
      <4>2. WithStatus(r, FailureAt(stage[r]), ErrorCode(FailureAt(stage[r]))) \in [Runs -> Rows]
        BY <1>0, <4>1, WriteRow, ErrorCodes
      <4>3. StoreRaises(n + 1) => row' \in [Runs -> Rows] /\ faults' \in Nat
        BY <1>0, StoreType
      <4> QED
        BY <1>0, <3>2, <4>1, <4>2, <4>3 DEF _record_failure, TypeOK
    <3> QED
      BY <1>0, <1>12, <3>1, <3>2 DEF _drive
  <2> QED
    BY <1>0, <1>12, <2>1 DEF _drive, TypeOK
<1>13. CASE UNCHANGED vars
  BY <1>0, <1>13 DEF vars, memory, TypeOK
<1> QED
  BY <1>1, <1>2, <1>3, <1>4, <1>5, <1>6, <1>7, <1>8, <1>9, <1>10, <1>11, <1>12, <1>13
     DEF Next, WorkerStep, ReportResearchCompleted, ReportRunningDiscovery, WorkerAt

\* A timestamp equal to the process start is not after it.
LEMMA SameIsNotAfter == ASSUME NEW m, NEW n \in Nat, m = n PROVE m <= n
OBVIOUS

\* No run is under way at the start.
LEMMA InitRuns == Init => \A r \in Runs : RunInv(r) /\ Honest(r)
<1> SUFFICES ASSUME Init, NEW r \in Runs PROVE RunInv(r) /\ Honest(r)
  OBVIOUS
<1>1. /\ row[r].status = "ABSENT" /\ row[r].error_code = "" /\ row[r].updated_at = 0
      /\ startedAt = 0 /\ row[r].updated_at \in Nat /\ startedAt \in Nat /\ handler # r
  BY BootstrapAssumption DEF Init, NoRow, ABSENT
<1>2. ErrorCode("ABSENT") = "" /\ ErrorCode("NOT_STARTED") = ""
  BY ErrorCodes
<1>3. Honest(r)
  BY <1>1, <1>2 DEF Honest
<1>4. RunInv(r)
  <2>1. task[r] = "none" /\ worker[r] = "idle" /\ stage[r] = "RUNNING_RESEARCH" /\ r \notin researched
    BY DEF Init
  <2>2. row[r].updated_at <= startedAt
    BY <1>1, SameIsNotAfter
  <2>3. ~InFlight(r)
    BY <2>1 DEF InFlight
  <2> QED
    BY <1>1, <2>1, <2>2, <2>3 DEF RunInv, RUNNING_STATES
<1> QED
  BY <1>3, <1>4

(* A step that leaves everything about a run alone, the process included,  *)
(* keeps what is invariant about it.                                       *)
LEMMA Frame ==
  ASSUME NEW q \in Runs, RunInv(q), Honest(q),
         row'[q] = row[q], task'[q] = task[q], worker'[q] = worker[q],
         stage'[q] = stage[q], outcome'[q] = outcome[q],
         q \in researched' <=> q \in researched, q \in unrecorded => q \in unrecorded',
         phase' = phase, startedAt' = startedAt, handler' = q => handler = q
  PROVE  RunInv(q)' /\ Honest(q)'
BY DEF RunInv, Honest, InFlight, RowMatchesWorker

\* What one committed write of the table amounts to.
Wrote(r, status, code) ==
    /\ row'[r].status = status /\ row'[r].error_code = code
    /\ row'[r].updated_at = startedAt
    /\ \A q \in Runs \ {r} : row'[q] = row[q]

\* What set_status commits, field by field.
LEMMA StoreWrites ==
  ASSUME TypeOK, NEW r \in Runs, NEW s \in Readings, NEW c \in Codes,
         row' = WithStatus(r, s, c)
  PROVE  Wrote(r, s, c)
<1>1. row'[r] = [status |-> s, error_code |-> c, updated_at |-> startedAt]
  BY WriteRow
<1>2. \A q \in Runs : q # r => row'[q] = row[q]
  BY WriteRow
<1> QED
  BY <1>1, <1>2 DEF Wrote

\* Every step keeps, of every run, what its row owes to its thread.
LEMMA StepRuns == Inv /\ [Next]_vars => \A r \in Runs : RunInv(r)' /\ Honest(r)'
<1> SUFFICES ASSUME Inv, [Next]_vars, NEW q \in Runs PROVE RunInv(q)' /\ Honest(q)'
  OBVIOUS
<1>0. TypeOK /\ RunInv(q) /\ Honest(q)
  BY DEF Inv
<1> USE BootstrapAssumption
<1>1. CASE StartProcess
  <2>1. /\ row[q].updated_at <= startedAt + 1 /\ startedAt + 1 \in Nat
        /\ row[q].updated_at # startedAt + 1
    <3>1. row[q] \in Rows /\ startedAt \in Nat
      BY <1>0 DEF TypeOK
    <3>2. row[q].updated_at \in Nat
      BY <3>1 DEF Rows
    <3> QED
      BY <1>0, <3>1, <3>2 DEF RunInv
  <2> QED
    BY <1>0, <1>1, <2>1 DEF StartProcess, memory, RunInv, Honest, InFlight, RowMatchesWorker
<1>2. CASE Shutdown
  BY <1>0, <1>2 DEF Shutdown, TypeOK, RunInv, Honest, InFlight, RowMatchesWorker
<1>3. CASE ProcessDies
  BY <1>0, <1>3 DEF ProcessDies, TypeOK, RunInv, Honest, InFlight, RowMatchesWorker
<1>4. ASSUME NEW r \in Runs, create_run(r) PROVE RunInv(q)' /\ Honest(q)'
  <2>1. Wrote(r, "NOT_STARTED", "")
    BY <1>0, <1>4, StoreWrites DEF create_run, Codes, Readings, BootstrapStatus
  <2>2. CASE q # r
    BY <1>0, <1>4, <2>1, <2>2, Frame DEF create_run, LoopFree, Wrote
  <2>3. CASE q = r
    <3>1. ErrorCode("NOT_STARTED") = ""
      BY ErrorCodes
    <3>2. handler' = r /\ phase' = "up" /\ task' = task /\ worker' = worker
          /\ stage' = stage /\ researched' = researched /\ startedAt' = startedAt
      BY <1>4 DEF create_run, LoopFree
    <3>3. task[r] = "none" /\ r \notin researched
      BY <1>0, <1>4, <2>3 DEF create_run, Created, RunInv, ABSENT
    <3>4. row'[r].updated_at <= startedAt'
      <4>1. startedAt \in Nat
        BY <1>0 DEF TypeOK
      <4> QED
        BY <4>1, <3>2, <2>1, SameIsNotAfter DEF Wrote
    <3> QED
      BY <1>0, <2>1, <2>3, <3>1, <3>2, <3>3, <3>4
         DEF RUNNING_STATES, Wrote, RunInv, Honest, InFlight
  <2> QED
    BY <2>2, <2>3
<1>5. ASSUME NEW r \in Runs, start(r) PROVE RunInv(q)' /\ Honest(q)'
  <2>1. CASE set_status(r, "RUNNING_RESEARCH", "")
             /\ task' = [task EXCEPT ![r] = "pending"]
             /\ worker' = [worker EXCEPT ![r] = "queued"]
    <3>1. Wrote(r, "RUNNING_RESEARCH", "")
      BY <1>0, <2>1, StoreWrites DEF set_status, Codes, Readings, BootstrapStatus
    <3>2. CASE q # r
      BY <1>0, <1>5, <2>1, <3>1, <3>2, Frame DEF start, Wrote, TypeOK
    <3>3. CASE q = r
      <4>1. ErrorCode("RUNNING_RESEARCH") = ""
        BY ErrorCodes
      <4>2. /\ row[r].status = "NOT_STARTED" /\ task[r] = "none"
            /\ stage[r] = "RUNNING_RESEARCH" /\ r \notin researched
            /\ handler = r /\ phase = "up" /\ startedAt \in Nat
        BY <1>0, <1>5, <3>3 DEF start, RunInv, TypeOK
      <4>3. /\ handler' = NoRun /\ phase' = "up" /\ stage' = stage
            /\ researched' = researched /\ startedAt' = startedAt
            /\ task'[r] = "pending" /\ worker'[r] = "queued"
        BY <1>0, <1>5, <2>1, <4>2 DEF start, TypeOK
      <4>4. row'[r].updated_at <= startedAt'
        BY <3>1, <4>2, <4>3, SameIsNotAfter DEF Wrote
      <4> QED
        BY <3>1, <3>3, <4>1, <4>2, <4>3, <4>4
           DEF Wrote, ABSENT, RunInv, Honest, InFlight, RowMatchesWorker
    <3> QED
      BY <3>2, <3>3
  <2>2. CASE StoreRaises(1) /\ UNCHANGED <<task, worker>>
    BY <1>0, <1>5, <2>2, Frame DEF start, StoreRaises, TypeOK
  <2> QED
    BY <1>5, <2>1, <2>2 DEF start
<1>6. ASSUME NEW r \in Runs, ThreadBegins(r) PROVE RunInv(q)' /\ Honest(q)'
  <2>1. CASE q # r
    BY <1>0, <1>6, <2>1, Frame DEF ThreadBegins, TypeOK
  <2>2. CASE q = r
    BY <1>0, <1>6, <2>2 DEF ThreadBegins, TypeOK, RunInv, Honest, InFlight, RowMatchesWorker
  <2> QED
    BY <2>1, <2>2
<1>7. ASSUME NEW r \in Runs, IntakeRaises(r) PROVE RunInv(q)' /\ Honest(q)'
  <2>1. CASE q # r
    BY <1>0, <1>7, <2>1, Frame DEF IntakeRaises, TypeOK
  <2>2. CASE q = r
    BY <1>0, <1>7, <2>2 DEF IntakeRaises, TypeOK, RunInv, Honest, InFlight, RowMatchesWorker
  <2> QED
    BY <2>1, <2>2
<1>8. ASSUME NEW r \in Runs, ResearchFails(r) PROVE RunInv(q)' /\ Honest(q)'
  <2>1. CASE q # r
    BY <1>0, <1>8, <2>1, Frame DEF ResearchFails, TypeOK
  <2>2. CASE q = r
    BY <1>0, <1>8, <2>2 DEF ResearchFails, TypeOK, RunInv, Honest, InFlight, RowMatchesWorker
  <2> QED
    BY <2>1, <2>2
<1>9. ASSUME NEW r \in Runs, ResearchPersists(r) PROVE RunInv(q)' /\ Honest(q)'
  <2>1. CASE q # r
    BY <1>0, <1>9, <2>1, Frame DEF ResearchPersists, TypeOK
  <2>2. CASE q = r
    BY <1>0, <1>9, <2>2 DEF ResearchPersists, TypeOK, RunInv, Honest, InFlight, RowMatchesWorker
  <2> QED
    BY <2>1, <2>2
<1>10. ASSUME NEW r \in Runs, DiscoveryReturns(r) PROVE RunInv(q)' /\ Honest(q)'
  <2>1. CASE q # r
    BY <1>0, <1>10, <2>1, Frame DEF DiscoveryReturns, TypeOK
  <2>2. CASE q = r
    BY <1>0, <1>10, <2>2 DEF DiscoveryReturns, TypeOK, RunInv, Honest, InFlight, RowMatchesWorker
  <2> QED
    BY <2>1, <2>2
<1>11. ASSUME NEW r \in Runs, ReportResearchCompleted(r) PROVE RunInv(q)' /\ Honest(q)'
  <2>1. report(r, "persisted", "RESEARCH_COMPLETED", "completedReported")
    BY <1>11 DEF ReportResearchCompleted
  <2>2. CASE set_status(r, "RESEARCH_COMPLETED", "")
             /\ worker' = [worker EXCEPT ![r] = "completedReported"]
    <3>1. Wrote(r, "RESEARCH_COMPLETED", "")
      BY <1>0, <2>2, StoreWrites DEF set_status, Codes, Readings, BootstrapStatus
    <3>2. CASE q # r
      BY <1>0, <2>1, <2>2, <3>1, <3>2, Frame DEF report, Wrote, TypeOK
    <3>3. CASE q = r
      BY <1>0, <2>1, <2>2, <3>1, <3>3, ErrorCodes
         DEF report, ABSENT, Wrote, TypeOK, RunInv, Honest, InFlight, RowMatchesWorker
    <3> QED
      BY <3>2, <3>3
  <2>3. CASE StoreRaises(1) /\ worker' = [worker EXCEPT ![r] = "raised"]
    <3>1. row' = row
      BY <2>3 DEF StoreRaises
    <3>2. CASE q # r
      BY <1>0, <2>1, <2>3, <3>1, <3>2, Frame DEF report, TypeOK
    <3>3. CASE q = r
      BY <1>0, <2>1, <2>3, <3>1, <3>3 DEF report, TypeOK, RunInv, Honest, InFlight, RowMatchesWorker
    <3> QED
      BY <3>2, <3>3
  <2> QED
    BY <2>1, <2>2, <2>3 DEF report
<1>12. ASSUME NEW r \in Runs, ReportRunningDiscovery(r) PROVE RunInv(q)' /\ Honest(q)'
  <2>1. report(r, "completedReported", "RUNNING_DISCOVERY", "discovering")
    BY <1>12 DEF ReportRunningDiscovery
  <2>2. CASE set_status(r, "RUNNING_DISCOVERY", "")
             /\ worker' = [worker EXCEPT ![r] = "discovering"]
    <3>1. Wrote(r, "RUNNING_DISCOVERY", "")
      BY <1>0, <2>2, StoreWrites DEF set_status, Codes, Readings, BootstrapStatus
    <3>2. CASE q # r
      BY <1>0, <2>1, <2>2, <3>1, <3>2, Frame DEF report, Wrote, TypeOK
    <3>3. CASE q = r
      BY <1>0, <2>1, <2>2, <3>1, <3>3, ErrorCodes
         DEF report, ABSENT, Wrote, TypeOK, RunInv, Honest, InFlight, RowMatchesWorker
    <3> QED
      BY <3>2, <3>3
  <2>3. CASE StoreRaises(1) /\ worker' = [worker EXCEPT ![r] = "raised"]
    <3>1. row' = row
      BY <2>3 DEF StoreRaises
    <3>2. CASE q # r
      BY <1>0, <2>1, <2>3, <3>1, <3>2, Frame DEF report, TypeOK
    <3>3. CASE q = r
      BY <1>0, <2>1, <2>3, <3>1, <3>3 DEF report, TypeOK, RunInv, Honest, InFlight, RowMatchesWorker
    <3> QED
      BY <3>2, <3>3
  <2> QED
    BY <2>1, <2>2, <2>3 DEF report
<1>13. ASSUME NEW r \in Runs, _drive(r) PROVE RunInv(q)' /\ Honest(q)'
  <2>0. /\ task[r] = "pending" /\ task' = [task EXCEPT ![r] = "done"]
        /\ worker[r] \in {"returned", "raised"}
        /\ UNCHANGED <<phase, startedAt, handler, worker, stage, outcome, researched>>
    BY <1>13 DEF _drive
  <2>00. unrecorded \subseteq unrecorded'
    BY <1>13 DEF _drive, _record_failure, StoreRaises
  <2>1. CASE worker[r] = "returned" /\ set_status(r, outcome[r], ErrorCode(outcome[r]))
    <3>1. outcome[r] \in {"RESEARCH_FAILED", "COMPLETED", "DISCOVERY_FAILED_REUPLOAD_REQUIRED"}
      BY <2>0, <2>1 DEF Inv, RunInv, InFlight, RowMatchesWorker
    <3>2. Wrote(r, outcome[r], ErrorCode(outcome[r]))
      BY <1>0, <2>1, <3>1, StoreWrites, ErrorCodes DEF set_status, Readings, BootstrapStatus
    <3>3. CASE q # r
      BY <1>0, <2>0, <3>2, <3>3, Frame, <2>00 DEF Wrote, TypeOK
    <3>4. CASE q = r
      BY <1>0, <2>0, <2>1, <3>1, <3>2, <3>4 DEF ABSENT, RUNNING_STATES, Wrote, TypeOK, RunInv, Honest, InFlight, RowMatchesWorker
    <3> QED
      BY <3>3, <3>4
  <2>2. ASSUME NEW n \in {0, 1}, _record_failure(r, n)
        PROVE  RunInv(q)' /\ Honest(q)'
    <3>1. CASE row' = WithStatus(r, FailureAt(stage[r]), ErrorCode(FailureAt(stage[r])))
      <4>1. Wrote(r, FailureAt(stage[r]), ErrorCode(FailureAt(stage[r])))
        BY <1>0, <3>1, StoreWrites, ErrorCodes, FailureStatus DEF Readings, BootstrapStatus
      <4>2. CASE q # r
        BY <1>0, <2>0, <4>1, <4>2, Frame, <2>00 DEF Wrote, TypeOK
      <4>3. CASE q = r
        BY <1>0, <2>0, <4>1, <4>3, FailureStatus DEF ABSENT, RUNNING_STATES, Wrote, TypeOK, RunInv, Honest, InFlight, RowMatchesWorker
      <4> QED
        BY <4>2, <4>3
    <3>2. CASE StoreRaises(n + 1)
      <4>1. row' = row
        BY <3>2 DEF StoreRaises
      <4>4. faults' # faults + n
        BY <1>0, <3>2 DEF StoreRaises, TypeOK
      <4>5. r \in unrecorded'
        BY <2>2, <4>4 DEF _record_failure
      <4>2. CASE q # r
        BY <1>0, <2>0, <4>1, <4>2, Frame, <2>00 DEF TypeOK
      <4>3. CASE q = r
        BY <1>0, <2>0, <4>1, <4>3, <4>5 DEF TypeOK, RunInv, Honest, InFlight, RowMatchesWorker
      <4> QED
        BY <4>2, <4>3
    <3> QED
      BY <2>2, <3>1, <3>2 DEF _record_failure
  <2> QED
    BY <1>13, <2>1, <2>2 DEF _drive
<1>14. CASE UNCHANGED vars
  BY <1>0, <1>14, Frame DEF vars, memory
<1> QED
  BY <1>1, <1>2, <1>3, <1>4, <1>5, <1>6, <1>7, <1>8, <1>9, <1>10, <1>11, <1>12, <1>13, <1>14 DEF Next, WorkerStep

\* The invariant is inductive.
LEMMA StepInv == Inv /\ [Next]_vars => Inv'
BY StepType, StepRuns DEF Inv

(* The inductive invariant holds throughout.                               *)
THEOREM Invariance == SafeSpec => []Inv
<1>1. Init => Inv
  BY InitType, InitRuns DEF Inv
<1> QED
  BY <1>1, StepInv, PTL DEF SafeSpec

(* Type correctness, for any number of runs, threads, faults and restarts. *)
THEOREM TypeCorrect == SafeSpec => []TypeOK
<1>1. Inv => TypeOK
  BY DEF Inv
<1> QED
  BY <1>1, Invariance, PTL

(* A stored failure or success is never about a stage that went otherwise. *)
THEOREM FailuresAreHonest == SafeSpec => []FailureIsHonest
<1>1. Inv => FailureIsHonest
  BY DEF Inv, Honest, FailureIsHonest
<1> QED
  BY <1>1, Invariance, PTL

(* Nothing that could write the row of a run that reads as terminal is     *)
(* left, so a live run is never read as interrupted.                       *)
THEOREM SettledRunsAreFinal == SafeSpec => []SettledRunHasNoWriter
<1>1. Inv => SettledRunHasNoWriter
  <2> SUFFICES ASSUME Inv, NEW r \in Runs, Reading(r) \in TERMINAL_STATES
               PROVE  /\ handler # r
                      /\ task[r] \in {"none", "done"}
                      /\ worker[r] \in {"idle", "returned", "raised"}
    BY DEF SettledRunHasNoWriter
  <2>1. TypeOK /\ RunInv(r)
    BY DEF Inv
  <2>2. \/ row[r].status \in {"COMPLETED", "RESEARCH_FAILED", "DISCOVERY_FAILED_REUPLOAD_REQUIRED"}
        \/ row[r].status \in RUNNING_STATES /\ row[r].updated_at < startedAt
    BY <2>1 DEF Reading, reading_for, TERMINAL_STATES, RunInv
  <2>3. ~InFlight(r)
    <3>1. worker[r] \in WorkerAt /\ startedAt \in Nat
      BY <2>1 DEF TypeOK
    <3>2. row[r].updated_at < startedAt => row[r].updated_at # startedAt
      BY <3>1
    <3> QED
      BY <2>1, <2>2, <3>1, <3>2 DEF RunInv, InFlight, RowMatchesWorker, WorkerAt
  <2>4. handler # r
    BY <2>1, <2>2 DEF RunInv, RUNNING_STATES
  <2>5. task[r] \in {"none", "done"}
    BY <2>1, <2>3 DEF TypeOK, InFlight
  <2> QED
    BY <2>1, <2>4, <2>5 DEF RunInv
<1> QED
  BY <1>1, Invariance, PTL

(* A run that reads as RUNNING_* belongs to the process that is up, or its *)
(* failure was logged as unrecorded.                                       *)
THEOREM RunningRunsAreOwned == SafeSpec => []RunningIsOwned
<1>1. Inv => RunningIsOwned
  <2> SUFFICES ASSUME Inv, NEW r \in Runs, phase = "up", Reading(r) \in RUNNING_STATES
               PROVE  task[r] = "pending" \/ r \in unrecorded
    BY DEF RunningIsOwned
  <2>1. TypeOK /\ RunInv(r)
    BY DEF Inv
  <2>2. row[r].status \in RUNNING_STATES /\ ~(row[r].updated_at < startedAt)
    BY DEF Reading, reading_for, RUNNING_STATES
  <2>3. row[r].updated_at \in Nat /\ startedAt \in Nat
    BY <2>1 DEF TypeOK, Rows
  <2>4. row[r].updated_at = startedAt
    BY <2>1, <2>2, <2>3 DEF RunInv
  <2> QED
    BY <2>1, <2>2, <2>4 DEF RunInv
<1> QED
  BY <1>1, Invariance, PTL

(************************** refinement ************************************)
\* What a read of every run answers.
View == [r \in Runs |-> Reading(r)]

\* A step that writes no row and starts no process shows no reader anything.
LEMMA UnreadStep ==
  ASSUME row' = row, startedAt' = startedAt
  PROVE  View' = View
BY DEF View, Reading, reading_for

\* A write along an edge of the lifecycle is a step of the lifecycle.
LEMMA WriteAdvances ==
  ASSUME Inv, NEW r \in Runs, NEW s \in BootstrapStatus, NEW c, Wrote(r, s, c),
         startedAt' = startedAt, startedAt \in Nat,
         <<Reading(r), s>> \in Lifecycle!Edges
  PROVE  Lifecycle!Advance(r)
<1>1. View'[r] = s
  <2>1. ~(row'[r].updated_at < startedAt)
    BY DEF Wrote
  <2> QED
    BY <2>1 DEF View, Reading, reading_for, Wrote
<1>2. \A q \in Runs \ {r} : View'[q] = View[q]
  BY DEF View, Reading, reading_for, Wrote
<1>3. View' = [View EXCEPT ![r] = s]
  BY <1>1, <1>2 DEF View
<1>4. View[r] = Reading(r)
  BY DEF View
<1>5. s \in Lifecycle!BootstrapStatus
  BY DEF BootstrapStatus, Lifecycle!BootstrapStatus
<1> QED
  BY <1>3, <1>4, <1>5 DEF Lifecycle!Advance, View

(* A new process reads every RUNNING_* row as interrupted, and only those. *)
LEMMA StartLoses == Inv /\ StartProcess => Lifecycle!ProcessLost
<1> SUFFICES ASSUME Inv, StartProcess PROVE Lifecycle!ProcessLost
  OBVIOUS
<1>1. ASSUME NEW r \in Runs
      PROVE  Reading(r)' = IF Reading(r) \in RUNNING_STATES
                           THEN "INTERRUPTED_REUPLOAD_REQUIRED" ELSE Reading(r)
  <2>1. row' = row /\ startedAt' = startedAt + 1
    BY DEF StartProcess
  <2>2. row[r].updated_at \in Nat /\ startedAt \in Nat /\ row[r].updated_at <= startedAt
    BY DEF Inv, TypeOK, Rows, RunInv
  <2>3. row[r].updated_at < startedAt + 1
    BY <2>2
  <2> QED
    BY <2>1, <2>3 DEF Reading, reading_for, RUNNING_STATES
<1>2. View' = [r \in Runs |-> IF View[r] \in RUNNING_STATES
                                 THEN "INTERRUPTED_REUPLOAD_REQUIRED" ELSE View[r]]
  BY <1>1 DEF View
<1> QED
  BY <1>2 DEF Lifecycle!ProcessLost, Lifecycle!RUNNING_STATES, RUNNING_STATES, View

\* Every step of the code is a step of the lifecycle, or shows nothing.
LEMMA StepRefines == Inv /\ [Next]_vars => [Lifecycle!Next]_View
<1> SUFFICES ASSUME Inv, [Next]_vars PROVE Lifecycle!Next \/ View' = View
  OBVIOUS
<1>0. TypeOK
  BY DEF Inv
<1>1. ASSUME NEW r \in Runs, NEW s \in BootstrapStatus, NEW c \in Codes,
             row' = WithStatus(r, s, c), startedAt' = startedAt,
             <<Reading(r), s>> \in Lifecycle!Edges
      PROVE  Lifecycle!Next
  <2>1. Wrote(r, s, c)
    BY <1>0, <1>1, StoreWrites DEF Readings
  <2> QED
    BY <1>0, <1>1, <2>1, WriteAdvances DEF Lifecycle!Next, TypeOK
<1>2. ASSUME NEW r \in Runs, NEW s \in BootstrapStatus, InFlight(r), row[r].status = s
      PROVE  Reading(r) = s
  <2>1. row[r].updated_at = startedAt /\ startedAt \in Nat
    BY <1>0, <1>2 DEF Inv, RunInv, TypeOK
  <2> QED
    BY <1>2, <2>1 DEF Reading, reading_for
<1>3. CASE StartProcess
  BY <1>3, StartLoses DEF Lifecycle!Next
<1>4. CASE Shutdown \/ ProcessDies
  BY <1>4, UnreadStep DEF Shutdown, ProcessDies
<1>5. ASSUME NEW r \in Runs, create_run(r) PROVE Lifecycle!Next
  <2>1. Reading(r) = ABSENT
    BY <1>5 DEF create_run, Created, Reading, reading_for, RUNNING_STATES, ABSENT
  <2> QED
    BY <1>1, <1>5, <2>1
       DEF create_run, Lifecycle!Edges, Codes, BootstrapStatus, ABSENT, Lifecycle!ABSENT
<1>6. ASSUME NEW r \in Runs, start(r) PROVE Lifecycle!Next \/ View' = View
  <2>1. CASE set_status(r, "RUNNING_RESEARCH", "")
    <3>1. row[r].status = "NOT_STARTED"
      BY <1>6 DEF start, Inv, RunInv
    <3>2. Reading(r) = "NOT_STARTED"
      BY <3>1 DEF Reading, reading_for, RUNNING_STATES
    <3> QED
      BY <1>1, <1>6, <2>1, <3>2
         DEF start, set_status, Lifecycle!Edges, Codes, BootstrapStatus
  <2>2. CASE StoreRaises(1)
    BY <1>6, <2>2, UnreadStep DEF start, StoreRaises
  <2> QED
    BY <1>6, <2>1, <2>2 DEF start
<1>7. ASSUME NEW r \in Runs,
             ThreadBegins(r) \/ IntakeRaises(r) \/ ResearchFails(r)
             \/ ResearchPersists(r) \/ DiscoveryReturns(r)
      PROVE  View' = View
  BY <1>7, UnreadStep
     DEF ThreadBegins, IntakeRaises, ResearchFails, ResearchPersists, DiscoveryReturns
<1>8. ASSUME NEW r \in Runs, NEW from \in {"persisted", "completedReported"},
             NEW s \in BootstrapStatus, NEW to, report(r, from, s, to),
             \/ from = "persisted" /\ s = "RESEARCH_COMPLETED"
             \/ from = "completedReported" /\ s = "RUNNING_DISCOVERY"
      PROVE  Lifecycle!Next \/ View' = View
  <2>1. InFlight(r) /\ row[r].status = IF from = "persisted" THEN "RUNNING_RESEARCH"
                                       ELSE "RESEARCH_COMPLETED"
    <3>1. worker[r] = from /\ task[r] \in {"none", "pending", "cancelled", "done"}
      BY <1>0, <1>8 DEF report, TypeOK
    <3>2. InFlight(r)
      BY <1>8, <3>1 DEF Inv, RunInv, InFlight
    <3> QED
      BY <1>8, <3>1, <3>2 DEF Inv, RunInv, RowMatchesWorker
  <2>2. <<Reading(r), s>> \in Lifecycle!Edges
    BY <1>2, <1>8, <2>1 DEF BootstrapStatus, Lifecycle!Edges
  <2>3. CASE set_status(r, s, "")
    BY <1>1, <1>8, <2>2, <2>3 DEF report, set_status, Codes
  <2>4. CASE StoreRaises(1)
    BY <1>8, <2>4, UnreadStep DEF report, StoreRaises
  <2> QED
    BY <1>8, <2>3, <2>4 DEF report
<1>9. ASSUME NEW r \in Runs, _drive(r) PROVE Lifecycle!Next \/ View' = View
  <2>1. InFlight(r) /\ startedAt' = startedAt
    BY <1>9 DEF _drive, InFlight
  <2>2. RowMatchesWorker(r)
    BY <2>1 DEF Inv, RunInv
  <2>3. CASE worker[r] = "returned" /\ set_status(r, outcome[r], ErrorCode(outcome[r]))
    <3>1. outcome[r] \in BootstrapStatus /\ <<Reading(r), outcome[r]>> \in Lifecycle!Edges
      BY <1>2, <2>1, <2>2, <2>3 DEF RowMatchesWorker, BootstrapStatus, Lifecycle!Edges
    <3> QED
      BY <1>1, <2>1, <2>3, <3>1, ErrorCodes DEF set_status
  <2>4. ASSUME worker[r] \in {"returned", "raised"},
               row' = WithStatus(r, FailureAt(stage[r]), ErrorCode(FailureAt(stage[r])))
        PROVE  Lifecycle!Next
    <3>1. FailureAt(stage[r]) \in BootstrapStatus
      BY FailureStatus DEF BootstrapStatus
    <3>2. <<Reading(r), FailureAt(stage[r])>> \in Lifecycle!Edges
      BY <1>2, <2>1, <2>2, <2>4, FailureStatus
         DEF RowMatchesWorker, BootstrapStatus, Lifecycle!Edges
    <3> QED
      BY <1>1, <2>1, <2>4, <3>1, <3>2, ErrorCodes
  <2>5. CASE row' = row
    BY <2>1, <2>5, UnreadStep
  <2> QED
    BY <1>9, <2>3, <2>4, <2>5 DEF _drive, _record_failure, StoreRaises
<1>10. CASE UNCHANGED vars
  BY <1>10, UnreadStep DEF vars
<1>11. ASSUME NEW r \in Runs, ReportResearchCompleted(r) \/ ReportRunningDiscovery(r)
       PROVE  Lifecycle!Next \/ View' = View
  BY <1>8, <1>11 DEF ReportResearchCompleted, ReportRunningDiscovery, BootstrapStatus
<1> QED
  BY <1>3, <1>4, <1>5, <1>6, <1>7, <1>9, <1>10, <1>11 DEF Next, WorkerStep

(* What reads of the runs can show is an execution of the lifecycle.       *)
THEOREM Refinement == SafeSpec => ImplementsLifecycle
<1>1. Init => Lifecycle!Init
  <2> SUFFICES ASSUME Init PROVE Lifecycle!Init
    OBVIOUS
  <2>1. \A r \in Runs : row[r].status = "ABSENT"
    BY DEF Init, NoRow, ABSENT
  <2>2. \A r \in Runs : Reading(r) = "ABSENT"
    BY <2>1 DEF Reading, reading_for, RUNNING_STATES
  <2> QED
    BY <2>2 DEF Lifecycle!Init, Lifecycle!ABSENT
<1>2. Inv /\ [Next]_vars => [Lifecycle!Next]_View
  BY StepRefines
<1> QED
  BY <1>1, <1>2, Invariance, PTL DEF SafeSpec, ImplementsLifecycle, Lifecycle!Spec, View
=============================================================================
