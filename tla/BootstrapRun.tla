---------------------------- MODULE BootstrapRun ----------------------------
(* Bootstrap Analysis Runs of the deployment proof: the upload handler,    *)
(* BootstrapRunner on the event loop, run_bootstrap on a worker thread,    *)
(* ProofStore's proof_run table, and the process that owns all but the     *)
(* table.  Only the table survives a process.                              *)
(*                                                                         *)
(* One process at a time owns the table (deploy/render.yaml: one instance, *)
(* one worker, the old one stops before the new one starts).               *)
(*                                                                         *)
(* Time.  A timestamp is only ever compared with a process start, so       *)
(* time.time() is modelled by the start of the process that calls it: the  *)
(* writes of a process are not older than its start and older than the     *)
(* next one's.  A wall clock stepped backwards is outside the model.       *)
EXTENDS RunStatus, FiniteSets

CONSTANTS
    Runs,       \* run ids
    NoRun,      \* no upload handler is mid-way
    Threads,    \* worker threads the thread pool lends at a time
    MaxFaults,  \* bound: store writes that raise (locked, disk full)
    MaxStarts   \* bound: processes started

ASSUME BootstrapAssumption ==
    /\ NoRun \notin Runs
    /\ Threads \in Nat \ {0}
    /\ MaxFaults \in Nat
    /\ MaxStarts \in Nat \ {0}

VARIABLES
    row,        \* table proof_run: run id -> stored row
    phase,      \* the process: "down", "up", or "stopping"
    startedAt,  \* process_started_at of the latest process
    handler,    \* the run whose upload handler sits between create_run and start
    task,       \* per run, the _drive coroutine
    worker,     \* per run, where the thread is inside work(report)
    stage,      \* per run, progress["stage"]
    outcome,    \* per run, the status of the RunOutcome returned by the work
    researched, \* runs whose research was ever persisted (history)
    unrecorded, \* runs logged as proof.background_failure_unrecorded
    faults      \* store writes that raised so far

memory == <<handler, task, worker, stage, outcome>>
vars == <<row, phase, startedAt, memory, researched, unrecorded, faults>>

NoRow == [status |-> ABSENT, error_code |-> "", updated_at |-> 0]

Rows == [status : Readings, error_code : {"", "RESEARCH_FAILED", "DISCOVERY_FAILED"},
         updated_at : Nat]
Outcomes == {"", "COMPLETED", "RESEARCH_FAILED", "DISCOVERY_FAILED_REUPLOAD_REQUIRED"}
WorkerAt == {"idle", "queued", "running", "persisted", "completedReported",
             "discovering", "returned", "raised"}

TypeOK ==
    /\ row \in [Runs -> Rows]
    /\ phase \in {"down", "up", "stopping"}
    /\ startedAt \in Nat
    /\ handler \in Runs \cup {NoRun}
    /\ task \in [Runs -> {"none", "pending", "cancelled", "done"}]
    /\ worker \in [Runs -> WorkerAt]
    /\ stage \in [Runs -> {"RUNNING_RESEARCH", "RESEARCH_COMPLETED", "RUNNING_DISCOVERY"}]
    /\ outcome \in [Runs -> Outcomes]
    /\ researched \subseteq Runs
    /\ unrecorded \subseteq Runs
    /\ faults \in Nat

(***************************** ProofStore *********************************)
\* get_run: the stored row with its status read rather than echoed.
Reading(r) == reading_for(row[r].status, startedAt, row[r].updated_at)

Created(r) == row[r].status # ABSENT

WithStatus(r, status, error_code) ==
    [row EXCEPT ![r] = [status |-> status, error_code |-> error_code,
                        updated_at |-> startedAt]]

\* set_status commits; error_code is overwritten, with NULL by default.
set_status(r, status, error_code) ==
    row' = WithStatus(r, status, error_code) /\ UNCHANGED faults

\* set_status raises and leaves the row as it was.
StoreRaises(n) == faults + n <= MaxFaults /\ faults' = faults + n /\ UNCHANGED row

(******************************** process *********************************)
Init ==
    /\ row = [r \in Runs |-> NoRow]
    /\ phase = "down"
    /\ startedAt = 0
    /\ handler = NoRun
    /\ task = [r \in Runs |-> "none"]
    /\ worker = [r \in Runs |-> "idle"]
    /\ stage = [r \in Runs |-> "RUNNING_RESEARCH"]
    /\ outcome = [r \in Runs |-> ""]
    /\ researched = {} /\ unrecorded = {} /\ faults = 0

StartProcess ==
    /\ phase = "down"
    /\ startedAt < MaxStarts
    /\ phase' = "up"
    /\ startedAt' = startedAt + 1
    /\ UNCHANGED <<row, memory, researched, unrecorded, faults>>

\* Mutant: `except BaseException` in _drive, a cancelled run is recorded as failed.
Shutdown_recording ==
    /\ phase = "up" /\ handler = NoRun
    /\ startedAt < MaxStarts
    /\ phase' = "stopping"
    /\ task' = [r \in Runs |-> IF task[r] = "pending" THEN "cancelled" ELSE task[r]]
    /\ row' = [r \in Runs |-> IF task[r] = "pending"
                              THEN [status |-> "RESEARCH_FAILED", updated_at |-> startedAt,
                                    error_code |-> "RESEARCH_FAILED"]
                              ELSE row[r]]
    /\ UNCHANGED <<startedAt, handler, worker, stage, outcome,
                   researched, unrecorded, faults>>

(* Graceful stop: the loop cancels every pending task.  CancelledError is  *)
(* no Exception, so _drive records nothing; a thread already inside the    *)
(* work is not stopped by it and may go on reporting until the exit.       *)
Shutdown ==
    /\ phase = "up" /\ handler = NoRun
    /\ startedAt < MaxStarts
    /\ phase' = "stopping"
    /\ task' = [r \in Runs |-> IF task[r] = "pending" THEN "cancelled" ELSE task[r]]
    /\ UNCHANGED <<row, startedAt, handler, worker, stage, outcome,
                   researched, unrecorded, faults>>

\* Exit or crash.  The process numbered MaxStarts is the one that lives on.
ProcessDies ==
    /\ phase # "down"
    /\ startedAt < MaxStarts
    /\ phase' = "down"
    /\ handler' = NoRun
    /\ task' = [r \in Runs |-> "none"]
    /\ worker' = [r \in Runs |-> "idle"]
    /\ stage' = [r \in Runs |-> "RUNNING_RESEARCH"]
    /\ outcome' = [r \in Runs |-> ""]
    /\ UNCHANGED <<row, startedAt, researched, unrecorded, faults>>

(**************************** upload handler ******************************)
LoopFree == phase = "up" /\ handler = NoRun

\* POST /upload: create_run.  No await separates it from start.
create_run(r) ==
    /\ LoopFree
    /\ ~Created(r)
    /\ handler' = r
    /\ row' = WithStatus(r, "NOT_STARTED", "")
    /\ UNCHANGED <<phase, startedAt, task, worker, stage, outcome,
                   researched, unrecorded, faults>>

start(r) ==
    /\ phase = "up" /\ handler = r
    /\ handler' = NoRun
    /\ \/ /\ set_status(r, "RUNNING_RESEARCH", "")
          /\ task' = [task EXCEPT ![r] = "pending"]
          /\ worker' = [worker EXCEPT ![r] = "queued"]
       \/ StoreRaises(1) /\ UNCHANGED <<task, worker>>      \* the request answers 500
    /\ UNCHANGED <<phase, startedAt, stage, outcome, researched, unrecorded>>

(********************* run_bootstrap, on a worker thread *******************)
Busy == {r \in Runs : task[r] = "pending"
                      /\ worker[r] \notin {"idle", "queued", "returned", "raised"}}

\* to_thread.run_sync gets a thread of the pool.
ThreadBegins(r) ==
    /\ phase = "up"
    /\ task[r] = "pending" /\ worker[r] = "queued"
    /\ Cardinality(Busy) < Threads
    /\ worker' = [worker EXCEPT ![r] = "running"]
    /\ UNCHANGED <<row, phase, startedAt, handler, task, stage, outcome,
                   researched, unrecorded, faults>>

\* Intake raises outside the try: the exception is _drive's to record.
IntakeRaises(r) ==
    /\ worker[r] = "running"
    /\ worker' = [worker EXCEPT ![r] = "raised"]
    /\ UNCHANGED <<row, phase, startedAt, handler, task, stage, outcome,
                   researched, unrecorded, faults>>

\* run_research or its persist raises: a returned outcome, not an exception.
ResearchFails(r) ==
    /\ worker[r] = "running"
    /\ worker' = [worker EXCEPT ![r] = "returned"]
    /\ outcome' = [outcome EXCEPT ![r] = "RESEARCH_FAILED"]
    /\ UNCHANGED <<row, phase, startedAt, handler, task, stage,
                   researched, unrecorded, faults>>

ResearchPersists(r) ==
    /\ worker[r] = "running"
    /\ worker' = [worker EXCEPT ![r] = "persisted"]
    /\ researched' = researched \cup {r}
    /\ UNCHANGED <<row, phase, startedAt, handler, task, stage, outcome,
                   unrecorded, faults>>

(* report(): the stage is noted first, then written.  A write that raises  *)
(* ends the work there.                                                    *)
report(r, from, status, to) ==
    /\ worker[r] = from
    /\ stage' = [stage EXCEPT ![r] = status]
    /\ \/ set_status(r, status, "") /\ worker' = [worker EXCEPT ![r] = to]
       \/ StoreRaises(1) /\ worker' = [worker EXCEPT ![r] = "raised"]
    /\ UNCHANGED <<phase, startedAt, handler, task, outcome,
                   researched, unrecorded>>

ReportResearchCompleted(r) ==
    report(r, "persisted", "RESEARCH_COMPLETED", "completedReported")
ReportRunningDiscovery(r) ==
    report(r, "completedReported", "RUNNING_DISCOVERY", "discovering")

\* Either leg drops the candidates and clears its storage before returning.
DiscoveryReturns(r) ==
    /\ worker[r] = "discovering"
    /\ worker' = [worker EXCEPT ![r] = "returned"]
    /\ \E s \in {"COMPLETED", "DISCOVERY_FAILED_REUPLOAD_REQUIRED"} :
           outcome' = [outcome EXCEPT ![r] = s]
    /\ UNCHANGED <<row, phase, startedAt, handler, task, stage, researched,
                   unrecorded, faults>>

WorkerStep(r) ==
    \/ ThreadBegins(r) \/ IntakeRaises(r) \/ ResearchFails(r) \/ ResearchPersists(r)
    \/ ReportResearchCompleted(r) \/ ReportRunningDiscovery(r) \/ DiscoveryReturns(r)

(********************* _drive, back on the event loop **********************)
ErrorCode(status) ==
    CASE status = "RESEARCH_FAILED" -> "RESEARCH_FAILED"
      [] status = "DISCOVERY_FAILED_REUPLOAD_REQUIRED" -> "DISCOVERY_FAILED"
      [] OTHER -> ""

\* Mutant: the failure is recorded without asking how far the work got.
FailureAt_blind(reached) == "RESEARCH_FAILED"

FailureAt(reached) ==
    IF reached \in {"RESEARCH_COMPLETED", "RUNNING_DISCOVERY"}
    THEN "DISCOVERY_FAILED_REUPLOAD_REQUIRED"
    ELSE "RESEARCH_FAILED"

\* Mutant: a failure whose recording fails is swallowed without a log line.
_record_failure_silent(r, n) ==
    \/ /\ row' = WithStatus(r, FailureAt(stage[r]), ErrorCode(FailureAt(stage[r])))
       /\ faults + n <= MaxFaults /\ faults' = faults + n
       /\ UNCHANGED unrecorded
    \/ StoreRaises(n + 1) /\ UNCHANGED unrecorded

(* _record_failure after n writes of this step already raised; if its own  *)
(* write raises too, _note_unrecorded_failure logs one line and stops.     *)
_record_failure(r, n) ==
    \/ /\ row' = WithStatus(r, FailureAt(stage[r]), ErrorCode(FailureAt(stage[r])))
       /\ faults + n <= MaxFaults /\ faults' = faults + n
       /\ UNCHANGED unrecorded
    \/ /\ StoreRaises(n + 1)
       /\ unrecorded' = unrecorded \cup {r}

(* The await of the worker thread ends and the coroutine runs to its end.  *)
_drive(r) ==
    /\ LoopFree
    /\ task[r] = "pending"
    /\ \/ /\ worker[r] = "returned"
          /\ \/ set_status(r, outcome[r], ErrorCode(outcome[r])) /\ UNCHANGED unrecorded
             \/ _record_failure(r, 1)
       \/ worker[r] = "raised" /\ _record_failure(r, 0)
    /\ task' = [task EXCEPT ![r] = "done"]
    /\ UNCHANGED <<phase, startedAt, handler, worker, stage, outcome, researched>>

Next ==
    \/ StartProcess \/ Shutdown \/ ProcessDies
    \/ \E r \in Runs : create_run(r) \/ start(r) \/ WorkerStep(r) \/ _drive(r)

(* The loop runs a ready coroutine, a thread runs its work to the end, and *)
(* the platform ends a stopping process and starts the next one.  Nobody   *)
(* has to upload, nothing has to crash.                                    *)
Fairness ==
    /\ WF_vars(StartProcess)
    /\ WF_vars(phase = "stopping" /\ ProcessDies)
    /\ \A r \in Runs : WF_vars(start(r)) /\ WF_vars(WorkerStep(r)) /\ WF_vars(_drive(r))

SafeSpec == Init /\ [][Next]_vars
Spec == SafeSpec /\ Fairness

(****************************** properties ********************************)
Lifecycle == INSTANCE RunLifecycle WITH reading <- [r \in Runs |-> Reading(r)]

(* What any sequence of reads of a run can show is an execution of the     *)
(* abstract lifecycle: crashes, failed writes and threads that outlive     *)
(* their coroutine never skip a stage, go back, or leave a terminal state. *)
ImplementsLifecycle == Lifecycle!Spec

(* A stored state never claims more or less than what happened: "research  *)
(* failed" only of a run whose research was not persisted, anything past   *)
(* research only of one whose research was (_record_failure's partial      *)
(* success, and report() noting the stage before it writes).               *)
FailureIsHonest ==
    \A r \in Runs :
        /\ row[r].status = "RESEARCH_FAILED" => r \notin researched
        /\ row[r].status \in {"RESEARCH_COMPLETED", "RUNNING_DISCOVERY", "COMPLETED",
                             "DISCOVERY_FAILED_REUPLOAD_REQUIRED"} => r \in researched
        /\ row[r].error_code = ErrorCode(row[r].status)

(* Once a run reads as terminal nothing that could still write its row is  *)
(* left: no handler, no coroutine, no thread inside its work.  In          *)
(* particular a live run is never read as interrupted.                     *)
SettledRunHasNoWriter ==
    \A r \in Runs :
        Reading(r) \in TERMINAL_STATES =>
            /\ handler # r
            /\ task[r] \in {"none", "done"}
            /\ worker[r] \in {"idle", "returned", "raised"}

(* While a process serves reads, a run that reads as RUNNING_* is being    *)
(* driven by that very process, or its failure could not be recorded and   *)
(* that was logged.                                                        *)
RunningIsOwned ==
    \A r \in Runs :
        phase = "up" /\ Reading(r) \in RUNNING_STATES =>
            task[r] = "pending" \/ r \in unrecorded

Settled(r) == Reading(r) \in TERMINAL_STATES \/ r \in unrecorded

(* A run settles, or its failure could not be stored and was logged: in a  *)
(* process that is not lost, every run that reads as RUNNING_* (runs.py:   *)
(* 116), so that its page stops polling; whatever processes are lost, a    *)
(* run seen in discovery, and one seen in research unless it rests at      *)
(* RESEARCH_COMPLETED, between the two reports (harness_probe.py:150).     *)
RunsSettle ==
    \A r \in Runs :
        /\ (startedAt = MaxStarts /\ row[r].status \in RUNNING_STATES) ~> Settled(r)
        /\ row[r].status = "RUNNING_DISCOVERY" ~> Settled(r)
        /\ row[r].status = "RUNNING_RESEARCH" ~>
               (Settled(r) \/ Reading(r) = "RESEARCH_COMPLETED")
=============================================================================
