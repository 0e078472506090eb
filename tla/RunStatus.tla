----------------------------- MODULE RunStatus -----------------------------
(* The application-local states of a Bootstrap Analysis Run (proof_app/    *)
(* runs.py) and the way a stored one is read.                              *)
EXTENDS Naturals

BootstrapStatus ==
    {"NOT_STARTED", "RUNNING_RESEARCH", "RESEARCH_COMPLETED",
     "RUNNING_DISCOVERY", "COMPLETED", "RESEARCH_FAILED",
     "DISCOVERY_FAILED_REUPLOAD_REQUIRED", "INTERRUPTED_REUPLOAD_REQUIRED"}

RUNNING_STATES == {"RUNNING_RESEARCH", "RUNNING_DISCOVERY"}

TERMINAL_STATES ==
    {"COMPLETED", "RESEARCH_FAILED", "DISCOVERY_FAILED_REUPLOAD_REQUIRED",
     "INTERRUPTED_REUPLOAD_REQUIRED"}

\* get_run answers None for an unknown id; the page turns that into a 404.
ABSENT == "ABSENT"

Readings == BootstrapStatus \cup {ABSENT}

\* Mutant: a row touched at this process's start counts as older than it.
reading_for_inclusive(status, process_started_at, row_updated_at) ==
    IF status \in RUNNING_STATES /\ row_updated_at <= process_started_at
    THEN "INTERRUPTED_REUPLOAD_REQUIRED"
    ELSE status

\* Mutant: the stored status is echoed.
reading_for_echo(status, process_started_at, row_updated_at) == status

(* A stored RUNNING_* row last touched before the reading process existed. *)
reading_for(status, process_started_at, row_updated_at) ==
    IF status \in RUNNING_STATES /\ row_updated_at < process_started_at
    THEN "INTERRUPTED_REUPLOAD_REQUIRED"
    ELSE status
=============================================================================
