----------------------------- MODULE StatusPage -----------------------------
(* The status page of a run (templates/run.html, app.run_page, run_json):  *)
(* rendered once by the server, then a script polls the JSON endpoint.     *)
(* The run underneath is the abstract RunLifecycle, which BootstrapRun     *)
(* implements.  Fetches overlap, so their answers arrive in any order.     *)
EXTENDS RunLifecycle

CONSTANT MaxTries   \* 120 in the script

ASSUME StatusPageAssumption == MaxTries \in Nat \ {0}

VARIABLES
    page,       \* per run: is it "closed", "polling", "stopped", "reloading" or "settled"
    shown,      \* the status the page displays
    tries,      \* polls made since the page was rendered
    answers     \* fetches on their way, each with what it would have read at its tick

pageVars == <<page, shown, tries, answers>>

PageTypeOK ==
    /\ TypeOK
    /\ page \in [Runs -> {"closed", "polling", "stopped", "reloading", "settled"}]
    /\ shown \in [Runs -> Readings]
    /\ tries \in [Runs -> 0 .. MaxTries + 1]
    /\ answers \in [Runs -> SUBSET BootstrapStatus]

PageInit ==
    /\ Init
    /\ page = [r \in Runs |-> "closed"]
    /\ shown = [r \in Runs |-> ABSENT]
    /\ tries = [r \in Runs |-> 0]
    /\ answers = [r \in Runs |-> {}]

\* Mutant: "not running" instead of terminal, the slip app.run_page warns of.
settled_notRunning(status) == status \notin RUNNING_STATES

\* run_page: terminal, not merely "not running".
settled(status) == status \in TERMINAL_STATES

\* GET /runs/{id}: a new document, whose predecessor's fetches are gone.
Render(r) ==
    /\ reading[r] # ABSENT
    /\ page' = [page EXCEPT ![r] = IF settled(reading[r]) THEN "settled" ELSE "polling"]
    /\ shown' = [shown EXCEPT ![r] = reading[r]]
    /\ tries' = [tries EXCEPT ![r] = 0]
    /\ answers' = [answers EXCEPT ![r] = {}]
    /\ UNCHANGED reading

Open(r) == page[r] \in {"closed", "stopped"} /\ Render(r)

\* location.reload(), or its request failing: the browser shows its own error.
Reload(r) ==
    /\ page[r] = "reloading"
    /\ \/ Render(r)
       \/ /\ page' = [page EXCEPT ![r] = "closed"]
          /\ answers' = [answers EXCEPT ![r] = {}]
          /\ UNCHANGED <<reading, shown, tries>>

\* Mutant: the interval is never cleared for too many tries.
Poll_forever(r) ==
    /\ page[r] = "polling"
    /\ answers' = [answers EXCEPT ![r] = @ \cup {reading[r]}]
    /\ UNCHANGED <<page, reading, shown, tries>>

\* One tick of the interval: give up, or fetch what run_json reads now.
Poll(r) ==
    /\ page[r] = "polling"
    /\ tries' = [tries EXCEPT ![r] = @ + 1]
    /\ IF tries[r] + 1 > MaxTries
       THEN page' = [page EXCEPT ![r] = "stopped"] /\ UNCHANGED answers
       ELSE answers' = [answers EXCEPT ![r] = @ \cup {reading[r]}] /\ UNCHANGED page
    /\ UNCHANGED <<reading, shown>>

(* An answer arrives, also after the interval was cleared.  run_json read  *)
(* the run at some moment between the tick and now: at either end of it.   *)
Answer(r) ==
    /\ page[r] \in {"polling", "stopped", "reloading"}
    /\ \E asked \in answers[r] : \E s \in {asked, reading[r]} :
        /\ answers' = [answers EXCEPT ![r] = @ \ {asked}]
        /\ shown' = [shown EXCEPT ![r] = s]
        /\ page' = [page EXCEPT ![r] = IF s \in TERMINAL_STATES THEN "reloading" ELSE @]
    /\ UNCHANGED <<reading, tries>>

\* A fetch fails (process gone, bad JSON): the interval is cleared for good.
FetchFails(r) ==
    /\ page[r] = "polling" /\ tries[r] > 0
    /\ page' = [page EXCEPT ![r] = "stopped"]
    /\ UNCHANGED <<reading, shown, tries, answers>>

PageNext ==
    \/ Next /\ UNCHANGED pageVars
    \/ \E r \in Runs : Open(r) \/ Reload(r) \/ Poll(r) \/ Answer(r) \/ FetchFails(r)

\* A live page's timer fires and its navigation ends.
PageSpec ==
    /\ PageInit /\ [][PageNext]_<<reading, pageVars>>
    /\ \A r \in Runs : WF_<<reading, pageVars>>(Poll(r)) /\ WF_<<reading, pageVars>>(Reload(r))

(****************************** properties ********************************)
(* A page presents a run as finished, or reloads itself to do so, only     *)
(* when the run really is; and a settled page shows the reading the run    *)
(* has now and, terminal readings being final, ever after.                 *)
FinishedPageIsTrue ==
    \A r \in Runs :
        /\ page[r] \in {"settled", "reloading"} => reading[r] \in TERMINAL_STATES
        /\ page[r] = "settled" => shown[r] = reading[r]

(* A page does not poll for ever, whatever the run and the answers do.     *)
PollingEnds == \A r \in Runs : page[r] = "polling" ~> page[r] # "polling"
=============================================================================
