-------------------------- MODULE StatusPage_proofs --------------------------
(* The safety of the status page, for any number of runs and of tries. The *)
(* run underneath is RunLifecycle, which BootstrapRun_proofs!Refinement    *)
(* shows the real runner to implement.                                     *)
EXTENDS StatusPage, TLAPS

(* What an answer on its way can still say: a terminal reading that it was *)
(* given at its tick is the reading the run still has. *)
AnswersAreNotAhead ==
    \A r \in Runs : answers[r] \cap TERMINAL_STATES \subseteq {reading[r]}

(* An interval that runs has tries left. *)
TriesAreLeft == \A r \in Runs : page[r] = "polling" => tries[r] <= MaxTries

(* Only an existing run has a page with an interval. *)
PollingIsOfARun == \A r \in Runs : page[r] = "polling" => reading[r] # ABSENT

PageInv ==
    /\ PageTypeOK /\ FinishedPageIsTrue
    /\ AnswersAreNotAhead /\ TriesAreLeft /\ PollingIsOfARun

pagevars == <<reading, pageVars>>

-----------------------------------------------------------------------------
(* Terminal readings have no successor, neither along an edge nor by the   *)
(* loss of the process (runs.py:248).                                      *)
LEMMA TerminalIsFinal ==
    ASSUME TypeOK, Next, NEW r \in Runs, reading[r] \in TERMINAL_STATES
    PROVE  reading'[r] = reading[r]
<1>1. CASE ProcessLost
    BY <1>1 DEF ProcessLost, TypeOK, TERMINAL_STATES, RUNNING_STATES
<1>2. CASE \E q \in Runs : Advance(q)
    BY <1>2 DEF Advance, TypeOK, Edges, TERMINAL_STATES, ABSENT
<1> QED  BY <1>1, <1>2 DEF Next

(* A step of the run keeps every reading a reading. *)
LEMMA ReadingsStayTyped ==
    ASSUME TypeOK, Next
    PROVE  TypeOK'
<1>1. CASE ProcessLost
    BY <1>1 DEF ProcessLost, TypeOK, Readings, BootstrapStatus
<1>2. CASE \E q \in Runs : Advance(q)
    BY <1>2 DEF Advance, TypeOK, Readings
<1> QED  BY <1>1, <1>2 DEF Next

(* A run that exists keeps existing. *)
LEMMA PresenceStays ==
    ASSUME TypeOK, Next, NEW r \in Runs, reading[r] # ABSENT
    PROVE  reading'[r] # ABSENT
<1>1. CASE ProcessLost
    BY <1>1 DEF ProcessLost, TypeOK, ABSENT
<1>2. CASE \E q \in Runs : Advance(q)
    BY <1>2 DEF Advance, TypeOK, BootstrapStatus, ABSENT
<1> QED  BY <1>1, <1>2 DEF Next

(* A document that is rendered shows the reading of its run, and nothing   *)
(* is on its way to it.                                                    *)
LEMMA RenderKeeps ==
    ASSUME PageInv, NEW r \in Runs, Render(r)
    PROVE  PageInv'
<1>1. PageTypeOK'
    BY StatusPageAssumption DEF PageInv, PageTypeOK, TypeOK, Render
<1>2. FinishedPageIsTrue'
    BY DEF PageInv, FinishedPageIsTrue, PageTypeOK, TypeOK, Render, settled
<1>3. AnswersAreNotAhead'
    BY DEF PageInv, AnswersAreNotAhead, PageTypeOK, TypeOK, Render
<1>4. TriesAreLeft'
    BY StatusPageAssumption
       DEF PageInv, TriesAreLeft, PageTypeOK, TypeOK, Render
<1>5. PollingIsOfARun'
    BY DEF PageInv, PollingIsOfARun, PageTypeOK, TypeOK, Render
<1> QED  BY <1>1, <1>2, <1>3, <1>4, <1>5 DEF PageInv

(* A reload renders a new document, or its request fails. *)
LEMMA ReloadKeeps ==
    ASSUME PageInv, NEW r \in Runs, Reload(r)
    PROVE  PageInv'
<1>1. CASE Render(r)
    BY <1>1, RenderKeeps
<1>2. CASE ~Render(r)
    BY <1>2 DEF Reload, PageInv, PageTypeOK, TypeOK, FinishedPageIsTrue,
               AnswersAreNotAhead, TriesAreLeft, PollingIsOfARun
<1> QED  BY <1>1, <1>2

(* A tick of the interval asks for the reading the run has then. *)
LEMMA PollKeeps ==
    ASSUME PageInv, NEW r \in Runs, Poll(r)
    PROVE  PageInv'
<1>1. tries[r] \in 0 .. MaxTries
    BY StatusPageAssumption
       DEF PageInv, PageTypeOK, TriesAreLeft, Poll
<1>2. tries[r] + 1 \in 0 .. MaxTries + 1
    BY <1>1, StatusPageAssumption
<1>3. PageTypeOK'
    <2>1. CASE tries[r] + 1 > MaxTries
        BY <1>2, <2>1 DEF PageInv, PageTypeOK, TypeOK, Poll
    <2>2. CASE ~(tries[r] + 1 > MaxTries)
        <3>1. reading[r] \in BootstrapStatus
            BY DEF PageInv, PageTypeOK, TypeOK, PollingIsOfARun, Poll, Readings
        <3> QED  BY <1>2, <2>2, <3>1 DEF PageInv, PageTypeOK, TypeOK, Poll
    <2> QED  BY <2>1, <2>2
<1>4. FinishedPageIsTrue'
    BY DEF PageInv, FinishedPageIsTrue, PageTypeOK, TypeOK, Poll
<1>5. AnswersAreNotAhead'
    BY DEF PageInv, AnswersAreNotAhead, PageTypeOK, TypeOK, Poll
<1>6. TriesAreLeft'
    BY <1>1, StatusPageAssumption
       DEF PageInv, TriesAreLeft, PageTypeOK, TypeOK, Poll
<1>7. PollingIsOfARun'
    BY DEF PageInv, PollingIsOfARun, PageTypeOK, TypeOK, Poll
<1> QED  BY <1>3, <1>4, <1>5, <1>6, <1>7 DEF PageInv

(* An answer, late or not, reloads the page only on a reading that is      *)
(* final.                                                                  *)
LEMMA AnswerKeeps ==
    ASSUME PageInv, NEW r \in Runs, Answer(r)
    PROVE  PageInv'
<1>1. PICK asked \in answers[r] : \E s \in {asked, reading[r]} :
          /\ answers' = [answers EXCEPT ![r] = @ \ {asked}]
          /\ shown' = [shown EXCEPT ![r] = s]
          /\ page' = [page EXCEPT ![r] =
                         IF s \in TERMINAL_STATES THEN "reloading" ELSE @]
          /\ UNCHANGED <<reading, tries>>
    BY DEF Answer
<1>2. PICK s \in {asked, reading[r]} :
          /\ answers' = [answers EXCEPT ![r] = @ \ {asked}]
          /\ shown' = [shown EXCEPT ![r] = s]
          /\ page' = [page EXCEPT ![r] =
                         IF s \in TERMINAL_STATES THEN "reloading" ELSE @]
          /\ UNCHANGED <<reading, tries>>
    BY <1>1
<1>3. s \in Readings
    BY DEF PageInv, PageTypeOK, TypeOK, Readings
<1>4. s \in TERMINAL_STATES => reading[r] \in TERMINAL_STATES
    BY DEF PageInv, AnswersAreNotAhead
<1>5. PageTypeOK'
    BY <1>2, <1>3 DEF PageInv, PageTypeOK, TypeOK
<1>6. FinishedPageIsTrue'
    <2>1. page[r] # "settled"
        BY DEF Answer
    <2> QED  BY <1>2, <1>4, <2>1
                DEF PageInv, FinishedPageIsTrue, PageTypeOK, TypeOK
<1>7. AnswersAreNotAhead'
    BY <1>2 DEF PageInv, AnswersAreNotAhead, PageTypeOK, TypeOK
<1>8. TriesAreLeft'
    BY <1>2 DEF PageInv, TriesAreLeft, PageTypeOK, TypeOK
<1>9. PollingIsOfARun'
    BY <1>2 DEF PageInv, PollingIsOfARun, PageTypeOK, TypeOK
<1> QED  BY <1>5, <1>6, <1>7, <1>8, <1>9 DEF PageInv

(* A fetch that fails only stops the interval. *)
LEMMA FetchFailsKeeps ==
    ASSUME PageInv, NEW r \in Runs, FetchFails(r)
    PROVE  PageInv'
BY DEF FetchFails, PageInv, PageTypeOK, TypeOK, FinishedPageIsTrue,
       AnswersAreNotAhead, TriesAreLeft, PollingIsOfARun

(* What the run does leaves the pages alone and terminal readings too. *)
LEMMA RunKeeps ==
    ASSUME PageInv, Next, UNCHANGED pageVars
    PROVE  PageInv'
<1>1. TypeOK /\ TypeOK'
    BY ReadingsStayTyped DEF PageInv, PageTypeOK
<1>2. PageTypeOK'
    BY <1>1 DEF PageInv, PageTypeOK, pageVars
<1>3. \A r \in Runs : reading[r] \in TERMINAL_STATES => reading'[r] = reading[r]
    BY <1>1, TerminalIsFinal
<1>4. FinishedPageIsTrue'
    BY <1>3 DEF PageInv, FinishedPageIsTrue, pageVars, settled
<1>5. AnswersAreNotAhead'
    BY <1>3 DEF PageInv, AnswersAreNotAhead, pageVars
<1>6. TriesAreLeft'
    BY DEF PageInv, TriesAreLeft, pageVars
<1>7. PollingIsOfARun'
    BY <1>1, PresenceStays DEF PageInv, PollingIsOfARun, pageVars, PageTypeOK
<1> QED  BY <1>2, <1>4, <1>5, <1>6, <1>7 DEF PageInv

-----------------------------------------------------------------------------
(* The inductive invariant of the page (run.html, app.run_page). *)
THEOREM PageInvariance == PageSpec => []PageInv
<1>1. PageInit => PageInv
    BY StatusPageAssumption
       DEF PageInit, Init, PageInv, PageTypeOK, TypeOK, FinishedPageIsTrue,
           AnswersAreNotAhead, TriesAreLeft, PollingIsOfARun, Readings,
           TERMINAL_STATES
<1>2. PageInv /\ [PageNext]_pagevars => PageInv'
    <2> SUFFICES ASSUME PageInv, [PageNext]_pagevars PROVE PageInv'
        OBVIOUS
    <2>1. CASE Next /\ UNCHANGED pageVars
        BY <2>1, RunKeeps
    <2>2. ASSUME NEW r \in Runs, Open(r) PROVE PageInv'
        BY <2>2, RenderKeeps DEF Open
    <2>3. ASSUME NEW r \in Runs, Reload(r) PROVE PageInv'
        BY <2>3, ReloadKeeps
    <2>4. ASSUME NEW r \in Runs, Poll(r) PROVE PageInv'
        BY <2>4, PollKeeps
    <2>5. ASSUME NEW r \in Runs, Answer(r) PROVE PageInv'
        BY <2>5, AnswerKeeps
    <2>6. ASSUME NEW r \in Runs, FetchFails(r) PROVE PageInv'
        BY <2>6, FetchFailsKeeps
    <2>7. CASE UNCHANGED pagevars
        BY <2>7 DEF pagevars, pageVars, PageInv, PageTypeOK, TypeOK,
                   FinishedPageIsTrue, AnswersAreNotAhead, TriesAreLeft,
                   PollingIsOfARun
    <2> QED  BY <2>1, <2>2, <2>3, <2>4, <2>5, <2>6, <2>7 DEF PageNext
<1> QED  BY <1>1, <1>2, PTL DEF PageSpec, pagevars

(* Type correctness of the page over any runs and any number of tries. *)
THEOREM PageTypeCorrect == PageSpec => []PageTypeOK
<1>1. PageInv => PageTypeOK
    BY DEF PageInv
<1> QED  BY <1>1, PageInvariance, PTL

(* Whatever order answers arrive in, and however often the page is opened, *)
(* reloaded or given up, it never shows a finish that is not one, and what *)
(* it shows as finished stays true (run.html, app.py:187).                 *)
THEOREM FinishIsNeverFalse == PageSpec => []FinishedPageIsTrue
<1>1. PageInv => FinishedPageIsTrue
    BY DEF PageInv
<1> QED  BY <1>1, PageInvariance, PTL
=============================================================================
