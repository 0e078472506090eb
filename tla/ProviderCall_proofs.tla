------------------------- MODULE ProviderCall_proofs -------------------------
(* The safety of one call, for every policy the assumption allows: any     *)
(* number of attempts, any waits, any set of codes that are sent again.    *)
EXTENDS ProviderCall, TLAPS

(* Nothing of an answer exists before there is one. *)
Unanswered == body = "none" /\ usage = {} /\ error = NoError

(* The failed attempt in hand, and what its answer announced; a transport  *)
(* that raised announced nothing.                                          *)
FailedAttempt ==
    /\ attempt \in 1 .. max_attempts
    /\ last = Error(last.code, last.status, attempt)
    /\ \/ last.code \in TransportCodes /\ last.status = "none" /\ reset = NoReset
       \/ last.code \in StatusCodes /\ last.status = "not 2xx"

(* What each place of the call in the code knows. *)
PlaceInv ==
    /\ pc = "called" => Unanswered /\ attempt = 0
    /\ pc = "in flight" =>
          Unanswered /\ reset = NoReset /\ attempt \in 1 .. max_attempts
    /\ pc = "failed" => Unanswered /\ FailedAttempt
    /\ pc = "slept" =>
          /\ Unanswered /\ FailedAttempt /\ attempt < max_attempts
          /\ last.code \in retry_on /\ waited = delay_for(attempt, reset)
    /\ pc \in {"answered", "decoded"} =>
          /\ body \in Bodies(adapter) /\ usage = {} /\ error = NoError
          /\ attempt \in 1 .. max_attempts
          /\ pc = "decoded" => body # "unreadable"
    /\ pc = "judging" =>
          /\ adapter = "anthropic" /\ body \in Bodies(adapter)
          /\ body # "unreadable" /\ usage = {attempt} /\ error = NoError

CallInv == TypeOK /\ PlaceInv /\ CostIsOnRecord

-----------------------------------------------------------------------------
(* An error that names a known code and at most all attempts is one. *)
LEMMA ErrorsAreTyped ==
    ASSUME NEW c \in Codes \cup {"none", "SINK", "UNCODED"},
           NEW s \in {"none", "2xx", "not 2xx"}, NEW n \in 0 .. max_attempts
    PROVE  Error(c, s, n) \in Errors
BY DEF Error, Errors

(* What is found wrong with an answer is an error. *)
LEMMA FaultsAreErrors == ASSUME NEW b PROVE Fault(b) \in Errors
<1>1. \A c \in AnswerCodes, s \in {"none", "2xx"}, n \in {0, 1} :
          Error(c, s, n) \in Errors
    <2>1. \A n \in {0, 1} : n \in 0 .. max_attempts
        BY PolicyAssumption
    <2> QED  BY <2>1, ErrorsAreTyped DEF Codes
<1> QED  BY <1>1 DEF Fault, AnswerCodes

(* A failed attempt is one of those the policy allows. *)
LEMMA FailedAttemptsCount ==
    ASSUME FailedAttempt
    PROVE  attempt \in 1 .. max_attempts
BY DEF FailedAttempt

-----------------------------------------------------------------------------
(* One lemma per stretch of the call. *)

(* The initial states. *)
LEMMA InitHolds == Init => CallInv
<1> SUFFICES ASSUME Init PROVE CallInv
    OBVIOUS
<1>1. NoError \in Errors
    BY PolicyAssumption DEF NoError, Error, Errors, Codes
<1>2. TypeOK
    BY <1>1, PolicyAssumption DEF Init, TypeOK
<1>3. PlaceInv
    BY DEF Init, PlaceInv, Unanswered
<1>4. CostIsOnRecord
    BY DEF Init, CostIsOnRecord, NoError, Error, AnswerCodes
<1> QED  BY <1>2, <1>3, <1>4 DEF CallInv

(* Refused before anything was sent (brave.py:752). *)
LEMMA RefuseKeeps == CallInv /\ Refuse => CallInv'
<1> SUFFICES ASSUME CallInv, Refuse PROVE CallInv'
    OBVIOUS
<1>1. Error("INVALID_REQUEST", "none", 1) \in Errors
    BY PolicyAssumption DEF Error, Errors, Codes, StatusCodes
<1>2. TypeOK'
    BY <1>1 DEF CallInv, TypeOK, Refuse, Raise
<1>3. PlaceInv'
    BY DEF PlaceInv, Refuse, Raise
<1>4. CostIsOnRecord'
    BY DEF CallInv, PlaceInv, Unanswered, CostIsOnRecord, Refuse, Raise
<1> QED  BY <1>2, <1>3, <1>4 DEF CallInv

(* An attempt leaves: the first, or one more after a wait. *)
LEMMA SendKeeps == CallInv /\ Send => CallInv'
<1> SUFFICES ASSUME CallInv, Send PROVE CallInv'
    OBVIOUS
<1>1. attempt + 1 \in 1 .. max_attempts /\ Unanswered
    <2>1. CASE pc = "called"
        BY <2>1, PolicyAssumption DEF CallInv, PlaceInv
    <2>2. CASE pc = "slept"
        <3>1. Unanswered /\ FailedAttempt /\ attempt < max_attempts
            BY <2>2 DEF CallInv, PlaceInv
        <3> QED  BY <3>1, FailedAttemptsCount, PolicyAssumption
    <2> QED  BY <2>1, <2>2 DEF Send
<1>2. TypeOK'
    <2>1. attempt + 1 \in 0 .. max_attempts
        BY <1>1, PolicyAssumption
    <2> QED  BY <1>1, <2>1 DEF CallInv, TypeOK, Send
<1>3. PlaceInv'
    BY <1>1 DEF PlaceInv, Send, Unanswered
<1>4. CostIsOnRecord'
    BY <1>1 DEF CostIsOnRecord, Send, Unanswered, NoError, Error, AnswerCodes
<1> QED  BY <1>2, <1>3, <1>4 DEF CallInv

(* The transport raises: there is no answer and nothing is announced.      *)
LEMMA TransportRaisesKeeps ==
    ASSUME CallInv, NEW code \in TransportCodes, TransportRaises(code)
    PROVE  CallInv'
<1>1. Unanswered /\ reset = NoReset
    BY DEF CallInv, PlaceInv, TransportRaises
<1>2. attempt \in 1 .. max_attempts
    BY DEF CallInv, PlaceInv, TransportRaises
<1>3. Error(code, "none", attempt) \in Errors
    <2>1. code \in Codes
        BY DEF Codes
    <2>2. attempt \in 0 .. max_attempts
        BY <1>2, PolicyAssumption
    <2> QED  BY <2>1, <2>2, ErrorsAreTyped
<1>4. TypeOK'
    BY <1>3 DEF CallInv, TypeOK, TransportRaises
<1>5. PlaceInv'
    BY <1>1, <1>2 DEF PlaceInv, TransportRaises, Unanswered, FailedAttempt, Error
<1>6. CostIsOnRecord'
    BY <1>1 DEF CostIsOnRecord, TransportRaises, Unanswered, NoError, Error,
                AnswerCodes
<1> QED  BY <1>4, <1>5, <1>6 DEF CallInv

(* A status that is no success, which may announce a wait.                 *)
LEMMA FailureStatusKeeps ==
    ASSUME CallInv, NEW code \in StatusCodes, FailureStatus(code)
    PROVE  CallInv'
<1>1. Unanswered /\ reset = NoReset
    BY DEF CallInv, PlaceInv, FailureStatus
<1>2. attempt \in 1 .. max_attempts
    BY DEF CallInv, PlaceInv, FailureStatus
<1>3. Error(code, "not 2xx", attempt) \in Errors
    <2>1. code \in Codes
        BY DEF Codes
    <2>2. attempt \in 0 .. max_attempts
        BY <1>2, PolicyAssumption
    <2> QED  BY <2>1, <2>2, ErrorsAreTyped
<1>4. TypeOK'
    BY <1>3 DEF CallInv, TypeOK, FailureStatus
<1>5. PlaceInv'
    BY <1>1, <1>2 DEF PlaceInv, FailureStatus, Unanswered, FailedAttempt, Error
<1>6. CostIsOnRecord'
    BY <1>1 DEF CostIsOnRecord, FailureStatus, Unanswered, NoError, Error,
                AnswerCodes
<1> QED  BY <1>4, <1>5, <1>6 DEF CallInv

(* The last failure is raised; it cost nothing that is on record. *)
LEMMA GiveUpKeeps == CallInv /\ GiveUp => CallInv'
<1> SUFFICES ASSUME CallInv, GiveUp PROVE CallInv'
    OBVIOUS
<1>1. Unanswered /\ FailedAttempt
    BY DEF CallInv, PlaceInv, GiveUp
<1>2. TypeOK'
    BY DEF CallInv, TypeOK, GiveUp, Raise
<1>3. PlaceInv'
    BY DEF PlaceInv, GiveUp, Raise
<1>4. last.code \notin AnswerCodes
    BY <1>1 DEF FailedAttempt, AnswerCodes, TransportCodes, StatusCodes
<1>5. CostIsOnRecord'
    BY <1>1, <1>4 DEF CostIsOnRecord, GiveUp, Raise, Unanswered
<1> QED  BY <1>2, <1>3, <1>5 DEF CallInv

(* Or it is waited after. *)
LEMMA SleepKeeps == CallInv /\ Sleep => CallInv'
<1> SUFFICES ASSUME CallInv, Sleep PROVE CallInv'
    OBVIOUS
<1>1. Unanswered /\ FailedAttempt
    BY DEF CallInv, PlaceInv, Sleep
<1>2. TypeOK'
    BY DEF CallInv, TypeOK, Sleep
<1>3. attempt < max_attempts /\ last.code \in retry_on
    BY <1>1, FailedAttemptsCount, PolicyAssumption DEF Sleep, Final
<1>4. PlaceInv'
    <2>1. FailedAttempt'
        BY <1>1 DEF FailedAttempt, Sleep
    <2>2. (waited = delay_for(attempt, reset))'
        BY DEF Sleep, delay_for
    <2> QED  BY <1>1, <1>3, <2>1, <2>2 DEF PlaceInv, Sleep, Unanswered
<1>5. CostIsOnRecord'
    BY <1>1 DEF CostIsOnRecord, Sleep, Unanswered, NoError, Error, AnswerCodes
<1> QED  BY <1>2, <1>4, <1>5 DEF CallInv

(* An answer with success arrives. *)
LEMMA AnsweredKeeps ==
    ASSUME CallInv, NEW b \in Bodies(adapter), Answered(b)
    PROVE  CallInv'
<1>1. Unanswered /\ attempt \in 1 .. max_attempts
    BY DEF CallInv, PlaceInv, Answered
<1>2. TypeOK'
    BY DEF CallInv, TypeOK, Answered, Bodies
<1>3. PlaceInv'
    BY <1>1 DEF PlaceInv, Answered, Unanswered, Bodies
<1>4. CostIsOnRecord'
    BY <1>1 DEF CostIsOnRecord, Answered, Unanswered, NoError, Error, AnswerCodes
<1> QED  BY <1>2, <1>3, <1>4 DEF CallInv

(* It is decoded, or raises past the loop's handler. *)
LEMMA DecodeKeeps == CallInv /\ _decode_body => CallInv'
<1> SUFFICES ASSUME CallInv, _decode_body PROVE CallInv'
    OBVIOUS
<1>1. /\ body \in Bodies(adapter) /\ usage = {} /\ error = NoError
      /\ attempt \in 1 .. max_attempts
    BY DEF CallInv, PlaceInv, _decode_body
<1>2. /\ Error("MALFORMED_RESPONSE", "none", 1) \in Errors
      /\ Error("MALFORMED_RESPONSE", "2xx", 1) \in Errors
    BY PolicyAssumption DEF Error, Errors, Codes, AnswerCodes
<1>3. TypeOK'
    BY <1>2 DEF CallInv, TypeOK, _decode_body, Raise, Bodies
<1>4. PlaceInv'
    BY <1>1 DEF PlaceInv, _decode_body, Raise, Bodies
<1>5. CostIsOnRecord'
    BY <1>1 DEF CostIsOnRecord, _decode_body, Raise, NoError, Error, AnswerCodes
<1> QED  BY <1>3, <1>4, <1>5 DEF CallInv

(* The search adapter's end: results and their cost, or an error. *)
LEMMA WebResultsKeeps == CallInv /\ _web_results => CallInv'
<1> SUFFICES ASSUME CallInv, _web_results PROVE CallInv'
    OBVIOUS
<1>1. /\ usage = {} /\ error = NoError /\ attempt \in 1 .. max_attempts
    BY DEF CallInv, PlaceInv, _web_results
<1>2. Error("MALFORMED_RESPONSE", "2xx", 1) \in Errors
    BY PolicyAssumption DEF Error, Errors, Codes, AnswerCodes
<1>3. TypeOK'
    BY <1>1, <1>2 DEF CallInv, TypeOK, _web_results, Raise, Bodies
<1>4. PlaceInv'
    BY DEF PlaceInv, _web_results, Raise
<1>5. CostIsOnRecord'
    BY <1>1 DEF CostIsOnRecord, _web_results, Raise, NoError, Error, AnswerCodes
<1> QED  BY <1>3, <1>4, <1>5 DEF CallInv

(* The model adapter records the cost before it judges. *)
LEMMA RecordUsageKeeps == CallInv /\ _record_usage => CallInv'
<1> SUFFICES ASSUME CallInv, _record_usage PROVE CallInv'
    OBVIOUS
<1>1. /\ usage = {} /\ error = NoError /\ attempt \in 1 .. max_attempts
      /\ body \in Bodies(adapter) /\ body # "unreadable"
    BY DEF CallInv, PlaceInv, _record_usage
<1>2. Error("UNCODED", "none", 0) \in Errors
    BY PolicyAssumption DEF Error, Errors
<1>3. TypeOK'
    BY <1>1, <1>2 DEF CallInv, TypeOK, _record_usage, Raise, Bodies
<1>4. PlaceInv'
    BY <1>1 DEF PlaceInv, _record_usage, Raise, Bodies
<1>5. CostIsOnRecord'
    BY <1>1 DEF CostIsOnRecord, _record_usage, Raise, UsageCanBeRead
<1> QED  BY <1>3, <1>4, <1>5 DEF CallInv

(* Whatever it then finds wrong with the answer. *)
LEMMA TextCallKeeps == CallInv /\ _text_call => CallInv'
<1> SUFFICES ASSUME CallInv, _text_call PROVE CallInv'
    OBVIOUS
<1>1. /\ adapter = "anthropic" /\ usage = {attempt} /\ error = NoError
      /\ body \in Bodies("anthropic") \ {"unreadable"}
    BY DEF CallInv, PlaceInv, _text_call
<1>2. Fault(body) \in Errors
    BY FaultsAreErrors
<1>3. TypeOK'
    BY <1>2 DEF CallInv, TypeOK, _text_call, Raise, Bodies
<1>4. PlaceInv'
    BY DEF PlaceInv, _text_call, Raise
<1>5. CostIsOnRecord'
    BY <1>1 DEF CostIsOnRecord, _text_call, Raise, NoError, Error, AnswerCodes
<1> QED  BY <1>3, <1>4, <1>5 DEF CallInv

(* The sink's exception replaces the answer. *)
LEMMA SinkRaisesKeeps == CallInv /\ SinkRaises => CallInv'
<1> SUFFICES ASSUME CallInv, SinkRaises PROVE CallInv'
    OBVIOUS
<1>1. usage = {} /\ error = NoError
    BY DEF CallInv, PlaceInv, SinkRaises
<1>2. Error("SINK", "none", 0) \in Errors
    BY PolicyAssumption DEF Error, Errors
<1>3. TypeOK'
    BY <1>2 DEF CallInv, TypeOK, SinkRaises, Raise, Bodies
<1>4. PlaceInv'
    BY DEF PlaceInv, SinkRaises, Raise
<1>5. CostIsOnRecord'
    BY <1>1 DEF CostIsOnRecord, SinkRaises, Raise, NoError, Error, AnswerCodes
<1> QED  BY <1>3, <1>4, <1>5 DEF CallInv

(* Nothing happens. *)
LEMMA StutterKeeps == CallInv /\ UNCHANGED vars => CallInv'
<1> SUFFICES ASSUME CallInv, UNCHANGED vars PROVE CallInv'
    OBVIOUS
<1>1. TypeOK'
    BY DEF CallInv, TypeOK, vars, Bodies
<1>2. PlaceInv'
    BY DEF CallInv, PlaceInv, vars, Unanswered, FailedAttempt, Bodies, delay_for
<1>3. CostIsOnRecord'
    BY DEF CallInv, CostIsOnRecord, vars
<1> QED  BY <1>1, <1>2, <1>3 DEF CallInv

-----------------------------------------------------------------------------
(* The inductive invariant: what attempt, last error, announced wait,      *)
(* answer and usage are at each place of the two adapters' common loop.    *)
THEOREM CallInvariance == Spec => []CallInv
<1>1. CallInv /\ [Next]_vars => CallInv'
    <2> SUFFICES ASSUME CallInv, [Next]_vars PROVE CallInv'
        OBVIOUS
    <2>1. CASE Refuse       BY <2>1, RefuseKeeps
    <2>2. CASE Send         BY <2>2, SendKeeps
    <2>3. CASE Attempting
        <3>1. ASSUME NEW code \in TransportCodes, TransportRaises(code)
              PROVE  CallInv'
            BY <3>1, TransportRaisesKeeps
        <3>2. ASSUME NEW code \in StatusCodes, FailureStatus(code)
              PROVE  CallInv'
            BY <3>2, FailureStatusKeeps
        <3>3. ASSUME NEW b \in Bodies(adapter), Answered(b)
              PROVE  CallInv'
            BY <3>3, AnsweredKeeps
        <3> QED  BY <2>3, <3>1, <3>2, <3>3 DEF Attempting
    <2>4. CASE GiveUp        BY <2>4, GiveUpKeeps
    <2>5. CASE Sleep         BY <2>5, SleepKeeps
    <2>6. CASE _decode_body  BY <2>6, DecodeKeeps
    <2>7. CASE _web_results  BY <2>7, WebResultsKeeps
    <2>8. CASE _record_usage BY <2>8, RecordUsageKeeps
    <2>9. CASE _text_call    BY <2>9, TextCallKeeps
    <2>10. CASE SinkRaises   BY <2>10, SinkRaisesKeeps
    <2>11. CASE UNCHANGED vars BY <2>11, StutterKeeps
    <2> QED  BY <2>1, <2>2, <2>3, <2>4, <2>5, <2>6, <2>7, <2>8, <2>9, <2>10,
                <2>11 DEF Next, Step, Rest
<1> QED  BY InitHolds, <1>1, PTL DEF Spec

(* Type correctness for every policy: no request and no error counts more *)
(* attempts than the policy allows.                                        *)
THEOREM CallTypeCorrect == Spec => []TypeOK
<1>1. CallInv => TypeOK
    BY DEF CallInv
<1> QED  BY <1>1, CallInvariance, PTL

(* Billed answers whose cost can be read are on record under every policy, *)
(* and no answer is returned without (anthropic.py:740).                   *)
THEOREM CostsAreOnRecord == Spec => []CostIsOnRecord
<1>1. CallInv => CostIsOnRecord
    BY DEF CallInv
<1> QED  BY <1>1, CallInvariance, PTL

(* A wait belongs to the failure it follows, under every policy            *)
(* (brave.py:830).                                                         *)
THEOREM WaitsFit == Spec => []WaitsFitTheFailure
<1>1. CallInv => WaitsFitTheFailure
    <2> SUFFICES ASSUME CallInv, pc = "slept" PROVE WaitsFitTheFailure
        BY DEF WaitsFitTheFailure
    <2>1. FailedAttempt /\ waited = delay_for(attempt, reset)
        BY DEF CallInv, PlaceInv
    <2>2. CASE last.status = "none"
        <3>1. reset = NoReset
            BY <2>1, <2>2 DEF FailedAttempt
        <3> QED  BY <2>1, <2>2, <3>1 DEF WaitsFitTheFailure
    <2>3. CASE last.status # "none"
        BY <2>1, <2>3 DEF WaitsFitTheFailure, delay_for
    <2> QED  BY <2>2, <2>3
<1> QED  BY <1>1, CallInvariance, PTL

(* No answer is paid for twice: an attempt leaves again only after one     *)
(* that failed without an answer (brave.py:847, anthropic.py:809).         *)
THEOREM NothingIsAskedForTwice == Spec => AnswerIsAskedForOnce
<1>1. CallInv /\ [Next]_vars =>
          [attempt' # attempt /\ attempt > 0 =>
               body = "none" /\ last.code \in retry_on]_vars
    <2> SUFFICES ASSUME CallInv, Next, attempt' # attempt, attempt > 0
                 PROVE  body = "none" /\ last.code \in retry_on
        OBVIOUS
    <2>1. Send
        BY DEF Next, Step, Attempting, Rest, vars, Refuse, TransportRaises,
               FailureStatus, Answered, GiveUp, Sleep, _decode_body,
               _web_results, _record_usage, _text_call, SinkRaises
    <2>2. pc = "slept"
        <3>1. pc = "called" => attempt = 0
            BY DEF CallInv, PlaceInv
        <3>2. pc # "called"
            BY <3>1
        <3> QED  BY <2>1, <3>2 DEF Send
    <2> QED  BY <2>2 DEF CallInv, PlaceInv, Unanswered
<1> QED  BY <1>1, CallInvariance, PTL DEF Spec, AnswerIsAskedForOnce
=============================================================================
