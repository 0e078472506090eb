---------------------------- MODULE ProviderCall ----------------------------
(* One call of a network adapter: BraveSearch.search                       *)
(* (adapters/search/brave.py) or a text or structured call of AnthropicLLM *)
(* (adapters/llm/anthropic.py). Both send through the same loop: attempts, *)
(* a retry policy over error codes, a wait between attempts. They differ   *)
(* in what they check before and after, and in when usage is recorded.     *)
(*                                                                         *)
(* A transport answers or raises. Waits are whole seconds; a header that   *)
(* cannot be parsed is no header. There is a usage sink.                   *)
EXTENDS Integers

CONSTANTS
    max_attempts, backoff_seconds, backoff_multiplier, max_backoff_seconds,
    respect_reset,   \* respect_rate_limit_reset, respect_retry_after
    retry_on,        \* the codes a failed attempt is sent again for
    Resets           \* the waits a provider announces

Adapters == {"brave", "anthropic"}

TransportCodes == {"TIMEOUT", "NETWORK_FAILED"}

StatusCodes ==
    {"AUTH_FAILED", "RATE_LIMITED", "PROVIDER_UNAVAILABLE", "INVALID_REQUEST"}

AnswerCodes ==
    {"MALFORMED_RESPONSE", "RESPONSE_TRUNCATED", "CONTENT_REFUSED",
     "EMPTY_RESPONSE", "OUTPUT_NOT_JSON", "OUTPUT_SCHEMA_INVALID",
     "VALIDATOR_UNAVAILABLE"}

NoReset == -1

ASSUME PolicyAssumption ==
    /\ max_attempts \in Nat \ {0}
    /\ backoff_seconds \in Nat /\ backoff_multiplier \in Nat \ {0}
    /\ max_backoff_seconds \in Nat
    /\ respect_reset \in BOOLEAN
    /\ retry_on \subseteq TransportCodes \cup StatusCodes
    /\ Resets \subseteq Nat

VARIABLES
    adapter,    \* which of the two
    pc,         \* where the call is
    attempt,    \* the attempt under way, from 1
    last,       \* the error of the last failed attempt: code, status, attempts
    reset,      \* the wait its answer announced
    waited,     \* what was slept before this attempt
    error,      \* what the caller caught, or NoError
    usage,      \* the attempts of each usage record handed to the sink
    body        \* what the body of the 2xx answer is like

vars == <<adapter, pc, attempt, last, reset, waited, error, usage, body>>

Error(code, status, attempts) ==
    [code |-> code, status |-> status, attempts |-> attempts]

NoError == Error("none", "none", 0)

Init ==
    /\ adapter \in Adapters
    /\ pc = "called" /\ attempt = 0 /\ last = NoError /\ reset = NoReset
    /\ waited = 0 /\ error = NoError /\ usage = {} /\ body = "none"

Raise(e) == pc' = "raised" /\ error' = e

-----------------------------------------------------------------------------
(* The loop *)

(* An empty query or a limit out of range is refused before the transport  *)
(* is touched; the error still says one attempt, its default.              *)
Refuse ==
    /\ pc = "called" /\ adapter = "brave"
    /\ Raise(Error("INVALID_REQUEST", "none", 1))
    /\ UNCHANGED <<adapter, attempt, last, reset, waited, usage, body>>

\* Mutant: the attempts are not counted up.
Send_uncounted ==
    /\ pc \in {"called", "slept"}
    /\ attempt' = 1 /\ pc' = "in flight" /\ reset' = NoReset
    /\ UNCHANGED <<adapter, last, waited, error, usage, body>>

\* Mutant: the announced wait outlives its attempt.
Send_keeps_reset ==
    /\ pc \in {"called", "slept"}
    /\ attempt' = attempt + 1 /\ pc' = "in flight"
    /\ UNCHANGED <<adapter, last, reset, waited, error, usage, body>>

Send ==
    /\ pc \in {"called", "slept"}
    /\ attempt' = attempt + 1
    /\ pc' = "in flight" /\ reset' = NoReset
    /\ UNCHANGED <<adapter, last, waited, error, usage, body>>

TransportRaises(code) ==
    /\ pc = "in flight"
    /\ last' = Error(code, "none", attempt)
    /\ pc' = "failed"
    /\ UNCHANGED <<adapter, attempt, reset, waited, error, usage, body>>

(* A status other than 2xx, possibly announcing when to come back.         *)
FailureStatus(code) ==
    /\ pc = "in flight"
    /\ last' = Error(code, "not 2xx", attempt)
    /\ reset' \in {NoReset} \cup Resets
    /\ pc' = "failed"
    /\ UNCHANGED <<adapter, attempt, waited, error, usage, body>>

Smaller(a, b) == IF a <= b THEN a ELSE b

delay_for(n, reset_after) ==
    Smaller(IF respect_reset /\ reset_after # NoReset THEN reset_after
            ELSE backoff_seconds * backoff_multiplier ^ (n - 1),
            max_backoff_seconds)

(* The attempts are used up, or sending again would fail alike. *)
Final == attempt >= max_attempts \/ last.code \notin retry_on

GiveUp ==
    /\ pc = "failed" /\ Final
    /\ Raise(last)
    /\ UNCHANGED <<adapter, attempt, last, reset, waited, usage, body>>

Sleep ==
    /\ pc = "failed" /\ ~Final
    /\ waited' = delay_for(attempt, reset) /\ pc' = "slept"
    /\ UNCHANGED <<adapter, attempt, last, reset, error, usage, body>>

-----------------------------------------------------------------------------
(* A 2xx answer *)

(* What a body can be wrong in. The search adapter knows two of the faults *)
(* only. A miscounted answer's "usage" is no object or counts no numbers;  *)
(* a structured call also parses, an unvalidated answer for want of the    *)
(* schema validator.                                                       *)
Bodies(a) ==
    {"unreadable", "misshapen", "good"} \cup
    (IF a = "anthropic"
     THEN {"miscounted", "truncated", "refused", "blank", "fence only",
           "not json", "unvalidated", "off schema"} ELSE {})

Answered(b) ==
    /\ pc = "in flight"
    /\ body' = b /\ pc' = "answered"
    /\ UNCHANGED <<adapter, attempt, last, reset, waited, error, usage>>

\* Mutant: an unreadable body is one more failed attempt.
Decode_retry ==
    /\ pc = "answered"
    /\ pc' = IF body = "unreadable" THEN "failed" ELSE "decoded"
    /\ last' = IF body = "unreadable"
               THEN Error("NETWORK_FAILED", "2xx", attempt) ELSE last
    /\ UNCHANGED <<adapter, attempt, reset, waited, error, usage, body>>

(* Raised from inside the loop, past its handler: never retried, and with  *)
(* the default number of attempts. Only the search adapter's error keeps   *)
(* the status.                                                             *)
_decode_body ==
    /\ pc = "answered"
    /\ IF body = "unreadable"
       THEN Raise(Error("MALFORMED_RESPONSE",
                        IF adapter = "brave" THEN "2xx" ELSE "none", 1))
       ELSE pc' = "decoded" /\ UNCHANGED error
    /\ UNCHANGED <<adapter, attempt, last, reset, waited, usage, body>>

(* The search adapter maps the results first and records usage last.       *)
_web_results ==
    /\ pc = "decoded" /\ adapter = "brave"
    /\ IF body = "misshapen"
       THEN /\ Raise(Error("MALFORMED_RESPONSE", "2xx", 1))
            /\ UNCHANGED usage
       ELSE pc' = "returned" /\ usage' = usage \cup {attempt} /\ UNCHANGED error
    /\ UNCHANGED <<adapter, attempt, last, reset, waited, body>>

(* What an answer says it cost: usage.get and int() raise on anything else *)
(* than an object of numbers, with no code of the adapter's.               *)
UsageCanBeRead == body # "miscounted"

\* Mutant: the answer is judged first, and a faulty one is not recorded.
RecordUsage_judged ==
    /\ pc = "decoded" /\ adapter = "anthropic"
    /\ IF UsageCanBeRead
       THEN /\ usage' = IF body = "good" THEN usage \cup {attempt} ELSE usage
            /\ pc' = "judging" /\ UNCHANGED error
       ELSE Raise(Error("UNCODED", "none", 0)) /\ UNCHANGED usage
    /\ UNCHANGED <<adapter, attempt, last, reset, waited, body>>

(* The model adapter records usage before the answer is judged.            *)
_record_usage ==
    /\ pc = "decoded" /\ adapter = "anthropic"
    /\ IF UsageCanBeRead
       THEN pc' = "judging" /\ usage' = usage \cup {attempt} /\ UNCHANGED error
       ELSE Raise(Error("UNCODED", "none", 0)) /\ UNCHANGED usage
    /\ UNCHANGED <<adapter, attempt, last, reset, waited, body>>

(* A structured answer is parsed as well, and that error counts nothing.   *)
Fault(b) ==
    CASE b = "truncated"  -> Error("RESPONSE_TRUNCATED", "none", 1)
      [] b = "refused"    -> Error("CONTENT_REFUSED", "none", 1)
      [] b = "misshapen"  -> Error("MALFORMED_RESPONSE", "none", 1)
      [] b = "blank"      -> Error("EMPTY_RESPONSE", "2xx", 1)
      [] b = "fence only" -> Error("EMPTY_RESPONSE", "none", 1)
      [] b = "unvalidated" -> Error("VALIDATOR_UNAVAILABLE", "none", 1)
      [] b = "not json"   -> Error("OUTPUT_NOT_JSON", "none", 0)
      [] OTHER            -> Error("OUTPUT_SCHEMA_INVALID", "none", 0)

_text_call ==
    /\ pc = "judging"
    /\ IF body = "good" THEN pc' = "returned" /\ UNCHANGED error
       ELSE Raise(Fault(body))
    /\ UNCHANGED <<adapter, attempt, last, reset, waited, usage, body>>

(* The caller's sink is called without a guard; what it raises replaces    *)
(* the answer, usage or no usage.                                          *)
SinkRaises ==
    /\ pc = "decoded" /\ UsageCanBeRead
    /\ ~(adapter = "brave" /\ body = "misshapen")
    /\ Raise(Error("SINK", "none", 0))
    /\ UNCHANGED <<adapter, attempt, last, reset, waited, usage, body>>

Rest == pc \in {"returned", "raised"} /\ UNCHANGED vars

Attempting ==
    \/ \E code \in TransportCodes : TransportRaises(code)
    \/ \E code \in StatusCodes : FailureStatus(code)
    \/ \E b \in Bodies(adapter) : Answered(b)

Step ==
    \/ Refuse \/ Send \/ Attempting \/ GiveUp \/ Sleep
    \/ _decode_body \/ _web_results \/ _record_usage \/ _text_call \/ SinkRaises

Next == Step \/ Rest

(* Every step is this thread's own, and the transport is called with a     *)
(* timeout.                                                                *)
Spec == Init /\ [][Next]_vars /\ WF_vars(Step)

-----------------------------------------------------------------------------
(* What must hold *)

Codes == TransportCodes \cup StatusCodes \cup AnswerCodes

Errors == [code : Codes \cup {"none", "SINK", "UNCODED"}, attempts : 0 .. max_attempts,
           status : {"none", "2xx", "not 2xx"}]

(* The shape of the state. *)
TypeOK ==
    /\ adapter \in Adapters
    /\ pc \in {"called", "in flight", "failed", "slept", "answered", "decoded",
               "judging", "returned", "raised"}
    /\ attempt \in 0 .. max_attempts
    /\ last \in Errors /\ error \in Errors
    /\ reset \in {NoReset} \cup Resets
    /\ usage \subseteq 1 .. max_attempts
    /\ body \in {"none"} \cup Bodies(adapter)

(* A request leaves again only when the attempt before failed with a code  *)
(* of the policy and no answer arrived: what was answered, however badly,  *)
(* was billed and is never asked for twice (RetryPolicy docstrings).       *)
AnswerIsAskedForOnce ==
    [][attempt' # attempt /\ attempt > 0 => body = "none" /\ last.code \in retry_on]_vars

(* A model call whose answer could be decoded is on record with the        *)
(* requests it took, whatever the answer was refused for afterwards ("a    *)
(* truncated or refused answer was still billed"). What is missing on      *)
(* record was raised to the caller and never returned: an answer whose     *)
(* usage cannot be read as numbers, or one the sink itself raised for. A   *)
(* search call is on record or raised, never both.                         *)
CostIsOnRecord ==
    /\ usage \subseteq {attempt}
    /\ pc = "returned" => usage = {attempt}
    /\ adapter = "anthropic" /\ pc = "raised" /\ usage = {} =>
          \/ body \in {"none", "unreadable", "miscounted"}
          \/ error.code = "SINK"
    /\ adapter = "brave" /\ pc = "raised" => usage = {}

(* A wait fits the failure it follows: what that answer announced is       *)
(* waited out, up to the longest wait, and a failure without an answer     *)
(* waits as planned, whatever an earlier attempt's answer announced.       *)
WaitsFitTheFailure ==
    pc = "slept" =>
        IF last.status = "none" THEN waited = delay_for(attempt, NoReset)
        ELSE respect_reset /\ reset # NoReset =>
                 waited = Smaller(reset, max_backoff_seconds)

(* Every call ends: with an answer or an error. *)
CallEnds == <>(pc \in {"returned", "raised"})
=============================================================================
