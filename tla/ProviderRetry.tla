--------------------------- MODULE ProviderRetry ---------------------------
(***************************************************************************)
(* The request of a provider's call (generate or stream) under             *)
(* with_retries: it is repeated after errors that may pass, with a backoff *)
(* computed in u64.  How long the backoff is is left out; that its shift   *)
(* or its product overflows is not, and is modelled on the bits of the     *)
(* word.                                                                   *)
(***************************************************************************)
EXTENDS Integers

CONSTANTS
    MaxRetries,     \* the provider's max_retries, a u8: 0..255
    Checked         \* the build panics on overflow

VARIABLES
    call,       \* "generate", "stream"
    streaming,  \* capabilities.supports_streaming
    attempt,    \* counts from 0
    state       \* "calling", "sleeping", "ok", "gave_up", "unsupported", "panicked", "dropped"

vars == <<call, streaming, attempt, state>>

max_attempts == MaxRetries + 1

-----------------------------------------------------------------------------
(* What the server replies, external, and what a request makes of it.      *)

\* No connection, no answer in time, a status; or a 200 whose body breaks off
\* or is late, is no JSON, has no text, or is as it should be.
Replies == {"refused", "late", "429", "5xx", "4xx", "body_lost", "no_json", "no_text", "text"}

map_reqwest_error(reply) == IF reply = "late" THEN "timeout" ELSE "transport"

\* 408 is one of the 4xx.
StatusError(reply) ==
    CASE reply = "429" -> "rate_limit"
      [] reply = "5xx" -> "status_5xx"
      [] reply = "4xx" -> "status_4xx"

post_chat(reply) ==
    CASE reply \in {"refused", "late"} -> map_reqwest_error(reply)
      [] reply \in {"429", "5xx", "4xx"} -> StatusError(reply)
      [] OTHER -> "ok"

\* Whatever happens to the body is a malformed response.
TextOf(reply) == IF reply = "text" THEN "ok" ELSE "malformed_response"

try_generate(reply) == IF post_chat(reply) = "ok" THEN TextOf(reply) ELSE post_chat(reply)

\* The body is left to the stream.
try_stream_response(reply) == post_chat(reply)

op(reply) == IF call = "generate" THEN try_generate(reply) ELSE try_stream_response(reply)

is_retryable(error) == error \in {"transport", "timeout", "rate_limit", "status_5xx"}

-----------------------------------------------------------------------------
(* 100 * (1 << n): a u64 is the set of its bits.                           *)

Word == 0..63
Hundred == {2, 5, 6}

ShiftOverflows(n) == n > 63

\* Without overflow checks the amount of the shift is taken modulo the width.
Product(n) == {bit + (n % 64) : bit \in Hundred}

Overflows(n) == ShiftOverflows(n) \/ Product(n) \ Word # {}

-----------------------------------------------------------------------------
Init ==
    /\ call \in {"generate", "stream"}
    /\ streaming \in BOOLEAN
    /\ attempt = 0
    /\ state = "calling"

Asks == state = "calling" /\ (call = "stream" => streaming)

\* A provider that does not stream says so before it asks for anything.
RefuseToStream ==
    /\ state = "calling"
    /\ call = "stream" /\ ~ streaming
    /\ state' = "unsupported"
    /\ UNCHANGED <<call, streaming, attempt>>

\* The function returns, and with it goes what the loop has counted.
Succeed ==
    /\ Asks
    /\ \E reply \in Replies : op(reply) = "ok"
    /\ state' = "ok"
    /\ attempt' = 0
    /\ UNCHANGED <<call, streaming>>

GiveUp ==
    /\ Asks
    /\ \E reply \in Replies :
          /\ op(reply) # "ok"
          /\ ~ is_retryable(op(reply)) \/ attempt + 1 = max_attempts
    /\ state' = "gave_up"
    /\ attempt' = 0
    /\ UNCHANGED <<call, streaming>>

\* Mutant: the last attempt is no different.
BackOffAlways ==
    /\ Asks
    /\ \E reply \in Replies : is_retryable(op(reply))
    /\ state' = "sleeping"
    /\ UNCHANGED <<call, streaming, attempt>>

BackOff ==
    /\ Asks
    /\ \E reply \in Replies : is_retryable(op(reply))
    /\ attempt + 1 < max_attempts
    /\ state' = IF Checked /\ Overflows(attempt) THEN "panicked" ELSE "sleeping"
    /\ UNCHANGED <<call, streaming, attempt>>

\* Mutant: attempts are not counted.
WakeUncounted ==
    /\ state = "sleeping"
    /\ state' = "calling"
    /\ UNCHANGED <<call, streaming, attempt>>

Wake ==
    /\ state = "sleeping"
    /\ attempt' = attempt + 1
    /\ state' = "calling"
    /\ UNCHANGED <<call, streaming>>

\* The turn that made the call goes away, and its future with it.
Drop ==
    /\ state \in {"calling", "sleeping"}
    /\ state' = "dropped"
    /\ UNCHANGED <<call, streaming, attempt>>

Next == RefuseToStream \/ Succeed \/ GiveUp \/ BackOff \/ Wake \/ Drop

\* A panic is no answer: the turn's task dies of it.
Over == {"ok", "gave_up", "unsupported", "dropped"}

TypeOK ==
    /\ call \in {"generate", "stream"}
    /\ streaming \in BOOLEAN
    /\ attempt \in 0..MaxRetries
    /\ state \in {"calling", "sleeping", "panicked"} \union Over

=============================================================================
