---------------------------- MODULE TurnPipeline -----------------------------
(***************************************************************************)
(* The control flow of one turn (engine::pipeline::process_turn, its debug *)
(* twin, and engine::streaming::stream_turn), as far as it does not depend *)
(* on the storage backend. Each stage is the point where a turn is about   *)
(* to await something; the storage modules extend this one and add what    *)
(* acquiring, loading, persisting and releasing do to their state.         *)
(***************************************************************************)
EXTENDS Naturals, FiniteSets, Sequences

CONSTANTS
    Turns,       \* the turn requests clients send to one session
    Streaming    \* those that come in through /turns/stream

ASSUME StreamingAssumption == Streaming \subseteq Turns

VARIABLES
    pc,          \* the stage each turn has reached
    guard,       \* the turn's _guard exists and has not been dropped
    reply,       \* what the client has been answered
    logged       \* the last event row the turn has written

pipelineVars == <<pc, guard, reply, logged>>

-----------------------------------------------------------------------------
\* The steps that only record a pipeline event and go on: the stage, the
\* event type, and the next stage.

\* Mutant: the turn reports itself finished before it is persisted.
HastyEventSteps(t) ==
    LET streamed == t \in Streaming
    IN  { <<"start",      "turn_started",             "acquire">>,
          <<"acquired",   "turn_lock_acquired",       "load">>,
          <<"loaded",     "context_built",            "call">>,
          <<"call",       "provider_called",          "narrate">>,
          <<"narrated",   "provider_responded",
                IF streamed THEN "tokens" ELSE "delta_call">>,
          <<"delta_call", "provider_called",          "extract">>,
          <<"extracted",  "provider_responded",       "parse">>,
          <<"applied",    "delta_applied",            "projected">>,
          <<"projected",  "turn_finished",            "persist">>,
          <<"persisted",  "frontend_state_projected", "releasing">>,
          <<"releasing",  "turn_lock_releasing",      "respond">> }

EventSteps(t) ==
    LET streamed == t \in Streaming
    IN  { <<"start",      "turn_started",             "acquire">>,
          <<"acquired",   "turn_lock_acquired",       "load">>,
          <<"loaded",     "context_built",            "call">>,
          <<"call",       "provider_called",          "narrate">>,
          <<"narrated",   "provider_responded",
                IF streamed THEN "tokens" ELSE "delta_call">>,
          <<"delta_call", "provider_called",          "extract">>,
          <<"extracted",  "provider_responded",       "parse">>,
          <<"applied",    "delta_applied",            "projected">>,
          <<"projected",  "frontend_state_projected", "persist">>,
          <<"persisted",  "turn_finished",            "releasing">>,
          <<"releasing",  "turn_lock_releasing",      "respond">> }

EventStages ==
    {"start", "acquired", "loaded", "call", "narrated", "delta_call",
     "extracted", "applied", "projected", "persisted", "releasing"}

\* Stages at which the turn awaits the provider or the engine itself works.
WorkStages ==
    {"resolve", "narrate", "tokens", "extract", "parse", "repair",
     "validate", "usage", "respond", "closing", "done"}

\* Stages at which the turn calls the lock or the store.
StoreStages ==
    {"acquire", "load", "read_world", "read_messages",
     "persist", "inserted", "updated", "commit_lost"}

Stages == EventStages \cup WorkStages \cup StoreStages

Replies ==
    {"none", "ok", "busy", "notfound", "conflict", "provider", "parse",
     "invalid", "store", "gone"}

\* Answers that tell the client nothing about what was committed.
Ambiguous == {"store", "gone"}

\* What an answer tells the client, in the words of SessionLedger.
VerdictOf(answer) ==
    CASE answer = "none" -> "pending"
      [] answer = "ok" -> "accepted"
      [] answer \in Ambiguous -> "unknown"
      [] OTHER -> "rejected"

Events ==
    {"none", "turn_started", "turn_lock_acquired", "context_built",
     "provider_called", "provider_responded", "delta_applied",
     "frontend_state_projected", "turn_finished", "turn_lock_releasing",
     "turn_error", "provider_stream_idle_timeout", "provider_usage_captured"}

PipelineTypeOK ==
    /\ pc \in [Turns -> Stages]
    /\ guard \in [Turns -> BOOLEAN]
    /\ reply \in [Turns -> Replies]
    /\ logged \in [Turns -> Events]

PipelineInit ==
    /\ pc = [t \in Turns |-> "resolve"]
    /\ guard = [t \in Turns |-> FALSE]
    /\ reply = [t \in Turns |-> "none"]
    /\ logged = [t \in Turns |-> "none"]

-----------------------------------------------------------------------------
\* Moving on, and failing. An error ends a plain turn and drops its guard; a
\* stream first yields the error and drops its guard when it is polled again.

GoTo(t, stage) == pc' = [pc EXCEPT ![t] = stage]

Log(t, event) == logged' = [logged EXCEPT ![t] = event]

Advance(t, from, to) ==
    /\ pc[t] = from
    /\ GoTo(t, to)
    /\ UNCHANGED <<guard, reply, logged>>

Finish(t, answer) ==
    /\ reply' = [reply EXCEPT ![t] = answer]
    /\ GoTo(t, IF t \in Streaming THEN "closing" ELSE "done")
    /\ guard' = [guard EXCEPT ![t] = guard[t] /\ t \in Streaming]

Fail(t, error) == Finish(t, error) /\ UNCHANGED logged

\* A best-effort event: the write's error is ignored.
MayLog(t, event) == \E e \in {event, logged[t]}: Log(t, e)

-----------------------------------------------------------------------------
\* Request handlers: find the session's provider.

ResolveProvider(t) == Advance(t, "resolve", "start")

\* The session names a provider the registry does not hold.
ProviderMissing(t) == pc[t] = "resolve" /\ Fail(t, "conflict")

\* Only the non-streaming handlers refuse an unknown session here.
SessionUnknown(t) ==
    /\ pc[t] = "resolve"
    /\ t \notin Streaming
    /\ Fail(t, "notfound")

-----------------------------------------------------------------------------
\* Pipeline events.

RecordEvent(t) ==
    \E step \in EventSteps(t):
        /\ pc[t] = step[1]
        /\ Log(t, step[2])
        /\ GoTo(t, step[3])
        /\ UNCHANGED <<guard, reply>>

EventFailed(t) == pc[t] \in EventStages /\ Fail(t, "store")

-----------------------------------------------------------------------------
\* The lock and the loaded state; what they do to the store is added there.

Acquired(t) ==
    /\ pc[t] = "acquire"
    /\ GoTo(t, "acquired")
    /\ guard' = [guard EXCEPT ![t] = TRUE]
    /\ UNCHANGED <<reply, logged>>

Refused(t) == pc[t] = "acquire" /\ Fail(t, "busy")

-----------------------------------------------------------------------------
\* Provider calls.

Narrate(t) == Advance(t, "narrate", "narrated")

\* A stream that cannot be opened may leave an idle-timeout event behind.
NarrateFailed(t) ==
    /\ pc[t] = "narrate"
    /\ IF t \in Streaming
       THEN MayLog(t, "provider_stream_idle_timeout")
       ELSE UNCHANGED logged
    /\ Finish(t, "provider")

StreamTokens(t) == Advance(t, "tokens", "extract")

StreamBroken(t) ==
    /\ pc[t] = "tokens"
    /\ MayLog(t, "provider_stream_idle_timeout")
    /\ Finish(t, "provider")

ExtractDelta(t) ==
    Advance(t, "extract", IF t \in Streaming THEN "parse" ELSE "extracted")

\* A plain turn just returns the error; a stream tries to record it first.
ExtractFailed(t) ==
    /\ pc[t] = "extract"
    /\ t \notin Streaming
    /\ Fail(t, "provider")

StreamExtractFailed(t) ==
    /\ pc[t] = "extract"
    /\ t \in Streaming
    /\ Log(t, "turn_error")
    /\ Finish(t, "provider")

ExtractErrorLost(t) ==
    /\ pc[t] = "extract"
    /\ t \in Streaming
    /\ Fail(t, "provider")

-----------------------------------------------------------------------------
\* finalize_turn_delta: parse, repair once, validate and reduce.

ParseDelta(t) == \E next \in {"validate", "repair"}: Advance(t, "parse", next)

\* Mutant: the repaired text is parsed, and if need be repaired, like the first.
RepairAgain(t) == Advance(t, "repair", "parse")

RepairDelta(t) == Advance(t, "repair", "validate")

RepairCallFailed(t) == pc[t] = "repair" /\ Fail(t, "provider")

\* The repaired text does not parse either: the error is recorded, and if
\* that fails the storage error takes its place.
RepairUnusable(t) ==
    /\ pc[t] = "repair"
    /\ Log(t, "turn_error")
    /\ Finish(t, "parse")

RepairErrorLost(t) == pc[t] = "repair" /\ Fail(t, "store")

ValidateDelta(t) ==
    Advance(t, "validate", IF t \in Streaming THEN "usage" ELSE "applied")

DeltaInvalid(t) == pc[t] = "validate" /\ Fail(t, "invalid")

\* Usage metadata, if the provider sent any, is recorded as best effort.
CaptureUsage(t) ==
    /\ pc[t] = "usage"
    /\ MayLog(t, "provider_usage_captured")
    /\ GoTo(t, "applied")
    /\ UNCHANGED <<guard, reply>>

-----------------------------------------------------------------------------
\* The end of a turn.

Respond(t) ==
    /\ pc[t] = "respond"
    /\ Finish(t, "ok")
    /\ UNCHANGED logged

\* The stream is polled past its last item and drops what it owns.
CloseStream(t) ==
    /\ pc[t] = "closing"
    /\ GoTo(t, "done")
    /\ guard' = [guard EXCEPT ![t] = FALSE]
    /\ UNCHANGED <<reply, logged>>

\* Turns whose future or stream is dropped, or whose process dies: they stop
\* where they are, and a client not answered by then never is.
Vanish(gone) ==
    /\ pc' = [t \in Turns |-> IF t \in gone THEN "done" ELSE pc[t]]
    /\ guard' = [t \in Turns |-> guard[t] /\ t \notin gone]
    /\ reply' = [t \in Turns |-> IF t \in gone /\ reply[t] = "none"
                                 THEN "gone" ELSE reply[t]]
    /\ UNCHANGED logged

Cancel(t) == pc[t] # "done" /\ Vanish({t})

\* The steps a storage backend has no part in, but for best-effort events.
EngineStep(t) ==
    \/ Narrate(t) \/ NarrateFailed(t) \/ StreamTokens(t) \/ StreamBroken(t)
    \/ ExtractDelta(t) \/ ExtractFailed(t)
    \/ ParseDelta(t) \/ RepairDelta(t) \/ RepairCallFailed(t)
    \/ ValidateDelta(t) \/ DeltaInvalid(t) \/ CaptureUsage(t)
    \/ Respond(t) \/ CloseStream(t)

=============================================================================
