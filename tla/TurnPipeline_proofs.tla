------------------------- MODULE TurnPipeline_proofs -------------------------
(***************************************************************************)
(* Lemmas about the steps of TurnPipeline, for whatever storage the turns  *)
(* work on: what each step leaves of the type invariant, and how little    *)
(* it can do to the guards, the answers and the stages of the turns.       *)
(***************************************************************************)
EXTENDS TurnPipeline, TLAPS

-----------------------------------------------------------------------------
\* Type correctness.

LEMMA EventStepsType ==
    ASSUME NEW t \in Turns, NEW step \in EventSteps(t)
    PROVE  step[1] \in EventStages /\ step[2] \in Events /\ step[3] \in Stages
  BY DEF EventSteps, EventStages, Events, Stages, WorkStages, StoreStages

LEMMA AdvanceType ==
    ASSUME PipelineTypeOK, NEW t \in Turns, NEW from, NEW to \in Stages,
           Advance(t, from, to)
    PROVE  PipelineTypeOK'
  BY DEF PipelineTypeOK, Advance, GoTo

LEMMA FinishType ==
    ASSUME PipelineTypeOK, NEW t \in Turns, NEW error \in Replies,
           Finish(t, error), logged' \in [Turns -> Events]
    PROVE  PipelineTypeOK'
  BY DEF PipelineTypeOK, Finish, GoTo, Stages, WorkStages

LEMMA FailType ==
    ASSUME PipelineTypeOK, NEW t \in Turns, NEW error \in Replies, Fail(t, error)
    PROVE  PipelineTypeOK'
  BY FinishType DEF PipelineTypeOK, Fail

LEMMA LogType ==
    ASSUME PipelineTypeOK, NEW t \in Turns, NEW event \in Events,
           Log(t, event) \/ MayLog(t, event)
    PROVE  logged' \in [Turns -> Events]
  BY DEF PipelineTypeOK, Log, MayLog

LEMMA VanishType ==
    ASSUME PipelineTypeOK, NEW gone, Vanish(gone)
    PROVE  PipelineTypeOK'
  BY DEF PipelineTypeOK, Vanish, Stages, WorkStages, Replies

LEMMA RecordEventType ==
    ASSUME PipelineTypeOK, NEW t \in Turns, RecordEvent(t)
    PROVE  PipelineTypeOK'
  <1>1. PICK step \in EventSteps(t): Log(t, step[2]) /\ GoTo(t, step[3])
    BY DEF RecordEvent
  <1>2. step[2] \in Events /\ step[3] \in Stages
    BY EventStepsType
  <1>3. QED
    BY <1>1, <1>2 DEF PipelineTypeOK, RecordEvent, Log, GoTo

LEMMA EngineStepType ==
    ASSUME PipelineTypeOK, NEW t \in Turns, EngineStep(t)
    PROVE  PipelineTypeOK'
  <1> USE DEF Stages, WorkStages, EventStages, Replies
  <1>1. CASE Narrate(t)
    BY <1>1, AdvanceType DEF Narrate
  <1>2. CASE NarrateFailed(t)
    BY <1>2, FinishType, LogType DEF NarrateFailed, PipelineTypeOK, Events
  <1>3. CASE StreamTokens(t)
    BY <1>3, AdvanceType DEF StreamTokens
  <1>4. CASE StreamBroken(t)
    BY <1>4, FinishType, LogType DEF StreamBroken, Events
  <1>5. CASE ExtractDelta(t)
    BY <1>5, AdvanceType DEF ExtractDelta
  <1>6. CASE ExtractFailed(t)
    BY <1>6, FailType DEF ExtractFailed
  <1>7. CASE ParseDelta(t)
    BY <1>7, AdvanceType DEF ParseDelta
  <1>8. CASE RepairDelta(t)
    BY <1>8, AdvanceType DEF RepairDelta
  <1>9. CASE RepairCallFailed(t)
    BY <1>9, FailType DEF RepairCallFailed
  <1>10. CASE ValidateDelta(t)
    BY <1>10, AdvanceType DEF ValidateDelta
  <1>11. CASE DeltaInvalid(t)
    BY <1>11, FailType DEF DeltaInvalid
  <1>12. CASE CaptureUsage(t)
    BY <1>12, LogType DEF CaptureUsage, PipelineTypeOK, GoTo, Events
  <1>13. CASE Respond(t)
    BY <1>13 DEF Respond, Finish, GoTo, PipelineTypeOK
  <1>14. CASE CloseStream(t)
    BY <1>14 DEF CloseStream, GoTo, PipelineTypeOK
  <1>15. QED
    BY <1>1, <1>2, <1>3, <1>4, <1>5, <1>6, <1>7, <1>8, <1>9, <1>10, <1>11,
       <1>12, <1>13, <1>14 DEF EngineStep

-----------------------------------------------------------------------------
\* The stages of a turn, by what it has done to the store. Nothing is
\* committed in the first two, the turn has loaded its context in the second,
\* it has committed in the third, and has answered in the last.

Unloaded ==
    {"resolve", "start", "acquire", "acquired", "load", "read_world", "read_messages"}

Loaded ==
    {"loaded", "call", "narrate", "narrated", "tokens", "delta_call", "extract",
     "extracted", "parse", "repair", "validate", "usage", "applied", "projected",
     "persist"}

InTransaction == {"inserted", "updated"}

PostCommit == {"persisted", "releasing", "respond", "commit_lost"}

Ended == {"closing", "done"}

Refusals == {"busy", "notfound", "conflict", "provider", "parse", "invalid"}

\* All that a step of t that neither touches the store nor acquires can do.
Moves(t) ==
    \/ /\ pc[t] \in Unloaded /\ pc'[t] \in Unloaded
       /\ reply'[t] = reply[t]
    \/ /\ pc[t] \in Loaded /\ pc'[t] \in Loaded
       /\ reply'[t] = reply[t]
    \/ /\ pc[t] \in PostCommit /\ pc'[t] \in PostCommit
       /\ reply'[t] = reply[t]
    \/ /\ pc[t] \notin Ended /\ pc'[t] \in Ended
       /\ \/ reply'[t] = "ok" /\ pc[t] = "respond"
          \/ reply'[t] \in Refusals /\ pc[t] \in Unloaded \cup Loaded
          \/ reply'[t] \in Ambiguous
    \/ /\ pc[t] \in Ended /\ pc'[t] \in Ended
       /\ reply'[t] = reply[t]

PipelineMove(t) ==
    /\ \A u \in Turns \ {t}:
           pc'[u] = pc[u] /\ guard'[u] = guard[u] /\ reply'[u] = reply[u]
    /\ guard'[t] => guard[t]
    /\ Moves(t)

LEMMA FinishMove ==
    ASSUME PipelineTypeOK, NEW t \in Turns, NEW error, Finish(t, error),
           \/ error \in Refusals /\ pc[t] \in Unloaded \cup Loaded
           \/ error \in Ambiguous /\ pc[t] \notin Ended
    PROVE  PipelineMove(t)
  BY DEF PipelineTypeOK, PipelineMove, Moves, Finish, GoTo,
         Unloaded, Loaded, Ended

LEMMA FailMove ==
    ASSUME PipelineTypeOK, NEW t \in Turns, NEW error, Fail(t, error),
           \/ error \in Refusals /\ pc[t] \in Unloaded \cup Loaded
           \/ error \in Ambiguous /\ pc[t] \notin Ended
    PROVE  PipelineMove(t)
  BY FinishMove DEF Fail

LEMMA AdvanceMove ==
    ASSUME PipelineTypeOK, NEW t \in Turns, NEW from, NEW to, Advance(t, from, to),
           \/ from \in Unloaded /\ to \in Unloaded
           \/ from \in Loaded /\ to \in Loaded
           \/ from \in PostCommit /\ to \in PostCommit
    PROVE  PipelineMove(t)
  BY DEF PipelineTypeOK, PipelineMove, Moves, Advance, GoTo

LEMMA RecordEventMove ==
    ASSUME PipelineTypeOK, NEW t \in Turns, RecordEvent(t)
    PROVE  PipelineMove(t)
  <1>1. PICK step \in EventSteps(t):
            /\ pc[t] = step[1]
            /\ GoTo(t, step[3])
            /\ UNCHANGED <<guard, reply>>
    BY DEF RecordEvent
  <1>2. \/ step[1] \in Unloaded /\ step[3] \in Unloaded
        \/ step[1] \in Loaded /\ step[3] \in Loaded
        \/ step[1] \in PostCommit /\ step[3] \in PostCommit
    BY DEF EventSteps, Unloaded, Loaded, PostCommit
  <1>3. QED
    BY <1>1, <1>2 DEF PipelineTypeOK, PipelineMove, Moves, GoTo

LEMMA EventFailedMove ==
    ASSUME PipelineTypeOK, NEW t \in Turns, EventFailed(t)
    PROVE  PipelineMove(t)
  BY FailMove DEF EventFailed, Ambiguous, Ended, EventStages

LEMMA CancelMove ==
    ASSUME PipelineTypeOK, NEW t \in Turns, Vanish({t}),
           pc[t] \in Ended <=> reply[t] # "none"
    PROVE  PipelineMove(t)
  <1>1. \A u \in Turns \ {t}: pc'[u] = pc[u] /\ reply'[u] = reply[u]
    BY DEF PipelineTypeOK, Vanish
  <1>2. \A u \in Turns: guard'[u] <=> guard[u] /\ u # t
    BY DEF PipelineTypeOK, Vanish
  <1>3. \A u \in Turns: guard[u] \in BOOLEAN /\ guard'[u] \in BOOLEAN
    BY DEF PipelineTypeOK, Vanish
  <1>4. guard'[t] => guard[t]
    BY <1>2
  <1>5. \A u \in Turns \ {t}: guard'[u] = guard[u]
    BY <1>2, <1>3
  <1>6. Moves(t)
    BY DEF PipelineTypeOK, Moves, Vanish, Ambiguous, Ended
  <1>7. QED
    BY <1>1, <1>4, <1>5, <1>6 DEF PipelineMove

LEMMA EngineStepMove ==
    ASSUME PipelineTypeOK, NEW t \in Turns, EngineStep(t)
    PROVE  PipelineMove(t)
  <1> USE DEF Unloaded, Loaded, PostCommit, Refusals
  <1>1. CASE Narrate(t)
    BY <1>1, AdvanceMove DEF Narrate
  <1>2. CASE NarrateFailed(t)
    BY <1>2, FinishMove DEF NarrateFailed
  <1>3. CASE StreamTokens(t)
    BY <1>3, AdvanceMove DEF StreamTokens
  <1>4. CASE StreamBroken(t)
    BY <1>4, FinishMove DEF StreamBroken
  <1>5. CASE ExtractDelta(t)
    BY <1>5, AdvanceMove DEF ExtractDelta
  <1>6. CASE ExtractFailed(t)
    BY <1>6, FailMove DEF ExtractFailed
  <1>7. CASE ParseDelta(t)
    BY <1>7, AdvanceMove DEF ParseDelta
  <1>8. CASE RepairDelta(t)
    BY <1>8, AdvanceMove DEF RepairDelta
  <1>9. CASE RepairCallFailed(t)
    BY <1>9, FailMove DEF RepairCallFailed
  <1>10. CASE ValidateDelta(t)
    BY <1>10, AdvanceMove DEF ValidateDelta
  <1>11. CASE DeltaInvalid(t)
    BY <1>11, FailMove DEF DeltaInvalid
  <1>12. CASE CaptureUsage(t)
    BY <1>12 DEF CaptureUsage, PipelineTypeOK, GoTo, PipelineMove, Moves
  <1>13. CASE Respond(t)
    BY <1>13 DEF Respond, Finish, GoTo, PipelineTypeOK, PipelineMove, Moves, Ended
  <1>14. CASE CloseStream(t)
    BY <1>14 DEF CloseStream, GoTo, PipelineTypeOK, PipelineMove, Moves, Ended
  <1>15. QED
    BY <1>1, <1>2, <1>3, <1>4, <1>5, <1>6, <1>7, <1>8, <1>9, <1>10, <1>11,
       <1>12, <1>13, <1>14 DEF EngineStep

=============================================================================
