------------------------ MODULE PostgresSession_proofs ------------------------
(***************************************************************************)
(* Proofs about PostgresSession for any number of turns and processes, any *)
(* distribution of the turns over them, with and without storage faults:   *)
(* its lock, its history, the promise of SessionLedger and its log.        *)
(***************************************************************************)
EXTENDS PostgresSession, TurnPipeline_proofs, FiniteSetTheorems, SequenceTheorems

-----------------------------------------------------------------------------
\* The steps of a turn that leave the session's rows alone.

PipelineStep(t) ==
    \/ Resolve(t) \/ Event(t) \/ Engine(t) \/ ErrorEvent(t) \/ StoreFault(t)
    \/ AcquireRefused(t) \/ ReadSession(t) \/ CommitLost(t) \/ Disconnect(t)

\* The others, and everything else that happens.
StoreStep(t) ==
    \/ Acquire(t) \/ ReleaseStep(t) \/ StrayStep(t)
    \/ ReadWorldState(t) \/ ReadMessages(t)
    \/ BeginAndInsert(t) \/ UpdateWorldState(t) \/ Commit(t)

LEMMA NextCases ==
    Next <=> \/ \E t \in Turns: PipelineStep(t) \/ StoreStep(t)
             \/ \E p \in Processes: Crash(p)
             \/ FiveMinutesPass
             \/ DeleteSession
  BY DEF Next, TurnStep, PipelineStep, StoreStep

\* What they may leave behind, like a crash: a COMMIT on its way.
CommitsLeft ==
    /\ strayCommits \subseteq strayCommits'
    /\ \A t \in strayCommits' \ strayCommits:
          /\ t \in Turns /\ pc[t] = "updated"
          /\ pc'[t] \in Ended
          /\ reply[t] = "none" => reply'[t] \in Ambiguous

RowsKept ==
    /\ UNCHANGED <<exists, processing_turn, started_at, overran, version, deltas,
                   clock, loadVars>>
    /\ strayLocks' \in SUBSET Turns
    /\ CommitsLeft

LEMMA PipelineOnlyKeeps ==
    ASSUME TypeOK, PipelineOnly
    PROVE  RowsKept /\ ReleaseDropped
  BY DEF PipelineOnly, RowsKept, CommitsLeft, TypeOK, claimVars, storeVars

LEMMA StoppedKeeps ==
    ASSUME TypeOK, NEW gone \in SUBSET Turns, StopWaiting(gone),
           \A t \in gone: /\ pc'[t] \in Ended
                          /\ reply[t] = "none" => reply'[t] \in Ambiguous
    PROVE  RowsKept
  <1>1. PICK sent \in SUBSET {t \in gone: pc[t] = "acquire"}:
                strayLocks' = strayLocks \cup sent
    BY DEF StopWaiting
  <1>2. PICK sent2 \in SUBSET {t \in gone: pc[t] = "updated"}:
                strayCommits' = strayCommits \cup sent2
    BY DEF StopWaiting
  <1>3. strayLocks' \in SUBSET Turns
    BY <1>1 DEF TypeOK
  <1>4. \A t \in sent2: t \in gone /\ t \in Turns /\ pc[t] = "updated"
    BY <1>2
  <1>5. \A t \in strayCommits' \ strayCommits: t \in sent2
    BY <1>2
  <1>6. CommitsLeft
    BY <1>2, <1>4, <1>5 DEF CommitsLeft
  <1>7. QED
    BY <1>3, <1>6 DEF StopWaiting, RowsKept

LEMMA PipelineStepKeeps ==
    ASSUME TypeOK, NEW t \in Turns, PipelineStep(t)
    PROVE  RowsKept /\ ReleaseDropped
  <1>1. CASE StoreFault(t)
    <2>1. pc'[t] \in Ended /\ reply'[t] \in Ambiguous
      BY <1>1 DEF StoreFault, Fail, Finish, GoTo, Ended, Ambiguous, TypeOK, PipelineTypeOK
    <2>2. QED
      BY <1>1, <2>1, StoppedKeeps DEF StoreFault
  <1>2. CASE Disconnect(t)
    <2>1. /\ pc'[t] \in Ended
          /\ reply[t] = "none" => reply'[t] \in Ambiguous
      BY <1>2 DEF Disconnect, Cancel, Vanish, Ended, Ambiguous
    <2>2. QED
      BY <1>2, <2>1, StoppedKeeps DEF Disconnect
  <1>3. CASE PipelineOnly
    BY <1>3, PipelineOnlyKeeps
  <1>4. QED
    BY <1>1, <1>2, <1>3
       DEF PipelineStep, Resolve, Event, Engine, ErrorEvent, AcquireRefused, ReadSession,
           CommitLost

\* A crash leaves as much, and the releases that were sent.
LEMMA CrashKeeps ==
    ASSUME TypeOK, NEW p \in Processes, Crash(p)
    PROVE  RowsKept /\ releases' \in SUBSET releases
  <1> DEFINE lost == {t \in Turns: Host[t] = p}
  <1>1. Vanish(lost) /\ StopWaiting(lost)
    BY DEF Crash
  <1>2. \A t \in lost: /\ pc'[t] \in Ended
                       /\ reply[t] = "none" => reply'[t] \in Ambiguous
    BY <1>1 DEF Vanish, Ended, Ambiguous
  <1>3. releases' \in SUBSET releases
    BY DEF Crash
  <1> HIDE DEF lost
  <1>4. lost \in SUBSET Turns
    BY DEF lost
  <1>5. QED
    BY <1>1, <1>2, <1>3, <1>4, StoppedKeeps

LEMMA PipelineStepType ==
    ASSUME TypeOK, NEW t \in Turns, PipelineStep(t)
    PROVE  PipelineTypeOK'
  <1> USE DEF TypeOK, Stages, WorkStages, StoreStages, EventStages, Replies
  <1>1. CASE Resolve(t)
    BY <1>1, AdvanceType, FailType
       DEF Resolve, ResolveProvider, ProviderMissing, SessionUnknown
  <1>2. CASE Event(t)
    BY <1>2, RecordEventType, FailType DEF Event, EventFailed
  <1>3. CASE Engine(t)
    BY <1>3, EngineStepType DEF Engine
  <1>4. CASE ErrorEvent(t)
    <2> USE DEF Events
    <2>1. CASE RepairUnusable(t)
      BY <2>1, FinishType, LogType DEF RepairUnusable
    <2>2. CASE StreamExtractFailed(t)
      BY <2>2, FinishType, LogType DEF StreamExtractFailed
    <2>3. CASE RepairErrorLost(t)
      BY <2>3, FailType DEF RepairErrorLost
    <2>4. CASE ExtractErrorLost(t)
      BY <2>4, FailType DEF ExtractErrorLost
    <2>5. QED
      BY <1>4, <2>1, <2>2, <2>3, <2>4 DEF ErrorEvent
  <1>5. CASE StoreFault(t)
    BY <1>5, FailType DEF StoreFault
  <1>6. CASE AcquireRefused(t)
    BY <1>6, FailType DEF AcquireRefused, Refused
  <1>7. CASE ReadSession(t)
    BY <1>7, AdvanceType, FailType DEF ReadSession
  <1>8. CASE CommitLost(t)
    BY <1>8, FailType DEF CommitLost
  <1>9. CASE Disconnect(t)
    BY <1>9, VanishType DEF Disconnect, Cancel
  <1>10. QED
    BY <1>1, <1>2, <1>3, <1>4, <1>5, <1>6, <1>7, <1>8, <1>9 DEF PipelineStep

\* The row a COMMIT makes visible.
Row(t) == [turn |-> t, base |-> base[t], seen |-> seen[t], stamp |-> stamp[t]]

LEMMA StoredType ==
    ASSUME TypeOK, NEW t \in Turns, StoreTurn(t)
    PROVE  /\ version' \in Nat /\ deltas' \in Seq(Delta)
           /\ deltas' = Append(deltas, Row(t))
           /\ Len(deltas') = Len(deltas) + 1 /\ Len(deltas) \in Nat
           /\ deltas'[Len(deltas) + 1] = Row(t)
           /\ \A i \in 1..Len(deltas): deltas'[i] = deltas[i]
           /\ \A i \in 1..Len(deltas'): i \in 1..Len(deltas) \/ i = Len(deltas) + 1
  <1>1. deltas' = Append(deltas, Row(t)) /\ version' = base[t] + 1
    BY DEF StoreTurn, Row
  <1>2. Row(t) \in Delta
    BY DEF Row, Delta, TypeOK
  <1>3. deltas \in Seq(Delta) /\ base[t] \in Nat
    BY DEF TypeOK
  <1>4. deltas' \in Seq(Delta) /\ Len(deltas') = Len(deltas) + 1 /\ Len(deltas) \in Nat
    BY <1>1, <1>2, <1>3
  <1>5. \A i \in 1..Len(deltas'): i \in 1..Len(deltas) \/ i = Len(deltas) + 1
    BY <1>4
  <1> HIDE DEF Row
  <1>6. QED
    BY <1>1, <1>2, <1>3, <1>4, <1>5

LEMMA StoreStepType ==
    ASSUME TypeOK, NEW t \in Turns, StoreStep(t)
    PROVE  TypeOK'
  <1> USE DEF TypeOK, Ages, Delta, storeVars, lockVars, claimVars, loadVars,
              pipelineVars, Stages, WorkStages, StoreStages, EventStages, Replies
  <1>1. CASE Acquire(t)
    BY <1>1 DEF Acquire, Acquired, TakeLock, GoTo, PipelineTypeOK
  <1>2. CASE StrayAcquire(t)
    BY <1>2 DEF StrayAcquire, Acquirable, PipelineTypeOK
  <1>3. CASE ReleaseStep(t)
    BY <1>3 DEF ReleaseStep, RunRelease, ReleaseFails, ClearLock, PipelineTypeOK
  <1>4. CASE ReadWorldState(t)
    BY <1>4, AdvanceType, FailType DEF ReadWorldState, ReleaseDropped
  <1>5. CASE ReadMessages(t)
    BY <1>5, AdvanceType DEF ReadMessages
  <1>6. CASE BeginAndInsert(t)
    <2>1. PipelineTypeOK'
      BY <1>6, AdvanceType, FailType DEF BeginAndInsert
    <2>2. \/ stamp' = [stamp EXCEPT ![t] = clock] /\ clock' = clock + 1
          \/ stamp' = stamp /\ clock' = clock
      BY <1>6 DEF BeginAndInsert
    <2>3. QED
      BY <1>6, <2>1, <2>2 DEF BeginAndInsert, ReleaseDropped
  <1>7. CASE UpdateWorldState(t)
    BY <1>7, AdvanceType, FailType DEF UpdateWorldState, PipelineOnly, ReleaseDropped
  <1>8. CASE Commit(t)
    <2>1. PipelineTypeOK'
      BY <1>8, AdvanceType DEF Commit
    <2>2. version' \in Nat /\ deltas' \in Seq(Delta)
      BY <1>8, StoredType DEF Commit
    <2>3. QED
      BY <1>8, <2>1, <2>2 DEF Commit
  <1>9. CASE StrayCommit(t)
    <2>1. version' \in Nat /\ deltas' \in Seq(Delta)
      BY <1>9, StoredType DEF StrayCommit
    <2>2. QED
      BY <1>9, <2>1 DEF StrayCommit, PipelineTypeOK
  <1>10. QED
    BY <1>1, <1>2, <1>3, <1>4, <1>5, <1>6, <1>7, <1>8, <1>9 DEF StoreStep, StrayStep

\* Every variable keeps its type.
THEOREM TypeCorrect == Spec => []TypeOK
  <1>1. Init => TypeOK
    <2>1. PipelineInit => PipelineTypeOK
      BY DEF PipelineInit, PipelineTypeOK, Stages, WorkStages, Replies, Events
    <2>2. <<>> \in Seq(Delta)
      OBVIOUS
    <2>3. Init => deltas \in Seq(Delta)
      BY <2>2 DEF Init
    <2>4. ASSUME Init
          PROVE  /\ exists \in BOOLEAN /\ processing_turn \in BOOLEAN
                 /\ started_at \in Ages /\ releases \in SUBSET Turns
                 /\ strayLocks \in SUBSET Turns /\ strayCommits \in SUBSET Turns
                 /\ overran \in BOOLEAN
                 /\ version \in Nat /\ clock \in Nat
      BY <2>4 DEF Init, Ages
    <2>5. ASSUME Init
          PROVE  /\ base \in [Turns -> Nat] /\ seen \in [Turns -> Nat]
                 /\ stamp \in [Turns -> Nat]
      BY <2>5 DEF Init
    <2>6. Init => PipelineInit
      BY DEF Init
    <2>7. QED
      BY <2>1, <2>3, <2>4, <2>5, <2>6 DEF TypeOK
  <1>2. TypeOK /\ [Next]_vars => TypeOK'
    <2> SUFFICES ASSUME TypeOK, [Next]_vars
                 PROVE  TypeOK'
      OBVIOUS
    <2>1. CASE \E t \in Turns: PipelineStep(t)
      <3>1. PipelineTypeOK' /\ RowsKept /\ ReleaseDropped
        BY <2>1, PipelineStepType, PipelineStepKeeps
      <3>2. QED
        BY <3>1 DEF ReleaseDropped, RowsKept, CommitsLeft, TypeOK, loadVars
    <2>2. CASE \E t \in Turns: StoreStep(t)
      BY <2>2, StoreStepType
    <2>3. CASE \E p \in Processes: Crash(p)
      <3>1. PICK p \in Processes: Crash(p)
        BY <2>3
      <3>2. PipelineTypeOK'
        BY <3>1, VanishType DEF Crash, TypeOK
      <3>3. RowsKept /\ releases' \in SUBSET releases
        BY <3>1, CrashKeeps
      <3>4. QED
        BY <3>2, <3>3 DEF RowsKept, CommitsLeft, TypeOK, loadVars
    <2>4. CASE FiveMinutesPass
      BY <2>4 DEF FiveMinutesPass, TypeOK, PipelineTypeOK, Ages, pipelineVars,
                  storeVars, loadVars
    <2>5. CASE DeleteSession
      <3>1. PipelineTypeOK'
        BY <2>5 DEF DeleteSession, TypeOK, PipelineTypeOK, Events
      <3>2. <<>> \in Seq(Delta)
        OBVIOUS
      <3>3. deltas' \in Seq(Delta)
        BY <2>5, <3>2 DEF DeleteSession
      <3>4. QED
        BY <2>5, <3>1, <3>3 DEF DeleteSession, ClearLock, TypeOK, Ages, loadVars
    <2>6. CASE UNCHANGED vars
      BY <2>6 DEF vars, TypeOK, PipelineTypeOK, pipelineVars, storeVars, lockVars,
                  claimVars, loadVars
    <2>7. QED
      BY <2>1, <2>2, <2>3, <2>4, <2>5, <2>6, NextCases
  <1>3. QED
    BY <1>1, <1>2, PTL DEF Spec

-----------------------------------------------------------------------------
\* What the pipeline steps can do to guards, answers and stages. A turn that
\* has been answered has ended, and the other way round.

AnswerInv == \A t \in Turns: pc[t] \in Ended <=> reply[t] # "none"

LEMMA PipelineStepMove ==
    ASSUME TypeOK, AnswerInv, NEW t \in Turns, PipelineStep(t)
    PROVE  PipelineMove(t)
  <1> USE DEF TypeOK, Unloaded, Loaded, PostCommit, Ended, Refusals, Ambiguous
  <1>1. CASE Resolve(t)
    BY <1>1, AdvanceMove, FailMove
       DEF Resolve, ResolveProvider, ProviderMissing, SessionUnknown
  <1>2. CASE Event(t)
    BY <1>2, RecordEventMove, EventFailedMove DEF Event
  <1>3. CASE Engine(t)
    BY <1>3, EngineStepMove DEF Engine
  <1>4. CASE ErrorEvent(t)
    BY <1>4, FinishMove, FailMove
       DEF ErrorEvent, RepairUnusable, StreamExtractFailed, RepairErrorLost,
           ExtractErrorLost
  <1>5. CASE StoreFault(t)
    BY <1>5, FailMove DEF StoreFault, StoreStages
  <1>6. CASE AcquireRefused(t)
    BY <1>6, FailMove DEF AcquireRefused, Refused
  <1>7. CASE ReadSession(t)
    BY <1>7, AdvanceMove, FailMove DEF ReadSession
  <1>8. CASE CommitLost(t)
    BY <1>8, FailMove DEF CommitLost
  <1>9. CASE Disconnect(t)
    BY <1>9, CancelMove DEF Disconnect, Cancel, AnswerInv
  <1>10. QED
    BY <1>1, <1>2, <1>3, <1>4, <1>5, <1>6, <1>7, <1>8, <1>9 DEF PipelineStep

LEMMA StoreStepAnswer ==
    ASSUME TypeOK, AnswerInv, NEW t \in Turns, StoreStep(t)
    PROVE  AnswerInv'
  <1> USE DEF TypeOK, PipelineTypeOK, AnswerInv, Ended
  <1>1. CASE Acquire(t)
    BY <1>1 DEF Acquire, Acquired, GoTo
  <1>2. CASE StrayStep(t)
    BY <1>2 DEF StrayStep, StrayAcquire, StrayCommit, pipelineVars
  <1>3. CASE ReleaseStep(t)
    BY <1>3 DEF ReleaseStep, RunRelease, ReleaseFails, pipelineVars
  <1>4. CASE ReadWorldState(t) \/ BeginAndInsert(t) \/ UpdateWorldState(t)
    BY <1>4 DEF ReadWorldState, BeginAndInsert, UpdateWorldState, Advance, Fail,
                Finish, GoTo
  <1>5. CASE ReadMessages(t)
    BY <1>5 DEF ReadMessages, Advance, GoTo
  <1>6. CASE Commit(t)
    BY <1>6 DEF Commit, Advance, GoTo
  <1>7. QED
    BY <1>1, <1>2, <1>3, <1>4, <1>5, <1>6 DEF StoreStep

LEMMA AnswerCorrect == Spec => []AnswerInv
  <1>1. Init => AnswerInv
    BY DEF Init, PipelineInit, AnswerInv, Ended
  <1>2. TypeOK /\ AnswerInv /\ [Next]_vars => AnswerInv'
    <2> SUFFICES ASSUME TypeOK, AnswerInv, [Next]_vars
                 PROVE  AnswerInv'
      OBVIOUS
    <2>1. ASSUME NEW t \in Turns, PipelineStep(t)
          PROVE  AnswerInv'
      <3>1. PipelineMove(t)
        BY <2>1, PipelineStepMove
      <3>2. pc'[t] \in Ended <=> reply'[t] # "none"
        BY <3>1 DEF PipelineMove, Moves, AnswerInv, Unloaded, Loaded, PostCommit,
                    Ended, Refusals, Ambiguous
      <3>3. QED
        BY <3>1, <3>2 DEF PipelineMove, AnswerInv
    <2>2. CASE \E t \in Turns: StoreStep(t)
      BY <2>2, StoreStepAnswer
    <2>3. CASE \E p \in Processes: Crash(p)
      BY <2>3 DEF Crash, Vanish, TypeOK, PipelineTypeOK, AnswerInv, Ended
    <2>4. CASE FiveMinutesPass \/ DeleteSession
      BY <2>4 DEF FiveMinutesPass, DeleteSession, AnswerInv, pipelineVars
    <2>5. CASE UNCHANGED vars
      BY <2>5 DEF vars, AnswerInv, pipelineVars
    <2>6. QED
      BY <2>1, <2>2, <2>3, <2>4, <2>5, NextCases
  <1>3. QED
    BY <1>1, <1>2, TypeCorrect, PTL DEF Spec

-----------------------------------------------------------------------------
\* The lock. A turn owns it while its guard lives and until its release has
\* run: the release of one turn must not meet the lock of another.

Owner(t) == guard[t] \/ t \in releases

LockInv ==
    /\ \A t, u \in Turns: Owner(t) /\ Owner(u) => t = u
    /\ \A t \in Turns: ~(guard[t] /\ t \in releases)
    /\ \A t \in Turns:
          exists /\ Owner(t) => processing_turn /\ started_at = "fresh"

\* A step that only drops guards, and spawns a release for each of them.
LEMMA GuardsDropped ==
    ASSUME TypeOK, LockInv,
           \A t \in Turns: guard'[t] => guard[t],
           ReleaseDropped,
           UNCHANGED <<exists, processing_turn, started_at>>
    PROVE  LockInv'
  <1>1. \A t \in Turns: t \in releases' <=> t \in releases \/ (guard[t] /\ ~guard'[t])
    BY DEF ReleaseDropped
  <1>2. \A t \in Turns: Owner(t)' => Owner(t)
    BY <1>1 DEF Owner
  <1>3. \A t \in Turns: ~(guard'[t] /\ t \in releases')
    BY <1>1 DEF LockInv
  <1>4. QED
    BY <1>2, <1>3 DEF LockInv

\* A step after which nobody owns the lock who did not own it before, and
\* which leaves the row of the session alone.
LEMMA OwnersLeave ==
    ASSUME LockInv,
           \A t \in Turns: guard'[t] => guard[t],
           \A t \in Turns: t \in releases' => t \in releases,
           UNCHANGED <<exists, processing_turn, started_at>>
    PROVE  LockInv'
  BY DEF LockInv, Owner

\* The lock can only be taken when nobody owns it.
LEMMA AcquirableUnowned ==
    ASSUME LockInv, Acquirable, NEW t \in Turns
    PROVE  ~Owner(t)
  BY DEF LockInv, Acquirable

LEMMA StoreStepLock ==
    ASSUME TypeOK, LockInv, NEW t \in Turns, StoreStep(t)
    PROVE  LockInv'
  <1> USE DEF TypeOK, PipelineTypeOK, lockVars, claimVars
  <1>1. CASE Acquire(t)
    <2>1. \A u \in Turns: ~Owner(u)
      BY <1>1, AcquirableUnowned DEF Acquire, TakeLock
    <2>2. \A u \in Turns: Owner(u)' => u = t
      BY <1>1, <2>1 DEF Acquire, Acquired, TakeLock, Owner
    <2>3. t \notin releases'
      BY <1>1, <2>1 DEF Acquire, TakeLock, Owner
    <2>4. processing_turn' /\ started_at' = "fresh"
      BY <1>1 DEF Acquire, TakeLock
    <2>5. QED
      BY <2>2, <2>3, <2>4 DEF LockInv, Owner
  <1>2. CASE StrayAcquire(t)
    <2>1. guard' = guard /\ releases' = releases /\ exists' = exists
      BY <1>2 DEF StrayAcquire, pipelineVars
    <2>2. CASE Acquirable
      <3>1. \A u \in Turns: ~Owner(u)
        BY <2>2, AcquirableUnowned
      <3>2. \A u \in Turns: ~Owner(u)'
        BY <2>1, <3>1 DEF Owner
      <3>3. QED
        BY <3>2 DEF LockInv, Owner
    <2>3. CASE ~Acquirable
      BY <1>2, <2>1, <2>3, OwnersLeave DEF StrayAcquire
    <2>4. QED
      BY <2>2, <2>3
  <1>3. CASE RunRelease(t)
    <2>1. guard' = guard /\ releases' = releases \ {t} /\ t \in releases
      BY <1>3 DEF RunRelease, pipelineVars
    <2>2. \A u \in Turns: Owner(u) => u = t
      BY <2>1 DEF LockInv, Owner
    <2>3. \A u \in Turns: ~Owner(u)'
      BY <2>1, <2>2 DEF LockInv, Owner
    <2>4. QED
      BY <2>3 DEF LockInv, Owner
  <1>4. CASE ReleaseFails(t)
    <2>1. guard' = guard /\ releases' = releases \ {t}
      BY <1>4 DEF ReleaseFails, pipelineVars
    <2>2. QED
      BY <1>4, <2>1, OwnersLeave DEF ReleaseFails
  <1>5. CASE ReadWorldState(t)
    <2>1. \A u \in Turns: guard'[u] => guard[u]
      BY <1>5 DEF ReadWorldState, Advance, Fail, Finish
    <2>2. QED
      BY <1>5, <2>1, GuardsDropped DEF ReadWorldState
  <1>6. CASE ReadMessages(t)
    BY <1>6, OwnersLeave DEF ReadMessages, Advance
  <1>7. CASE BeginAndInsert(t)
    <2>1. \A u \in Turns: guard'[u] => guard[u]
      BY <1>7 DEF BeginAndInsert, Advance, Fail, Finish
    <2>2. QED
      BY <1>7, <2>1, GuardsDropped DEF BeginAndInsert
  <1>8. CASE UpdateWorldState(t)
    <2>1. \A u \in Turns: guard'[u] => guard[u]
      BY <1>8 DEF UpdateWorldState, Advance, Fail, Finish
    <2>2. QED
      BY <1>8, <2>1, GuardsDropped DEF UpdateWorldState, PipelineOnly
  <1>9. CASE Commit(t)
    <2>1. guard' = guard /\ releases' = releases
      BY <1>9 DEF Commit, Advance
    <2>2. QED
      BY <1>9, <2>1, OwnersLeave DEF Commit
  <1>10. CASE StrayCommit(t)
    BY <1>10, OwnersLeave DEF StrayCommit, pipelineVars
  <1>11. QED
    BY <1>1, <1>2, <1>3, <1>4, <1>5, <1>6, <1>7, <1>8, <1>9, <1>10
       DEF StoreStep, ReleaseStep, StrayStep

\* As long as no turn, together with its release, has outlasted the five
\* minutes, the lock belongs to the turn that holds it, and to nobody else.
InTimeInv == ~overran => LockInv

LEMMA LockCorrect == Spec => []InTimeInv
  <1>1. Init => InTimeInv
    BY DEF Init, PipelineInit, InTimeInv, LockInv, Owner
  <1>2. TypeOK /\ AnswerInv /\ InTimeInv /\ [Next]_vars => InTimeInv'
    <2> SUFFICES ASSUME TypeOK, AnswerInv, InTimeInv, [Next]_vars, ~overran'
                 PROVE  LockInv'
      BY DEF InTimeInv
    <2>1. ASSUME NEW t \in Turns, PipelineStep(t)
          PROVE  LockInv'
      <3>1. \A u \in Turns: guard'[u] => guard[u]
        BY <2>1, PipelineStepMove DEF PipelineMove
      <3>2. RowsKept /\ ReleaseDropped
        BY <2>1, PipelineStepKeeps
      <3>3. QED
        BY <3>1, <3>2, GuardsDropped DEF RowsKept, InTimeInv
    <2>2. ASSUME NEW t \in Turns, StoreStep(t)
          PROVE  LockInv'
      <3>1. overran' = overran
        BY <2>2 DEF StoreStep, Acquire, TakeLock, ReleaseStep, RunRelease, ReleaseFails,
                    StrayStep, StrayAcquire, StrayCommit, ReadWorldState, ReadMessages,
                    BeginAndInsert, UpdateWorldState, PipelineOnly, Commit, lockVars,
                    claimVars
      <3>2. QED
        BY <2>2, <3>1, StoreStepLock DEF InTimeInv
    <2>3. ASSUME NEW p \in Processes, Crash(p)
          PROVE  LockInv'
      <3>1. \A u \in Turns: guard'[u] => guard[u]
        BY <2>3 DEF Crash, Vanish, TypeOK, PipelineTypeOK
      <3>2. RowsKept /\ releases' \in SUBSET releases
        BY <2>3, CrashKeeps
      <3>3. QED
        BY <3>1, <3>2, OwnersLeave DEF RowsKept, InTimeInv
    <2>4. CASE FiveMinutesPass
      BY <2>4 DEF FiveMinutesPass, InTimeInv, LockInv, Owner, pipelineVars
    <2>5. CASE DeleteSession
      BY <2>5 DEF DeleteSession, InTimeInv, LockInv, Owner
    <2>6. CASE UNCHANGED vars
      BY <2>6 DEF vars, InTimeInv, LockInv, Owner, pipelineVars, lockVars, claimVars
    <2>7. QED
      BY <2>1, <2>2, <2>3, <2>4, <2>5, <2>6, NextCases
  <1>3. QED
    BY <1>1, <1>2, TypeCorrect, AnswerCorrect, PTL DEF Spec

\* Two turns of a session are never active at once, in whichever processes
\* they run, until one of them outlasts the five minutes.
THEOREM MutualExclusion == Spec => []OneActiveTurnInTime
  <1>1. InTimeInv => OneActiveTurnInTime
    BY DEF InTimeInv, LockInv, OneActiveTurnInTime, OneActiveTurn, Owner
  <1>2. QED
    BY <1>1, LockCorrect, PTL

\* As long as a turn is active, nothing another turn does can clear or
\* outdate the lock it holds.
THEOREM LockIsKept == Spec => []LockHeldWhileActive
  <1>1. InTimeInv => LockHeldWhileActive
    BY DEF InTimeInv, LockInv, LockHeldWhileActive, Owner
  <1>2. QED
    BY <1>1, LockCorrect, PTL

-----------------------------------------------------------------------------
\* The history. Versions a turn has read are never ahead of the stored one,
\* its messages never behind its world state; a turn inside its transaction
\* has begun after everything it is based on was committed; and the one turn
\* that holds the world_states row, while it waits for its COMMIT or when it is
\* gone with the COMMIT still on its way, is based on the stored version.

\* Turns are committed in the order in which their transactions began.
StampsIncrease ==
    \A i, j \in 1..Len(deltas): i < j => deltas[i].stamp < deltas[j].stamp

LogInv ==
    /\ version = Len(deltas)
    /\ \A i \in 1..Len(deltas):
          deltas[i].base = i - 1 /\ deltas[i].seen = i - 1 /\ deltas[i].stamp < clock
    /\ StampsIncrease

HasBegun(t) == pc[t] \in InTransaction \/ t \in strayCommits

Committing(t) == pc[t] = "updated" \/ t \in strayCommits

LoadInv ==
    exists =>
        \A t \in Turns:
            /\ base[t] <= version /\ seen[t] <= version
            /\ pc[t] \in Loaded \/ HasBegun(t) => base[t] <= seen[t]

TransactionInv ==
    /\ \A t \in Turns: HasBegun(t) =>
          /\ exists
          /\ stamp[t] < clock
          /\ \A i \in 1..Len(deltas): i <= base[t] => deltas[i].stamp < stamp[t]
    /\ \A t \in Turns: Committing(t) =>
          base[t] = version /\ \A u \in Turns: Committing(u) => u = t
    /\ \A t \in strayCommits: pc[t] \in Ended

HistoryInv == LogInv /\ LoadInv /\ TransactionInv

\* A step that moves no turn into its transaction, and changes no row.
LEMMA HistoryKept ==
    ASSUME TypeOK, HistoryInv,
           \A t \in Turns: pc'[t] \in InTransaction => pc'[t] = pc[t],
           \A t \in Turns: pc'[t] \in Loaded => pc[t] \in Loaded,
           \A t \in Turns: pc[t] \in Ended => pc'[t] \in Ended,
           UNCHANGED <<exists, version, deltas, clock, loadVars>>,
           CommitsLeft
    PROVE  HistoryInv'
  <1> USE DEF HistoryInv, loadVars
  <1>1. \A t \in Turns: (HasBegun(t)' => HasBegun(t)) /\ (Committing(t)' => Committing(t))
    BY DEF HasBegun, Committing, CommitsLeft, InTransaction
  <1>2. LogInv'
    BY DEF LogInv, StampsIncrease
  <1>3. LoadInv'
    BY <1>1 DEF LoadInv
  <1>4. TransactionInv'
    <2>1. \A t \in strayCommits': pc'[t] \in Ended
      BY DEF TransactionInv, CommitsLeft, TypeOK
    <2>2. QED
      BY <1>1, <2>1 DEF TransactionInv
  <1>5. QED
    BY <1>2, <1>3, <1>4

\* A failing step of the store does just that.
LEMMA FailKept ==
    ASSUME TypeOK, HistoryInv, NEW t \in Turns, NEW error, Fail(t, error),
           UNCHANGED <<exists, storeVars, loadVars>>
    PROVE  HistoryInv'
  BY HistoryKept DEF TypeOK, PipelineTypeOK, Fail, Finish, GoTo, storeVars,
                     CommitsLeft, InTransaction, Loaded, Ended

\* So do the steps of the pipeline, of the lock, and a crash.
LEMMA LockStepHistory ==
    ASSUME TypeOK, HistoryInv, NEW t \in Turns,
           Acquire(t) \/ ReleaseStep(t) \/ StrayAcquire(t)
    PROVE  HistoryInv'
  <1>1. UNCHANGED <<exists, storeVars, loadVars>>
    BY DEF Acquire, ReleaseStep, RunRelease, ReleaseFails, StrayAcquire
  <1>2. \/ pc[t] = "acquire" /\ pc' = [pc EXCEPT ![t] = "acquired"]
        \/ pc' = pc
    BY DEF Acquire, Acquired, GoTo, ReleaseStep, RunRelease, ReleaseFails, StrayAcquire,
           pipelineVars
  <1>3. QED
    BY <1>1, <1>2, HistoryKept
       DEF storeVars, CommitsLeft, InTransaction, Loaded, Ended, TypeOK, PipelineTypeOK

\* The turn whose COMMIT the server executes was the only one to hold the row.
LEMMA StoreHistory ==
    ASSUME TypeOK, HistoryInv, NEW t \in Turns, Committing(t), StoreTurn(t),
           UNCHANGED <<exists, clock, loadVars>>,
           \A u \in Turns \ {t}: pc'[u] = pc[u],
           pc'[t] \in PostCommit \cup Ended,
           strayCommits' = strayCommits \ {t}
    PROVE  HistoryInv'
  <1> DEFINE n == Len(deltas)
  <1>1. /\ version' = base[t] + 1
        /\ deltas' = Append(deltas, Row(t)) /\ Len(deltas') = n + 1 /\ n \in Nat
        /\ deltas'[n + 1] = Row(t)
        /\ \A i \in 1..n: deltas'[i] = deltas[i]
        /\ \A i \in 1..Len(deltas'): i \in 1..n \/ i = n + 1
    BY StoredType DEF StoreTurn
  <1>2. /\ base[t] = version /\ version = n /\ exists /\ stamp[t] < clock
        /\ seen[t] = n
        /\ \A i \in 1..n: deltas[i].stamp < stamp[t]
    <2>1. HasBegun(t)
      BY DEF Committing, HasBegun, InTransaction
    <2>2. exists /\ base[t] = version /\ stamp[t] < clock
      BY <2>1 DEF HistoryInv, TransactionInv
    <2>3. version = n
      BY DEF HistoryInv, LogInv
    <2>4. base[t] <= seen[t] /\ seen[t] <= version
      BY <2>1, <2>2 DEF HistoryInv, LoadInv
    <2>5. seen[t] = n
      BY <2>2, <2>3, <2>4, <1>1 DEF TypeOK
    <2>6. \A i \in 1..n: deltas[i].stamp < stamp[t]
      BY <2>1, <2>2, <2>3 DEF HistoryInv, TransactionInv
    <2>7. QED
      BY <2>2, <2>3, <2>5, <2>6
  <1>3. /\ Row(t).base = n /\ Row(t).seen = n /\ Row(t).stamp = stamp[t]
    BY <1>2 DEF Row
  <1>4. LogInv'
    <2>1. version' = Len(deltas')
      BY <1>1, <1>2
    <2>2. ASSUME NEW i \in 1..Len(deltas')
          PROVE  /\ deltas'[i].base = i - 1 /\ deltas'[i].seen = i - 1
                 /\ deltas'[i].stamp < clock'
      <3>1. CASE i = n + 1
        BY <3>1, <1>1, <1>2, <1>3
      <3>2. CASE i \in 1..n
        BY <3>2, <1>1 DEF HistoryInv, LogInv
      <3>3. QED
        BY <3>1, <3>2, <1>1
    <2>3. StampsIncrease'
      <3>1. ASSUME NEW i \in 1..Len(deltas'), NEW j \in 1..Len(deltas'), i < j
            PROVE  deltas'[i].stamp < deltas'[j].stamp
        <4>1. i \in 1..n
          BY <3>1, <1>1
        <4>2. CASE j = n + 1
          BY <4>1, <4>2, <1>1, <1>2, <1>3
        <4>3. CASE j \in 1..n
          BY <3>1, <4>1, <4>3, <1>1 DEF HistoryInv, LogInv, StampsIncrease
        <4>4. QED
          BY <4>2, <4>3, <1>1
      <3>2. QED
        BY <3>1 DEF StampsIncrease
    <2>4. QED
      BY <2>1, <2>2, <2>3 DEF LogInv
  <1>5. \A u \in Turns: ~Committing(u)'
    <2>1. \A u \in Turns: Committing(u) => u = t
      BY DEF HistoryInv, TransactionInv
    <2>2. QED
      BY <2>1 DEF Committing, PostCommit, Ended
  <1>6. ASSUME NEW u \in Turns, HasBegun(u)'
        PROVE  u # t /\ HasBegun(u)
    BY <1>6 DEF HasBegun, InTransaction, PostCommit, Ended
  <1>7. LoadInv'
    <2>1. ASSUME NEW u \in Turns
          PROVE  /\ base'[u] <= version' /\ seen'[u] <= version'
                 /\ pc'[u] \in Loaded \/ HasBegun(u)' => base'[u] <= seen'[u]
      <3>1. /\ base[u] <= version /\ seen[u] <= version
            /\ pc[u] \in Loaded \/ HasBegun(u) => base[u] <= seen[u]
        BY <1>2 DEF HistoryInv, LoadInv
      <3>2. /\ base'[u] = base[u] /\ seen'[u] = seen[u] /\ version' = version + 1
            /\ base[u] \in Nat /\ seen[u] \in Nat /\ version \in Nat
        BY <1>1, <1>2 DEF loadVars, TypeOK
      <3>3. pc'[u] \in Loaded => pc[u] \in Loaded
        BY DEF Loaded, PostCommit, Ended
      <3>4. QED
        BY <3>1, <3>2, <3>3, <1>6
    <2>2. QED
      BY <2>1 DEF LoadInv
  <1>8. TransactionInv'
    <2>1. ASSUME NEW u \in Turns, HasBegun(u)', NEW i \in 1..Len(deltas'), i <= base'[u]
          PROVE  deltas'[i].stamp < stamp'[u]
      <3>1. base[u] <= n /\ base'[u] = base[u] /\ stamp'[u] = stamp[u] /\ base[u] \in Nat
        BY <1>2 DEF HistoryInv, LoadInv, loadVars, TypeOK
      <3>2. i \in 1..n
        BY <2>1, <3>1, <1>1
      <3>3. deltas[i].stamp < stamp[u]
        BY <2>1, <3>1, <3>2, <1>6 DEF HistoryInv, TransactionInv
      <3>4. QED
        BY <1>1, <3>1, <3>2, <3>3
    <2>2. \A u \in Turns: HasBegun(u)' => exists' /\ stamp'[u] < clock'
      BY <1>6 DEF HistoryInv, TransactionInv, loadVars
    <2>3. \A u \in strayCommits': pc'[u] \in Ended
      BY DEF HistoryInv, TransactionInv, TypeOK
    <2>4. QED
      BY <2>1, <2>2, <2>3, <1>5 DEF TransactionInv
  <1>9. QED
    BY <1>4, <1>7, <1>8 DEF HistoryInv

LEMMA StoreStepHistory ==
    ASSUME TypeOK, HistoryInv, NEW t \in Turns, StoreStep(t)
    PROVE  HistoryInv'
  <1> USE DEF TypeOK, PipelineTypeOK, Advance, GoTo
  <1>1. CASE Acquire(t) \/ ReleaseStep(t) \/ StrayAcquire(t)
    BY <1>1, LockStepHistory
  <1>4. CASE ReadWorldState(t)
    <2>1. CASE exists
      <3>1. base' = [base EXCEPT ![t] = version]
        BY <1>4, <2>1 DEF ReadWorldState
      <3>2. pc[t] = "read_world" /\ pc' = [pc EXCEPT ![t] = "read_messages"]
        BY <1>4, <2>1 DEF ReadWorldState
      <3>3. UNCHANGED <<exists, storeVars, seen, stamp>>
        BY <1>4 DEF ReadWorldState
      <3>4. LogInv'
        BY <3>3 DEF HistoryInv, LogInv, StampsIncrease, storeVars
      <3>5. LoadInv'
        <4>1. t \notin strayCommits /\ ~HasBegun(t)' /\ pc'[t] \notin Loaded
          BY <3>2, <3>3 DEF HistoryInv, TransactionInv, HasBegun, InTransaction, Ended,
                            Loaded, storeVars
        <4>2. \A u \in Turns: u # t =>
                 /\ pc'[u] = pc[u] /\ HasBegun(u)' = HasBegun(u) /\ base'[u] = base[u]
          BY <3>1, <3>2, <3>3 DEF HasBegun, storeVars
        <4>3. base'[t] = version /\ version \in Nat
          BY <3>1
        <4> HIDE DEF TypeOK, PipelineTypeOK
        <4>4. QED
          BY <2>1, <3>3, <4>1, <4>2, <4>3 DEF HistoryInv, LoadInv, storeVars
      <3>6. TransactionInv'
        BY <3>1, <3>2, <3>3 DEF HistoryInv, TransactionInv, storeVars, HasBegun,
                                Committing, InTransaction, Ended
      <3>7. QED
        BY <3>4, <3>5, <3>6 DEF HistoryInv
    <2>2. CASE ~exists
      <3>1. base' = base
        BY <1>4, <2>2 DEF ReadWorldState
      <3>2. QED
        BY <1>4, <2>2, <3>1, FailKept DEF ReadWorldState, loadVars
    <2>3. QED
      BY <2>1, <2>2
  <1>5. CASE ReadMessages(t)
    <2>1. /\ seen' = [seen EXCEPT ![t] = Len(deltas)]
          /\ pc[t] = "read_messages" /\ pc' = [pc EXCEPT ![t] = "loaded"]
          /\ UNCHANGED <<exists, storeVars, base, stamp>>
      BY <1>5 DEF ReadMessages
    <2>2. LogInv'
      BY <2>1 DEF HistoryInv, LogInv, StampsIncrease, storeVars
    <2>3. LoadInv'
      BY <2>1 DEF HistoryInv, LoadInv, LogInv, storeVars, Loaded, HasBegun, InTransaction
    <2>4. TransactionInv'
      BY <2>1 DEF HistoryInv, TransactionInv, storeVars, HasBegun, Committing,
                  InTransaction, Ended
    <2>5. QED
      BY <2>2, <2>3, <2>4 DEF HistoryInv
  <1>6. CASE BeginAndInsert(t)
    <2>1. CASE exists
      <3>1. /\ pc[t] = "persist" /\ pc' = [pc EXCEPT ![t] = "inserted"]
            /\ stamp' = [stamp EXCEPT ![t] = clock] /\ clock' = clock + 1
            /\ UNCHANGED <<exists, version, deltas, strayCommits, base, seen>>
        BY <1>6, <2>1 DEF BeginAndInsert
      <3>2. \A i \in 1..Len(deltas): deltas[i].stamp \in Nat
        <4>1. deltas \in Seq(Delta)
          OBVIOUS
        <4>2. \A i \in 1..Len(deltas): deltas[i] \in Delta
          BY <4>1
        <4>3. QED
          BY <4>2 DEF Delta
      <3>3. LogInv'
        <4>1. /\ version = Len(deltas) /\ StampsIncrease
              /\ \A i \in 1..Len(deltas): /\ deltas[i].base = i - 1
                                         /\ deltas[i].seen = i - 1
                                         /\ deltas[i].stamp < clock
          BY DEF HistoryInv, LogInv
        <4>2. \A i \in 1..Len(deltas): deltas[i].stamp < clock + 1
          BY <3>2, <4>1
        <4>3. StampsIncrease'
          BY <3>1, <4>1 DEF StampsIncrease
        <4>4. QED
          BY <3>1, <4>1, <4>2, <4>3 DEF LogInv
      <3>4. LoadInv'
        BY <3>1 DEF HistoryInv, LoadInv, Loaded, HasBegun, InTransaction
      <3>5. TransactionInv'
        <4>1. \A u \in Turns \ {t}: pc'[u] = pc[u] /\ stamp'[u] = stamp[u]
          BY <3>1
        <4>2. stamp'[t] = clock /\ pc'[t] = "inserted"
          BY <3>1
        <4>3. \A i \in 1..Len(deltas): deltas[i].stamp < clock
          BY DEF HistoryInv, LogInv
        <4>4. QED
          BY <2>1, <3>1, <4>1, <4>2, <4>3 DEF HistoryInv, TransactionInv, HasBegun,
                                              Committing, InTransaction, Ended
      <3>6. QED
        BY <3>3, <3>4, <3>5 DEF HistoryInv
    <2>2. CASE ~exists
      BY <1>6, <2>2, FailKept DEF BeginAndInsert, storeVars, loadVars
    <2>3. QED
      BY <2>1, <2>2
  <1>7. CASE UpdateWorldState(t)
    <2>1. CASE version = base[t]
      <3>1. /\ pc[t] = "inserted" /\ pc' = [pc EXCEPT ![t] = "updated"]
            /\ UNCHANGED <<exists, storeVars, loadVars>>
            /\ strayCommits = {} /\ \A u \in Turns: pc[u] # "updated"
        BY <1>7, <2>1 DEF UpdateWorldState, PipelineOnly, WorldStateLocked
      <3>2. LogInv'
        BY <3>1 DEF HistoryInv, LogInv, StampsIncrease, storeVars
      <3>3. LoadInv'
        BY <3>1 DEF HistoryInv, LoadInv, storeVars, loadVars, Loaded, HasBegun, InTransaction
      <3>4. TransactionInv'
        BY <2>1, <3>1 DEF HistoryInv, TransactionInv, storeVars, loadVars, HasBegun,
                          Committing, InTransaction
      <3>5. QED
        BY <3>2, <3>3, <3>4 DEF HistoryInv
    <2>2. CASE version # base[t]
      BY <1>7, <2>2, FailKept DEF UpdateWorldState, PipelineOnly
    <2>3. QED
      BY <2>1, <2>2
  <1>8. CASE Commit(t)
    <2>1. /\ pc[t] = "updated" /\ strayCommits' = strayCommits
          /\ \A u \in Turns \ {t}: pc'[u] = pc[u]
          /\ pc'[t] \in {"persisted", "commit_lost"}
      BY <1>8 DEF Commit
    <2>2. t \notin strayCommits
      BY <2>1 DEF HistoryInv, TransactionInv, Ended
    <2>3. StoreTurn(t) /\ UNCHANGED <<exists, clock, loadVars>>
      BY <1>8 DEF Commit
    <2>4. Committing(t) /\ strayCommits' = strayCommits \ {t} /\ pc'[t] \in PostCommit
      BY <2>1, <2>2 DEF Committing, PostCommit
    <2> HIDE DEF TypeOK
    <2>5. QED
      BY <2>1, <2>3, <2>4, StoreHistory
  <1>9. CASE StrayCommit(t)
    <2>1. t \in strayCommits /\ strayCommits' = strayCommits \ {t} /\ pc' = pc
      BY <1>9 DEF StrayCommit, pipelineVars
    <2>2. StoreTurn(t) /\ UNCHANGED <<exists, clock, loadVars>>
      BY <1>9 DEF StrayCommit
    <2>3. Committing(t) /\ pc'[t] \in Ended
      BY <2>1 DEF Committing, HistoryInv, TransactionInv
    <2> HIDE DEF TypeOK
    <2>4. QED
      BY <2>1, <2>2, <2>3, StoreHistory
  <1>10. QED
    BY <1>1, <1>4, <1>5, <1>6, <1>7, <1>8, <1>9 DEF StoreStep, StrayStep

LEMMA HistoryCorrect == Spec => []HistoryInv
  <1>1. Init => HistoryInv
    BY DEF Init, PipelineInit, HistoryInv, LogInv, LoadInv, TransactionInv, HasBegun,
           Committing, StampsIncrease, Loaded, InTransaction
  <1>2. TypeOK /\ AnswerInv /\ HistoryInv /\ [Next]_vars => HistoryInv'
    <2> SUFFICES ASSUME TypeOK, AnswerInv, HistoryInv, [Next]_vars
                 PROVE  HistoryInv'
      OBVIOUS
    <2>1. ASSUME NEW t \in Turns, PipelineStep(t)
          PROVE  HistoryInv'
      <3>1. PipelineMove(t)
        BY <2>1, PipelineStepMove
      <3>2. \A u \in Turns: pc'[u] \in InTransaction => pc'[u] = pc[u]
        BY <3>1 DEF PipelineMove, Moves, Unloaded, Loaded, PostCommit, Ended,
                    InTransaction
      <3>3. \A u \in Turns: pc'[u] \in Loaded => pc[u] \in Loaded
        BY <3>1 DEF PipelineMove, Moves, Unloaded, Loaded, PostCommit, Ended
      <3>4. \A u \in Turns: pc[u] \in Ended => pc'[u] \in Ended
        BY <3>1 DEF PipelineMove, Moves, Unloaded, Loaded, PostCommit, Ended
      <3>5. RowsKept
        BY <2>1, PipelineStepKeeps
      <3>6. QED
        BY <3>2, <3>3, <3>4, <3>5, HistoryKept DEF RowsKept
    <2>2. CASE \E t \in Turns: StoreStep(t)
      BY <2>2, StoreStepHistory
    <2>3. ASSUME NEW p \in Processes, Crash(p)
          PROVE  HistoryInv'
      <3>1. RowsKept
        BY <2>3, CrashKeeps
      <3>2. \A u \in Turns: pc'[u] = pc[u] \/ pc'[u] = "done"
        BY <2>3 DEF Crash, Vanish, TypeOK, PipelineTypeOK
      <3>3. QED
        BY <3>1, <3>2, HistoryKept DEF RowsKept, InTransaction, Loaded, Ended
    <2>4. CASE FiveMinutesPass
      BY <2>4, HistoryKept DEF FiveMinutesPass, pipelineVars, storeVars, CommitsLeft
    <2>5. CASE DeleteSession
      <3>1. /\ ~exists' /\ version' = 0 /\ deltas' = <<>> /\ pc' = pc
            /\ strayCommits' = {} /\ \A t \in Turns: pc[t] \notin InTransaction
        BY <2>5 DEF DeleteSession, SessionShared, InTransaction
      <3>2. QED
        BY <3>1 DEF HistoryInv, LogInv, LoadInv, TransactionInv, StampsIncrease,
                    HasBegun, Committing, InTransaction
    <2>6. CASE UNCHANGED vars
      BY <2>6, HistoryKept DEF vars, pipelineVars, storeVars, CommitsLeft
    <2>7. QED
      BY <2>1, <2>2, <2>3, <2>4, <2>5, <2>6, NextCases
  <1>3. QED
    BY <1>1, <1>2, TypeCorrect, AnswerCorrect, PTL DEF Spec

\* Whatever happens to the lock, no update is lost and every committed turn
\* was computed from the version just before its own.
THEOREM HistoryIsSerial == Spec => []SerialHistory
  <1>1. HistoryInv => SerialHistory
    BY DEF HistoryInv, LogInv, SerialHistory
  <1>2. QED
    BY <1>1, HistoryCorrect, PTL

\* The separate reads of load_turn_state never reach a committed turn torn.
THEOREM ContextIsConsistent == Spec => []ContextMatchesBase
  <1>1. HistoryInv => ContextMatchesBase
    BY DEF HistoryInv, LogInv, ContextMatchesBase
  <1>2. QED
    BY <1>1, HistoryCorrect, PTL

\* The row numbers of the timeline query are the versions of the turns.
THEOREM TimelineIsOrdered == Spec => []TimelineOrder
  <1>1. TypeOK /\ HistoryInv => TimelineOrder
    <2> SUFFICES ASSUME TypeOK, HistoryInv, NEW i \in 1..Len(deltas)
                 PROVE  WorldStateVersion(i) = i
      BY DEF TimelineOrder
    <2>1. deltas \in Seq(Delta)
      BY DEF TypeOK
    <2>2. DOMAIN deltas = 1..Len(deltas) /\ Len(deltas) \in Nat /\ i \in Nat /\ i >= 1
      BY <2>1
    <2>3. \A j \in 1..Len(deltas): deltas[j].stamp \in Nat
      <3>1. \A j \in 1..Len(deltas): deltas[j] \in Delta
        BY <2>1
      <3>2. QED
        BY <3>1 DEF Delta
    <2>4. \A j, k \in 1..Len(deltas): j < k => deltas[j].stamp < deltas[k].stamp
      BY DEF HistoryInv, LogInv, StampsIncrease
    <2>5. \A j \in 1..Len(deltas): deltas[j].stamp <= deltas[i].stamp <=> j <= i
      BY <2>2, <2>3, <2>4
    <2>6. {j \in DOMAIN deltas: deltas[j].stamp <= deltas[i].stamp} = 1..i
      BY <2>2, <2>5
    <2>7. Cardinality(1..i) = i
      BY <2>2, FS_Interval
    <2>8. QED
      BY <2>6, <2>7 DEF WorldStateVersion
  <1>2. QED
    BY <1>1, TypeCorrect, HistoryCorrect, PTL

\* The history only grows by what was computed from its latest version.
THEOREM HistoryGrows == Spec => HistoryOnlyGrows
  <1> DEFINE Grows ==
        deltas' # deltas =>
          \/ /\ Len(deltas') = Len(deltas) + 1
             /\ SubSeq(deltas', 1, Len(deltas)) = deltas
             /\ base[deltas'[Len(deltas')].turn] = version
          \/ ~exists' /\ deltas' = <<>>
  <1>1. TypeOK /\ HistoryInv /\ [Next]_vars => [Grows]_vars
    <2> SUFFICES ASSUME TypeOK, HistoryInv, Next
                 PROVE  Grows
      OBVIOUS
    <2> USE DEF TypeOK, storeVars, loadVars
    <2>1. ASSUME NEW t \in Turns, PipelineStep(t)
          PROVE  Grows
      BY <2>1, PipelineStepKeeps DEF RowsKept
    <2>2. ASSUME NEW t \in Turns, StoreStep(t), ~Commit(t), ~StrayCommit(t)
          PROVE  Grows
      BY <2>2 DEF StoreStep, ReleaseStep, Acquire, StrayStep, StrayAcquire, RunRelease,
                  ReleaseFails, ReadWorldState, ReadMessages, BeginAndInsert,
                  UpdateWorldState, PipelineOnly
    <2>3. ASSUME NEW t \in Turns, Commit(t) \/ StrayCommit(t)
          PROVE  Grows
      <3>1. StoreTurn(t) /\ Committing(t)
        BY <2>3 DEF Commit, Advance, StrayCommit, Committing
      <3>2. base[t] = version
        BY <3>1 DEF HistoryInv, TransactionInv
      <3>3. deltas \in Seq(Delta) /\ Row(t) \in Delta /\ Row(t).turn = t
        BY DEF Delta, Row
      <3>4. deltas' = Append(deltas, Row(t))
        BY <3>1 DEF StoreTurn, Row
      <3> HIDE DEF Row
      <3>5. Len(deltas') = Len(deltas) + 1 /\ deltas'[Len(deltas')] = Row(t)
        BY <3>3, <3>4
      <3>6. SubSeq(deltas', 1, Len(deltas)) = deltas
        BY <3>3, <3>4
      <3>7. QED
        BY <3>2, <3>3, <3>5, <3>6
    <2>4. ASSUME NEW p \in Processes, Crash(p)
          PROVE  Grows
      BY <2>4, CrashKeeps DEF RowsKept
    <2>5. CASE FiveMinutesPass \/ DeleteSession
      BY <2>5 DEF FiveMinutesPass, DeleteSession
    <2>6. QED
      BY <2>1, <2>2, <2>3, <2>4, <2>5, NextCases
  <1>2. QED
    BY <1>1, TypeCorrect, HistoryCorrect, PTL DEF Spec, HistoryOnlyGrows

-----------------------------------------------------------------------------
(***************************************************************************)
(* Every behaviour of PostgresSession is a behaviour of SessionLedger: the *)
(* proof that clients can rely on what they are told, with any number of   *)
(* turns and processes, storage faults, crashes and stale locks included.  *)
(***************************************************************************)

\* A turn is committed exactly from its commit on, unless its session goes;
\* one whose COMMIT is still on its way is not yet, and its client does not
\* know.
CommitInv ==
    /\ \A t \in Turns: exists /\ pc[t] \in PostCommit => Committed(t)
    /\ \A t \in Turns: Committed(t) => pc[t] \in PostCommit \cup Ended
    /\ \A t \in strayCommits: ~Committed(t) /\ reply[t] \in Ambiguous

\* A step that commits nothing, and moves no turn past its commit.
LEMMA CommitKept ==
    ASSUME TypeOK, AnswerInv, TransactionInv, CommitInv,
           UNCHANGED <<exists, deltas>>,
           CommitsLeft,
           \A t \in Turns: pc'[t] \in PostCommit => pc[t] \in PostCommit,
           \A t \in Turns: pc[t] \in PostCommit \cup Ended =>
                               pc'[t] \in PostCommit \cup Ended,
           \A t \in Turns: pc[t] \in Ended => reply'[t] = reply[t]
    PROVE  CommitInv'
  <1>1. \A t: Committed(t)' <=> Committed(t)
    BY DEF Committed
  <1>2. ASSUME NEW t \in strayCommits'
        PROVE  ~Committed(t)' /\ reply'[t] \in Ambiguous
    <2>1. CASE t \in strayCommits
      BY <1>1, <2>1 DEF CommitInv, TransactionInv, TypeOK
    <2>2. CASE t \notin strayCommits
      <3>1. /\ t \in Turns /\ pc[t] = "updated"
            /\ reply[t] = "none" => reply'[t] \in Ambiguous
        BY <1>2, <2>2 DEF CommitsLeft
      <3>2. reply[t] = "none"
        BY <3>1 DEF AnswerInv, Ended
      <3>3. QED
        BY <1>1, <3>1, <3>2 DEF CommitInv, PostCommit, Ended
    <2>3. QED
      BY <2>1, <2>2
  <1>3. QED
    BY <1>1, <1>2 DEF CommitInv

\* The COMMIT of one turn is executed, whether the turn waits for it or not.
LEMMA StoreCommit ==
    ASSUME TypeOK, CommitInv, NEW t \in Turns, StoreTurn(t), exists' = exists,
           \A u \in Turns \ {t}: pc'[u] = pc[u],
           pc[t] \notin PostCommit, pc'[t] \in PostCommit \cup Ended,
           strayCommits' = strayCommits \ {t}, reply' = reply
    PROVE  CommitInv'
  <1>1. \A u: Committed(u)' <=> Committed(u) \/ u = t
    <2>1. /\ Len(deltas') = Len(deltas) + 1 /\ Len(deltas) \in Nat
          /\ deltas'[Len(deltas) + 1] = Row(t)
          /\ \A i \in 1..Len(deltas): deltas'[i] = deltas[i]
          /\ \A i \in 1..Len(deltas'): i \in 1..Len(deltas) \/ i = Len(deltas) + 1
      BY StoredType
    <2>2. \A i \in 1..Len(deltas): i \in 1..Len(deltas')
      BY <2>1
    <2>3. Len(deltas) + 1 \in 1..Len(deltas')
      BY <2>1
    <2>4. deltas'[Len(deltas) + 1].turn = t
      BY <2>1 DEF Row
    <2>5. QED
      BY <2>1, <2>2, <2>3, <2>4 DEF Committed
  <1>2. \A u \in strayCommits': u # t /\ u \in strayCommits
    OBVIOUS
  <1>3. QED
    BY <1>1, <1>2 DEF CommitInv

LEMMA StoreStepCommit ==
    ASSUME TypeOK, AnswerInv, HistoryInv, CommitInv, NEW t \in Turns, StoreStep(t)
    PROVE  CommitInv'
  <1> USE DEF HistoryInv
  <1>1. CASE Commit(t)
    <2>1. /\ pc[t] = "updated" /\ pc'[t] \in PostCommit
          /\ \A u \in Turns \ {t}: pc'[u] = pc[u]
      BY <1>1 DEF Commit, Advance, GoTo, PostCommit, TypeOK, PipelineTypeOK
    <2>2. strayCommits' = strayCommits \ {t}
      BY <1>1, <2>1 DEF Commit, TransactionInv, Ended
    <2>3. pc[t] \notin PostCommit
      BY <2>1 DEF PostCommit
    <2>4. StoreTurn(t) /\ exists' = exists /\ reply' = reply
      BY <1>1 DEF Commit, Advance
    <2>5. QED
      BY <2>1, <2>2, <2>3, <2>4, StoreCommit
  <1>2. CASE StrayCommit(t)
    <2>1. /\ t \in strayCommits /\ strayCommits' = strayCommits \ {t}
          /\ pc' = pc /\ reply' = reply /\ StoreTurn(t) /\ exists' = exists
      BY <1>2 DEF StrayCommit, pipelineVars
    <2>2. pc[t] \in Ended /\ pc[t] \notin PostCommit
      BY <2>1 DEF TransactionInv, Ended, PostCommit
    <2>3. QED
      BY <2>1, <2>2, StoreCommit
  <1>3. CASE ~Commit(t) /\ ~StrayCommit(t)
    <2>1. UNCHANGED <<exists, deltas>> /\ CommitsLeft
      BY <1>3 DEF StoreStep, Acquire, ReleaseStep, RunRelease, ReleaseFails, StrayStep,
                  StrayAcquire, ReadWorldState, ReadMessages, BeginAndInsert,
                  UpdateWorldState, PipelineOnly, storeVars, CommitsLeft
    <2>2. CASE ReleaseStep(t) \/ StrayAcquire(t)
      BY <2>1, <2>2, CommitKept
         DEF ReleaseStep, RunRelease, ReleaseFails, StrayAcquire, pipelineVars
    <2>3. CASE Acquire(t) \/ ReadMessages(t)
      BY <2>1, <2>3, CommitKept
         DEF Acquire, Acquired, ReadMessages, Advance, GoTo, PostCommit, Ended, TypeOK,
             PipelineTypeOK
    <2>4. CASE ReadWorldState(t) \/ BeginAndInsert(t) \/ UpdateWorldState(t)
      <3>1. /\ pc[t] \in {"read_world", "persist", "inserted"}
            /\ pc'[t] \in {"read_messages", "inserted", "updated"} \cup Ended
            /\ \A u \in Turns \ {t}: pc'[u] = pc[u] /\ reply'[u] = reply[u]
        BY <2>4 DEF ReadWorldState, BeginAndInsert, UpdateWorldState, Advance, Fail,
                    Finish, GoTo, Ended, TypeOK, PipelineTypeOK
      <3>2. QED
        BY <2>1, <3>1, CommitKept DEF PostCommit, Ended
    <2>5. QED
      BY <1>3, <2>2, <2>3, <2>4 DEF StoreStep, StrayStep
  <1>4. QED
    BY <1>1, <1>2, <1>3

LEMMA CommitCorrect == Spec => []CommitInv
  <1>1. Init => CommitInv
    BY DEF Init, PipelineInit, CommitInv, Committed, PostCommit
  <1>2. TypeOK /\ AnswerInv /\ HistoryInv /\ CommitInv /\ [Next]_vars => CommitInv'
    <2> SUFFICES ASSUME TypeOK, AnswerInv, HistoryInv, CommitInv, [Next]_vars
                 PROVE  CommitInv'
      OBVIOUS
    <2> USE DEF storeVars, HistoryInv
    <2>1. ASSUME NEW t \in Turns, PipelineStep(t)
          PROVE  CommitInv'
      <3>1. PipelineMove(t)
        BY <2>1, PipelineStepMove
      <3>2. \A u \in Turns: pc'[u] \in PostCommit => pc[u] \in PostCommit
        BY <3>1 DEF PipelineMove, Moves, Unloaded, Loaded, PostCommit, Ended
      <3>3. \A u \in Turns: pc[u] \in PostCommit \cup Ended =>
                                pc'[u] \in PostCommit \cup Ended
        BY <3>1 DEF PipelineMove, Moves, Unloaded, Loaded, PostCommit, Ended
      <3>4. \A u \in Turns: pc[u] \in Ended => reply'[u] = reply[u]
        BY <3>1 DEF PipelineMove, Moves, Unloaded, Loaded, PostCommit, Ended
      <3>5. RowsKept
        BY <2>1, PipelineStepKeeps
      <3>6. QED
        BY <3>2, <3>3, <3>4, <3>5, CommitKept DEF RowsKept
    <2>2. CASE \E t \in Turns: StoreStep(t)
      BY <2>2, StoreStepCommit
    <2>3. ASSUME NEW p \in Processes, Crash(p)
          PROVE  CommitInv'
      <3>1. RowsKept
        BY <2>3, CrashKeeps
      <3>2. \A u \in Turns: pc'[u] = pc[u] \/ pc'[u] = "done"
        BY <2>3 DEF Crash, Vanish, TypeOK, PipelineTypeOK
      <3>3. \A u \in Turns: pc[u] \in Ended => reply'[u] = reply[u]
        BY <2>3 DEF Crash, Vanish, AnswerInv, TypeOK, PipelineTypeOK
      <3>4. QED
        BY <3>1, <3>2, <3>3, CommitKept DEF RowsKept, PostCommit, Ended
    <2>4. CASE FiveMinutesPass
      BY <2>4, CommitKept DEF FiveMinutesPass, pipelineVars, CommitsLeft
    <2>5. CASE DeleteSession
      BY <2>5 DEF DeleteSession, SessionShared, CommitInv, Committed
    <2>6. CASE UNCHANGED vars
      BY <2>6, CommitKept DEF vars, pipelineVars, CommitsLeft
    <2>7. QED
      BY <2>1, <2>2, <2>3, <2>4, <2>5, <2>6, NextCases
  <1>3. QED
    BY <1>1, <1>2, TypeCorrect, AnswerCorrect, HistoryCorrect, PTL DEF Spec

-----------------------------------------------------------------------------
\* The refinement mapping.

Ledger ==
    [i \in 1..Len(deltas) |-> [turn |-> deltas[i].turn, basis |-> deltas[i].base]]

Verdict == [t \in Turns |-> VerdictOf(reply[t])]

LEMMA FunctionIsSeq ==
    ASSUME NEW S, NEW n \in Nat, NEW f \in [1..n -> S]
    PROVE  f \in Seq(S) /\ Len(f) = n
  <1>1. f \in Seq(S)
    OBVIOUS
  <1>2. 1..Len(f) = 1..n /\ Len(f) \in Nat
    BY <1>1
  <1>3. QED
    BY <1>1, <1>2

LEMMA AppendIsFunction ==
    ASSUME NEW S, NEW s \in Seq(S), NEW e \in S
    PROVE  /\ Append(s, e) \in [1..Len(s) + 1 -> S]
           /\ Append(s, e)[Len(s) + 1] = e
           /\ \A i \in 1..Len(s): Append(s, e)[i] = s[i]
  <1>1. Append(s, e) \in Seq(S) /\ Len(Append(s, e)) = Len(s) + 1
    BY AppendProperties
  <1>2. Append(s, e) \in [1..Len(s) + 1 -> S]
    BY <1>1, LenProperties
  <1>3. QED
    BY <1>2, AppendProperties

LEMMA LedgerLength ==
    ASSUME TypeOK
    PROVE  /\ Ledger \in Seq([turn: Turns, basis: Nat])
           /\ Len(Ledger) = Len(deltas)
  <1>1. deltas \in Seq(Delta) /\ Len(deltas) \in Nat
    BY DEF TypeOK
  <1>2. \A i \in 1..Len(deltas): deltas[i] \in Delta
    BY <1>1
  <1>3. \A i \in 1..Len(deltas): deltas[i].turn \in Turns /\ deltas[i].base \in Nat
    BY <1>2 DEF Delta
  <1>4. Ledger \in [1..Len(deltas) -> [turn: Turns, basis: Nat]]
    BY <1>3 DEF Ledger
  <1>5. QED
    BY <1>1, <1>4, FunctionIsSeq

LEMMA AppliedIsCommitted ==
    ASSUME TypeOK, NEW t \in Turns
    PROVE  Promise!Applied(t) <=> Committed(t)
  BY LedgerLength DEF Promise!Applied, Committed, Ledger

\* The step SessionLedger is to see: one of its actions, or none.
PromiseStep == [Promise!Next]_(Promise!ledgerVars)

LEMMA QuietStep ==
    ASSUME UNCHANGED <<exists, deltas, reply>>
    PROVE  PromiseStep
  BY DEF PromiseStep, Promise!ledgerVars

\* All that a turn does to its answer: it keeps it, or gives one that fits
\* what has become of the turn.
Answers(t) ==
    \/ reply' = reply
    \/ /\ reply[t] = "none"
       /\ \A u \in Turns \ {t}: reply'[u] = reply[u]
       /\ \/ reply'[t] = "ok" /\ (exists => Committed(t))
          \/ reply'[t] \in Refusals /\ ~Committed(t)
          \/ reply'[t] \in Ambiguous

LEMMA AnswerStep ==
    ASSUME TypeOK, NEW t \in Turns, Answers(t), UNCHANGED <<exists, deltas>>
    PROVE  PromiseStep
  <1>1. CASE reply' = reply
    BY <1>1, QuietStep
  <1>2. CASE reply' # reply
    <2>1. /\ reply[t] = "none"
          /\ \A u \in Turns \ {t}: reply'[u] = reply[u]
          /\ \/ reply'[t] = "ok" /\ (exists => Committed(t))
             \/ reply'[t] \in Refusals /\ ~Committed(t)
             \/ reply'[t] \in Ambiguous
      BY <1>2 DEF Answers
    <2>2. Verdict[t] = "pending"
      BY <2>1 DEF Verdict, VerdictOf, Ambiguous
    <2>3. \A u \in Turns \ {t}: Verdict'[u] = Verdict[u]
      BY <2>1 DEF Verdict
    <2>4. UNCHANGED <<exists, Ledger>>
      BY DEF Ledger
    <2>5. CASE reply'[t] = "ok"
      <3>1. Verdict' = [Verdict EXCEPT ![t] = "accepted"]
        BY <2>3, <2>5 DEF Verdict, VerdictOf, Ambiguous
      <3>2. Promise!Accept(t)
        BY <2>1, <2>2, <2>4, <2>5, <3>1, AppliedIsCommitted
           DEF Promise!Accept, Refusals, Ambiguous, Verdict, Ledger
      <3>3. QED
        BY <3>2 DEF PromiseStep, Promise!Next
    <2>6. CASE reply'[t] \in Refusals
      <3>1. Verdict' = [Verdict EXCEPT ![t] = "rejected"]
        BY <2>3, <2>6 DEF Verdict, VerdictOf, Refusals, Ambiguous
      <3>2. Promise!Reject(t)
        BY <2>1, <2>2, <2>4, <2>6, <3>1, AppliedIsCommitted
           DEF Promise!Reject, Refusals, Ambiguous, Verdict, Ledger
      <3>3. QED
        BY <3>2 DEF PromiseStep, Promise!Next
    <2>7. CASE reply'[t] \in Ambiguous
      <3>1. Verdict' = [u \in Turns |-> IF u \in {t} THEN "unknown" ELSE Verdict[u]]
        BY <2>3, <2>7 DEF Verdict, VerdictOf, Ambiguous
      <3>2. Promise!Abandon({t})
        BY <2>2, <2>4, <3>1 DEF Promise!Abandon, Verdict, Ledger
      <3>3. QED
        BY <3>2 DEF PromiseStep, Promise!Next
    <2>8. QED
      BY <2>1, <2>5, <2>6, <2>7
  <1>3. QED
    BY <1>1, <1>2

\* Turns that vanish are abandoned, but for those answered before.
LEMMA VanishStep ==
    ASSUME TypeOK, NEW gone, Vanish(gone), UNCHANGED <<exists, deltas>>
    PROVE  PromiseStep
  <1> DEFINE lost == {t \in Turns: t \in gone /\ reply[t] = "none"}
  <1>1. \A t \in lost: Verdict[t] = "pending"
    BY DEF Verdict, VerdictOf, Ambiguous
  <1>2. \A t \in Turns: reply'[t] = IF t \in lost THEN "gone" ELSE reply[t]
    BY DEF Vanish
  <1>3. Verdict' = [t \in Turns |-> IF t \in lost THEN "unknown" ELSE Verdict[t]]
    BY <1>2 DEF Verdict, VerdictOf, Ambiguous
  <1>4. Promise!Abandon(lost)
    BY <1>1, <1>3 DEF Promise!Abandon, Verdict
  <1>5. lost \in SUBSET Turns
    OBVIOUS
  <1>6. QED
    BY <1>4, <1>5 DEF PromiseStep, Promise!Next

\* A commit is the moment a turn takes effect, with or without its client.
LEMMA CommitStep ==
    ASSUME TypeOK, AnswerInv, HistoryInv, CommitInv, NEW t \in Turns,
           Commit(t) \/ StrayCommit(t)
    PROVE  PromiseStep
  <1> DEFINE row   == Row(t)
             entry == [turn |-> t, basis |-> Len(Ledger)]
             n     == Len(deltas)
  <1>1. /\ StoreTurn(t) /\ UNCHANGED <<exists, reply>>
        /\ pc[t] = "updated" \/ t \in strayCommits
    BY DEF Commit, StrayCommit, Advance, pipelineVars
  <1>2. exists /\ base[t] = n
    BY <1>1 DEF HistoryInv, LogInv, TransactionInv, HasBegun, Committing, InTransaction
  <1>3. ~Committed(t) /\ (reply[t] = "none" \/ reply[t] \in Ambiguous)
    BY <1>1 DEF AnswerInv, CommitInv, Ended, PostCommit
  <1>4. Verdict[t] \in {"pending", "unknown"} /\ ~Promise!Applied(t)
    BY <1>3, AppliedIsCommitted DEF Verdict, VerdictOf, Ambiguous
  <1>5. /\ deltas \in Seq(Delta) /\ n \in Nat
        /\ Len(deltas') = n + 1
        /\ deltas'[n + 1] = row /\ row.turn = t /\ row.base = n
        /\ \A i \in 1..n: deltas'[i] = deltas[i]
    BY <1>1, <1>2, StoredType DEF TypeOK, Row
  <1> HIDE DEF row
  <1>6. Ledger' = Append(Ledger, entry)
    <2> DEFINE S == [turn: Turns, basis: Nat]
    <2>1. Ledger \in Seq(S) /\ Len(Ledger) = n
      BY LedgerLength
    <2>2. entry \in S
      BY <1>5, <2>1
    <2>3. /\ Append(Ledger, entry) \in [1..n + 1 -> S]
          /\ Append(Ledger, entry)[n + 1] = entry
          /\ \A i \in 1..n: Append(Ledger, entry)[i] = Ledger[i]
      <3> HIDE DEF entry, S
      <3>1. QED
        BY <2>1, <2>2, AppendIsFunction
    <2>4. Ledger' = [i \in 1..n + 1 |->
                        [turn |-> deltas'[i].turn, basis |-> deltas'[i].base]]
      BY <1>5 DEF Ledger
    <2>5. \A i \in 1..n: Ledger'[i] = Ledger[i]
      BY <1>5, <2>4 DEF Ledger
    <2>6. Ledger'[n + 1] = entry
      BY <1>2, <1>5, <2>1, <2>4
    <2>7. \A i \in 1..n + 1: i \in 1..n \/ i = n + 1
      BY <1>5
    <2>8. \A i \in 1..n + 1: Ledger'[i] = Append(Ledger, entry)[i]
      BY <2>3, <2>5, <2>6, <2>7
    <2> HIDE DEF entry
    <2>9. QED
      BY <2>3, <2>4, <2>8
  <1>7. Promise!Apply(t)
    BY <1>1, <1>2, <1>4, <1>6 DEF Promise!Apply, Verdict, Ledger
  <1>8. QED
    BY <1>7 DEF PromiseStep, Promise!Next


\* A step of the pipeline answers what CommitInv says is true.
LEMMA PipelineStepAnswers ==
    ASSUME TypeOK, AnswerInv, CommitInv, NEW t \in Turns, PipelineStep(t)
    PROVE  Answers(t)
  <1>1. PipelineMove(t)
    BY PipelineStepMove
  <1>2. /\ \A u \in Turns \ {t}: reply'[u] = reply[u]
        /\ reply \in [Turns -> Replies] /\ reply' \in [Turns -> Replies]
    BY <1>1, PipelineStepType DEF PipelineMove, TypeOK, PipelineTypeOK
  <1>3. CASE reply'[t] = reply[t]
    BY <1>2, <1>3 DEF Answers
  <1>4. CASE reply'[t] # reply[t]
    <2>1. /\ pc[t] \notin Ended
          /\ \/ reply'[t] = "ok" /\ pc[t] = "respond"
             \/ reply'[t] \in Refusals /\ pc[t] \in Unloaded \cup Loaded
             \/ reply'[t] \in Ambiguous
      BY <1>1, <1>4 DEF PipelineMove, Moves
    <2>2. reply[t] = "none"
      BY <2>1 DEF AnswerInv
    <2>3. pc[t] = "respond" => (exists => Committed(t))
      BY DEF CommitInv, PostCommit
    <2>4. pc[t] \in Unloaded \cup Loaded => ~Committed(t)
      BY DEF CommitInv, PostCommit, Ended, Unloaded, Loaded
    <2>5. QED
      BY <1>2, <2>1, <2>2, <2>3, <2>4 DEF Answers
  <1>5. QED
    BY <1>3, <1>4

\* A step of the store that fails answers with a refusal before the commit,
\* or with an error that says nothing.
LEMMA StoreFailAnswers ==
    ASSUME TypeOK, AnswerInv, CommitInv, NEW t \in Turns, NEW error, Fail(t, error),
           \/ error = "notfound" /\ pc[t] = "read_world"
           \/ error = "store" /\ pc[t] \in {"acquire", "persist", "inserted"}
    PROVE  Answers(t)
  <1>1. reply' = [reply EXCEPT ![t] = error]
    BY DEF Fail, Finish
  <1>2. reply[t] = "none"
    BY DEF AnswerInv, Ended
  <1>3. pc[t] = "read_world" => ~Committed(t)
    BY DEF CommitInv, PostCommit, Ended
  <1>4. QED
    BY <1>1, <1>2, <1>3 DEF Answers, Refusals, Ambiguous, TypeOK, PipelineTypeOK

LEMMA StoreStepPromise ==
    ASSUME TypeOK, AnswerInv, HistoryInv, CommitInv, NEW t \in Turns, StoreStep(t)
    PROVE  PromiseStep
  <1> USE DEF storeVars
  <1>1. CASE Acquire(t)
    BY <1>1, QuietStep DEF Acquire, Acquired
  <1>2. CASE StrayAcquire(t)
    BY <1>2, QuietStep DEF StrayAcquire, pipelineVars
  <1>3. CASE ReleaseStep(t)
    BY <1>3, QuietStep DEF ReleaseStep, RunRelease, ReleaseFails, pipelineVars
  <1>4. CASE ReadWorldState(t)
    <2>1. Answers(t)
      BY <1>4, StoreFailAnswers DEF ReadWorldState, Advance, Answers
    <2>2. QED
      BY <1>4, <2>1, AnswerStep DEF ReadWorldState
  <1>5. CASE ReadMessages(t)
    BY <1>5, QuietStep DEF ReadMessages, Advance
  <1>6. CASE BeginAndInsert(t)
    <2>1. Answers(t)
      BY <1>6, StoreFailAnswers DEF BeginAndInsert, Advance, Answers
    <2>2. QED
      BY <1>6, <2>1, AnswerStep DEF BeginAndInsert
  <1>7. CASE UpdateWorldState(t)
    <2>1. Answers(t)
      BY <1>7, StoreFailAnswers DEF UpdateWorldState, Advance, Answers
    <2>2. QED
      BY <1>7, <2>1, AnswerStep DEF UpdateWorldState, PipelineOnly
  <1>8. CASE Commit(t) \/ StrayCommit(t)
    BY <1>8, CommitStep
  <1>9. QED
    BY <1>1, <1>2, <1>3, <1>4, <1>5, <1>6, <1>7, <1>8 DEF StoreStep, StrayStep

LEMMA PromiseInit ==
    Init => Promise!Init
  <1> SUFFICES ASSUME Init
               PROVE  Promise!Init
    OBVIOUS
  <1>1. exists = TRUE
    BY DEF Init
  <1>2. Ledger = <<>>
    BY DEF Init, Ledger
  <1>3. Verdict = [t \in Turns |-> "pending"]
    BY DEF Init, PipelineInit, Verdict, VerdictOf, Ambiguous
  <1>4. QED
    BY <1>1, <1>2, <1>3 DEF Promise!Init, Ledger, Verdict

\* The stored session keeps the promise of SessionLedger: every turn takes
\* effect at most once and on all that was there before it, "ok" is only said
\* of turns that took effect, a refusal only of turns that never will. Turns
\* whose client has no answer, or that of a storage error, may still do so.
THEOREM Refinement == Spec => ImplementsLedger
  <1>1. TypeOK /\ AnswerInv /\ HistoryInv /\ CommitInv /\ [Next]_vars => PromiseStep
    <2> SUFFICES ASSUME TypeOK, AnswerInv, HistoryInv, CommitInv, [Next]_vars
                 PROVE  PromiseStep
      OBVIOUS
    <2> USE DEF storeVars
    <2>1. ASSUME NEW t \in Turns, PipelineStep(t)
          PROVE  PromiseStep
      BY <2>1, PipelineStepAnswers, AnswerStep, PipelineStepKeeps DEF RowsKept
    <2>2. CASE \E t \in Turns: StoreStep(t)
      BY <2>2, StoreStepPromise
    <2>3. ASSUME NEW p \in Processes, Crash(p)
          PROVE  PromiseStep
      <3>1. UNCHANGED <<exists, deltas>>
        BY <2>3, CrashKeeps DEF RowsKept
      <3>2. QED
        BY <2>3, <3>1, VanishStep DEF Crash
    <2>4. CASE FiveMinutesPass
      BY <2>4, QuietStep DEF FiveMinutesPass, pipelineVars
    <2>5. CASE DeleteSession
      <3>1. exists /\ exists' = FALSE /\ reply' = reply
        BY <2>5 DEF DeleteSession
      <3>2. Ledger' = <<>>
        BY <2>5 DEF DeleteSession, Ledger
      <3>3. Promise!Delete
        BY <3>1, <3>2 DEF Promise!Delete, Ledger
      <3>4. QED
        BY <3>3 DEF PromiseStep, Promise!Next
    <2>6. CASE UNCHANGED vars
      BY <2>6, QuietStep DEF vars, pipelineVars
    <2>7. QED
      BY <2>1, <2>2, <2>3, <2>4, <2>5, <2>6, NextCases
  <1>2. QED
    BY <1>1, PromiseInit, TypeCorrect, AnswerCorrect, HistoryCorrect, CommitCorrect,
       PTL DEF Spec, ImplementsLedger, Promise!Spec, PromiseStep

-----------------------------------------------------------------------------
(* The log of a turn.                                                      *)

Finishing == {"turn_finished", "turn_lock_releasing"}

\* A step takes no turn back, and logs an end only of a turn past its commit.
LEMMA EndsAreTrue ==
    ASSUME CommitInv, FinishedIsCommitted,
           \A u \in Turns: Committed(u) => Committed(u)',
           \A u \in Turns: \/ logged'[u] = logged[u]
                           \/ logged'[u] \notin Finishing
                           \/ exists /\ pc[u] \in PostCommit
    PROVE  FinishedIsCommitted'
  BY DEF FinishedIsCommitted, CommitInv, Finishing

LEMMA RecordedEnd ==
    ASSUME TypeOK, NEW t \in Turns, RecordEvent(t), NEW u \in Turns
    PROVE  \/ logged'[u] = logged[u]
           \/ logged'[u] \notin Finishing
           \/ pc[u] \in PostCommit
  <1>1. PICK step \in EventSteps(t): pc[t] = step[1] /\ Log(t, step[2])
    BY DEF RecordEvent
  <1>2. step[2] \in Finishing => step[1] \in PostCommit
    BY DEF EventSteps, Finishing, PostCommit
  <1>3. QED
    BY <1>1, <1>2 DEF Log, TypeOK, PipelineTypeOK

LEMMA LoggedOtherwise ==
    ASSUME TypeOK, NEW t \in Turns, NEW u \in Turns,
           EngineStep(t) \/ RepairUnusable(t) \/ StreamExtractFailed(t)
    PROVE  logged'[u] = logged[u] \/ logged'[u] \notin Finishing
  BY DEF EngineStep, Narrate, NarrateFailed, StreamTokens, StreamBroken, ExtractDelta,
         ExtractFailed, ParseDelta, RepairDelta, RepairCallFailed, ValidateDelta,
         DeltaInvalid, CaptureUsage, Respond, CloseStream, RepairUnusable,
         StreamExtractFailed, MayLog, Log, Fail, Advance, Finishing, TypeOK, PipelineTypeOK

LEMMA PipelineStepLogged ==
    ASSUME TypeOK, NEW t \in Turns, PipelineStep(t), NEW u \in Turns
    PROVE  \/ logged'[u] = logged[u]
           \/ logged'[u] \notin Finishing
           \/ exists /\ pc[u] \in PostCommit
  <1>1. CASE RecordEvent(t) /\ EventSaved
    BY <1>1, RecordedEnd DEF EventSaved
  <1>2. CASE EngineStep(t) \/ RepairUnusable(t) \/ StreamExtractFailed(t)
    BY <1>2, LoggedOtherwise
  <1>3. CASE UNCHANGED logged
    BY <1>3
  <1>4. QED
    BY <1>1, <1>2, <1>3
       DEF PipelineStep, Resolve, ResolveProvider, ProviderMissing, SessionUnknown, Event,
           EventFailed, Engine, ErrorEvent, RepairErrorLost, ExtractErrorLost, StoreFault,
           AcquireRefused, Refused, ReadSession, CommitLost, Disconnect, Cancel, Vanish,
           Fail, Advance

LEMMA StoreStepLogged ==
    ASSUME NEW t \in Turns, StoreStep(t)
    PROVE  UNCHANGED logged
  BY DEF StoreStep, Acquire, Acquired, StrayStep, StrayAcquire, StrayCommit, Fail,
         ReleaseStep, RunRelease, ReleaseFails, pipelineVars, ReadWorldState, ReadMessages,
         BeginAndInsert, UpdateWorldState, Commit, Advance

LEMMA StoreStepCommitted ==
    ASSUME TypeOK, NEW t \in Turns, StoreStep(t), NEW u \in Turns, Committed(u)
    PROVE  Committed(u)'
  <1>1. CASE Commit(t) \/ StrayCommit(t)
    <2>1. \A i \in 1..Len(deltas): i \in 1..Len(deltas') /\ deltas'[i] = deltas[i]
      BY <1>1, StoredType DEF Commit, StrayCommit
    <2>2. QED
      BY <2>1 DEF Committed
  <1>2. CASE UNCHANGED deltas
    BY <1>2 DEF Committed
  <1>3. QED
    BY <1>1, <1>2
       DEF StoreStep, Acquire, StrayStep, StrayAcquire, ReleaseStep, RunRelease, ReleaseFails,
           ReadWorldState, ReadMessages, BeginAndInsert, UpdateWorldState, PipelineOnly, storeVars

\* What the log says of a turn's end is true, whatever is lost on the way: a
\* turn_finished row of a session that is there is that of a committed turn.
THEOREM LogIsTrue == Spec => []FinishedIsCommitted
  <1>1. Init => FinishedIsCommitted
    BY DEF Init, PipelineInit, FinishedIsCommitted
  <1>2. TypeOK /\ CommitInv /\ FinishedIsCommitted /\ [Next]_vars => FinishedIsCommitted'
    <2> SUFFICES ASSUME TypeOK, CommitInv, FinishedIsCommitted, [Next]_vars
                 PROVE  FinishedIsCommitted'
      OBVIOUS
    <2>1. ASSUME NEW t \in Turns, PipelineStep(t)
          PROVE  FinishedIsCommitted'
      <3>1. \A u \in Turns: Committed(u) => Committed(u)'
        BY <2>1, PipelineStepKeeps DEF RowsKept, Committed
      <3>2. QED
        BY <2>1, <3>1, PipelineStepLogged, EndsAreTrue
    <2>2. ASSUME NEW t \in Turns, StoreStep(t)
          PROVE  FinishedIsCommitted'
      BY <2>2, StoreStepLogged, StoreStepCommitted, EndsAreTrue
    <2>3. ASSUME NEW p \in Processes, Crash(p)
          PROVE  FinishedIsCommitted'
      BY <2>3, CrashKeeps, EndsAreTrue DEF Crash, Vanish, RowsKept, Committed
    <2>4. CASE FiveMinutesPass
      BY <2>4, EndsAreTrue DEF FiveMinutesPass, pipelineVars, storeVars, Committed
    <2>5. CASE DeleteSession
      BY <2>5 DEF DeleteSession, FinishedIsCommitted
    <2>6. CASE UNCHANGED vars
      BY <2>6, EndsAreTrue DEF vars, pipelineVars, storeVars, Committed
    <2>7. QED
      BY <2>1, <2>2, <2>3, <2>4, <2>5, <2>6, NextCases
  <1>3. QED
    BY <1>1, <1>2, TypeCorrect, CommitCorrect, PTL DEF Spec

=============================================================================
