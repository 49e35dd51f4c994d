------------------------- MODULE MemorySession_proofs -------------------------
(***************************************************************************)
(* Proofs about MemorySession for any number of turns: without a version   *)
(* check the history is serial because the lock is exact, and the lock is  *)
(* exact because it is held by the one guard there is.  It keeps the       *)
(* promise of SessionLedger.                                               *)
(***************************************************************************)
EXTENDS MemorySession, TurnPipeline_proofs, SequenceTheorems

-----------------------------------------------------------------------------
\* The steps of a turn that leave the session's rows alone, and the others.

PipelineStep(t) ==
    \/ Resolve(t) \/ Event(t) \/ Engine(t) \/ ErrorEvent(t)
    \/ AcquireRefused(t) \/ Disconnect(t)

StoreStep(t) == Acquire(t) \/ Load(t) \/ Persist(t)

LEMMA NextCases ==
    Next <=> \/ \E t \in Turns: PipelineStep(t) \/ StoreStep(t)
             \/ DeleteSession
             \/ RemoveScenario
             \/ InsertScenario
  BY DEF Next, TurnStep, PipelineStep, StoreStep

LEMMA PipelineStepOnly ==
    ASSUME NEW t \in Turns, PipelineStep(t)
    PROVE  PipelineOnly
  BY DEF PipelineStep, Resolve, Event, Engine, ErrorEvent, AcquireRefused, Disconnect

LEMMA PipelineStepType ==
    ASSUME TypeOK, NEW t \in Turns, PipelineStep(t)
    PROVE  PipelineTypeOK'
  <1> USE DEF TypeOK, Stages, WorkStages, StoreStages, EventStages, Replies
  <1>1. CASE Resolve(t)
    BY <1>1, AdvanceType, FailType
       DEF Resolve, ResolveProvider, ProviderMissing, SessionUnknown
  <1>2. CASE Event(t)
    BY <1>2, RecordEventType DEF Event
  <1>3. CASE Engine(t)
    BY <1>3, EngineStepType DEF Engine
  <1>4. CASE ErrorEvent(t)
    BY <1>4, FinishType, LogType DEF ErrorEvent, RepairUnusable, StreamExtractFailed, Events
  <1>5. CASE AcquireRefused(t)
    BY <1>5, FailType DEF AcquireRefused, Refused
  <1>6. CASE Disconnect(t)
    BY <1>6, VanishType DEF Disconnect, Cancel
  <1>7. QED
    BY <1>1, <1>2, <1>3, <1>4, <1>5, <1>6 DEF PipelineStep

LEMMA StoreStepType ==
    ASSUME TypeOK, NEW t \in Turns, StoreStep(t)
    PROVE  TypeOK'
  <1> USE DEF TypeOK, storeVars, Stages, WorkStages, StoreStages, EventStages, Replies
  <1>1. CASE Acquire(t)
    BY <1>1 DEF Acquire, Acquired, GoTo, PipelineTypeOK
  <1>2. CASE Load(t)
    <2>1. PipelineTypeOK'
      BY <1>2, AdvanceType, FailType DEF Load
    <2>2. Len(rows) \in Nat
      OBVIOUS
    <2>3. base' \in [Turns -> Nat] /\ seen' \in [Turns -> Nat]
      BY <1>2, <2>2 DEF Load
    <2>4. QED
      BY <1>2, <2>1, <2>3 DEF Load, ReleaseDropped
  <1>3. CASE Persist(t)
    <2> DEFINE row == [turn |-> t, base |-> base[t], seen |-> seen[t]]
    <2>1. PipelineTypeOK'
      BY <1>3, AdvanceType DEF Persist
    <2>2. row \in Row
      BY DEF Row
    <2>3. rows' = Append(rows, row)
      BY <1>3 DEF Persist
    <2>4. rows' \in Seq(Row)
      BY <2>2, <2>3
    <2>5. world' \in Nat /\ late' \in Nat
      BY <1>3 DEF Persist
    <2>6. QED
      BY <1>3, <2>1, <2>4, <2>5 DEF Persist
  <1>4. QED
    BY <1>1, <1>2, <1>3 DEF StoreStep

\* Every variable keeps its type.
THEOREM TypeCorrect == Spec => []TypeOK
  <1>1. Init => TypeOK
    <2> SUFFICES ASSUME Init
                 PROVE  TypeOK
      OBVIOUS
    <2>1. PipelineTypeOK
      BY DEF Init, PipelineInit, PipelineTypeOK, Stages, WorkStages, Replies, Events
    <2>2. rows \in Seq(Row)
      BY DEF Init
    <2>3. /\ exists \in BOOLEAN /\ scenario \in BOOLEAN /\ locked \in BOOLEAN
          /\ world \in Nat /\ late \in Nat
          /\ base \in [Turns -> Nat] /\ seen \in [Turns -> Nat]
      BY DEF Init
    <2>4. QED
      BY <2>1, <2>2, <2>3 DEF TypeOK
  <1>2. TypeOK /\ [Next]_vars => TypeOK'
    <2> SUFFICES ASSUME TypeOK, [Next]_vars
                 PROVE  TypeOK'
      OBVIOUS
    <2>1. CASE \E t \in Turns: PipelineStep(t)
      BY <2>1, PipelineStepType, PipelineStepOnly
         DEF PipelineOnly, ReleaseDropped, TypeOK, storeVars
    <2>2. CASE \E t \in Turns: StoreStep(t)
      BY <2>2, StoreStepType
    <2>3. CASE DeleteSession
      <3>1. PipelineTypeOK'
        BY <2>3 DEF DeleteSession, TypeOK, PipelineTypeOK, Events
      <3>2. <<>> \in Seq(Row)
        OBVIOUS
      <3>3. QED
        BY <2>3, <3>1, <3>2 DEF DeleteSession, TypeOK
    <2>4. CASE RemoveScenario \/ InsertScenario
      <3>1. PipelineTypeOK'
        BY <2>4 DEF RemoveScenario, InsertScenario, TypeOK, PipelineTypeOK, pipelineVars
      <3>2. scenario' \in BOOLEAN
        BY <2>4, Zenon DEF RemoveScenario, InsertScenario
      <3>3. late' \in Nat
        BY <2>4 DEF RemoveScenario, InsertScenario, TypeOK
      <3>4. QED
        BY <2>4, <3>1, <3>2, <3>3 DEF RemoveScenario, InsertScenario, TypeOK
    <2>5. CASE UNCHANGED vars
      BY <2>5 DEF vars, TypeOK, PipelineTypeOK, pipelineVars, storeVars
    <2>6. QED
      BY <2>1, <2>2, <2>3, <2>4, <2>5, NextCases
  <1>3. QED
    BY <1>1, <1>2, PTL DEF Spec

-----------------------------------------------------------------------------
(* The lock.  A turn from "acquired" on holds a guard, there is one guard  *)
(* at most, and the session is in locked_sessions exactly while there is.  *)

Holding == {"acquired", "load"} \cup Loaded \cup PostCommit

LockInv ==
    /\ \A t \in Turns: pc[t] \in Holding => guard[t]
    /\ \A t, u \in Turns: guard[t] /\ guard[u] => t = u
    /\ \A t \in Turns: guard[t] => locked

\* A step of t, and of nobody else, that may drop t's guard but, as long as t
\* goes on with what it locked the session for, does not.
Keeps(t) ==
    /\ \A u \in Turns \ {t}: pc'[u] = pc[u] /\ guard'[u] = guard[u]
    /\ guard'[t] => guard[t]
    /\ pc'[t] \in Holding => pc[t] \in Holding /\ guard'[t] = guard[t]
    /\ pc'[t] \in Loaded => pc[t] \in Loaded

LEMMA AdvanceKeeps ==
    ASSUME TypeOK, NEW t \in Turns, NEW from, NEW to, Advance(t, from, to),
           to \in Holding => from \in Holding,
           to \in Loaded => from \in Loaded
    PROVE  Keeps(t)
  BY DEF TypeOK, PipelineTypeOK, Keeps, Advance, GoTo

LEMMA FinishKeeps ==
    ASSUME TypeOK, NEW t \in Turns, NEW error, Finish(t, error)
    PROVE  Keeps(t)
  <1>1. pc'[t] \notin Holding
    BY DEF TypeOK, PipelineTypeOK, Finish, GoTo, Holding, Loaded, PostCommit
  <1>2. \A u \in Turns \ {t}: pc'[u] = pc[u] /\ guard'[u] = guard[u]
    BY DEF TypeOK, PipelineTypeOK, Finish, GoTo
  <1>3. guard'[t] => guard[t]
    BY DEF TypeOK, PipelineTypeOK, Finish
  <1>4. QED
    BY <1>1, <1>2, <1>3 DEF Keeps, Holding

LEMMA VanishKeeps ==
    ASSUME TypeOK, NEW t \in Turns, Vanish({t})
    PROVE  Keeps(t)
  <1>1. pc'[t] \notin Holding
    BY DEF Vanish, Holding, Loaded, PostCommit
  <1>2. \A u \in Turns: guard'[u] <=> guard[u] /\ u # t
    BY DEF Vanish
  <1>3. \A u \in Turns: guard[u] \in BOOLEAN /\ guard'[u] \in BOOLEAN
    BY DEF TypeOK, PipelineTypeOK, Vanish
  <1>4. \A u \in Turns \ {t}: guard'[u] = guard[u]
    BY <1>2, <1>3
  <1>5. \A u \in Turns \ {t}: pc'[u] = pc[u]
    BY DEF Vanish
  <1>6. QED
    BY <1>1, <1>2, <1>4, <1>5 DEF Keeps, Holding

LEMMA RecordEventKeeps ==
    ASSUME TypeOK, NEW t \in Turns, RecordEvent(t)
    PROVE  Keeps(t)
  <1>1. PICK step \in EventSteps(t):
            /\ pc[t] = step[1]
            /\ GoTo(t, step[3])
            /\ UNCHANGED <<guard, reply>>
    BY DEF RecordEvent
  <1>2. /\ step[3] \in Holding => step[1] \in Holding
        /\ step[3] \in Loaded => step[1] \in Loaded
    BY DEF EventSteps, Holding, Loaded, PostCommit
  <1>3. QED
    BY <1>1, <1>2 DEF TypeOK, PipelineTypeOK, Keeps, GoTo

LEMMA EngineStepKeeps ==
    ASSUME TypeOK, NEW t \in Turns, EngineStep(t)
    PROVE  Keeps(t)
  <1> USE DEF Holding, Loaded, PostCommit
  <1>1. CASE NarrateFailed(t) \/ StreamBroken(t) \/ Respond(t)
    BY <1>1, FinishKeeps DEF NarrateFailed, StreamBroken, Respond
  <1>2. CASE ExtractFailed(t) \/ RepairCallFailed(t) \/ DeltaInvalid(t)
    BY <1>2, FinishKeeps DEF ExtractFailed, RepairCallFailed, DeltaInvalid, Fail
  <1>3. CASE Narrate(t) \/ StreamTokens(t) \/ ExtractDelta(t)
    BY <1>3, AdvanceKeeps DEF Narrate, StreamTokens, ExtractDelta
  <1>4. CASE ParseDelta(t) \/ RepairDelta(t) \/ ValidateDelta(t)
    BY <1>4, AdvanceKeeps DEF ParseDelta, RepairDelta, ValidateDelta
  <1>5. CASE CaptureUsage(t)
    BY <1>5 DEF CaptureUsage, GoTo, Keeps, TypeOK, PipelineTypeOK
  <1>6. CASE CloseStream(t)
    BY <1>6 DEF CloseStream, GoTo, Keeps, TypeOK, PipelineTypeOK
  <1>7. QED
    BY <1>1, <1>2, <1>3, <1>4, <1>5, <1>6 DEF EngineStep

LEMMA PipelineStepKeeps ==
    ASSUME TypeOK, NEW t \in Turns, PipelineStep(t)
    PROVE  Keeps(t)
  <1>1. CASE Resolve(t)
    BY <1>1, AdvanceKeeps, FinishKeeps
       DEF Resolve, ResolveProvider, ProviderMissing, SessionUnknown, Fail,
           Holding, Loaded, PostCommit
  <1>2. CASE Event(t)
    BY <1>2, RecordEventKeeps DEF Event
  <1>3. CASE Engine(t)
    BY <1>3, EngineStepKeeps DEF Engine
  <1>4. CASE ErrorEvent(t)
    BY <1>4, FinishKeeps DEF ErrorEvent, RepairUnusable, StreamExtractFailed
  <1>5. CASE AcquireRefused(t)
    BY <1>5, FinishKeeps DEF AcquireRefused, Refused, Fail
  <1>6. CASE Disconnect(t)
    BY <1>6, VanishKeeps DEF Disconnect, Cancel
  <1>7. QED
    BY <1>1, <1>2, <1>3, <1>4, <1>5, <1>6 DEF PipelineStep

LEMMA StoreStepKeeps ==
    ASSUME TypeOK, NEW t \in Turns, Load(t) \/ Persist(t)
    PROVE  /\ \A u \in Turns \ {t}: pc'[u] = pc[u] /\ guard'[u] = guard[u]
           /\ guard'[t] => guard[t]
           /\ pc'[t] \in Holding => pc[t] \in Holding /\ guard'[t] = guard[t]
  <1> USE DEF TypeOK, PipelineTypeOK, Holding, Loaded, PostCommit
  <1>1. CASE Load(t)
    <2>1. CASE Advance(t, "load", "loaded")
      BY <2>1 DEF Advance, GoTo
    <2>2. CASE Fail(t, "notfound")
      BY <2>2, FinishKeeps DEF Fail, Keeps
    <2>3. QED
      BY <1>1, <2>1, <2>2 DEF Load
  <1>2. CASE Persist(t)
    BY <1>2 DEF Persist, Advance, GoTo
  <1>3. QED
    BY <1>1, <1>2

\* What a step that keeps guards and releases the lock with them does to LockInv.
LEMMA LockKept ==
    ASSUME TypeOK, LockInv, NEW t \in Turns,
           \A u \in Turns \ {t}: pc'[u] = pc[u] /\ guard'[u] = guard[u],
           guard'[t] => guard[t],
           pc'[t] \in Holding => pc[t] \in Holding /\ guard'[t] = guard[t],
           ReleaseDropped \/ (UNCHANGED locked /\ guard'[t] = guard[t])
    PROVE  LockInv'
  <1>1. \A u \in Turns: guard'[u] => guard[u]
    OBVIOUS
  <1>2. \A u \in Turns: pc'[u] \in Holding => guard'[u]
    BY DEF LockInv
  <1>3. ASSUME NEW u \in Turns, guard'[u]
        PROVE  locked'
    <2>1. \A v \in Turns: guard[v] => v = u
      BY <1>1, <1>3 DEF LockInv
    <2>2. ~ SomeGuardDropped
      BY <1>3, <2>1 DEF SomeGuardDropped
    <2>3. locked
      BY <1>1, <1>3 DEF LockInv
    <2>4. QED
      BY <2>2, <2>3 DEF ReleaseDropped
  <1>4. QED
    BY <1>1, <1>2, <1>3 DEF LockInv

LEMMA LockCorrect == Spec => []LockInv
  <1>1. Init => LockInv
    BY DEF Init, PipelineInit, LockInv, Holding, Loaded, PostCommit
  <1>2. TypeOK /\ LockInv /\ [Next]_vars => LockInv'
    <2> SUFFICES ASSUME TypeOK, LockInv, [Next]_vars
                 PROVE  LockInv'
      OBVIOUS
    <2>1. ASSUME NEW t \in Turns, PipelineStep(t)
          PROVE  LockInv'
      BY <2>1, PipelineStepKeeps, PipelineStepOnly, LockKept DEF Keeps, PipelineOnly
    <2>2. ASSUME NEW t \in Turns, Acquire(t)
          PROVE  LockInv'
      <3>1. /\ \A u \in Turns \ {t}: pc'[u] = pc[u] /\ guard'[u] = guard[u]
            /\ guard'[t] /\ locked' /\ ~locked
        BY <2>2, Zenon DEF Acquire, Acquired, GoTo, TypeOK, PipelineTypeOK
      <3>2. \A u \in Turns: ~ guard[u]
        BY <3>1 DEF LockInv
      <3>3. QED
        BY <3>1, <3>2 DEF LockInv
    <2>3. ASSUME NEW t \in Turns, Load(t)
          PROVE  LockInv'
      BY <2>3, StoreStepKeeps, LockKept DEF Load
    <2>4. ASSUME NEW t \in Turns, Persist(t)
          PROVE  LockInv'
      BY <2>4, StoreStepKeeps, LockKept DEF Persist, Advance
    <2>5. CASE DeleteSession \/ RemoveScenario \/ InsertScenario \/ UNCHANGED vars
      BY <2>5 DEF DeleteSession, RemoveScenario, InsertScenario, vars, pipelineVars, LockInv
    <2>6. QED
      BY <2>1, <2>2, <2>3, <2>4, <2>5, NextCases DEF StoreStep
  <1>3. QED
    BY <1>1, <1>2, TypeCorrect, PTL DEF Spec

-----------------------------------------------------------------------------
\* The history.  Nobody but the turn that has loaded the session persists, so
\* what it loaded is still what there is.

HistoryInv ==
    /\ SerialHistory
    /\ \A t \in Turns: exists /\ pc[t] \in Loaded => base[t] = Len(rows) /\ seen[t] = Len(rows)

LateInv ==
    /\ AtMostOneLateTurn
    /\ late = 1 => ~ (exists /\ scenario)
    /\ late = 1 => \A t \in Turns: pc[t] \notin Loaded

\* Only loading makes a turn one that has loaded; other turns' stages stay.
LEMMA PipelineStepHistory ==
    ASSUME TypeOK, HistoryInv, LateInv, NEW t \in Turns, PipelineStep(t)
    PROVE  HistoryInv' /\ LateInv'
  <1>1. /\ \A u \in Turns: pc'[u] \in Loaded => pc[u] \in Loaded
        /\ UNCHANGED <<storeVars, base, seen>>
    BY PipelineStepKeeps, PipelineStepOnly DEF Keeps, PipelineOnly
  <1>2. QED
    BY <1>1 DEF HistoryInv, LateInv, SerialHistory, AtMostOneLateTurn, storeVars

LEMMA LoadHistory ==
    ASSUME TypeOK, HistoryInv, LateInv, NEW t \in Turns, Load(t)
    PROVE  HistoryInv' /\ LateInv'
  <1> USE DEF HistoryInv, LateInv, SerialHistory, AtMostOneLateTurn, storeVars
  <1>1. CASE exists /\ scenario
    <2>1. /\ Advance(t, "load", "loaded")
          /\ base' = [base EXCEPT ![t] = world]
          /\ seen' = [seen EXCEPT ![t] = Len(rows)]
          /\ UNCHANGED storeVars
      BY <1>1 DEF Load
    <2>2. world = Len(rows)
      BY <1>1
    <2>3. base'[t] = Len(rows) /\ seen'[t] = Len(rows)
      BY <2>1, <2>2 DEF TypeOK
    <2>4. \A u \in Turns \ {t}: pc'[u] = pc[u] /\ base'[u] = base[u] /\ seen'[u] = seen[u]
      BY <2>1 DEF TypeOK, PipelineTypeOK, Advance, GoTo
    <2>5. HistoryInv'
      BY <2>1, <2>3, <2>4
    <2>6. LateInv'
      BY <1>1, <2>1
    <2>7. QED
      BY <2>5, <2>6
  <1>2. CASE ~ (exists /\ scenario)
    <2>1. Fail(t, "notfound") /\ UNCHANGED <<storeVars, base, seen>>
      BY <1>2 DEF Load
    <2>2. \A u \in Turns: pc'[u] \in Loaded => pc[u] \in Loaded
      BY <2>1, FinishKeeps DEF Fail, Keeps
    <2>3. QED
      BY <2>1, <2>2
  <1>3. QED
    BY <1>1, <1>2

LEMMA PersistHistory ==
    ASSUME TypeOK, LockInv, HistoryInv, LateInv, NEW t \in Turns, Persist(t)
    PROVE  HistoryInv' /\ LateInv'
  <1> DEFINE row == [turn |-> t, base |-> base[t], seen |-> seen[t]]
  <1>1. /\ pc[t] = "persist"
        /\ pc' = [pc EXCEPT ![t] = "persisted"]
        /\ world' = base[t] + 1
        /\ rows' = Append(rows, row)
        /\ late' = IF exists /\ scenario THEN late ELSE late + 1
        /\ UNCHANGED <<exists, scenario, base, seen>>
    BY DEF Persist, Advance, GoTo
  <1>2. pc[t] \in Loaded
    BY <1>1 DEF Loaded
  \* The others hold no guard.
  <1>3. \A u \in Turns: pc'[u] \notin Loaded
    <2> SUFFICES ASSUME NEW u \in Turns, pc'[u] \in Loaded
                 PROVE  FALSE
      OBVIOUS
    <2>1. CASE u = t
      BY <1>1, <2>1 DEF TypeOK, PipelineTypeOK, Loaded
    <2>2. CASE u # t
      <3>1. pc[u] \in Loaded
        BY <1>1, <2>2 DEF TypeOK, PipelineTypeOK
      <3>2. guard[u] /\ guard[t]
        BY <1>2, <3>1 DEF LockInv, Holding
      <3>3. QED
        BY <2>2, <3>2 DEF LockInv
    <2>3. QED
      BY <2>1, <2>2
  <1>4. ASSUME exists
        PROVE  SerialHistory'
    <2>1. /\ world = Len(rows)
          /\ \A i \in 1..Len(rows): rows[i].base = i - 1 /\ rows[i].seen = i - 1
          /\ base[t] = Len(rows) /\ seen[t] = Len(rows)
      BY <1>2, <1>4 DEF HistoryInv, SerialHistory
    <2>2. Len(rows') = Len(rows) + 1 /\ rows'[Len(rows) + 1] = row
      BY <1>1 DEF TypeOK
    <2>3. \A i \in 1..Len(rows): rows'[i] = rows[i]
      BY <1>1 DEF TypeOK
    <2>4. Len(rows) \in Nat
      BY DEF TypeOK
    <2>5. ASSUME NEW i \in 1..Len(rows')
          PROVE  rows'[i].base = i - 1 /\ rows'[i].seen = i - 1
      <3>1. CASE i = Len(rows) + 1
        BY <2>1, <2>2, <2>4, <3>1
      <3>2. CASE i # Len(rows) + 1
        <4>1. i \in 1..Len(rows)
          BY <2>2, <2>4, <3>2
        <4>2. QED
          BY <2>1, <2>3, <4>1
      <3>3. QED
        BY <3>1, <3>2
    <2>6. QED
      BY <1>1, <2>1, <2>2, <2>5 DEF SerialHistory
  <1>5. HistoryInv'
    BY <1>1, <1>3, <1>4 DEF HistoryInv, SerialHistory
  <1>6. LateInv'
    <2>1. late \in Nat /\ late <= 1
      BY DEF TypeOK, LateInv, AtMostOneLateTurn
    <2>2. late # 1
      BY <1>2 DEF LateInv
    <2>3. late = 0
      BY <2>1, <2>2
    <2>4. QED
      BY <1>1, <1>3, <2>3 DEF LateInv, AtMostOneLateTurn
  <1>7. QED
    BY <1>5, <1>6

LEMMA HistoryCorrect == Spec => [](HistoryInv /\ LateInv)
  <1>1. Init => HistoryInv /\ LateInv
    BY DEF Init, PipelineInit, HistoryInv, LateInv, SerialHistory, AtMostOneLateTurn, Loaded
  <1>2. TypeOK /\ LockInv /\ HistoryInv /\ LateInv /\ [Next]_vars => HistoryInv' /\ LateInv'
    <2> SUFFICES ASSUME TypeOK, LockInv, HistoryInv, LateInv, [Next]_vars
                 PROVE  HistoryInv' /\ LateInv'
      OBVIOUS
    <2> USE DEF HistoryInv, LateInv, SerialHistory, AtMostOneLateTurn
    <2>1. ASSUME NEW t \in Turns, PipelineStep(t)
          PROVE  HistoryInv' /\ LateInv'
      BY <2>1, PipelineStepHistory
    <2>2. ASSUME NEW t \in Turns, Acquire(t)
          PROVE  HistoryInv' /\ LateInv'
      <3>1. \A u \in Turns: pc'[u] \in Loaded => pc[u] \in Loaded
        BY <2>2 DEF Acquire, Acquired, GoTo, TypeOK, PipelineTypeOK, Loaded
      <3>2. QED
        BY <2>2, <3>1 DEF Acquire, storeVars
    <2>3. ASSUME NEW t \in Turns, Load(t)
          PROVE  HistoryInv' /\ LateInv'
      BY <2>3, LoadHistory
    <2>4. ASSUME NEW t \in Turns, Persist(t)
          PROVE  HistoryInv' /\ LateInv'
      BY <2>4, PersistHistory
    <2>5. CASE DeleteSession
      BY <2>5 DEF DeleteSession
    <2>6. CASE RemoveScenario
      BY <2>6 DEF RemoveScenario, pipelineVars
    <2>7. CASE InsertScenario
      BY <2>7 DEF InsertScenario, pipelineVars
    <2>8. CASE UNCHANGED vars
      BY <2>8 DEF vars, pipelineVars, storeVars
    <2>9. QED
      BY <2>1, <2>2, <2>3, <2>4, <2>5, <2>6, <2>7, <2>8, NextCases DEF StoreStep
  <1>3. QED
    BY <1>1, <1>2, TypeCorrect, LockCorrect, PTL DEF Spec

\* Without a version check no turn is persisted on a version, or narrated from
\* messages, other than those it loaded, however many turns there are.
THEOREM HistoryIsSerial == Spec => []SerialHistory
  BY HistoryCorrect, PTL DEF HistoryInv

\* A session or a scenario that is removed sees at most one more turn persisted.
THEOREM LateTurnsAreFew == Spec => []AtMostOneLateTurn
  BY HistoryCorrect, PTL DEF LateInv

-----------------------------------------------------------------------------
(***************************************************************************)
(* Every behaviour of MemorySession is a behaviour of SessionLedger: the   *)
(* store in memory keeps the promise of the one in PostgreSQL, although a  *)
(* turn may still be persisted when its session is gone.                   *)
(***************************************************************************)

\* A turn is answered exactly when it ends, and is among the rows exactly from
\* its persist on, unless its session goes.

Persisted(t) == \E i \in 1..Len(rows): rows[i].turn = t

AnswerInv == \A t \in Turns: pc[t] \in Ended <=> reply[t] # "none"

CommitInv ==
    /\ \A t \in Turns: exists /\ pc[t] \in PostCommit => Persisted(t)
    /\ \A t \in Turns: Persisted(t) => pc[t] \in PostCommit \cup Ended

LEMMA PipelineStepMove ==
    ASSUME TypeOK, AnswerInv, NEW t \in Turns, PipelineStep(t)
    PROVE  PipelineMove(t)
  <1>0. PipelineTypeOK
    BY DEF TypeOK
  <1>1. CASE Resolve(t)
    BY <1>0, <1>1, AdvanceMove, FailMove
       DEF Resolve, ResolveProvider, ProviderMissing, SessionUnknown, Unloaded, Refusals
  <1>2. CASE Event(t)
    BY <1>0, <1>2, RecordEventMove DEF Event
  <1>3. CASE Engine(t)
    BY <1>0, <1>3, EngineStepMove DEF Engine
  <1>4. CASE ErrorEvent(t)
    BY <1>0, <1>4, FinishMove
       DEF ErrorEvent, RepairUnusable, StreamExtractFailed, Loaded, Refusals
  <1>5. CASE AcquireRefused(t)
    BY <1>0, <1>5, FailMove DEF AcquireRefused, Refused, Unloaded, Refusals
  <1>6. CASE Disconnect(t)
    BY <1>0, <1>6, CancelMove DEF Disconnect, Cancel, AnswerInv
  <1>7. QED
    BY <1>1, <1>2, <1>3, <1>4, <1>5, <1>6 DEF PipelineStep

LEMMA AnswerKept ==
    ASSUME TypeOK, AnswerInv, NEW t \in Turns, PipelineMove(t)
    PROVE  AnswerInv'
  BY DEF AnswerInv, PipelineMove, Moves, Refusals, Ambiguous, Ended,
         Unloaded, Loaded, PostCommit

LEMMA LoadMoves ==
    ASSUME TypeOK, NEW t \in Turns, Load(t)
    PROVE  \/ Advance(t, "load", "loaded") /\ reply' = reply
           \/ PipelineMove(t) /\ pc[t] = "load" /\ Fail(t, "notfound")
  BY FailMove DEF Load, Advance, TypeOK, Unloaded, Refusals

LEMMA AnswerCorrect == Spec => []AnswerInv
  <1>1. Init => AnswerInv
    BY DEF Init, PipelineInit, AnswerInv, Ended
  <1>2. TypeOK /\ AnswerInv /\ [Next]_vars => AnswerInv'
    <2> SUFFICES ASSUME TypeOK, AnswerInv, [Next]_vars
                 PROVE  AnswerInv'
      OBVIOUS
    <2>1. ASSUME NEW t \in Turns, PipelineStep(t)
          PROVE  AnswerInv'
      BY <2>1, PipelineStepMove, AnswerKept
    <2>2. ASSUME NEW t \in Turns, NEW from, NEW to,
                 pc[t] = from, GoTo(t, to), reply' = reply, from \notin Ended, to \notin Ended
          PROVE  AnswerInv'
      BY <2>2 DEF AnswerInv, GoTo, TypeOK, PipelineTypeOK
    <2>3. ASSUME NEW t \in Turns, StoreStep(t)
          PROVE  AnswerInv'
      BY <2>2, <2>3, LoadMoves, AnswerKept
         DEF StoreStep, Acquire, Acquired, Persist, Advance, Ended
    <2>4. CASE DeleteSession \/ RemoveScenario \/ InsertScenario \/ UNCHANGED vars
      BY <2>4 DEF DeleteSession, RemoveScenario, InsertScenario, vars, pipelineVars, AnswerInv
    <2>5. QED
      BY <2>1, <2>3, <2>4, NextCases
  <1>3. QED
    BY <1>1, <1>2, TypeCorrect, PTL DEF Spec

\* A step that persists nothing, and moves no turn past its persist.
LEMMA CommitKept ==
    ASSUME CommitInv,
           UNCHANGED <<exists, rows>>,
           \A t \in Turns: pc'[t] \in PostCommit => pc[t] \in PostCommit,
           \A t \in Turns: pc[t] \in PostCommit \cup Ended =>
                               pc'[t] \in PostCommit \cup Ended
    PROVE  CommitInv'
  BY DEF CommitInv, Persisted

LEMMA MoveCommit ==
    ASSUME CommitInv, UNCHANGED <<exists, rows>>, NEW t \in Turns, PipelineMove(t)
    PROVE  CommitInv'
  <1>1. \A u \in Turns: pc'[u] \in PostCommit => pc[u] \in PostCommit
    BY DEF PipelineMove, Moves, Unloaded, Loaded, PostCommit, Ended
  <1>2. \A u \in Turns: pc[u] \in PostCommit \cup Ended => pc'[u] \in PostCommit \cup Ended
    BY DEF PipelineMove, Moves, Unloaded, Loaded, PostCommit, Ended
  <1>3. QED
    BY <1>1, <1>2, CommitKept

LEMMA PersistCommit ==
    ASSUME TypeOK, CommitInv, NEW t \in Turns, Persist(t)
    PROVE  CommitInv'
  <1> DEFINE row == [turn |-> t, base |-> base[t], seen |-> seen[t]]
  <1>1. /\ rows' = Append(rows, row) /\ exists' = exists
        /\ pc[t] = "persist" /\ pc' = [pc EXCEPT ![t] = "persisted"]
    BY DEF Persist, Advance, GoTo
  <1>2. /\ Len(rows') = Len(rows) + 1 /\ Len(rows) \in Nat
        /\ rows'[Len(rows) + 1] = row
        /\ \A i \in 1..Len(rows): rows'[i] = rows[i]
    BY <1>1 DEF TypeOK
  <1>3. \A i: i \in 1..Len(rows') <=> i \in 1..Len(rows) \/ i = Len(rows) + 1
    BY <1>2
  <1>4. row.turn = t
    OBVIOUS
  <1>5. \A u \in Turns: Persisted(u)' <=> Persisted(u) \/ u = t
    BY <1>2, <1>3, <1>4 DEF Persisted
  <1>6. pc'[t] \in PostCommit /\ \A u \in Turns \ {t}: pc'[u] = pc[u]
    BY <1>1 DEF TypeOK, PipelineTypeOK, PostCommit
  <1>7. QED
    BY <1>1, <1>5, <1>6 DEF CommitInv

LEMMA CommitCorrect == Spec => []CommitInv
  <1>1. Init => CommitInv
    BY DEF Init, PipelineInit, CommitInv, Persisted, PostCommit
  <1>2. TypeOK /\ AnswerInv /\ CommitInv /\ [Next]_vars => CommitInv'
    <2> SUFFICES ASSUME TypeOK, AnswerInv, CommitInv, [Next]_vars
                 PROVE  CommitInv'
      OBVIOUS
    <2> USE DEF storeVars
    <2>1. ASSUME NEW t \in Turns, PipelineStep(t)
          PROVE  CommitInv'
      BY <2>1, PipelineStepMove, PipelineStepOnly, MoveCommit DEF PipelineOnly
    <2>2. ASSUME NEW t \in Turns, Acquire(t)
          PROVE  CommitInv'
      BY <2>2, CommitKept
         DEF Acquire, Acquired, GoTo, TypeOK, PipelineTypeOK, PostCommit, Ended
    <2>3. ASSUME NEW t \in Turns, Load(t)
          PROVE  CommitInv'
      <3>1. CASE Advance(t, "load", "loaded")
        BY <2>3, <3>1, CommitKept
           DEF Load, Advance, GoTo, TypeOK, PipelineTypeOK, PostCommit, Ended
      <3>2. CASE PipelineMove(t)
        BY <2>3, <3>2, MoveCommit DEF Load
      <3>3. QED
        BY <2>3, <3>1, <3>2, LoadMoves
    <2>4. ASSUME NEW t \in Turns, Persist(t)
          PROVE  CommitInv'
      BY <2>4, PersistCommit
    <2>5. CASE DeleteSession
      BY <2>5 DEF DeleteSession, CommitInv, Persisted
    <2>6. CASE RemoveScenario \/ InsertScenario \/ UNCHANGED vars
      BY <2>6, CommitKept DEF RemoveScenario, InsertScenario, vars, pipelineVars
    <2>7. QED
      BY <2>1, <2>2, <2>3, <2>4, <2>5, <2>6, NextCases DEF StoreStep
  <1>3. QED
    BY <1>1, <1>2, TypeCorrect, AnswerCorrect, PTL DEF Spec

-----------------------------------------------------------------------------
\* The refinement mapping.

Ledger ==
    IF exists
    THEN [i \in 1..Len(rows) |-> [turn |-> rows[i].turn, basis |-> rows[i].base]]
    ELSE <<>>

Verdict == [t \in Turns |-> VerdictOf(reply[t])]

LEMMA FunctionIsSeq ==
    ASSUME NEW S, NEW n \in Nat, NEW f \in [1..n -> S]
    PROVE  f \in Seq(S) /\ Len(f) = n
  <1>1. f \in Seq(S)
    OBVIOUS
  <1>2. 1..Len(f) = 1..n /\ Len(f) \in Nat
    BY <1>1
  <1>3. QED
    BY <1>1, <1>2

LEMMA AppendIsFunction ==
    ASSUME NEW S, NEW s \in Seq(S), NEW e \in S
    PROVE  /\ Append(s, e) \in [1..Len(s) + 1 -> S]
           /\ Append(s, e)[Len(s) + 1] = e
           /\ \A i \in 1..Len(s): Append(s, e)[i] = s[i]
  <1>1. Append(s, e) \in Seq(S) /\ Len(Append(s, e)) = Len(s) + 1
    BY AppendProperties
  <1>2. Append(s, e) \in [1..Len(s) + 1 -> S]
    BY <1>1, LenProperties
  <1>3. QED
    BY <1>2, AppendProperties

LEMMA LedgerLength ==
    ASSUME TypeOK, exists
    PROVE  /\ Ledger = [i \in 1..Len(rows) |-> [turn |-> rows[i].turn, basis |-> rows[i].base]]
           /\ Ledger \in Seq([turn: Turns, basis: Nat])
           /\ Len(Ledger) = Len(rows)
  <1>1. rows \in Seq(Row) /\ Len(rows) \in Nat
    BY DEF TypeOK
  <1>2. \A i \in 1..Len(rows): rows[i] \in Row
    BY <1>1
  <1>3. \A i \in 1..Len(rows): rows[i].turn \in Turns /\ rows[i].base \in Nat
    BY <1>2 DEF Row
  <1>4. Ledger \in [1..Len(rows) -> [turn: Turns, basis: Nat]]
    BY <1>3 DEF Ledger
  <1>5. QED
    BY <1>1, <1>4, FunctionIsSeq DEF Ledger

LEMMA AppliedIsPersisted ==
    ASSUME TypeOK, exists, NEW t \in Turns
    PROVE  Promise!Applied(t) <=> Persisted(t)
  BY LedgerLength DEF Promise!Applied, Persisted, Ledger

\* A session that is gone has an empty ledger.
LEMMA NothingApplied ==
    ASSUME ~exists, NEW t \in Turns
    PROVE  ~Promise!Applied(t)
  BY DEF Promise!Applied

\* The step SessionLedger is to see: one of its actions, or none.
PromiseStep == [Promise!Next]_(Promise!ledgerVars)

LEMMA QuietStep ==
    ASSUME UNCHANGED <<exists, Ledger, reply>>
    PROVE  PromiseStep
  BY DEF PromiseStep, Promise!ledgerVars, Ledger

\* All that a turn does to its answer: it keeps it, or gives one that fits
\* what has become of the turn.
Answers(t) ==
    \/ reply' = reply
    \/ /\ reply[t] = "none"
       /\ \A u \in Turns \ {t}: reply'[u] = reply[u]
       /\ \/ reply'[t] = "ok" /\ (exists => Persisted(t))
          \/ reply'[t] \in Refusals /\ ~Persisted(t)
          \/ reply'[t] \in Ambiguous

LEMMA AnswerStep ==
    ASSUME TypeOK, NEW t \in Turns, Answers(t), UNCHANGED <<exists, rows>>
    PROVE  PromiseStep
  <1>0. UNCHANGED Ledger
    BY DEF Ledger
  <1>1. CASE reply' = reply
    BY <1>0, <1>1, QuietStep
  <1>2. CASE reply' # reply
    <2>1. /\ reply[t] = "none"
          /\ \A u \in Turns \ {t}: reply'[u] = reply[u]
          /\ \/ reply'[t] = "ok" /\ (exists => Persisted(t))
             \/ reply'[t] \in Refusals /\ ~Persisted(t)
             \/ reply'[t] \in Ambiguous
      BY <1>2 DEF Answers
    <2>2. Verdict[t] = "pending"
      BY <2>1 DEF Verdict, VerdictOf, Ambiguous
    <2>3. \A u \in Turns \ {t}: Verdict'[u] = Verdict[u]
      BY <2>1 DEF Verdict
    <2>4. /\ exists => (Promise!Applied(t) <=> Persisted(t))
          /\ ~exists => ~Promise!Applied(t)
      BY AppliedIsPersisted, NothingApplied
    <2>5. CASE reply'[t] = "ok"
      <3>1. Verdict' = [Verdict EXCEPT ![t] = "accepted"]
        BY <2>3, <2>5 DEF Verdict, VerdictOf, Ambiguous
      <3>2. exists => Promise!Applied(t)
        BY <2>1, <2>4, <2>5 DEF Refusals, Ambiguous
      <3>3. Promise!Accept(t)
        BY <1>0, <2>2, <3>1, <3>2 DEF Promise!Accept, Verdict, Ledger
      <3>4. QED
        BY <3>3 DEF PromiseStep, Promise!Next
    <2>6. CASE reply'[t] \in Refusals
      <3>1. Verdict' = [Verdict EXCEPT ![t] = "rejected"]
        BY <2>3, <2>6 DEF Verdict, VerdictOf, Refusals, Ambiguous
      <3>2. ~Promise!Applied(t)
        BY <2>1, <2>4, <2>6 DEF Refusals, Ambiguous
      <3>3. Promise!Reject(t)
        BY <1>0, <2>2, <3>1, <3>2 DEF Promise!Reject, Verdict, Ledger
      <3>4. QED
        BY <3>3 DEF PromiseStep, Promise!Next
    <2>7. CASE reply'[t] \in Ambiguous
      <3>1. Verdict' = [u \in Turns |-> IF u \in {t} THEN "unknown" ELSE Verdict[u]]
        BY <2>3, <2>7 DEF Verdict, VerdictOf, Ambiguous
      <3>2. Promise!Abandon({t})
        BY <1>0, <2>2, <3>1 DEF Promise!Abandon, Verdict, Ledger
      <3>3. QED
        BY <3>2 DEF PromiseStep, Promise!Next
    <2>8. QED
      BY <2>1, <2>5, <2>6, <2>7
  <1>3. QED
    BY <1>1, <1>2

\* A step of the pipeline answers what CommitInv says is true.
LEMMA PipelineStepAnswers ==
    ASSUME TypeOK, AnswerInv, CommitInv, NEW t \in Turns, PipelineMove(t),
           reply' \in [Turns -> Replies]
    PROVE  Answers(t)
  <1>1. /\ \A u \in Turns \ {t}: reply'[u] = reply[u]
        /\ reply \in [Turns -> Replies]
    BY DEF PipelineMove, TypeOK, PipelineTypeOK
  <1>2. CASE reply'[t] = reply[t]
    BY <1>1, <1>2 DEF Answers
  <1>3. CASE reply'[t] # reply[t]
    <2>1. /\ pc[t] \notin Ended
          /\ \/ reply'[t] = "ok" /\ pc[t] = "respond"
             \/ reply'[t] \in Refusals /\ pc[t] \in Unloaded \cup Loaded
             \/ reply'[t] \in Ambiguous
      BY <1>3 DEF PipelineMove, Moves
    <2>2. reply[t] = "none"
      BY <2>1 DEF AnswerInv
    <2>3. pc[t] = "respond" => (exists => Persisted(t))
      BY DEF CommitInv, PostCommit
    <2>4. pc[t] \in Unloaded \cup Loaded => ~Persisted(t)
      BY DEF CommitInv, PostCommit, Ended, Unloaded, Loaded
    <2>5. QED
      BY <1>1, <2>1, <2>2, <2>3, <2>4 DEF Answers
  <1>4. QED
    BY <1>2, <1>3

\* A turn takes effect when it is persisted, unless its session is gone.
LEMMA PersistStep ==
    ASSUME TypeOK, AnswerInv, HistoryInv, CommitInv, NEW t \in Turns, Persist(t)
    PROVE  PromiseStep
  <1> DEFINE row   == [turn |-> t, base |-> base[t], seen |-> seen[t]]
             entry == [turn |-> t, basis |-> Len(Ledger)]
             n     == Len(rows)
  <1>1. /\ pc[t] = "persist" /\ rows' = Append(rows, row)
        /\ UNCHANGED <<exists, reply>>
    BY DEF Persist, Advance
  <1>2. CASE ~exists
    BY <1>1, <1>2, QuietStep DEF Ledger
  <1>3. CASE exists
    <2>1. base[t] = n
      BY <1>1, <1>3 DEF HistoryInv, Loaded
    <2>2. reply[t] = "none" /\ ~Persisted(t)
      BY <1>1 DEF AnswerInv, CommitInv, Ended, PostCommit
    <2>3. Verdict[t] = "pending" /\ ~Promise!Applied(t)
      BY <1>3, <2>2, AppliedIsPersisted DEF Verdict, VerdictOf, Ambiguous
    <2>4. /\ rows \in Seq(Row) /\ n \in Nat
          /\ Len(rows') = n + 1
          /\ rows'[n + 1] = row
          /\ \A i \in 1..n: rows'[i] = rows[i]
      BY <1>1 DEF TypeOK
    <2>5. Ledger' = Append(Ledger, entry)
      <3> DEFINE S == [turn: Turns, basis: Nat]
      <3>1. Ledger \in Seq(S) /\ Len(Ledger) = n
        BY <1>3, LedgerLength
      <3>2. entry \in S
        BY <2>4, <3>1
      <3>3. /\ Append(Ledger, entry) \in [1..n + 1 -> S]
            /\ Append(Ledger, entry)[n + 1] = entry
            /\ \A i \in 1..n: Append(Ledger, entry)[i] = Ledger[i]
        <4> HIDE DEF entry, S
        <4>1. QED
          BY <3>1, <3>2, AppendIsFunction
      <3>4. Ledger' = [i \in 1..n + 1 |-> [turn |-> rows'[i].turn, basis |-> rows'[i].base]]
        BY <1>1, <1>3, <2>4 DEF Ledger
      <3>5. \A i \in 1..n: Ledger'[i] = Ledger[i]
        BY <1>3, <2>4, <3>4, LedgerLength
      <3>6. Ledger'[n + 1] = entry
        BY <2>1, <2>4, <3>1, <3>4
      <3>7. \A i \in 1..n + 1: i \in 1..n \/ i = n + 1
        BY <2>4
      <3>8. \A i \in 1..n + 1: Ledger'[i] = Append(Ledger, entry)[i]
        BY <3>3, <3>5, <3>6, <3>7
      <3> HIDE DEF entry
      <3>9. QED
        BY <3>3, <3>4, <3>8
    <2>6. Promise!Apply(t)
      BY <1>1, <1>3, <2>3, <2>5 DEF Promise!Apply, Verdict, Ledger
    <2>7. QED
      BY <2>6 DEF PromiseStep, Promise!Next
  <1>4. QED
    BY <1>2, <1>3

LEMMA PromiseInit ==
    Init => Promise!Init
  <1> SUFFICES ASSUME Init
               PROVE  Promise!Init
    OBVIOUS
  <1>1. exists = TRUE
    BY DEF Init
  <1>2. Ledger = <<>>
    BY DEF Init, Ledger
  <1>3. Verdict = [t \in Turns |-> "pending"]
    BY DEF Init, PipelineInit, Verdict, VerdictOf, Ambiguous
  <1>4. QED
    BY <1>1, <1>2, <1>3 DEF Promise!Init, Ledger, Verdict

\* The session in memory keeps the promise of SessionLedger: every turn takes
\* effect at most once and on all that was there before it, "ok" is only said
\* of turns that took effect, a refusal only of turns that never will.
THEOREM Refinement == Spec => ImplementsLedger
  <1>1. TypeOK /\ AnswerInv /\ HistoryInv /\ CommitInv /\ [Next]_vars => PromiseStep
    <2> SUFFICES ASSUME TypeOK, AnswerInv, HistoryInv, CommitInv, [Next]_vars
                 PROVE  PromiseStep
      OBVIOUS
    <2> USE DEF storeVars
    <2>1. ASSUME NEW t \in Turns, PipelineStep(t)
          PROVE  PromiseStep
      <3>1. reply' \in [Turns -> Replies]
        BY <2>1, PipelineStepType DEF PipelineTypeOK
      <3>2. QED
        BY <2>1, <3>1, PipelineStepMove, PipelineStepAnswers, AnswerStep, PipelineStepOnly
           DEF PipelineOnly
    <2>2. ASSUME NEW t \in Turns, Acquire(t)
          PROVE  PromiseStep
      BY <2>2, QuietStep DEF Acquire, Acquired, Ledger
    <2>3. ASSUME NEW t \in Turns, Load(t)
          PROVE  PromiseStep
      <3>1. UNCHANGED <<exists, rows>>
        BY <2>3 DEF Load
      <3>2. reply' = reply \/ PipelineMove(t)
        BY <2>3, LoadMoves
      <3>3. reply' \in [Turns -> Replies]
        BY <2>3, StoreStepType DEF StoreStep, TypeOK, PipelineTypeOK
      <3>4. Answers(t)
        BY <3>2, <3>3, PipelineStepAnswers DEF Answers
      <3>5. QED
        BY <3>1, <3>4, AnswerStep
    <2>4. ASSUME NEW t \in Turns, Persist(t)
          PROVE  PromiseStep
      BY <2>4, PersistStep
    <2>5. CASE DeleteSession
      <3>1. exists /\ exists' = FALSE /\ reply' = reply
        BY <2>5 DEF DeleteSession
      <3>2. Ledger' = <<>>
        BY <3>1 DEF Ledger
      <3>3. Promise!Delete
        BY <3>1, <3>2 DEF Promise!Delete, Ledger
      <3>4. QED
        BY <3>3 DEF PromiseStep, Promise!Next
    <2>6. CASE RemoveScenario \/ InsertScenario \/ UNCHANGED vars
      BY <2>6, QuietStep DEF RemoveScenario, InsertScenario, vars, pipelineVars, Ledger
    <2>7. QED
      BY <2>1, <2>2, <2>3, <2>4, <2>5, <2>6, NextCases DEF StoreStep
  <1>2. QED
    BY <1>1, PromiseInit, TypeCorrect, AnswerCorrect, HistoryCorrect, CommitCorrect,
       PTL DEF Spec, ImplementsLedger, Promise!Spec, PromiseStep

=============================================================================
