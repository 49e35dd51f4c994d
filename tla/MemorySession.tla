---------------------------- MODULE MemorySession ----------------------------
(***************************************************************************)
(* The same session kept by InMemoryApplicationStore and locked by         *)
(* InMemorySessionTurnLock: one process, every call of the store one step  *)
(* under its mutex, a lock that is released inside drop, and no version    *)
(* check at all: the history is serial only because the lock holds.        *)
(***************************************************************************)
EXTENDS TurnPipeline

VARIABLES
    exists,      \* inner.sessions has the session
    scenario,    \* inner.scenarios has its scenario
    locked,      \* locked_sessions contains the session
    world,       \* the version in inner.world_states, 0 if there is none
    rows,        \* the turns in inner.messages, in order
    base,        \* the version a turn has loaded
    seen,        \* how many turns' messages a turn has loaded
    late         \* history: turns persisted since the session or its scenario is gone

storeVars == <<exists, scenario, world, rows, late>>
vars == <<pipelineVars, storeVars, locked, base, seen>>

Row == [turn: Turns, base: Nat, seen: Nat]

TypeOK ==
    /\ PipelineTypeOK
    /\ exists \in BOOLEAN
    /\ scenario \in BOOLEAN
    /\ locked \in BOOLEAN
    /\ world \in Nat
    /\ rows \in Seq(Row)
    /\ base \in [Turns -> Nat]
    /\ seen \in [Turns -> Nat]
    /\ late \in Nat

Init ==
    /\ PipelineInit
    /\ exists = TRUE
    /\ scenario = TRUE
    /\ locked = FALSE
    /\ world = 0
    /\ rows = <<>>
    /\ base = [t \in Turns |-> 0]
    /\ seen = [t \in Turns |-> 0]
    /\ late = 0

-----------------------------------------------------------------------------
\* A dropped guard removes the session from locked_sessions, there and then.

SomeGuardDropped == \E t \in Turns: guard[t] /\ ~guard'[t]

\* Mutant: drop forgets to unlock.
NothingReleased == locked' = locked

ReleaseDropped == locked' = (locked /\ ~SomeGuardDropped)

PipelineOnly == ReleaseDropped /\ UNCHANGED <<storeVars, base, seen>>

Resolve(t) ==
    /\ \/ ResolveProvider(t) /\ (exists \/ t \in Streaming)
       \/ ProviderMissing(t) /\ exists
       \/ SessionUnknown(t) /\ ~exists
    /\ PipelineOnly

\* Events are stored whether or not their session is.
Event(t) == RecordEvent(t) /\ PipelineOnly

Engine(t) == EngineStep(t) /\ PipelineOnly

ErrorEvent(t) == (RepairUnusable(t) \/ StreamExtractFailed(t)) /\ PipelineOnly

\* Mutant: the result of HashSet::insert is ignored.
AcquireAnyway(t) ==
    /\ Acquired(t)
    /\ locked' = TRUE
    /\ UNCHANGED <<storeVars, base, seen>>

Acquire(t) ==
    /\ Acquired(t)
    /\ ~locked
    /\ locked' = TRUE
    /\ UNCHANGED <<storeVars, base, seen>>

AcquireRefused(t) == Refused(t) /\ locked /\ PipelineOnly

\* load_turn_state, all of it under the mutex.
\* Mutant: a missing session is loaded as an empty one.
LoadUnchecked(t) ==
    /\ Advance(t, "load", "loaded")
    /\ base' = [base EXCEPT ![t] = world]
    /\ seen' = [seen EXCEPT ![t] = Len(rows)]
    /\ UNCHANGED <<storeVars, locked>>

Load(t) ==
    /\ IF exists /\ scenario
       THEN /\ Advance(t, "load", "loaded")
            /\ base' = [base EXCEPT ![t] = world]
            /\ seen' = [seen EXCEPT ![t] = Len(rows)]
       ELSE /\ pc[t] = "load"
            /\ Fail(t, "notfound")
            /\ UNCHANGED <<base, seen>>
    /\ ReleaseDropped
    /\ UNCHANGED storeVars

\* persist_successful_turn overwrites the world state and looks at nothing,
\* not even at whether the session is still there.
\* Mutant: the version moves the wrong way.
PersistBackward(t) ==
    /\ Advance(t, "persist", "persisted")
    /\ world' = base[t] - 1
    /\ rows' = Append(rows, [turn |-> t, base |-> base[t], seen |-> seen[t]])
    /\ UNCHANGED <<exists, scenario, late, locked, base, seen>>

Persist(t) ==
    /\ Advance(t, "persist", "persisted")
    /\ world' = base[t] + 1
    /\ rows' = Append(rows, [turn |-> t, base |-> base[t], seen |-> seen[t]])
    /\ late' = IF exists /\ scenario THEN late ELSE late + 1
    /\ UNCHANGED <<exists, scenario, locked, base, seen>>

\* remove_session removes the rows there are at that moment, and no lock.
DeleteSession ==
    /\ exists
    /\ exists' = FALSE
    /\ world' = 0
    /\ rows' = <<>>
    /\ logged' = [t \in Turns |-> "none"]
    /\ UNCHANGED <<pc, guard, reply, scenario, late, locked, base, seen>>

\* remove_scenario does not look for sessions that play the scenario.
RemoveScenario ==
    /\ scenario
    /\ scenario' = FALSE
    /\ UNCHANGED <<pipelineVars, exists, world, rows, late, locked, base, seen>>

\* insert_scenario takes the id its caller gives: a scenario that comes back under
\* its old id makes the sessions it left playable again.
InsertScenario ==
    /\ ~scenario
    /\ scenario' = TRUE
    /\ late' = IF exists THEN 0 ELSE late
    /\ UNCHANGED <<pipelineVars, exists, world, rows, locked, base, seen>>

Disconnect(t) == Cancel(t) /\ PipelineOnly

TurnStep(t) ==
    \/ Resolve(t) \/ Event(t) \/ Engine(t) \/ ErrorEvent(t)
    \/ Acquire(t) \/ AcquireRefused(t) \/ Load(t) \/ Persist(t)

Next ==
    \/ \E t \in Turns: TurnStep(t) \/ Disconnect(t)
    \/ DeleteSession
    \/ RemoveScenario
    \/ InsertScenario

Spec == Init /\ [][Next]_vars

\* Every call of a turn returns or times out.
FairSpec == Spec /\ \A t \in Turns: WF_vars(TurnStep(t))

-----------------------------------------------------------------------------
\* No update is lost although nothing compares versions: a turn persists on
\* exactly the version it loaded, and narrated from its messages.
SerialHistory ==
    exists =>
        /\ world = Len(rows)
        /\ \A i \in 1..Len(rows): rows[i].base = i - 1 /\ rows[i].seen = i - 1

\* Nothing tells a turn at work that its session or its scenario is removed, and it
\* persists all the same.  But only one turn can: it loaded them before, under the lock,
\* and whoever takes the lock after it does not find them.
AtMostOneLateTurn == late <= 1

Promise == INSTANCE SessionLedger WITH
    live <- exists,
    ledger <- IF exists
              THEN [i \in 1..Len(rows) |-> [turn |-> rows[i].turn, basis |-> rows[i].base]]
              ELSE <<>>,
    verdict <- [t \in Turns |-> VerdictOf(reply[t])]

\* The in-memory session keeps the same promise as the PostgreSQL one.
ImplementsLedger == Promise!Spec

\* The lock is free from some point on, with no timeout to fall back on.
LockIsFreed == <>[]~locked

=============================================================================
