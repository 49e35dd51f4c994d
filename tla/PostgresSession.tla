--------------------------- MODULE PostgresSession ---------------------------
(***************************************************************************)
(* One session stored in PostgreSQL and played by turns that run in        *)
(* several API processes: the lock in the sessions row, the four separate  *)
(* reads that load a turn, the transaction that persists it, the release   *)
(* task a dropped guard spawns, deletion, crashes, and the five minutes    *)
(* after which a lock counts as abandoned.                                 *)
(***************************************************************************)
EXTENDS TurnPipeline, FiniteSets

CONSTANTS
    Processes,     \* the API processes that share the database
    Host,          \* the process each turn runs in
    StoreFaults    \* whether a statement may fail for reasons of its own

ASSUME HostAssumption == Host \in [Turns -> Processes]
ASSUME StoreFaultsAssumption == StoreFaults \in BOOLEAN

VARIABLES
    exists,            \* the sessions row is there
    processing_turn,   \* sessions.processing_turn
    started_at,        \* the age of sessions.processing_turn_started_at
    releases,          \* turns whose spawned release UPDATE has yet to run
    strayLocks,        \* turns whose lock UPDATE was sent, and which are gone
    overran,           \* some turn, or its release, has outlasted five minutes
    strayCommits,      \* turns whose COMMIT was sent, and which are gone
    version,           \* world_states.version
    deltas,            \* the committed turns, in commit order
    base,              \* the world_states.version a turn has loaded
    seen,              \* how many turns' messages a turn has loaded
    stamp,             \* now() of the transaction a turn has begun
    clock              \* the database clock

storeVars == <<version, deltas, clock, strayCommits>>
claimVars == <<processing_turn, started_at, strayLocks, overran>>
lockVars == <<claimVars, releases>>
loadVars == <<base, seen, stamp>>
vars == <<pipelineVars, exists, lockVars, storeVars, loadVars>>

Ages == {"null", "fresh", "old"}

\* What a committed turn leaves: its world_state_deltas row (with its
\* created_at), and what its narration and its delta were computed from.
Delta == [turn: Turns, base: Nat, seen: Nat, stamp: Nat]

TypeOK ==
    /\ PipelineTypeOK
    /\ exists \in BOOLEAN
    /\ processing_turn \in BOOLEAN
    /\ started_at \in Ages
    /\ releases \in SUBSET Turns
    /\ strayLocks \in SUBSET Turns
    /\ overran \in BOOLEAN
    /\ strayCommits \in SUBSET Turns
    /\ version \in Nat
    /\ deltas \in Seq(Delta)
    /\ base \in [Turns -> Nat]
    /\ seen \in [Turns -> Nat]
    /\ stamp \in [Turns -> Nat]
    /\ clock \in Nat

Init ==
    /\ PipelineInit
    /\ exists = TRUE
    /\ processing_turn = FALSE
    /\ started_at = "null"
    /\ releases = {}
    /\ strayLocks = {}
    /\ overran = FALSE
    /\ strayCommits = {}
    /\ version = 0
    /\ deltas = <<>>
    /\ base = [t \in Turns |-> 0]
    /\ seen = [t \in Turns |-> 0]
    /\ stamp = [t \in Turns |-> 0]
    /\ clock = 1

-----------------------------------------------------------------------------
\* A dropped guard spawns its release; the turn does not wait for it.

ReleaseDropped ==
    releases' = releases \cup {t \in Turns: guard[t] /\ ~guard'[t]}

\* Steps of the pipeline that leave the session's rows alone.
PipelineOnly ==
    /\ ReleaseDropped
    /\ UNCHANGED <<exists, claimVars, storeVars, loadVars>>

\* Rows of `events' reference the session, so none is written without it.
EventSaved == exists
EventLost == StoreFaults \/ ~exists

Resolve(t) ==
    /\ \/ ResolveProvider(t) /\ (exists \/ t \in Streaming)
       \/ ProviderMissing(t) /\ exists
       \/ SessionUnknown(t) /\ ~exists
    /\ PipelineOnly

Event(t) ==
    /\ \/ RecordEvent(t) /\ EventSaved
       \/ EventFailed(t) /\ EventLost
    /\ PipelineOnly

Engine(t) ==
    /\ EngineStep(t)
    /\ logged' = logged \/ EventSaved
    /\ PipelineOnly

\* Failures that are recorded as a turn_error event, if that can be written.
ErrorEvent(t) ==
    /\ \/ (RepairUnusable(t) \/ StreamExtractFailed(t)) /\ EventSaved
       \/ (RepairErrorLost(t) \/ ExtractErrorLost(t)) /\ EventLost
    /\ PipelineOnly

\* Turns that stop waiting for the store. A lock UPDATE or a COMMIT that one of
\* them had sent may still reach the server; any other transaction is rolled
\* back, and so is one whose COMMIT is lost.
StopWaiting(gone) ==
    /\ \E sent \in SUBSET {t \in gone: pc[t] = "acquire"}:
          strayLocks' = strayLocks \cup sent
    /\ \E sent \in SUBSET {t \in gone: pc[t] = "updated"}:
          strayCommits' = strayCommits \cup sent
    /\ UNCHANGED <<exists, processing_turn, started_at, overran, version, deltas,
                   clock, loadVars>>

\* Any other call into the store or the lock may fail on its own; only the
\* streaming handler carries on when it cannot read the session.
StoreFault(t) ==
    /\ StoreFaults
    /\ \/ pc[t] \in StoreStages \ {"commit_lost"}
       \/ pc[t] = "resolve" /\ t \notin Streaming
    /\ Fail(t, "store")
    /\ ReleaseDropped
    /\ StopWaiting({t})

-----------------------------------------------------------------------------
\* PostgresSessionTurnLock.

\* Mutant: the UPDATE does not look at processing_turn.
AlwaysAcquirable == exists

Acquirable ==
    /\ exists
    /\ ~processing_turn \/ started_at = "old"

\* Mutant: the timestamp is not written.
TakeLockUntimed ==
    /\ Acquirable
    /\ processing_turn' = TRUE
    /\ started_at' = "null"
    /\ UNCHANGED <<releases, strayLocks, overran>>

TakeLock ==
    /\ Acquirable
    /\ processing_turn' = TRUE
    /\ started_at' = "fresh"
    /\ UNCHANGED <<releases, strayLocks, overran>>

Acquire(t) ==
    /\ Acquired(t)
    /\ TakeLock
    /\ UNCHANGED <<exists, storeVars, loadVars>>

\* Mutant: the guard is built before rows_affected() is looked at.
RefusedWithGuard(t) ==
    /\ Refused(t)
    /\ ~Acquirable
    /\ releases' = releases \cup {t}
    /\ UNCHANGED <<exists, claimVars, storeVars, loadVars>>

AcquireRefused(t) ==
    /\ Refused(t)
    /\ ~Acquirable
    /\ PipelineOnly

\* The UPDATE of a turn that is gone takes the lock for nobody, if it is free.
StrayAcquire(t) ==
    /\ t \in strayLocks
    /\ strayLocks' = strayLocks \ {t}
    /\ processing_turn' = (processing_turn \/ Acquirable)
    /\ started_at' = IF Acquirable THEN "fresh" ELSE started_at
    /\ UNCHANGED <<pipelineVars, exists, releases, overran, storeVars, loadVars>>

ClearLock ==
    /\ processing_turn' = FALSE
    /\ started_at' = "null"

\* The release names the session and not its owner.
RunRelease(t) ==
    /\ t \in releases
    /\ releases' = releases \ {t}
    /\ ClearLock
    /\ UNCHANGED <<pipelineVars, exists, strayLocks, overran, storeVars, loadVars>>

\* Its error is discarded.
ReleaseFails(t) ==
    /\ StoreFaults
    /\ t \in releases
    /\ releases' = releases \ {t}
    /\ UNCHANGED <<pipelineVars, exists, claimVars, storeVars, loadVars>>

\* A turn that keeps within the five minutes has also run its release.
FiveMinutesPass ==
    /\ started_at = "fresh"
    /\ started_at' = "old"
    /\ overran' = (overran \/ releases # {} \/ \E t \in Turns: guard[t])
    /\ UNCHANGED <<pipelineVars, exists, processing_turn, releases, strayLocks,
                   storeVars, loadVars>>

-----------------------------------------------------------------------------
\* load_turn_state: one read after the other, in no transaction.

ReadSession(t) ==
    /\ IF exists
       THEN Advance(t, "load", "read_world")
       ELSE pc[t] = "load" /\ Fail(t, "notfound")
    /\ PipelineOnly

ReadWorldState(t) ==
    /\ IF exists
       THEN Advance(t, "read_world", "read_messages")
       ELSE pc[t] = "read_world" /\ Fail(t, "notfound")
    /\ base' = [base EXCEPT ![t] = IF exists THEN version ELSE @]
    /\ ReleaseDropped
    /\ UNCHANGED <<exists, claimVars, storeVars, seen, stamp>>

\* A session without messages is not an error, whatever the reason.
ReadMessages(t) ==
    /\ Advance(t, "read_messages", "loaded")
    /\ seen' = [seen EXCEPT ![t] = Len(deltas)]
    /\ UNCHANGED <<exists, lockVars, storeVars, base, stamp>>

-----------------------------------------------------------------------------
\* persist_successful_turn: a transaction. Its first insert takes a share
\* lock on the sessions row, its UPDATE locks the world_states row.

BeginAndInsert(t) ==
    /\ pc[t] = "persist"
    /\ IF exists
       THEN /\ Advance(t, "persist", "inserted")
            /\ stamp' = [stamp EXCEPT ![t] = clock]
            /\ clock' = clock + 1
       ELSE /\ Fail(t, "store")
            /\ UNCHANGED <<stamp, clock>>
    /\ ReleaseDropped
    /\ UNCHANGED <<exists, claimVars, version, deltas, strayCommits, base, seen>>

WorldStateLocked == strayCommits # {} \/ \E u \in Turns: pc[u] = "updated"

\* Mutant: the UPDATE has no WHERE version.
UnversionedUpdate(t) ==
    /\ ~WorldStateLocked
    /\ Advance(t, "inserted", "updated")
    /\ PipelineOnly

\* Mutant: rows_affected() = 0 is not an error.
UncheckedUpdate(t) ==
    /\ ~WorldStateLocked
    /\ Advance(t, "inserted", IF version = base[t] THEN "updated" ELSE "persisted")
    /\ PipelineOnly

\* Mutant: the version is read again and incremented by the UPDATE itself.
RebasedUpdate(t) ==
    /\ ~WorldStateLocked
    /\ Advance(t, "inserted", "updated")
    /\ base' = [base EXCEPT ![t] = version]
    /\ ReleaseDropped
    /\ UNCHANGED <<exists, claimVars, storeVars, seen, stamp>>

UpdateWorldState(t) ==
    /\ ~WorldStateLocked
    /\ IF version = base[t]
       THEN Advance(t, "inserted", "updated")
       ELSE pc[t] = "inserted" /\ Fail(t, "store")
    /\ PipelineOnly

\* Mutant: the stored version is the old one minus one.
BackwardVersion(t) ==
    /\ version' = base[t] - 1
    /\ deltas' = Append(deltas, [turn |-> t, base |-> base[t],
                                 seen |-> seen[t], stamp |-> stamp[t]])

\* What the server does when it executes a turn's COMMIT.
StoreTurn(t) ==
    /\ version' = base[t] + 1
    /\ deltas' = Append(deltas, [turn |-> t, base |-> base[t],
                                 seen |-> seen[t], stamp |-> stamp[t]])

Commit(t) ==
    /\ \/ Advance(t, "updated", "persisted")
       \/ Advance(t, "updated", "commit_lost") /\ StoreFaults
    /\ StoreTurn(t)
    /\ UNCHANGED <<exists, lockVars, clock, strayCommits, loadVars>>

\* The COMMIT of a turn that is gone: its transaction has held its rows since.
StrayCommit(t) ==
    /\ t \in strayCommits
    /\ strayCommits' = strayCommits \ {t}
    /\ StoreTurn(t)
    /\ UNCHANGED <<pipelineVars, exists, lockVars, clock, loadVars>>

\* The connection broke after the server had committed.
CommitLost(t) ==
    /\ pc[t] = "commit_lost"
    /\ Fail(t, "store")
    /\ PipelineOnly

-----------------------------------------------------------------------------
\* DELETE /sessions/:id waits for the share locks of open transactions and
\* cascades to every row of the session.

SessionShared ==
    strayCommits # {} \/ \E t \in Turns: pc[t] \in {"inserted", "updated"}

DeleteSession ==
    /\ exists
    /\ ~SessionShared
    /\ exists' = FALSE
    /\ ClearLock
    /\ version' = 0
    /\ deltas' = <<>>
    /\ logged' = [t \in Turns |-> "none"]
    /\ UNCHANGED <<pc, guard, reply, releases, strayLocks, overran, strayCommits,
                   clock, loadVars>>

-----------------------------------------------------------------------------
\* A client that disconnects, and a process that dies with everything in it.

Disconnect(t) == Cancel(t) /\ ReleaseDropped /\ StopWaiting({t})

\* A release that was sent before the process died still runs.
Crash(p) ==
    LET lost == {t \in Turns: Host[t] = p}
    IN  /\ \E t \in lost: pc[t] # "done" \/ t \in releases
        /\ Vanish(lost)
        /\ \E unsent \in SUBSET lost: releases' = releases \ unsent
        /\ StopWaiting(lost)

-----------------------------------------------------------------------------
\* What a turn does by itself, as opposed to what happens to it.
TurnStep(t) ==
    \/ Resolve(t) \/ Event(t) \/ Engine(t) \/ ErrorEvent(t)
    \/ Acquire(t) \/ AcquireRefused(t)
    \/ ReadSession(t) \/ ReadWorldState(t) \/ ReadMessages(t)
    \/ BeginAndInsert(t) \/ UpdateWorldState(t) \/ Commit(t) \/ CommitLost(t)

ReleaseStep(t) == RunRelease(t) \/ ReleaseFails(t)

StrayStep(t) == StrayAcquire(t) \/ StrayCommit(t)

Next ==
    \/ \E t \in Turns:
        \/ TurnStep(t) \/ StoreFault(t) \/ ReleaseStep(t)
        \/ StrayStep(t) \/ Disconnect(t)
    \/ \E p \in Processes: Crash(p)
    \/ FiveMinutesPass
    \/ DeleteSession

Spec == Init /\ [][Next]_vars

\* Every call of a turn returns or times out, spawned tasks run, the server
\* executes what has reached it, time passes.
Fairness ==
    /\ \A t \in Turns:
          WF_vars(TurnStep(t)) /\ WF_vars(ReleaseStep(t)) /\ WF_vars(StrayStep(t))
    /\ WF_vars(FiveMinutesPass)

FairSpec == Spec /\ Fairness

-----------------------------------------------------------------------------
\* The lock.

\* At most one turn of the session is active: two guards never coexist.
OneActiveTurn == \A t, u \in Turns: guard[t] /\ guard[u] => t = u

\* It is so as long as no turn, together with its release, has outlasted the
\* five minutes: it rests on PostgresSessionTurnLock::acquire and on every
\* release coming from the only turn that could still own the lock.
OneActiveTurnInTime == ~overran => OneActiveTurn

\* As long as no turn has outlasted them, the row of a session with an active
\* turn says so and is not up for takeover: no other turn's release, refusal,
\* stray UPDATE or crash can clear or outdate it.
LockHeldWhileActive ==
    ~overran /\ exists /\ (\E t \in Turns: guard[t]) =>
        processing_turn /\ started_at = "fresh"

-----------------------------------------------------------------------------
\* The history.

Committed(t) == \E i \in 1..Len(deltas): deltas[i].turn = t

\* No update is lost and none is applied to a state it was not computed
\* from: the i-th committed turn loaded exactly version i - 1, whatever
\* happened to the lock (the WHERE version = $4 of persist_successful_turn).
SerialHistory ==
    /\ version = Len(deltas)
    /\ \A i \in 1..Len(deltas): deltas[i].base = i - 1

\* A committed turn was narrated from the messages of exactly the turns its
\* world state had absorbed, although load_turn_state reads the two in
\* separate statements.
ContextMatchesBase ==
    \A i \in 1..Len(deltas): deltas[i].seen = deltas[i].base

\* The version the timeline shows beside the i-th turn: its row number by
\* created_at (of two with the same timestamp, the later place).
WorldStateVersion(i) ==
    Cardinality({j \in DOMAIN deltas: deltas[j].stamp <= deltas[i].stamp})

\* The timeline shows every turn with the version its UPDATE gave it, although
\* created_at is the begin of a transaction and transactions overlap.
TimelineOrder ==
    \A i \in 1..Len(deltas): WorldStateVersion(i) = i

\* A turn_finished event in the log stands for a committed turn.
FinishedIsCommitted ==
    \A t \in Turns:
        logged[t] \in {"turn_finished", "turn_lock_releasing"} => Committed(t)

\* A turn whose loaded version has been overtaken can no longer commit: the
\* history only ever grows by turns that loaded its latest version, or is
\* deleted as a whole with the session.
HistoryOnlyGrows ==
    [][deltas' # deltas =>
          \/ /\ Len(deltas') = Len(deltas) + 1
             /\ SubSeq(deltas', 1, Len(deltas)) = deltas
             /\ base[deltas'[Len(deltas')].turn] = version
          \/ ~exists' /\ deltas' = <<>>]_vars

-----------------------------------------------------------------------------
\* The promise to clients, as SessionLedger states it.

Promise == INSTANCE SessionLedger WITH
    live <- exists,
    ledger <- [i \in 1..Len(deltas) |->
                  [turn |-> deltas[i].turn, basis |-> deltas[i].base]],
    verdict <- [t \in Turns |-> VerdictOf(reply[t])]

\* Every behaviour of the stored session is one SessionLedger allows: turns
\* take effect once, in order, each on all of its predecessors; "ok" means
\* applied and a refusal means never applied.
ImplementsLedger == Promise!Spec

-----------------------------------------------------------------------------
\* Progress, under FairSpec.

\* Every request ends, whatever fails around it.
EveryTurnEnds == \A t \in Turns: <>(pc[t] = "done")

\* A session is never locked for good: however its lock was taken and
\* whatever became of the turn, a new turn can be admitted again.
LockComesBack == []<>(Acquirable \/ ~exists)

=============================================================================
