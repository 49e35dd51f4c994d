-------------------------- MODULE SessionCatalogue --------------------------
(***************************************************************************)
(* Scenarios, the sessions that play them, and the provider registry, as   *)
(* the tables of PostgreSQL and the requests on them.  Most requests read  *)
(* in one statement and write, or read again, in a later one: whatever     *)
(* other requests do comes in between.                                     *)
(*                                                                         *)
(* The definitions stored for a scenario id are numbered as they come: a   *)
(* client chooses the id, so a scenario may come back after its deletion.  *)
(* The ids of sessions are the store's own and used once.                  *)
(***************************************************************************)
EXTENDS ProviderRegistry

CONSTANTS
    Scenarios,      \* ids
    Jobs,           \* bound: catalogue requests served at the same time
    MaxEditions,    \* bound: definitions stored for a scenario
    MaxVersion      \* bound: turns committed in a session

ASSUME CatalogueBounds == {MaxEditions, MaxVersion} \subseteq Nat

VARIABLES
    editions,       \* history: how many definitions scenario c has had
    edition,        \* scenarios.definition; 0 if there is no row
    created,        \* history: ids of sessions ever created
    session,        \* sessions and world_states: what there is of session s
    job             \* job[j]: what catalogue request j is doing

catalogue == <<editions, edition, created, session, job>>

Absent == [status |-> "absent"]

SessionRow == [status : {"active"}, scenario : Scenarios,
               built : 1..MaxEditions, version : 0..MaxVersion]

Present(s) == session[s] # Absent

NoJob == [stage |-> "none"]

Job ==
         {NoJob}
  \union [stage : {"removing"}, scenario : Scenarios]
  \union [stage : {"inserting"}, scenario : Scenarios, built : 1..MaxEditions]
  \union [stage : {"erasing", "denied"}, session : Sessions]
  \union [stage : {"locating"}, session : Sessions, scenario : Scenarios]
  \union [stage : {"viewing"}, session : Sessions, edition : 1..MaxEditions]
  \union [stage : {"collecting"}, session : Sessions, edition : 1..MaxEditions,
          built : 1..MaxEditions, version : 0..MaxVersion]
  \union [stage : {"exported"}, session : Sessions,
          version : 0..MaxVersion, events : 0..MaxVersion]
  \union [stage : {"listing"}, session : Sessions]
  \union [stage : {"matching"}, session : Sessions, messages : 0..MaxVersion]
  \union [stage : {"recounting"}, session : Sessions, messages : 0..MaxVersion,
          deltas : 0..MaxVersion]
  \union [stage : {"recounted"}, session : Sessions,
          deltas : 0..MaxVersion, events : 0..MaxVersion]

CatalogueInit ==
    /\ Init
    /\ editions = [c \in Scenarios |-> 0]
    /\ edition = editions
    /\ created = {}
    /\ session = [s \in Sessions |-> Absent]
    /\ job = [j \in Jobs |-> NoJob]

Becomes(j, state) == job' = [job EXCEPT ![j] = state]

-----------------------------------------------------------------------------
(* Scenarios.                                                              *)

StoreDefinition(c) ==
    /\ editions[c] < MaxEditions
    /\ editions' = [editions EXCEPT ![c] = @ + 1]
    /\ edition' = [edition EXCEPT ![c] = editions[c] + 1]
    /\ UNCHANGED <<created, session, job>>

\* The primary key refuses an id that is there.
CreateScenario(c) == edition[c] = 0 /\ StoreDefinition(c)

UpdateScenario(c) == edition[c] # 0 /\ StoreDefinition(c)

\* delete_scenario first looks whether the scenario is there ...
BeginRemoval(j, c) ==
    /\ job[j] = NoJob
    /\ edition[c] # 0
    /\ Becomes(j, [stage |-> "removing", scenario |-> c])
    /\ UNCHANGED <<editions, edition, created, session>>

Referenced(c) == \E s \in Sessions : Present(s) /\ session[s].scenario = c

\* Mutant: scenarios go whoever plays them.
RemoveRegardless(j) ==
    /\ job[j].stage = "removing"
    /\ edition' = [edition EXCEPT ![job[j].scenario] = 0]
    /\ Becomes(j, NoJob)
    /\ UNCHANGED <<editions, created, session>>

\* ... and then deletes the row, if there is one still and no session refers to it.
RemoveScenario(j) ==
    /\ job[j].stage = "removing"
    /\ ~ Referenced(job[j].scenario)
    /\ edition' = [edition EXCEPT ![job[j].scenario] = 0]
    /\ Becomes(j, NoJob)
    /\ UNCHANGED <<editions, created, session>>

-----------------------------------------------------------------------------
(* Sessions.                                                               *)

\* create_session reads the scenario and builds the world from it ...
BeginSession(j, c) ==
    /\ job[j] = NoJob
    /\ edition[c] # 0
    /\ Becomes(j, [stage |-> "inserting", scenario |-> c, built |-> edition[c]])
    /\ UNCHANGED <<editions, edition, created, session>>

\* Mutant: the scenario is not looked for again.
InsertUnchecked(j, s) ==
    /\ job[j].stage = "inserting"
    /\ s \notin created
    /\ created' = created \union {s}
    /\ session' = [session EXCEPT ![s] =
                      [status |-> "active", scenario |-> job[j].scenario,
                       built |-> job[j].built, version |-> 0]]
    /\ Becomes(j, NoJob)
    /\ UNCHANGED <<editions, edition>>

\* ... and inserts session, world and introduction in one transaction, in
\* which the foreign key looks for the scenario's row.
InsertSession(j, s) ==
    /\ job[j].stage = "inserting"
    /\ edition[job[j].scenario] # 0
    /\ s \notin created
    /\ created' = created \union {s}
    /\ session' = [session EXCEPT ![s] =
                      [status |-> "active", scenario |-> job[j].scenario,
                       built |-> job[j].built, version |-> 0]]
    /\ Becomes(j, NoJob)
    /\ UNCHANGED <<editions, edition>>

\* delete_session first looks whether the session is there ...
BeginErasure(j, s) ==
    /\ job[j] = NoJob
    /\ Present(s)
    /\ Becomes(j, [stage |-> "erasing", session |-> s])
    /\ UNCHANGED <<editions, edition, created, session>>

\* ... and then deletes the row, and with it all that refers to it.
EraseSession(j, s) ==
    /\ job[j] = [stage |-> "erasing", session |-> s]
    /\ session' = [session EXCEPT ![s] = Absent]
    /\ Becomes(j, NoJob)
    /\ UNCHANGED <<editions, edition, created>>

\* A turn's transaction: its events and the next version of the world.
CommitTurn(s) ==
    /\ Present(s)
    /\ session[s].version < MaxVersion
    /\ session' = [session EXCEPT ![s].version = @ + 1]
    /\ UNCHANGED <<editions, edition, created, job>>

-----------------------------------------------------------------------------
(* Views: export_session, and project_session_state without the events.    *)

LocateSession(j, s) ==
    /\ job[j] = NoJob
    /\ Present(s)
    /\ Becomes(j, [stage |-> "locating", session |-> s, scenario |-> session[s].scenario])
    /\ UNCHANGED <<editions, edition, created, session>>

\* Mutant: scenarios come from a cache.
ReadCachedScenario(j) ==
    /\ job[j].stage = "locating"
    /\ \E e \in 1..edition[job[j].scenario] :
          Becomes(j, [stage |-> "viewing", session |-> job[j].session, edition |-> e])
    /\ UNCHANGED <<editions, edition, created, session>>

ReadScenario(j) ==
    /\ job[j].stage = "locating"
    /\ Becomes(j, IF edition[job[j].scenario] # 0
                  THEN [stage |-> "viewing", session |-> job[j].session,
                        edition |-> edition[job[j].scenario]]
                  ELSE [stage |-> "denied", session |-> job[j].session])
    /\ UNCHANGED <<editions, edition, created, session>>

ReadWorld(j) ==
    /\ job[j].stage = "viewing"
    /\ LET row == session[job[j].session]
       IN  Becomes(j, IF row # Absent
                      THEN [stage |-> "collecting", session |-> job[j].session,
                            edition |-> job[j].edition,
                            built |-> row.built, version |-> row.version]
                      ELSE [stage |-> "denied", session |-> job[j].session])
    /\ UNCHANGED <<editions, edition, created, session>>

\* Mutant: what create_session has written counts as a turn's.
EventsWithIntroduction(s) == IF Present(s) THEN session[s].version + 1 ELSE 0

\* The turns whose events, messages or deltas a listing returns: none of a session that is gone.
EventsOf(s) == IF Present(s) THEN session[s].version ELSE 0

\* Mutant: the events are read before the world.
EventsBeforeWorld(j) ==
    /\ job[j].stage = "collecting"
    /\ Becomes(j, [stage |-> "exported", session |-> job[j].session,
                   version |-> EventsOf(job[j].session), events |-> job[j].version])
    /\ UNCHANGED <<editions, edition, created, session>>

ReadEvents(j) ==
    /\ job[j].stage = "collecting"
    /\ Becomes(j, [stage |-> "exported", session |-> job[j].session,
                   version |-> job[j].version, events |-> EventsOf(job[j].session)])
    /\ UNCHANGED <<editions, edition, created, session>>

-----------------------------------------------------------------------------
(* raw_timeline: the session, then three lists in as many statements.  A   *)
(* job forgets what it has read when no property needs it any more.        *)

LocateTimeline(j, s) ==
    /\ job[j] = NoJob
    /\ Present(s)
    /\ Becomes(j, [stage |-> "listing", session |-> s])
    /\ UNCHANGED <<editions, edition, created, session>>

ListMessages(j) ==
    /\ job[j].stage = "listing"
    /\ Becomes(j, [stage |-> "matching", session |-> job[j].session,
                   messages |-> EventsOf(job[j].session)])
    /\ UNCHANGED <<editions, edition, created, session>>

ListDeltas(j) ==
    /\ job[j].stage = "matching"
    /\ Becomes(j, [stage |-> "recounting", session |-> job[j].session,
                   messages |-> job[j].messages, deltas |-> EventsOf(job[j].session)])
    /\ UNCHANGED <<editions, edition, created, session>>

ListEvents(j) ==
    /\ job[j].stage = "recounting"
    /\ Becomes(j, [stage |-> "recounted", session |-> job[j].session,
                   deltas |-> job[j].deltas, events |-> EventsOf(job[j].session)])
    /\ UNCHANGED <<editions, edition, created, session>>

\* The answer is sent, an error is met (a foreign key, storage) or the process stops.
EndJob(j) ==
    /\ job[j] # NoJob
    /\ Becomes(j, NoJob)
    /\ UNCHANGED <<editions, edition, created, session>>

-----------------------------------------------------------------------------
(* The two together: what touches rows of both is one statement.           *)

CatalogueStep ==
    \/ \E c \in Scenarios : CreateScenario(c) \/ UpdateScenario(c)
    \/ \E s \in Sessions : CommitTurn(s)
    \/ \E j \in Jobs :
          \/ \E c \in Scenarios : BeginRemoval(j, c) \/ BeginSession(j, c)
          \/ \E s \in Sessions :
                \/ InsertSession(j, s) \/ BeginErasure(j, s)
                \/ LocateSession(j, s) \/ LocateTimeline(j, s)
          \/ RemoveScenario(j)
          \/ ReadScenario(j) \/ ReadWorld(j) \/ ReadEvents(j)
          \/ ListMessages(j) \/ ListDeltas(j) \/ ListEvents(j)
          \/ EndJob(j)

\* Requests of the registry that look for a session's row.
SessionStep ==
    \E p \in Processes, s \in Sessions :
        /\ Present(s)
        /\ \/ \E x \in Providers \union {None} : Select(p, s, x)
           \/ \E r \in Requests : BeginTurn(r, p, s)

\* A session's selection goes with its row.
Erase == \E j \in Jobs, p \in Processes, s \in Sessions :
             EraseSession(j, s) /\ Select(p, s, None)

CatalogueNext ==
    \/ CatalogueStep /\ UNCHANGED vars
    \/ SessionStep /\ UNCHANGED catalogue
    \/ RequestStep /\ UNCHANGED catalogue
    \/ Erase

CatalogueSpec == CatalogueInit /\ [][CatalogueNext]_<<vars, catalogue>>

-----------------------------------------------------------------------------
(* Properties.                                                             *)

CatalogueTypeOK ==
    /\ TypeOK
    /\ editions \in [Scenarios -> 0..MaxEditions]
    /\ edition \in [Scenarios -> 0..MaxEditions]
    /\ created \subseteq Sessions
    /\ session \in [Sessions -> SessionRow \union {Absent}]
    /\ job \in [Jobs -> Job]
    /\ \A s \in Sessions \ created : ~ Present(s)

(* A view or an export that has found its session answers "not found" only *)
(* if the session has been deleted meanwhile: its scenario and its world   *)
(* are there as long as it is, whatever else is created and deleted.       *)
DenialsAreJustified ==
    \A j \in Jobs : job[j].stage = "denied" => ~ Present(job[j].session)

(* An export holds the events of every turn that made its world, and       *)
(* perhaps of later ones, unless the session was deleted while it was      *)
(* collected: then it has a world and no events.  So does a raw timeline   *)
(* hold the delta of every message it holds, and the events of every delta.*)
ExportsAreWhole ==
    \A j \in Jobs :
        /\ job[j].stage = "exported" /\ Present(job[j].session) =>
              job[j].events >= job[j].version
        /\ job[j].stage = "recounting" /\ Present(job[j].session) =>
              job[j].messages <= job[j].deltas
        /\ job[j].stage = "recounted" /\ Present(job[j].session) =>
              job[j].deltas <= job[j].events

(* No world is built from a definition newer than the one it is projected  *)
(* through, although create_session builds it from a definition it read    *)
(* before its transaction.                                                 *)
ViewsAreUpToDate ==
    \A j \in Jobs :
        job[j].stage = "collecting" => job[j].built <= job[j].edition

=============================================================================
