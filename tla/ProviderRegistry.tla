-------------------------- MODULE ProviderRegistry --------------------------
(***************************************************************************)
(* The providers that users register, delete and select for their          *)
(* sessions.  The rows are in PostgreSQL, shared by all processes (servers *)
(* and command-line clients); the provider objects a turn can use are in   *)
(* each process's own registry, filled when the process starts and then    *)
(* only by the requests it serves itself.  A request that changes both     *)
(* changes the row first and the registry in a later step, which it does   *)
(* not reach if its client leaves or the answer of the statement is lost.  *)
(***************************************************************************)
EXTENDS Integers, FiniteSets

CONSTANTS
    Providers,      \* ids; an id is used once
    Sessions,
    Processes,
    Requests,       \* bound: requests served at the same time
    None            \* a session without a provider: turns use the configured default

ASSUME NoneAssumption == None \notin Providers

VARIABLES
    issued,         \* ids of providers ever registered
    rows,           \* provider_configs
    selected,       \* sessions.provider_id
    up,             \* running processes
    registry,       \* registry[p]: the provider_registry of process p
    entered,        \* history: providers p has read from rows at its start, or has
                    \*   inserted without giving the registration up
    request         \* request[r]: what request r is doing

vars == <<issued, rows, selected, up, registry, entered, request>>

Idle == [stage |-> "idle"]

Request ==
         {Idle}
  \union [stage : {"registering", "deleting"}, process : Processes, provider : Providers]
  \union [stage : {"resolving"}, process : Processes, provider : Providers \union {None},
          retired : SUBSET Providers]
  \union [stage : {"using"}, provider : Providers \union {None}, retired : SUBSET Providers]

\* The stages in which a request depends on its process.
Served == {"registering", "deleting", "resolving"}

Init ==
    /\ issued = {} /\ rows = {}
    /\ selected = [s \in Sessions |-> None]
    /\ up = {}
    /\ registry = [p \in Processes |-> {}]
    /\ entered = [p \in Processes |-> {}]
    /\ request = [r \in Requests |-> Idle]

-----------------------------------------------------------------------------
(* Processes.                                                              *)

\* AppState::new: a record that cannot be built keeps the process from starting.
Start(p) ==
    /\ p \notin up
    /\ up' = up \union {p}
    /\ registry' = [registry EXCEPT ![p] = rows]
    /\ entered' = [entered EXCEPT ![p] = rows]
    /\ UNCHANGED <<issued, rows, selected, request>>

Stop(p) ==
    /\ p \in up
    /\ up' = up \ {p}
    /\ registry' = [registry EXCEPT ![p] = {}]
    /\ entered' = [entered EXCEPT ![p] = {}]
    /\ request' = [r \in Requests |->
                      IF request[r].stage \in Served
                         /\ request[r].process = p
                      THEN Idle ELSE request[r]]
    /\ UNCHANGED <<issued, rows, selected>>

-----------------------------------------------------------------------------
(* Requests, in the steps that others can come between.                    *)

Begin(r, p) == p \in up /\ request[r] = Idle

\* create_provider inserts the row.
Register(r, p, x) ==
    /\ Begin(r, p)
    /\ x \notin issued
    /\ issued' = issued \union {x}
    /\ rows' = rows \union {x}
    /\ request' = [request EXCEPT ![r] =
                      [stage |-> "registering", process |-> p, provider |-> x]]
    /\ entered' = [entered EXCEPT ![p] = @ \union {x}]
    /\ UNCHANGED <<selected, up, registry>>

\* Mutant: the new provider waits for the next start.
RegisteredRowOnly(r, p) ==
    /\ request[r].stage = "registering" /\ request[r].process = p
    /\ request' = [request EXCEPT ![r] = Idle]
    /\ UNCHANGED <<issued, rows, selected, up, registry, entered>>

Registered(r, p) ==
    /\ request[r].stage = "registering" /\ request[r].process = p
    /\ registry' = [registry EXCEPT ![p] = @ \union {request[r].provider}]
    /\ request' = [request EXCEPT ![r] = Idle]
    /\ UNCHANGED <<issued, rows, selected, up, entered>>

\* Mutant: the foreign key lets sessions keep the id.
DeleteOnly(r, p, x) ==
    /\ Begin(r, p)
    /\ x \in issued
    /\ rows' = rows \ {x}
    /\ selected' = selected
    /\ request' = [request EXCEPT ![r] =
                      [stage |-> "deleting", process |-> p, provider |-> x]]
    /\ UNCHANGED <<issued, up, registry, entered>>

\* The row goes, and with it the sessions' references (ON DELETE SET NULL).
Delete(r, p, x) ==
    /\ Begin(r, p)
    /\ x \in issued
    /\ rows' = rows \ {x}
    /\ selected' = [s \in Sessions |-> IF selected[s] = x THEN None ELSE selected[s]]
    /\ request' = [request EXCEPT ![r] =
                      [stage |-> "deleting", process |-> p, provider |-> x]]
    /\ UNCHANGED <<issued, up, registry, entered>>

Deleted(r, p) ==
    /\ request[r].stage = "deleting" /\ request[r].process = p
    /\ registry' = [registry EXCEPT ![p] = @ \ {request[r].provider}]
    /\ request' = [request EXCEPT ![r] = Idle]
    /\ UNCHANGED <<issued, rows, selected, up, entered>>

\* set_session_provider is one statement; the foreign key refuses unknown ids.
Select(p, s, x) ==
    /\ p \in up
    /\ x \in rows \union {None}
    /\ selected' = [selected EXCEPT ![s] = x]
    /\ UNCHANGED <<issued, rows, up, registry, entered, request>>

\* A turn reads its session ...
BeginTurn(r, p, s) ==
    /\ Begin(r, p)
    /\ request' = [request EXCEPT ![r] =
                      [stage |-> "resolving", process |-> p, provider |-> selected[s],
                       retired |-> issued \ rows]]
    /\ UNCHANGED <<issued, rows, selected, up, registry, entered>>

\* turn_stream goes on with the default if the session is missing or cannot be read.
BeginUnread(r, p) ==
    /\ Begin(r, p)
    /\ request' = [request EXCEPT ![r] =
                      [stage |-> "resolving", process |-> p, provider |-> None,
                       retired |-> issued \ rows]]
    /\ UNCHANGED <<issued, rows, selected, up, registry, entered>>

\* ... and then resolves what it has read.
UseProvider(r, p) ==
    /\ request[r].stage = "resolving" /\ request[r].process = p
    /\ request[r].provider \in registry[p] \union {None}
    /\ request' = [request EXCEPT ![r] =
                      [stage |-> "using", provider |-> request[r].provider,
                       retired |-> request[r].retired]]
    /\ UNCHANGED <<issued, rows, selected, up, registry, entered>>

\* ResolveProviderError::Missing
RefuseTurn(r, p) ==
    /\ request[r].stage = "resolving" /\ request[r].process = p
    /\ request[r].provider \notin registry[p] \union {None}
    /\ request' = [request EXCEPT ![r] = Idle]
    /\ UNCHANGED <<issued, rows, selected, up, registry, entered>>

\* The client leaves and the handler is dropped, or the statement was executed
\* and its answer lost: either way the step after the row is not taken.
Abandon(r, p) ==
    /\ request[r].stage \in Served /\ request[r].process = p
    /\ entered' = IF request[r].stage = "registering"
                  THEN [entered EXCEPT ![p] = @ \ {request[r].provider}]
                  ELSE entered
    /\ request' = [request EXCEPT ![r] = Idle]
    /\ UNCHANGED <<issued, rows, selected, up, registry>>

EndTurn(r) ==
    /\ request[r].stage = "using"
    /\ request' = [request EXCEPT ![r] = Idle]
    /\ UNCHANGED <<issued, rows, selected, up, registry, entered>>

\* Steps that do not ask for a session's row.
RequestStep ==
    \/ \E p \in Processes : Start(p) \/ Stop(p)
    \/ \E r \in Requests : \E p \in Processes :
          \/ \E x \in Providers : Register(r, p, x) \/ Delete(r, p, x)
          \/ Registered(r, p)
          \/ Deleted(r, p)
          \/ BeginUnread(r, p)
          \/ UseProvider(r, p)
          \/ RefuseTurn(r, p)
          \/ Abandon(r, p)
    \/ \E r \in Requests : EndTurn(r)

Next ==
    \/ RequestStep
    \/ \E p \in Processes, s \in Sessions :
          \/ \E x \in Providers \union {None} : Select(p, s, x)
          \/ \E r \in Requests : BeginTurn(r, p, s)

Spec == Init /\ [][Next]_vars

-----------------------------------------------------------------------------
(* Properties.                                                             *)

TypeOK ==
    /\ issued \subseteq Providers /\ rows \subseteq issued
    /\ selected \in [Sessions -> Providers \union {None}]
    /\ up \subseteq Processes
    /\ registry \in [Processes -> SUBSET Providers]
    /\ entered \in [Processes -> SUBSET Providers]
    /\ request \in [Requests -> Request]
    /\ \A r \in Requests : request[r].stage \in Served => request[r].process \in up

(* A turn that began after a provider was deleted does not use it, however *)
(* many registries still hold the object: no session can refer to it.      *)
RetiredProvidersRest ==
    \A r \in Requests :
        request[r].stage = "using" => request[r].provider \notin request[r].retired

(* Providers whose row process p has inserted and not yet its object.      *)
Registering(p) ==
    {request[r].provider : r \in {q \in Requests : request[q].stage = "registering"
                                                   /\ request[q].process = p}}

(* A process refuses a turn for want of a provider that has a row only if  *)
(* the row came from another process after this one had started, or from a *)
(* registration here that is between its two steps or was given up between *)
(* them.  No other entry is lost, whatever comes between the steps and     *)
(* however many processes share the rows.                                  *)
RefusalsAreJustified ==
    [][\A r \in Requests, p \in Processes :
          RefuseTurn(r, p) /\ request[r].provider \in rows \intersect entered[p]
          => request[r].provider \in Registering(p)]_vars

=============================================================================
