-------------------------- MODULE SelectionHistory --------------------------
(***************************************************************************)
(* The provider registry with what it does not remember: which provider    *)
(* was last selected for a session, and which one it was when a turn began.*)
(***************************************************************************)
EXTENDS ProviderRegistry

VARIABLES
    wanted,         \* wanted[s]: what was last selected for session s
    asked           \* asked[r]: wanted[s] when turn r of session s began

history == <<wanted, asked>>

HistoryInit ==
    /\ Init
    /\ wanted = selected
    /\ asked = [r \in Requests |-> None]

HistoryNext ==
    \/ \E p \in Processes, s \in Sessions, x \in Providers \union {None} :
          /\ Select(p, s, x)
          /\ wanted' = [wanted EXCEPT ![s] = x]
          /\ UNCHANGED asked
    \/ \E r \in Requests, p \in Processes, s \in Sessions :
          /\ BeginTurn(r, p, s) \/ BeginUnread(r, p)
          /\ asked' = [asked EXCEPT ![r] = wanted[s]]
          /\ UNCHANGED wanted
    \/ \E r \in Requests, p \in Processes :
          /\ \/ Start(p) \/ Stop(p)
             \/ \E x \in Providers : Register(r, p, x) \/ Delete(r, p, x)
             \/ Registered(r, p) \/ Deleted(r, p) \/ Abandon(r, p)
             \/ UseProvider(r, p) \/ RefuseTurn(r, p) \/ EndTurn(r)
          /\ UNCHANGED history

HistorySpec == HistoryInit /\ [][HistoryNext]_<<vars, history>>

(* A turn of a session whose selected provider was deleted before the turn *)
(* began does not go on: it is refused for want of that provider           *)
(* (AppState::resolve_provider).                                            *)
MissingProviderIsRefused ==
    \A r \in Requests :
        request[r].stage = "using" => asked[r] \notin request[r].retired

=============================================================================
