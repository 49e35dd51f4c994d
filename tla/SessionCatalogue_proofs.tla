----------------------- MODULE SessionCatalogue_proofs -----------------------
(***************************************************************************)
(* Proofs about ProviderRegistry and SessionCatalogue.  Every step of the  *)
(* catalogue is a step of the registry or leaves it alone, so the          *)
(* registry's theorems hold here as well.  Views are answered because a    *)
(* session's row keeps its scenario's (ScenariosStay) and because what a   *)
(* job has read of a session stays true as long as the session is there    *)
(* (ReadIsTrue).                                                           *)
(***************************************************************************)
EXTENDS SessionCatalogue, TLAPS

-----------------------------------------------------------------------------
(***************************************************************************)
(* Proofs about ProviderRegistry, for any number of processes, sessions,   *)
(* providers and requests.  The invariant behind the first result: what a  *)
(* session refers to has a row (the foreign key), so what a turn has read  *)
(* was not retired when it began.                                          *)
(***************************************************************************)

\* Requests that carry a selection.
Carries(req) == req.stage \in {"resolving", "using"}

ReferencesHold ==
    \A s \in Sessions : selected[s] \in rows \union {None}

CarriedIsSound ==
    \A r \in Requests :
        Carries(request[r]) => request[r].provider \notin request[r].retired

RegistryInv == TypeOK /\ ReferencesHold /\ CarriedIsSound

-----------------------------------------------------------------------------
(* The requests a step leaves or makes idle are in Request.                *)
LEMMA IdleIsRequest == Idle \in Request /\ Idle.stage = "idle"
  BY DEF Idle, Request

(* Every step keeps the types.                                             *)
LEMMA TypeStep == TypeOK /\ [Next]_vars => TypeOK'
<1> SUFFICES ASSUME TypeOK, [Next]_vars PROVE TypeOK'
  OBVIOUS
<1> USE IdleIsRequest
<1>1. CASE UNCHANGED vars
  BY <1>1 DEF TypeOK, vars
<1>2. ASSUME NEW p \in Processes, Start(p) PROVE TypeOK'
  BY <1>2 DEF TypeOK, Start
<1>3. ASSUME NEW p \in Processes, Stop(p) PROVE TypeOK'
  <2>1. request' \in [Requests -> Request]
    BY <1>3 DEF TypeOK, Stop
  <2>2. ASSUME NEW r \in Requests, request'[r].stage \in Served
        PROVE request'[r].process \in up'
    <3>1. request'[r] = request[r] /\ request[r].process # p
      BY <1>3, <2>2 DEF Stop, Served, TypeOK
    <3> QED
      BY <1>3, <2>2, <3>1 DEF Stop, TypeOK
  <2> QED
    BY <1>3, <2>1, <2>2 DEF TypeOK, Stop
<1>4. ASSUME NEW p \in Processes, NEW s \in Sessions, NEW x \in Providers \union {None},
             Select(p, s, x)
      PROVE TypeOK'
  BY <1>4 DEF TypeOK, Select
<1>5. ASSUME NEW r \in Requests, NEW p \in Processes, NEW x \in Providers, Register(r, p, x)
      PROVE TypeOK'
  <2>1. [stage |-> "registering", process |-> p, provider |-> x] \in Request
    BY DEF Request
  <2> QED
    BY <1>5, <2>1 DEF TypeOK, Register, Begin, Served
<1>6. ASSUME NEW r \in Requests, NEW p \in Processes, NEW x \in Providers, Delete(r, p, x)
      PROVE TypeOK'
  <2>1. [stage |-> "deleting", process |-> p, provider |-> x] \in Request
    BY DEF Request
  <2> QED
    BY <1>6, <2>1 DEF TypeOK, Delete, Begin, Served
<1>7. ASSUME NEW r \in Requests, NEW p \in Processes, Registered(r, p) PROVE TypeOK'
  <2>1. request[r].provider \in Providers
    BY <1>7 DEF TypeOK, Registered, Request, Idle
  <2> QED
    BY <1>7, <2>1 DEF TypeOK, Registered, Served
<1>8. ASSUME NEW r \in Requests, NEW p \in Processes, Deleted(r, p) PROVE TypeOK'
  BY <1>8 DEF TypeOK, Deleted, Served
<1>9. ASSUME NEW r \in Requests, NEW p \in Processes, NEW s \in Sessions, BeginTurn(r, p, s)
      PROVE TypeOK'
  <2>1. [stage |-> "resolving", process |-> p, provider |-> selected[s],
         retired |-> issued \ rows] \in Request
    BY DEF Request, TypeOK
  <2> QED
    BY <1>9, <2>1 DEF TypeOK, BeginTurn, Begin, Served
<1>10. ASSUME NEW r \in Requests, NEW p \in Processes, UseProvider(r, p) PROVE TypeOK'
  <2>1. [stage |-> "using", provider |-> request[r].provider,
         retired |-> request[r].retired] \in Request
    BY <1>10 DEF TypeOK, UseProvider, Request, Idle
  <2> QED
    BY <1>10, <2>1 DEF TypeOK, UseProvider, Served
<1>11. ASSUME NEW r \in Requests, NEW p \in Processes, RefuseTurn(r, p) PROVE TypeOK'
  BY <1>11 DEF TypeOK, RefuseTurn, Served
<1>12. ASSUME NEW r \in Requests, EndTurn(r) PROVE TypeOK'
  BY <1>12 DEF TypeOK, EndTurn, Served
<1>13. ASSUME NEW r \in Requests, NEW p \in Processes, BeginUnread(r, p)
      PROVE TypeOK'
  <2>1. [stage |-> "resolving", process |-> p, provider |-> None,
         retired |-> issued \ rows] \in Request
    BY DEF Request, TypeOK
  <2> QED
    BY <1>13, <2>1 DEF TypeOK, BeginUnread, Begin, Served
<1>14. ASSUME NEW r \in Requests, NEW p \in Processes, Abandon(r, p) PROVE TypeOK'
  <2>1. entered' \in [Processes -> SUBSET Providers]
    BY <1>14 DEF TypeOK, Abandon
  <2> QED
    BY <1>14, <2>1 DEF TypeOK, Abandon, Served
<1> QED
  BY <1>1, <1>2, <1>3, <1>4, <1>5, <1>6, <1>7, <1>8, <1>9, <1>10, <1>11, <1>12, <1>13, <1>14
  DEF Next, RequestStep

(* A row is only taken away together with the references to it.            *)
LEMMA ReferenceStep ==
    TypeOK /\ ReferencesHold /\ [Next]_vars => ReferencesHold'
<1> SUFFICES ASSUME TypeOK, ReferencesHold, [Next]_vars PROVE ReferencesHold'
  OBVIOUS
<1>1. CASE UNCHANGED <<rows, selected>>
  BY <1>1 DEF ReferencesHold
<1>2. ASSUME NEW p \in Processes, NEW s \in Sessions, NEW x \in Providers \union {None},
             Select(p, s, x)
      PROVE ReferencesHold'
  BY <1>2 DEF ReferencesHold, TypeOK, Select
<1>3. ASSUME NEW r \in Requests, NEW p \in Processes, NEW x \in Providers, Register(r, p, x)
      PROVE ReferencesHold'
  BY <1>3 DEF ReferencesHold, Register
<1>4. ASSUME NEW r \in Requests, NEW p \in Processes, NEW x \in Providers, Delete(r, p, x)
      PROVE ReferencesHold'
  BY <1>4 DEF ReferencesHold, Delete, TypeOK
<1> QED
  BY <1>1, <1>2, <1>3, <1>4
  DEF Next, RequestStep, vars, Start, Stop, Registered, Deleted, BeginTurn, BeginUnread,
      UseProvider, RefuseTurn, Abandon, EndTurn

(* What a turn has read stays what it was.                                 *)
LEMMA CarriedStep == RegistryInv /\ [Next]_vars => CarriedIsSound'
<1> SUFFICES ASSUME RegistryInv, [Next]_vars PROVE CarriedIsSound'
  OBVIOUS
<1> USE DEF RegistryInv
<1>1. CASE UNCHANGED request
  BY <1>1 DEF CarriedIsSound, Carries
<1>2. ASSUME NEW p \in Processes, Stop(p) PROVE CarriedIsSound'
  BY <1>2, IdleIsRequest DEF CarriedIsSound, Carries, Stop, TypeOK
<1>3. ASSUME NEW r \in Requests, ~ Carries(request'[r]),
             \A q \in Requests \ {r} : request'[q] = request[q]
      PROVE CarriedIsSound'
  BY <1>3 DEF CarriedIsSound, Carries
<1>4. ASSUME NEW r \in Requests, NEW p \in Processes, NEW s \in Sessions, BeginTurn(r, p, s)
      PROVE CarriedIsSound'
  <2>1. selected[s] \notin issued \ rows
    BY NoneAssumption DEF ReferencesHold, TypeOK
  <2> QED
    BY <1>4, <2>1 DEF CarriedIsSound, Carries, BeginTurn, TypeOK
<1>5. ASSUME NEW r \in Requests, NEW p \in Processes, UseProvider(r, p)
      PROVE CarriedIsSound'
  BY <1>5 DEF CarriedIsSound, Carries, UseProvider, TypeOK
<1>6. ASSUME NEW r \in Requests, NEW p \in Processes,
             \/ \E x \in Providers : Register(r, p, x) \/ Delete(r, p, x)
             \/ Registered(r, p) \/ Deleted(r, p) \/ RefuseTurn(r, p)
             \/ Abandon(r, p)
      PROVE CarriedIsSound'
  <2>1. /\ ~ Carries(request'[r])
        /\ \A q \in Requests \ {r} : request'[q] = request[q]
    BY <1>6, IdleIsRequest
    DEF Carries, TypeOK, Register, Delete, Registered, Deleted, RefuseTurn, Abandon
  <2> QED
    BY <1>3, <2>1
<1>7. ASSUME NEW r \in Requests, EndTurn(r) PROVE CarriedIsSound'
  <2>1. /\ ~ Carries(request'[r])
        /\ \A q \in Requests \ {r} : request'[q] = request[q]
    BY <1>7, IdleIsRequest DEF Carries, TypeOK, EndTurn
  <2> QED
    BY <1>3, <2>1
<1>8. ASSUME NEW r \in Requests, NEW p \in Processes, BeginUnread(r, p)
      PROVE CarriedIsSound'
  BY <1>8, NoneAssumption DEF CarriedIsSound, Carries, BeginUnread, TypeOK
<1> QED
  BY <1>1, <1>2, <1>4, <1>5, <1>6, <1>7, <1>8
  DEF Next, RequestStep, vars, Start, Select

-----------------------------------------------------------------------------
(* The three parts together are inductive.                                 *)
THEOREM RegistryInvariant == Spec => []RegistryInv
<1>1. Init => RegistryInv
  BY IdleIsRequest
  DEF Init, RegistryInv, TypeOK, ReferencesHold, CarriedIsSound, Carries, Served
<1>2. RegistryInv /\ [Next]_vars => RegistryInv'
  BY TypeStep, ReferenceStep, CarriedStep DEF RegistryInv
<1> QED
  BY <1>1, <1>2, PTL DEF Spec

(* Rows, references, registries and requests keep their types, and no      *)
(* request outlives the process that serves it.                            *)
THEOREM TypeCorrect == Spec => []TypeOK
<1>1. RegistryInv => TypeOK
  BY DEF RegistryInv
<1> QED
  BY RegistryInvariant, <1>1, PTL

(* No turn uses a provider that was deleted before the turn began, even if *)
(* every process still holds its object.                                   *)
THEOREM RetiredRest == Spec => []RetiredProvidersRest
<1>1. RegistryInv => RetiredProvidersRest
  BY DEF RegistryInv, CarriedIsSound, Carries, RetiredProvidersRest
<1> QED
  BY RegistryInvariant, <1>1, PTL

(* What a process has read or inserted of the rows that are still there is *)
(* in its registry, or about to be: the two steps of a registration or a   *)
(* deletion name an id that no other row will ever have.                   *)
EnteredIsKept ==
    \A p \in Processes :
        /\ entered[p] \subseteq issued
        /\ entered[p] \intersect rows \subseteq registry[p] \union Registering(p)

HalvesAreIssued ==
    \A r \in Requests :
        /\ request[r].stage = "registering" => request[r].provider \in issued
        /\ request[r].stage = "deleting" => request[r].provider \in issued \ rows

\* Request r leaves what others are registering as it is.
LEMMA OthersRegister ==
    ASSUME NEW r \in Requests, NEW p \in Processes,
           \A q \in Requests \ {r} : request'[q] = request[q]
    PROVE  Registering(p) \ {request[r].provider} \subseteq Registering(p)'
<1> SUFFICES ASSUME NEW x \in Registering(p), x # request[r].provider
             PROVE  x \in Registering(p)'
  OBVIOUS
<1>1. PICK q \in Requests : /\ request[q].stage = "registering" /\ request[q].process = p
                            /\ x = request[q].provider
  BY DEF Registering
<1>2. q # r /\ request'[q] = request[q]
  BY <1>1
<1> QED
  BY <1>1, <1>2 DEF Registering

(* A request that was registering nothing only adds to what is registered. *)
LEMMA MoreRegister ==
    ASSUME NEW r \in Requests, NEW p \in Processes, request[r].stage # "registering",
           \A q \in Requests \ {r} : request'[q] = request[q]
    PROVE  Registering(p) \subseteq Registering(p)'
<1> SUFFICES ASSUME NEW x \in Registering(p) PROVE x \in Registering(p)'
  OBVIOUS
<1>1. PICK q \in Requests : /\ request[q].stage = "registering" /\ request[q].process = p
                            /\ x = request[q].provider
  BY DEF Registering
<1>2. q # r /\ request'[q] = request[q]
  BY <1>1
<1> QED
  BY <1>1, <1>2 DEF Registering

(* Rows are only added with ids never issued, and registries lose only     *)
(* what has no row.                                                        *)
LEMMA EnteredStep ==
    TypeOK /\ EnteredIsKept /\ HalvesAreIssued /\ [Next]_vars => EnteredIsKept'
<1> SUFFICES ASSUME TypeOK, EnteredIsKept, HalvesAreIssued, [Next]_vars,
                    NEW p \in Processes
             PROVE  /\ entered'[p] \subseteq issued'
                    /\ entered'[p] \intersect rows' \subseteq registry'[p] \union Registering(p)'
  BY DEF EnteredIsKept
<1>a. /\ entered[p] \subseteq issued
      /\ entered[p] \intersect rows \subseteq registry[p] \union Registering(p)
  BY DEF EnteredIsKept
<1> DEFINE Goal == /\ entered'[p] \subseteq issued'
                   /\ entered'[p] \intersect rows' \subseteq registry'[p] \union Registering(p)'
<1>1. CASE UNCHANGED <<issued, rows, registry, entered, request>>
  BY <1>1, <1>a DEF Registering
<1>2. ASSUME NEW q \in Processes, Start(q) PROVE Goal
  <2>1. Registering(p)' = Registering(p)
    BY <1>2 DEF Start, Registering
  <2> QED
    BY <1>2, <1>a, <2>1 DEF Start, TypeOK
<1>3. ASSUME NEW q \in Processes, Stop(q) PROVE Goal
  <2>1. CASE p = q
    BY <1>3, <2>1 DEF Stop, TypeOK
  <2>2. CASE p # q
    <3>1. Registering(p) \subseteq Registering(p)'
      BY <1>3, <2>2 DEF Stop, Registering
    <3> QED
      BY <1>3, <1>a, <2>2, <3>1 DEF Stop, TypeOK
  <2> QED
    BY <2>1, <2>2
<1>4. ASSUME NEW r \in Requests, NEW q \in Processes, NEW x \in Providers, Register(r, q, x)
      PROVE Goal
  <2>1. /\ request[r].stage # "registering"
        /\ \A i \in Requests \ {r} : request'[i] = request[i]
    BY <1>4, IdleIsRequest DEF Register, Begin, TypeOK
  <2>2. Registering(p) \subseteq Registering(p)'
    BY <2>1, MoreRegister
  <2>3. p = q => x \in Registering(p)'
    <3>1. request'[r] = [stage |-> "registering", process |-> q, provider |-> x]
      BY <1>4 DEF Register, TypeOK
    <3> QED
      BY <3>1 DEF Registering
  <2>4. /\ issued' = issued \union {x} /\ rows' = rows \union {x} /\ x \notin issued
        /\ registry' = registry
        /\ entered'[p] = IF p = q THEN entered[p] \union {x} ELSE entered[p]
    BY <1>4 DEF Register, TypeOK
  <2> QED
    BY <1>a, <2>2, <2>3, <2>4
<1>5. ASSUME NEW r \in Requests, NEW q \in Processes, NEW x \in Providers, Delete(r, q, x)
      PROVE Goal
  <2>1. /\ request[r].stage # "registering"
        /\ \A i \in Requests \ {r} : request'[i] = request[i]
    BY <1>5, IdleIsRequest DEF Delete, Begin, TypeOK
  <2>2. Registering(p) \subseteq Registering(p)'
    BY <2>1, MoreRegister
  <2> QED
    BY <1>5, <1>a, <2>2 DEF Delete
<1>6. ASSUME NEW r \in Requests, NEW q \in Processes, Registered(r, q) PROVE Goal
  <2>1. \A i \in Requests \ {r} : request'[i] = request[i]
    BY <1>6 DEF Registered, TypeOK
  <2>2. Registering(p) \ {request[r].provider} \subseteq Registering(p)'
    BY <2>1, OthersRegister
  <2>3. CASE p = q
    BY <1>6, <1>a, <2>2, <2>3 DEF Registered, TypeOK
  <2>4. CASE p # q
    <3>1. Registering(p) \subseteq Registering(p)'
      BY <1>6, <2>1, <2>4 DEF Registering, Registered
    <3> QED
      BY <1>6, <1>a, <2>4, <3>1 DEF Registered, TypeOK
  <2> QED
    BY <2>3, <2>4
<1>7. ASSUME NEW r \in Requests, NEW q \in Processes, Deleted(r, q) PROVE Goal
  <2>1. /\ request[r].stage # "registering"
        /\ \A i \in Requests \ {r} : request'[i] = request[i]
    BY <1>7 DEF Deleted, TypeOK
  <2>2. Registering(p) \subseteq Registering(p)'
    BY <2>1, MoreRegister
  <2>3. request[r].provider \notin rows
    BY <1>7 DEF Deleted, HalvesAreIssued
  <2> QED
    BY <1>7, <1>a, <2>2, <2>3 DEF Deleted, TypeOK
<1>8. ASSUME NEW r \in Requests, NEW q \in Processes, Abandon(r, q) PROVE Goal
  <2>1. \A i \in Requests \ {r} : request'[i] = request[i]
    BY <1>8 DEF Abandon, TypeOK
  <2>2. CASE request[r].stage = "registering"
    <3>1. Registering(p) \ {request[r].provider} \subseteq Registering(p)'
      BY <2>1, OthersRegister
    <3>2. CASE p = q
      BY <1>8, <1>a, <2>2, <3>1, <3>2 DEF Abandon, TypeOK
    <3>3. CASE p # q
      <4>1. Registering(p) \subseteq Registering(p)'
        BY <1>8, <2>1, <3>3 DEF Registering, Abandon
      <4> QED
        BY <1>8, <1>a, <2>2, <3>3, <4>1 DEF Abandon, TypeOK
    <3> QED
      BY <3>2, <3>3
  <2>3. CASE request[r].stage # "registering"
    <3>1. Registering(p) \subseteq Registering(p)'
      BY <2>1, <2>3, MoreRegister
    <3> QED
      BY <1>8, <1>a, <2>3, <3>1 DEF Abandon
  <2> QED
    BY <2>2, <2>3
<1>9. ASSUME NEW r \in Requests, request[r].stage # "registering",
             \A i \in Requests \ {r} : request'[i] = request[i],
             UNCHANGED <<issued, rows, registry, entered>>
      PROVE Goal
  BY <1>9, <1>a, MoreRegister
<1>10. ASSUME NEW r \in Requests, NEW q \in Processes,
              \/ \E s \in Sessions : BeginTurn(r, q, s)
              \/ BeginUnread(r, q) \/ UseProvider(r, q) \/ RefuseTurn(r, q)
       PROVE Goal
  <2>1. /\ request[r].stage # "registering"
        /\ \A i \in Requests \ {r} : request'[i] = request[i]
        /\ UNCHANGED <<issued, rows, registry, entered>>
    BY <1>10, IdleIsRequest
    DEF BeginTurn, BeginUnread, Begin, UseProvider, RefuseTurn, TypeOK
  <2> QED
    BY <1>9, <2>1
<1>11. ASSUME NEW r \in Requests, EndTurn(r) PROVE Goal
  <2>1. /\ request[r].stage # "registering"
        /\ \A i \in Requests \ {r} : request'[i] = request[i]
        /\ UNCHANGED <<issued, rows, registry, entered>>
    BY <1>11 DEF EndTurn, TypeOK
  <2> QED
    BY <1>9, <2>1
<1> QED
  BY <1>1, <1>2, <1>3, <1>4, <1>5, <1>6, <1>7, <1>8, <1>10, <1>11
  DEF Next, RequestStep, vars, Select

LEMMA HalvesStep == TypeOK /\ HalvesAreIssued /\ [Next]_vars => HalvesAreIssued'
<1> SUFFICES ASSUME TypeOK, HalvesAreIssued, [Next]_vars PROVE HalvesAreIssued'
  OBVIOUS
<1>1. CASE UNCHANGED <<issued, rows, request>>
  BY <1>1 DEF HalvesAreIssued
<1>2. ASSUME NEW p \in Processes, Stop(p) PROVE HalvesAreIssued'
  BY <1>2, IdleIsRequest DEF HalvesAreIssued, Stop
<1>3. ASSUME NEW r \in Requests, NEW p \in Processes, NEW x \in Providers,
             Register(r, p, x) \/ Delete(r, p, x)
      PROVE HalvesAreIssued'
  BY <1>3 DEF HalvesAreIssued, Register, Delete, TypeOK
<1>4. ASSUME NEW r \in Requests, request' = [request EXCEPT ![r] = Idle], UNCHANGED <<issued, rows>>
      PROVE HalvesAreIssued'
  BY <1>4, IdleIsRequest DEF HalvesAreIssued, TypeOK
<1>5. ASSUME NEW r \in Requests, NEW p \in Processes,
             UseProvider(r, p) \/ BeginUnread(r, p) \/ \E s \in Sessions : BeginTurn(r, p, s)
      PROVE HalvesAreIssued'
  BY <1>5 DEF HalvesAreIssued, UseProvider, BeginTurn, BeginUnread, TypeOK
<1> QED
  BY <1>1, <1>2, <1>3, <1>4, <1>5
  DEF Next, RequestStep, vars, Start, Select, Registered, Deleted, RefuseTurn, Abandon, EndTurn

(* A turn that is refused for want of a provider with a row named one that *)
(* came from another process, or whose registration here is between its    *)
(* two steps or was given up there (ProviderRegistry!RefusalsAreJustified):*)
(* the two steps of registrations and deletions, in any number of          *)
(* processes, lose no other entry.                                         *)
THEOREM RefusalsJustified == Spec => RefusalsAreJustified
<1> DEFINE Inv == TypeOK /\ EnteredIsKept /\ HalvesAreIssued
           Justified == \A r \in Requests, p \in Processes :
              RefuseTurn(r, p) /\ request[r].provider \in rows \intersect entered[p]
              => request[r].provider \in Registering(p)
<1>1. Init => Inv
  BY IdleIsRequest DEF Init, TypeOK, EnteredIsKept, HalvesAreIssued, Served
<1>2. Inv /\ [Next]_vars => Inv'
  BY TypeStep, EnteredStep, HalvesStep
<1>3. Inv => Justified
  BY DEF RefuseTurn, EnteredIsKept
<1>4. Inv /\ [Next]_vars => [Justified]_vars
  BY <1>3
<1> HIDE DEF Inv
<1> QED
  BY <1>1, <1>2, <1>4, PTL DEF Spec, RefusalsAreJustified

-----------------------------------------------------------------------------
\* Every row of sessions has its row of scenarios, and a world is not built
\* from a definition that came later.
ScenariosStay ==
    \A s \in Sessions : Present(s) =>
        session[s].built \in 1..edition[session[s].scenario]

\* A row of scenarios holds the last definition stored for its id.
RowsAreCurrent == \A c \in Scenarios : edition[c] \in {0, editions[c]}

\* Stages of a job that has found its session.
LookingStages ==
    {"locating", "viewing", "collecting", "exported", "denied",
     "listing", "matching", "recounting", "recounted"}

\* What a job knows of a session that is there.
JobIsTrue(k) ==
    /\ k.stage = "inserting" => k.built <= editions[k.scenario]
    /\ k.stage \in LookingStages => k.session \in created
    /\ k.stage = "locating" /\ Present(k.session) => session[k.session].scenario = k.scenario
    /\ k.stage = "viewing" /\ Present(k.session) => session[k.session].built <= k.edition
    /\ k.stage = "collecting" /\ Present(k.session) => session[k.session].version >= k.version
    /\ k.stage = "exported" /\ Present(k.session) => k.events >= k.version
    /\ k.stage = "denied" => ~ Present(k.session)
    /\ k.stage = "collecting" => k.built <= k.edition
    /\ k.stage = "matching" /\ Present(k.session) => session[k.session].version >= k.messages
    /\ k.stage = "recounting" /\ Present(k.session) =>
          session[k.session].version >= k.deltas /\ k.deltas >= k.messages
    /\ k.stage = "recounted" /\ Present(k.session) => k.events >= k.deltas

ReadIsTrue == \A j \in Jobs : JobIsTrue(job[j])

CatalogueInv == CatalogueTypeOK /\ RowsAreCurrent /\ ScenariosStay /\ ReadIsTrue

-----------------------------------------------------------------------------
(* Each step of the catalogue, seen from the registry: to erase a session  *)
(* is to select no provider for it.                                        *)
LEMMA RegistryStepOrStutter == [CatalogueNext]_<<vars, catalogue>> => [Next]_vars
<1> SUFFICES ASSUME [CatalogueNext]_<<vars, catalogue>>, ~ UNCHANGED vars PROVE Next
  OBVIOUS
<1>1. CASE SessionStep
  BY <1>1 DEF SessionStep, Next
<1>2. CASE RequestStep
  BY <1>2 DEF Next
<1>3. CASE Erase
  BY <1>3 DEF Erase, Next
<1> QED
  BY <1>1, <1>2, <1>3 DEF CatalogueNext

(* A step that gives one job a true state and leaves the tables alone.     *)
LEMMA OneJob ==
    ASSUME CatalogueInv, TypeOK', NEW j \in Jobs, NEW k \in Job,
           Becomes(j, k), JobIsTrue(k), UNCHANGED <<editions, edition, created, session>>
    PROVE  CatalogueInv'
<1>1. CatalogueTypeOK'
  BY DEF CatalogueInv, CatalogueTypeOK, Becomes, Present
<1>2. RowsAreCurrent' /\ ScenariosStay'
  BY DEF CatalogueInv, RowsAreCurrent, ScenariosStay, Present
<1>3. ASSUME NEW i \in Jobs PROVE JobIsTrue(job[i])'
  <2>1. job'[i] = IF i = j THEN k ELSE job[i]
    BY DEF Becomes, CatalogueInv, CatalogueTypeOK
  <2>2. JobIsTrue(job'[i])
    BY <2>1 DEF CatalogueInv, ReadIsTrue
  <2> QED
    BY <2>2 DEF JobIsTrue, Present, LookingStages
<1> QED
  BY <1>1, <1>2, <1>3 DEF CatalogueInv, ReadIsTrue

(* A job that has nothing to remember.                                     *)
LEMMA NoJobIsTrue == NoJob \in Job /\ JobIsTrue(NoJob)
  BY DEF NoJob, Job, JobIsTrue, LookingStages

(* Steps of the jobs that only read.                                       *)
LEMMA ReadingStep ==
    ASSUME CatalogueInv, TypeOK', NEW j \in Jobs,
           \/ \E c \in Scenarios : BeginRemoval(j, c) \/ BeginSession(j, c)
           \/ \E s \in Sessions : BeginErasure(j, s) \/ LocateSession(j, s)
           \/ ReadScenario(j) \/ ReadWorld(j) \/ ReadEvents(j) \/ EndJob(j)
    PROVE  CatalogueInv'
<1> USE DEF CatalogueInv, LookingStages
<1>1. ASSUME NEW c \in Scenarios, BeginRemoval(j, c) PROVE CatalogueInv'
  <2>1. [stage |-> "removing", scenario |-> c] \in Job
    BY DEF Job
  <2> QED
    BY <1>1, <2>1, OneJob DEF BeginRemoval, JobIsTrue
<1>2. ASSUME NEW c \in Scenarios, BeginSession(j, c) PROVE CatalogueInv'
  <2> DEFINE k == [stage |-> "inserting", scenario |-> c, built |-> edition[c]]
  <2>1. edition[c] \in 1..MaxEditions /\ edition[c] <= editions[c]
    BY <1>2, CatalogueBounds DEF BeginSession, CatalogueTypeOK, RowsAreCurrent
  <2>2. k \in Job /\ JobIsTrue(k)
    BY <2>1 DEF Job, JobIsTrue
  <2> QED
    BY <1>2, <2>2, OneJob DEF BeginSession
<1>3. ASSUME NEW s \in Sessions, BeginErasure(j, s) PROVE CatalogueInv'
  <2>1. [stage |-> "erasing", session |-> s] \in Job
    BY DEF Job
  <2> QED
    BY <1>3, <2>1, OneJob DEF BeginErasure, JobIsTrue
<1>4. ASSUME NEW s \in Sessions, LocateSession(j, s) PROVE CatalogueInv'
  <2> DEFINE k == [stage |-> "locating", session |-> s, scenario |-> session[s].scenario]
  <2>1. s \in created /\ session[s].scenario \in Scenarios
    BY <1>4 DEF LocateSession, CatalogueTypeOK, Present, SessionRow
  <2>2. k \in Job /\ JobIsTrue(k)
    BY <2>1 DEF Job, JobIsTrue
  <2> QED
    BY <1>4, <2>2, OneJob DEF LocateSession
<1>5. ASSUME ReadScenario(j) PROVE CatalogueInv'
  <2> DEFINE s == job[j].session
             c == job[j].scenario
  <2>1. s \in Sessions /\ c \in Scenarios /\ s \in created
    BY <1>5 DEF ReadScenario, CatalogueTypeOK, ReadIsTrue, JobIsTrue, Job, NoJob
  <2>2. Present(s) => session[s].scenario = c
    BY <1>5 DEF ReadScenario, ReadIsTrue, JobIsTrue
  <2>3. Present(s) => session[s].built \in 1..edition[c]
    BY <2>1, <2>2 DEF ScenariosStay
  <2>4. CASE edition[c] # 0
    <3> DEFINE k == [stage |-> "viewing", session |-> s, edition |-> edition[c]]
    <3>1. k \in Job
      BY <2>1, <2>4, CatalogueBounds DEF Job, CatalogueTypeOK
    <3>2. JobIsTrue(k)
      BY <2>1, <2>3 DEF JobIsTrue
    <3> QED
      BY <1>5, <2>4, <3>1, <3>2, OneJob DEF ReadScenario
  <2>5. CASE edition[c] = 0
    <3> DEFINE k == [stage |-> "denied", session |-> s]
    <3>1. ~ Present(s)
      BY <2>3, <2>5
    <3>2. k \in Job /\ JobIsTrue(k)
      BY <2>1, <3>1 DEF Job, JobIsTrue
    <3> QED
      BY <1>5, <2>5, <3>2, OneJob DEF ReadScenario
  <2> QED
    BY <2>4, <2>5
<1>6. ASSUME ReadWorld(j) PROVE CatalogueInv'
  <2> DEFINE s == job[j].session
  <2>1. s \in Sessions /\ s \in created /\ job[j].edition \in 1..MaxEditions
    BY <1>6 DEF ReadWorld, CatalogueTypeOK, ReadIsTrue, JobIsTrue, Job, NoJob
  <2>2. CASE Present(s)
    <3> DEFINE k == [stage |-> "collecting", session |-> s, edition |-> job[j].edition,
                     built |-> session[s].built, version |-> session[s].version]
    <3>1. session[s].built \in 1..MaxEditions /\ session[s].version \in 0..MaxVersion
      BY <2>1, <2>2 DEF CatalogueTypeOK, Present, SessionRow
    <3>2. session[s].built <= job[j].edition
      BY <1>6, <2>2 DEF ReadWorld, ReadIsTrue, JobIsTrue
    <3>3. k \in Job
      BY <2>1, <3>1 DEF Job
    <3>4. JobIsTrue(k)
      BY <2>1, <3>1, <3>2, CatalogueBounds DEF JobIsTrue
    <3> QED
      BY <1>6, <2>2, <3>3, <3>4, OneJob DEF ReadWorld, Present
  <2>3. CASE ~ Present(s)
    <3> DEFINE k == [stage |-> "denied", session |-> s]
    <3>1. k \in Job /\ JobIsTrue(k)
      BY <2>1, <2>3 DEF Job, JobIsTrue
    <3> QED
      BY <1>6, <2>3, <3>1, OneJob DEF ReadWorld, Present
  <2> QED
    BY <2>2, <2>3
<1>7. ASSUME ReadEvents(j) PROVE CatalogueInv'
  <2> DEFINE s == job[j].session
             k == [stage |-> "exported", session |-> s,
                   version |-> job[j].version, events |-> EventsOf(s)]
  <2>1. /\ s \in Sessions /\ s \in created
        /\ job[j].version \in 0..MaxVersion
    BY <1>7 DEF ReadEvents, CatalogueTypeOK, ReadIsTrue, JobIsTrue, Job, NoJob
  <2>2. EventsOf(s) \in 0..MaxVersion
    BY <2>1, CatalogueBounds DEF EventsOf, CatalogueTypeOK, Present, SessionRow
  <2>3. k \in Job
    BY <2>1, <2>2 DEF Job
  <2>4. JobIsTrue(k)
    BY <1>7, <2>1 DEF ReadEvents, ReadIsTrue, JobIsTrue, EventsOf
  <2> QED
    BY <1>7, <2>3, <2>4, OneJob DEF ReadEvents
<1>8. ASSUME EndJob(j) PROVE CatalogueInv'
  BY <1>8, NoJobIsTrue, OneJob DEF EndJob
<1> QED
  BY <1>1, <1>2, <1>3, <1>4, <1>5, <1>6, <1>7, <1>8

(* A list read later holds no fewer turns, as long as the session is there.*)
LEMMA RecountingStep ==
    ASSUME CatalogueInv, TypeOK', NEW j \in Jobs,
           \/ \E s \in Sessions : LocateTimeline(j, s)
           \/ ListMessages(j) \/ ListDeltas(j) \/ ListEvents(j)
    PROVE  CatalogueInv'
<1> USE DEF CatalogueInv, LookingStages
<1>1. ASSUME NEW s \in Sessions, LocateTimeline(j, s) PROVE CatalogueInv'
  <2>1. s \in created
    BY <1>1 DEF LocateTimeline, CatalogueTypeOK
  <2>2. [stage |-> "listing", session |-> s] \in Job
    BY DEF Job
  <2> QED
    BY <1>1, <2>1, <2>2, OneJob DEF LocateTimeline, JobIsTrue
<1> DEFINE s == job[j].session
<1>2. ASSUME s \in Sessions
      PROVE  EventsOf(s) \in 0..MaxVersion /\ (Present(s) => EventsOf(s) = session[s].version)
  BY <1>2, CatalogueBounds DEF EventsOf, CatalogueTypeOK, Present, SessionRow
<1>3. ASSUME ListMessages(j) PROVE CatalogueInv'
  <2> DEFINE k == [stage |-> "matching", session |-> s, messages |-> EventsOf(s)]
  <2>1. s \in Sessions /\ s \in created
    BY <1>3 DEF ListMessages, CatalogueTypeOK, ReadIsTrue, JobIsTrue, Job, NoJob
  <2>2. k \in Job
    BY <1>2, <2>1 DEF Job
  <2>3. JobIsTrue(k)
    BY <1>2, <2>1, CatalogueBounds DEF JobIsTrue
  <2> QED
    BY <1>3, <2>2, <2>3, OneJob DEF ListMessages
<1>4. ASSUME ListDeltas(j) PROVE CatalogueInv'
  <2> DEFINE k == [stage |-> "recounting", session |-> s, messages |-> job[j].messages,
                   deltas |-> EventsOf(s)]
  <2>1. s \in Sessions /\ s \in created /\ job[j].messages \in 0..MaxVersion
    BY <1>4 DEF ListDeltas, CatalogueTypeOK, ReadIsTrue, JobIsTrue, Job, NoJob
  <2>2. Present(s) => session[s].version >= job[j].messages
    BY <1>4 DEF ListDeltas, ReadIsTrue, JobIsTrue
  <2>3. k \in Job
    BY <1>2, <2>1 DEF Job
  <2>4. JobIsTrue(k)
    BY <1>2, <2>1, <2>2, CatalogueBounds DEF JobIsTrue
  <2> QED
    BY <1>4, <2>3, <2>4, OneJob DEF ListDeltas
<1>5. ASSUME ListEvents(j) PROVE CatalogueInv'
  <2> DEFINE k == [stage |-> "recounted", session |-> s, deltas |-> job[j].deltas,
                   events |-> EventsOf(s)]
  <2>1. s \in Sessions /\ s \in created /\ job[j].deltas \in 0..MaxVersion
    BY <1>5 DEF ListEvents, CatalogueTypeOK, ReadIsTrue, JobIsTrue, Job, NoJob
  <2>2. Present(s) => session[s].version >= job[j].deltas
    BY <1>5 DEF ListEvents, ReadIsTrue, JobIsTrue
  <2>3. k \in Job
    BY <1>2, <2>1 DEF Job
  <2>4. JobIsTrue(k)
    BY <1>2, <2>1, <2>2 DEF JobIsTrue
  <2> QED
    BY <1>5, <2>3, <2>4, OneJob DEF ListEvents
<1> QED
  BY <1>1, <1>3, <1>4, <1>5

(* A definition that is stored is the last of its id, and newer than every *)
(* world and every definition a job has read.                              *)
LEMMA DefinitionStep ==
    ASSUME CatalogueInv, TypeOK', NEW c \in Scenarios, StoreDefinition(c)
    PROVE  CatalogueInv'
<1> USE DEF CatalogueInv
<1>1. /\ editions[c] + 1 \in 1..MaxEditions
      /\ editions' = [editions EXCEPT ![c] = editions[c] + 1]
      /\ edition' = [edition EXCEPT ![c] = editions[c] + 1]
      /\ UNCHANGED <<created, session, job>>
  BY CatalogueBounds DEF StoreDefinition, CatalogueTypeOK
<1>2. CatalogueTypeOK'
  BY <1>1 DEF CatalogueTypeOK, Present
<1>3. RowsAreCurrent'
  BY <1>1 DEF CatalogueTypeOK, RowsAreCurrent
<1>4. ASSUME NEW d \in Scenarios PROVE edition'[d] >= edition[d] /\ editions'[d] >= editions[d]
  BY <1>1, CatalogueBounds DEF CatalogueTypeOK, RowsAreCurrent
<1>5. ScenariosStay'
  <2> SUFFICES ASSUME NEW s \in Sessions, Present(s)'
               PROVE  session'[s].built \in 1..edition'[session'[s].scenario]
    BY DEF ScenariosStay
  <2>1. session'[s] = session[s] /\ Present(s) /\ session[s].scenario \in Scenarios
    BY <1>1 DEF Present, CatalogueTypeOK, SessionRow
  <2>2. session[s].built \in 1..edition[session[s].scenario]
    BY <2>1 DEF ScenariosStay
  <2>3. /\ edition[session[s].scenario] \in Int /\ edition'[session[s].scenario] \in Int
        /\ edition'[session[s].scenario] >= edition[session[s].scenario]
    BY <1>2, <1>4, <2>1, CatalogueBounds DEF CatalogueTypeOK
  <2> QED
    BY <2>1, <2>2, <2>3
<1>6. ReadIsTrue'
  <2> SUFFICES ASSUME NEW j \in Jobs PROVE JobIsTrue(job[j])'
    BY DEF ReadIsTrue
  <2>1. job'[j] = job[j] /\ job[j] \in Job /\ JobIsTrue(job[j])
    BY <1>1 DEF CatalogueTypeOK, ReadIsTrue
  <2>2. ASSUME job[j].stage = "inserting"
        PROVE  job[j].built <= editions'[job[j].scenario]
    <3>1. job[j].scenario \in Scenarios /\ job[j].built \in Int
      BY <2>1, <2>2, CatalogueBounds DEF Job, NoJob
    <3>2. editions[job[j].scenario] \in Int /\ editions'[job[j].scenario] \in Int
      BY <1>2, <3>1, CatalogueBounds DEF CatalogueTypeOK
    <3> QED
      BY <1>4, <2>1, <2>2, <3>1, <3>2 DEF JobIsTrue
  <2> QED
    BY <1>1, <2>1, <2>2 DEF JobIsTrue, Present, LookingStages
<1> QED
  BY <1>2, <1>3, <1>5, <1>6

(* A scenario that is removed has no session.                              *)
LEMMA RemovalStep ==
    ASSUME CatalogueInv, TypeOK', NEW j \in Jobs, RemoveScenario(j)
    PROVE  CatalogueInv'
<1> USE DEF CatalogueInv
<1> DEFINE c == job[j].scenario
<1>1. /\ c \in Scenarios
      /\ edition' = [edition EXCEPT ![c] = 0]
      /\ job' = [job EXCEPT ![j] = NoJob]
      /\ UNCHANGED <<editions, created, session>>
      /\ \A s \in Sessions : Present(s) => session[s].scenario # c
  BY DEF RemoveScenario, Becomes, Referenced, CatalogueTypeOK, Job, NoJob
<1>2. CatalogueTypeOK'
  BY <1>1, NoJobIsTrue, CatalogueBounds DEF CatalogueTypeOK, Present
<1>3. RowsAreCurrent'
  BY <1>1 DEF CatalogueTypeOK, RowsAreCurrent
<1>4. ScenariosStay'
  <2> SUFFICES ASSUME NEW s \in Sessions, Present(s)'
               PROVE  session'[s].built \in 1..edition'[session'[s].scenario]
    BY DEF ScenariosStay
  <2>1. session'[s] = session[s] /\ Present(s) /\ session[s].scenario \in Scenarios
    BY <1>1 DEF Present, CatalogueTypeOK, SessionRow
  <2>2. edition'[session[s].scenario] = edition[session[s].scenario]
    BY <1>1, <2>1 DEF CatalogueTypeOK
  <2> QED
    BY <2>1, <2>2 DEF ScenariosStay
<1>5. ASSUME NEW i \in Jobs PROVE JobIsTrue(job[i])'
  <2>1. JobIsTrue(job'[i])
    BY <1>1, NoJobIsTrue DEF CatalogueTypeOK, ReadIsTrue
  <2> QED
    BY <1>1, <2>1 DEF JobIsTrue, Present, LookingStages
<1> QED
  BY <1>2, <1>3, <1>4, <1>5 DEF ReadIsTrue

(* What is known of other sessions is not touched by a new one.            *)
LEMMA InsertionStep ==
    ASSUME CatalogueInv, TypeOK', NEW j \in Jobs, NEW s \in Sessions, InsertSession(j, s)
    PROVE  CatalogueInv'
<1> USE DEF CatalogueInv
<1> DEFINE c == job[j].scenario
           row == [status |-> "active", scenario |-> c, built |-> job[j].built, version |-> 0]
<1>1. /\ session' = [session EXCEPT ![s] = row]
      /\ created' = created \union {s}
      /\ job' = [job EXCEPT ![j] = NoJob]
      /\ UNCHANGED <<editions, edition>>
      /\ s \notin created
      /\ edition[c] # 0
  BY DEF InsertSession, Becomes
<1>2. c \in Scenarios /\ job[j].built \in 1..MaxEditions
  BY DEF InsertSession, CatalogueTypeOK, Job, NoJob
<1>3. row \in SessionRow
  BY <1>2, CatalogueBounds DEF SessionRow
<1>4. CatalogueTypeOK'
  BY <1>1, <1>3, NoJobIsTrue DEF CatalogueTypeOK, Present
<1>5. RowsAreCurrent'
  BY <1>1 DEF RowsAreCurrent
<1>6. job[j].built \in 1..edition[c]
  <2>1. job[j].built <= editions[c] /\ edition[c] = editions[c]
    BY <1>1, <1>2 DEF InsertSession, ReadIsTrue, JobIsTrue, RowsAreCurrent
  <2> QED
    BY <1>2, <2>1, CatalogueBounds DEF CatalogueTypeOK
<1>7. ScenariosStay'
  <2> SUFFICES ASSUME NEW q \in Sessions, Present(q)'
               PROVE  session'[q].built \in 1..edition'[session'[q].scenario]
    BY DEF ScenariosStay
  <2>1. CASE q = s
    BY <1>1, <1>6, <2>1 DEF CatalogueTypeOK
  <2>2. CASE q # s
    BY <1>1, <2>2 DEF ScenariosStay, Present, CatalogueTypeOK
  <2> QED
    BY <2>1, <2>2
<1>8. ASSUME NEW i \in Jobs PROVE JobIsTrue(job[i])'
  <2>1. JobIsTrue(job'[i]) /\ job'[i] \in Job
    BY <1>1, NoJobIsTrue DEF CatalogueTypeOK, ReadIsTrue
  <2>2. ASSUME job'[i].session \in created
        PROVE  session'[job'[i].session] = session[job'[i].session]
    BY <1>1, <2>2 DEF CatalogueTypeOK
  <2> QED
    BY <1>1, <2>1, <2>2 DEF JobIsTrue, Present, LookingStages
<1> QED
  BY <1>4, <1>5, <1>7, <1>8 DEF ReadIsTrue

(* A turn changes the version of one session and nothing else about it.    *)
LEMMA CommitStep ==
    ASSUME CatalogueInv, TypeOK', NEW s \in Sessions, CommitTurn(s)
    PROVE  CatalogueInv'
<1> USE DEF CatalogueInv
<1>1. /\ session[s] \in SessionRow /\ session[s].version + 1 \in 0..MaxVersion
      /\ UNCHANGED <<editions, edition, created, job>>
  BY CatalogueBounds DEF CommitTurn, CatalogueTypeOK, Present, SessionRow
<1>2. session' = [session EXCEPT ![s] = [session[s] EXCEPT !.version = session[s].version + 1]]
  BY DEF CommitTurn
<1>3. [session[s] EXCEPT !.version = session[s].version + 1] \in SessionRow
  BY <1>1 DEF SessionRow
<1>4. ASSUME NEW q \in Sessions
      PROVE  /\ Present(q)' <=> Present(q)
             /\ session'[q].scenario = session[q].scenario
             /\ session'[q].built = session[q].built
             /\ Present(q) => session'[q].version \in Int /\ session[q].version \in Int
                              /\ session'[q].version >= session[q].version
  BY <1>1, <1>2, <1>3, CatalogueBounds DEF CatalogueTypeOK, Present, SessionRow, Absent, CommitTurn
<1>5. CatalogueTypeOK'
  BY <1>1, <1>2, <1>3, <1>4 DEF CatalogueTypeOK
<1>6. RowsAreCurrent' /\ ScenariosStay'
  BY <1>1, <1>4 DEF RowsAreCurrent, ScenariosStay
<1>7. ASSUME NEW j \in Jobs PROVE JobIsTrue(job[j])'
  <2>1. job'[j] = job[j] /\ JobIsTrue(job[j]) /\ job[j] \in Job
    BY <1>1 DEF CatalogueTypeOK, ReadIsTrue
  <2>2. job[j].stage \in LookingStages => job[j].session \in Sessions
    BY <2>1 DEF Job, NoJob, LookingStages
  <2>3. /\ job[j].stage = "collecting" => job[j].version \in Int
        /\ job[j].stage = "matching" => job[j].messages \in Int
        /\ job[j].stage = "recounting" => job[j].deltas \in Int
    BY <2>1, CatalogueBounds DEF Job, NoJob
  <2> QED
    BY <1>1, <1>4, <2>1, <2>2, <2>3 DEF JobIsTrue, LookingStages
<1> QED
  BY <1>5, <1>6, <1>7 DEF ReadIsTrue

(* Nothing is promised to those who ask for a session that is gone.        *)
LEMMA ErasureStep ==
    ASSUME CatalogueInv, TypeOK', NEW j \in Jobs, NEW s \in Sessions, EraseSession(j, s)
    PROVE  CatalogueInv'
<1> USE DEF CatalogueInv
<1>1. /\ session' = [session EXCEPT ![s] = Absent]
      /\ job' = [job EXCEPT ![j] = NoJob]
      /\ UNCHANGED <<editions, edition, created>>
  BY DEF EraseSession, Becomes
<1>2. ASSUME NEW q \in Sessions, Present(q)' PROVE Present(q) /\ session'[q] = session[q]
  BY <1>1, <1>2 DEF Present, CatalogueTypeOK
<1>3. CatalogueTypeOK'
  BY <1>1, NoJobIsTrue DEF CatalogueTypeOK, Present
<1>4. RowsAreCurrent' /\ ScenariosStay'
  BY <1>1, <1>2 DEF RowsAreCurrent, ScenariosStay
<1>5. ASSUME NEW i \in Jobs PROVE JobIsTrue(job[i])'
  <2>1. JobIsTrue(job'[i]) /\ job'[i] \in Job
    BY <1>1, NoJobIsTrue DEF CatalogueTypeOK, ReadIsTrue
  <2>2. job'[i].stage \in LookingStages => job'[i].session \in Sessions
    BY <2>1 DEF Job, NoJob, LookingStages
  <2> QED
    BY <1>1, <1>2, <2>1, <2>2 DEF JobIsTrue, LookingStages
<1> QED
  BY <1>3, <1>4, <1>5 DEF ReadIsTrue

-----------------------------------------------------------------------------
(* The invariant is inductive.                                             *)
LEMMA CatalogueStepKeeps == CatalogueInv /\ [CatalogueNext]_<<vars, catalogue>> => CatalogueInv'
<1> SUFFICES ASSUME CatalogueInv, [CatalogueNext]_<<vars, catalogue>> PROVE CatalogueInv'
  OBVIOUS
<1>1. TypeOK'
  BY RegistryStepOrStutter, TypeStep DEF CatalogueInv, CatalogueTypeOK
<1>2. CASE UNCHANGED catalogue
  <2>1. CatalogueTypeOK' /\ RowsAreCurrent' /\ ScenariosStay'
    BY <1>1, <1>2
    DEF CatalogueInv, CatalogueTypeOK, RowsAreCurrent, ScenariosStay, Present, catalogue
  <2>2. ReadIsTrue'
    BY <1>2 DEF CatalogueInv, ReadIsTrue, JobIsTrue, LookingStages, Present, catalogue
  <2> QED
    BY <2>1, <2>2 DEF CatalogueInv
<1>3. CASE CatalogueStep
  BY <1>1, <1>3, ReadingStep, RecountingStep, DefinitionStep, RemovalStep, InsertionStep, CommitStep
  DEF CatalogueStep, CreateScenario, UpdateScenario
<1>4. CASE Erase
  BY <1>1, <1>4, ErasureStep DEF Erase
<1> QED
  BY <1>2, <1>3, <1>4 DEF CatalogueNext

(* Types, current rows, scenarios that stay and true jobs hold together.   *)
THEOREM CatalogueInvariant == CatalogueSpec => []CatalogueInv
<1>1. CatalogueInit => CatalogueInv
  BY IdleIsRequest, NoJobIsTrue, CatalogueBounds
  DEF CatalogueInit, Init, CatalogueInv, CatalogueTypeOK, TypeOK, RowsAreCurrent, ScenariosStay,
      ReadIsTrue, Present, Served
<1> QED
  BY <1>1, CatalogueStepKeeps, PTL DEF CatalogueSpec

(* The tables keep their types, and a session that was never created has   *)
(* no row.                                                                 *)
THEOREM CatalogueTypeCorrect == CatalogueSpec => []CatalogueTypeOK
<1>1. CatalogueInv => CatalogueTypeOK
  BY DEF CatalogueInv
<1> QED
  BY CatalogueInvariant, <1>1, PTL

(* The catalogue implements the registry: creating and deleting scenarios  *)
(* and sessions shows nothing there that selecting does not.               *)
THEOREM CatalogueImplementsRegistry == CatalogueSpec => Spec
<1>1. CatalogueInit => Init
  BY DEF CatalogueInit
<1> QED
  BY <1>1, RegistryStepOrStutter, PTL DEF CatalogueSpec, Spec

(* So the registry's promises hold with sessions that come and go.         *)
THEOREM RetiredRestInCatalogue == CatalogueSpec => []RetiredProvidersRest
  BY CatalogueImplementsRegistry, RetiredRest, PTL

(* No process refuses a turn for a provider it has read or fully registered*)
THEOREM RefusalsJustifiedInCatalogue == CatalogueSpec => RefusalsAreJustified
  BY CatalogueImplementsRegistry, RefusalsJustified, PTL

(* No view or export denies a session that is there.                       *)
THEOREM DenialsJustified == CatalogueSpec => []DenialsAreJustified
<1>1. CatalogueInv => DenialsAreJustified
  BY DEF CatalogueInv, ReadIsTrue, JobIsTrue, DenialsAreJustified
<1> QED
  BY CatalogueInvariant, <1>1, PTL

(* An export of a session that is there lacks no event of its world, and a *)
(* raw timeline no delta of its messages and no event of its deltas.       *)
THEOREM ExportsWhole == CatalogueSpec => []ExportsAreWhole
<1>1. CatalogueInv => ExportsAreWhole
  BY DEF CatalogueInv, ReadIsTrue, JobIsTrue, ExportsAreWhole
<1> QED
  BY CatalogueInvariant, <1>1, PTL

(* Worlds are shown through definitions at least as new as their own.      *)
THEOREM ViewsUpToDate == CatalogueSpec => []ViewsAreUpToDate
<1>1. CatalogueInv => ViewsAreUpToDate
  BY DEF CatalogueInv, ReadIsTrue, JobIsTrue, ViewsAreUpToDate
<1> QED
  BY CatalogueInvariant, <1>1, PTL

=============================================================================
