----------------------------- MODULE WorldDelta -----------------------------
(***************************************************************************)
(* What the turns of one session do to its world: the model proposes a     *)
(* delta (a list of typed changes), BasicDeltaValidator accepts or rejects *)
(* it, BasicWorldStateReducer folds it into a copy of the world, and the   *)
(* pipeline persists the copy or drops it.                                 *)
(*                                                                         *)
(* The point of the module is that the two components look at different    *)
(* worlds.  The validator judges every change against the world that is    *)
(* stored; the reducer applies the changes one after the other, each to    *)
(* what the ones before it have left.                                      *)
(*                                                                         *)
(* NPCs, clocks and the numbers a turn may move are modelled.  A meter is  *)
(* a number with a range: a faction's standing or pressure, a              *)
(* relationship's trust, suspicion or loyalty, a goal's progress.          *)
(* Reasons, texts and the tests for empty strings and unknown ids are left *)
(* out: the deltas here are those that pass them.                          *)
(***************************************************************************)
EXTENDS Integers, Sequences

CONSTANTS
    Npcs, Places,
    Minds,              \* attitudes, intents and bodies of knowledge
    Clocks, ClockMax,   \* ClockMax[c] is the clock's max
    FactionMeters, BondMeters, Goals,
    Lo, Hi,             \* the range of each meter
    FirstClock, FirstMeter,  \* what a scenario starts with
    Amounts,            \* the numbers a model writes into its changes
    MaxChanges,         \* bound: changes in one delta
    MaxTurns            \* bound: persisted turns

Meters == FactionMeters \union BondMeters \union Goals

ASSUME ClocksAssumption == ClockMax \in [Clocks -> Nat] /\ FirstClock \in [Clocks -> Nat]
ASSUME SortsAssumption == Goals \intersect (FactionMeters \union BondMeters) = {}
ASSUME MetersAssumption == Lo \in [Meters -> Int] /\ Hi \in [Meters -> Int]
ASSUME RangesAssumption == \A m \in Meters : Lo[m] <= Hi[m]
\* What validate_scenario asks of a scenario.
ASSUME ScenarioAssumption ==
    /\ \A c \in Clocks : FirstClock[c] <= ClockMax[c]
    /\ FirstMeter \in [Meters -> Int]
    /\ \A m \in FactionMeters : Lo[m] <= FirstMeter[m] /\ FirstMeter[m] <= Hi[m]
ASSUME AmountsAssumption == Amounts \subseteq Int
ASSUME BoundsAssumption == MaxChanges \in Nat /\ MaxTurns \in Nat

\* "injured" stands for every status with rules of neither Unconscious nor Dead.
Status == {"active", "injured", "unconscious", "dead"}
Availability == {"present", "offscreen", "unavailable"}
OutOfIt == {"unconscious", "dead"}

World == [version : Nat,
          status : [Npcs -> Status],
          place : [Npcs -> Places],
          availability : [Npcs -> Availability],
          mind : [Npcs -> Minds],
          clock : [Clocks -> Int],
          meter : [Meters -> Int],
          known : SUBSET Meters]

Change ==
         [kind : {"status"}, npc : Npcs, to : Status]
  \union [kind : {"place"}, npc : Npcs, to : Places]
  \union [kind : {"availability"}, npc : Npcs, to : Availability]
  \union [kind : {"mind"}, npc : Npcs, to : Minds]
  \union [kind : {"meter"}, meter : Meters, by : Amounts]
  \union [kind : {"goal"}, meter : Goals, to : Amounts]
  \union [kind : {"advance"}, clock : Clocks, by : Amounts]
  \union [kind : {"set"}, clock : Clocks, to : Amounts \intersect Nat]

VARIABLES
    stored,     \* the world in the store
    delta,      \* the validated delta of the turn at work
    work,       \* the reducer's copy
    done,       \* how many changes it has folded in
    phase       \* "idle" or "reducing"

vars == <<stored, delta, work, done, phase>>

-----------------------------------------------------------------------------
(* The validator.                                                          *)

InRange(m, x) == Lo[m] <= x /\ x <= Hi[m]

\* Mutant: no transition is refused.
AnyStatus(w, c) == c.kind = "status"

LegalStatus(w, c) ==
    c.kind = "status" /\ ~ (w.status[c.npc] = "dead" /\ c.to = "active")

LegalPlace(w, c) == c.kind = "place" /\ w.status[c.npc] # "dead"

LegalAvailability(w, c) == c.kind = "availability"

\* Mutant: only the dead are kept from acting.
MindOfTheLiving(w, c) == c.kind = "mind" /\ w.status[c.npc] # "dead"

LegalMind(w, c) == c.kind = "mind" /\ w.status[c.npc] \notin OutOfIt

\* Mutant: the change is judged, not the sum.
LegalFactionStep(w, c) ==
    c.kind = "meter" /\ c.meter \in FactionMeters /\ InRange(c.meter, c.by)

LegalFaction(w, c) ==
    /\ c.kind = "meter" /\ c.meter \in FactionMeters
    /\ InRange(c.meter, w.meter[c.meter] + c.by)

\* A pair without a relationship counts as 0.
LegalBond(w, c) ==
    /\ c.kind = "meter" /\ c.meter \in BondMeters
    /\ InRange(c.meter, w.meter[c.meter] + c.by)

LegalProgress(w, c) ==
    /\ c.kind = "meter" /\ c.meter \in Goals /\ c.meter \in w.known
    /\ InRange(c.meter, w.meter[c.meter] + c.by)

LegalGoal(w, c) == c.kind = "goal" /\ InRange(c.meter, c.to)

LegalAdvance(w, c) ==
    /\ c.kind = "advance"
    /\ 0 <= w.clock[c.clock] + c.by
    /\ w.clock[c.clock] + c.by <= ClockMax[c.clock]

LegalSet(w, c) == c.kind = "set" /\ c.to <= ClockMax[c.clock]

Legal(w, c) ==
    \/ LegalStatus(w, c) \/ LegalPlace(w, c) \/ LegalAvailability(w, c)
    \/ LegalMind(w, c) \/ LegalFaction(w, c) \/ LegalBond(w, c)
    \/ LegalProgress(w, c) \/ LegalGoal(w, c) \/ LegalAdvance(w, c) \/ LegalSet(w, c)

Valid(w, d) == \A i \in 1..Len(d) : Legal(w, d[i])

\* A delta holds one list per kind of entity; the reducer walks them in this order.
Section(c) ==
    CASE c.kind \in {"status", "place", "availability", "mind"} -> 1
      [] c.kind = "meter" /\ c.meter \in FactionMeters -> 2
      [] c.kind \in {"advance", "set"} -> 3
      [] c.kind = "goal" \/ (c.kind = "meter" /\ c.meter \in Goals) -> 4
      [] OTHER -> 5

Sectioned(d) ==
    \A i, j \in 1..Len(d) : i < j => Section(d[i]) <= Section(d[j])

-----------------------------------------------------------------------------
(* The initial world of a scenario that validate_scenario accepts.         *)

FirstAvailability(status) ==
    IF status \in OutOfIt THEN {"unavailable"} ELSE {"present", "offscreen"}

InitialWorlds ==
    {[version |-> 0, status |-> status, place |-> place,
      availability |-> availability, mind |-> mind,
      clock |-> FirstClock, meter |-> FirstMeter, known |-> Meters \ Goals] :
        status \in [Npcs -> Status], place \in [Npcs -> Places],
        availability \in [Npcs -> Availability], mind \in [Npcs -> Minds]}

Init ==
    /\ stored \in InitialWorlds
    /\ \A n \in Npcs : stored.availability[n] \in FirstAvailability(stored.status[n])
    /\ work = stored
    /\ delta = <<>>
    /\ done = 0
    /\ phase = "idle"

-----------------------------------------------------------------------------
(* One turn: validate, reduce change by change, persist.                   *)

Propose ==
    /\ phase = "idle"
    /\ stored.version < MaxTurns
    /\ \E n \in 0..MaxChanges : \E d \in [1..n -> Change] :
          /\ Sectioned(d)
          /\ Valid(stored, d)
          /\ delta' = d
    /\ work' = stored
    /\ done' = 0
    /\ phase' = "reducing"
    /\ UNCHANGED stored

Current == delta[done + 1]

Reducing(kind) ==
    /\ phase = "reducing"
    /\ done < Len(delta)
    /\ Current.kind = kind
    /\ done' = done + 1
    /\ UNCHANGED <<stored, delta, phase>>

ReduceStatus ==
    /\ Reducing("status")
    /\ work' = [work EXCEPT !.status[Current.npc] = Current.to]

ReducePlace ==
    /\ Reducing("place")
    /\ work' = [work EXCEPT !.place[Current.npc] = Current.to]

ReduceAvailability ==
    /\ Reducing("availability")
    /\ work' = [work EXCEPT !.availability[Current.npc] = Current.to]

\* AttitudeChanged, KnowledgeAdded, IntentChanged and OffscreenActionRecorded.
ReduceMind ==
    /\ Reducing("mind")
    /\ work' = [work EXCEPT !.mind[Current.npc] = Current.to]

\* The sums are stored as they come: the reducer clamps clocks only.
Move(meters) ==
    /\ Reducing("meter")
    /\ Current.meter \in meters
    /\ work' = [work EXCEPT !.meter[Current.meter] = @ + Current.by]

ReduceFaction == Move(FactionMeters)

ReduceBond == Move(BondMeters)

ReduceProgress == Move(Goals)

\* A second goal of the same id is pushed behind the first and never found again.
ReduceGoal ==
    /\ Reducing("goal")
    /\ \/ /\ Current.meter \in work.known
          /\ work' = work
       \/ /\ Current.meter \notin work.known
          /\ work' = [work EXCEPT !.meter[Current.meter] = Current.to,
                                  !.known = @ \union {Current.meter}]

\* Mutant: the validator is trusted.
Unclamped(x, low, high) == x

Clamp(x, low, high) == IF x < low THEN low ELSE IF x > high THEN high ELSE x

ReduceAdvance ==
    /\ Reducing("advance")
    /\ work' = [work EXCEPT !.clock[Current.clock] =
                   Clamp(@ + Current.by, 0, ClockMax[Current.clock])]

ReduceSet ==
    /\ Reducing("set")
    /\ work' = [work EXCEPT !.clock[Current.clock] =
                   Clamp(Current.to, 0, ClockMax[Current.clock])]

Reduce ==
    \/ ReduceStatus \/ ReducePlace \/ ReduceAvailability \/ ReduceMind
    \/ ReduceFaction \/ ReduceBond \/ ReduceProgress
    \/ ReduceGoal \/ ReduceAdvance \/ ReduceSet

Reduced == phase = "reducing" /\ done = Len(delta)

\* Mutant: the next turn's reducer starts where this one stopped.
RestUnreset == delta' = <<>> /\ done' = done /\ phase' = "idle"

Rest == delta' = <<>> /\ done' = 0 /\ phase' = "idle"

Persist ==
    /\ Reduced
    /\ stored' = [work EXCEPT !.version = @ + 1]
    /\ work' = stored'
    /\ Rest

\* The store refuses the turn: a conflict of versions, or a fault.
Discard ==
    /\ Reduced
    /\ work' = stored
    /\ UNCHANGED stored
    /\ Rest

Next == Propose \/ Reduce \/ Persist \/ Discard

Spec == Init /\ [][Next]_vars

-----------------------------------------------------------------------------
(* Properties.                                                             *)

TypeOK ==
    /\ stored \in World
    /\ work \in World
    /\ delta \in Seq(Change)
    /\ done \in 0..Len(delta)
    /\ phase \in {"idle", "reducing"}

(* However many changes one delta makes to a clock, each of them judged    *)
(* alone, no clock is ever below 0 or above its max, in the stored world   *)
(* or half way through the reducer.                                        *)
ClockInRange ==
    \A w \in {stored, work} : \A c \in Clocks :
        0 <= w.clock[c] /\ w.clock[c] <= ClockMax[c]

Changing(m) == {i \in 1..Len(delta) : delta[i].kind = "meter" /\ delta[i].meter = m}

(* A turn that changes a meter once leaves it in its range, even a meter   *)
(* that an earlier turn has left out of it: being judged alone and applied *)
(* alone are then the same thing.                                          *)
SingleChangeLandsInRange ==
    Reduced => \A m \in Meters :
        (\E i \in 1..Len(delta) : Changing(m) = {i}) => InRange(m, work.meter[m])

(* No persisted turn takes an NPC from dead to active, by any chain of     *)
(* status changes inside one delta: each is judged against the stored      *)
(* status, not against what the change before it has made of it.           *)
NoRevivalInOneTurn ==
    [][\A n \in Npcs : stored.status[n] = "dead" => stored'.status[n] # "active"]_vars

(* An NPC that a turn found unconscious or dead comes out of the turn with *)
(* the attitude, intent and knowledge it had, and a dead one in the place  *)
(* it was, even if the same delta also changes the NPC's status.           *)
TheFallenDoNotAct ==
    [][\A n \in Npcs :
          /\ stored.status[n] \in OutOfIt => stored'.mind[n] = stored.mind[n]
          /\ stored.status[n] = "dead" => stored'.place[n] = stored.place[n]]_vars

(* The guide's claim for the reducer: no faction standing (or pressure)    *)
(* outside its range.                                                      *)
FactionMetersInRange ==
    \A m \in FactionMeters : InRange(m, stored.meter[m])

=============================================================================
