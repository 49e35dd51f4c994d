-------------------------- MODULE WorldDelta_proofs --------------------------
(***************************************************************************)
(* Proofs about WorldDelta, for every set of NPCs, clocks and meters, every *)
(* length of a delta and every number of turns.                            *)
(***************************************************************************)
EXTENDS WorldDelta, TLAPS

USE DEF Meters

\* A step on a meter of any sort.
MeterStep == ReduceFaction \/ ReduceBond \/ ReduceProgress

-----------------------------------------------------------------------------
(* What the kind of a change says about its fields.                        *)

LEMMA ChangeFields ==
    ASSUME NEW c \in Change
    PROVE  /\ c.kind \in {"status", "place", "availability", "mind"} => c.npc \in Npcs
           /\ c.kind = "status" => c.to \in Status
           /\ c.kind = "place" => c.to \in Places
           /\ c.kind = "availability" => c.to \in Availability
           /\ c.kind = "mind" => c.to \in Minds
           /\ c.kind = "meter" => c.meter \in Meters /\ c.by \in Int
           /\ c.kind = "goal" => c.meter \in Meters /\ c.to \in Int
           /\ c.kind = "advance" => c.clock \in Clocks /\ c.by \in Int
           /\ c.kind = "set" => c.clock \in Clocks /\ c.to \in Nat
  BY AmountsAssumption DEF Change

LEMMA CurrentIsAChange ==
    ASSUME TypeOK, done < Len(delta)
    PROVE  Current \in Change /\ done + 1 \in 1..Len(delta)
  BY DEF TypeOK, Current

-----------------------------------------------------------------------------
(* Types.                                                                  *)

LEMMA InitialTypes == Init => TypeOK
<1> SUFFICES ASSUME Init PROVE TypeOK
  OBVIOUS
<1>1. stored \in World
  BY ClocksAssumption, ScenarioAssumption DEF Init, InitialWorlds, World
<1>2. delta \in Seq(Change) /\ Len(delta) = 0
  BY DEF Init
<1> QED
  BY <1>1, <1>2 DEF Init, TypeOK

LEMMA ReduceTypes ==
    ASSUME TypeOK, Reduce
    PROVE  /\ work' \in World
           /\ done' \in 0..Len(delta)
           /\ phase = "reducing" /\ done < Len(delta) /\ done' = done + 1
           /\ UNCHANGED <<stored, delta, phase>>
<1>1. /\ phase = "reducing" /\ done < Len(delta) /\ done' = done + 1
      /\ UNCHANGED <<stored, delta, phase>>
  BY DEF Reduce, Reducing, ReduceStatus, ReducePlace, ReduceAvailability, ReduceMind,
         ReduceFaction, ReduceBond, ReduceProgress, Move, ReduceGoal, ReduceAdvance, ReduceSet
<1>2. done' \in 0..Len(delta)
  BY <1>1 DEF TypeOK
<1>3. Current \in Change
  BY <1>1, CurrentIsAChange
<1> DEFINE c == Current
<1>4. c \in Change
  BY <1>3
<1> HIDE DEF c
<1>5. work \in World
  BY DEF TypeOK
<1>6. work' \in World
  <2>1. CASE ReduceStatus
    <3>1. c.npc \in Npcs /\ c.to \in Status
      BY <2>1, <1>4, ChangeFields DEF ReduceStatus, Reducing, c
    <3>2. work' = [work EXCEPT !.status[c.npc] = c.to]
      BY <2>1 DEF ReduceStatus, c
    <3> QED
      BY <3>1, <3>2, <1>5 DEF World
  <2>2. CASE ReducePlace
    <3>1. c.npc \in Npcs /\ c.to \in Places
      BY <2>2, <1>4, ChangeFields DEF ReducePlace, Reducing, c
    <3>2. work' = [work EXCEPT !.place[c.npc] = c.to]
      BY <2>2 DEF ReducePlace, c
    <3> QED
      BY <3>1, <3>2, <1>5 DEF World
  <2>3. CASE ReduceAvailability
    <3>1. c.npc \in Npcs /\ c.to \in Availability
      BY <2>3, <1>4, ChangeFields DEF ReduceAvailability, Reducing, c
    <3>2. work' = [work EXCEPT !.availability[c.npc] = c.to]
      BY <2>3 DEF ReduceAvailability, c
    <3> QED
      BY <3>1, <3>2, <1>5 DEF World
  <2>4. CASE ReduceMind
    <3>1. c.npc \in Npcs /\ c.to \in Minds
      BY <2>4, <1>4, ChangeFields DEF ReduceMind, Reducing, c
    <3>2. work' = [work EXCEPT !.mind[c.npc] = c.to]
      BY <2>4 DEF ReduceMind, c
    <3> QED
      BY <3>1, <3>2, <1>5 DEF World
  <2>5. CASE MeterStep
    <3>1. c.meter \in Meters /\ c.by \in Int
      BY <2>5, <1>4, ChangeFields DEF MeterStep, ReduceFaction, ReduceBond, ReduceProgress, Move, Reducing, c
    <3>2. work' = [work EXCEPT !.meter[c.meter] = @ + c.by]
      BY <2>5 DEF MeterStep, ReduceFaction, ReduceBond, ReduceProgress, Move, c
    <3>3. work.meter[c.meter] + c.by \in Int
      BY <3>1, <1>5 DEF World
    <3> QED
      BY <3>1, <3>2, <3>3, <1>5 DEF World
  <2>6. CASE ReduceGoal
    <3>1. c.meter \in Meters /\ c.to \in Int
      BY <2>6, <1>4, ChangeFields DEF ReduceGoal, Reducing, c
    <3>2. \/ work' = work
          \/ work' = [work EXCEPT !.meter[c.meter] = c.to, !.known = @ \union {c.meter}]
      BY <2>6 DEF ReduceGoal, c
    <3>3. [work.meter EXCEPT ![c.meter] = c.to] \in [Meters -> Int]
      BY <3>1, <1>5 DEF World
    <3>4. work.known \union {c.meter} \in SUBSET Meters
      BY <3>1, <1>5 DEF World
    <3> QED
      BY <3>2, <3>3, <3>4, <1>5 DEF World
  <2>7. CASE ReduceAdvance
    <3>1. c.clock \in Clocks /\ c.by \in Int
      BY <2>7, <1>4, ChangeFields DEF ReduceAdvance, Reducing, c
    <3>2. work' = [work EXCEPT !.clock[c.clock] = Clamp(@ + c.by, 0, ClockMax[c.clock])]
      BY <2>7 DEF ReduceAdvance, c
    <3>3. Clamp(work.clock[c.clock] + c.by, 0, ClockMax[c.clock]) \in Int
      BY <3>1, <1>5, ClocksAssumption DEF World, Clamp
    <3> QED
      BY <3>1, <3>2, <3>3, <1>5 DEF World
  <2>8. CASE ReduceSet
    <3>1. c.clock \in Clocks /\ c.to \in Nat
      BY <2>8, <1>4, ChangeFields DEF ReduceSet, Reducing, c
    <3>2. work' = [work EXCEPT !.clock[c.clock] = Clamp(c.to, 0, ClockMax[c.clock])]
      BY <2>8 DEF ReduceSet, c
    <3>3. Clamp(c.to, 0, ClockMax[c.clock]) \in Int
      BY <3>1, ClocksAssumption DEF Clamp
    <3> QED
      BY <3>1, <3>2, <3>3, <1>5 DEF World
  <2> QED
    BY <2>1, <2>2, <2>3, <2>4, <2>5, <2>6, <2>7, <2>8 DEF Reduce, MeterStep
<1> QED
  BY <1>1, <1>2, <1>6

LEMMA NextTypes == TypeOK /\ [Next]_vars => TypeOK'
<1> SUFFICES ASSUME TypeOK, [Next]_vars PROVE TypeOK'
  OBVIOUS
<1>1. CASE Propose
  <2>1. PICK n \in 0..MaxChanges : \E d \in [1..n -> Change] : delta' = d
    BY <1>1 DEF Propose
  <2>2. delta' \in Seq(Change)
    BY <2>1, BoundsAssumption
  <2>3. 0 \in 0..Len(delta')
    BY <2>2
  <2> QED
    BY <1>1, <2>2, <2>3 DEF Propose, TypeOK
<1>2. CASE Reduce
  BY <1>2, ReduceTypes DEF TypeOK
<1>3. CASE Persist
  <2>1. stored' \in World
    <3>1. work \in World /\ stored' = [work EXCEPT !.version = @ + 1]
      BY <1>3 DEF Persist, TypeOK
    <3>2. work.version + 1 \in Nat
      BY <3>1 DEF World
    <3> QED
      BY <3>1, <3>2 DEF World
  <2>2. delta' \in Seq(Change) /\ Len(delta') = 0
    BY <1>3 DEF Persist, Rest
  <2> QED
    BY <1>3, <2>1, <2>2 DEF Persist, Rest, TypeOK
<1>4. CASE Discard
  <2>1. delta' \in Seq(Change) /\ Len(delta') = 0
    BY <1>4 DEF Discard, Rest
  <2> QED
    BY <1>4, <2>1 DEF Discard, Rest, TypeOK
<1>5. CASE UNCHANGED vars
  BY <1>5 DEF vars, TypeOK
<1> QED
  BY <1>1, <1>2, <1>3, <1>4, <1>5 DEF Next

(* Every variable keeps its type, for deltas of any length.                *)
THEOREM TypeCorrect == Spec => []TypeOK
  BY InitialTypes, NextTypes, PTL DEF Spec

-----------------------------------------------------------------------------
(* What one change does to the reducer's copy, entity by entity.           *)

LEMMA ReduceEffect ==
    ASSUME TypeOK, Reduce
    PROVE  /\ \A n \in Npcs :
                 work'.status[n] = work.status[n]
                 \/ (Current.kind = "status" /\ Current.npc = n /\ work'.status[n] = Current.to)
           /\ \A n \in Npcs :
                 work'.mind[n] = work.mind[n] \/ (Current.kind = "mind" /\ Current.npc = n)
           /\ \A n \in Npcs :
                 work'.place[n] = work.place[n] \/ (Current.kind = "place" /\ Current.npc = n)
           /\ \A m \in Meters :
                 \/ work'.meter[m] = work.meter[m]
                 \/ /\ Current.kind = "meter" /\ Current.meter = m
                    /\ work'.meter[m] = work.meter[m] + Current.by
                 \/ Current.kind = "goal" /\ m \notin work.known
           /\ work.known \subseteq work'.known
           /\ \A k \in Clocks :
                 work'.clock[k] = work.clock[k]
                 \/ \E x \in Int : work'.clock[k] = Clamp(x, 0, ClockMax[k])
<1>1. work \in World
  BY DEF TypeOK
<1>2. done < Len(delta)
  BY ReduceTypes
<1>3. Current \in Change
  BY <1>2, CurrentIsAChange
<1> DEFINE c == Current
<1>4. c \in Change
  BY <1>3
<1>5. c.kind = Current.kind
  OBVIOUS
<1>6. CASE ReduceStatus
  <2>1. c.kind = "status" /\ work' = [work EXCEPT !.status[c.npc] = c.to]
    BY <1>6 DEF ReduceStatus, Reducing
  <2>2. c.npc \in Npcs
    BY <2>1, <1>4, ChangeFields
  <2> HIDE DEF c
  <2>3. /\ work'.mind = work.mind /\ work'.place = work.place
        /\ work'.meter = work.meter /\ work'.known = work.known
        /\ work'.clock = work.clock
        /\ work'.status = [work.status EXCEPT ![c.npc] = c.to]
    BY <2>1, <1>1 DEF World
  <2>4. \A n \in Npcs : work'.status[n] = work.status[n]
                          \/ (c.npc = n /\ work'.status[n] = c.to)
    BY <2>2, <2>3, <1>1 DEF World
  <2> QED
    BY <2>1, <2>3, <2>4 DEF c
<1>7. CASE ReducePlace
  <2>1. c.kind = "place" /\ work' = [work EXCEPT !.place[c.npc] = c.to]
    BY <1>7 DEF ReducePlace, Reducing
  <2>2. c.npc \in Npcs
    BY <2>1, <1>4, ChangeFields
  <2> HIDE DEF c
  <2>3. /\ work'.mind = work.mind /\ work'.status = work.status
        /\ work'.meter = work.meter /\ work'.known = work.known
        /\ work'.clock = work.clock
        /\ work'.place = [work.place EXCEPT ![c.npc] = c.to]
    BY <2>1, <1>1 DEF World
  <2>4. \A n \in Npcs : work'.place[n] = work.place[n] \/ c.npc = n
    BY <2>2, <2>3, <1>1 DEF World
  <2> QED
    BY <2>1, <2>3, <2>4 DEF c
<1>8. CASE ReduceAvailability
  <2>1. work' = [work EXCEPT !.availability[c.npc] = c.to]
    BY <1>8 DEF ReduceAvailability
  <2> HIDE DEF c
  <2>2. /\ work'.mind = work.mind /\ work'.status = work.status
        /\ work'.meter = work.meter /\ work'.known = work.known
        /\ work'.clock = work.clock /\ work'.place = work.place
    BY <2>1, <1>1 DEF World
  <2> QED
    BY <2>2
<1>9. CASE ReduceMind
  <2>1. c.kind = "mind" /\ work' = [work EXCEPT !.mind[c.npc] = c.to]
    BY <1>9 DEF ReduceMind, Reducing
  <2>2. c.npc \in Npcs
    BY <2>1, <1>4, ChangeFields
  <2> HIDE DEF c
  <2>3. /\ work'.place = work.place /\ work'.status = work.status
        /\ work'.meter = work.meter /\ work'.known = work.known
        /\ work'.clock = work.clock
        /\ work'.mind = [work.mind EXCEPT ![c.npc] = c.to]
    BY <2>1, <1>1 DEF World
  <2>4. \A n \in Npcs : work'.mind[n] = work.mind[n] \/ c.npc = n
    BY <2>2, <2>3, <1>1 DEF World
  <2> QED
    BY <2>1, <2>3, <2>4 DEF c
<1>10. CASE MeterStep
  <2>1. c.kind = "meter" /\ work' = [work EXCEPT !.meter[c.meter] = @ + c.by]
    BY <1>10 DEF MeterStep, ReduceFaction, ReduceBond, ReduceProgress, Move, Reducing
  <2>2. c.meter \in Meters
    BY <2>1, <1>4, ChangeFields
  <2> HIDE DEF c
  <2>3. /\ work'.place = work.place /\ work'.status = work.status
        /\ work'.mind = work.mind /\ work'.known = work.known
        /\ work'.clock = work.clock
        /\ work'.meter = [work.meter EXCEPT ![c.meter] = @ + c.by]
    BY <2>1, <1>1 DEF World
  <2>4. \A m \in Meters : work'.meter[m] = work.meter[m]
                            \/ (c.meter = m /\ work'.meter[m] = work.meter[m] + c.by)
    BY <2>2, <2>3, <1>1 DEF World
  <2> QED
    BY <2>1, <2>3, <2>4 DEF c
<1>11. CASE ReduceGoal
  <2>1. c.kind = "goal"
    BY <1>11 DEF ReduceGoal, Reducing
  <2>2. c.meter \in Meters
    BY <2>1, <1>4, ChangeFields
  <2>3. \/ work' = work
        \/ /\ c.meter \notin work.known
           /\ work' = [work EXCEPT !.meter[c.meter] = c.to, !.known = @ \union {c.meter}]
    BY <1>11 DEF ReduceGoal
  <2> HIDE DEF c
  <2>4. /\ work'.place = work.place /\ work'.status = work.status
        /\ work'.mind = work.mind /\ work.known \subseteq work'.known
        /\ work'.clock = work.clock
    BY <2>3, <1>1 DEF World
  <2>5. \A m \in Meters : work'.meter[m] = work.meter[m] \/ m \notin work.known
    <3>1. CASE work' = work
      BY <3>1
    <3>2. CASE /\ c.meter \notin work.known
               /\ work' = [work EXCEPT !.meter[c.meter] = c.to, !.known = @ \union {c.meter}]
      <4>1. work'.meter = [work.meter EXCEPT ![c.meter] = c.to]
        BY <3>2, <1>1 DEF World
      <4> QED
        BY <3>2, <4>1, <2>2, <1>1 DEF World
    <3> QED
      BY <2>3, <3>1, <3>2
  <2> QED
    BY <2>1, <2>4, <2>5 DEF c
<1>12. CASE ReduceAdvance
  <2>1. c.kind = "advance"
        /\ work' = [work EXCEPT !.clock[c.clock] = Clamp(@ + c.by, 0, ClockMax[c.clock])]
    BY <1>12 DEF ReduceAdvance, Reducing
  <2>2. c.clock \in Clocks /\ c.by \in Int
    BY <2>1, <1>4, ChangeFields
  <2> HIDE DEF c
  <2>3. /\ work'.place = work.place /\ work'.status = work.status
        /\ work'.mind = work.mind /\ work'.known = work.known
        /\ work'.meter = work.meter
        /\ work'.clock = [work.clock EXCEPT ![c.clock] =
                               Clamp(work.clock[c.clock] + c.by, 0, ClockMax[c.clock])]
    BY <2>1, <1>1 DEF World
  <2>4. work.clock[c.clock] + c.by \in Int
    BY <2>2, <1>1 DEF World
  <2>5. \A k \in Clocks : work'.clock[k] = work.clock[k]
                            \/ \E x \in Int : work'.clock[k] = Clamp(x, 0, ClockMax[k])
    BY <2>2, <2>3, <2>4, <1>1 DEF World
  <2> QED
    BY <2>3, <2>5
<1>13. CASE ReduceSet
  <2>1. c.kind = "set"
        /\ work' = [work EXCEPT !.clock[c.clock] = Clamp(c.to, 0, ClockMax[c.clock])]
    BY <1>13 DEF ReduceSet, Reducing
  <2>2. c.clock \in Clocks /\ c.to \in Int
    BY <2>1, <1>4, ChangeFields
  <2> HIDE DEF c
  <2>3. /\ work'.place = work.place /\ work'.status = work.status
        /\ work'.mind = work.mind /\ work'.known = work.known
        /\ work'.meter = work.meter
        /\ work'.clock = [work.clock EXCEPT ![c.clock] = Clamp(c.to, 0, ClockMax[c.clock])]
    BY <2>1, <1>1 DEF World
  <2>4. \A k \in Clocks : work'.clock[k] = work.clock[k]
                            \/ \E x \in Int : work'.clock[k] = Clamp(x, 0, ClockMax[k])
    BY <2>2, <2>3, <1>1 DEF World
  <2> QED
    BY <2>3, <2>4
<1> QED
  BY <1>6, <1>7, <1>8, <1>9, <1>10, <1>11, <1>12, <1>13 DEF Reduce, MeterStep

-----------------------------------------------------------------------------
(* Clocks.                                                                 *)

LEMMA ClampRange ==
    ASSUME NEW k \in Clocks, NEW x \in Int
    PROVE  0 <= Clamp(x, 0, ClockMax[k]) /\ Clamp(x, 0, ClockMax[k]) <= ClockMax[k]
  BY ClocksAssumption DEF Clamp

LEMMA ClocksStay == TypeOK /\ ClockInRange /\ [Next]_vars => ClockInRange'
<1> SUFFICES ASSUME TypeOK, ClockInRange, [Next]_vars PROVE ClockInRange'
  OBVIOUS
<1> DEFINE Fine(w) == \A k \in Clocks : 0 <= w.clock[k] /\ w.clock[k] <= ClockMax[k]
<1>1. Fine(stored) /\ Fine(work)
  BY DEF ClockInRange
<1>2. SUFFICES Fine(stored') /\ Fine(work')
  BY DEF ClockInRange
<1>3. CASE Propose
  BY <1>1, <1>3 DEF Propose
<1>4. CASE Reduce
  <2>1. stored' = stored
    BY <1>4, ReduceTypes
  <2>2. \A k \in Clocks : work'.clock[k] = work.clock[k]
                          \/ \E x \in Int : work'.clock[k] = Clamp(x, 0, ClockMax[k])
    BY <1>4, ReduceEffect
  <2> QED
    BY <1>1, <2>1, <2>2, ClampRange
<1>5. CASE Persist
  <2>1. work \in World /\ stored' = [work EXCEPT !.version = @ + 1] /\ work' = stored'
    BY <1>5 DEF Persist, TypeOK
  <2>2. stored'.clock = work.clock
    BY <2>1 DEF World
  <2> QED
    BY <1>1, <2>1, <2>2
<1>6. CASE Discard
  BY <1>1, <1>6 DEF Discard
<1>7. CASE UNCHANGED vars
  BY <1>1, <1>7 DEF vars
<1> QED
  BY <1>3, <1>4, <1>5, <1>6, <1>7 DEF Next

(* No sequence of deltas, and no number of changes in one of them, takes a *)
(* clock below 0 or above its max.                                         *)
THEOREM ClocksInRange == Spec => []ClockInRange
<1>1. Init => ClockInRange
  <2> SUFFICES ASSUME Init PROVE ClockInRange
    OBVIOUS
  <2>1. stored.clock = FirstClock /\ work = stored
    BY DEF Init, InitialWorlds
  <2> QED
    BY <2>1, ClocksAssumption, ScenarioAssumption DEF ClockInRange
<1> QED
  BY <1>1, ClocksStay, TypeCorrect, PTL DEF Spec

-----------------------------------------------------------------------------
(* A turn's changes were all judged against the world it started from; so  *)
(* far as the reducer has got, its copy shows what they may do together.   *)

FallenKept(w) ==
    \A n \in Npcs :
        /\ stored.status[n] = "dead" => w.status[n] # "active" /\ w.place[n] = stored.place[n]
        /\ stored.status[n] \in OutOfIt => w.mind[n] = stored.mind[n]

Untouched(m) == \A i \in 1..done : ~ (delta[i].kind = "meter" /\ delta[i].meter = m)

MetersJudged ==
    \A m \in stored.known :
        /\ Untouched(m) => work.meter[m] = stored.meter[m]
        /\ \A i \in 1..done : Changing(m) = {i} => InRange(m, work.meter[m])

Judged ==
    phase = "reducing" =>
        /\ Valid(stored, delta)
        /\ stored.known \subseteq work.known
        /\ FallenKept(work)
        /\ MetersJudged

LEMMA CurrentIsLegal ==
    ASSUME TypeOK, Valid(stored, delta), done < Len(delta)
    PROVE  Legal(stored, Current)
  BY CurrentIsAChange DEF Valid, Current

LEMMA FallenStay ==
    ASSUME TypeOK, Reduce, Valid(stored, delta), FallenKept(work)
    PROVE  FallenKept(work)'
<1>1. stored' = stored /\ done < Len(delta)
  BY ReduceTypes
<1>2. Legal(stored, Current)
  BY <1>1, CurrentIsLegal
<1>3. \A n \in Npcs :
        /\ work'.status[n] = work.status[n]
           \/ (Current.kind = "status" /\ Current.npc = n /\ work'.status[n] = Current.to)
        /\ work'.mind[n] = work.mind[n] \/ (Current.kind = "mind" /\ Current.npc = n)
        /\ work'.place[n] = work.place[n] \/ (Current.kind = "place" /\ Current.npc = n)
  BY ReduceEffect
<1>4. /\ Current.kind = "status" => ~ (stored.status[Current.npc] = "dead" /\ Current.to = "active")
      /\ Current.kind = "mind" => stored.status[Current.npc] \notin OutOfIt
      /\ Current.kind = "place" => stored.status[Current.npc] # "dead"
  BY <1>2 DEF Legal, LegalStatus, LegalPlace, LegalAvailability, LegalMind, LegalFaction, LegalBond, LegalProgress,
              LegalGoal, LegalAdvance, LegalSet
<1> QED
  BY <1>1, <1>3, <1>4 DEF FallenKept

LEMMA MetersStay ==
    ASSUME TypeOK, Reduce, Valid(stored, delta), stored.known \subseteq work.known,
           MetersJudged
    PROVE  MetersJudged'
<1>1. /\ stored' = stored /\ delta' = delta /\ done' = done + 1
      /\ done < Len(delta) /\ done \in Nat
  BY ReduceTypes DEF TypeOK
<1>2. Legal(stored, Current) /\ Current = delta[done + 1]
  BY <1>1, CurrentIsLegal DEF Current
<1> SUFFICES ASSUME NEW m \in stored.known
             PROVE  /\ Untouched(m)' => work'.meter[m] = stored.meter[m]
                    /\ \A i \in 1..done' :
                          Changing(m) = {i} => InRange(m, work'.meter[m])
  BY <1>1 DEF MetersJudged, Changing
<1>3. m \in Meters /\ m \in work.known
  BY DEF TypeOK, World
<1>4. \A i \in 1..done + 1 : i \in 1..done \/ i = done + 1
  BY <1>1
<1>5. \A i \in 1..done : i \in 1..done + 1
  BY <1>1
<1>6. done + 1 \in 1..done + 1 /\ done + 1 \in 1..Len(delta)
  BY <1>1, CurrentIsAChange
<1>7. \/ work'.meter[m] = work.meter[m]
      \/ /\ Current.kind = "meter" /\ Current.meter = m
         /\ work'.meter[m] = work.meter[m] + Current.by
  BY <1>3, ReduceEffect
<1>8. CASE Current.kind = "meter" /\ Current.meter = m
  <2>1. done + 1 \in Changing(m)
    BY <1>8, <1>2, <1>6 DEF Changing
  <2>2. ~ Untouched(m)'
    BY <1>8, <1>1, <1>2, <1>6 DEF Untouched
  <2>3. \A i \in 1..done + 1 : Changing(m) = {i} => i = done + 1
    BY <2>1
  <2>4. ASSUME Changing(m) = {done + 1} PROVE InRange(m, work'.meter[m])
    <3>1. Untouched(m)
      <4> SUFFICES ASSUME NEW i \in 1..done, delta[i].kind = "meter", delta[i].meter = m
                   PROVE  FALSE
        BY DEF Untouched
      <4>1. i \in 1..Len(delta) /\ i # done + 1
        BY <1>1 DEF TypeOK
      <4>2. i \in Changing(m)
        BY <4>1 DEF Changing
      <4> QED
        BY <4>1, <4>2, <2>4
    <3>2. work.meter[m] = stored.meter[m]
      BY <3>1 DEF MetersJudged
    <3>3. InRange(m, stored.meter[m] + Current.by)
      BY <1>2, <1>8 DEF Legal, LegalStatus, LegalPlace, LegalAvailability, LegalMind,
                        LegalFaction, LegalBond, LegalProgress, LegalGoal, LegalAdvance, LegalSet
    <3>4. work'.meter[m] = work.meter[m] + Current.by
      <4>1. Reducing("meter") /\ work' = [work EXCEPT !.meter[Current.meter] = @ + Current.by]
        BY <1>8 DEF Reduce, Reducing, ReduceStatus, ReducePlace, ReduceAvailability,
                    ReduceMind, ReduceFaction, ReduceBond, ReduceProgress, Move, ReduceGoal, ReduceAdvance, ReduceSet
      <4>2. work'.meter = [work.meter EXCEPT ![m] = @ + Current.by]
        BY <4>1, <1>8 DEF TypeOK, World
      <4> QED
        BY <4>2, <1>3 DEF TypeOK, World
    <3> QED
      BY <3>2, <3>3, <3>4
  <2> QED
    BY <1>1, <2>2, <2>3, <2>4
<1>9. CASE ~ (Current.kind = "meter" /\ Current.meter = m)
  <2>1. work'.meter[m] = work.meter[m]
    BY <1>7, <1>9
  <2>2. done + 1 \notin Changing(m)
    BY <1>9, <1>2 DEF Changing
  <2>3. Untouched(m)' => Untouched(m)
    BY <1>1, <1>5 DEF Untouched
  <2>4. \A i \in 1..done + 1 : Changing(m) = {i} => i \in 1..done
    BY <2>2, <1>4
  <2> QED
    BY <1>1, <2>1, <2>3, <2>4 DEF MetersJudged
<1> QED
  BY <1>8, <1>9

LEMMA JudgedStays == TypeOK /\ Judged /\ [Next]_vars => Judged'
<1> SUFFICES ASSUME TypeOK, Judged, [Next]_vars PROVE Judged'
  OBVIOUS
<1>1. CASE Propose
  <2>1. /\ stored' = stored /\ work' = stored /\ done' = 0 /\ Valid(stored, delta')
    BY <1>1 DEF Propose
  <2>2. Valid(stored, delta)'
    BY <2>1 DEF Valid, Legal, LegalStatus, LegalPlace, LegalAvailability, LegalMind, LegalFaction, LegalBond, LegalProgress,
                LegalGoal, LegalAdvance, LegalSet, InRange
  <2>3. FallenKept(work)'
    BY <2>1 DEF FallenKept
  <2>4. 1..done' = {}
    BY <2>1
  <2>5. MetersJudged'
    BY <2>1, <2>4 DEF MetersJudged
  <2> QED
    BY <2>1, <2>2, <2>3, <2>5 DEF Judged, FallenKept
<1>2. CASE Reduce
  <2>1. stored' = stored /\ delta' = delta /\ phase = "reducing"
    BY <1>2, ReduceTypes
  <2>2. /\ Valid(stored, delta) /\ stored.known \subseteq work.known
        /\ FallenKept(work) /\ MetersJudged
    BY <2>1 DEF Judged
  <2>3. stored.known \subseteq work'.known
    BY <1>2, <2>2, ReduceEffect
  <2>4. FallenKept(work)' /\ MetersJudged'
    BY <1>2, <2>2, FallenStay, MetersStay
  <2>5. Valid(stored, delta)'
    BY <2>1, <2>2 DEF Valid, Legal, LegalStatus, LegalPlace, LegalAvailability, LegalMind,
                      LegalFaction, LegalBond, LegalProgress, LegalGoal, LegalAdvance, LegalSet, InRange
  <2> QED
    BY <2>1, <2>3, <2>4, <2>5 DEF Judged, FallenKept
<1>3. CASE Persist \/ Discard
  BY <1>3 DEF Persist, Discard, Rest, Judged
<1>4. CASE UNCHANGED vars
  BY <1>4 DEF vars, Judged, Valid, Legal, LegalStatus, LegalPlace, LegalAvailability, LegalMind,
              LegalFaction, LegalBond, LegalProgress, LegalGoal, LegalAdvance, LegalSet, InRange, FallenKept, MetersJudged,
              Untouched, Changing
<1> QED
  BY <1>1, <1>2, <1>3, <1>4 DEF Next

LEMMA JudgedCorrect == Spec => []Judged
<1>1. Init => Judged
  BY DEF Init, Judged
<1> QED
  BY <1>1, JudgedStays, TypeCorrect, PTL DEF Spec

\* Only goals have to be added before a turn can move them.
KnownMeters == \A w \in {stored, work} : Meters \ Goals \subseteq w.known

LEMMA KnownCorrect == Spec => []KnownMeters
<1>1. Init => KnownMeters
  BY DEF Init, InitialWorlds, KnownMeters
<1>2. TypeOK /\ KnownMeters /\ [Next]_vars => KnownMeters'
  <2> SUFFICES ASSUME TypeOK, KnownMeters, [Next]_vars PROVE KnownMeters'
    OBVIOUS
  <2>1. CASE Propose \/ Discard \/ UNCHANGED vars
    BY <2>1 DEF Propose, Discard, vars, KnownMeters
  <2>2. CASE Reduce
    BY <2>2, ReduceTypes, ReduceEffect DEF KnownMeters
  <2>3. CASE Persist
    <3>1. work \in World /\ stored' = [work EXCEPT !.version = @ + 1] /\ work' = stored'
      BY <2>3 DEF Persist, TypeOK
    <3>2. stored'.known = work.known
      BY <3>1 DEF World
    <3> QED
      BY <3>1, <3>2 DEF KnownMeters
  <2> QED
    BY <2>1, <2>2, <2>3 DEF Next
<1> QED
  BY <1>1, <1>2, TypeCorrect, PTL DEF Spec

(* A turn that changes a meter once leaves it in its range, whatever it    *)
(* was before.                                                             *)
THEOREM SingleChangesLand == Spec => []SingleChangeLandsInRange
<1>1. TypeOK /\ KnownMeters /\ Judged => SingleChangeLandsInRange
  <2> SUFFICES ASSUME TypeOK, KnownMeters, Judged, Reduced, NEW m \in Meters,
                      NEW i \in 1..Len(delta), Changing(m) = {i}
               PROVE  InRange(m, work.meter[m])
    BY DEF SingleChangeLandsInRange
  <2>1. i \in 1..done /\ phase = "reducing"
    BY DEF Reduced
  <2>2. delta[i].kind = "meter" /\ delta[i].meter = m
    BY DEF Changing
  <2>3. Legal(stored, delta[i])
    BY <2>1 DEF Judged, Valid
  <2>4. m \in stored.known
    BY <2>2, <2>3, SortsAssumption DEF KnownMeters, Legal, LegalStatus, LegalPlace, LegalAvailability, LegalMind,
                      LegalFaction, LegalBond, LegalProgress, LegalGoal, LegalAdvance, LegalSet
  <2> QED
    BY <2>1, <2>4 DEF Judged, MetersJudged
<1> QED
  BY <1>1, TypeCorrect, KnownCorrect, JudgedCorrect, PTL

LEMMA PersistKeepsTheFallen ==
    ASSUME TypeOK, Judged, [Next]_vars
    PROVE  stored' = stored \/ FallenKept(stored')
<1>1. CASE Persist
  <2>1. work \in World /\ stored' = [work EXCEPT !.version = @ + 1]
    BY <1>1 DEF Persist, TypeOK
  <2>2. /\ stored'.status = work.status /\ stored'.place = work.place
        /\ stored'.mind = work.mind
    BY <2>1 DEF World
  <2>3. FallenKept(work)
    BY <1>1 DEF Persist, Reduced, Judged
  <2> QED
    BY <2>2, <2>3 DEF FallenKept
<1>2. CASE Propose \/ Discard \/ UNCHANGED vars
  BY <1>2 DEF Propose, Discard, vars
<1>3. CASE Reduce
  BY <1>3, ReduceTypes
<1> QED
  BY <1>1, <1>2, <1>3 DEF Next

(* No turn takes an NPC from dead to active, however long its delta.       *)
THEOREM NoRevival == Spec => NoRevivalInOneTurn
<1>1. TypeOK /\ Judged /\ [Next]_vars =>
        [\A n \in Npcs : stored.status[n] = "dead" => stored'.status[n] # "active"]_vars
  BY PersistKeepsTheFallen DEF FallenKept
<1> QED
  BY <1>1, TypeCorrect, JudgedCorrect, PTL DEF Spec, NoRevivalInOneTurn

(* What a turn finds unconscious or dead does not act in it, and what it   *)
(* finds dead does not move, however long its delta.                       *)
THEOREM TheFallenRest == Spec => TheFallenDoNotAct
<1>1. TypeOK /\ Judged /\ [Next]_vars =>
        [\A n \in Npcs :
            /\ stored.status[n] \in OutOfIt => stored'.mind[n] = stored.mind[n]
            /\ stored.status[n] = "dead" => stored'.place[n] = stored.place[n]]_vars
  BY PersistKeepsTheFallen DEF FallenKept
<1> QED
  BY <1>1, TypeCorrect, JudgedCorrect, PTL DEF Spec, TheFallenDoNotAct

=============================================================================
