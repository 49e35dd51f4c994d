-------------------------- MODULE SecretFlow_proofs --------------------------
(***************************************************************************)
(* Proofs about SecretFlow, for every scenario, every repertoire of the    *)
(* extractor, any number of changes in a delta and any number of turns.    *)
(*                                                                         *)
(* First what the reducer does to a world: each change keeps the types and *)
(* touches only the fields of its section (ApplyKeeps), and what every     *)
(* change of a delta keeps, the whole delta keeps (CourseStays).  Then, on *)
(* top of these lemmas, the invariants.                                    *)
(***************************************************************************)
EXTENDS SecretFlow, FiniteSetTheorems, WellFoundedInduction, TLAPS

-----------------------------------------------------------------------------
(* Induction.                                                              *)

\* A set of numbers has a least one.
LEMMA LeastNumber ==
    ASSUME NEW S, S \subseteq Nat, S # {}
    PROVE  \E x \in S : \A y \in S : x <= y
  <1> DEFINE Less == OpToRel(<, Nat)
  <1>1. PICK x \in S : \A y \in S : <<y, x>> \notin Less
    <2>1. IsWellFoundedOn(Less, Nat)
      BY NatLessThanWellFounded
    <2> HIDE DEF Less
    <2>2. QED
      BY <2>1, WFMin
  <1>2. \A y \in S : ~ (y < x)
    BY <1>1 DEF OpToRel
  <1>3. QED
    BY <1>2

\* A set of numbers with 0 and the successors of its members has them all.
LEMMA SetInduction ==
    ASSUME NEW T, 0 \in T, \A n \in Nat : n \in T => n + 1 \in T
    PROVE  \A n \in Nat : n \in T
  <1> SUFFICES ASSUME Nat \ T # {} PROVE FALSE
    OBVIOUS
  <1>1. PICK x \in Nat \ T : \A y \in Nat \ T : x <= y
    BY LeastNumber
  <1>2. x # 0 /\ x - 1 \in Nat
    OBVIOUS
  <1>3. x - 1 \in T
    BY <1>1, <1>2
  <1>4. (x - 1) + 1 = x
    BY <1>1
  <1>5. QED
    BY <1>1, <1>2, <1>3, <1>4

\* f is the course of d on w up to its n-th change.
IsCourse(f, w, d, n) ==
    f = [i \in 0..n |-> IF i = 0 THEN w ELSE Apply(f[i - 1], d[i])]

LEMMA CourseExists ==
    ASSUME NEW w, NEW d
    PROVE  \A n \in Nat : \E f : IsCourse(f, w, d, n)
  <1> DEFINE T == {n \in Nat : \E f : IsCourse(f, w, d, n)}
  <1>1. 0 \in T
    <2>1. IsCourse([i \in 0..0 |-> w], w, d, 0)
      BY DEF IsCourse
    <2>2. QED
      BY <2>1
  <1>2. ASSUME NEW n \in Nat, n \in T
        PROVE  n + 1 \in T
    <2>1. PICK f : IsCourse(f, w, d, n)
      BY <1>2
    <2> DEFINE g == [i \in 0..(n + 1) |-> IF i = n + 1 THEN Apply(f[n], d[n + 1]) ELSE f[i]]
    <2>2. \A i \in 0..n : f[i] = IF i = 0 THEN w ELSE Apply(f[i - 1], d[i])
      BY <2>1 DEF IsCourse
    <2>3. \A i \in 0..(n + 1) : g[i] = IF i = 0 THEN w ELSE Apply(g[i - 1], d[i])
      <3>1. \A i \in 0..n : g[i] = f[i]
        OBVIOUS
      <3>2. g[n + 1] = Apply(f[n], d[n + 1])
        OBVIOUS
      <3> HIDE DEF g
      <3>3. ASSUME NEW i \in 0..n
            PROVE  g[i] = IF i = 0 THEN w ELSE Apply(g[i - 1], d[i])
        BY <2>2, <3>1
      <3>4. QED
        BY <3>1, <3>2, <3>3
    <2>4. g = [i \in 0..(n + 1) |-> IF i = 0 THEN w ELSE Apply(g[i - 1], d[i])]
      <3>1. g = [i \in 0..(n + 1) |-> g[i]]
        OBVIOUS
      <3> HIDE DEF g
      <3>2. QED
        BY <2>3, <3>1
    <2>5. IsCourse(g, w, d, n + 1)
      BY <2>4 DEF IsCourse
    <2>6. QED
      BY <2>5
  <1> HIDE DEF T
  <1>3. \A n \in Nat : n \in T
    BY <1>1, <1>2, SetInduction
  <1>4. QED
    BY <1>3 DEF T

LEMMA CourseSteps ==
    ASSUME NEW w, NEW d, Len(d) \in Nat
    PROVE  /\ Course(w, d)[0] = w
           /\ \A i \in 1..Len(d) : Course(w, d)[i] = Apply(Course(w, d)[i - 1], d[i])
  <1>1. PICK f : IsCourse(f, w, d, Len(d))
    BY CourseExists
  <1>2. IsCourse(Course(w, d), w, d, Len(d))
    BY <1>1 DEF IsCourse, Course
  <1>3. QED
    BY <1>2 DEF IsCourse

\* What each of a delta's changes keeps, all of them keep.
LEMMA CourseStays ==
    ASSUME NEW w, NEW d, Len(d) \in Nat, NEW S, w \in S,
           \A v \in S : \A i \in 1..Len(d) : Apply(v, d[i]) \in S
    PROVE  Course(w, d)[Len(d)] \in S
  <1> DEFINE T == {n \in Nat : n <= Len(d) => Course(w, d)[n] \in S}
  <1>1. 0 \in T
    BY CourseSteps
  <1>2. ASSUME NEW n \in Nat, n \in T
        PROVE  n + 1 \in T
    <2>1. SUFFICES ASSUME n + 1 <= Len(d)
                   PROVE  Course(w, d)[n + 1] \in S
      OBVIOUS
    <2>2. n + 1 \in 1..Len(d) /\ (n + 1) - 1 = n /\ Course(w, d)[n] \in S
      BY <1>2, <2>1
    <2>3. Course(w, d)[n + 1] = Apply(Course(w, d)[n], d[n + 1])
      BY <2>2, CourseSteps
    <2>4. QED
      BY <2>2, <2>3
  <1> HIDE DEF T
  <1>3. \A n \in Nat : n \in T
    BY <1>1, <1>2, SetInduction
  <1>4. QED
    BY <1>3 DEF T

-----------------------------------------------------------------------------
(* Filtering a list.                                                       *)

IsFilter(f, list, places, n) ==
    f = [i \in 0..n |->
            IF i = 0 THEN <<>>
            ELSE IF i \in places THEN Append(f[i - 1], list[i]) ELSE f[i - 1]]

LEMMA FilterExists ==
    ASSUME NEW list, NEW places
    PROVE  \A n \in Nat : \E f : IsFilter(f, list, places, n)
  <1> DEFINE T == {n \in Nat : \E f : IsFilter(f, list, places, n)}
  <1> DEFINE Step(e, i) == IF i \in places THEN Append(e, list[i]) ELSE e
  <1>1. 0 \in T
    <2>1. IsFilter([i \in 0..0 |-> <<>>], list, places, 0)
      BY DEF IsFilter
    <2>2. QED
      BY <2>1
  <1>2. ASSUME NEW n \in Nat, n \in T
        PROVE  n + 1 \in T
    <2>1. PICK f : IsFilter(f, list, places, n)
      BY <1>2
    <2> DEFINE g == [i \in 0..(n + 1) |-> IF i = n + 1 THEN Step(f[n], n + 1) ELSE f[i]]
    <2>2. \A i \in 0..n : f[i] = IF i = 0 THEN <<>> ELSE Step(f[i - 1], i)
      BY <2>1 DEF IsFilter
    <2> HIDE DEF Step
    <2>3. \A i \in 0..(n + 1) : g[i] = IF i = 0 THEN <<>> ELSE Step(g[i - 1], i)
      <3>1. \A i \in 0..n : g[i] = f[i]
        OBVIOUS
      <3>2. g[n + 1] = Step(f[n], n + 1)
        OBVIOUS
      <3> HIDE DEF g
      <3>3. ASSUME NEW i \in 0..n
            PROVE  g[i] = IF i = 0 THEN <<>> ELSE Step(g[i - 1], i)
        BY <2>2, <3>1
      <3>4. QED
        BY <3>1, <3>2, <3>3
    <2>4. g = [i \in 0..(n + 1) |-> IF i = 0 THEN <<>> ELSE Step(g[i - 1], i)]
      <3>1. g = [i \in 0..(n + 1) |-> g[i]]
        OBVIOUS
      <3> HIDE DEF g
      <3>2. QED
        BY <2>3, <3>1
    <2>5. IsFilter(g, list, places, n + 1)
      BY <2>4 DEF IsFilter, Step
    <2>6. QED
      BY <2>5
  <1> HIDE DEF T
  <1>3. \A n \in Nat : n \in T
    BY <1>1, <1>2, SetInduction
  <1>4. QED
    BY <1>3 DEF T

\* What is kept of a list was in it, at one of the places.
LEMMA KeptEntries ==
    ASSUME NEW E, NEW list \in Seq(E), NEW places
    PROVE  /\ Kept(list, places) \in Seq(E)
           /\ Range(Kept(list, places)) \subseteq {list[i] : i \in DOMAIN list \intersect places}
  <1> DEFINE R == {list[i] : i \in DOMAIN list \intersect places}
  <1> DEFINE f == CHOOSE f : IsFilter(f, list, places, Len(list))
  <1>1. IsFilter(f, list, places, Len(list))
    <2>1. Len(list) \in Nat
      OBVIOUS
    <2>2. QED
      BY <2>1, FilterExists
  <1>2. Kept(list, places) = f[Len(list)]
    BY DEF IsFilter, Kept
  <1> HIDE DEF f
  <1> DEFINE T == {n \in Nat : n <= Len(list) => f[n] \in Seq(R)}
  <1>3. 0 \in T
    BY <1>1 DEF IsFilter
  <1>4. ASSUME NEW n \in Nat, n \in T
        PROVE  n + 1 \in T
    <2>1. SUFFICES ASSUME n + 1 <= Len(list)
                   PROVE  f[n + 1] \in Seq(R)
      OBVIOUS
    <2>2. n + 1 \in 0..Len(list) /\ (n + 1) - 1 = n /\ n + 1 # 0 /\ f[n] \in Seq(R)
      BY <1>4, <2>1
    <2>3. f[n + 1] = IF n + 1 \in places THEN Append(f[n], list[n + 1]) ELSE f[n]
      BY <1>1, <2>2 DEF IsFilter
    <2>4. n + 1 \in places => list[n + 1] \in R
      BY <2>1
    <2> HIDE DEF R
    <2>5. QED
      BY <2>2, <2>3, <2>4
  <1> HIDE DEF T
  <1>5. \A n \in Nat : n \in T
    BY <1>3, <1>4, SetInduction
  <1>6. Kept(list, places) \in Seq(R)
    BY <1>2, <1>5 DEF T
  <1>7. R \subseteq E
    OBVIOUS
  <1> HIDE DEF R
  <1>8. QED
    <2>1. Kept(list, places) \in Seq(E)
      BY <1>6, <1>7
    <2>2. Range(Kept(list, places)) \subseteq R
      BY <1>6 DEF Range
    <2>3. QED
      BY <2>1, <2>2 DEF R

-----------------------------------------------------------------------------
(* The fields of a world, and a world with one of them set.                *)

Fields ==
    {"version", "speaker", "place", "summary", "events", "facts", "memories", "actions", "npcs",
     "factions", "quests", "clocks", "items", "sheet", "gmNotes", "bonds", "clues"}

\* v has what w has in all fields but those of F.
Same(w, v, F) == \A g \in Fields \ F : v[g] = w[g]

LEMMA WorldDomain ==
    ASSUME NEW w, IsWorld(w)
    PROVE  DOMAIN w = Fields /\ w = [g \in Fields |-> w[g]]
  BY DEF IsWorld, WorldOf, Fields

LEMMA SetVersion ==
    ASSUME NEW w, IsWorld(w), NEW x \in Nat, NEW v, v = [w EXCEPT !.version = x]
    PROVE  IsWorld(v) /\ v.version = x
  BY DEF IsWorld, WorldOf

LEMMA SetSpeaker ==
    ASSUME NEW w, IsWorld(w), NEW x \in Npcs \union {NoOne}, NEW v, v = [w EXCEPT !.speaker = x]
    PROVE  IsWorld(v) /\ Same(w, v, {"speaker"}) /\ v.speaker = x
  <1>1. IsWorld(v) /\ v.speaker = x
    BY DEF IsWorld, WorldOf
  <1>2. Same(w, v, {"speaker"})
    BY WorldDomain DEF Same, Fields
  <1>3. QED
    BY <1>1, <1>2

LEMMA SetPlace ==
    ASSUME NEW w, IsWorld(w), NEW x \in Places, NEW v, v = [w EXCEPT !.place = x]
    PROVE  IsWorld(v) /\ Same(w, v, {"place"}) /\ v.place = x
  <1>1. IsWorld(v) /\ v.place = x
    BY DEF IsWorld, WorldOf
  <1>2. Same(w, v, {"place"})
    BY WorldDomain DEF Same, Fields
  <1>3. QED
    BY <1>1, <1>2

LEMMA SetSummary ==
    ASSUME NEW w, IsWorld(w), NEW x \in Text, NEW v, v = [w EXCEPT !.summary = x]
    PROVE  IsWorld(v) /\ Same(w, v, {"summary"}) /\ v.summary = x
  <1>1. IsWorld(v) /\ v.summary = x
    BY DEF IsWorld, WorldOf
  <1>2. Same(w, v, {"summary"})
    BY WorldDomain DEF Same, Fields
  <1>3. QED
    BY <1>1, <1>2

LEMMA SetEvents ==
    ASSUME NEW w, IsWorld(w), NEW x \in Text, NEW v, v = [w EXCEPT !.events = x]
    PROVE  IsWorld(v) /\ Same(w, v, {"events"}) /\ v.events = x
  <1>1. IsWorld(v) /\ v.events = x
    BY DEF IsWorld, WorldOf
  <1>2. Same(w, v, {"events"})
    BY WorldDomain DEF Same, Fields
  <1>3. QED
    BY <1>1, <1>2

LEMMA SetFacts ==
    ASSUME NEW w, IsWorld(w), NEW x \in Seq(Fact), NEW v, v = [w EXCEPT !.facts = x]
    PROVE  IsWorld(v) /\ Same(w, v, {"facts"}) /\ v.facts = x
  <1>1. IsWorld(v) /\ v.facts = x
    BY DEF IsWorld, WorldOf
  <1>2. Same(w, v, {"facts"})
    BY WorldDomain DEF Same, Fields
  <1>3. QED
    BY <1>1, <1>2

LEMMA SetMemories ==
    ASSUME NEW w, IsWorld(w), NEW x \in Seq(Memory), NEW v, v = [w EXCEPT !.memories = x]
    PROVE  IsWorld(v) /\ Same(w, v, {"memories"}) /\ v.memories = x
  <1>1. IsWorld(v) /\ v.memories = x
    BY DEF IsWorld, WorldOf
  <1>2. Same(w, v, {"memories"})
    BY WorldDomain DEF Same, Fields
  <1>3. QED
    BY <1>1, <1>2

LEMMA SetActions ==
    ASSUME NEW w, IsWorld(w), NEW x \in Seq(Resolution), NEW v, v = [w EXCEPT !.actions = x]
    PROVE  IsWorld(v) /\ Same(w, v, {"actions"}) /\ v.actions = x
  <1>1. IsWorld(v) /\ v.actions = x
    BY DEF IsWorld, WorldOf
  <1>2. Same(w, v, {"actions"})
    BY WorldDomain DEF Same, Fields
  <1>3. QED
    BY <1>1, <1>2

LEMMA SetNpcs ==
    ASSUME NEW w, IsWorld(w), NEW x \in [Npcs -> NpcState], NEW v, v = [w EXCEPT !.npcs = x]
    PROVE  IsWorld(v) /\ Same(w, v, {"npcs"}) /\ v.npcs = x
  <1>1. IsWorld(v) /\ v.npcs = x
    BY DEF IsWorld, WorldOf
  <1>2. Same(w, v, {"npcs"})
    BY WorldDomain DEF Same, Fields
  <1>3. QED
    BY <1>1, <1>2

LEMMA SetFactions ==
    ASSUME NEW w, IsWorld(w), NEW x \in [Factions -> FactionState], NEW v, v = [w EXCEPT !.factions = x]
    PROVE  IsWorld(v) /\ Same(w, v, {"factions"}) /\ v.factions = x
  <1>1. IsWorld(v) /\ v.factions = x
    BY DEF IsWorld, WorldOf
  <1>2. Same(w, v, {"factions"})
    BY WorldDomain DEF Same, Fields
  <1>3. QED
    BY <1>1, <1>2

LEMMA SetQuests ==
    ASSUME NEW w, IsWorld(w), NEW x \in [Quests -> QuestState], NEW v, v = [w EXCEPT !.quests = x]
    PROVE  IsWorld(v) /\ Same(w, v, {"quests"}) /\ v.quests = x
  <1>1. IsWorld(v) /\ v.quests = x
    BY DEF IsWorld, WorldOf
  <1>2. Same(w, v, {"quests"})
    BY WorldDomain DEF Same, Fields
  <1>3. QED
    BY <1>1, <1>2

LEMMA SetClocks ==
    ASSUME NEW w, IsWorld(w), NEW x \in [Clocks -> ClockState], NEW v, v = [w EXCEPT !.clocks = x]
    PROVE  IsWorld(v) /\ Same(w, v, {"clocks"}) /\ v.clocks = x
  <1>1. IsWorld(v) /\ v.clocks = x
    BY DEF IsWorld, WorldOf
  <1>2. Same(w, v, {"clocks"})
    BY WorldDomain DEF Same, Fields
  <1>3. QED
    BY <1>1, <1>2

LEMMA SetSheet ==
    ASSUME NEW w, IsWorld(w), NEW x \in Seq(SheetEntry), NEW v, v = [w EXCEPT !.sheet = x]
    PROVE  IsWorld(v) /\ Same(w, v, {"sheet"}) /\ v.sheet = x
  <1>1. IsWorld(v) /\ v.sheet = x
    BY DEF IsWorld, WorldOf
  <1>2. Same(w, v, {"sheet"})
    BY WorldDomain DEF Same, Fields
  <1>3. QED
    BY <1>1, <1>2

LEMMA SetGmNotes ==
    ASSUME NEW w, IsWorld(w), NEW x \in Text, NEW v, v = [w EXCEPT !.gmNotes = x]
    PROVE  IsWorld(v) /\ Same(w, v, {"gmNotes"}) /\ v.gmNotes = x
  <1>1. IsWorld(v) /\ v.gmNotes = x
    BY DEF IsWorld, WorldOf
  <1>2. Same(w, v, {"gmNotes"})
    BY WorldDomain DEF Same, Fields
  <1>3. QED
    BY <1>1, <1>2

LEMMA SetClues ==
    ASSUME NEW w, IsWorld(w), NEW x \in Seq(Clue), NEW v, v = [w EXCEPT !.clues = x]
    PROVE  IsWorld(v) /\ Same(w, v, {"clues"}) /\ v.clues = x
  <1>1. IsWorld(v) /\ v.clues = x
    BY DEF IsWorld, WorldOf
  <1>2. Same(w, v, {"clues"})
    BY WorldDomain DEF Same, Fields
  <1>3. QED
    BY <1>1, <1>2

LEMMA SetItems ==
    ASSUME NEW w, IsWorld(w), NEW ids \in SUBSET Items, NEW x \in [ids -> Nat], NEW v, v = [w EXCEPT !.items = x]
    PROVE  IsWorld(v) /\ Same(w, v, {"items"}) /\ v.items = x
  <1>1. IsWorld(v) /\ v.items = x
    BY DEF IsWorld, WorldOf
  <1>2. Same(w, v, {"items"})
    BY WorldDomain DEF Same, Fields
  <1>3. QED
    BY <1>1, <1>2

LEMMA SetBonds ==
    ASSUME NEW w, IsWorld(w), NEW pairs \in SUBSET (Ends \X Ends), NEW x \in [pairs -> Relationship], NEW v, v = [w EXCEPT !.bonds = x]
    PROVE  IsWorld(v) /\ Same(w, v, {"bonds"}) /\ v.bonds = x
  <1>1. IsWorld(v) /\ v.bonds = x
    BY DEF IsWorld, WorldOf
  <1>2. Same(w, v, {"bonds"})
    BY WorldDomain DEF Same, Fields
  <1>3. QED
    BY <1>1, <1>2

-----------------------------------------------------------------------------
(* Each section's changes keep the types and touch the section's fields.   *)

LEMMA MemoryKeeps ==
    ASSUME NEW w, IsWorld(w), NEW c \in MemoryChange, c.weight <= MaxWeight,
           NEW v, v = ApplyMemory(w, c)
    PROVE  /\ IsWorld(v)
           /\ Same(w, v, {"memories"})
           /\ \A i \in DOMAIN v.memories :
                 \/ /\ i \in DOMAIN w.memories
                    /\ v.memories[i].id = w.memories[i].id
                    /\ v.memories[i].says = w.memories[i].says
                    /\ v.memories[i].shown = w.memories[i].shown
                 \/ /\ i = Len(w.memories) + 1
                    /\ v.memories[i].id = Mint(w, w.memories)
                    /\ v.memories[i].says = c.says
                    /\ v.memories[i].shown = c.shown
                    /\ c \in [of : {"memory"}, kind : {"Added"}, says : Text, shown : BOOLEAN, weight : 0..255]
  <1>1. w.memories \in Seq(Memory) /\ w.version \in Nat
    BY DEF IsWorld, WorldOf
  <1>2. CASE c.kind = "Added"
    <2> DEFINE m == [id |-> Mint(w, w.memories), says |-> c.says, shown |-> c.shown, weight |-> c.weight]
    <2>1. m \in Memory
      <3>1. c.says \in Text /\ c.shown \in BOOLEAN /\ c.weight \in 0..MaxWeight
        BY <1>2 DEF MemoryChange, MaxWeight
      <3>2. Mint(w, w.memories) \in Minted
        BY <1>1 DEF Mint, Minted
      <3>3. QED
        BY <3>1, <3>2 DEF Memory
    <2>2. Append(w.memories, m) \in Seq(Memory)
      BY <1>1, <2>1
    <2>3. v = [w EXCEPT !.memories = Append(w.memories, m)]
      BY <1>2 DEF ApplyMemory
    <2>4. /\ m.id = Mint(w, w.memories) /\ m.says = c.says /\ m.shown = c.shown
          /\ c \in [of : {"memory"}, kind : {"Added"}, says : Text, shown : BOOLEAN, weight : 0..255]
      BY <1>2 DEF MemoryChange
    <2> HIDE DEF m
    <2>5. IsWorld(v) /\ Same(w, v, {"memories"}) /\ v.memories = Append(w.memories, m)
      BY <2>2, <2>3, SetMemories
    <2>6. \A i \in DOMAIN v.memories : \/ i \in DOMAIN w.memories /\ v.memories[i] = w.memories[i]
                                       \/ i = Len(w.memories) + 1 /\ v.memories[i] = m
      BY <1>1, <2>1, <2>5
    <2>7. QED
      BY <2>4, <2>5, <2>6
  <1>3. CASE c.kind = "ImportanceChanged"
    <2> DEFINE after(m) == IF m.id = c.id THEN [m EXCEPT !.weight = c.weight] ELSE m
    <2> DEFINE x == [i \in DOMAIN w.memories |-> after(w.memories[i])]
    <2>1. \A i \in DOMAIN w.memories : after(w.memories[i]) \in Memory
      <3>1. c.weight \in 0..MaxWeight
        BY DEF MemoryChange, MaxWeight
      <3>2. \A m \in Memory : after(m) \in Memory
        BY <3>1 DEF Memory
      <3> HIDE DEF after
      <3>3. QED
        BY <1>1, <3>2
    <2>2. x \in Seq(Memory)
      <3> HIDE DEF after
      <3>1. QED
        BY <1>1, <2>1
    <2>3. v = [w EXCEPT !.memories = x]
      BY <1>3 DEF ApplyMemory
    <2>4. \A i \in DOMAIN w.memories : /\ x[i].id = w.memories[i].id
                                       /\ x[i].says = w.memories[i].says
                                       /\ x[i].shown = w.memories[i].shown
      <3>1. \A m \in Memory : after(m).id = m.id /\ after(m).says = m.says /\ after(m).shown = m.shown
        BY DEF Memory
      <3> HIDE DEF after
      <3>2. QED
        BY <1>1, <3>1
    <2>5. DOMAIN x = DOMAIN w.memories
      OBVIOUS
    <2> HIDE DEF x
    <2>6. IsWorld(v) /\ Same(w, v, {"memories"}) /\ v.memories = x
      BY <2>2, <2>3, SetMemories
    <2>7. QED
      BY <2>4, <2>5, <2>6
  <1>4. QED
    BY <1>2, <1>3 DEF MemoryChange

\* A fact that a turn adds is the last, and named by its place.
NewFact(w, c, cites, proof, knownBy) ==
    [id |-> Mint(w, w.facts), says |-> c.says, vis |-> c.vis, cites |-> cites,
     proof |-> proof, knownBy |-> knownBy]

LEMMA AddFactKeeps ==
    ASSUME NEW w, IsWorld(w), NEW c, c.says \in Text, c.vis \in Visibility,
           NEW cites \in SUBSET FactId, NEW proof \in Conditions \union {NoCondition},
           NEW knownBy \in SUBSET Npcs, NEW v, v = AddFact(w, c, cites, proof, knownBy)
    PROVE  /\ IsWorld(v)
           /\ Same(w, v, {"facts"})
           /\ v.facts = Append(w.facts, NewFact(w, c, cites, proof, knownBy))
           /\ NewFact(w, c, cites, proof, knownBy) \in Fact
  <1> DEFINE f == NewFact(w, c, cites, proof, knownBy)
  <1>1. w.facts \in Seq(Fact) /\ w.version \in Nat
    BY DEF IsWorld, WorldOf
  <1>2. f \in Fact
    BY <1>1 DEF NewFact, Mint, Minted, Fact, FactId
  <1>3. Append(w.facts, f) \in Seq(Fact)
    BY <1>1, <1>2
  <1>4. v = [w EXCEPT !.facts = Append(w.facts, f)]
    BY DEF AddFact, NewFact
  <1> HIDE DEF f
  <1>5. IsWorld(v) /\ Same(w, v, {"facts"}) /\ v.facts = Append(w.facts, f)
    BY <1>3, <1>4, SetFacts
  <1>6. QED
    BY <1>2, <1>5 DEF f

LEMMA FactKeeps ==
    ASSUME NEW w, IsWorld(w), NEW c \in FactToAdd, NEW v, v = ApplyFact(w, c)
    PROVE  /\ IsWorld(v)
           /\ Same(w, v, {"facts"})
           /\ v.facts = Append(w.facts, NewFact(w, c, c.cites, c.proof, c.knownBy))
           /\ NewFact(w, c, c.cites, c.proof, c.knownBy) \in Fact
  <1> DEFINE cites == c.cites
  <1> DEFINE proof == c.proof
  <1> DEFINE knownBy == c.knownBy
  <1>1. /\ c.says \in Text /\ c.vis \in Visibility /\ cites \in SUBSET FactId
        /\ proof \in Conditions \union {NoCondition} /\ knownBy \in SUBSET Npcs
    BY DEF FactToAdd
  <1>2. v = AddFact(w, c, cites, proof, knownBy)
    BY DEF ApplyFact
  <1> HIDE DEF cites, proof, knownBy
  <1>3. /\ IsWorld(v)
        /\ Same(w, v, {"facts"})
        /\ v.facts = Append(w.facts, NewFact(w, c, cites, proof, knownBy))
        /\ NewFact(w, c, cites, proof, knownBy) \in Fact
    BY <1>1, <1>2, AddFactKeeps
  <1>4. QED
    BY <1>3 DEF cites, proof, knownBy

LEMMA ActionKeeps ==
    ASSUME NEW w, IsWorld(w), NEW c \in ActionChange, NEW v, v = ApplyAction(w, c)
    PROVE  /\ IsWorld(v)
           /\ Same(w, v, {"actions"})
           /\ \A i \in DOMAIN v.actions :
                 \/ i \in DOMAIN w.actions /\ v.actions[i] = w.actions[i]
                 \/ /\ i = Len(w.actions) + 1
                    /\ v.actions[i].id = Mint(w, w.actions)
                    /\ v.actions[i].says = c.says
                    /\ v.actions[i].shown = c.shown
  <1> DEFINE a == [id |-> Mint(w, w.actions), says |-> c.says, shown |-> c.shown, clocks |-> c.clocks]
  <1>1. w.actions \in Seq(Resolution) /\ w.version \in Nat
    BY DEF IsWorld, WorldOf
  <1>2. a \in Resolution
    BY <1>1 DEF ActionChange, Resolution, Mint, Minted
  <1>3. Append(w.actions, a) \in Seq(Resolution)
    BY <1>1, <1>2
  <1>4. v = [w EXCEPT !.actions = Append(w.actions, a)]
    BY DEF ApplyAction
  <1>5. a.id = Mint(w, w.actions) /\ a.says = c.says /\ a.shown = c.shown
    OBVIOUS
  <1> HIDE DEF a
  <1>6. IsWorld(v) /\ Same(w, v, {"actions"}) /\ v.actions = Append(w.actions, a)
    BY <1>3, <1>4, SetActions
  <1>7. \A i \in DOMAIN v.actions : \/ i \in DOMAIN w.actions /\ v.actions[i] = w.actions[i]
                                    \/ i = Len(w.actions) + 1 /\ v.actions[i] = a
    BY <1>1, <1>2, <1>6
  <1>8. QED
    BY <1>5, <1>6, <1>7

\* An NPC that knows the fact as well.
Learned(w, npc) == [npc EXCEPT !.knows = npc.knows \union {Mint(w, w.facts)}]

LEMMA LearnKeeps ==
    ASSUME NEW w, IsWorld(w), NEW c \in NpcChange, c.kind = "KnowledgeAdded",
           NEW v, v = Learn(w, c)
    PROVE  /\ IsWorld(v)
           /\ Same(w, v, {"facts", "npcs"})
           /\ v.facts = Append(w.facts, NewFact(w, c, {}, NoCondition, {c.npc}))
           /\ NewFact(w, c, {}, NoCondition, {c.npc}) \in Fact
           /\ v.npcs = [w.npcs EXCEPT ![c.npc] = Learned(w, w.npcs[c.npc])]
           /\ c.npc \in Npcs
  <1> DEFINE u == AddFact(w, c, {}, NoCondition, {c.npc})
  <1> DEFINE f == NewFact(w, c, {}, NoCondition, {c.npc})
  <1> DEFINE n == Learned(w, w.npcs[c.npc])
  <1>1. c.npc \in Npcs /\ c.says \in Text /\ c.vis \in Visibility
    BY DEF NpcChange
  <1>2. IsWorld(u) /\ Same(w, u, {"facts"}) /\ u.facts = Append(w.facts, f) /\ f \in Fact
    BY <1>1, AddFactKeeps, SMTT(30)
  <1>3. u.npcs = w.npcs /\ u.npcs \in [Npcs -> NpcState]
    <2> HIDE DEF u
    <2>1. u.npcs = w.npcs
      BY <1>2, SMTT(30) DEF Same, Fields
    <2>2. w.npcs \in [Npcs -> NpcState]
      BY DEF IsWorld, WorldOf
    <2>3. QED
      BY <2>1, <2>2
  <1>4. Mint(w, w.facts) \in FactId
    BY DEF IsWorld, WorldOf, Mint, FactId, Minted
  <1>5. n \in NpcState
    <2> DEFINE m == w.npcs[c.npc]
    <2>1. m \in NpcState
      BY <1>1 DEF IsWorld, WorldOf
    <2> HIDE DEF m
    <2>2. m.knows \union {Mint(w, w.facts)} \in SUBSET FactId
      BY <1>4, <2>1 DEF NpcState
    <2>3. [m EXCEPT !.knows = m.knows \union {Mint(w, w.facts)}] \in NpcState
      BY <2>1, <2>2 DEF NpcState
    <2>4. QED
      BY <2>3 DEF Learned, m
  <1> DEFINE x == [w.npcs EXCEPT ![c.npc] = n]
  <1>6. x \in [Npcs -> NpcState]
    BY <1>3, <1>5
  <1>7. v = [u EXCEPT !.npcs = x]
    <2> HIDE DEF u
    <2>1. v = [u EXCEPT !.npcs[c.npc].knows = @ \union {Mint(w, w.facts)}]
      BY DEF Learn, u
    <2>2. QED
      BY <1>3, <2>1 DEF Learned
  <1> HIDE DEF u, f, x
  <1>8. IsWorld(v) /\ Same(u, v, {"npcs"}) /\ v.npcs = x
    BY <1>2, <1>6, <1>7, SetNpcs
  <1>9. v.facts = u.facts /\ Same(w, v, {"facts", "npcs"})
    BY <1>2, <1>8 DEF Same, Fields
  <1>10. v.facts = Append(w.facts, f)
    BY <1>2, <1>9
  <1>11. QED
    BY <1>1, <1>2, <1>8, <1>9, <1>10, SMTT(30) DEF f, x

LEMMA LearnAdds ==
    ASSUME NEW w, IsWorld(w), NEW c \in NpcChange, c.kind = "KnowledgeAdded",
           NEW v, v = Learn(w, c)
    PROVE  /\ v.facts = Append(w.facts, NewFact(w, c, {}, NoCondition, {c.npc}))
           /\ NewFact(w, c, {}, NoCondition, {c.npc}) \in Fact
  BY LearnKeeps, ZenonT(30)

LEMMA LearnTeaches ==
    ASSUME NEW w, IsWorld(w), NEW c \in NpcChange, c.kind = "KnowledgeAdded",
           NEW v, v = Learn(w, c)
    PROVE  v.npcs = [w.npcs EXCEPT ![c.npc] = Learned(w, w.npcs[c.npc])] /\ c.npc \in Npcs
  BY LearnKeeps, ZenonT(30)

LEMMA NpcAfterType ==
    ASSUME NEW c \in NpcChange, c.kind # "KnowledgeAdded", NEW npc \in NpcState, NEW now \in Nat
    PROVE  NpcAfter(npc, c, now) \in NpcState
  <1>1. CASE c.kind = "AttitudeChanged"
    BY <1>1 DEF NpcChange, NpcAfter, NpcState
  <1>2. CASE c.kind = "StatusChanged"
    BY <1>2 DEF NpcAfter, NpcState
  <1>3. CASE c.kind = "LocationChanged"
    BY <1>3 DEF NpcChange, NpcAfter, NpcState
  <1>4. CASE c.kind = "VisibilityChanged"
    BY <1>4 DEF NpcChange, NpcAfter, NpcState
  <1>5. CASE c.kind = "AvailabilityChanged"
    BY <1>5 DEF NpcChange, NpcAfter, NpcState
  <1>6. CASE c.kind = "OffscreenActionRecorded"
    <2>1. {[says |-> c.says, shown |-> c.shown]} \in SUBSET Deed
      BY <1>6 DEF NpcChange, Deed
    <2>2. QED
      BY <1>6, <2>1 DEF NpcAfter, NpcState
  <1>7. CASE c.kind \in {"IntentChanged", "NoteAdded"}
    BY <1>7 DEF NpcAfter
  <1>8. QED
    BY <1>1, <1>2, <1>3, <1>4, <1>5, <1>6, <1>7 DEF NpcChange

LEMMA NpcKeeps ==
    ASSUME NEW w, IsWorld(w), NEW c \in NpcChange, c.kind # "KnowledgeAdded",
           NEW v, v = ApplyNpc(w, c)
    PROVE  /\ IsWorld(v)
           /\ Same(w, v, {"npcs"})
           /\ v.npcs = [w.npcs EXCEPT ![c.npc] = NpcAfter(@, c, Now(w))]
           /\ c.npc \in Npcs
  <1>1. w.npcs \in [Npcs -> NpcState] /\ Now(w) \in Nat /\ c.npc \in Npcs
    BY DEF IsWorld, WorldOf, NpcChange, Now
  <1> DEFINE x == [w.npcs EXCEPT ![c.npc] = NpcAfter(w.npcs[c.npc], c, Now(w))]
  <1>2. x \in [Npcs -> NpcState]
    BY <1>1, NpcAfterType
  <1>3. v = [w EXCEPT !.npcs = x]
    BY DEF ApplyNpc
  <1>4. QED
    BY <1>1, <1>2, <1>3, SetNpcs

LEMMA FactionAfterType ==
    ASSUME NEW c \in FactionChange, NEW faction \in FactionState, NEW now \in Nat
    PROVE  FactionAfter(faction, c, now) \in FactionState
  <1>1. CASE c.kind \in {"StandingChanged", "PressureChanged"}
    BY <1>1 DEF FactionAfter, FactionState
  <1>2. CASE c.kind \in {"GoalRevealed", "PublicNoteAdded"}
    BY <1>2 DEF FactionChange, FactionAfter, FactionState, Text
  <1>3. CASE c.kind = "PublicPressureNoteAdded"
    BY <1>3 DEF FactionChange, FactionAfter, FactionState, Text
  <1>4. CASE c.kind = "HiddenPressureNoteAdded"
    BY <1>4 DEF FactionChange, FactionAfter, FactionState, Text
  <1>5. CASE c.kind = "HiddenNoteAdded"
    BY <1>5 DEF FactionAfter
  <1>6. QED
    BY <1>1, <1>2, <1>3, <1>4, <1>5 DEF FactionChange

LEMMA FactionKeeps ==
    ASSUME NEW w, IsWorld(w), NEW c \in FactionChange, NEW v, v = ApplyFaction(w, c)
    PROVE  /\ IsWorld(v)
           /\ Same(w, v, {"factions"})
           /\ v.factions = [w.factions EXCEPT ![c.faction] = FactionAfter(@, c, Now(w))]
           /\ c.faction \in Factions
  <1>1. w.factions \in [Factions -> FactionState] /\ Now(w) \in Nat /\ c.faction \in Factions
    BY DEF IsWorld, WorldOf, FactionChange, Now
  <1> DEFINE x == [w.factions EXCEPT ![c.faction] = FactionAfter(w.factions[c.faction], c, Now(w))]
  <1>2. x \in [Factions -> FactionState]
    BY <1>1, FactionAfterType
  <1>3. v = [w EXCEPT !.factions = x]
    BY DEF ApplyFaction
  <1>4. QED
    BY <1>1, <1>2, <1>3, SetFactions

LEMMA QuestKeeps ==
    ASSUME NEW w, IsWorld(w), NEW c \in QuestChange, NEW v, v = ApplyQuest(w, c)
    PROVE  IsWorld(v) /\ Same(w, v, {"quests"})
  <1>1. w.quests \in [Quests -> QuestState] /\ c.quest \in Quests /\ w.quests[c.quest] \in QuestState
    BY DEF IsWorld, WorldOf, QuestChange
  <1>2. CASE c.kind = "ObjectiveCompleted"
    <2> DEFINE q == [w.quests[c.quest] EXCEPT !.objectives = @ \union {c.objective}]
    <2> DEFINE x == [w.quests EXCEPT ![c.quest] = q]
    <2>1. c.objective \in Objectives
      BY <1>2 DEF QuestChange
    <2>2. q \in QuestState
      BY <1>1, <2>1 DEF QuestState
    <2>3. x \in [Quests -> QuestState]
      BY <1>1, <2>2
    <2>4. v = [w EXCEPT !.quests = x]
      BY <1>2 DEF ApplyQuest
    <2> HIDE DEF x
    <2>5. QED
      BY <2>3, <2>4, SetQuests
  <1>3. CASE c.kind \in {"Started", "Completed", "Failed"}
    <2> DEFINE q == [w.quests[c.quest] EXCEPT !.status = QuestBecomes[c.kind]]
    <2> DEFINE x == [w.quests EXCEPT ![c.quest] = q]
    <2>1. QuestBecomes[c.kind] \in QuestStatus
      BY <1>3 DEF QuestBecomes, QuestStatus
    <2>2. q \in QuestState
      BY <1>1, <2>1 DEF QuestState
    <2>3. x \in [Quests -> QuestState]
      BY <1>1, <2>2
    <2>4. v = [w EXCEPT !.quests = x]
      BY <1>3 DEF ApplyQuest
    <2> HIDE DEF x
    <2>5. QED
      BY <2>3, <2>4, SetQuests
  <1>4. QED
    BY <1>2, <1>3 DEF QuestChange

LEMMA ClockKeeps ==
    ASSUME NEW w, IsWorld(w), NEW c \in ClockChange, NEW v, v = ApplyClock(w, c)
    PROVE  IsWorld(v) /\ Same(w, v, {"clocks"})
  <1>1. w.clocks \in [Clocks -> ClockState] /\ Now(w) \in Nat
    BY DEF IsWorld, WorldOf, Now
  <1>2. c.clock \in Clocks /\ w.clocks[c.clock] \in ClockState
    BY <1>1 DEF ClockChange
  <1>3. CASE c.kind = "VisibilityChanged"
    <2> DEFINE k == [w.clocks[c.clock] EXCEPT !.shown = c.shown]
    <2> DEFINE x == [w.clocks EXCEPT ![c.clock] = k]
    <2>1. k \in ClockState
      BY <1>2, <1>3 DEF ClockState, ClockChange
    <2>2. x \in [Clocks -> ClockState]
      BY <1>1, <2>1
    <2>3. v = [w EXCEPT !.clocks = x]
      BY <1>3 DEF ApplyClock
    <2> HIDE DEF x
    <2>4. QED
      BY <2>2, <2>3, SetClocks
  <1>4. CASE c.kind # "VisibilityChanged"
    <2> DEFINE k == [w.clocks[c.clock] EXCEPT !.since = Now(w)]
    <2> DEFINE x == [w.clocks EXCEPT ![c.clock] = k]
    <2>1. k \in ClockState
      BY <1>1, <1>2 DEF ClockState
    <2>2. x \in [Clocks -> ClockState]
      BY <1>1, <2>1
    <2>3. v = [w EXCEPT !.clocks = x]
      BY <1>4 DEF ApplyClock
    <2> HIDE DEF x
    <2>4. QED
      BY <2>2, <2>3, SetClocks
  <1>5. QED
    BY <1>3, <1>4

LEMMA InventoryKeeps ==
    ASSUME NEW w, IsWorld(w), NEW c \in InventoryChange, NEW v, v = ApplyInventory(w, c)
    PROVE  IsWorld(v) /\ Same(w, v, {"items"})
  <1> DEFINE ids == DOMAIN w.items
  <1>1. ids \in SUBSET Items /\ w.items \in [ids -> Nat] /\ Now(w) \in Nat /\ c.item \in Items
    BY DEF IsWorld, WorldOf, InventoryChange, Now
  <1>2. CASE c.kind = "Added"
    <2> DEFINE x == Put(w.items, c.item, Now(w))
    <2>1. x \in [ids \union {c.item} -> Nat] /\ ids \union {c.item} \in SUBSET Items
      BY <1>1 DEF Put
    <2>2. v = [w EXCEPT !.items = x]
      BY <1>2 DEF ApplyInventory
    <2> HIDE DEF ids, x
    <2>3. QED
      BY <2>1, <2>2, SetItems
  <1>3. CASE c.kind = "Removed"
    <2> DEFINE x == Restrict(w.items, ids \ {c.item})
    <2>1. x \in [ids \ {c.item} -> Nat] /\ ids \ {c.item} \in SUBSET Items
      BY <1>1 DEF Restrict
    <2>2. v = [w EXCEPT !.items = x]
      BY <1>3 DEF ApplyInventory
    <2> HIDE DEF ids, x
    <2>3. QED
      BY <2>1, <2>2, SetItems
  <1>4. CASE c.kind = "Updated" /\ c.item \in ids
    <2> DEFINE x == [w.items EXCEPT ![c.item] = Now(w)]
    <2>1. x \in [ids -> Nat]
      BY <1>1
    <2>2. v = [w EXCEPT !.items = x]
      BY <1>4 DEF ApplyInventory
    <2> HIDE DEF ids, x
    <2>3. QED
      BY <1>1, <2>1, <2>2, SetItems
  <1>5. CASE c.kind = "Updated" /\ c.item \notin ids
    BY <1>5 DEF ApplyInventory, Same
  <1>6. QED
    BY <1>2, <1>3, <1>4, <1>5 DEF InventoryChange

LEMMA PlayerKeeps ==
    ASSUME NEW w, IsWorld(w), NEW c \in PlayerChange, c.kind # "ResourceChanged",
           NEW v, v = ApplyPlayer(w, c)
    PROVE  /\ IsWorld(v)
           /\ Same(w, v, {"sheet", "gmNotes"})
           /\ \A i \in DOMAIN v.sheet :
                 \/ \E j \in DOMAIN w.sheet : /\ v.sheet[i].says = w.sheet[j].says
                                             /\ v.sheet[i].shown = w.sheet[j].shown
                 \/ /\ c.kind \in DOMAIN SheetSort
                    /\ v.sheet[i].says = c.says
                    /\ v.sheet[i].shown = c.shown
  <1>1. w.sheet \in Seq(SheetEntry) /\ w.gmNotes \in Text /\ Now(w) \in Nat
    BY DEF IsWorld, WorldOf, Now
  <1>2. CASE c.kind \in DOMAIN SheetSort
    <2> DEFINE e == [sort |-> SheetSort[c.kind], id |-> c.id, says |-> c.says, shown |-> c.shown,
                     since |-> Now(w)]
    <2>1. c.id \in SheetIds /\ c.says \in Text /\ c.shown \in BOOLEAN
      BY <1>2 DEF PlayerChange, SheetSort
    <2>2. SheetSort[c.kind] \in {"trait", "goal", "condition"}
      BY <1>2 DEF SheetSort
    <2>3. e \in SheetEntry
      BY <1>1, <2>1, <2>2 DEF SheetEntry
    <2>4. Append(w.sheet, e) \in Seq(SheetEntry)
      BY <1>1, <2>3
    <2>5. v = [w EXCEPT !.sheet = Append(w.sheet, e)]
      BY <1>2 DEF ApplyPlayer, SheetSort
    <2>6. e.says = c.says /\ e.shown = c.shown
      OBVIOUS
    <2> HIDE DEF e
    <2>7. IsWorld(v) /\ Same(w, v, {"sheet"}) /\ v.sheet = Append(w.sheet, e)
      BY <2>4, <2>5, SetSheet
    <2>8. \A i \in DOMAIN v.sheet : \/ i \in DOMAIN w.sheet /\ v.sheet[i] = w.sheet[i]
                                    \/ v.sheet[i] = e
      BY <1>1, <2>3, <2>7
    <2>9. Same(w, v, {"sheet", "gmNotes"})
      BY <2>7 DEF Same
    <2>10. QED
      BY <1>2, <2>6, <2>7, <2>8, <2>9
  <1>3. CASE c.kind = "GoalProgressed"
    <2> DEFINE x == Progress(w.sheet, c.id, Now(w))
    <2>1. x \in Seq(SheetEntry)
      <3>1. \A e \in SheetEntry : [e EXCEPT !.since = Now(w)] \in SheetEntry
        BY <1>1 DEF SheetEntry
      <3>2. \A i \in DOMAIN w.sheet : x[i] \in SheetEntry
        BY <1>1, <3>1 DEF Progress
      <3>3. x = [i \in 1..Len(w.sheet) |-> x[i]] /\ DOMAIN w.sheet = 1..Len(w.sheet)
        BY <1>1 DEF Progress
      <3> HIDE DEF x
      <3>4. Len(w.sheet) \in Nat /\ \A i \in 1..Len(w.sheet) : x[i] \in SheetEntry
        BY <1>1, <3>2, <3>3
      <3>5. x \in [1..Len(w.sheet) -> SheetEntry]
        BY <3>3, <3>4
      <3>6. QED
        BY <3>4, <3>5
    <2>2. v = [w EXCEPT !.sheet = x]
      BY <1>3 DEF ApplyPlayer, SheetSort
    <2>3. DOMAIN x = DOMAIN w.sheet
      BY DEF Progress
    <2>4. \A i \in DOMAIN w.sheet : x[i].says = w.sheet[i].says /\ x[i].shown = w.sheet[i].shown
      <3>1. \A e \in SheetEntry : /\ [e EXCEPT !.since = Now(w)].says = e.says
                                   /\ [e EXCEPT !.since = Now(w)].shown = e.shown
        BY DEF SheetEntry
      <3>2. \A i \in DOMAIN w.sheet : x[i] = w.sheet[i] \/ x[i] = [w.sheet[i] EXCEPT !.since = Now(w)]
        BY DEF Progress
      <3> HIDE DEF x
      <3>3. \A i \in DOMAIN w.sheet : w.sheet[i] \in SheetEntry
        BY <1>1
      <3>4. QED
        BY <3>1, <3>2, <3>3
    <2> HIDE DEF x
    <2>5. IsWorld(v) /\ Same(w, v, {"sheet"}) /\ v.sheet = x
      BY <2>1, <2>2, SetSheet
    <2>6. Same(w, v, {"sheet", "gmNotes"})
      BY <2>5 DEF Same
    <2>7. QED
      BY <2>3, <2>4, <2>5, <2>6
  <1>4. CASE c.kind = "ConditionCleared"
    <2> DEFINE places == {i \in DOMAIN w.sheet :
                             ~ (w.sheet[i].sort = "condition" /\ w.sheet[i].id = c.id)}
    <2>1. /\ Kept(w.sheet, places) \in Seq(SheetEntry)
          /\ Range(Kept(w.sheet, places)) \subseteq {w.sheet[i] : i \in DOMAIN w.sheet \intersect places}
      BY <1>1, KeptEntries
    <2>2. v = [w EXCEPT !.sheet = Kept(w.sheet, places)]
      BY <1>4 DEF ApplyPlayer, SheetSort
    <2> HIDE DEF places
    <2>3. IsWorld(v) /\ Same(w, v, {"sheet"}) /\ v.sheet = Kept(w.sheet, places)
      BY <2>1, <2>2, SetSheet
    <2>4. Same(w, v, {"sheet", "gmNotes"})
      BY <2>3 DEF Same
    <2>5. \A i \in DOMAIN v.sheet : \E j \in DOMAIN w.sheet : v.sheet[i] = w.sheet[j]
      BY <2>1, <2>3 DEF Range
    <2>6. QED
      BY <2>3, <2>4, <2>5
  <1>5. CASE c.kind = "GmNoteAdded"
    <2>1. w.gmNotes \union c.says \in Text
      BY <1>1, <1>5 DEF PlayerChange, Text
    <2>2. v = [w EXCEPT !.gmNotes = w.gmNotes \union c.says]
      BY <1>5 DEF ApplyPlayer, SheetSort
    <2>3. IsWorld(v) /\ Same(w, v, {"gmNotes"})
      BY <2>1, <2>2, SetGmNotes
    <2>4. Same(w, v, {"sheet", "gmNotes"}) /\ v.sheet = w.sheet
      BY <2>3 DEF Same, Fields
    <2>5. QED
      BY <2>3, <2>4
  <1>6. QED
    BY <1>2, <1>3, <1>4, <1>5 DEF PlayerChange, SheetSort

LEMMA BondType ==
    ASSUME NEW w, IsWorld(w), NEW pair
    PROVE  Bond(w, pair) \in Relationship
  BY DEF IsWorld, WorldOf, Bond, Relationship, Text

LEMMA RelationshipKeeps ==
    ASSUME NEW w, IsWorld(w), NEW c \in RelationshipChange, NEW v, v = ApplyRelationship(w, c)
    PROVE  /\ IsWorld(v)
           /\ Same(w, v, {"bonds"})
           /\ v.bonds = Put(w.bonds, c.pair,
                  [since |-> Now(w),
                   notes |-> Bond(w, c.pair).notes \union (IF c.kind = "NoteAdded" THEN c.says ELSE {})])
  <1> DEFINE notes == IF c.kind = "NoteAdded" THEN c.says ELSE {}
  <1> DEFINE bond == [since |-> Now(w), notes |-> Bond(w, c.pair).notes \union notes]
  <1> DEFINE pairs == DOMAIN w.bonds \union {c.pair}
  <1> DEFINE x == Put(w.bonds, c.pair, bond)
  <1>1. /\ DOMAIN w.bonds \subseteq Ends \X Ends /\ w.bonds \in [DOMAIN w.bonds -> Relationship]
        /\ Now(w) \in Nat
    BY DEF IsWorld, WorldOf, Now
  <1>2. pairs \in SUBSET (Ends \X Ends)
    BY <1>1 DEF RelationshipChange
  <1>3. notes \in Text
    BY DEF RelationshipChange, Text
  <1>4. Bond(w, c.pair).notes \in Text
    BY BondType DEF Relationship
  <1>5. bond \in Relationship
    <2>1. Bond(w, c.pair).notes \union notes \in Text
      BY <1>3, <1>4 DEF Text
    <2> HIDE DEF notes
    <2>2. QED
      BY <1>1, <2>1 DEF Relationship
  <1>6. x \in [pairs -> Relationship]
    <2> HIDE DEF bond
    <2>1. QED
      BY <1>1, <1>5 DEF Put
  <1>7. v = [w EXCEPT !.bonds = x]
    BY DEF ApplyRelationship
  <1> HIDE DEF x, pairs
  <1>8. IsWorld(v) /\ Same(w, v, {"bonds"}) /\ v.bonds = x
    BY <1>2, <1>6, <1>7, SetBonds
  <1>9. QED
    BY <1>8 DEF x

ClueAfter(k, c) == IF c.kind = "Discovered" THEN c.clue ELSE [k EXCEPT !.shown = c.shown]

ClueId(c) == IF c.kind = "Discovered" THEN c.clue.id ELSE c.id

\* A clue is rewritten where it stands, appended, or not there.
LEMMA ClueKeeps ==
    ASSUME NEW w, IsWorld(w), NEW c \in ClueChange, NEW v, v = ApplyClue(w, c)
    PROVE  /\ IsWorld(v)
           /\ Same(w, v, {"clues"})
           /\ \/ v.clues = [i \in DOMAIN w.clues |->
                               IF w.clues[i].id = ClueId(c) THEN ClueAfter(w.clues[i], c) ELSE w.clues[i]]
              \/ v.clues = Append(w.clues, c.clue) /\ c.kind = "Discovered"
              \/ v.clues = w.clues
  <1> DEFINE there == \E k \in Range(w.clues) : k.id = ClueId(c)
  <1> DEFINE after(k) == IF k.id = ClueId(c) THEN ClueAfter(k, c) ELSE k
  <1> DEFINE x == [i \in DOMAIN w.clues |-> after(w.clues[i])]
  <1>1. w.clues \in Seq(Clue)
    BY DEF IsWorld, WorldOf
  <1>2. CASE there
    <2>1. \A k \in Clue : after(k) \in Clue
      <3>1. c.kind = "Discovered" => c.clue \in Clue
        BY DEF ClueChange
      <3>2. c.kind # "Discovered" => c.shown \in BOOLEAN
        BY DEF ClueChange
      <3>3. QED
        BY <3>1, <3>2 DEF ClueAfter, Clue
    <2>2. x \in Seq(Clue)
      <3> HIDE DEF after
      <3>1. QED
        BY <1>1, <2>1
    <2>3. v = [w EXCEPT !.clues = x]
      BY <1>2 DEF ApplyClue, ClueAfter, ClueId
    <2> HIDE DEF x
    <2>4. IsWorld(v) /\ Same(w, v, {"clues"}) /\ v.clues = x
      BY <2>2, <2>3, SetClues
    <2>5. QED
      BY <2>4 DEF x
  <1>3. CASE ~ there /\ c.kind = "Discovered"
    <2>1. Append(w.clues, c.clue) \in Seq(Clue)
      BY <1>1, <1>3 DEF ClueChange
    <2>2. v = [w EXCEPT !.clues = Append(w.clues, c.clue)]
      BY <1>3 DEF ApplyClue, ClueId
    <2> HIDE DEF there, x
    <2>3. IsWorld(v) /\ Same(w, v, {"clues"}) /\ v.clues = Append(w.clues, c.clue)
      BY <2>1, <2>2, SetClues
    <2>4. QED
      BY <1>3, <2>3
  <1>4. CASE ~ there /\ c.kind # "Discovered"
    <2>1. v = w
      BY <1>4 DEF ApplyClue, ClueId
    <2>2. QED
      BY <2>1 DEF Same
  <1>5. QED
    BY <1>2, <1>3, <1>4

-----------------------------------------------------------------------------
(* All sections together.                                                  *)

SectionNames ==
    {"speaker", "summary", "memory", "fact", "action", "npc", "faction", "quest", "clock",
     "inventory", "player", "relationship", "clue", "location", "event"}

\* A change that the validator lets through, as far as the reducer relies on it.
Applicable ==
    {c \in Change : /\ c.of = "memory" => c.weight <= MaxWeight
                    /\ c.of = "player" => c.kind # "ResourceChanged"}

LEMMA ChangeOfSection ==
    ASSUME NEW c \in Change
    PROVE  /\ c.of \in SectionNames
           /\ c.of = "memory" => c \in MemoryChange
           /\ c.of = "fact" => c \in FactToAdd
           /\ c.of = "action" => c \in ActionChange
           /\ c.of = "npc" => c \in NpcChange
           /\ c.of = "faction" => c \in FactionChange
           /\ c.of = "quest" => c \in QuestChange
           /\ c.of = "clock" => c \in ClockChange
           /\ c.of = "inventory" => c \in InventoryChange
           /\ c.of = "player" => c \in PlayerChange
           /\ c.of = "relationship" => c \in RelationshipChange
           /\ c.of = "clue" => c \in ClueChange
           /\ c.of \in {"speaker", "summary", "event", "location"} => c \in OneOff
  <1> DEFINE Pure(S, names) == \A x \in S : x.of \in names
  <1>1. /\ Pure(MemoryChange, {"memory"}) /\ Pure(FactToAdd, {"fact"})
        /\ Pure(ActionChange, {"action"}) /\ Pure(FactionChange, {"faction"})
        /\ Pure(QuestChange, {"quest"}) /\ Pure(ClockChange, {"clock"})
    BY DEF MemoryChange, FactToAdd, ActionChange, FactionChange, QuestChange, ClockChange
  <1>2. /\ Pure(InventoryChange, {"inventory"}) /\ Pure(PlayerChange, {"player"})
        /\ Pure(RelationshipChange, {"relationship"}) /\ Pure(ClueChange, {"clue"})
        /\ Pure(OneOff, {"speaker", "summary", "event", "location"})
    BY DEF InventoryChange, PlayerChange, RelationshipChange, ClueChange, OneOff
  <1>3. Pure(NpcChange, {"npc"})
    BY DEF NpcChange
  <1>4. QED
    BY <1>1, <1>2, <1>3 DEF Change, SectionNames

LEMMA OneOffKeeps ==
    ASSUME NEW w, IsWorld(w), NEW c \in OneOff, NEW v, v = Apply(w, c)
    PROVE  /\ IsWorld(v)
           /\ c.of = "speaker" => Same(w, v, {"speaker"}) /\ v.speaker = c.to
           /\ c.of = "summary" => Same(w, v, {"summary"}) /\ v.summary = c.says
           /\ c.of = "event" => Same(w, v, {"events"}) /\ v.events = w.events \union c.says
           /\ c.of = "location" => Same(w, v, {"place"}) /\ v.place = c.to
           /\ c.of \in {"summary", "event"} => c.says \in Text
  <1>1. CASE c.of = "speaker"
    <2>1. c.to \in Npcs \union {NoOne} /\ v = [w EXCEPT !.speaker = c.to]
      BY <1>1 DEF OneOff, Apply
    <2>2. QED
      BY <1>1, <2>1, SetSpeaker
  <1>2. CASE c.of = "summary"
    <2>1. c.says \in Text /\ v = [w EXCEPT !.summary = c.says]
      BY <1>2 DEF OneOff, Apply
    <2>2. QED
      BY <1>2, <2>1, SetSummary
  <1>3. CASE c.of = "event"
    <2>1. c.says \in Text
      BY <1>3 DEF OneOff
    <2>2. w.events \in Text
      BY DEF IsWorld, WorldOf
    <2>3. w.events \union c.says \in Text
      BY <2>1, <2>2 DEF Text
    <2>4. v = [w EXCEPT !.events = w.events \union c.says]
      BY <1>3 DEF Apply
    <2>5. IsWorld(v) /\ Same(w, v, {"events"}) /\ v.events = w.events \union c.says
      BY <2>3, <2>4, SetEvents, SMTT(30)
    <2>6. QED
      BY <1>3, <2>1, <2>5
  <1>4. CASE c.of = "location"
    <2>1. c.to \in Places /\ v = [w EXCEPT !.place = c.to]
      BY <1>4 DEF OneOff, Apply
    <2>2. QED
      BY <1>4, <2>1, SetPlace
  <1>5. QED
    BY <1>1, <1>2, <1>3, <1>4 DEF OneOff

LEMMA ApplyIs ==
    ASSUME NEW w, NEW c
    PROVE  /\ c.of = "memory" => Apply(w, c) = ApplyMemory(w, c)
           /\ c.of = "fact" => Apply(w, c) = ApplyFact(w, c)
           /\ c.of = "action" => Apply(w, c) = ApplyAction(w, c)
           /\ c.of = "npc" => Apply(w, c) = ApplyNpc(w, c)
           /\ c.of = "faction" => Apply(w, c) = ApplyFaction(w, c)
           /\ c.of = "quest" => Apply(w, c) = ApplyQuest(w, c)
           /\ c.of = "clock" => Apply(w, c) = ApplyClock(w, c)
           /\ c.of = "inventory" => Apply(w, c) = ApplyInventory(w, c)
           /\ c.of = "player" => Apply(w, c) = ApplyPlayer(w, c)
           /\ c.of = "relationship" => Apply(w, c) = ApplyRelationship(w, c)
           /\ c.of = "clue" => Apply(w, c) = ApplyClue(w, c)
  BY DEF Apply

\* The fields that a section's changes may touch.
Touched ==
    [speaker |-> {"speaker"}, summary |-> {"summary"}, memory |-> {"memories"}, fact |-> {"facts"},
     action |-> {"actions"}, npc |-> {"npcs", "facts"}, faction |-> {"factions"},
     quest |-> {"quests"}, clock |-> {"clocks"}, inventory |-> {"items"},
     player |-> {"sheet", "gmNotes"}, relationship |-> {"bonds"}, clue |-> {"clues"},
     location |-> {"place"}, event |-> {"events"}]

LEMMA ApplyKeeps ==
    ASSUME NEW w, IsWorld(w), NEW c \in Applicable, NEW v, v = Apply(w, c)
    PROVE  IsWorld(v) /\ Same(w, v, Touched[c.of])
  <1>0. c \in Change
    BY DEF Applicable
  <1>1. CASE c.of \in {"speaker", "summary", "event", "location"}
    <2>1. c \in OneOff
      BY <1>0, <1>1, ChangeOfSection
    <2>2. /\ IsWorld(v)
          /\ c.of = "speaker" => Same(w, v, {"speaker"})
          /\ c.of = "summary" => Same(w, v, {"summary"})
          /\ c.of = "event" => Same(w, v, {"events"})
          /\ c.of = "location" => Same(w, v, {"place"})
      BY <2>1, OneOffKeeps
    <2>3. /\ Touched["speaker"] = {"speaker"} /\ Touched["summary"] = {"summary"}
          /\ Touched["event"] = {"events"} /\ Touched["location"] = {"place"}
      BY DEF Touched
    <2>4. QED
      BY <1>1, <2>2, <2>3
  <1>2. CASE c.of = "memory"
    BY <1>0, <1>2, ChangeOfSection, ApplyIs, MemoryKeeps DEF Touched, Applicable
  <1>3. CASE c.of = "fact"
    BY <1>0, <1>3, ChangeOfSection, ApplyIs, FactKeeps DEF Touched
  <1>4. CASE c.of = "action"
    BY <1>0, <1>4, ChangeOfSection, ApplyIs, ActionKeeps DEF Touched
  <1>5. CASE c.of = "npc"
    <2>1. c \in NpcChange /\ v = ApplyNpc(w, c)
      BY <1>0, <1>5, ChangeOfSection, ApplyIs
    <2>2. CASE c.kind = "KnowledgeAdded"
      <3>1. v = Learn(w, c)
        BY <2>1, <2>2 DEF ApplyNpc
      <3>2. IsWorld(v) /\ Same(w, v, {"facts", "npcs"})
        BY <2>1, <2>2, <3>1, LearnKeeps
      <3>3. QED
        BY <1>5, <3>2 DEF Touched
    <2>3. CASE c.kind # "KnowledgeAdded"
      <3>1. IsWorld(v) /\ Same(w, v, {"npcs"})
        BY <2>1, <2>3, NpcKeeps
      <3>2. QED
        BY <1>5, <3>1 DEF Touched, Same
    <2>4. QED
      BY <2>2, <2>3
  <1>6. CASE c.of = "faction"
    <2>1. c \in FactionChange /\ v = ApplyFaction(w, c)
      BY <1>0, <1>6, ChangeOfSection, ApplyIs
    <2>2. IsWorld(v) /\ Same(w, v, {"factions"})
      BY <2>1, FactionKeeps
    <2>3. QED
      BY <1>6, <2>2 DEF Touched
  <1>7. CASE c.of = "quest"
    BY <1>0, <1>7, ChangeOfSection, ApplyIs, QuestKeeps DEF Touched
  <1>8. CASE c.of = "clock"
    BY <1>0, <1>8, ChangeOfSection, ApplyIs, ClockKeeps DEF Touched
  <1>9. CASE c.of = "inventory"
    BY <1>0, <1>9, ChangeOfSection, ApplyIs, InventoryKeeps DEF Touched
  <1>10. CASE c.of = "player"
    BY <1>0, <1>10, ChangeOfSection, ApplyIs, PlayerKeeps DEF Touched, Applicable
  <1>11. CASE c.of = "relationship"
    <2>1. c \in RelationshipChange /\ v = ApplyRelationship(w, c)
      BY <1>0, <1>11, ChangeOfSection, ApplyIs
    <2>2. IsWorld(v) /\ Same(w, v, {"bonds"})
      BY <2>1, RelationshipKeeps
    <2>3. QED
      BY <1>11, <2>2 DEF Touched
  <1>12. CASE c.of = "clue"
    <2>1. c \in ClueChange /\ v = ApplyClue(w, c)
      BY <1>0, <1>12, ChangeOfSection, ApplyIs
    <2>2. IsWorld(v) /\ Same(w, v, {"clues"})
      BY <2>1, ClueKeeps
    <2>3. QED
      BY <1>12, <2>2 DEF Touched
  <1>13. QED
    BY <1>0, <1>1, <1>2, <1>3, <1>4, <1>5, <1>6, <1>7, <1>8, <1>9, <1>10, <1>11, <1>12,
       ChangeOfSection DEF SectionNames

\* What a change leaves as it was, by the section it belongs to.
LEMMA Untouched ==
    ASSUME NEW w, IsWorld(w), NEW c \in Applicable, NEW v, v = Apply(w, c)
    PROVE  /\ v.version = w.version
           /\ c.of # "speaker" => v.speaker = w.speaker
           /\ c.of # "summary" => v.summary = w.summary
           /\ c.of # "event" => v.events = w.events
           /\ c.of \notin {"fact", "npc"} => v.facts = w.facts
           /\ c.of # "npc" => v.npcs = w.npcs
           /\ c.of # "memory" => v.memories = w.memories
           /\ c.of # "action" => v.actions = w.actions
           /\ c.of # "faction" => v.factions = w.factions
           /\ c.of # "player" => v.sheet = w.sheet
           /\ c.of # "relationship" => v.bonds = w.bonds
           /\ c.of # "clue" => v.clues = w.clues
  <1>1. c.of \in SectionNames
    BY ChangeOfSection DEF Applicable
  <1>2. Same(w, v, Touched[c.of])
    BY ApplyKeeps
  <1>3. QED
    BY <1>1, <1>2 DEF Same, Fields, Touched, SectionNames

-----------------------------------------------------------------------------
(* What a change makes of the entities of a world, one by one.             *)

LEMMA NpcAfterIs ==
    ASSUME NEW c \in NpcChange, c.kind # "KnowledgeAdded", NEW npc \in NpcState, NEW now \in Nat,
           NEW after, after = NpcAfter(npc, c, now)
    PROVE  /\ after.knows = npc.knows
           /\ \/ after.attitude = npc.attitude
              \/ c.kind = "AttitudeChanged" /\ after.attitude = c.says
           /\ \/ after.deeds = npc.deeds
              \/ /\ c.kind = "OffscreenActionRecorded"
                 /\ after.deeds = {[says |-> c.says, shown |-> c.shown]}
           /\ after.present = npc.present \/ (c.kind = "AvailabilityChanged" /\ after.present = c.present)
           /\ after.shown = npc.shown \/ (c.kind = "VisibilityChanged" /\ after.shown = c.shown)
  <1>1. CASE c.kind = "AttitudeChanged"
    BY <1>1 DEF NpcAfter, NpcState
  <1>2. CASE c.kind = "StatusChanged"
    BY <1>2 DEF NpcAfter, NpcState
  <1>3. CASE c.kind = "LocationChanged"
    BY <1>3 DEF NpcAfter, NpcState
  <1>4. CASE c.kind = "VisibilityChanged"
    BY <1>4 DEF NpcAfter, NpcState
  <1>5. CASE c.kind = "AvailabilityChanged"
    BY <1>5 DEF NpcAfter, NpcState
  <1>6. CASE c.kind = "OffscreenActionRecorded"
    BY <1>6 DEF NpcAfter, NpcState
  <1>7. CASE c.kind \in {"IntentChanged", "NoteAdded"}
    BY <1>7 DEF NpcAfter
  <1>8. QED
    BY <1>1, <1>2, <1>3, <1>4, <1>5, <1>6, <1>7 DEF NpcChange

LEMMA NpcStep ==
    ASSUME NEW w, IsWorld(w), NEW c \in Applicable, NEW v, v = Apply(w, c), NEW n \in Npcs
    PROVE  \/ v.npcs[n] = w.npcs[n]
           \/ /\ c \in NpcChange /\ c.kind # "KnowledgeAdded" /\ c.npc = n
              /\ v.npcs[n] = NpcAfter(w.npcs[n], c, Now(w))
           \/ /\ c \in NpcChange /\ c.kind = "KnowledgeAdded" /\ c.npc = n
              /\ v.npcs[n] = Learned(w, w.npcs[n])
  <1>1. CASE c.of # "npc"
    BY <1>1, Untouched
  <1>2. CASE c.of = "npc" /\ c.kind = "KnowledgeAdded"
    <2>1. c \in NpcChange /\ v = Learn(w, c)
      BY <1>2, ChangeOfSection, ApplyIs DEF Applicable, ApplyNpc
    <2>2. v.npcs = [w.npcs EXCEPT ![c.npc] = Learned(w, w.npcs[c.npc])] /\ c.npc \in Npcs
      BY <1>2, <2>1, LearnTeaches
    <2>3. w.npcs \in [Npcs -> NpcState]
      BY DEF IsWorld, WorldOf
    <2>4. QED
      BY <1>2, <2>1, <2>2, <2>3
  <1>3. CASE c.of = "npc" /\ c.kind # "KnowledgeAdded"
    <2>1. c \in NpcChange /\ v = ApplyNpc(w, c)
      BY <1>3, ChangeOfSection, ApplyIs DEF Applicable
    <2>2. v.npcs = [w.npcs EXCEPT ![c.npc] = NpcAfter(@, c, Now(w))] /\ c.npc \in Npcs
      BY <1>3, <2>1, NpcKeeps
    <2>3. w.npcs \in [Npcs -> NpcState]
      BY DEF IsWorld, WorldOf
    <2>4. QED
      BY <1>3, <2>1, <2>2, <2>3
  <1>4. QED
    BY <1>1, <1>2, <1>3

\* What an NPC says and does.
LEMMA NpcSays ==
    ASSUME NEW w, IsWorld(w), NEW c \in Applicable, NEW v, v = Apply(w, c), NEW n \in Npcs
    PROVE  /\ \/ v.npcs[n].attitude = w.npcs[n].attitude
              \/ c.of = "npc" /\ c.kind = "AttitudeChanged" /\ v.npcs[n].attitude = c.says
           /\ \A deed \in v.npcs[n].deeds :
                 \/ deed \in w.npcs[n].deeds
                 \/ /\ c.of = "npc" /\ c.kind = "OffscreenActionRecorded"
                    /\ deed.says = c.says /\ deed.shown = c.shown
  <1>1. w.npcs[n] \in NpcState /\ Now(w) \in Nat
    BY DEF IsWorld, WorldOf, Now
  <1>2. c \in NpcChange => c.of = "npc"
    BY DEF NpcChange
  <1>3. CASE v.npcs[n] = w.npcs[n]
    BY <1>3
  <1>4. CASE /\ c \in NpcChange /\ c.kind # "KnowledgeAdded" /\ c.npc = n
             /\ v.npcs[n] = NpcAfter(w.npcs[n], c, Now(w))
    <2>1. /\ \/ v.npcs[n].attitude = w.npcs[n].attitude
             \/ c.kind = "AttitudeChanged" /\ v.npcs[n].attitude = c.says
          /\ \/ v.npcs[n].deeds = w.npcs[n].deeds
             \/ /\ c.kind = "OffscreenActionRecorded"
                /\ v.npcs[n].deeds = {[says |-> c.says, shown |-> c.shown]}
      BY <1>1, <1>4, NpcAfterIs
    <2>2. QED
      BY <1>2, <1>4, <2>1
  <1>5. CASE c \in NpcChange /\ c.npc = n /\ v.npcs[n] = Learned(w, w.npcs[n])
    BY <1>1, <1>5 DEF Learned, NpcState
  <1>6. QED
    BY <1>3, <1>4, <1>5, NpcStep

\* Whether an NPC can be met.
LEMMA NpcShows ==
    ASSUME NEW w, IsWorld(w), NEW c \in Applicable, NEW v, v = Apply(w, c), NEW n \in Npcs
    PROVE  /\ \/ v.npcs[n].present = w.npcs[n].present
              \/ /\ c.of = "npc" /\ c.kind = "AvailabilityChanged" /\ c.npc = n
                 /\ v.npcs[n].present = c.present
           /\ \/ v.npcs[n].shown = w.npcs[n].shown
              \/ /\ c.of = "npc" /\ c.kind = "VisibilityChanged" /\ c.npc = n
                 /\ v.npcs[n].shown = c.shown
  <1>1. w.npcs[n] \in NpcState /\ Now(w) \in Nat
    BY DEF IsWorld, WorldOf, Now
  <1>2. c \in NpcChange => c.of = "npc"
    BY DEF NpcChange
  <1>3. CASE v.npcs[n] = w.npcs[n]
    BY <1>3
  <1>4. CASE /\ c \in NpcChange /\ c.kind # "KnowledgeAdded" /\ c.npc = n
             /\ v.npcs[n] = NpcAfter(w.npcs[n], c, Now(w))
    <2>1. /\ \/ v.npcs[n].present = w.npcs[n].present
             \/ c.kind = "AvailabilityChanged" /\ v.npcs[n].present = c.present
          /\ \/ v.npcs[n].shown = w.npcs[n].shown
             \/ c.kind = "VisibilityChanged" /\ v.npcs[n].shown = c.shown
      BY <1>1, <1>4, NpcAfterIs
    <2>2. QED
      BY <1>2, <1>4, <2>1
  <1>5. CASE c \in NpcChange /\ c.npc = n /\ v.npcs[n] = Learned(w, w.npcs[n])
    BY <1>1, <1>5 DEF Learned, NpcState
  <1>6. QED
    BY <1>3, <1>4, <1>5, NpcStep

\* What an NPC comes to know is the fact that the same change adds.
LEMMA NpcLearns ==
    ASSUME NEW w, IsWorld(w), NEW c \in Applicable, NEW v, v = Apply(w, c), NEW n \in Npcs,
           v.npcs[n].knows # w.npcs[n].knows
    PROVE  \E f \in Fact : /\ v.facts = Append(w.facts, f)
                           /\ f.id = Mint(w, w.facts)
                           /\ n \in f.knownBy
                           /\ v.npcs[n].knows = w.npcs[n].knows \union {f.id}
  <1>1. w.npcs[n] \in NpcState /\ Now(w) \in Nat
    BY DEF IsWorld, WorldOf, Now
  <1>2. ~ (/\ c \in NpcChange /\ c.kind # "KnowledgeAdded" /\ c.npc = n
           /\ v.npcs[n] = NpcAfter(w.npcs[n], c, Now(w)))
    BY <1>1, NpcAfterIs
  <1>3. c \in NpcChange /\ c.kind = "KnowledgeAdded" /\ c.npc = n /\ v.npcs[n] = Learned(w, w.npcs[n])
    BY <1>2, NpcStep
  <1> DEFINE f == NewFact(w, c, {}, NoCondition, {c.npc})
  <1>4. c.of = "npc"
    BY <1>3 DEF NpcChange
  <1>5. v = Learn(w, c)
    BY <1>3, <1>4, ApplyIs DEF ApplyNpc
  <1>6. v.facts = Append(w.facts, f) /\ f \in Fact
    <2>1. c \in NpcChange /\ c.kind = "KnowledgeAdded"
      BY <1>3
    <2>2. v.facts = Append(w.facts, NewFact(w, c, {}, NoCondition, {c.npc}))
      BY <1>5, <2>1, LearnAdds
    <2>3. NewFact(w, c, {}, NoCondition, {c.npc}) \in Fact
      BY <1>5, <2>1, LearnKeeps
    <2>4. QED
      BY <1>5, <2>2, <2>3
  <1>7. f.id = Mint(w, w.facts) /\ n \in f.knownBy
    BY <1>3 DEF NewFact
  <1>8. v.npcs[n].knows = w.npcs[n].knows \union {Mint(w, w.facts)}
    BY <1>1, <1>3 DEF Learned, NpcState
  <1> HIDE DEF f
  <1>9. QED
    BY <1>6, <1>7, <1>8

LEMMA FactionStep ==
    ASSUME NEW w, IsWorld(w), NEW c \in Applicable, NEW v, v = Apply(w, c), NEW f \in Factions
    PROVE  /\ \/ v.factions[f].notes = w.factions[f].notes
              \/ /\ c.of = "faction" /\ c.kind \in {"GoalRevealed", "PublicNoteAdded"}
                 /\ c \in FactionChange
                 /\ v.factions[f].notes = w.factions[f].notes \union c.says
           /\ \/ v.factions[f].pressure = w.factions[f].pressure
              \/ /\ c.of = "faction" /\ c.kind = "PublicPressureNoteAdded"
                 /\ c \in FactionChange
                 /\ v.factions[f].pressure = w.factions[f].pressure \union c.says
  <1>1. CASE c.of # "faction"
    BY <1>1, Untouched
  <1>2. CASE c.of = "faction"
    <2>1. c \in FactionChange /\ v = ApplyFaction(w, c)
      BY <1>2, ChangeOfSection, ApplyIs DEF Applicable
    <2>2. v.factions = [w.factions EXCEPT ![c.faction] = FactionAfter(@, c, Now(w))] /\ c.faction \in Factions
      BY <2>1, FactionKeeps
    <2>3. w.factions \in [Factions -> FactionState]
      BY DEF IsWorld, WorldOf
    <2>4. CASE c.faction = f
      <3>1. v.factions[f] = FactionAfter(w.factions[f], c, Now(w)) /\ w.factions[f] \in FactionState
        BY <2>2, <2>3, <2>4
      <3>2. CASE c.kind \in {"StandingChanged", "PressureChanged"}
        BY <3>1, <3>2 DEF FactionAfter, FactionState
      <3>3. CASE c.kind \in {"GoalRevealed", "PublicNoteAdded"}
        BY <1>2, <2>1, <3>1, <3>3 DEF FactionAfter, FactionState
      <3>4. CASE c.kind = "PublicPressureNoteAdded"
        BY <1>2, <2>1, <3>1, <3>4 DEF FactionAfter, FactionState
      <3>5. CASE c.kind = "HiddenPressureNoteAdded"
        BY <3>1, <3>5 DEF FactionAfter, FactionState
      <3>6. CASE c.kind = "HiddenNoteAdded"
        BY <3>1, <3>6 DEF FactionAfter
      <3>7. QED
        BY <2>1, <3>2, <3>3, <3>4, <3>5, <3>6 DEF FactionChange
    <2>5. CASE c.faction # f
      BY <2>2, <2>3, <2>5
    <2>6. QED
      BY <2>4, <2>5
  <1>3. QED
    BY <1>1, <1>2

LEMMA BondStep ==
    ASSUME NEW w, IsWorld(w), NEW c \in Applicable, NEW v, v = Apply(w, c), NEW p \in DOMAIN v.bonds
    PROVE  \/ p \in DOMAIN w.bonds /\ v.bonds[p] = w.bonds[p]
           \/ /\ c.of = "relationship" /\ c.pair = p /\ c \in RelationshipChange
              /\ v.bonds[p].notes = Bond(w, p).notes \union (IF c.kind = "NoteAdded" THEN c.says ELSE {})
  <1>1. CASE c.of # "relationship"
    BY <1>1, Untouched
  <1>2. CASE c.of = "relationship"
    <2> DEFINE bond == [since |-> Now(w),
                   notes |-> Bond(w, c.pair).notes \union (IF c.kind = "NoteAdded" THEN c.says ELSE {})]
    <2>1. c \in RelationshipChange /\ v = ApplyRelationship(w, c)
      BY <1>2, ChangeOfSection, ApplyIs DEF Applicable
    <2>2. v.bonds = Put(w.bonds, c.pair, bond)
      BY <2>1, RelationshipKeeps
    <2>3. bond.notes = Bond(w, c.pair).notes \union (IF c.kind = "NoteAdded" THEN c.says ELSE {})
      OBVIOUS
    <2> HIDE DEF bond
    <2>4. CASE p = c.pair
      <3>1. v.bonds[p] = bond
        BY <2>2, <2>4 DEF Put
      <3>2. QED
        BY <1>2, <2>1, <2>3, <2>4, <3>1
    <2>5. CASE p # c.pair
      BY <2>2, <2>5 DEF Put
    <2>6. QED
      BY <2>4, <2>5
  <1>3. QED
    BY <1>1, <1>2

\* A clue is one there was, shown or hidden perhaps, or the one the change discovers.
LEMMA ClueStep ==
    ASSUME NEW w, IsWorld(w), NEW c \in Applicable, NEW v, v = Apply(w, c), NEW i \in DOMAIN v.clues
    PROVE  \/ /\ i \in DOMAIN w.clues
              /\ v.clues[i].id = w.clues[i].id
              /\ v.clues[i].text = w.clues[i].text
              /\ v.clues[i].links = w.clues[i].links
              /\ v.clues[i].proves = w.clues[i].proves
           \/ c.of = "clue" /\ c.kind = "Discovered" /\ c \in ClueChange /\ v.clues[i] = c.clue
  <1>1. CASE c.of # "clue"
    BY <1>1, Untouched
  <1>2. CASE c.of = "clue"
    <2>1. c \in ClueChange /\ v = ApplyClue(w, c)
      BY <1>2, ChangeOfSection, ApplyIs DEF Applicable
    <2>2. w.clues \in Seq(Clue)
      BY DEF IsWorld, WorldOf
    <2>3. \/ v.clues = [j \in DOMAIN w.clues |->
                           IF w.clues[j].id = ClueId(c) THEN ClueAfter(w.clues[j], c) ELSE w.clues[j]]
          \/ v.clues = Append(w.clues, c.clue) /\ c.kind = "Discovered"
          \/ v.clues = w.clues
      BY <2>1, ClueKeeps
    <2>4. CASE v.clues = [j \in DOMAIN w.clues |->
                           IF w.clues[j].id = ClueId(c) THEN ClueAfter(w.clues[j], c) ELSE w.clues[j]]
      <3>1. i \in DOMAIN w.clues /\ (v.clues[i] = w.clues[i] \/ v.clues[i] = ClueAfter(w.clues[i], c))
        BY <2>4
      <3>2. w.clues[i] \in Clue
        BY <2>2, <3>1
      <3>3. QED
        BY <1>2, <2>1, <3>1, <3>2 DEF ClueAfter, Clue
    <2>5. CASE v.clues = Append(w.clues, c.clue) /\ c.kind = "Discovered"
      <3>1. (i \in DOMAIN w.clues /\ v.clues[i] = w.clues[i]) \/ v.clues[i] = c.clue
        <4>1. c.clue \in Clue
          BY <2>1, <2>5 DEF ClueChange
        <4>2. QED
          BY <2>2, <2>5, <4>1
      <3>2. QED
        BY <1>2, <2>1, <2>5, <3>1
    <2>6. CASE v.clues = w.clues
      BY <2>6
    <2>7. QED
      BY <2>3, <2>4, <2>5, <2>6
  <1>3. QED
    BY <1>1, <1>2

-----------------------------------------------------------------------------
(* Deltas.                                                                 *)

Worlds ==
    UNION {WorldOf(ids, pairs) : ids \in SUBSET Items, pairs \in SUBSET (Ends \X Ends)}

LEMMA WorldsAreWorlds ==
    ASSUME NEW w
    PROVE  w \in Worlds <=> IsWorld(w)
  <1>1. ASSUME NEW ids \in SUBSET Items, NEW pairs \in SUBSET (Ends \X Ends), w \in WorldOf(ids, pairs)
        PROVE  IsWorld(w)
    <2>1. DOMAIN w.items = ids /\ DOMAIN w.bonds = pairs
      BY <1>1 DEF WorldOf
    <2>2. QED
      BY <1>1, <2>1 DEF IsWorld
  <1>2. ASSUME IsWorld(w)
        PROVE  w \in Worlds
    BY <1>2 DEF IsWorld, Worlds
  <1>3. QED
    BY <1>1, <1>2 DEF Worlds

\* All that a turn stores is a world, one version later.
LEMMA ReduceKeeps ==
    ASSUME NEW w, IsWorld(w), NEW d \in Seq(Applicable), NEW v, v = Reduce(w, d)
    PROVE  /\ IsWorld(v)
           /\ IsWorld(Course(w, d)[Len(d)])
           /\ Same(Course(w, d)[Len(d)], v, {"version"})
           /\ v.version = w.version + 1
  <1> DEFINE S == {u \in Worlds : u.version = w.version}
  <1> DEFINE u == Course(w, d)[Len(d)]
  <1>1. w \in S
    BY WorldsAreWorlds
  <1>2. ASSUME NEW x \in S, NEW i \in 1..Len(d)
        PROVE  Apply(x, d[i]) \in S
    <2>1. d[i] \in Applicable /\ IsWorld(x)
      BY WorldsAreWorlds
    <2> DEFINE y == Apply(x, d[i])
    <2>2. y.version = x.version
      BY <2>1, Untouched
    <2>3. IsWorld(y)
      BY <2>1, ApplyKeeps
    <2>4. QED
      BY <2>2, <2>3, WorldsAreWorlds
  <1>3. u \in S
    <2> HIDE DEF S
    <2>1. QED
      BY <1>1, <1>2, CourseStays
  <1>4. IsWorld(u) /\ u.version = w.version /\ w.version \in Nat
    BY <1>3, WorldsAreWorlds DEF IsWorld, WorldOf
  <1>5. v = [u EXCEPT !.version = w.version + 1]
    BY <1>4 DEF Reduce
  <1> HIDE DEF u
  <1>6. IsWorld(v) /\ v.version = w.version + 1
    <2>1. w.version + 1 \in Nat
      BY <1>4
    <2>2. QED
      BY <1>4, <1>5, <2>1, SetVersion
  <1>7. Same(u, v, {"version"})
    BY <1>4, <1>5, WorldDomain DEF Same, Fields
  <1>8. QED
    BY <1>4, <1>6, <1>7 DEF u

\* A property of the other fields that each change of a delta keeps is kept by a turn.
LEMMA ReduceStays ==
    ASSUME NEW w, IsWorld(w), NEW d \in Seq(Applicable), NEW S,
           w \in S,
           \A x \in Worlds : \A i \in 1..Len(d) :
               x \in S /\ x.version = w.version => Apply(x, d[i]) \in S
    PROVE  \E u \in S : IsWorld(u) /\ Same(u, Reduce(w, d), {"version"}) /\ u.version = w.version
  <1> DEFINE R == {x \in Worlds : x \in S /\ x.version = w.version}
  <1> DEFINE u == Course(w, d)[Len(d)]
  <1>1. w \in R
    BY WorldsAreWorlds
  <1>2. ASSUME NEW x \in R, NEW i \in 1..Len(d)
        PROVE  Apply(x, d[i]) \in R
    <2>1. d[i] \in Applicable /\ IsWorld(x)
      BY WorldsAreWorlds
    <2> DEFINE y == Apply(x, d[i])
    <2>2. y.version = x.version
      BY <2>1, Untouched
    <2>3. IsWorld(y)
      BY <2>1, ApplyKeeps
    <2>4. QED
      BY <2>1, <2>2, <2>3, WorldsAreWorlds
  <1>3. u \in R
    <2> HIDE DEF R
    <2>1. QED
      BY <1>1, <1>2, CourseStays
  <1>4. IsWorld(u) /\ Same(u, Reduce(w, d), {"version"})
    BY ReduceKeeps
  <1>5. QED
    BY <1>3, <1>4

-----------------------------------------------------------------------------
(* Facts are only added, each by a change of the delta.                    *)

\* The fact that a change adds, but for its id.
Makes(c, f) ==
    /\ f.says = c.says /\ f.vis = c.vis
    /\ \/ c.of = "fact" /\ f.cites = c.cites /\ f.proof = c.proof
       \/ c.of = "npc" /\ c.kind = "KnowledgeAdded" /\ f.cites = {} /\ f.proof = NoCondition

LEMMA FactsStep ==
    ASSUME NEW w, IsWorld(w), NEW c \in Applicable, NEW v, v = Apply(w, c)
    PROVE  \/ v.facts = w.facts
           \/ \E f \in Fact : /\ v.facts = Append(w.facts, f)
                              /\ f.id = <<w.version + 1, Len(w.facts) + 1>>
                              /\ Makes(c, f)
  <1>0. c \in Change
    BY DEF Applicable
  <1>1. CASE c.of = "fact"
    <2> DEFINE f == NewFact(w, c, c.cites, c.proof, c.knownBy)
    <2>1. c \in FactToAdd /\ v = ApplyFact(w, c)
      BY <1>0, <1>1, ChangeOfSection, ApplyIs
    <2>2. v.facts = Append(w.facts, f) /\ f \in Fact
      BY <2>1, FactKeeps
    <2>3. f.id = <<w.version + 1, Len(w.facts) + 1>> /\ Makes(c, f)
      BY <1>1 DEF NewFact, Mint, Makes
    <2> HIDE DEF f
    <2>4. QED
      BY <2>2, <2>3
  <1>2. CASE c.of = "npc" /\ c.kind = "KnowledgeAdded"
    <2> DEFINE f == NewFact(w, c, {}, NoCondition, {c.npc})
    <2>1. c \in NpcChange /\ v = Learn(w, c)
      BY <1>0, <1>2, ChangeOfSection, ApplyIs DEF ApplyNpc
    <2>2. v.facts = Append(w.facts, f) /\ f \in Fact
      BY <1>2, <2>1, LearnAdds
    <2>3. f.id = <<w.version + 1, Len(w.facts) + 1>> /\ Makes(c, f)
      BY <1>2 DEF NewFact, Mint, Makes
    <2> HIDE DEF f
    <2>4. QED
      BY <2>2, <2>3
  <1>3. CASE c.of = "npc" /\ c.kind # "KnowledgeAdded"
    <2>1. c \in NpcChange /\ v = ApplyNpc(w, c)
      BY <1>0, <1>3, ChangeOfSection, ApplyIs
    <2>2. Same(w, v, {"npcs"})
      BY <1>3, <2>1, NpcKeeps
    <2>3. QED
      BY <2>2 DEF Same, Fields
  <1>4. CASE c.of \notin {"fact", "npc"}
    BY <1>4, Untouched
  <1>5. QED
    BY <1>1, <1>2, <1>3, <1>4

\* after continues before, and what it adds is named by its place and made by d.
FactsGrow(before, after, d, version) ==
    /\ Len(before) <= Len(after)
    /\ \A i \in 1..Len(before) : after[i] = before[i]
    /\ \A i \in (Len(before) + 1)..Len(after) :
          after[i].id = <<version, i>> /\ \E c \in Range(d) : Makes(c, after[i])

LEMMA ReduceFacts ==
    ASSUME NEW w, IsWorld(w), NEW d \in Seq(Applicable), NEW v, v = Reduce(w, d)
    PROVE  FactsGrow(w.facts, v.facts, d, w.version + 1)
  <1> DEFINE S == {x \in Worlds : FactsGrow(w.facts, x.facts, d, w.version + 1)}
  <1>1. w \in S
    <2>1. w.facts \in Seq(Fact)
      BY DEF IsWorld, WorldOf
    <2>2. FactsGrow(w.facts, w.facts, d, w.version + 1)
      BY <2>1 DEF FactsGrow
    <2>3. QED
      BY <2>2, WorldsAreWorlds
  <1>2. ASSUME NEW x \in Worlds, NEW i \in 1..Len(d), x \in S, x.version = w.version
        PROVE  Apply(x, d[i]) \in S
    <2> DEFINE y == Apply(x, d[i])
    <2>1. d[i] \in Applicable /\ IsWorld(x) /\ x.facts \in Seq(Fact) /\ w.facts \in Seq(Fact)
      <3>1. d[i] \in Applicable /\ IsWorld(x)
        BY WorldsAreWorlds
      <3>2. QED
        BY <3>1 DEF IsWorld, WorldOf
    <2>2. y \in Worlds
      BY <2>1, ApplyKeeps, WorldsAreWorlds
    <2>3. CASE y.facts = x.facts
      BY <1>2, <2>2, <2>3
    <2>4. CASE \E f \in Fact : /\ y.facts = Append(x.facts, f)
                               /\ f.id = <<x.version + 1, Len(x.facts) + 1>>
                               /\ Makes(d[i], f)
      <3>1. PICK f \in Fact : /\ y.facts = Append(x.facts, f)
                              /\ f.id = <<x.version + 1, Len(x.facts) + 1>>
                              /\ Makes(d[i], f)
        BY <2>4
      <3> DEFINE n == Len(x.facts)
      <3>2. /\ n \in Nat /\ Len(y.facts) = n + 1 /\ y.facts[n + 1] = f
            /\ \A j \in 1..n : y.facts[j] = x.facts[j]
        BY <2>1, <3>1
      <3>3. d[i] \in Range(d)
        BY DEF Range
      <3>4. FactsGrow(w.facts, x.facts, d, w.version + 1)
        BY <1>2
      <3> HIDE DEF y
      <3>5. FactsGrow(w.facts, y.facts, d, w.version + 1)
        <4>1. Len(w.facts) \in Nat /\ Len(w.facts) <= n
          BY <2>1, <3>4 DEF FactsGrow
        <4>2. \A j \in 1..Len(w.facts) : y.facts[j] = w.facts[j]
          BY <3>2, <3>4, <4>1 DEF FactsGrow
        <4>3. ASSUME NEW j \in (Len(w.facts) + 1)..(n + 1)
              PROVE  y.facts[j].id = <<w.version + 1, j>> /\ \E c \in Range(d) : Makes(c, y.facts[j])
          <5>1. CASE j = n + 1
            BY <1>2, <3>1, <3>2, <3>3, <5>1
          <5>2. CASE j \in (Len(w.facts) + 1)..n
            <6>1. j \in 1..n /\ y.facts[j] = x.facts[j]
              BY <3>2, <4>1, <5>2
            <6>2. j \in (Len(w.facts) + 1)..Len(x.facts)
              BY <5>2
            <6>3. /\ x.facts[j].id = <<w.version + 1, j>>
                  /\ \E c \in Range(d) : Makes(c, x.facts[j])
              BY <3>4, <6>2 DEF FactsGrow
            <6>4. QED
              BY <6>1, <6>3
          <5>3. QED
            BY <3>2, <4>1, <5>1, <5>2
        <4>4. QED
          BY <3>2, <4>1, <4>2, <4>3 DEF FactsGrow
      <3>6. QED
        BY <2>2, <3>5 DEF y
    <2>5. QED
      BY <2>1, <2>3, <2>4, FactsStep
  <1>3. PICK u \in S : IsWorld(u) /\ Same(u, v, {"version"})
    <2> HIDE DEF S
    <2>1. QED
      BY <1>1, <1>2, ReduceStays
  <1>4. v.facts = u.facts
    BY <1>3 DEF Same, Fields
  <1>5. QED
    BY <1>3, <1>4

-----------------------------------------------------------------------------
(* A list that a delta's changes make longer.                              *)

\* L[i] is a list after i changes; only those of M add to it, an entry of E each.
Lengthens(L, n, M, E) ==
    \A i \in 1..n : L[i] = L[i - 1] \/ (i \in M /\ \E e \in E : L[i] = Append(L[i - 1], e))

\* after continues before with at most n entries.
Continues(before, after, n) ==
    /\ Len(before) <= Len(after)
    /\ Len(after) <= Len(before) + n
    /\ \A k \in 1..Len(before) : after[k] = before[k]

LEMMA ListGrows ==
    ASSUME NEW n \in Nat, NEW E, NEW L, NEW M \in SUBSET (1..n), L[0] \in Seq(E), Lengthens(L, n, M, E)
    PROVE  Continues(L[0], L[n], Cardinality(M))
  <1> DEFINE Grown(i) ==
        /\ L[i] \in Seq(E)
        /\ Len(L[0]) <= Len(L[i])
        /\ Len(L[i]) <= Len(L[0]) + Cardinality(M \intersect (1..i))
        /\ \A k \in 1..Len(L[0]) : L[i][k] = L[0][k]
  <1> DEFINE T == {i \in Nat : i <= n => Grown(i)}
  <1>1. 0 \in T
    <2>1. M \intersect (1..0) = {} /\ Cardinality({}) = 0
      BY FS_EmptySet
    <2>2. QED
      BY <2>1
  <1>2. ASSUME NEW i \in Nat, i \in T
        PROVE  i + 1 \in T
    <2>1. SUFFICES ASSUME i + 1 <= n
                   PROVE  Grown(i + 1)
      OBVIOUS
    <2> DEFINE before == Cardinality(M \intersect (1..i))
    <2> DEFINE after == Cardinality(M \intersect (1..(i + 1)))
    <2>2. i + 1 \in 1..n /\ (i + 1) - 1 = i /\ Grown(i)
      BY <1>2, <2>1
    <2>3. /\ before \in Nat /\ after \in Nat /\ before <= after
          /\ i + 1 \in M => after = before + 1
      <3> DEFINE old == M \intersect (1..i)
      <3> DEFINE new == M \intersect (1..(i + 1))
      <3>1. IsFiniteSet(1..i)
        BY FS_Interval
      <3>2. IsFiniteSet(old) /\ i + 1 \notin old
        BY <3>1, FS_Subset
      <3>3. /\ i + 1 \in M => new = old \union {i + 1}
            /\ i + 1 \notin M => new = old
        OBVIOUS
      <3> HIDE DEF old, new
      <3>4. Cardinality(old) \in Nat /\ Cardinality(old \union {i + 1}) = Cardinality(old) + 1
        BY <3>2, FS_CardinalityType, FS_AddElement
      <3>5. /\ Cardinality(old) \in Nat /\ Cardinality(new) \in Nat /\ Cardinality(old) <= Cardinality(new)
            /\ i + 1 \in M => Cardinality(new) = Cardinality(old) + 1
        <4>1. CASE i + 1 \in M
          <5>1. Cardinality(new) = Cardinality(old) + 1
            BY <3>3, <3>4, <4>1
          <5>2. QED
            BY <3>4, <5>1
        <4>2. CASE i + 1 \notin M
          <5>1. new = old
            BY <3>3, <4>2
          <5>2. QED
            BY <3>4, <4>2, <5>1
        <4>3. QED
          BY <4>1, <4>2
      <3>6. QED
        BY <3>5 DEF old, new
    <2>4. /\ Len(L[0]) \in Nat
          /\ L[i + 1] = L[i] \/ (i + 1 \in M /\ \E e \in E : L[i + 1] = Append(L[i], e))
      BY <2>2 DEF Lengthens
    <2> HIDE DEF before, after
    <2>5. CASE L[i + 1] = L[i]
      <3>1. Len(L[i]) <= Len(L[0]) + after
        <4>1. Len(L[i]) <= Len(L[0]) + before /\ Len(L[i]) \in Nat
          BY <2>2 DEF before
        <4>2. QED
          BY <2>3, <2>4, <4>1
      <3>2. QED
        BY <2>2, <2>5, <3>1 DEF after
    <2>6. CASE i + 1 \in M /\ \E e \in E : L[i + 1] = Append(L[i], e)
      <3>1. PICK e \in E : L[i + 1] = Append(L[i], e)
        BY <2>6
      <3>2. /\ L[i] \in Seq(E) /\ Len(L[0]) <= Len(L[i]) /\ Len(L[i]) <= Len(L[0]) + before
            /\ \A k \in 1..Len(L[0]) : L[i][k] = L[0][k]
        BY <2>2 DEF before
      <3>3. /\ L[i + 1] \in Seq(E) /\ Len(L[i + 1]) = Len(L[i]) + 1 /\ Len(L[i]) \in Nat
            /\ \A k \in 1..Len(L[i]) : L[i + 1][k] = L[i][k]
        BY <3>1, <3>2
      <3>4. Len(L[i + 1]) <= Len(L[0]) + after /\ Len(L[0]) <= Len(L[i + 1])
        BY <2>3, <2>4, <2>6, <3>2, <3>3
      <3>5. \A k \in 1..Len(L[0]) : L[i + 1][k] = L[0][k]
        BY <2>4, <3>2, <3>3
      <3>6. QED
        BY <3>3, <3>4, <3>5 DEF after
    <2>7. QED
      BY <2>4, <2>5, <2>6
  <1> HIDE DEF T, Grown
  <1>3. \A i \in Nat : i \in T
    BY <1>1, <1>2, SetInduction
  <1>4. Grown(n)
    BY <1>3 DEF T
  <1>5. M \intersect (1..n) = M
    OBVIOUS
  <1>6. QED
    BY <1>4, <1>5 DEF Grown, Continues

-----------------------------------------------------------------------------
(* What a change does not name stays as it was.                            *)

LEMMA NpcElsewhere ==
    ASSUME NEW w, IsWorld(w), NEW c \in Applicable, NEW v, v = Apply(w, c), NEW n \in Npcs,
           ~ (c.of = "npc" /\ c.npc = n)
    PROVE  v.npcs[n] = w.npcs[n]
  <1>1. c \in NpcChange => c.of = "npc"
    BY DEF NpcChange
  <1>2. QED
    BY <1>1, NpcStep

LEMMA FactionElsewhere ==
    ASSUME NEW w, IsWorld(w), NEW c \in Applicable, NEW v, v = Apply(w, c), NEW f \in Factions,
           ~ (c.of = "faction" /\ c.faction = f)
    PROVE  v.factions[f] = w.factions[f]
  <1>1. CASE c.of # "faction"
    BY <1>1, Untouched
  <1>2. CASE c.of = "faction"
    <2>1. c \in FactionChange /\ v = ApplyFaction(w, c)
      BY <1>2, ChangeOfSection, ApplyIs DEF Applicable
    <2>2. v.factions = [w.factions EXCEPT ![c.faction] = FactionAfter(@, c, Now(w))] /\ c.faction \in Factions
      BY <2>1, FactionKeeps
    <2>3. w.factions \in [Factions -> FactionState]
      BY DEF IsWorld, WorldOf
    <2>4. QED
      BY <1>2, <2>2, <2>3
  <1>3. QED
    BY <1>1, <1>2

LEMMA QuestElsewhere ==
    ASSUME NEW w, IsWorld(w), NEW c \in Applicable, NEW v, v = Apply(w, c), NEW q \in Quests,
           ~ (c.of = "quest" /\ c.quest = q)
    PROVE  v.quests[q] = w.quests[q]
  <1>0. c.of \in SectionNames /\ Same(w, v, Touched[c.of])
    BY ChangeOfSection, ApplyKeeps DEF Applicable
  <1>1. CASE c.of # "quest"
    BY <1>0, <1>1 DEF Same, Fields, Touched, SectionNames
  <1>2. CASE c.of = "quest"
    <2>1. c \in QuestChange /\ v = ApplyQuest(w, c)
      BY <1>2, ChangeOfSection, ApplyIs DEF Applicable
    <2>2. w.quests \in [Quests -> QuestState] /\ DOMAIN w = Fields
      BY WorldDomain DEF IsWorld, WorldOf
    <2>3. c.quest # q
      BY <1>2
    <2>4. PICK x : v = [w EXCEPT !.quests = [w.quests EXCEPT ![c.quest] = x]]
      BY <2>1 DEF ApplyQuest
    <2>5. v.quests = [w.quests EXCEPT ![c.quest] = x]
      BY <2>2, <2>4 DEF Fields
    <2>6. QED
      BY <2>2, <2>3, <2>5
  <1>3. QED
    BY <1>1, <1>2

LEMMA ClockElsewhere ==
    ASSUME NEW w, IsWorld(w), NEW c \in Applicable, NEW v, v = Apply(w, c), NEW k \in Clocks,
           ~ (c.of = "clock" /\ c.clock = k)
    PROVE  v.clocks[k] = w.clocks[k]
  <1>0. c.of \in SectionNames /\ Same(w, v, Touched[c.of])
    BY ChangeOfSection, ApplyKeeps DEF Applicable
  <1>1. CASE c.of # "clock"
    BY <1>0, <1>1 DEF Same, Fields, Touched, SectionNames
  <1>2. CASE c.of = "clock"
    <2>1. v = ApplyClock(w, c)
      BY <1>2, ApplyIs
    <2>2. w.clocks \in [Clocks -> ClockState] /\ DOMAIN w = Fields
      BY WorldDomain DEF IsWorld, WorldOf
    <2>3. c.clock # k
      BY <1>2
    <2>4. PICK x : v = [w EXCEPT !.clocks = [w.clocks EXCEPT ![c.clock] = x]]
      BY <2>1 DEF ApplyClock
    <2>5. v.clocks = [w.clocks EXCEPT ![c.clock] = x]
      BY <2>2, <2>4 DEF Fields
    <2>6. QED
      BY <2>2, <2>3, <2>5
  <1>3. QED
    BY <1>1, <1>2

LEMMA BondElsewhere ==
    ASSUME NEW w, IsWorld(w), NEW c \in Applicable, NEW v, v = Apply(w, c), NEW p,
           ~ (c.of = "relationship" /\ c.pair = p)
    PROVE  /\ p \in DOMAIN v.bonds <=> p \in DOMAIN w.bonds
           /\ p \in DOMAIN w.bonds => v.bonds[p] = w.bonds[p]
  <1>1. CASE c.of # "relationship"
    BY <1>1, Untouched
  <1>2. CASE c.of = "relationship"
    <2> DEFINE bond == [since |-> Now(w),
                   notes |-> Bond(w, c.pair).notes \union (IF c.kind = "NoteAdded" THEN c.says ELSE {})]
    <2>1. c \in RelationshipChange /\ v = ApplyRelationship(w, c)
      BY <1>2, ChangeOfSection, ApplyIs DEF Applicable
    <2>2. v.bonds = Put(w.bonds, c.pair, bond)
      BY <2>1, RelationshipKeeps
    <2> HIDE DEF bond
    <2>3. QED
      BY <1>2, <2>2 DEF Put
  <1>3. QED
    BY <1>1, <1>2

LEMMA PlaceStep ==
    ASSUME NEW w, IsWorld(w), NEW c \in Applicable, NEW v, v = Apply(w, c)
    PROVE  v.place = w.place \/ (c.of = "location" /\ v.place = c.to)
  <1>0. c.of \in SectionNames /\ Same(w, v, Touched[c.of])
    BY ChangeOfSection, ApplyKeeps DEF Applicable
  <1>1. CASE c.of # "location"
    BY <1>0, <1>1 DEF Same, Fields, Touched, SectionNames
  <1>2. CASE c.of = "location"
    BY <1>2, ChangeOfSection, OneOffKeeps DEF Applicable
  <1>3. QED
    BY <1>1, <1>2

LEMMA ActionStep ==
    ASSUME NEW w, IsWorld(w), NEW c \in Applicable, NEW v, v = Apply(w, c)
    PROVE  \/ v.actions = w.actions
           \/ /\ c.of = "action" /\ c.kind = "Recorded"
              /\ \E a \in Resolution : v.actions = Append(w.actions, a)
  <1>1. CASE c.of # "action"
    BY <1>1, Untouched
  <1>2. CASE c.of = "action"
    <2> DEFINE a == [id |-> Mint(w, w.actions), says |-> c.says, shown |-> c.shown, clocks |-> c.clocks]
    <2>1. c \in ActionChange /\ v = ApplyAction(w, c)
      BY <1>2, ChangeOfSection, ApplyIs DEF Applicable
    <2>2. w.actions \in Seq(Resolution) /\ w.version \in Nat
      BY DEF IsWorld, WorldOf
    <2>3. a \in Resolution
      BY <2>1, <2>2 DEF ActionChange, Resolution, Mint, Minted
    <2>4. v = [w EXCEPT !.actions = Append(w.actions, a)]
      BY <2>1 DEF ApplyAction
    <2>5. c.kind = "Recorded"
      BY <2>1 DEF ActionChange
    <2> HIDE DEF a
    <2>6. Append(w.actions, a) \in Seq(Resolution)
      BY <2>2, <2>3
    <2>7. v.actions = Append(w.actions, a)
      BY <2>4, <2>6, SetActions
    <2>8. QED
      BY <1>2, <2>3, <2>5, <2>7
  <1>3. QED
    BY <1>1, <1>2

\* A clue with an id that no clue has goes to the end of the list.
LEMMA NewClueStep ==
    ASSUME NEW w, IsWorld(w), NEW c \in Applicable, NEW v, v = Apply(w, c),
           c.of = "clue", c.kind = "Discovered", \A i \in DOMAIN w.clues : w.clues[i].id # c.clue.id
    PROVE  c.clue \in Clue /\ v.clues = Append(w.clues, c.clue)
  <1>1. c \in ClueChange /\ v = ApplyClue(w, c)
    BY ChangeOfSection, ApplyIs DEF Applicable
  <1>2. c.clue \in Clue
    BY <1>1 DEF ClueChange
  <1>3. w.clues \in Seq(Clue)
    BY DEF IsWorld, WorldOf
  <1>4. ~ \E k \in Range(w.clues) : k.id = c.clue.id
    BY DEF Range
  <1>5. v = [w EXCEPT !.clues = Append(w.clues, c.clue)]
    BY <1>1, <1>4 DEF ApplyClue
  <1>6. Append(w.clues, c.clue) \in Seq(Clue)
    BY <1>2, <1>3
  <1>7. QED
    BY <1>2, <1>5, <1>6, SetClues

-----------------------------------------------------------------------------
(* The course of a delta.                                                  *)

LEMMA CourseIsWorlds ==
    ASSUME NEW w, IsWorld(w), NEW d \in Seq(Applicable)
    PROVE  \A i \in 0..Len(d) : IsWorld(Course(w, d)[i])
  <1> DEFINE T == {n \in Nat : n <= Len(d) => IsWorld(Course(w, d)[n])}
  <1>1. 0 \in T
    BY CourseSteps
  <1>2. ASSUME NEW n \in Nat, n \in T
        PROVE  n + 1 \in T
    <2>1. SUFFICES ASSUME n + 1 <= Len(d)
                   PROVE  IsWorld(Course(w, d)[n + 1])
      OBVIOUS
    <2>2. n + 1 \in 1..Len(d) /\ (n + 1) - 1 = n /\ IsWorld(Course(w, d)[n])
      BY <1>2, <2>1
    <2>3. Course(w, d)[n + 1] = Apply(Course(w, d)[n], d[n + 1])
      BY <2>2, CourseSteps
    <2>4. d[n + 1] \in Applicable
      BY <2>2
    <2>5. QED
      BY <2>2, <2>3, <2>4, ApplyKeeps
  <1> HIDE DEF T
  <1>3. \A n \in Nat : n \in T
    BY <1>1, <1>2, SetInduction
  <1>4. QED
    BY <1>3 DEF T

\* A change of a delta takes one world of its course to the next.
LEMMA CourseStep ==
    ASSUME NEW w, IsWorld(w), NEW d \in Seq(Applicable), NEW i \in 1..Len(d)
    PROVE  /\ IsWorld(Course(w, d)[i - 1])
           /\ d[i] \in Applicable
           /\ Course(w, d)[i] = Apply(Course(w, d)[i - 1], d[i])
  <1>1. i - 1 \in 0..Len(d)
    OBVIOUS
  <1>2. QED
    BY <1>1, CourseIsWorlds, CourseSteps

Matching(d, section, kind) == {i \in DOMAIN d : d[i].of = section /\ d[i].kind = kind}

LEMMA ReduceActions ==
    ASSUME NEW w, IsWorld(w), NEW d \in Seq(Applicable), NEW v, v = Reduce(w, d)
    PROVE  Continues(w.actions, v.actions, Count(d, "action", "Recorded"))
  <1> DEFINE n == Len(d)
  <1> DEFINE L == [i \in 0..n |-> Course(w, d)[i].actions]
  <1> DEFINE M == Matching(d, "action", "Recorded")
  <1>1. n \in Nat
    OBVIOUS
  <1>2. L[0] = w.actions /\ w.actions \in Seq(Resolution)
    BY <1>1, CourseSteps DEF IsWorld, WorldOf
  <1>3. L[n] = v.actions
    <2>1. Same(Course(w, d)[n], v, {"version"})
      BY ReduceKeeps
    <2>2. QED
      BY <1>1, <2>1 DEF Same, Fields
  <1>4. ASSUME NEW i \in 1..n
        PROVE  L[i] = L[i - 1] \/ (i \in M /\ \E a \in Resolution : L[i] = Append(L[i - 1], a))
    <2> DEFINE x == Course(w, d)[i - 1]
    <2> DEFINE y == Course(w, d)[i]
    <2>1. IsWorld(x) /\ d[i] \in Applicable /\ y = Apply(x, d[i])
      BY CourseStep
    <2>2. L[i] = y.actions /\ L[i - 1] = x.actions
      OBVIOUS
    <2> HIDE DEF x, y, L
    <2>3. \/ y.actions = x.actions
          \/ /\ d[i].of = "action" /\ d[i].kind = "Recorded"
             /\ \E a \in Resolution : y.actions = Append(x.actions, a)
      BY <2>1, ActionStep
    <2>4. i \in DOMAIN d
      OBVIOUS
    <2>5. QED
      BY <2>2, <2>3, <2>4 DEF Matching
  <1>5. M \in SUBSET (1..n) /\ Cardinality(M) = Count(d, "action", "Recorded")
    BY DEF Matching, Count
  <1> HIDE DEF n, L, M
  <1>6. L[0] \in Seq(Resolution) /\ Lengthens(L, n, M, Resolution)
    BY <1>2, <1>4 DEF Lengthens
  <1>7. Continues(L[0], L[n], Cardinality(M))
    BY <1>1, <1>5, <1>6, ListGrows
  <1>8. QED
    BY <1>2, <1>3, <1>5, <1>7

LEMMA ReduceAddsFacts ==
    ASSUME NEW w, IsWorld(w), NEW d \in Seq(Applicable), NEW v, v = Reduce(w, d),
           In(d, "npc", "KnowledgeAdded") = {}
    PROVE  Continues(w.facts, v.facts, Count(d, "fact", "Added"))
  <1> DEFINE n == Len(d)
  <1> DEFINE L == [i \in 0..n |-> Course(w, d)[i].facts]
  <1> DEFINE M == Matching(d, "fact", "Added")
  <1>1. n \in Nat
    OBVIOUS
  <1>2. L[0] = w.facts /\ w.facts \in Seq(Fact)
    BY <1>1, CourseSteps DEF IsWorld, WorldOf
  <1>3. L[n] = v.facts
    <2>1. Same(Course(w, d)[n], v, {"version"})
      BY ReduceKeeps
    <2>2. QED
      BY <1>1, <2>1 DEF Same, Fields
  <1>4. ASSUME NEW i \in 1..n
        PROVE  L[i] = L[i - 1] \/ (i \in M /\ \E f \in Fact : L[i] = Append(L[i - 1], f))
    <2> DEFINE x == Course(w, d)[i - 1]
    <2> DEFINE y == Course(w, d)[i]
    <2>1. IsWorld(x) /\ d[i] \in Applicable /\ y = Apply(x, d[i])
      BY CourseStep
    <2>2. L[i] = y.facts /\ L[i - 1] = x.facts
      OBVIOUS
    <2> HIDE DEF x, y, L
    <2>3. \/ y.facts = x.facts
          \/ \E f \in Fact : y.facts = Append(x.facts, f) /\ Makes(d[i], f)
      BY <2>1, FactsStep
    <2>4. i \in DOMAIN d /\ d[i] \in Range(d)
      BY DEF Range
    <2>5. ~ (d[i].of = "npc" /\ d[i].kind = "KnowledgeAdded")
      BY <2>4 DEF In
    <2>6. d[i].of = "fact" => d[i].kind = "Added"
      <3>1. d[i].of = "fact" => d[i] \in FactToAdd
        BY <2>1, ChangeOfSection DEF Applicable
      <3>2. QED
        BY <3>1 DEF FactToAdd
    <2>7. QED
      BY <2>2, <2>3, <2>4, <2>5, <2>6 DEF Matching, Makes
  <1>5. M \in SUBSET (1..n) /\ Cardinality(M) = Count(d, "fact", "Added")
    BY DEF Matching, Count
  <1> HIDE DEF n, L, M
  <1>6. L[0] \in Seq(Fact) /\ Lengthens(L, n, M, Fact)
    BY <1>2, <1>4 DEF Lengthens
  <1>7. Continues(L[0], L[n], Cardinality(M))
    BY <1>1, <1>5, <1>6, ListGrows
  <1>8. QED
    BY <1>2, <1>3, <1>5, <1>7

-----------------------------------------------------------------------------
(* The texts of a world that nobody compares with the GM-only facts.       *)

Entries(list, texts) == \A i \in DOMAIN list : list[i].shown => list[i].says \subseteq texts

\* All of them are among texts.
SpokenIn(w, texts) ==
    /\ w.summary \subseteq texts
    /\ w.events \subseteq texts
    /\ \A n \in Npcs : /\ w.npcs[n].attitude \subseteq texts
                       /\ \A deed \in w.npcs[n].deeds : deed.shown => deed.says \subseteq texts
    /\ \A f \in Factions : w.factions[f].notes \union w.factions[f].pressure \subseteq texts
    /\ \A p \in DOMAIN w.bonds : w.bonds[p].notes \subseteq texts
    /\ Entries(w.memories, texts)
    /\ Entries(w.actions, texts)
    /\ Entries(w.sheet, texts)
    /\ \A i \in DOMAIN w.clues : w.clues[i].text \subseteq texts

LEMMA WorldsAreSpoken ==
    ASSUME NEW w, IsWorld(w)
    PROVE  SpokenIn(w, Hidden)
  <1>1. /\ w.summary \in Text /\ w.events \in Text
        /\ w.npcs \in [Npcs -> NpcState] /\ w.factions \in [Factions -> FactionState]
        /\ w.bonds \in [DOMAIN w.bonds -> Relationship]
        /\ w.memories \in Seq(Memory) /\ w.actions \in Seq(Resolution)
        /\ w.sheet \in Seq(SheetEntry) /\ w.clues \in Seq(Clue)
    BY DEF IsWorld, WorldOf
  <1>2. \A n \in Npcs : /\ w.npcs[n].attitude \subseteq Hidden
                        /\ \A deed \in w.npcs[n].deeds : deed.says \subseteq Hidden
    BY <1>1 DEF NpcState, Deed, Text
  <1>3. \A f \in Factions : w.factions[f].notes \union w.factions[f].pressure \subseteq Hidden
    BY <1>1 DEF FactionState, Text
  <1>4. \A p \in DOMAIN w.bonds : w.bonds[p].notes \subseteq Hidden
    BY <1>1 DEF Relationship, Text
  <1>5. /\ \A i \in DOMAIN w.memories : w.memories[i].says \subseteq Hidden
        /\ \A i \in DOMAIN w.actions : w.actions[i].says \subseteq Hidden
    <2>1. /\ \A m \in Memory : m.says \subseteq Hidden
          /\ \A a \in Resolution : a.says \subseteq Hidden
      BY DEF Memory, Resolution, Text
    <2>2. QED
      BY <1>1, <2>1
  <1>6. \A i \in DOMAIN w.sheet : w.sheet[i].says \subseteq Hidden
    <2>1. \A e \in SheetEntry : e.says \subseteq Hidden
      BY DEF SheetEntry, Text
    <2>2. QED
      BY <1>1, <2>1
  <1>7. \A i \in DOMAIN w.clues : w.clues[i].text \subseteq Hidden
    <2>1. \A k \in Clue : k.text \subseteq Hidden
      BY DEF Clue, Text
    <2>2. QED
      BY <1>1, <2>1
  <1>8. w.summary \subseteq Hidden /\ w.events \subseteq Hidden
    BY <1>1 DEF Text
  <1>9. QED
    BY <1>2, <1>3, <1>4, <1>5, <1>6, <1>7, <1>8 DEF SpokenIn, Entries

LEMMA ShownSays ==
    ASSUME NEW list, NEW texts, Entries(list, texts)
    PROVE  Says(Shown(list)) \subseteq texts
  BY DEF Entries, Says, Shown, Range

\* What LastN takes of a list was in it.
LEMMA LastNEntries ==
    ASSUME NEW E, NEW list \in Seq(E), NEW n \in Nat
    PROVE  Range(LastN(n, list)) \subseteq Range(list) /\ LastN(n, list) \in Seq(E)
  <1> DEFINE first == IF n < Len(list) THEN Len(list) - n + 1 ELSE 1
  <1>1. first \in 1..(Len(list) + 1) /\ Len(list) \in Nat
    OBVIOUS
  <1>2. LastN(n, list) = SubSeq(list, first, Len(list))
    BY DEF LastN
  <1> HIDE DEF first
  <1>3. /\ LastN(n, list) \in Seq(E)
        /\ Len(LastN(n, list)) = Len(list) - first + 1
        /\ \A i \in 1..(Len(list) - first + 1) : LastN(n, list)[i] = list[first + i - 1]
    BY <1>1, <1>2
  <1>4. ASSUME NEW i \in DOMAIN LastN(n, list)
        PROVE  LastN(n, list)[i] \in Range(list)
    <2>1. i \in 1..(Len(list) - first + 1) /\ first + i - 1 \in DOMAIN list
      BY <1>1, <1>3
    <2>2. QED
      BY <1>3, <2>1 DEF Range
  <1>5. QED
    BY <1>3, <1>4 DEF Range

\* The narrator is told the player-known facts, unchecked texts and the messages.
LEMMA NarratorIsTold ==
    ASSUME NEW w, IsWorld(w), NEW list \in Seq(Text), NEW texts, SpokenIn(w, texts)
    PROVE  NarrationContext(w, list) \subseteq Says(PlayerFacts(w)) \union texts \union UNION Range(list)
  <1> DEFINE context == AgentContext(w, list)
  <1>1. FactsSection(context, FALSE) = Says(PlayerFacts(w))
    BY DEF FactsSection, AgentContext, If
  <1>2. PlayerStateSection(context, FALSE) \subseteq texts
    <2>1. Says(Shown(w.sheet)) \subseteq texts
      BY ShownSays DEF SpokenIn
    <2>2. QED
      BY <2>1 DEF PlayerStateSection, AgentContext, If
  <1>3. SocialStateSection(context, FALSE) \subseteq texts
    <2>1. context.factions = Range(w.factions)
      BY DEF AgentContext, RelevantFactions
    <2> HIDE DEF context
    <2>2. SocialStateSection(context, FALSE) = UNION {f.pressure : f \in Range(w.factions)}
      BY <2>1 DEF SocialStateSection, If
    <2>3. Range(w.factions) = {w.factions[f] : f \in Factions}
      BY DEF IsWorld, WorldOf, Range
    <2>4. QED
      BY <2>2, <2>3 DEF SpokenIn
  <1>4. NpcAgencySection(context, FALSE) \subseteq texts
    <2> DEFINE open == {deed \in context.offscreen : FALSE \/ deed.shown}
    <2>1. /\ context.attitudes = {w.npcs[n].attitude : n \in RelevantNpcs(w)}
          /\ context.offscreen = UNION {w.npcs[n].deeds : n \in Npcs}
      BY DEF AgentContext, OffscreenNpcActivity
    <2>2. RelevantNpcs(w) \subseteq Npcs
      BY DEF RelevantNpcs
    <2> HIDE DEF context
    <2>3. UNION context.attitudes \subseteq texts
      BY <2>1, <2>2 DEF SpokenIn
    <2> DEFINE deeds == UNION {deed.says : deed \in open}
    <2> DEFINE section == NpcAgencySection(context, FALSE)
    <2>4. deeds \subseteq texts
      BY <2>1 DEF SpokenIn
    <2>5. section = (UNION context.attitudes) \union deeds
      BY Zenon DEF NpcAgencySection
    <2> HIDE DEF deeds, section
    <2>6. section \subseteq texts
      BY <2>3, <2>4, <2>5
    <2>7. QED
      BY <2>6, Zenon DEF section
  <1>5. ActionResolutionSection(context) \subseteq texts
    <2>1. context.resolutions = RecentResolutions(w)
      BY DEF AgentContext
    <2>2. \A a \in RecentResolutions(w) : a.says \subseteq texts
      BY DEF RecentResolutions, Lasts, SpokenIn, Entries
    <2> HIDE DEF context
    <2>3. QED
      BY <2>1, <2>2 DEF ActionResolutionSection, Says
  <1>6. ClueSection(context) \subseteq texts
    <2>1. context.clues = Shown(w.clues)
      BY DEF AgentContext
    <2> HIDE DEF context
    <2>2. QED
      BY <2>1 DEF ClueSection, Shown, Range, SpokenIn
  <1>7. MemorySection(context, FALSE) \subseteq texts
    <2>1. context.memories = PrioritizedMemories(w.memories, TRUE, PlayerMemoryLimit)
      BY DEF AgentContext
    <2>2. \A m \in PrioritizedMemories(w.memories, TRUE, PlayerMemoryLimit) : m.says \subseteq texts
      BY DEF PrioritizedMemories, SpokenIn, Entries
    <2> HIDE DEF context
    <2>3. QED
      BY <2>1, <2>2 DEF MemorySection, Says, If
  <1>8. context.summary \subseteq texts
    BY DEF AgentContext, SpokenIn
  <1>9. UNION Range(context.messages) \subseteq UNION Range(list)
    <2>1. Range(LastN(MessageLimit, list)) \subseteq Range(list)
      BY LimitsAssumption, LastNEntries
    <2>2. context.messages = LastN(MessageLimit, list)
      BY DEF AgentContext
    <2> HIDE DEF context
    <2>3. QED
      BY <2>1, <2>2
  <1> HIDE DEF context
  <1>10. QED
    BY <1>1, <1>2, <1>3, <1>4, <1>5, <1>6, <1>7, <1>8, <1>9 DEF NarrationContext, Prompt, context

\* So is the player, of the world.
LEMMA PlayerIsShown ==
    ASSUME NEW w, IsWorld(w), NEW texts, SpokenIn(w, texts)
    PROVE  SpeltTo(w, FALSE) \subseteq Says(PlayerFacts(w)) \union texts
  <1>1. UNION {item.says : item \in Project("fact", w, FALSE)} \subseteq Says(PlayerFacts(w))
    <2>1. ASSUME NEW item \in Project("fact", w, FALSE)
          PROVE  \E f \in PlayerFacts(w) : item.says = f.says
      <3>1. Project("fact", w, FALSE) = ViewedFacts(w, FALSE)
        BY DEF Project
      <3>2. PICK f \in Range(w.facts) : f.vis = "player" /\ item = [id |-> f.id, says |-> f.says]
        BY <2>1, <3>1 DEF ViewedFacts, Sees
      <3>3. QED
        BY <3>2 DEF PlayerFacts
    <2>2. QED
      BY <2>1 DEF Says
  <1>2. UNION {item.says : item \in Project("action", w, FALSE)} \subseteq texts
    BY DEF Project, ViewedItems, Sees, SpokenIn, Entries, Range
  <1>3. UNION {item.says : item \in Project("player", w, FALSE)} \subseteq texts
    BY DEF Project, ViewedItems, Sees, SpokenIn, Entries, Range
  <1>4. UNION {item.says : item \in Project("memory", w, FALSE)} \subseteq texts
    BY DEF Project, ViewedItems, Sees, SpokenIn, Entries, Range
  <1>5. UNION {f.notes \union f.pressure : f \in Project("faction", w, FALSE)} \subseteq texts
    BY DEF Project, ViewedFactions, SpokenIn
  <1>6. UNION {k.text : k \in Project("clue", w, FALSE)} \subseteq texts
    BY DEF Project, ViewedItems, Sees, SpokenIn, Range
  <1>7. UNION {b.bond.notes : b \in Project("relationship", w, FALSE)} \subseteq texts
    <2>1. \A b \in Project("relationship", w, FALSE) : \E p \in DOMAIN w.bonds : b.bond = w.bonds[p]
      <3> SUFFICES ASSUME NEW b \in Project("relationship", w, FALSE)
                   PROVE  \E p \in DOMAIN w.bonds : b.bond = w.bonds[p]
        OBVIOUS
      <3>1. b \in ViewedBonds(w, FALSE)
        BY DEF Project
      <3>2. PICK p \in DOMAIN w.bonds : b = [id |-> p, bond |-> w.bonds[p]]
        BY <3>1 DEF ViewedBonds
      <3>3. QED
        BY <3>2
    <2>2. QED
      BY <2>1 DEF SpokenIn
  <1>8. UNION {n.attitude : n \in Project("npc", w, FALSE)} \subseteq texts
    BY DEF Project, ViewedNpcs, Sees, SpokenIn
  <1>9. w.events \subseteq texts
    BY DEF SpokenIn
  <1>10. QED
    BY <1>1, <1>2, <1>3, <1>4, <1>5, <1>6, <1>7, <1>8, <1>9 DEF SpeltTo

-----------------------------------------------------------------------------
(* Types.                                                                  *)

LEMMA InitialIsWorld ==
    ASSUME NEW npcs \in [Npcs -> FirstNpcStates]
    PROVE  IsWorld(InitialWorld(npcs))
  <1> DEFINE w == InitialWorld(npcs)
  <1>1. NpcList[1] \in Npcs /\ PlaceList[1] \in Places
    BY ScenarioLists
  <1>2. FirstNpcStates \subseteq NpcState
    <2>1. ASSUME NEW able \in BOOLEAN, NEW shown \in BOOLEAN, NEW home \in Places \union {Nowhere}
          PROVE  /\ FirstPresent(able, shown, home) \in BOOLEAN
                 /\ (IF home = Nowhere THEN PlaceList[1] ELSE home) \in Places
      BY <1>1 DEF FirstPresent
    <2>2. QED
      BY <2>1 DEF FirstNpcStates, NpcState, Text
  <1>3. w.facts \in Seq(Fact)
    <2> DEFINE f(i) == [id |-> SecretList[i], says |-> {SecretList[i]}, vis |-> "gm",
                        cites |-> {}, proof |-> NoCondition, knownBy |-> {}]
    <2>1. \A i \in DOMAIN SecretList : f(i) \in Fact
      <3>1. \A i \in DOMAIN SecretList : SecretList[i] \in Secrets
        BY DEF Secrets, Range
      <3>2. \A s \in Secrets : s \in FactId /\ {s} \in Text
        BY DEF FactId, Text, Hidden
      <3>3. QED
        BY <3>1, <3>2 DEF Fact, Visibility
    <2>2. w.facts = [i \in DOMAIN SecretList |-> f(i)]
      BY DEF InitialWorld
    <2>3. DOMAIN SecretList = 1..Len(SecretList) /\ Len(SecretList) \in Nat
      BY ScenarioLists
    <2> HIDE DEF f, w
    <2>4. QED
      BY <2>1, <2>2, <2>3
  <1>4. w.npcs \in [Npcs -> NpcState]
    BY <1>2 DEF InitialWorld
  <1>5. w.factions \in [Factions -> FactionState] /\ w.clocks \in [Clocks -> ClockState]
    BY DEF InitialWorld, FactionState, ClockState, Text
  <1>6. w.quests \in [Quests -> QuestState]
    BY DEF InitialWorld, QuestState, QuestStatus
  <1>7. /\ w.items = <<>> /\ w.bonds = <<>>
        /\ w.items \in [DOMAIN w.items -> Nat] /\ DOMAIN w.items \subseteq Items
        /\ w.bonds \in [DOMAIN w.bonds -> Relationship] /\ DOMAIN w.bonds \subseteq Ends \X Ends
    BY DEF InitialWorld
  <1>8. /\ w.version \in Nat /\ w.speaker \in Npcs \union {NoOne} /\ w.place \in Places
        /\ w.summary \in Text /\ w.events \in Text /\ w.gmNotes \in Text
        /\ w.memories \in Seq(Memory) /\ w.actions \in Seq(Resolution) /\ w.sheet \in Seq(SheetEntry)
        /\ w.clues \in Seq(Clue)
    BY <1>1 DEF InitialWorld, Text
  <1>9. w = [g \in Fields |-> w[g]]
    BY DEF InitialWorld, Fields
  <1> HIDE DEF w
  <1>10. w \in WorldOf(DOMAIN w.items, DOMAIN w.bonds)
    BY <1>3, <1>4, <1>5, <1>6, <1>7, <1>8, <1>9 DEF WorldOf, Fields
  <1>11. IsWorld(w)
    BY <1>7, <1>10 DEF IsWorld
  <1>12. QED
    BY <1>11 DEF w

\* The reducer may rely on what the validator lets through.
LEMMA ValidIsApplicable ==
    ASSUME NEW w, NEW d \in Seq(Change), Valid(w, d)
    PROVE  d \in Seq(Applicable)
  <1>1. ASSUME NEW i \in 1..Len(d)
        PROVE  d[i] \in Applicable
    <2>1. d[i] \in Range(d) /\ d[i] \in Change
      BY DEF Range
    <2>2. LegalMemory(w, d[i]) /\ LegalPlayer(w, d[i])
      BY <2>1 DEF Valid
    <2>3. QED
      BY <2>1, <2>2 DEF LegalMemory, LegalPlayer, Applicable
  <1>2. QED
    BY <1>1

LEMMA SaysType ==
    ASSUME NEW c \in Change, "says" \in DOMAIN c
    PROVE  c.says \in Text
  <1>1. /\ c \in MemoryChange => c.says \in Text
        /\ c \in FactToAdd => c.says \in Text
        /\ c \in ActionChange => c.says \in Text
        /\ c \in OneOff => c.says \in Text
    BY DEF MemoryChange, FactToAdd, ActionChange, OneOff
  <1>2. /\ c \in FactionChange => c.says \in Text
        /\ c \in QuestChange => c.says \in Text
        /\ c \in ClockChange => c.says \in Text
        /\ c \in InventoryChange => c.says \in Text
    BY DEF FactionChange, QuestChange, ClockChange, InventoryChange
  <1>3. /\ c \in PlayerChange => c.says \in Text
        /\ c \in RelationshipChange => c.says \in Text
        /\ c \in ClueChange => c.says \in Text
    BY DEF PlayerChange, RelationshipChange, ClueChange
  <1>4. c \in NpcChange => c.says \in Text
    BY DEF NpcChange
  <1>5. QED
    BY <1>1, <1>2, <1>3, <1>4 DEF Change

LEMMA FoundIsClue ==
    ASSUME NEW d \in Seq(Change), NEW c \in In(d, "clue", "Discovered")
    PROVE  c.clue \in Clue /\ c \in ClueChange /\ c \in Range(d)
  <1>1. c \in Change /\ c.of = "clue" /\ c.kind = "Discovered" /\ c \in Range(d)
    BY DEF In, Range
  <1>2. c \in ClueChange
    BY <1>1, ChangeOfSection
  <1>3. QED
    BY <1>1, <1>2 DEF ClueChange

LEMMA HistoryTypes ==
    ASSUME NEW d \in Seq(Change)
    PROVE  /\ Slips(d) \in Text
           /\ {[links |-> c.clue.links, proves |-> c.clue.proves] : c \in In(d, "clue", "Discovered")}
                  \subseteq [links : SUBSET Secrets, proves : SUBSET Conditions]
           /\ Summons(d) \subseteq Npcs
  <1>1. Range(d) \subseteq Change
    BY DEF Range
  <1>2. \A c \in In(d, "clue", "Discovered") :
           c.clue.text \subseteq Hidden /\ c.clue.links \subseteq Secrets /\ c.clue.proves \subseteq Conditions
    BY FoundIsClue DEF Clue, Text
  <1>3. Slips(d) \subseteq Hidden
    <2>1. \A c \in Range(d) : "says" \in DOMAIN c => c.says \subseteq Hidden
      BY <1>1, SaysType DEF Text
    <2>2. QED
      BY <1>2, <2>1 DEF Slips
  <1>4. Summons(d) \subseteq Npcs
    <2>1. \A c \in Range(d) : c.of = "npc" => c.npc \in Npcs
      BY <1>1, ChangeOfSection DEF NpcChange
    <2>2. QED
      BY <2>1 DEF Summons
  <1>5. QED
    BY <1>2, <1>3, <1>4 DEF Text

LEMMA TextsAreHidden ==
    ASSUME NEW list \in Seq(Text)
    PROVE  UNION Range(list) \subseteq Hidden
  BY DEF Range, Text

\* A delta of the session's repertoire is a list of changes.
LEMMA DeltasAreLists ==
    ASSUME topic \in Topics, NEW d \in Deltas[topic]
    PROVE  d \in Seq(Repertoire[topic]) /\ d \in Seq(Change)
  <1>1. PICK n \in 0..MaxChanges : d \in [1..n -> Repertoire[topic]]
    BY DEF Deltas
  <1>2. n \in Nat
    BY BoundsAssumption
  <1>3. d \in Seq(Repertoire[topic])
    BY <1>1, <1>2
  <1>4. QED
    BY <1>3, RepertoireAssumption

LEMMA FactsSay ==
    ASSUME NEW w, IsWorld(w)
    PROVE  Says(PlayerFacts(w)) \subseteq Hidden
  <1>1. w.facts \in Seq(Fact)
    BY DEF IsWorld, WorldOf
  <1>2. \A f \in Fact : f.says \subseteq Hidden
    BY DEF Fact, Text
  <1>3. \A f \in PlayerFacts(w) : f \in Fact
    BY <1>1 DEF PlayerFacts, Range
  <1>4. QED
    BY <1>2, <1>3 DEF Says

LEMMA PersistTypes ==
    ASSUME TypeOK, NEW d \in Deltas[topic], Valid(stored, d), NEW v, v = Reduce(stored, d)
    PROVE  /\ d \in Seq(Applicable) /\ d \in Seq(Change) /\ d \in Seq(Repertoire[topic])
           /\ IsWorld(stored) /\ IsWorld(v)
  <1>1. IsWorld(stored) /\ topic \in Topics
    BY DEF TypeOK
  <1>2. d \in Seq(Change) /\ d \in Seq(Repertoire[topic])
    BY <1>1, DeltasAreLists
  <1>3. d \in Seq(Applicable)
    BY <1>2, ValidIsApplicable
  <1>4. IsWorld(v)
    BY <1>1, <1>3, ReduceKeeps
  <1>5. QED
    BY <1>1, <1>2, <1>3, <1>4

LEMMA TypeInit == Init => TypeOK
  <1> SUFFICES ASSUME Init PROVE TypeOK
    OBVIOUS
  <1>1. IsWorld(stored)
    BY InitialIsWorld DEF Init
  <1>2. OpeningIntro(stored) \in Text
    BY <1>1, WorldsAreSpoken, PlayerIsShown, FactsSay DEF OpeningIntro, Text
  <1>3. turns \in 0..MaxTurns
    BY BoundsAssumption DEF Init
  <1>4. messages \in Seq(Text) /\ delta \in Seq(Repertoire[topic])
    BY <1>2 DEF Init
  <1>5. {response, told, slipped} \subseteq Text
    BY DEF Init, Text
  <1>6. QED
    BY <1>1, <1>3, <1>4, <1>5 DEF Init, TypeOK

LEMMA TypeNext == TypeOK /\ [Next]_vars => TypeOK'
  <1> SUFFICES ASSUME TypeOK, [Next]_vars PROVE TypeOK'
    OBVIOUS
  <1> USE DEF TypeOK
  <1>1. CASE Narrate
    <2>1. PrepareTurnContext \subseteq Hidden
      BY WorldsAreSpoken, NarratorIsTold, FactsSay, TextsAreHidden DEF PrepareTurnContext
    <2>2. {response', told', slipped'} \subseteq Text
      BY <1>1, <2>1 DEF Narrate, Text
    <2>3. turns' \in 0..MaxTurns
      BY <1>1, BoundsAssumption DEF Narrate
    <2>4. delta' \in Seq(Repertoire[topic'])
      BY <1>1 DEF Narrate
    <2>5. QED
      BY <1>1, <2>2, <2>3, <2>4 DEF Narrate
  <1>2. CASE Persist
    <2>1. PICK d \in Deltas[topic] :
             /\ Valid(stored, d)
             /\ stored' = Reduce(stored, d)
             /\ delta' = d
             /\ slipped' = slipped \union Slips(d)
             /\ linked' = linked \union {[links |-> c.clue.links, proves |-> c.clue.proves] :
                                            c \in In(d, "clue", "Discovered")}
             /\ summoned' = summoned \union Summons(d)
      BY <1>2 DEF Persist
    <2>2. d \in Seq(Change) /\ d \in Seq(Repertoire[topic]) /\ IsWorld(stored')
      BY <2>1, PersistTypes
    <2>3. {response', told', slipped'} \subseteq Text
      BY <1>2, <2>1, <2>2, HistoryTypes DEF Persist, Text
    <2>4. linked' \subseteq [links : SUBSET Secrets, proves : SUBSET Conditions] /\ summoned' \subseteq Npcs
      BY <2>1, <2>2, HistoryTypes
    <2>5. messages' \in Seq(Text)
      <3>1. <<{}, response>> \in Seq(Text)
        BY DEF Text
      <3>2. QED
        BY <1>2, <3>1 DEF Persist
    <2>6. QED
      BY <1>2, <2>1, <2>2, <2>3, <2>4, <2>5 DEF Persist
  <1>3. CASE Abandon
    BY <1>3 DEF Abandon, Text
  <1>4. CASE UNCHANGED vars
    BY <1>4 DEF vars
  <1>5. QED
    BY <1>1, <1>2, <1>3, <1>4 DEF Next

(* Whatever the models write, every world a session stores is well formed, *)
(* and so are its messages and histories (SecretFlow!TypeOK).              *)
THEOREM TypeCorrect == Spec => []TypeOK
  BY TypeInit, TypeNext, PTL DEF Spec

-----------------------------------------------------------------------------
(* Reveals.                                                                *)

\* A fact that is player-known after a turn and was not before is one the delta makes.
LEMMA NewFactsAreMade ==
    ASSUME NEW w, IsWorld(w), NEW d \in Seq(Applicable), NEW v, v = Reduce(w, d),
           NEW f \in PlayerFacts(v) \ PlayerFacts(w)
    PROVE  f.vis = "player" /\ \E c \in Range(d) : Makes(c, f)
  <1>1. FactsGrow(w.facts, v.facts, d, w.version + 1)
    BY ReduceFacts
  <1>2. v.facts \in Seq(Fact) /\ w.facts \in Seq(Fact)
    <2>1. IsWorld(v)
      BY ReduceKeeps
    <2>2. QED
      BY <2>1 DEF IsWorld, WorldOf
  <1>3. PICK i \in 1..Len(v.facts) : f = v.facts[i]
    BY <1>2 DEF PlayerFacts, Range
  <1>4. f.vis = "player" /\ f \notin Range(w.facts)
    BY DEF PlayerFacts
  <1>5. i \notin 1..Len(w.facts)
    BY <1>1, <1>2, <1>3, <1>4 DEF FactsGrow, Range
  <1>6. i \in (Len(w.facts) + 1)..Len(v.facts)
    BY <1>2, <1>5
  <1>7. QED
    BY <1>1, <1>3, <1>4, <1>6 DEF FactsGrow

\* The validator's rules about facts and about what an NPC learns, taken together.
LEMMA LeaksAreProved ==
    ASSUME NEW w, NEW d, Valid(w, d), NEW c \in Range(d), NEW f, Makes(c, f), f.vis = "player",
           NEW g \in Leaked(w, f.says)
    PROVE  /\ g.id \in f.cites
           /\ \A s \in f.cites : f.proof \in DeclaredBy(s)
           /\ ProofInWorld(w, f) \/ ProofInDelta(w, d, f)
  <1>1. c.says = f.says /\ c.vis = "player"
    BY DEF Makes
  <1>2. c.of = "fact" /\ f.cites = c.cites /\ f.proof = c.proof
    <2>1. LegalKnowledge(w, c)
      BY DEF Valid
    <2>2. ~ (c.of = "npc" /\ c.kind = "KnowledgeAdded")
      BY <1>1, <2>1 DEF LegalKnowledge
    <2>3. QED
      BY <2>2 DEF Makes
  <1>3. LegalFact(w, d, c)
    BY DEF Valid
  <1>4. LeaksCited(w, c) /\ (c.proof # NoCondition => LegalProof(w, d, c))
    BY <1>1, <1>2, <1>3 DEF LegalFact
  <1>5. g.id \in c.cites /\ c.proof # NoCondition
    BY <1>1, <1>4 DEF LeaksCited
  <1>6. LegalProof(w, d, c)
    BY <1>4, <1>5
  <1>7. /\ \A s \in c.cites : c.proof \in DeclaredBy(s)
        /\ ProofInWorld(w, c) \/ ProofInDelta(w, d, c)
    BY <1>6 DEF LegalProof
  <1>8. /\ ProofInWorld(w, c) => ProofInWorld(w, f)
        /\ ProofInDelta(w, d, c) => ProofInDelta(w, d, f)
    BY <1>2 DEF ProofInWorld, ProofInDelta, Covers
  <1>9. QED
    BY <1>2, <1>5, <1>7, <1>8

(* The only way a GM-only fact becomes player-known is a fact that cites   *)
(* it and a reveal condition it declares (SecretFlow!RevealsAreCited): the *)
(* validator's rules leave no gap that a delta of several changes, or what *)
(* an NPC learns, could use.                                               *)
THEOREM RevealsCite == Spec => RevealsAreCited
  <1> DEFINE Cited ==
        \A f \in PlayerFacts(stored') \ PlayerFacts(stored) :
            \A g \in Leaked(stored, f.says) : g.id \in f.cites /\ f.proof \in DeclaredBy(g.id)
  <1>1. TypeOK /\ [Next]_vars => [Cited]_vars
    <2> SUFFICES ASSUME TypeOK, Next PROVE Cited
      OBVIOUS
    <2>1. CASE Persist
      <3>1. PICK d \in Deltas[topic] : Valid(stored, d) /\ stored' = Reduce(stored, d)
        BY <2>1 DEF Persist
      <3>2. d \in Seq(Applicable) /\ IsWorld(stored)
        BY <3>1, PersistTypes
      <3>3. ASSUME NEW f \in PlayerFacts(stored') \ PlayerFacts(stored), NEW g \in Leaked(stored, f.says)
            PROVE  g.id \in f.cites /\ f.proof \in DeclaredBy(g.id)
        <4>1. PICK c \in Range(d) : Makes(c, f)
          BY <3>1, <3>2, NewFactsAreMade
        <4>2. f.vis = "player"
          BY DEF PlayerFacts
        <4>3. QED
          BY <3>1, <3>3, <4>1, <4>2, LeaksAreProved
      <3>4. QED
        BY <3>3
    <2>2. CASE Narrate \/ Abandon
      BY <2>2 DEF Narrate, Abandon
    <2>3. QED
      BY <2>1, <2>2 DEF Next
  <1>2. QED
    BY <1>1, TypeCorrect, PTL DEF Spec, RevealsAreCited

SecretFact(i) ==
    [id |-> SecretList[i], says |-> {SecretList[i]}, vis |-> "gm", cites |-> {},
     proof |-> NoCondition, knownBy |-> {}]

\* The scenario's secrets stand first among the facts, GM-only as they were.
SecretsStand(w) ==
    \A i \in DOMAIN SecretList : i \in DOMAIN w.facts /\ w.facts[i] = SecretFact(i)

\* What every clue proves is among what is known of discoveries.
CluesAreIn(w, known) ==
    \A i \in DOMAIN w.clues : [links |-> w.clues[i].links, proves |-> w.clues[i].proves] \in known

LEMMA InitialFacts ==
    ASSUME NEW npcs
    PROVE  /\ SecretsStand(InitialWorld(npcs))
           /\ InitialWorld(npcs).facts = [i \in DOMAIN SecretList |-> SecretFact(i)]
           /\ PlayerFacts(InitialWorld(npcs)) = {}
  <1>1. InitialWorld(npcs).facts = [i \in DOMAIN SecretList |-> SecretFact(i)]
    BY DEF InitialWorld, SecretFact
  <1>2. \A i \in DOMAIN SecretList : SecretFact(i).vis = "gm"
    BY DEF SecretFact
  <1> HIDE DEF SecretFact
  <1>3. QED
    BY <1>1, <1>2 DEF SecretsStand, PlayerFacts, Range

LEMMA SecretsKeepStanding ==
    ASSUME NEW w, IsWorld(w), SecretsStand(w), NEW d \in Seq(Applicable), NEW v, v = Reduce(w, d)
    PROVE  SecretsStand(v)
  <1>1. FactsGrow(w.facts, v.facts, d, w.version + 1)
    BY ReduceFacts
  <1>2. IsWorld(v)
    BY ReduceKeeps
  <1>3. w.facts \in Seq(Fact) /\ v.facts \in Seq(Fact)
    BY <1>2 DEF IsWorld, WorldOf
  <1>4. /\ Len(w.facts) <= Len(v.facts)
        /\ \A i \in 1..Len(w.facts) : v.facts[i] = w.facts[i]
    BY <1>1 DEF FactsGrow
  <1>5. ASSUME NEW i \in DOMAIN SecretList
        PROVE  i \in DOMAIN v.facts /\ v.facts[i] = SecretFact(i)
    <2>1. i \in 1..Len(w.facts) /\ w.facts[i] = SecretFact(i)
      BY <1>3 DEF SecretsStand
    <2>2. i \in DOMAIN v.facts
      BY <1>3, <1>4, <2>1
    <2>3. QED
      BY <1>4, <2>1, <2>2
  <1>6. QED
    BY <1>5 DEF SecretsStand

Discoveries(d) ==
    {[links |-> c.clue.links, proves |-> c.clue.proves] : c \in In(d, "clue", "Discovered")}

LEMMA CluesStayIn ==
    ASSUME NEW w, IsWorld(w), NEW d \in Seq(Applicable), NEW v, v = Reduce(w, d),
           NEW known, CluesAreIn(w, known)
    PROVE  CluesAreIn(v, known \union Discoveries(d))
  <1> DEFINE S == {x \in Worlds : CluesAreIn(x, known \union Discoveries(d))}
  <1>1. w \in S
    BY WorldsAreWorlds DEF CluesAreIn
  <1>2. ASSUME NEW x \in Worlds, NEW i \in 1..Len(d), x \in S, x.version = w.version
        PROVE  Apply(x, d[i]) \in S
    <2> DEFINE y == Apply(x, d[i])
    <2>1. d[i] \in Applicable /\ IsWorld(x) /\ d[i] \in Range(d)
      BY WorldsAreWorlds DEF Range
    <2>2. y \in Worlds
      BY <2>1, ApplyKeeps, WorldsAreWorlds
    <2>3. ASSUME NEW j \in DOMAIN y.clues
          PROVE  [links |-> y.clues[j].links, proves |-> y.clues[j].proves] \in known \union Discoveries(d)
      <3>1. CASE /\ j \in DOMAIN x.clues
                 /\ y.clues[j].links = x.clues[j].links
                 /\ y.clues[j].proves = x.clues[j].proves
        BY <1>2, <3>1 DEF CluesAreIn
      <3>2. CASE d[i].of = "clue" /\ d[i].kind = "Discovered" /\ y.clues[j] = d[i].clue
        <4>1. d[i] \in In(d, "clue", "Discovered")
          BY <2>1, <3>2 DEF In
        <4> HIDE DEF y
        <4>2. QED
          BY <3>2, <4>1 DEF Discoveries
      <3>3. QED
        BY <2>1, <3>1, <3>2, ClueStep
    <2> HIDE DEF y
    <2>4. CluesAreIn(y, known \union Discoveries(d))
      BY <2>3 DEF CluesAreIn
    <2>5. QED
      BY <2>2, <2>4 DEF y
  <1>3. PICK u \in S : IsWorld(u) /\ Same(u, v, {"version"})
    <2> HIDE DEF S
    <2>1. QED
      BY <1>1, <1>2, ReduceStays
  <1>4. v.clues = u.clues
    BY <1>3 DEF Same, Fields
  <1>5. QED
    BY <1>3, <1>4 DEF CluesAreIn

\* A secret that a new player-known fact spells out is one that it cites.
LEMMA SecretsAreLeaks ==
    ASSUME NEW w, SecretsStand(w), NEW says, NEW s \in says \intersect Secrets
    PROVE  \E g \in Leaked(w, says) : g.id = s
  <1>1. PICK i \in DOMAIN SecretList : s = SecretList[i]
    BY DEF Secrets, Range
  <1>2. SecretFact(i) \in Range(w.facts)
    BY DEF SecretsStand, Range
  <1>3. /\ SecretFact(i).vis = "gm" /\ SecretFact(i).says = {s} /\ SecretFact(i).id = s
    BY <1>1 DEF SecretFact
  <1>4. SecretFact(i) \in Leaked(w, says)
    BY <1>2, <1>3 DEF Leaked, GmFacts
  <1>5. QED
    BY <1>3, <1>4

\* A clue that proves a fact is on record.
LEMMA ProofIsKnown ==
    ASSUME NEW w, NEW d, NEW f, NEW known, CluesAreIn(w, known),
           ProofInWorld(w, f) \/ ProofInDelta(w, d, f)
    PROVE  \E k \in known \union Discoveries(d) : f.cites \subseteq k.links /\ f.proof \in k.proves
  <1> DEFINE Record(k) == [links |-> k.links, proves |-> k.proves]
  <1>1. ASSUME NEW k \in Range(w.clues), Covers(k, f.cites, f.proof)
        PROVE  \E r \in known : f.cites \subseteq r.links /\ f.proof \in r.proves
    <2>1. Record(k) \in known
      BY <1>1 DEF CluesAreIn, Range
    <2>2. f.cites \subseteq Record(k).links /\ f.proof \in Record(k).proves
      BY <1>1 DEF Covers
    <2>3. QED
      BY <2>1, <2>2
  <1>2. ASSUME NEW c \in In(d, "clue", "Discovered"), Covers(c.clue, f.cites, f.proof)
        PROVE  \E r \in Discoveries(d) : f.cites \subseteq r.links /\ f.proof \in r.proves
    <2>1. Record(c.clue) \in Discoveries(d)
      BY DEF Discoveries
    <2>2. f.cites \subseteq Record(c.clue).links /\ f.proof \in Record(c.clue).proves
      BY <1>2 DEF Covers
    <2>3. QED
      BY <2>1, <2>2
  <1>3. QED
    BY <1>1, <1>2 DEF ProofInWorld, ProofInDelta

RevealInv == SecretsStand(stored) /\ CluesAreIn(stored, linked) /\ RevealsWereLinked

LEMMA RevealInit == Init => RevealInv
  <1> SUFFICES ASSUME Init PROVE RevealInv
    OBVIOUS
  <1>1. PICK npcs \in [Npcs -> FirstNpcStates] : stored = InitialWorld(npcs)
    BY DEF Init
  <1>2. SecretsStand(stored) /\ PlayerFacts(stored) = {}
    BY <1>1, InitialFacts
  <1>3. stored.clues = <<>>
    BY <1>1 DEF InitialWorld
  <1>4. QED
    BY <1>2, <1>3 DEF RevealInv, CluesAreIn, RevealsWereLinked

LEMMA RevealNext == TypeOK /\ RevealInv /\ [Next]_vars => RevealInv'
  <1> SUFFICES ASSUME TypeOK, RevealInv, [Next]_vars PROVE RevealInv'
    OBVIOUS
  <1>1. CASE Persist
    <2>1. PICK d \in Deltas[topic] :
             /\ Valid(stored, d)
             /\ stored' = Reduce(stored, d)
             /\ linked' = linked \union Discoveries(d)
      BY <1>1 DEF Persist, Discoveries
    <2>2. d \in Seq(Applicable) /\ IsWorld(stored)
      BY <2>1, PersistTypes
    <2>3. SecretsStand(stored')
      BY <2>1, <2>2, SecretsKeepStanding DEF RevealInv
    <2>4. CluesAreIn(stored', linked')
      BY <2>1, <2>2, CluesStayIn DEF RevealInv
    <2>5. ASSUME NEW f \in PlayerFacts(stored'), f.says \intersect Secrets # {}
          PROVE  \E k \in linked' : f.says \intersect Secrets \subseteq k.links /\ f.proof \in k.proves
      <3>1. CASE f \in PlayerFacts(stored)
        BY <2>1, <2>5, <3>1 DEF RevealInv, RevealsWereLinked
      <3>2. CASE f \notin PlayerFacts(stored)
        <4>1. PICK c \in Range(d) : Makes(c, f) /\ f.vis = "player"
          BY <2>1, <2>2, <3>2, NewFactsAreMade
        <4>2. \A s \in f.says \intersect Secrets : s \in f.cites
          BY <2>1, <4>1, SecretsAreLeaks, LeaksAreProved DEF RevealInv
        <4>3. PICK s : s \in f.says \intersect Secrets
          BY <2>5
        <4>4. PICK g \in Leaked(stored, f.says) : g.id = s
          BY <4>3, SecretsAreLeaks DEF RevealInv
        <4>5. ProofInWorld(stored, f) \/ ProofInDelta(stored, d, f)
          BY <2>1, <4>1, <4>4, LeaksAreProved
        <4>6. PICK k \in linked' : f.cites \subseteq k.links /\ f.proof \in k.proves
          BY <2>1, <4>5, ProofIsKnown DEF RevealInv
        <4>7. QED
          BY <4>2, <4>6
      <3>3. QED
        BY <3>1, <3>2
    <2>6. RevealsWereLinked'
      BY <2>5 DEF RevealsWereLinked
    <2>7. QED
      BY <2>3, <2>4, <2>6 DEF RevealInv
  <1>2. CASE Narrate \/ Abandon \/ UNCHANGED vars
    BY <1>2 DEF Narrate, Abandon, vars, RevealInv, RevealsWereLinked
  <1>3. QED
    BY <1>1, <1>2 DEF Next

(* Behind every reveal there is a clue that a turn discovered, linked to   *)
(* all the secrets the fact spells out (SecretFlow!RevealsWereLinked).     *)
(* This needs that the scenario's secrets stay among the GM-only facts, so *)
(* that spelling one out is always a leak, and that no clue gets into a    *)
(* world but by a discovery.                                               *)
THEOREM RevealsHaveClues == Spec => []RevealsWereLinked
  <1>1. Init => TypeOK /\ RevealInv
    BY TypeInit, RevealInit
  <1>2. TypeOK /\ RevealInv /\ [Next]_vars => (TypeOK /\ RevealInv)'
    BY TypeNext, RevealNext
  <1>3. RevealInv => RevealsWereLinked
    BY DEF RevealInv
  <1>4. QED
    BY <1>1, <1>2, <1>3, PTL DEF Spec

-----------------------------------------------------------------------------
(* Secrecy.                                                                *)

\* Of a change, what slips past the validator is among texts.
SlipsInto(c, texts) ==
    /\ Unchecked(c) /\ "says" \in DOMAIN c => c.says \subseteq texts
    /\ c.of = "clue" /\ c.kind = "Discovered" => c.clue.text \subseteq texts

LEMMA SlipsAre ==
    ASSUME NEW d, NEW c \in Range(d)
    PROVE  SlipsInto(c, Slips(d))
  BY DEF SlipsInto, Slips, In

LEMMA UncheckedTexts ==
    ASSUME NEW c \in Change, NEW texts, SlipsInto(c, texts)
    PROVE  /\ c.of \in {"summary", "event"} => c.says \subseteq texts
           /\ c.of = "memory" /\ c.kind = "Added" /\ c.shown => c.says \subseteq texts
           /\ c.of = "action" /\ c.shown => c.says \subseteq texts
           /\ c.of = "player" /\ c.kind \in DOMAIN SheetSort /\ c.shown => c.says \subseteq texts
           /\ c.of = "npc" /\ c.kind = "AttitudeChanged" => c.says \subseteq texts
           /\ c.of = "npc" /\ c.kind = "OffscreenActionRecorded" /\ c.shown => c.says \subseteq texts
           /\ (c.of = "faction" /\ c.kind \in {"GoalRevealed", "PublicNoteAdded", "PublicPressureNoteAdded"})
                  => c.says \subseteq texts
           /\ c.of = "relationship" /\ c.kind = "NoteAdded" => c.says \subseteq texts
           /\ c.of = "clue" /\ c.kind = "Discovered" => c.clue.text \subseteq texts
  <1>1. CASE c.of \in {"summary", "event"}
    <2>1. "says" \in DOMAIN c
      BY <1>1, ChangeOfSection DEF OneOff
    <2>2. QED
      BY <1>1, <2>1 DEF SlipsInto, Unchecked
  <1>2. CASE c.of = "memory"
    <2>1. c.kind = "Added" => "says" \in DOMAIN c /\ "shown" \in DOMAIN c
      BY <1>2, ChangeOfSection DEF MemoryChange
    <2>2. QED
      BY <1>2, <2>1 DEF SlipsInto, Unchecked
  <1>3. CASE c.of = "action"
    <2>1. "says" \in DOMAIN c /\ "shown" \in DOMAIN c
      BY <1>3, ChangeOfSection DEF ActionChange
    <2>2. QED
      BY <1>3, <2>1 DEF SlipsInto, Unchecked
  <1>4. CASE c.of = "player"
    <2>1. c.kind \in DOMAIN SheetSort => "says" \in DOMAIN c /\ "shown" \in DOMAIN c
      BY <1>4, ChangeOfSection DEF PlayerChange, SheetSort
    <2>2. QED
      BY <1>4, <2>1 DEF SlipsInto, Unchecked
  <1>5. CASE c.of = "npc"
    <2>1. c.kind \in {"AttitudeChanged", "OffscreenActionRecorded"} => "says" \in DOMAIN c
      BY <1>5, ChangeOfSection DEF NpcChange
    <2>2. QED
      BY <1>5, <2>1 DEF SlipsInto, Unchecked
  <1>6. CASE c.of = "faction"
    <2>1. c.kind \in {"GoalRevealed", "PublicNoteAdded", "PublicPressureNoteAdded"} => "says" \in DOMAIN c
      BY <1>6, ChangeOfSection DEF FactionChange
    <2>2. QED
      BY <1>6, <2>1 DEF SlipsInto, Unchecked
  <1>7. CASE c.of = "relationship"
    <2>1. c.kind = "NoteAdded" => "says" \in DOMAIN c
      BY <1>7, ChangeOfSection DEF RelationshipChange
    <2>2. QED
      BY <1>7, <2>1 DEF SlipsInto, Unchecked
  <1>8. CASE c.of = "clue"
    BY <1>8 DEF SlipsInto
  <1>9. QED
    BY <1>1, <1>2, <1>3, <1>4, <1>5, <1>6, <1>7, <1>8

\* A change adds no text to those that nobody checks but the ones that slip into them.
LEMMA ApplySpoken ==
    ASSUME NEW w, IsWorld(w), NEW c \in Applicable, NEW v, v = Apply(w, c),
           NEW texts, SpokenIn(w, texts), SlipsInto(c, texts)
    PROVE  SpokenIn(v, texts)
  <1>0. c \in Change /\ IsWorld(v)
    BY ApplyKeeps DEF Applicable
  <1>1. v.summary \subseteq texts
    <2>1. CASE c.of = "summary"
      <3>1. v.summary = c.says
        BY <1>0, <2>1, ChangeOfSection, OneOffKeeps
      <3>2. QED
        BY <1>0, <2>1, <3>1, UncheckedTexts
    <2>2. CASE c.of # "summary"
      BY <2>2, Untouched DEF SpokenIn
    <2>3. QED
      BY <2>1, <2>2
  <1>2. v.events \subseteq texts
    <2>1. CASE c.of = "event"
      <3>1. v.events = w.events \union c.says
        BY <1>0, <2>1, ChangeOfSection, OneOffKeeps
      <3>2. QED
        BY <1>0, <2>1, <3>1, UncheckedTexts DEF SpokenIn
    <2>2. CASE c.of # "event"
      BY <2>2, Untouched DEF SpokenIn
    <2>3. QED
      BY <2>1, <2>2
  <1>3. ASSUME NEW n \in Npcs
        PROVE  /\ v.npcs[n].attitude \subseteq texts
               /\ \A deed \in v.npcs[n].deeds : deed.shown => deed.says \subseteq texts
    <2>1. /\ w.npcs[n].attitude \subseteq texts
          /\ \A deed \in w.npcs[n].deeds : deed.shown => deed.says \subseteq texts
      BY DEF SpokenIn
    <2>2. v.npcs[n].attitude \subseteq texts
      BY <1>0, <2>1, NpcSays, UncheckedTexts
    <2>3. ASSUME NEW deed \in v.npcs[n].deeds, deed.shown
          PROVE  deed.says \subseteq texts
      <3>1. CASE deed \in w.npcs[n].deeds
        BY <2>1, <2>3, <3>1
      <3>2. CASE /\ c.of = "npc" /\ c.kind = "OffscreenActionRecorded"
                 /\ deed.says = c.says /\ deed.shown = c.shown
        BY <1>0, <2>3, <3>2, UncheckedTexts
      <3>3. QED
        BY <3>1, <3>2, NpcSays
    <2>4. QED
      BY <2>2, <2>3
  <1>4. ASSUME NEW f \in Factions
        PROVE  v.factions[f].notes \union v.factions[f].pressure \subseteq texts
    <2>1. w.factions[f].notes \union w.factions[f].pressure \subseteq texts
      BY DEF SpokenIn
    <2>2. v.factions[f].notes \subseteq texts
      <3>1. CASE v.factions[f].notes = w.factions[f].notes
        BY <2>1, <3>1
      <3>2. CASE /\ c.of = "faction" /\ c.kind \in {"GoalRevealed", "PublicNoteAdded"}
                 /\ v.factions[f].notes = w.factions[f].notes \union c.says
        <4>1. c.says \subseteq texts
          BY <1>0, <3>2, UncheckedTexts
        <4>2. QED
          BY <2>1, <3>2, <4>1
      <3>3. QED
        BY <3>1, <3>2, FactionStep
    <2>3. v.factions[f].pressure \subseteq texts
      <3>1. CASE v.factions[f].pressure = w.factions[f].pressure
        BY <2>1, <3>1
      <3>2. CASE /\ c.of = "faction" /\ c.kind = "PublicPressureNoteAdded"
                 /\ v.factions[f].pressure = w.factions[f].pressure \union c.says
        <4>1. c.says \subseteq texts
          BY <1>0, <3>2, UncheckedTexts
        <4>2. QED
          BY <2>1, <3>2, <4>1
      <3>3. QED
        BY <3>1, <3>2, FactionStep
    <2>4. QED
      BY <2>2, <2>3
  <1>5. ASSUME NEW p \in DOMAIN v.bonds
        PROVE  v.bonds[p].notes \subseteq texts
    <2>1. CASE p \in DOMAIN w.bonds /\ v.bonds[p] = w.bonds[p]
      BY <2>1 DEF SpokenIn
    <2>2. CASE /\ c.of = "relationship"
               /\ v.bonds[p].notes = Bond(w, p).notes \union (IF c.kind = "NoteAdded" THEN c.says ELSE {})
      <3>1. c.kind = "NoteAdded" => c.says \subseteq texts
        BY <1>0, <2>2, UncheckedTexts
      <3>2. Bond(w, p).notes \subseteq texts
        BY DEF SpokenIn, Bond
      <3>3. QED
        BY <2>2, <3>1, <3>2
    <2>3. QED
      BY <2>1, <2>2, BondStep
  <1>6. ASSUME NEW i \in DOMAIN v.memories, v.memories[i].shown
        PROVE  v.memories[i].says \subseteq texts
    <2>1. CASE c.of # "memory"
      BY <1>6, <2>1, Untouched DEF SpokenIn, Entries
    <2>2. CASE c.of = "memory"
      <3>1. c \in MemoryChange /\ v = ApplyMemory(w, c) /\ c.weight <= MaxWeight
        BY <1>0, <2>2, ChangeOfSection, ApplyIs DEF Applicable
      <3>2. CASE /\ i \in DOMAIN w.memories
                 /\ v.memories[i].says = w.memories[i].says
                 /\ v.memories[i].shown = w.memories[i].shown
        BY <1>6, <3>2 DEF SpokenIn, Entries
      <3>3. CASE /\ c.kind = "Added"
                 /\ v.memories[i].says = c.says
                 /\ v.memories[i].shown = c.shown
        BY <1>0, <1>6, <2>2, <3>3, UncheckedTexts
      <3>4. QED
        BY <3>1, <3>2, <3>3, MemoryKeeps
    <2>3. QED
      BY <2>1, <2>2
  <1>7. ASSUME NEW i \in DOMAIN v.actions, v.actions[i].shown
        PROVE  v.actions[i].says \subseteq texts
    <2>1. CASE c.of # "action"
      BY <1>7, <2>1, Untouched DEF SpokenIn, Entries
    <2>2. CASE c.of = "action"
      <3>1. c \in ActionChange /\ v = ApplyAction(w, c)
        BY <1>0, <2>2, ChangeOfSection, ApplyIs
      <3>2. CASE i \in DOMAIN w.actions /\ v.actions[i] = w.actions[i]
        BY <1>7, <3>2 DEF SpokenIn, Entries
      <3>3. CASE v.actions[i].says = c.says /\ v.actions[i].shown = c.shown
        BY <1>0, <1>7, <2>2, <3>3, UncheckedTexts
      <3>4. QED
        BY <3>1, <3>2, <3>3, ActionKeeps
    <2>3. QED
      BY <2>1, <2>2
  <1>8. ASSUME NEW i \in DOMAIN v.sheet, v.sheet[i].shown
        PROVE  v.sheet[i].says \subseteq texts
    <2>1. CASE c.of # "player"
      BY <1>8, <2>1, Untouched DEF SpokenIn, Entries
    <2>2. CASE c.of = "player"
      <3>1. c \in PlayerChange /\ v = ApplyPlayer(w, c) /\ c.kind # "ResourceChanged"
        BY <1>0, <2>2, ChangeOfSection, ApplyIs DEF Applicable
      <3>2. CASE \E j \in DOMAIN w.sheet : /\ v.sheet[i].says = w.sheet[j].says
                                           /\ v.sheet[i].shown = w.sheet[j].shown
        BY <1>8, <3>2 DEF SpokenIn, Entries
      <3>3. CASE /\ c.kind \in DOMAIN SheetSort
                 /\ v.sheet[i].says = c.says
                 /\ v.sheet[i].shown = c.shown
        BY <1>0, <1>8, <2>2, <3>3, UncheckedTexts
      <3>4. QED
        BY <3>1, <3>2, <3>3, PlayerKeeps
    <2>3. QED
      BY <2>1, <2>2
  <1>9. ASSUME NEW i \in DOMAIN v.clues
        PROVE  v.clues[i].text \subseteq texts
    <2>1. CASE i \in DOMAIN w.clues /\ v.clues[i].text = w.clues[i].text
      BY <2>1 DEF SpokenIn
    <2>2. CASE c.of = "clue" /\ c.kind = "Discovered" /\ v.clues[i] = c.clue
      BY <1>0, <2>2, UncheckedTexts
    <2>3. QED
      BY <2>1, <2>2, ClueStep
  <1>10. QED
    BY <1>1, <1>2, <1>3, <1>4, <1>5, <1>6, <1>7, <1>8, <1>9 DEF SpokenIn, Entries

LEMMA ReduceSpoken ==
    ASSUME NEW w, IsWorld(w), NEW d \in Seq(Applicable), NEW v, v = Reduce(w, d),
           NEW texts, SpokenIn(w, texts)
    PROVE  SpokenIn(v, texts \union Slips(d))
  <1> DEFINE all == texts \union Slips(d)
  <1> DEFINE S == {x \in Worlds : SpokenIn(x, all)}
  <1>1. w \in S
    <2>1. SpokenIn(w, all)
      BY DEF SpokenIn, Entries
    <2> HIDE DEF all
    <2>2. QED
      BY <2>1, WorldsAreWorlds
  <1>2. ASSUME NEW x \in Worlds, NEW i \in 1..Len(d), x \in S, x.version = w.version
        PROVE  Apply(x, d[i]) \in S
    <2>1. d[i] \in Applicable /\ IsWorld(x) /\ d[i] \in Range(d)
      BY WorldsAreWorlds DEF Range
    <2>2. SlipsInto(d[i], all)
      BY <2>1, SlipsAre DEF SlipsInto
    <2> HIDE DEF all
    <2>3. SpokenIn(Apply(x, d[i]), all)
      BY <1>2, <2>1, <2>2, ApplySpoken
    <2>4. QED
      BY <2>1, <2>3, ApplyKeeps, WorldsAreWorlds
  <1> HIDE DEF all
  <1>3. PICK u \in S : IsWorld(u) /\ Same(u, v, {"version"})
    <2> HIDE DEF S
    <2>1. QED
      BY <1>1, <1>2, ReduceStays
  <1>4. /\ v.summary = u.summary /\ v.events = u.events /\ v.npcs = u.npcs /\ v.factions = u.factions
        /\ v.bonds = u.bonds /\ v.memories = u.memories /\ v.actions = u.actions /\ v.sheet = u.sheet
        /\ v.clues = u.clues
    BY <1>3 DEF Same, Fields
  <1>5. SpokenIn(v, all)
    <2>1. SpokenIn(u, all)
      BY <1>3
    <2>2. QED
      BY <1>4, <2>1 DEF SpokenIn
  <1>6. QED
    BY <1>5 DEF all

\* What was revealed once stays revealed.
LEMMA RevealsStay ==
    ASSUME NEW w, IsWorld(w), NEW d \in Seq(Applicable), NEW v, v = Reduce(w, d)
    PROVE  Says(PlayerFacts(w)) \subseteq Says(PlayerFacts(v))
  <1>1. FactsGrow(w.facts, v.facts, d, w.version + 1)
    BY ReduceFacts
  <1>2. IsWorld(v)
    BY ReduceKeeps
  <1>3. w.facts \in Seq(Fact) /\ v.facts \in Seq(Fact)
    BY <1>2 DEF IsWorld, WorldOf
  <1>4. PlayerFacts(w) \subseteq PlayerFacts(v)
    <2> SUFFICES ASSUME NEW f \in PlayerFacts(w) PROVE f \in PlayerFacts(v)
      OBVIOUS
    <2>1. PICK i \in 1..Len(w.facts) : f = w.facts[i] /\ f.vis = "player"
      BY <1>3 DEF PlayerFacts, Range
    <2>2. i \in DOMAIN v.facts /\ v.facts[i] = f
      BY <1>1, <1>3, <2>1 DEF FactsGrow
    <2>3. QED
      BY <2>1, <2>2 DEF PlayerFacts, Range
  <1>5. QED
    BY <1>4 DEF Says

\* All that has been said, in or about the session, was revealed or has slipped.
SecrecyInv ==
    /\ SpokenIn(stored, slipped)
    /\ told \subseteq Revealed \union slipped
    /\ response \subseteq Revealed \union slipped
    /\ UNION Range(messages) \subseteq Revealed \union slipped

LEMMA InitialSpoken ==
    ASSUME NEW npcs \in [Npcs -> FirstNpcStates]
    PROVE  SpokenIn(InitialWorld(npcs), {})
  <1> DEFINE w == InitialWorld(npcs)
  <1>1. /\ w.summary = {} /\ w.events = {} /\ w.memories = <<>> /\ w.actions = <<>> /\ w.sheet = <<>>
        /\ w.clues = <<>> /\ w.bonds = <<>> /\ w.npcs = npcs
        /\ w.factions = [f \in Factions |->
                            [since |-> 0, notes |-> {}, pressure |-> {}, hiddenPressure |-> {}]]
    BY DEF InitialWorld
  <1> HIDE DEF w
  <1>2. \A n \in Npcs : w.npcs[n].attitude = {} /\ w.npcs[n].deeds = {}
    <2>1. \A npc \in FirstNpcStates : npc.attitude = {} /\ npc.deeds = {}
      BY DEF FirstNpcStates
    <2>2. QED
      BY <1>1, <2>1
  <1>3. \A f \in Factions : w.factions[f].notes = {} /\ w.factions[f].pressure = {}
    BY <1>1
  <1>4. SpokenIn(w, {})
    BY <1>1, <1>2, <1>3 DEF SpokenIn, Entries
  <1>5. QED
    BY <1>4 DEF w

LEMMA SecrecyInit == Init => SecrecyInv
  <1> SUFFICES ASSUME Init PROVE SecrecyInv
    OBVIOUS
  <1>1. SpokenIn(stored, slipped) /\ IsWorld(stored)
    BY InitialSpoken, InitialIsWorld DEF Init
  <1>2. OpeningIntro(stored) \subseteq Revealed \union slipped
    BY <1>1, PlayerIsShown DEF OpeningIntro, Revealed
  <1>3. UNION Range(messages) \subseteq Revealed \union slipped
    <2>1. messages = <<OpeningIntro(stored)>>
      BY DEF Init
    <2>2. Range(messages) = {OpeningIntro(stored)}
      BY <2>1 DEF Range
    <2>3. QED
      BY <1>2, <2>2
  <1>4. QED
    BY <1>1, <1>3 DEF Init, SecrecyInv

LEMMA SecrecyNext == TypeOK /\ SecrecyInv /\ [Next]_vars => SecrecyInv'
  <1> SUFFICES ASSUME TypeOK, SecrecyInv, [Next]_vars PROVE SecrecyInv'
    OBVIOUS
  <1>1. CASE Narrate
    <2>1. PrepareTurnContext \subseteq Revealed \union slipped
      <3>1. PrepareTurnContext \subseteq Says(PlayerFacts(stored)) \union slipped \union UNION Range(messages)
        BY NarratorIsTold DEF PrepareTurnContext, TypeOK, SecrecyInv
      <3>2. QED
        BY <3>1 DEF SecrecyInv, Revealed
    <2>2. Revealed' = Revealed /\ slipped' = slipped
      BY <1>1 DEF Narrate, Revealed
    <2>3. QED
      BY <1>1, <2>1, <2>2 DEF Narrate, SecrecyInv
  <1>2. CASE Persist
    <2>1. PICK d \in Deltas[topic] :
             Valid(stored, d) /\ stored' = Reduce(stored, d) /\ slipped' = slipped \union Slips(d)
      BY <1>2 DEF Persist
    <2>2. d \in Seq(Applicable) /\ IsWorld(stored)
      BY <2>1, PersistTypes
    <2>3. SpokenIn(stored', slipped')
      BY <2>1, <2>2, ReduceSpoken DEF SecrecyInv
    <2>4. Revealed \union slipped \subseteq Revealed' \union slipped'
      BY <2>1, <2>2, RevealsStay DEF Revealed
    <2>5. UNION Range(messages') \subseteq (UNION Range(messages)) \union response
      <3>1. messages' = messages \o <<{}, response>> /\ messages \in Seq(Text)
        BY <1>2 DEF Persist, TypeOK
      <3>2. \A i \in DOMAIN messages' : messages'[i] \in Range(messages) \/ messages'[i] \in {{}, response}
        BY <3>1 DEF Range
      <3>3. Range(messages') \subseteq Range(messages) \union {{}, response}
        BY <3>2 DEF Range
      <3>4. QED
        BY <3>3
    <2>6. response' = {} /\ told' = told
      BY <1>2 DEF Persist
    <2>7. QED
      BY <2>3, <2>4, <2>5, <2>6 DEF SecrecyInv
  <1>3. CASE Abandon
    BY <1>3 DEF Abandon, SecrecyInv, Revealed
  <1>4. CASE UNCHANGED vars
    BY <1>4 DEF vars, SecrecyInv, Revealed
  <1>5. QED
    BY <1>1, <1>2, <1>3, <1>4 DEF Next

(* The secrecy boundary, through any number of turns                       *)
(* (SecretFlow!SecretsStayHidden): the narrator's prompts and the player's *)
(* view spell out nothing but revealed facts and what the extractor's own  *)
(* unchecked words to the player have said before.                         *)
THEOREM SecretsAreKept == Spec => []SecretsStayHidden
  <1>1. Init => TypeOK /\ SecrecyInv
    BY TypeInit, SecrecyInit
  <1>2. TypeOK /\ SecrecyInv /\ [Next]_vars => (TypeOK /\ SecrecyInv)'
    BY TypeNext, SecrecyNext
  <1>3. TypeOK /\ SecrecyInv => SecretsStayHidden
    <2> SUFFICES ASSUME TypeOK, SecrecyInv PROVE SecretsStayHidden
      OBVIOUS
    <2>1. SpeltTo(stored, FALSE) \subseteq Says(PlayerFacts(stored)) \union slipped
      BY PlayerIsShown DEF TypeOK, SecrecyInv
    <2>2. QED
      BY <2>1 DEF SecrecyInv, SecretsStayHidden, Revealed
  <1>4. QED
    BY <1>1, <1>2, <1>3, PTL DEF Spec

-----------------------------------------------------------------------------
(* Ids.                                                                    *)

\* Memories and resolutions are named by their places.
Numbered(list) == \A i \in DOMAIN list : list[i].id[2] = i

LEMMA NumberedIsInjective ==
    ASSUME NEW list, Numbered(list)
    PROVE  IsInjective([i \in DOMAIN list |-> list[i].id])
  BY DEF Numbered, IsInjective

\* What an NPC is said to know is a fact that names it.
KnownFacts(w) ==
    \A n \in Npcs : \A id \in w.npcs[n].knows :
        \E f \in Range(w.facts) : f.id = id /\ n \in f.knownBy

LEMMA ApplyNumbers ==
    ASSUME NEW w, IsWorld(w), NEW c \in Applicable, NEW v, v = Apply(w, c),
           Numbered(w.memories), Numbered(w.actions)
    PROVE  Numbered(v.memories) /\ Numbered(v.actions)
  <1>1. ASSUME NEW i \in DOMAIN v.memories
        PROVE  v.memories[i].id[2] = i
    <2>1. CASE c.of # "memory"
      BY <2>1, Untouched DEF Numbered
    <2>2. CASE c.of = "memory"
      <3>1. c \in MemoryChange /\ v = ApplyMemory(w, c) /\ c.weight <= MaxWeight
        BY <2>2, ChangeOfSection, ApplyIs DEF Applicable
      <3>2. CASE i \in DOMAIN w.memories /\ v.memories[i].id = w.memories[i].id
        BY <3>2 DEF Numbered
      <3>3. CASE i = Len(w.memories) + 1 /\ v.memories[i].id = Mint(w, w.memories)
        BY <3>3 DEF Mint
      <3>4. QED
        BY <3>1, <3>2, <3>3, MemoryKeeps
    <2>3. QED
      BY <2>1, <2>2
  <1>2. ASSUME NEW i \in DOMAIN v.actions
        PROVE  v.actions[i].id[2] = i
    <2>1. CASE c.of # "action"
      BY <2>1, Untouched DEF Numbered
    <2>2. CASE c.of = "action"
      <3>1. c \in ActionChange /\ v = ApplyAction(w, c)
        BY <2>2, ChangeOfSection, ApplyIs DEF Applicable
      <3>2. CASE i \in DOMAIN w.actions /\ v.actions[i] = w.actions[i]
        BY <3>2 DEF Numbered
      <3>3. CASE i = Len(w.actions) + 1 /\ v.actions[i].id = Mint(w, w.actions)
        BY <3>3 DEF Mint
      <3>4. QED
        BY <3>1, <3>2, <3>3, ActionKeeps
    <2>3. QED
      BY <2>1, <2>2
  <1>3. QED
    BY <1>1, <1>2 DEF Numbered

LEMMA ApplyKnows ==
    ASSUME NEW w, IsWorld(w), NEW c \in Applicable, NEW v, v = Apply(w, c), KnownFacts(w)
    PROVE  KnownFacts(v)
  <1>0. w.facts \in Seq(Fact)
    BY DEF IsWorld, WorldOf
  <1>1. Range(w.facts) \subseteq Range(v.facts)
    <2>1. CASE v.facts = w.facts
      BY <2>1
    <2>2. CASE \E f \in Fact : v.facts = Append(w.facts, f)
      <3>1. PICK f \in Fact : v.facts = Append(w.facts, f)
        BY <2>2
      <3>2. \A i \in DOMAIN w.facts : i \in DOMAIN v.facts /\ v.facts[i] = w.facts[i]
        BY <1>0, <3>1
      <3>3. QED
        BY <3>2 DEF Range
    <2>3. QED
      BY <2>1, <2>2, FactsStep
  <1>2. ASSUME NEW n \in Npcs, NEW id \in v.npcs[n].knows
        PROVE  \E f \in Range(v.facts) : f.id = id /\ n \in f.knownBy
    <2>1. CASE id \in w.npcs[n].knows
      BY <1>1, <2>1 DEF KnownFacts
    <2>2. CASE id \notin w.npcs[n].knows
      <3>1. v.npcs[n].knows # w.npcs[n].knows
        BY <2>2
      <3>2. PICK f \in Fact : /\ v.facts = Append(w.facts, f)
                              /\ n \in f.knownBy
                              /\ v.npcs[n].knows = w.npcs[n].knows \union {f.id}
        BY <3>1, NpcLearns
      <3>3. f \in Range(v.facts)
        <4>1. Len(w.facts) + 1 \in DOMAIN v.facts /\ v.facts[Len(w.facts) + 1] = f
          BY <1>0, <3>2
        <4>2. QED
          BY <4>1 DEF Range
      <3>4. id = f.id
        BY <2>2, <3>2
      <3>5. QED
        BY <3>2, <3>3, <3>4
    <2>3. QED
      BY <2>1, <2>2
  <1>3. QED
    BY <1>2 DEF KnownFacts

LEMMA ReduceIds ==
    ASSUME NEW w, IsWorld(w), NEW d \in Seq(Applicable), NEW v, v = Reduce(w, d),
           Numbered(w.memories), Numbered(w.actions), KnownFacts(w)
    PROVE  Numbered(v.memories) /\ Numbered(v.actions) /\ KnownFacts(v)
  <1> DEFINE S == {x \in Worlds : Numbered(x.memories) /\ Numbered(x.actions) /\ KnownFacts(x)}
  <1>1. w \in S
    BY WorldsAreWorlds
  <1>2. ASSUME NEW x \in Worlds, NEW i \in 1..Len(d), x \in S, x.version = w.version
        PROVE  Apply(x, d[i]) \in S
    <2>1. d[i] \in Applicable /\ IsWorld(x)
      BY WorldsAreWorlds
    <2>2. QED
      BY <1>2, <2>1, ApplyKeeps, WorldsAreWorlds, ApplyNumbers, ApplyKnows
  <1>3. PICK u \in S : IsWorld(u) /\ Same(u, v, {"version"})
    <2> HIDE DEF S
    <2>1. QED
      BY <1>1, <1>2, ReduceStays
  <1>4. v.facts = u.facts /\ v.npcs = u.npcs /\ v.memories = u.memories /\ v.actions = u.actions
    BY <1>3 DEF Same, Fields
  <1>5. QED
    BY <1>3, <1>4 DEF KnownFacts

\* The facts that turns add are named by their places.
AddedFactsAreNumbered(w) ==
    \A i \in (Len(SecretList) + 1)..Len(w.facts) : w.facts[i].id \in Minted /\ w.facts[i].id[2] = i

LEMMA FactsKeepNumbers ==
    ASSUME NEW w, IsWorld(w), AddedFactsAreNumbered(w), NEW d \in Seq(Applicable), NEW v, v = Reduce(w, d)
    PROVE  AddedFactsAreNumbered(v)
  <1>1. FactsGrow(w.facts, v.facts, d, w.version + 1)
    BY ReduceFacts
  <1>2. IsWorld(v)
    BY ReduceKeeps
  <1>3. w.facts \in Seq(Fact) /\ v.facts \in Seq(Fact) /\ w.version \in Nat
    BY <1>2 DEF IsWorld, WorldOf
  <1>4. Len(SecretList) \in Nat
    BY ScenarioLists
  <1>5. ASSUME NEW i \in (Len(SecretList) + 1)..Len(v.facts)
        PROVE  v.facts[i].id \in Minted /\ v.facts[i].id[2] = i
    <2>1. CASE i <= Len(w.facts)
      <3>1. v.facts[i] = w.facts[i] /\ i \in (Len(SecretList) + 1)..Len(w.facts)
        BY <1>1, <1>3, <1>4, <2>1 DEF FactsGrow
      <3>2. QED
        BY <3>1 DEF AddedFactsAreNumbered
    <2>2. CASE i > Len(w.facts)
      <3>1. i \in (Len(w.facts) + 1)..Len(v.facts) /\ i \in Nat
        BY <1>3, <1>4, <2>2
      <3>2. v.facts[i].id = <<w.version + 1, i>>
        BY <1>1, <3>1 DEF FactsGrow
      <3>3. QED
        BY <1>3, <3>1, <3>2 DEF Minted
    <2>3. QED
      BY <1>3, <1>4, <2>1, <2>2
  <1>6. QED
    BY <1>5 DEF AddedFactsAreNumbered

IdInv ==
    /\ Numbered(stored.memories)
    /\ Numbered(stored.actions)
    /\ KnownFacts(stored)
    /\ SecretsStand(stored)
    /\ AddedFactsAreNumbered(stored)

LEMMA IdInit == Init => IdInv
  <1> SUFFICES ASSUME Init PROVE IdInv
    OBVIOUS
  <1>1. PICK npcs \in [Npcs -> FirstNpcStates] : stored = InitialWorld(npcs)
    BY DEF Init
  <1>2. stored.memories = <<>> /\ stored.actions = <<>> /\ stored.npcs = npcs
    BY <1>1 DEF InitialWorld
  <1>3. \A n \in Npcs : stored.npcs[n].knows = {}
    BY <1>2 DEF FirstNpcStates
  <1>4. SecretsStand(stored) /\ stored.facts = [i \in DOMAIN SecretList |-> SecretFact(i)]
    BY <1>1, InitialFacts
  <1>5. Len(stored.facts) = Len(SecretList) /\ Len(SecretList) \in Nat
    BY <1>4, ScenarioLists
  <1>6. AddedFactsAreNumbered(stored)
    BY <1>5 DEF AddedFactsAreNumbered
  <1>7. QED
    BY <1>2, <1>3, <1>4, <1>6 DEF IdInv, Numbered, KnownFacts

LEMMA IdNext == TypeOK /\ IdInv /\ [Next]_vars => IdInv'
  <1> SUFFICES ASSUME TypeOK, IdInv, [Next]_vars PROVE IdInv'
    OBVIOUS
  <1>1. CASE Persist
    <2>1. PICK d \in Deltas[topic] : Valid(stored, d) /\ stored' = Reduce(stored, d)
      BY <1>1 DEF Persist
    <2>2. d \in Seq(Applicable) /\ IsWorld(stored)
      BY <2>1, PersistTypes
    <2>3. Numbered(stored'.memories) /\ Numbered(stored'.actions) /\ KnownFacts(stored')
      BY <2>1, <2>2, ReduceIds DEF IdInv
    <2>4. SecretsStand(stored') /\ AddedFactsAreNumbered(stored')
      BY <2>1, <2>2, SecretsKeepStanding, FactsKeepNumbers DEF IdInv
    <2>5. QED
      BY <2>3, <2>4 DEF IdInv
  <1>2. CASE Narrate \/ Abandon \/ UNCHANGED vars
    BY <1>2 DEF Narrate, Abandon, vars, IdInv
  <1>3. QED
    BY <1>1, <1>2 DEF Next

(* Ids tell facts, memories and resolutions apart, and what an NPC is said *)
(* to know is a fact that names it (SecretFlow!IdsHold), in every session  *)
(* of a scenario none of whose secrets has an id of the form the reducer   *)
(* mints: the code does not check that, and its ids are strings.           *)
THEOREM IdsStayUnique ==
    ASSUME Secrets \intersect Minted = {}
    PROVE  Spec => []IdsHold
  <1>1. Init => TypeOK /\ IdInv
    BY TypeInit, IdInit
  <1>2. TypeOK /\ IdInv /\ [Next]_vars => (TypeOK /\ IdInv)'
    BY TypeNext, IdNext
  <1>3. TypeOK /\ IdInv => IdsHold
    <2> SUFFICES ASSUME TypeOK, IdInv PROVE IdsHold
      OBVIOUS
    <2> DEFINE ids == [i \in DOMAIN stored.facts |-> stored.facts[i].id]
    <2>1. stored.facts \in Seq(Fact) /\ Len(SecretList) \in Nat
      BY ScenarioLists DEF TypeOK, IsWorld, WorldOf
    <2>2. ASSUME NEW i \in DOMAIN stored.facts, i \in DOMAIN SecretList
          PROVE  stored.facts[i].id = SecretList[i] /\ SecretList[i] \in Secrets
      <3>1. stored.facts[i] = SecretFact(i)
        BY <2>2 DEF IdInv, SecretsStand
      <3>2. SecretFact(i).id = SecretList[i]
        BY DEF SecretFact
      <3>3. SecretList[i] \in Secrets
        BY <2>2 DEF Secrets, Range
      <3>4. QED
        BY <3>1, <3>2, <3>3
    <2>3. ASSUME NEW i \in DOMAIN stored.facts, i \notin DOMAIN SecretList
          PROVE  stored.facts[i].id \in Minted /\ stored.facts[i].id[2] = i
      <3>1. DOMAIN SecretList = 1..Len(SecretList)
        BY ScenarioLists
      <3>2. i \in (Len(SecretList) + 1)..Len(stored.facts)
        BY <2>1, <2>3, <3>1
      <3>3. QED
        BY <3>2 DEF IdInv, AddedFactsAreNumbered
    <2>4. ASSUME NEW i \in DOMAIN stored.facts, NEW j \in DOMAIN stored.facts,
                 stored.facts[i].id = stored.facts[j].id
          PROVE  i = j
      <3>1. CASE i \in DOMAIN SecretList /\ j \in DOMAIN SecretList
        BY <2>2, <2>4, <3>1, ScenarioLists DEF IsInjective
      <3>2. CASE i \notin DOMAIN SecretList /\ j \notin DOMAIN SecretList
        BY <2>3, <2>4, <3>2
      <3>3. CASE (i \in DOMAIN SecretList) # (j \in DOMAIN SecretList)
        BY <2>2, <2>3, <2>4, <3>3
      <3>4. QED
        BY <3>1, <3>2, <3>3
    <2>5. IsInjective(ids)
      BY <2>4 DEF IsInjective
    <2>6. QED
      BY <2>5, NumberedIsInjective DEF IdInv, IdsHold, KnownFacts
  <1>4. QED
    BY <1>1, <1>2, <1>3, PTL DEF Spec

-----------------------------------------------------------------------------
(* The scene.                                                              *)

\* Whoever is present is seen, or among who.
CastIsSeen(w, who) == \A n \in Npcs : w.npcs[n].present => w.npcs[n].shown \/ n \in who

LEMMA ApplyCast ==
    ASSUME NEW w, IsWorld(w), NEW d \in Seq(Applicable), NEW c \in Range(d), NEW v, v = Apply(w, c),
           NEW who, CastIsSeen(w, who), Summons(d) \subseteq who
    PROVE  CastIsSeen(v, who)
  <1>0. c \in Applicable
    BY DEF Range
  <1>1. ASSUME NEW n \in Npcs
        PROVE  v.npcs[n].present => v.npcs[n].shown \/ n \in who
    <2>1. /\ \/ v.npcs[n].present = w.npcs[n].present
             \/ /\ c.of = "npc" /\ c.kind = "AvailabilityChanged" /\ c.npc = n
                /\ v.npcs[n].present = c.present
          /\ \/ v.npcs[n].shown = w.npcs[n].shown
             \/ /\ c.of = "npc" /\ c.kind = "VisibilityChanged" /\ c.npc = n
                /\ v.npcs[n].shown = c.shown
      BY <1>0, NpcShows
    <2>2. CASE c.of = "npc" /\ c.kind = "AvailabilityChanged" /\ c.npc = n /\ v.npcs[n].present = c.present
      BY <2>2 DEF Summons
    <2>3. CASE c.of = "npc" /\ c.kind = "VisibilityChanged" /\ c.npc = n /\ v.npcs[n].shown = c.shown
      BY <2>3 DEF Summons
    <2>4. CASE v.npcs[n].present = w.npcs[n].present /\ v.npcs[n].shown = w.npcs[n].shown
      BY <2>4 DEF CastIsSeen
    <2>5. QED
      BY <2>1, <2>2, <2>3, <2>4
  <1>2. QED
    BY <1>1 DEF CastIsSeen

LEMMA ReduceCast ==
    ASSUME NEW w, IsWorld(w), NEW d \in Seq(Applicable), NEW v, v = Reduce(w, d),
           NEW who, CastIsSeen(w, who)
    PROVE  CastIsSeen(v, who \union Summons(d))
  <1> DEFINE all == who \union Summons(d)
  <1> DEFINE S == {x \in Worlds : CastIsSeen(x, all)}
  <1>1. w \in S
    BY WorldsAreWorlds DEF CastIsSeen
  <1>2. ASSUME NEW x \in Worlds, NEW i \in 1..Len(d), x \in S, x.version = w.version
        PROVE  Apply(x, d[i]) \in S
    <2>1. d[i] \in Applicable /\ IsWorld(x) /\ d[i] \in Range(d)
      BY WorldsAreWorlds DEF Range
    <2>2. CastIsSeen(Apply(x, d[i]), all)
      BY <1>2, <2>1, ApplyCast
    <2>3. QED
      BY <2>1, <2>2, ApplyKeeps, WorldsAreWorlds
  <1>3. PICK u \in S : IsWorld(u) /\ Same(u, v, {"version"})
    <2> HIDE DEF S
    <2>1. QED
      BY <1>1, <1>2, ReduceStays
  <1>4. v.npcs = u.npcs
    BY <1>3 DEF Same, Fields
  <1>5. QED
    BY <1>3, <1>4 DEF CastIsSeen

CastInv == CastIsSeen(stored, summoned)

LEMMA CastInit == Init => CastInv
  <1> SUFFICES ASSUME Init PROVE CastInv
    OBVIOUS
  <1>1. PICK npcs \in [Npcs -> FirstNpcStates] : stored.npcs = npcs
    BY DEF Init, InitialWorld
  <1>2. \A npc \in FirstNpcStates : npc.present => npc.shown
    BY DEF FirstNpcStates, FirstPresent
  <1>3. QED
    BY <1>1, <1>2 DEF CastInv, CastIsSeen

LEMMA CastNext == TypeOK /\ CastInv /\ [Next]_vars => CastInv'
  <1> SUFFICES ASSUME TypeOK, CastInv, [Next]_vars PROVE CastInv'
    OBVIOUS
  <1>1. CASE Persist
    <2>1. PICK d \in Deltas[topic] :
             Valid(stored, d) /\ stored' = Reduce(stored, d) /\ summoned' = summoned \union Summons(d)
      BY <1>1 DEF Persist
    <2>2. d \in Seq(Applicable) /\ IsWorld(stored)
      BY <2>1, PersistTypes
    <2>3. QED
      BY <2>1, <2>2, ReduceCast DEF CastInv
  <1>2. CASE Narrate \/ Abandon \/ UNCHANGED vars
    BY <1>2 DEF Narrate, Abandon, vars, CastInv
  <1>3. QED
    BY <1>1, <1>2 DEF Next

\* What the player sees of the people, quests, bonds and clocks of a scene is in the context.
LEMMA ContextHasTheScene ==
    ASSUME NEW w, NEW list
    PROVE  /\ {n \in Ids(Project("npc", w, FALSE)) : w.npcs[n].present /\ w.npcs[n].place = w.place}
                  \subseteq AgentContext(w, list).npcs
           /\ {q \in Ids(Project("quest", w, FALSE)) : w.quests[q].status \in {"available", "active"}}
                  \subseteq AgentContext(w, list).quests
           /\ {p \in Ids(Project("relationship", w, FALSE)) : Player \in {p[1], p[2]}}
                  \subseteq AgentContext(w, list).bonds
           /\ Ids(Project("clock", w, FALSE)) \subseteq AgentContext(w, list).clocks
  <1>1. Ids(Project("npc", w, FALSE)) \subseteq Npcs
    <2>1. ASSUME NEW item \in Project("npc", w, FALSE)
          PROVE  item.id \in Npcs
      <3>1. item \in ViewedNpcs(w, FALSE)
        BY <2>1 DEF Project
      <3>2. PICK x \in Npcs : item = [id |-> x, since |-> w.npcs[x].since, present |-> w.npcs[x].present,
                             attitude |-> w.npcs[x].attitude]
        BY <3>1 DEF ViewedNpcs
      <3>3. QED
        BY <3>2
    <2>2. QED
      BY <2>1 DEF Ids
  <1>2. Ids(Project("quest", w, FALSE)) \subseteq Quests
    <2>1. ASSUME NEW item \in Project("quest", w, FALSE)
          PROVE  item.id \in Quests
      <3>1. item \in ViewedQuests(w, FALSE)
        BY <2>1 DEF Project
      <3>2. PICK x \in Quests : item = [id |-> x, status |-> w.quests[x].status]
        BY <3>1 DEF ViewedQuests
      <3>3. QED
        BY <3>2
    <2>2. QED
      BY <2>1 DEF Ids
  <1>3. Ids(Project("relationship", w, FALSE)) \subseteq DOMAIN w.bonds
    <2>1. ASSUME NEW item \in Project("relationship", w, FALSE)
          PROVE  item.id \in DOMAIN w.bonds
      <3>1. item \in ViewedBonds(w, FALSE)
        BY <2>1 DEF Project
      <3>2. PICK x \in DOMAIN w.bonds : item = [id |-> x, bond |-> w.bonds[x]]
        BY <3>1 DEF ViewedBonds
      <3>3. QED
        BY <3>2
    <2>2. QED
      BY <2>1 DEF Ids
  <1>4. Ids(Project("clock", w, FALSE)) \subseteq Clocks
    <2>1. ASSUME NEW item \in Project("clock", w, FALSE)
          PROVE  item.id \in Clocks
      <3>1. item \in ViewedClocks(w, FALSE)
        BY <2>1 DEF Project
      <3>2. PICK x \in Clocks : item = [id |-> x, since |-> w.clocks[x].since]
        BY <3>1 DEF ViewedClocks
      <3>3. QED
        BY <3>2
    <2>2. QED
      BY <2>1 DEF Ids
  <1>5. /\ AgentContext(w, list).npcs = RelevantNpcs(w)
        /\ AgentContext(w, list).quests = {q \in Quests : w.quests[q].status \in {"active", "available"}}
        /\ AgentContext(w, list).bonds = RelevantBonds(w)
        /\ AgentContext(w, list).clocks = Clocks
    BY DEF AgentContext
  <1>6. QED
    BY <1>1, <1>2, <1>3, <1>4, <1>5 DEF RelevantNpcs, RelevantBonds

\* What it reads of facts, clues and its sheet is in the narrator's prompt.
LEMMA PromptHasTheScene ==
    ASSUME NEW w, NEW list
    PROVE  /\ UNION {item.says : item \in Project("fact", w, FALSE)} \subseteq NarrationContext(w, list)
           /\ UNION {item.says : item \in Project("player", w, FALSE)} \subseteq NarrationContext(w, list)
           /\ UNION {k.text : k \in Project("clue", w, FALSE)} \subseteq NarrationContext(w, list)
  <1> DEFINE context == AgentContext(w, list)
  <1>1. UNION {item.says : item \in Project("fact", w, FALSE)} \subseteq FactsSection(context, FALSE)
    <2>1. context.facts = PlayerFacts(w)
      BY DEF AgentContext
    <2>2. ASSUME NEW item \in Project("fact", w, FALSE)
          PROVE  \E f \in PlayerFacts(w) : item.says = f.says
      <3>1. Project("fact", w, FALSE) = ViewedFacts(w, FALSE)
        BY DEF Project
      <3>2. PICK f \in Range(w.facts) : f.vis = "player" /\ item = [id |-> f.id, says |-> f.says]
        BY <2>2, <3>1 DEF ViewedFacts, Sees
      <3>3. QED
        BY <3>2 DEF PlayerFacts
    <2> HIDE DEF context
    <2>3. ASSUME NEW item \in Project("fact", w, FALSE), NEW s \in item.says
          PROVE  s \in FactsSection(context, FALSE)
      <3>1. PICK f \in context.facts : item.says = f.says
        BY <2>1, <2>2
      <3>2. QED
        BY <3>1 DEF FactsSection, Says
    <2>4. QED
      BY <2>3
  <1>2. UNION {item.says : item \in Project("player", w, FALSE)} \subseteq PlayerStateSection(context, FALSE)
    <2>1. context.sheet = Shown(w.sheet)
      BY DEF AgentContext
    <2>2. Project("player", w, FALSE) = ViewedItems(w.sheet, FALSE)
      BY DEF Project
    <2>3. ViewedItems(w.sheet, FALSE) = Shown(w.sheet)
      BY DEF ViewedItems, Shown, Sees
    <2> HIDE DEF context
    <2>4. QED
      BY <2>1, <2>2, <2>3 DEF PlayerStateSection, Says
  <1>3. UNION {k.text : k \in Project("clue", w, FALSE)} \subseteq ClueSection(context)
    <2>1. context.clues = Shown(w.clues)
      BY DEF AgentContext
    <2>2. Project("clue", w, FALSE) = ViewedItems(w.clues, FALSE)
      BY DEF Project
    <2>3. ViewedItems(w.clues, FALSE) = Shown(w.clues)
      BY DEF ViewedItems, Shown, Sees
    <2> HIDE DEF context
    <2>4. QED
      BY <2>1, <2>2, <2>3 DEF ClueSection
  <1>4. /\ FactsSection(context, FALSE) \subseteq NarrationContext(w, list)
        /\ PlayerStateSection(context, FALSE) \subseteq NarrationContext(w, list)
        /\ ClueSection(context) \subseteq NarrationContext(w, list)
    BY DEF NarrationContext, Prompt
  <1>5. QED
    BY <1>1, <1>2, <1>3, <1>4

(* The narrator's scene and the player's are one                           *)
(* (SecretFlow!NarratorKnowsTheScene): an NPC that nobody sees is in the   *)
(* narrator's cast only as the speaker, or since a turn summoned it.       *)
THEOREM ScenesAgree == Spec => []NarratorKnowsTheScene
  <1>1. Init => TypeOK /\ CastInv
    BY TypeInit, CastInit
  <1>2. TypeOK /\ CastInv /\ [Next]_vars => (TypeOK /\ CastInv)'
    BY TypeNext, CastNext
  <1>3. TypeOK /\ CastInv => NarratorKnowsTheScene
    <2> SUFFICES ASSUME TypeOK, CastInv PROVE NarratorKnowsTheScene
      OBVIOUS
    <2> DEFINE cast == AgentContext(stored, messages).npcs
    <2>1. \A n \in cast : stored.npcs[n].shown \/ n = stored.speaker \/ n \in summoned
      <3>1. cast = RelevantNpcs(stored)
        BY DEF AgentContext
      <3>2. QED
        BY <3>1 DEF RelevantNpcs, CastInv, CastIsSeen
    <2> HIDE DEF cast
    <2>2. \A type \in {"fact", "player"} :
              UNION {item.says : item \in Project(type, stored, FALSE)}
                  \subseteq NarrationContext(stored, messages)
      BY PromptHasTheScene
    <2>3. UNION {k.text : k \in Project("clue", stored, FALSE)} \subseteq NarrationContext(stored, messages)
      BY PromptHasTheScene
    <2>4. QED
      BY <2>1, <2>2, <2>3, ContextHasTheScene DEF NarratorKnowsTheScene, cast
  <1>4. QED
    BY <1>1, <1>2, <1>3, PTL DEF Spec

-----------------------------------------------------------------------------
(* Ranks: in a finite set S that R orders, the first n are n.              *)

Above(S, R, x) == {y \in S : <<y, x>> \in R}

\* Those with fewer than n above them.
Top(S, R, n) == {x \in S : Cardinality(Above(S, R, x)) < n}

Orders(R, S) ==
    /\ \A x \in S : <<x, x>> \notin R
    /\ \A x, y \in S : x # y => <<x, y>> \in R \/ <<y, x>> \in R
    /\ \A x, y, z \in S : <<x, y>> \in R /\ <<y, z>> \in R => <<x, z>> \in R

LEMMA AboveIsFinite ==
    ASSUME NEW S, IsFiniteSet(S), NEW R, NEW x
    PROVE  /\ IsFiniteSet(Above(S, R, x))
           /\ Cardinality(Above(S, R, x)) \in Nat
           /\ Cardinality(Above(S, R, x)) <= Cardinality(S)
  <1>1. Above(S, R, x) \subseteq S
    BY DEF Above
  <1>2. QED
    BY <1>1, FS_Subset, FS_CardinalityType

LEMMA RanksGrow ==
    ASSUME NEW S, IsFiniteSet(S), NEW R, Orders(R, S), NEW x \in S, NEW y \in S, <<x, y>> \in R
    PROVE  Cardinality(Above(S, R, x)) < Cardinality(Above(S, R, y))
  <1> DEFINE A == Above(S, R, x)
  <1> DEFINE B == Above(S, R, y)
  <1>1. A \subseteq B /\ x \in B /\ x \notin A
    BY DEF Orders, Above
  <1>2. IsFiniteSet(B) /\ Cardinality(A) \in Nat /\ Cardinality(B) \in Nat
    BY AboveIsFinite
  <1> HIDE DEF A, B
  <1>3. Cardinality(A) <= Cardinality(B) /\ Cardinality(A) # Cardinality(B)
    BY <1>1, <1>2, FS_Subset
  <1>4. Cardinality(A) < Cardinality(B)
    BY <1>2, <1>3
  <1>5. QED
    BY <1>4 DEF A, B

\* One more is let in by one place more.
LEMMA TopGrows ==
    ASSUME NEW S, IsFiniteSet(S), NEW R, Orders(R, S), NEW n \in Nat, n < Cardinality(S),
           Cardinality(Top(S, R, n)) = n
    PROVE  Cardinality(Top(S, R, n + 1)) = n + 1
  <1> DEFINE rank(x) == Cardinality(Above(S, R, x))
  <1> DEFINE T == Top(S, R, n)
  <1>1. \A x \in S : rank(x) \in Nat
    BY AboveIsFinite
  <1>2. T \subseteq S /\ IsFiniteSet(T)
    <2>1. T \subseteq S
      BY DEF Top
    <2>2. QED
      BY <2>1, FS_Subset
  <1>3. S \ T # {}
    <2>1. Cardinality(S) # n
      BY FS_CardinalityType
    <2>2. T # S
      BY <2>1
    <2>3. QED
      BY <1>2, <2>2
  <1>4. PICK m \in S \ T : \A x \in S \ T : rank(m) <= rank(x)
    <2> DEFINE ranks == {rank(x) : x \in S \ T}
    <2>1. ranks \subseteq Nat /\ ranks # {}
      BY <1>1, <1>3
    <2>2. PICK r \in ranks : \A q \in ranks : r <= q
      <3> HIDE DEF ranks
      <3>1. QED
        BY <2>1, LeastNumber
    <2>3. QED
      BY <2>2
  <1>5. \A x \in S \ T : rank(x) >= n
    BY <1>1 DEF Top
  <1>6. Above(S, R, m) = T
    <2>1. ASSUME NEW x \in Above(S, R, m)
          PROVE  x \in T
      <3>1. x \in S /\ <<x, m>> \in R
        BY DEF Above
      <3>2. rank(x) < rank(m)
        BY <3>1, RanksGrow
      <3>3. QED
        BY <1>1, <1>4, <3>1, <3>2
    <2>2. ASSUME NEW x \in T
          PROVE  x \in Above(S, R, m)
      <3>1. x \in S /\ x # m /\ rank(x) < n /\ rank(x) \in Nat /\ rank(m) \in Nat
        BY <1>1, <1>2, <1>4 DEF Top
      <3>2. CASE <<m, x>> \in R
        <4>1. rank(m) < rank(x)
          BY <3>1, <3>2, RanksGrow
        <4>2. QED
          BY <1>4, <1>5, <3>1, <4>1
      <3>3. CASE <<x, m>> \in R
        BY <3>1, <3>3 DEF Above
      <3>4. QED
        BY <1>4, <3>1, <3>2, <3>3 DEF Orders
    <2>3. QED
      BY <2>1, <2>2
  <1>7. rank(m) = n
    BY <1>6
  <1>8. Top(S, R, n + 1) = T \union {m}
    <2>1. ASSUME NEW x \in S, x # m, x \notin T
          PROVE  rank(x) > n
      <3>1. <<m, x>> \in R
        <4>1. x \notin Above(S, R, m)
          BY <1>6, <2>1
        <4>2. QED
          BY <1>4, <2>1, <4>1 DEF Above, Orders
      <3>2. rank(m) < rank(x)
        BY <1>4, <3>1, RanksGrow
      <3>3. QED
        BY <1>7, <3>2
    <2>2. \A x \in S : rank(x) < n + 1 <=> x \in T \union {m}
      <3>1. \A x \in T : rank(x) < n
        BY DEF Top
      <3> HIDE DEF rank, T
      <3>2. QED
        BY <1>1, <1>2, <1>7, <2>1, <3>1
    <2>3. QED
      BY <1>2, <1>4, <2>2 DEF Top
  <1> HIDE DEF T
  <1>9. Cardinality(T \union {m}) = n + 1
    <2>1. m \notin T /\ Cardinality(T) = n
      BY <1>4 DEF T
    <2>2. QED
      BY <1>2, <2>1, FS_AddElement
  <1>10. QED
    BY <1>8, <1>9

LEMMA TopHas ==
    ASSUME NEW S, IsFiniteSet(S), NEW R, Orders(R, S)
    PROVE  \A n \in Nat : n <= Cardinality(S) => Cardinality(Top(S, R, n)) = n
  <1> DEFINE T == {n \in Nat : n <= Cardinality(S) => Cardinality(Top(S, R, n)) = n}
  <1>0. Cardinality(S) \in Nat
    BY FS_CardinalityType
  <1>1. 0 \in T
    <2>1. Top(S, R, 0) = {}
      <3>1. \A x \in S : Cardinality(Above(S, R, x)) \in Nat
        BY AboveIsFinite
      <3>2. QED
        BY <3>1 DEF Top
    <2>2. QED
      BY <2>1, FS_EmptySet
  <1>2. ASSUME NEW n \in Nat, n \in T
        PROVE  n + 1 \in T
    <2>1. CASE n + 1 <= Cardinality(S)
      BY <1>0, <1>2, <2>1, TopGrows
    <2>2. CASE ~ (n + 1 <= Cardinality(S))
      BY <2>2
    <2>3. QED
      BY <2>1, <2>2
  <1> HIDE DEF T
  <1>3. \A n \in Nat : n \in T
    BY <1>1, <1>2, SetInduction
  <1>4. QED
    BY <1>3 DEF T

-----------------------------------------------------------------------------
(* What the limits of the prompts cut off.                                 *)

\* The scenario's secrets are the first of the GM-only facts.
LEMMA SecretsComeFirst ==
    ASSUME NEW w, IsWorld(w), SecretsStand(w), NEW i \in DOMAIN SecretList, i <= GmFactLimit
    PROVE  SecretFact(i) \in ReachableGmFacts(w)
  <1> DEFINE gm == {j \in DOMAIN w.facts : w.facts[j].vis = "gm"}
  <1> DEFINE before == {j \in gm : j <= i}
  <1>1. i \in gm /\ w.facts[i] = SecretFact(i)
    <2>1. SecretFact(i).vis = "gm"
      BY DEF SecretFact
    <2>2. QED
      BY <2>1 DEF SecretsStand
  <1>2. DOMAIN w.facts \subseteq Nat \ {0}
    <2>1. w.facts \in Seq(Fact)
      BY DEF IsWorld, WorldOf
    <2>2. QED
      BY <2>1
  <1>3. QED
    <2>1. i \in Nat \ {0} /\ GmFactLimit \in Nat
      BY <1>1, <1>2, LimitsAssumption
    <2>2. before \subseteq 1..i
      BY <1>2, <2>1
    <2>3. IsFiniteSet(1..i) /\ Cardinality(1..i) = i
      BY <2>1, FS_Interval
    <2> HIDE DEF before
    <2>4. Cardinality(before) <= i /\ Cardinality(before) \in Nat
      BY <2>2, <2>3, FS_Subset, FS_CardinalityType
    <2>5. Cardinality(before) <= GmFactLimit
      BY <2>1, <2>4
    <2>6. i \in Firsts(GmFactLimit, gm)
      BY <1>1, <2>5 DEF Firsts, before
    <2> HIDE DEF gm
    <2>7. w.facts[i] \in {w.facts[j] : j \in Firsts(GmFactLimit, gm)}
      BY <2>6
    <2>8. QED
      BY <1>1, <2>7 DEF ReachableGmFacts, gm

LEMMA OracleHearsSecrets ==
    ASSUME NEW w, IsWorld(w), SecretsStand(w), NEW list, NEW i \in DOMAIN SecretList, i <= GmFactLimit
    PROVE  SecretList[i] \in OracleContext(w, list)
  <1> DEFINE context == AgentContext(w, list)
  <1>1. SecretFact(i) \in context.gmFacts
    BY SecretsComeFirst DEF AgentContext
  <1>2. SecretFact(i).says = {SecretList[i]}
    BY DEF SecretFact
  <1>3. FactsSection(context, TRUE) \subseteq OracleContext(w, list)
    BY DEF OracleContext, Prompt
  <1> HIDE DEF context
  <1>4. SecretList[i] \in Says(context.gmFacts)
    BY <1>1, <1>2 DEF Says
  <1>5. QED
    BY <1>3, <1>4 DEF FactsSection, If

\* The memories that are heard and outrank memory i.
Winners(memories, heard, i) ==
    {j \in DOMAIN memories : memories[j] \in heard /\ Outranks(memories, j, i)}

\* A memory that is left out has lost to as many as there is room for.
LEMMA LeftOutHasLost ==
    ASSUME NEW memories \in Seq(Memory), Numbered(memories), NEW limit \in Nat,
           NEW heard, heard = PrioritizedMemories(memories, TRUE, limit),
           NEW i \in DOMAIN memories, memories[i].shown = TRUE, memories[i] \notin heard
    PROVE  limit = Cardinality(Winners(memories, heard, i))
  <1> DEFINE S == {j \in DOMAIN memories : memories[j].shown = TRUE}
  <1> DEFINE R == {p \in S \X S : Outranks(memories, p[1], p[2])}
  <1> DEFINE winners == Top(S, R, limit)
  <1>1. S \subseteq 1..Len(memories) /\ Len(memories) \in Nat
    OBVIOUS
  <1>2. IsFiniteSet(S)
    <2>1. IsFiniteSet(1..Len(memories))
      BY <1>1, FS_Interval
    <2> HIDE DEF S
    <2>2. QED
      BY <1>1, <2>1, FS_Subset
  <1>3. \A j \in S : j \in Nat /\ memories[j].weight \in Nat
    <2>1. \A m \in Memory : m.weight \in Nat
      BY DEF Memory, MaxWeight
    <2>2. \A j \in S : j \in Nat /\ memories[j] \in Memory
      OBVIOUS
    <2> HIDE DEF S
    <2>3. QED
      BY <2>1, <2>2
  <1>4. \A j, k \in S : <<j, k>> \in R <=> Outranks(memories, j, k)
    OBVIOUS
  <1>5. Orders(R, S)
    <2> HIDE DEF R, S
    <2>1. \A j \in S : <<j, j>> \notin R
      BY <1>3, <1>4 DEF Outranks
    <2>2. \A j, k \in S : j # k => <<j, k>> \in R \/ <<k, j>> \in R
      BY <1>3, <1>4 DEF Outranks
    <2>3. ASSUME NEW j \in S, NEW k \in S, NEW l \in S, <<j, k>> \in R, <<k, l>> \in R
          PROVE  <<j, l>> \in R
      <3>1. Outranks(memories, j, k) /\ Outranks(memories, k, l)
        BY <1>4, <2>3
      <3>2. Outranks(memories, j, l)
        BY <1>3, <3>1 DEF Outranks
      <3>3. QED
        BY <1>4, <3>2
    <2>4. QED
      BY <2>1, <2>2, <2>3 DEF Orders
  <1>6. heard = {memories[j] : j \in winners}
    <2>1. \A j \in S : Above(S, R, j) = {k \in S : Outranks(memories, k, j)}
      <3> HIDE DEF R, S
      <3>1. QED
        BY <1>4 DEF Above
    <2>2. winners = {j \in S : Cardinality({k \in S : Outranks(memories, k, j)}) < limit}
      <3> HIDE DEF R, S
      <3>1. QED
        BY <2>1 DEF Top
    <2>3. QED
      BY <2>2 DEF PrioritizedMemories
  <1>7. i \in S /\ i \notin winners
    <2>1. i \in S
      OBVIOUS
    <2> HIDE DEF winners, S
    <2>2. QED
      BY <1>6, <2>1
  <1>8. winners \subseteq S
    BY DEF Top
  <1>9. \A j \in DOMAIN memories : memories[j] \in heard => j \in winners
    <2>1. ASSUME NEW j \in DOMAIN memories, memories[j] \in heard
          PROVE  j \in winners
      <3> HIDE DEF winners
      <3>1. PICK k \in winners : memories[j] = memories[k]
        BY <1>6, <2>1
      <3>2. k \in DOMAIN memories
        BY <1>8
      <3>3. j = k
        BY <3>1, <3>2 DEF Numbered
      <3>4. QED
        BY <3>3
    <2>2. QED
      BY <2>1
  <1>10. \A j \in winners : <<j, i>> \in R
    <2>1. ASSUME NEW j \in winners, <<i, j>> \in R
          PROVE  FALSE
      <3>1. /\ Cardinality(Above(S, R, j)) < limit /\ ~ (Cardinality(Above(S, R, i)) < limit)
        BY <1>7 DEF Top
      <3>2. Cardinality(Above(S, R, j)) \in Nat /\ Cardinality(Above(S, R, i)) \in Nat
        <4> HIDE DEF R, S
        <4>1. QED
          BY <1>2, AboveIsFinite
      <3>3. Cardinality(Above(S, R, i)) < Cardinality(Above(S, R, j))
        <4> HIDE DEF R, S, winners
        <4>1. QED
          BY <1>2, <1>5, <1>7, <1>8, <2>1, RanksGrow
      <3> HIDE DEF R, S, winners
      <3>4. QED
        BY <3>1, <3>2, <3>3
    <2> HIDE DEF R, S, winners
    <2>2. QED
      BY <1>5, <1>7, <1>8, <2>1 DEF Orders
  <1>11. {j \in DOMAIN memories : memories[j] \in heard /\ Outranks(memories, j, i)} = winners
    <2>1. S \subseteq DOMAIN memories
      OBVIOUS
    <2> HIDE DEF R, S, winners
    <2>2. QED
      BY <1>4, <1>6, <1>7, <1>8, <1>9, <1>10, <2>1
  <1>12. limit <= Cardinality(S)
    <2>1. ~ (Cardinality(Above(S, R, i)) < limit)
      BY <1>7 DEF Top
    <2> HIDE DEF R, S
    <2>2. /\ Cardinality(Above(S, R, i)) \in Nat
          /\ Cardinality(Above(S, R, i)) <= Cardinality(S)
          /\ Cardinality(S) \in Nat
      BY <1>2, AboveIsFinite, FS_CardinalityType
    <2>3. QED
      BY <2>1, <2>2
  <1>13. Cardinality(winners) = limit
    <2> HIDE DEF R, S
    <2>1. QED
      BY <1>2, <1>5, <1>12, TopHas
  <1> HIDE DEF R, S, winners
  <1>14. QED
    BY <1>11, <1>13 DEF Winners

(* What the limits of the prompts cut off (SecretFlow!LimitsCutTheTail):   *)
(* secrets come before all that turns make GM-only, and a memory that the  *)
(* narrator is not told has lost to exactly PlayerMemoryLimit others.       *)
THEOREM LimitsHold == Spec => []LimitsCutTheTail
  <1>1. Init => TypeOK /\ IdInv
    BY TypeInit, IdInit
  <1>2. TypeOK /\ IdInv /\ [Next]_vars => (TypeOK /\ IdInv)'
    BY TypeNext, IdNext
  <1>3. TypeOK /\ IdInv => LimitsCutTheTail
    <2> SUFFICES ASSUME TypeOK, IdInv PROVE LimitsCutTheTail
      OBVIOUS
    <2> DEFINE heard == AgentContext(stored, messages).memories
    <2>1. IsWorld(stored) /\ SecretsStand(stored) /\ Numbered(stored.memories)
      BY DEF TypeOK, IdInv
    <2>2. stored.memories \in Seq(Memory) /\ PlayerMemoryLimit \in Nat
      BY <2>1, LimitsAssumption DEF IsWorld, WorldOf
    <2>3. heard = PrioritizedMemories(stored.memories, TRUE, PlayerMemoryLimit)
      BY DEF AgentContext
    <2>4. {SecretList[i] : i \in {i \in DOMAIN SecretList : i <= GmFactLimit}}
              \subseteq OracleContext(stored, messages)
      BY <2>1, OracleHearsSecrets
    <2> HIDE DEF heard
    <2>5. ASSUME NEW i \in DOMAIN stored.memories,
                 stored.memories[i].shown, stored.memories[i] \notin heard
          PROVE  PlayerMemoryLimit =
                     Cardinality({j \in DOMAIN stored.memories :
                         stored.memories[j] \in heard /\ Outranks(stored.memories, j, i)})
      <3> DEFINE memories == stored.memories
      <3> HIDE DEF memories
      <3>1. memories[i] \in Memory
        BY <2>2 DEF memories
      <3>2. memories[i].shown \in BOOLEAN
        BY <3>1 DEF Memory
      <3>3. /\ memories \in Seq(Memory) /\ Numbered(memories) /\ i \in DOMAIN memories
            /\ heard = PrioritizedMemories(memories, TRUE, PlayerMemoryLimit)
            /\ memories[i].shown = TRUE /\ memories[i] \notin heard
        BY <2>1, <2>2, <2>3, <2>5, <3>2 DEF memories
      <3>4. PlayerMemoryLimit = Cardinality(Winners(memories, heard, i))
        BY <2>2, <3>3, LeftOutHasLost
      <3>5. QED
        BY <3>4 DEF memories, Winners
    <2>6. QED
      BY <2>4, <2>5 DEF LimitsCutTheTail, heard
  <1>4. QED
    BY <1>1, <1>2, <1>3, PTL DEF Spec

-----------------------------------------------------------------------------
(* What a patch names: clues.                                              *)

\* A clue in the course of a delta was there before, or a change before discovered it.
LEMMA CourseClues ==
    ASSUME NEW w, IsWorld(w), NEW d \in Seq(Applicable), NEW M, M = Matching(d, "clue", "Discovered")
    PROVE  \A i \in 0..Len(d) : \A k \in DOMAIN Course(w, d)[i].clues :
              \/ Course(w, d)[i].clues[k].id \in Ids(Range(w.clues))
              \/ \E j \in M : j <= i /\ Course(w, d)[i].clues[k].id = d[j].clue.id
  <1> DEFINE From(id, i) == id \in Ids(Range(w.clues)) \/ \E j \in M : j <= i /\ id = d[j].clue.id
  <1> DEFINE Found(i) == \A k \in DOMAIN Course(w, d)[i].clues : From(Course(w, d)[i].clues[k].id, i)
  <1> DEFINE T == {n \in Nat : n <= Len(d) => Found(n)}
  <1>1. 0 \in T
    <2>1. Course(w, d)[0] = w
      BY CourseSteps
    <2>2. \A k \in DOMAIN w.clues : w.clues[k].id \in Ids(Range(w.clues))
      BY DEF Ids, Range
    <2>3. QED
      BY <2>1, <2>2
  <1>2. ASSUME NEW n \in Nat, n \in T
        PROVE  n + 1 \in T
    <2>1. SUFFICES ASSUME n + 1 <= Len(d)
                   PROVE  Found(n + 1)
      OBVIOUS
    <2> DEFINE x == Course(w, d)[n]
    <2> DEFINE y == Course(w, d)[n + 1]
    <2>2. n + 1 \in 1..Len(d) /\ (n + 1) - 1 = n /\ Found(n)
      BY <1>2, <2>1
    <2>3. IsWorld(x) /\ d[n + 1] \in Applicable /\ y = Apply(x, d[n + 1])
      BY <2>2, CourseStep
    <2>4. M \subseteq Nat
      BY DEF Matching
    <2>5. \A id : From(id, n) => From(id, n + 1)
      BY <2>4
    <2>6. \A k \in DOMAIN x.clues : From(x.clues[k].id, n)
      BY <2>2
    <2>7. (d[n + 1].of = "clue" /\ d[n + 1].kind = "Discovered") => From(d[n + 1].clue.id, n + 1)
      <3>1. n + 1 \in DOMAIN d
        BY <2>2
      <3>2. QED
        BY <3>1 DEF Matching
    <2> HIDE DEF x, y, From
    <2>8. \A k \in DOMAIN y.clues : From(y.clues[k].id, n + 1)
      <3> SUFFICES ASSUME NEW k \in DOMAIN y.clues PROVE From(y.clues[k].id, n + 1)
        OBVIOUS
      <3>1. \/ k \in DOMAIN x.clues /\ y.clues[k].id = x.clues[k].id
            \/ d[n + 1].of = "clue" /\ d[n + 1].kind = "Discovered" /\ y.clues[k] = d[n + 1].clue
        BY <2>3, ClueStep
      <3>2. QED
        BY <2>5, <2>6, <2>7, <3>1
    <2>9. QED
      BY <2>8 DEF y
  <1> HIDE DEF T, Found
  <1>3. \A n \in Nat : n \in T
    BY <1>1, <1>2, SetInduction
  <1>4. \A i \in 0..Len(d) : Found(i)
    BY <1>3 DEF T
  <1>5. QED
    BY <1>4 DEF Found

\* As many ids as discoveries: no two discover one clue.
LEMMA FoundOnce ==
    ASSUME NEW w, NEW d \in Seq(Change), OnlyNewClues(w, d),
           NEW M, M = Matching(d, "clue", "Discovered")
    PROVE  \A i, j \in M : d[i].clue.id = d[j].clue.id => i = j
  <1> DEFINE found == In(d, "clue", "Discovered")
  <1> DEFINE ids == {c.clue.id : c \in found}
  <1> DEFINE f == [i \in M |-> d[i].clue.id]
  <1>1. Cardinality(ids) = Cardinality(M)
    BY DEF OnlyNewClues, Count, Matching
  <1>2. IsFiniteSet(M)
    <2>1. M \subseteq 1..Len(d) /\ IsFiniteSet(1..Len(d))
      BY FS_Interval DEF Matching
    <2>2. QED
      BY <2>1, FS_Subset
  <1>3. \A i \in M : d[i] \in found
    BY DEF Matching, In, Range
  <1>4. \A c \in found : \E i \in M : d[i] = c
    BY DEF Matching, In, Range
  <1>5. f \in Surjection(M, ids)
    <2>1. f \in [M -> ids]
      BY <1>3
    <2>2. \A id \in ids : \E i \in M : f[i] = id
      BY <1>4
    <2> HIDE DEF f, ids
    <2>3. QED
      BY <2>1, <2>2 DEF Surjection
  <1>6. f \in Injection(M, ids)
    <2> HIDE DEF f, ids
    <2>1. QED
      BY <1>1, <1>2, <1>5, FS_SurjSameCardinalityImpliesInj
  <1>7. \A i, j \in M : f[i] = f[j] => i = j
    <2> HIDE DEF f, ids
    <2>1. QED
      BY <1>6 DEF Injection, IsInjective
  <1>8. QED
    BY <1>7

LEMMA ReduceClues ==
    ASSUME NEW w, IsWorld(w), NEW d \in Seq(Applicable), OnlyNewClues(w, d), NEW v, v = Reduce(w, d)
    PROVE  Continues(w.clues, v.clues, Count(d, "clue", "Discovered"))
  <1> DEFINE n == Len(d)
  <1> DEFINE L == [i \in 0..n |-> Course(w, d)[i].clues]
  <1> DEFINE M == Matching(d, "clue", "Discovered")
  <1>1. n \in Nat /\ d \in Seq(Change)
    BY DEF Applicable
  <1>2. L[0] = w.clues /\ w.clues \in Seq(Clue)
    BY <1>1, CourseSteps DEF IsWorld, WorldOf
  <1>3. L[n] = v.clues
    <2>1. Same(Course(w, d)[n], v, {"version"})
      BY ReduceKeeps
    <2>2. QED
      BY <1>1, <2>1 DEF Same, Fields
  <1>4. ASSUME NEW i \in 1..n
        PROVE  L[i] = L[i - 1] \/ (i \in M /\ \E k \in Clue : L[i] = Append(L[i - 1], k))
    <2> DEFINE x == Course(w, d)[i - 1]
    <2> DEFINE y == Course(w, d)[i]
    <2>1. IsWorld(x) /\ d[i] \in Applicable /\ y = Apply(x, d[i])
      BY CourseStep
    <2>2. L[i] = y.clues /\ L[i - 1] = x.clues
      OBVIOUS
    <2>3. CASE d[i].of # "clue"
      <3> HIDE DEF x, y, L
      <3>1. QED
        BY <2>1, <2>2, <2>3, Untouched
    <2>4. CASE d[i].of = "clue"
      <3>1. i \in DOMAIN d /\ d[i] \in Range(d)
        BY DEF Range
      <3>2. d[i].kind = "Discovered"
        <4>1. d[i] \in ClueChange
          BY <2>1, <2>4, ChangeOfSection DEF Applicable
        <4>2. d[i].kind # "VisibilityChanged"
          BY <2>4, <3>1 DEF OnlyNewClues, In
        <4>3. QED
          BY <4>1, <4>2 DEF ClueChange
      <3>3. i \in M /\ d[i] \in In(d, "clue", "Discovered")
        BY <2>4, <3>1, <3>2 DEF Matching, In
      <3>4. \A k \in DOMAIN x.clues : x.clues[k].id # d[i].clue.id
        <4> SUFFICES ASSUME NEW k \in DOMAIN x.clues, x.clues[k].id = d[i].clue.id PROVE FALSE
          OBVIOUS
        <4>1. d[i].clue.id \notin Ids(Range(w.clues))
          BY <3>3 DEF OnlyNewClues
        <4>2. i - 1 \in 0..Len(d)
          OBVIOUS
        <4> HIDE DEF M, L
        <4>3. PICK j \in M : j <= i - 1 /\ d[i].clue.id = d[j].clue.id
          BY <4>1, <4>2, CourseClues DEF M
        <4>4. j = i
          BY <1>1, <3>3, <4>3, FoundOnce DEF M
        <4>5. QED
          BY <4>3, <4>4
      <3> HIDE DEF x, y, L, M
      <3>5. d[i].clue \in Clue /\ y.clues = Append(x.clues, d[i].clue)
        BY <2>1, <2>4, <3>2, <3>4, NewClueStep
      <3>6. QED
        BY <2>2, <3>3, <3>5
    <2>5. QED
      BY <2>3, <2>4
  <1>5. M \in SUBSET (1..n) /\ Cardinality(M) = Count(d, "clue", "Discovered")
    BY DEF Matching, Count
  <1> HIDE DEF n, L, M
  <1>6. L[0] \in Seq(Clue) /\ Lengthens(L, n, M, Clue)
    BY <1>2, <1>4 DEF Lengthens
  <1>7. Continues(L[0], L[n], Cardinality(M))
    BY <1>1, <1>5, <1>6, ListGrows
  <1>8. QED
    BY <1>2, <1>3, <1>5, <1>7

-----------------------------------------------------------------------------
(* What a patch names: entities that changes name.                         *)

\* The entities of a type that d names, and those alone, may differ between w and v.
Elsewhere(w, v, d) ==
    LET named(type) == ChangedEntities(type, w, d)
    IN  /\ \A n \in Npcs \ named("npc") : v.npcs[n] = w.npcs[n]
        /\ \A f \in Factions \ named("faction") : v.factions[f] = w.factions[f]
        /\ \A q \in Quests \ named("quest") : v.quests[q] = w.quests[q]
        /\ \A k \in Clocks \ named("clock") : v.clocks[k] = w.clocks[k]
        /\ \A p : p \notin named("relationship") =>
              /\ p \in DOMAIN v.bonds <=> p \in DOMAIN w.bonds
              /\ p \in DOMAIN w.bonds => v.bonds[p] = w.bonds[p]
        /\ named("player") = {} => v.sheet = w.sheet
        /\ v.place \in {w.place} \union named("location")

\* Those that changes name by their ids; w plays no part.
LEMMA NamedAre ==
    ASSUME NEW w, NEW d, NEW c \in Range(d)
    PROVE  /\ c.of = "npc" => c.npc \in ChangedEntities("npc", w, d)
           /\ c.of = "faction" => c.faction \in ChangedEntities("faction", w, d)
           /\ c.of = "quest" => c.quest \in ChangedEntities("quest", w, d)
           /\ c.of = "clock" => c.clock \in ChangedEntities("clock", w, d)
           /\ c.of = "relationship" => c.pair \in ChangedEntities("relationship", w, d)
           /\ c.of = "player" => Player \in ChangedEntities("player", w, d)
           /\ c.of = "location" => c.to \in ChangedEntities("location", w, d)
  BY DEF ChangedEntities

LEMMA NamedWithoutWorld ==
    ASSUME NEW w, NEW v, NEW d,
           NEW type \in {"npc", "faction", "quest", "clock", "relationship", "player", "location"}
    PROVE  ChangedEntities(type, w, d) = ChangedEntities(type, v, d)
  BY DEF ChangedEntities

LEMMA ApplyElsewhere ==
    ASSUME NEW w, NEW d \in Seq(Applicable), NEW x, IsWorld(x), Elsewhere(w, x, d),
           NEW i \in 1..Len(d), NEW y, y = Apply(x, d[i])
    PROVE  Elsewhere(w, y, d)
  <1> DEFINE named(type) == ChangedEntities(type, w, d)
  <1> DEFINE c == d[i]
  <1>1. c \in Applicable /\ c \in Range(d) /\ y = Apply(x, c)
    BY DEF Range
  <1> HIDE DEF c
  <1>2. \A n \in Npcs \ named("npc") : y.npcs[n] = w.npcs[n]
    BY <1>1, NpcElsewhere, NamedAre DEF Elsewhere
  <1>3. \A f \in Factions \ named("faction") : y.factions[f] = w.factions[f]
    BY <1>1, FactionElsewhere, NamedAre DEF Elsewhere
  <1>4. \A q \in Quests \ named("quest") : y.quests[q] = w.quests[q]
    BY <1>1, QuestElsewhere, NamedAre DEF Elsewhere
  <1>5. \A k \in Clocks \ named("clock") : y.clocks[k] = w.clocks[k]
    BY <1>1, ClockElsewhere, NamedAre DEF Elsewhere
  <1>6. ASSUME NEW p, p \notin named("relationship")
        PROVE  /\ p \in DOMAIN y.bonds <=> p \in DOMAIN w.bonds
               /\ p \in DOMAIN w.bonds => y.bonds[p] = w.bonds[p]
    <2>1. ~ (c.of = "relationship" /\ c.pair = p)
      BY <1>1, <1>6, NamedAre
    <2>2. /\ p \in DOMAIN y.bonds <=> p \in DOMAIN x.bonds
          /\ p \in DOMAIN x.bonds => y.bonds[p] = x.bonds[p]
      BY <1>1, <2>1, BondElsewhere
    <2>3. /\ p \in DOMAIN x.bonds <=> p \in DOMAIN w.bonds
          /\ p \in DOMAIN w.bonds => x.bonds[p] = w.bonds[p]
      BY <1>6 DEF Elsewhere
    <2>4. QED
      BY <2>2, <2>3
  <1>7. named("player") = {} => y.sheet = w.sheet
    BY <1>1, Untouched, NamedAre DEF Elsewhere
  <1>8. y.place \in {w.place} \union named("location")
    BY <1>1, PlaceStep, NamedAre DEF Elsewhere
  <1>9. QED
    BY <1>2, <1>3, <1>4, <1>5, <1>6, <1>7, <1>8 DEF Elsewhere

LEMMA ReduceElsewhere ==
    ASSUME NEW w, IsWorld(w), NEW d \in Seq(Applicable), NEW v, v = Reduce(w, d)
    PROVE  Elsewhere(w, v, d)
  <1> DEFINE S == {x \in Worlds : Elsewhere(w, x, d)}
  <1>1. w \in S
    BY WorldsAreWorlds DEF Elsewhere
  <1>2. ASSUME NEW x \in Worlds, NEW i \in 1..Len(d), x \in S, x.version = w.version
        PROVE  Apply(x, d[i]) \in S
    <2>1. IsWorld(x) /\ Elsewhere(w, x, d) /\ d[i] \in Applicable
      BY <1>2, WorldsAreWorlds
    <2>2. Elsewhere(w, Apply(x, d[i]), d)
      BY <2>1, ApplyElsewhere
    <2>3. QED
      BY <2>1, <2>2, ApplyKeeps, WorldsAreWorlds
  <1>3. PICK u \in S : Same(u, v, {"version"})
    <2> HIDE DEF S
    <2>1. QED
      BY <1>1, <1>2, ReduceStays
  <1>4. /\ v.npcs = u.npcs /\ v.factions = u.factions /\ v.quests = u.quests /\ v.clocks = u.clocks
        /\ v.bonds = u.bonds /\ v.sheet = u.sheet /\ v.place = u.place
    BY <1>3 DEF Same, Fields
  <1>5. Elsewhere(w, u, d)
    BY <1>3
  <1>6. QED
    BY <1>4, <1>5 DEF Elsewhere

-----------------------------------------------------------------------------
(* What a patch names: views.                                              *)

LEMMA DifferingAre ==
    ASSUME NEW type, NEW w, NEW v, NEW admin, NEW named,
           \A item \in Project(type, w, admin) : item.id \notin named => item \in Project(type, v, admin),
           \A item \in Project(type, v, admin) : item.id \notin named => item \in Project(type, w, admin)
    PROVE  Differing(type, w, v, admin) \subseteq named
  BY DEF Differing, Ids

LEMMA NpcsSeenAlike ==
    ASSUME NEW w, NEW v, NEW admin \in BOOLEAN, NEW named,
           \A n \in Npcs \ named : v.npcs[n] = w.npcs[n],
           NEW item \in Project("npc", w, admin), item.id \notin named
    PROVE  item \in Project("npc", v, admin)
  <1>1. item \in ViewedNpcs(w, admin)
    BY DEF Project
  <1>2. PICK n \in Npcs : /\ Sees(w.npcs[n].shown, admin)
                          /\ item = [id |-> n, since |-> w.npcs[n].since, present |-> w.npcs[n].present,
                                     attitude |-> w.npcs[n].attitude]
    BY <1>1 DEF ViewedNpcs
  <1>3. v.npcs[n] = w.npcs[n]
    BY <1>2
  <1>4. item \in ViewedNpcs(v, admin)
    BY <1>2, <1>3 DEF ViewedNpcs
  <1>5. QED
    BY <1>4 DEF Project

LEMMA FactionsSeenAlike ==
    ASSUME NEW w, NEW v, NEW admin \in BOOLEAN, NEW named,
           \A f \in Factions \ named : v.factions[f] = w.factions[f],
           NEW item \in Project("faction", w, admin), item.id \notin named
    PROVE  item \in Project("faction", v, admin)
  <1>1. item \in ViewedFactions(w)
    BY DEF Project
  <1>2. PICK f \in Factions : item = [id |-> f, since |-> w.factions[f].since, notes |-> w.factions[f].notes,
                                      pressure |-> w.factions[f].pressure]
    BY <1>1 DEF ViewedFactions
  <1>3. v.factions[f] = w.factions[f]
    BY <1>2
  <1>4. item \in ViewedFactions(v)
    BY <1>2, <1>3 DEF ViewedFactions
  <1>5. QED
    BY <1>4 DEF Project

LEMMA QuestsSeenAlike ==
    ASSUME NEW w, NEW v, NEW admin \in BOOLEAN, NEW named,
           \A q \in Quests \ named : v.quests[q] = w.quests[q],
           NEW item \in Project("quest", w, admin), item.id \notin named
    PROVE  item \in Project("quest", v, admin)
  <1>1. item \in ViewedQuests(w, admin)
    BY DEF Project
  <1>2. PICK q \in Quests : /\ Sees(q \in OpenQuests /\ w.quests[q].status # "hidden", admin)
                            /\ item = [id |-> q, status |-> w.quests[q].status]
    BY <1>1 DEF ViewedQuests
  <1>3. v.quests[q] = w.quests[q]
    BY <1>2
  <1>4. item \in ViewedQuests(v, admin)
    BY <1>2, <1>3 DEF ViewedQuests
  <1>5. QED
    BY <1>4 DEF Project

LEMMA ClocksSeenAlike ==
    ASSUME NEW w, NEW v, NEW admin \in BOOLEAN, NEW named,
           \A k \in Clocks \ named : v.clocks[k] = w.clocks[k],
           NEW item \in Project("clock", w, admin), item.id \notin named
    PROVE  item \in Project("clock", v, admin)
  <1>1. item \in ViewedClocks(w, admin)
    BY DEF Project
  <1>2. PICK k \in Clocks : Sees(w.clocks[k].shown, admin) /\ item = [id |-> k, since |-> w.clocks[k].since]
    BY <1>1 DEF ViewedClocks
  <1>3. v.clocks[k] = w.clocks[k]
    BY <1>2
  <1>4. item \in ViewedClocks(v, admin)
    BY <1>2, <1>3 DEF ViewedClocks
  <1>5. QED
    BY <1>4 DEF Project

\* A relationship that nothing names is seen as long as its NPCs are seen alike.
LEMMA BondsSeenAlike ==
    ASSUME NEW w, NEW v, NEW admin \in BOOLEAN, NEW named, NEW npcs,
           \A n \in Npcs \ npcs : v.npcs[n] = w.npcs[n],
           \A p \in DOMAIN w.bonds : p \notin named => p \in DOMAIN v.bonds /\ v.bonds[p] = w.bonds[p],
           NEW item \in Project("relationship", w, admin), item.id \notin named,
           {item.id[1], item.id[2]} \intersect npcs = {}
    PROVE  item \in Project("relationship", v, admin)
  <1> DEFINE seen(u, p) ==
        Player \in {p[1], p[2]} \/ {n.id : n \in ViewedNpcs(u, admin)} \intersect {p[1], p[2]} # {}
  <1>1. item \in ViewedBonds(w, admin)
    BY DEF Project
  <1>2. PICK p \in DOMAIN w.bonds : Sees(seen(w, p), admin) /\ item = [id |-> p, bond |-> w.bonds[p]]
    BY <1>1 DEF ViewedBonds
  <1>3. item.id = p /\ p \notin named /\ {p[1], p[2]} \intersect npcs = {}
    BY <1>2
  <1>4. p \in DOMAIN v.bonds /\ v.bonds[p] = w.bonds[p]
    BY <1>3
  <1>5. seen(w, p) => seen(v, p)
    <2>1. ASSUME NEW n \in {p[1], p[2]}, n \in {m.id : m \in ViewedNpcs(w, admin)}
          PROVE  n \in {m.id : m \in ViewedNpcs(v, admin)}
      <3>1. PICK m \in ViewedNpcs(w, admin) : n = m.id
        BY <2>1
      <3>2. m.id \notin npcs
        BY <1>3, <3>1
      <3>3. m \in Project("npc", w, admin)
        BY DEF Project
      <3>4. m \in Project("npc", v, admin)
        BY <3>2, <3>3, NpcsSeenAlike
      <3>5. QED
        BY <3>1, <3>4 DEF Project
    <2>2. QED
      BY <2>1
  <1>6. Sees(seen(v, p), admin)
    BY <1>2, <1>5 DEF Sees
  <1>7. item \in ViewedBonds(v, admin)
    BY <1>2, <1>4, <1>6 DEF ViewedBonds
  <1>8. QED
    BY <1>7 DEF Project

\* What a list gains is at its end.
LEMMA NewOnesAreLast ==
    ASSUME NEW E, NEW before \in Seq(E), NEW after \in Seq(E), NEW n \in Nat, Continues(before, after, n)
    PROVE  /\ Range(before) \subseteq Range(after)
           /\ Range(after) \subseteq Range(before) \union Range(LastN(n, after))
  <1> DEFINE first == IF n < Len(after) THEN Len(after) - n + 1 ELSE 1
  <1>1. /\ Len(before) \in Nat /\ Len(after) \in Nat
        /\ Len(before) <= Len(after) /\ Len(after) <= Len(before) + n
        /\ \A k \in 1..Len(before) : after[k] = before[k]
    BY DEF Continues
  <1>2. Range(before) \subseteq Range(after)
    BY <1>1 DEF Range
  <1>3. first \in 1..(Len(after) + 1) /\ first <= Len(before) + 1
    BY <1>1
  <1>4. LastN(n, after) = SubSeq(after, first, Len(after))
    BY DEF LastN
  <1> HIDE DEF first
  <1>5. /\ Len(LastN(n, after)) = Len(after) - first + 1
        /\ DOMAIN LastN(n, after) = 1..(Len(after) - first + 1)
        /\ \A k \in 1..(Len(after) - first + 1) : LastN(n, after)[k] = after[first + k - 1]
    BY <1>1, <1>3, <1>4
  <1>6. ASSUME NEW k \in DOMAIN after
        PROVE  after[k] \in Range(before) \/ after[k] \in Range(LastN(n, after))
    <2>1. CASE k \in 1..Len(before)
      BY <1>1, <2>1 DEF Range
    <2>2. CASE k \notin 1..Len(before)
      <3> DEFINE j == k - first + 1
      <3>1. j \in 1..(Len(after) - first + 1) /\ first + j - 1 = k
        BY <1>1, <1>3, <2>2
      <3> HIDE DEF j
      <3>2. LastN(n, after)[j] = after[k]
        BY <1>5, <3>1
      <3>3. QED
        BY <1>5, <3>1, <3>2 DEF Range
    <2>3. QED
      BY <2>1, <2>2
  <1>7. QED
    BY <1>2, <1>6 DEF Range

LEMMA CountType ==
    ASSUME NEW d \in Seq(Change), NEW section, NEW kind
    PROVE  Count(d, section, kind) \in Nat
  <1>1. Matching(d, section, kind) \subseteq 1..Len(d) /\ IsFiniteSet(1..Len(d))
    BY FS_Interval DEF Matching
  <1>2. Cardinality(Matching(d, section, kind)) \in Nat
    BY <1>1, FS_Subset, FS_CardinalityType
  <1>3. QED
    BY <1>2 DEF Matching, Count

LEMMA NewItemsAreNamed ==
    ASSUME NEW E, NEW before \in Seq(E), NEW after \in Seq(E), NEW n \in Nat, Continues(before, after, n),
           NEW admin \in BOOLEAN, NEW old, old = ViewedItems(before, admin),
           NEW new, new = ViewedItems(after, admin)
    PROVE  Ids((old \ new) \union (new \ old)) \subseteq Ids(Range(LastN(n, after)))
  <1>1. /\ Range(before) \subseteq Range(after)
        /\ Range(after) \subseteq Range(before) \union Range(LastN(n, after))
    BY NewOnesAreLast
  <1>2. old \ new = {}
    BY <1>1 DEF ViewedItems
  <1>3. new \ old \subseteq Range(LastN(n, after))
    BY <1>1 DEF ViewedItems
  <1>4. (old \ new) \union (new \ old) \subseteq Range(LastN(n, after))
    BY <1>2, <1>3
  <1>5. QED
    BY <1>4 DEF Ids

LEMMA NewFactsAreNamed ==
    ASSUME NEW w, IsWorld(w), NEW v, IsWorld(v), NEW n \in Nat, Continues(w.facts, v.facts, n),
           NEW admin \in BOOLEAN, NEW old, old = ViewedFacts(w, admin), NEW new, new = ViewedFacts(v, admin)
    PROVE  Ids((old \ new) \union (new \ old)) \subseteq Ids(Range(LastN(n, v.facts)))
  <1>1. w.facts \in Seq(Fact) /\ v.facts \in Seq(Fact)
    BY DEF IsWorld, WorldOf
  <1>2. /\ Range(w.facts) \subseteq Range(v.facts)
        /\ Range(v.facts) \subseteq Range(w.facts) \union Range(LastN(n, v.facts))
    BY <1>1, NewOnesAreLast
  <1>3. old \ new = {}
    BY <1>2 DEF ViewedFacts
  <1>4. ASSUME NEW item \in new \ old
        PROVE  \E f \in Range(LastN(n, v.facts)) : f.id = item.id
    <2>1. PICK f \in Range(v.facts) : Sees(f.vis = "player", admin) /\ item = [id |-> f.id, says |-> f.says]
      BY DEF ViewedFacts
    <2>2. f \notin Range(w.facts)
      BY <2>1 DEF ViewedFacts
    <2>3. QED
      BY <1>2, <2>1, <2>2
  <1>5. QED
    BY <1>3, <1>4 DEF Ids

-----------------------------------------------------------------------------
(* The patch of a turn.                                                    *)

\* d names what a view of v has that a view of w has not, or has otherwise.
NamesChanges(w, v, d, admin) ==
    LET named(type) == ChangedEntities(type, v, d)
        differing(type) == Differing(type, w, v, admin)
    IN  /\ \A type \in {"npc", "faction", "quest", "clock", "action"} :
              differing(type) \subseteq named(type)
        /\ differing("player") # {} => Player \in named("player")
        /\ Project("location", v, admin) \subseteq {w.place} \union named("location")
        /\ \A p \in differing("relationship") :
              p \in named("relationship") \/ {p[1], p[2]} \intersect named("npc") # {}
        /\ In(d, "npc", "KnowledgeAdded") = {} => differing("fact") \subseteq named("fact")
        /\ OnlyNewClues(w, d) => differing("clue") \subseteq named("clue")

LEMMA UnchangedIsNamed ==
    ASSUME NEW w, NEW d, NEW admin \in BOOLEAN
    PROVE  NamesChanges(w, w, d, admin)
  <1>1. \A type : Differing(type, w, w, admin) = {}
    BY DEF Differing, Ids
  <1>2. Project("location", w, admin) \subseteq {w.place}
    BY DEF Project, ViewedPlace
  <1>3. QED
    BY <1>1, <1>2 DEF NamesChanges

LEMMA ReduceIsNamed ==
    ASSUME NEW w, IsWorld(w), NEW d \in Seq(Applicable), NEW v, v = Reduce(w, d), NEW admin \in BOOLEAN
    PROVE  NamesChanges(w, v, d, admin)
  <1> DEFINE named(type) == ChangedEntities(type, v, d)
  <1> DEFINE differing(type) == Differing(type, w, v, admin)
  <1>1. IsWorld(v) /\ d \in Seq(Change)
    BY ReduceKeeps DEF Applicable
  <1>2. /\ \A n \in Npcs \ named("npc") : v.npcs[n] = w.npcs[n]
        /\ \A f \in Factions \ named("faction") : v.factions[f] = w.factions[f]
        /\ \A q \in Quests \ named("quest") : v.quests[q] = w.quests[q]
        /\ \A k \in Clocks \ named("clock") : v.clocks[k] = w.clocks[k]
        /\ \A p : p \notin named("relationship") =>
              /\ p \in DOMAIN v.bonds <=> p \in DOMAIN w.bonds
              /\ p \in DOMAIN w.bonds => v.bonds[p] = w.bonds[p]
        /\ named("player") = {} => v.sheet = w.sheet
        /\ v.place \in {w.place} \union named("location")
    <2>1. Elsewhere(w, v, d)
      BY ReduceElsewhere
    <2>2. QED
      BY <2>1, NamedWithoutWorld DEF Elsewhere
  <1>3. differing("npc") \subseteq named("npc")
    BY <1>2, NpcsSeenAlike, DifferingAre
  <1>4. differing("faction") \subseteq named("faction")
    BY <1>2, FactionsSeenAlike, DifferingAre
  <1>5. differing("quest") \subseteq named("quest")
    BY <1>2, QuestsSeenAlike, DifferingAre
  <1>6. differing("clock") \subseteq named("clock")
    BY <1>2, ClocksSeenAlike, DifferingAre
  <1>7. differing("action") \subseteq named("action")
    <2> DEFINE n == Count(d, "action", "Recorded")
    <2>1. Continues(w.actions, v.actions, n) /\ n \in Nat
      BY <1>1, ReduceActions, CountType
    <2>2. w.actions \in Seq(Resolution) /\ v.actions \in Seq(Resolution)
      BY <1>1 DEF IsWorld, WorldOf
    <2>3. /\ Project("action", w, admin) = ViewedItems(w.actions, admin)
          /\ Project("action", v, admin) = ViewedItems(v.actions, admin)
          /\ named("action") = Ids(Range(LastN(n, v.actions)))
      BY DEF Project, ChangedEntities, Ids
    <2> HIDE DEF n, named
    <2>4. QED
      BY <2>1, <2>2, <2>3, NewItemsAreNamed DEF Differing
  <1>8. differing("player") # {} => Player \in named("player")
    <2>1. CASE named("player") = {}
      <3>1. v.sheet = w.sheet
        BY <1>2, <2>1
      <3>2. Project("player", v, admin) = Project("player", w, admin)
        BY <3>1 DEF Project
      <3>3. QED
        BY <3>2 DEF Differing, Ids
    <2>2. CASE named("player") # {}
      BY <2>2 DEF ChangedEntities
    <2>3. QED
      BY <2>1, <2>2
  <1>9. Project("location", v, admin) \subseteq {w.place} \union named("location")
    <2>1. Project("location", v, admin) \subseteq {v.place}
      BY DEF Project, ViewedPlace
    <2>2. QED
      BY <1>2, <2>1
  <1>10. \A p \in differing("relationship") :
            p \in named("relationship") \/ {p[1], p[2]} \intersect named("npc") # {}
    <2> SUFFICES ASSUME NEW p \in differing("relationship"), p \notin named("relationship"),
                        {p[1], p[2]} \intersect named("npc") = {}
                 PROVE  FALSE
      OBVIOUS
    <2> DEFINE old == Project("relationship", w, admin)
    <2> DEFINE new == Project("relationship", v, admin)
    <2>1. PICK item \in (old \ new) \union (new \ old) : item.id = p
      BY DEF Differing, Ids
    <2> HIDE DEF named
    <2>2. ASSUME item \in old PROVE item \in new
      <3>1. \A q \in DOMAIN w.bonds : q \notin named("relationship") => q \in DOMAIN v.bonds /\ v.bonds[q] = w.bonds[q]
        BY <1>2
      <3>2. \A n \in Npcs \ named("npc") : v.npcs[n] = w.npcs[n]
        BY <1>2
      <3>3. item \in Project("relationship", w, admin) /\ item.id \notin named("relationship")
        BY <2>1, <2>2
      <3>4. {item.id[1], item.id[2]} \intersect named("npc") = {}
        BY <2>1
      <3>5. item \in Project("relationship", v, admin)
        BY <3>1, <3>2, <3>3, <3>4, BondsSeenAlike
      <3>6. QED
        BY <3>5
    <2>3. ASSUME item \in new PROVE item \in old
      <3>1. \A q \in DOMAIN v.bonds : q \notin named("relationship") => q \in DOMAIN w.bonds /\ w.bonds[q] = v.bonds[q]
        BY <1>2
      <3>2. \A n \in Npcs \ named("npc") : w.npcs[n] = v.npcs[n]
        BY <1>2
      <3>3. item \in Project("relationship", v, admin) /\ item.id \notin named("relationship")
        BY <2>1, <2>3
      <3>4. {item.id[1], item.id[2]} \intersect named("npc") = {}
        BY <2>1
      <3>5. item \in Project("relationship", w, admin)
        BY <3>1, <3>2, <3>3, <3>4, BondsSeenAlike
      <3>6. QED
        BY <3>5
    <2>4. QED
      BY <2>1, <2>2, <2>3
  <1>11. In(d, "npc", "KnowledgeAdded") = {} => differing("fact") \subseteq named("fact")
    <2> SUFFICES ASSUME In(d, "npc", "KnowledgeAdded") = {}
                 PROVE  differing("fact") \subseteq named("fact")
      OBVIOUS
    <2> DEFINE n == Count(d, "fact", "Added")
    <2>1. Continues(w.facts, v.facts, n) /\ n \in Nat
      BY <1>1, ReduceAddsFacts, CountType
    <2>2. /\ Project("fact", w, admin) = ViewedFacts(w, admin)
          /\ Project("fact", v, admin) = ViewedFacts(v, admin)
          /\ named("fact") = Ids(Range(LastN(n, v.facts)))
      BY DEF Project, ChangedEntities, Ids
    <2> HIDE DEF n, named
    <2>3. QED
      BY <1>1, <2>1, <2>2, NewFactsAreNamed DEF Differing
  <1>12. OnlyNewClues(w, d) => differing("clue") \subseteq named("clue")
    <2> SUFFICES ASSUME OnlyNewClues(w, d)
                 PROVE  differing("clue") \subseteq named("clue")
      OBVIOUS
    <2> DEFINE n == Count(d, "clue", "Discovered")
    <2>1. Continues(w.clues, v.clues, n) /\ n \in Nat
      BY <1>1, ReduceClues, CountType
    <2>2. w.clues \in Seq(Clue) /\ v.clues \in Seq(Clue)
      BY <1>1 DEF IsWorld, WorldOf
    <2>3. /\ Project("clue", w, admin) = ViewedItems(w.clues, admin)
          /\ Project("clue", v, admin) = ViewedItems(v.clues, admin)
          /\ named("clue") = Ids(Range(LastN(n, v.clues)))
      BY DEF Project, ChangedEntities, Ids
    <2> HIDE DEF n, named
    <2>4. QED
      BY <2>1, <2>2, <2>3, NewItemsAreNamed DEF Differing
  <1>13. QED
    BY <1>3, <1>4, <1>5, <1>6, <1>7, <1>8, <1>9, <1>10, <1>11, <1>12 DEF NamesChanges

(* What a turn changes in anyone's view its patch names                    *)
(* (SecretFlow!PatchNamesChanges), though changed_entities reads facts,    *)
(* resolutions and clues off the ends of the new world's lists, as many as *)
(* the delta has changes of the kind.                                      *)
THEOREM PatchesName == Spec => PatchNamesChanges
  <1> DEFINE Named == delta' # <<>> => \A admin \in BOOLEAN : NamesChanges(stored, stored', delta', admin)
  <1>1. TypeOK /\ [Next]_vars => [Named]_vars
    <2> SUFFICES ASSUME TypeOK, Next PROVE Named
      OBVIOUS
    <2>1. CASE Narrate
      BY <2>1 DEF Narrate
    <2>2. CASE Persist
      <3>1. PICK d \in Deltas[topic] : Valid(stored, d) /\ stored' = Reduce(stored, d) /\ delta' = d
        BY <2>2 DEF Persist
      <3>2. d \in Seq(Applicable) /\ IsWorld(stored)
        BY <3>1, PersistTypes
      <3>3. QED
        BY <3>1, <3>2, ReduceIsNamed
    <2>3. CASE Abandon
      <3>1. stored' = stored
        BY <2>3 DEF Abandon
      <3>2. QED
        BY <3>1, UnchangedIsNamed
    <2>4. QED
      BY <2>1, <2>2, <2>3 DEF Next
  <1>2. QED
    BY <1>1, TypeCorrect, PTL DEF Spec, PatchNamesChanges, NamesChanges

=============================================================================
