------------------------------- MODULE Story -------------------------------
(***************************************************************************)
(* The world of a session as far as its people, places and texts go: what  *)
(* a scenario starts with, what a delta may say about it                   *)
(* (BasicDeltaValidator), and what becomes of it (BasicWorldStateReducer). *)
(*                                                                         *)
(* A text is the set of secrets it spells out; {} is any text that gives   *)
(* nothing away.  A number or a word that a change overwrites is told      *)
(* apart only by the version of the world that wrote it ("since"): its     *)
(* value, and the rules about status and ranges, are those of WorldDelta.  *)
(* Deltas with an empty text, an unknown id or no reason are left out.     *)
(***************************************************************************)
EXTENDS Lists, FiniteSets, Functions, TLC

CONSTANTS
    SecretList,                 \* the scenario's secrets, in its order
    Invented,                   \* what GM-only facts that turns add may say
    Conditions, NoCondition,    \* reveal conditions; reveal_condition_satisfied is None
    Declares,                   \* Declares[s]: the reveal conditions of secret s
    NpcList, PlaceList,         \* the scenario's NPCs and locations, in its order
    NoOne, Nowhere,             \* active_speaker_id or initial_location_id is None
    Factions, Quests, Objectives, Clocks,
    OpenQuests, OpenPlaces,     \* the quests and locations the scenario declares visible
    Player,                     \* "player" as an end of a relationship
    Clues, Items, SheetIds      \* ids a model gives to clues, items, traits and goals

Secrets == Range(SecretList)
Npcs == Range(NpcList)
Places == Range(PlaceList)
Hidden == Secrets \union Invented
Text == SUBSET Hidden
Ends == Npcs \union Factions \union {Player}

ASSUME ScenarioLists ==
    /\ SecretList \in Seq(Secrets) /\ NpcList \in Seq(Npcs) /\ PlaceList \in Seq(Places)
    /\ PlaceList # <<>> /\ NpcList # <<>>
    /\ IsInjective(SecretList) /\ IsInjective(NpcList) /\ IsInjective(PlaceList)
ASSUME DeclaresAssumption == Declares \in [Secrets -> SUBSET Conditions]
ASSUME InventedAssumption == Invented \intersect Secrets = {}
ASSUME NamesAssumption ==
    /\ NoCondition \notin Conditions /\ NoOne \notin Npcs /\ Nowhere \notin Places
    /\ OpenQuests \subseteq Quests /\ OpenPlaces \subseteq Places

\* The most an importance may be.
MaxWeight == 10

-----------------------------------------------------------------------------
(* Worlds.                                                                 *)

\* A secret's fact has the secret's id; a turn's is named by its version and its place.
Minted == Nat \X Nat
FactId == Secrets \union Minted

\* "others" stands for NpcKnown and FactionKnown.
Visibility == {"player", "gm", "others"}
QuestStatus == {"available", "active", "completed", "failed", "hidden"}

Fact == [id : FactId, says : Text, vis : Visibility, cites : SUBSET FactId,
         proof : Conditions \union {NoCondition}, knownBy : SUBSET Npcs]

Deed == [says : Text, shown : BOOLEAN]

\* deeds keeps the last offscreen action: no one reads an earlier one.
NpcState == [place : Places, present : BOOLEAN, shown : BOOLEAN, since : Nat,
             attitude : Text, knows : SUBSET FactId, deeds : SUBSET Deed]

FactionState == [since : Nat, notes : Text, pressure : Text, hiddenPressure : Text]
QuestState == [status : QuestStatus, objectives : SUBSET Objectives]
ClockState == [since : Nat, shown : BOOLEAN]
Memory == [id : Minted, says : Text, shown : BOOLEAN, weight : 0..MaxWeight]
Resolution == [id : Minted, says : Text, shown : BOOLEAN, clocks : SUBSET Clocks]
SheetEntry == [sort : {"trait", "goal", "condition"}, id : SheetIds, says : Text,
               shown : BOOLEAN, since : Nat]
Relationship == [since : Nat, notes : Text]
Clue == [id : Clues, text : Text, links : SUBSET Secrets, proves : SUBSET Conditions, shown : BOOLEAN]

\* Items and relationships come and go: ids and pairs are those there are.
WorldOf(ids, pairs) ==
         [version : Nat,
          speaker : Npcs \union {NoOne},
          place : Places,
          summary : Text,
          events : Text,
          facts : Seq(Fact),
          memories : Seq(Memory),
          actions : Seq(Resolution),
          npcs : [Npcs -> NpcState],
          factions : [Factions -> FactionState],
          quests : [Quests -> QuestState],
          clocks : [Clocks -> ClockState],
          items : [ids -> Nat],
          sheet : Seq(SheetEntry),
          gmNotes : Text,
          bonds : [pairs -> Relationship],
          clues : Seq(Clue)]

IsWorld(w) ==
    /\ DOMAIN w.items \subseteq Items
    /\ DOMAIN w.bonds \subseteq Ends \X Ends
    /\ w \in WorldOf(DOMAIN w.items, DOMAIN w.bonds)

\* Mutant: whoever is at the starting place is present, seen or not.
PresentUnseen(able, shown, home) == able /\ home = PlaceList[1]

\* able: neither dead nor unconscious.
FirstPresent(able, shown, home) == able /\ shown /\ home = PlaceList[1]

FirstNpcStates ==
    {[place |-> IF home = Nowhere THEN PlaceList[1] ELSE home,
      present |-> FirstPresent(able, shown, home),
      shown |-> shown, since |-> 0, attitude |-> {}, knows |-> {}, deeds |-> {}] :
        able \in BOOLEAN, shown \in BOOLEAN, home \in Places \union {Nowhere}}

InitialWorld(npcs) ==
    [version |-> 0,
     speaker |-> NpcList[1],
     place |-> PlaceList[1],
     summary |-> {},
     events |-> {},
     facts |-> [i \in DOMAIN SecretList |->
                   [id |-> SecretList[i], says |-> {SecretList[i]}, vis |-> "gm",
                    cites |-> {}, proof |-> NoCondition, knownBy |-> {}]],
     memories |-> <<>>,
     actions |-> <<>>,
     npcs |-> npcs,
     factions |-> [f \in Factions |->
                      [since |-> 0, notes |-> {}, pressure |-> {}, hiddenPressure |-> {}]],
     quests |-> [q \in Quests |->
                    [status |-> IF q \in OpenQuests THEN "available" ELSE "hidden", objectives |-> {}]],
     clocks |-> [c \in Clocks |-> [since |-> 0, shown |-> TRUE]],
     items |-> <<>>,
     sheet |-> <<>>,
     gmNotes |-> {},
     bonds |-> <<>>,
     clues |-> <<>>]

-----------------------------------------------------------------------------
(* Deltas: a list of changes, section by section in the reducer's order.   *)

Sections == <<"speaker", "summary", "memory", "fact", "action", "npc", "faction", "quest",
              "clock", "inventory", "player", "relationship", "clue", "location", "event">>

MemoryChange ==
         [of : {"memory"}, kind : {"Added"}, says : Text, shown : BOOLEAN, weight : 0..255]
  \union [of : {"memory"}, kind : {"ImportanceChanged"}, id : Minted, weight : 0..255]

FactToAdd == [of : {"fact"}, kind : {"Added"}, says : Text, vis : Visibility, cites : SUBSET FactId,
              proof : Conditions \union {NoCondition}, knownBy : SUBSET Npcs]

ActionChange == [of : {"action"}, kind : {"Recorded"}, says : Text, shown : BOOLEAN,
                 stakes : BOOLEAN, clocks : SUBSET Clocks]

NpcChange ==
         [of : {"npc"}, kind : {"AttitudeChanged"}, npc : Npcs, says : Text]
  \union [of : {"npc"}, kind : {"KnowledgeAdded"}, npc : Npcs, says : Text, vis : Visibility]
  \union [of : {"npc"}, kind : {"StatusChanged", "IntentChanged", "NoteAdded"}, npc : Npcs]
  \union [of : {"npc"}, kind : {"LocationChanged"}, npc : Npcs, to : Places]
  \union [of : {"npc"}, kind : {"VisibilityChanged"}, npc : Npcs, shown : BOOLEAN]
  \union [of : {"npc"}, kind : {"AvailabilityChanged"}, npc : Npcs, present : BOOLEAN]
  \union [of : {"npc"}, kind : {"OffscreenActionRecorded"}, npc : Npcs, says : Text, shown : BOOLEAN]

FactionChange ==
         [of : {"faction"}, kind : {"StandingChanged", "PressureChanged"}, faction : Factions]
  \union [of : {"faction"}, faction : Factions, says : Text,
          kind : {"GoalRevealed", "PublicNoteAdded", "HiddenNoteAdded",
                  "PublicPressureNoteAdded", "HiddenPressureNoteAdded"}]

QuestChange ==
         [of : {"quest"}, kind : {"Started", "Completed", "Failed"}, quest : Quests]
  \union [of : {"quest"}, kind : {"ObjectiveCompleted"}, quest : Quests, objective : Objectives]

ClockChange ==
         [of : {"clock"}, kind : {"Advanced", "SetValue"}, clock : Clocks]
  \union [of : {"clock"}, kind : {"VisibilityChanged"}, clock : Clocks, shown : BOOLEAN]

InventoryChange == [of : {"inventory"}, kind : {"Added", "Removed", "Updated"}, item : Items]

PlayerChange ==
         [of : {"player"}, kind : {"TraitAdded", "GoalAdded", "ConditionAdded"}, id : SheetIds,
          says : Text, shown : BOOLEAN]
  \union [of : {"player"}, kind : {"GoalProgressed", "ConditionCleared", "ResourceChanged"}, id : SheetIds]
  \union [of : {"player"}, kind : {"GmNoteAdded"}, says : Text]

\* "Measured" stands for Changed, TrustChanged, SuspicionChanged and LoyaltyChanged.
RelationshipChange ==
         [of : {"relationship"}, kind : {"Measured"}, pair : Ends \X Ends]
  \union [of : {"relationship"}, kind : {"NoteAdded"}, pair : Ends \X Ends, says : Text]

ClueChange ==
         [of : {"clue"}, kind : {"Discovered"}, clue : Clue]
  \union [of : {"clue"}, kind : {"VisibilityChanged"}, id : Clues, shown : BOOLEAN]

OneOff ==
         [of : {"speaker"}, kind : {"Changed"}, to : Npcs \union {NoOne}]
  \union [of : {"summary", "event"}, kind : {"Written"}, says : Text]
  \union [of : {"location"}, kind : {"Changed"}, to : Places]

Change ==
    MemoryChange \union FactToAdd \union ActionChange \union NpcChange \union FactionChange
        \union QuestChange \union ClockChange \union InventoryChange \union PlayerChange
        \union RelationshipChange \union ClueChange \union OneOff

Place(c) == CHOOSE i \in DOMAIN Sections : Sections[i] = c.of

Single == {"speaker", "summary", "location"}

\* Lists in the reducer's order; a section that is no list holds one change.
Sectioned(d) ==
    \A i, j \in DOMAIN d : i < j =>
        Place(d[i]) < Place(d[j]) \/ (d[i].of = d[j].of /\ d[i].of \notin Single)

In(d, section, kind) == {c \in Range(d) : c.of = section /\ c.kind = kind}

Count(d, section, kind) == Cardinality({i \in DOMAIN d : d[i].of = section /\ d[i].kind = kind})

=============================================================================
