----------------------------- MODULE SecretFlow -----------------------------
(***************************************************************************)
(* What a session does with its scenario's secrets.  Each turn calls the   *)
(* language model twice: the narrator sees the narration context, which    *)
(* leaves the GM's side out, and writes the player's text; the extractor   *)
(* sees the oracle context and writes the delta.  The validator lets a     *)
(* delta state a secret as a player-known fact only if it cites the secret *)
(* and a reveal condition that a clue has shown.  Every other text of a    *)
(* delta is taken as it is.                                                *)
(***************************************************************************)
EXTENDS StoryViews

CONSTANTS
    Topics,
    Repertoire,     \* bound: Repertoire[t] is what the extractor may write in a session about t
    MaxChanges,     \* bound: changes in one delta
    MaxTurns        \* bound: turns

ASSUME RepertoireAssumption == \A t \in Topics : Repertoire[t] \subseteq Change
ASSUME BoundsAssumption == {MaxChanges, MaxTurns} \subseteq Nat

VARIABLES
    topic,      \* what this session is about
    stored,     \* the world in the store
    messages,   \* what each message of the session spells out
    phase,      \* "idle", "narrated"
    turns,
    response,   \* the narration of the turn at work
    delta,      \* the delta of the turn that ended last, until the next begins
    told,       \* history: what any narrator's prompt has spelt out
    slipped,    \* history: what the unchecked texts of accepted deltas spell out
    linked,     \* history: links and conditions of every clue a turn discovered
    summoned    \* history: the NPCs a turn made present or hid

vars == <<topic, stored, messages, phase, turns, response, delta, told, slipped, linked, summoned>>

\* Deltas[t]: the deltas of a session about t, those with no change among them.
Deltas ==
    [t \in Topics |->
        {d \in UNION {[1..n -> Repertoire[t]] : n \in 0..MaxChanges} : Sectioned(d)}]

\* The texts that are for the player and that nobody compares with the GM-only facts.
Unchecked(c) ==
    \/ c.of \in {"summary", "event"}
    \/ c.of \in {"memory", "action", "player"} /\ "shown" \in DOMAIN c /\ c.shown
    \/ c.of = "npc" /\ c.kind = "AttitudeChanged"
    \/ c.of = "npc" /\ c.kind = "OffscreenActionRecorded" /\ c.shown
    \/ /\ c.of = "faction"
       /\ c.kind \in {"GoalRevealed", "PublicNoteAdded", "PublicPressureNoteAdded"}
    \/ c.of = "relationship" /\ c.kind = "NoteAdded"

Slips(d) ==
    (UNION {c.says : c \in {c \in Range(d) : Unchecked(c) /\ "says" \in DOMAIN c}})
        \union UNION {c.clue.text : c \in In(d, "clue", "Discovered")}

Summons(d) ==
    {c.npc : c \in {c \in Range(d) :
        /\ c.of = "npc"
        /\ \/ c.kind = "AvailabilityChanged" /\ c.present
           \/ c.kind = "VisibilityChanged" /\ ~ c.shown}}

-----------------------------------------------------------------------------
(* The actions of a turn.                                                  *)

Init ==
    /\ topic \in Topics
    /\ \E npcs \in [Npcs -> FirstNpcStates] : stored = InitialWorld(npcs)
    /\ messages = <<OpeningIntro(stored)>>
    /\ phase = "idle"
    /\ turns = 0
    /\ response = {}
    /\ delta = <<>>
    /\ told = {} /\ slipped = {} /\ linked = {} /\ summoned = {}

\* The state is loaded and the narrator's context built from it; how the player's
\* input is classified only chooses the instructions around it.
PrepareTurnContext == NarrationContext(stored, messages)

\* A model writes what its prompt spells out; the player's own guesses are left out.
Narrate ==
    /\ phase = "idle"
    /\ turns < MaxTurns
    /\ turns' = turns + 1
    /\ told' = told \union PrepareTurnContext
    /\ response' \in SUBSET PrepareTurnContext
    /\ phase' = "narrated"
    /\ delta' = <<>>
    /\ UNCHANGED <<topic, stored, messages, slipped, linked, summoned>>

\* The extractor may write any text; what it wrote is validated, reduced and persisted.
Persist ==
    /\ phase = "narrated"
    /\ \E d \in Deltas[topic] :
          /\ Valid(stored, d)
          /\ stored' = Reduce(stored, d)
          /\ delta' = d
          /\ slipped' = slipped \union Slips(d)
          /\ linked' = linked \union {[links |-> c.clue.links, proves |-> c.clue.proves] :
                                         c \in In(d, "clue", "Discovered")}
          /\ summoned' = summoned \union Summons(d)
    /\ messages' = messages \o <<{}, response>>
    /\ response' = {}
    /\ phase' = "idle"
    /\ UNCHANGED <<topic, turns, told>>

\* A provider error, an unusable delta or a rejected one: nothing is kept.
Abandon ==
    /\ phase = "narrated"
    /\ phase' = "idle"
    /\ response' = {}
    /\ UNCHANGED <<topic, stored, messages, turns, delta, told, slipped, linked, summoned>>

Next == Narrate \/ Persist \/ Abandon

Spec == Init /\ [][Next]_vars

-----------------------------------------------------------------------------
(* Properties.                                                             *)

TypeOK ==
    /\ topic \in Topics
    /\ IsWorld(stored)
    /\ messages \in Seq(Text)
    /\ phase \in {"idle", "narrated"}
    /\ turns \in 0..MaxTurns
    /\ delta \in Seq(Repertoire[topic])
    /\ {response, told, slipped} \subseteq Text
    /\ linked \subseteq [links : SUBSET Secrets, proves : SUBSET Conditions]
    /\ summoned \subseteq Npcs

(* A fact that becomes player-known and spells out what GM-only facts of   *)
(* the stored world say cites each of them, and a condition that each of   *)
(* them declares; so what a turn made GM-only is never revealed by facts.  *)
RevealsAreCited ==
    [][\A f \in PlayerFacts(stored') \ PlayerFacts(stored) :
          \A g \in Leaked(stored, f.says) :
              g.id \in f.cites /\ f.proof \in DeclaredBy(g.id)]_vars

(* Behind every reveal there is a clue that a turn of the session          *)
(* discovered, linked to all the secrets the fact spells out and carrying  *)
(* the condition it cites.                                                 *)
RevealsWereLinked ==
    \A f \in PlayerFacts(stored) :
        LET secrets == f.says \intersect Secrets
        IN  secrets # {} =>
                \E k \in linked : secrets \subseteq k.links /\ f.proof \in k.proves

Ids(entries) == {e.id : e \in entries}

Revealed == Says(PlayerFacts(stored))

(* The secrecy boundary as the code keeps it: the only ways by which a     *)
(* secret gets into a narrator's prompt, or into what the player is shown  *)
(* of the world, are a revealed fact and the extractor's own words to the  *)
(* player.  Nothing of the GM's side is let through by the context         *)
(* builder, the renderer or the projection, through any number of turns.   *)
SecretsStayHidden ==
    (told \union SpeltTo(stored, FALSE)) \intersect Secrets \subseteq Revealed \union slipped

(* Ids tell facts, memories and resolutions apart however many a delta     *)
(* adds, and what an NPC is said to know is a fact that names the NPC.     *)
IdsHold ==
    /\ \A list \in {stored.memories, stored.actions} : IsInjective([i \in DOMAIN list |-> list[i].id])
    /\ IsInjective([i \in DOMAIN stored.facts |-> stored.facts[i].id])
    /\ \A n \in Npcs : \A id \in stored.npcs[n].knows :
          \E f \in Range(stored.facts) : f.id = id /\ n \in f.knownBy

(* The limits of the prompts cut the right things off: a secret of the     *)
(* scenario is never crowded out of the extractor's prompt by what turns   *)
(* make GM-only (an input that shares no word with it may still leave it   *)
(* out), and a memory the narrator is not told has lost to as many as the  *)
(* limit lets through, each of them more important or as important and     *)
(* older.                                                                  *)
LimitsCutTheTail ==
    LET w == stored
        context == AgentContext(w, messages)
    IN  /\ {SecretList[i] : i \in {i \in DOMAIN SecretList : i <= GmFactLimit}} \subseteq OracleContext(w, messages)
        /\ \A i \in DOMAIN w.memories :
              (w.memories[i].shown /\ w.memories[i] \notin context.memories) =>
                  PlayerMemoryLimit =
                      Cardinality({j \in DOMAIN w.memories :
                          w.memories[j] \in context.memories /\ Outranks(w.memories, j, i)})

(* The narrator's scene and the player's are one, though two components    *)
(* pick them.  What the player sees of the scene's people, open quests,    *)
(* clocks, facts, clues and own sheet the narrator is told; and an NPC the *)
(* player does not see is in the narrator's cast only as the active        *)
(* speaker, or because a turn made it present or hid it.                   *)
NarratorKnowsTheScene ==
    LET w == stored
        context == AgentContext(w, messages)
        seen(type) == Ids(Project(type, w, FALSE))
        prompt == NarrationContext(w, messages)
    IN  /\ {n \in seen("npc") : w.npcs[n].present /\ w.npcs[n].place = w.place} \subseteq context.npcs
        /\ {q \in seen("quest") : w.quests[q].status \in {"available", "active"}} \subseteq context.quests
        /\ {p \in seen("relationship") : Player \in {p[1], p[2]}} \subseteq context.bonds
        /\ seen("clock") \subseteq context.clocks
        /\ \A type \in {"fact", "player"} :
              UNION {item.says : item \in Project(type, w, FALSE)} \subseteq prompt
        /\ UNION {k.text : k \in Project("clue", w, FALSE)} \subseteq prompt
        /\ \A n \in context.npcs : w.npcs[n].shown \/ n = w.speaker \/ n \in summoned

\* The entities of a type whose entry in the view is not what it was.
Differing(type, before, after, admin) ==
    LET old == Project(type, before, admin)
        new == Project(type, after, admin)
    IN  Ids((old \ new) \union (new \ old))

\* No clue is shown, hidden or discovered a second time.
OnlyNewClues(w, d) ==
    LET found == In(d, "clue", "Discovered")
        ids == {c.clue.id : c \in found}
    IN  /\ In(d, "clue", "VisibilityChanged") = {}
        /\ Cardinality(ids) = Count(d, "clue", "Discovered")
        /\ ids \intersect Ids(Range(w.clues)) = {}

(* What a turn changes in anyone's view, the turn's patch names: NPCs,     *)
(* factions, quests, clocks, resolutions, the player's sheet, the place; a *)
(* relationship by itself or by an NPC whose appearance brings it along;   *)
(* facts unless the delta also gives NPCs knowledge, and clues unless it   *)
(* shows, hides or rediscovers one.                                        *)
PatchNamesChanges ==
    [][delta' # <<>> => \A admin \in BOOLEAN :
        LET named(type) == ChangedEntities(type, stored', delta')
            differing(type) == Differing(type, stored, stored', admin)
        IN  /\ \A type \in {"npc", "faction", "quest", "clock", "action"} :
                  differing(type) \subseteq named(type)
            /\ differing("player") # {} => Player \in named("player")
            /\ Project("location", stored', admin) \subseteq {stored.place} \union named("location")
            /\ \A p \in differing("relationship") :
                  p \in named("relationship") \/ {p[1], p[2]} \intersect named("npc") # {}
            /\ In(delta', "npc", "KnowledgeAdded") = {} => differing("fact") \subseteq named("fact")
            /\ OnlyNewClues(stored, delta') => differing("clue") \subseteq named("clue")]_vars

=============================================================================
