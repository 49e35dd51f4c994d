----------------------------- MODULE StoryViews -----------------------------
(***************************************************************************)
(* Who is shown what of a world.  BasicContextBuilder picks what the       *)
(* language model may hear of; of that the narrator's prompt renders the   *)
(* player's side and the extractor's (oracle) prompt all of it.            *)
(* BasicFrontendStateProjector shows a viewer the world, and               *)
(* changed_entities tells the client what a turn has touched.              *)
(***************************************************************************)
EXTENDS StoryRules

CONSTANTS GmFactLimit, PlayerMemoryLimit, GmMemoryLimit, ResolutionLimit, MessageLimit

ASSUME LimitsAssumption ==
    {GmFactLimit, PlayerMemoryLimit, GmMemoryLimit, ResolutionLimit, MessageLimit} \subseteq Nat

\* The first and the last n of a set of places.
Firsts(n, places) == {i \in places : Cardinality({j \in places : j <= i}) <= n}
Lasts(n, places) == {i \in places : Cardinality({j \in places : j >= i}) <= n}

\* Mutant: the list is read from its front.
FirstN(n, list) == SubSeq(list, 1, IF n < Len(list) THEN n ELSE Len(list))

LastN(n, list) == SubSeq(list, IF n < Len(list) THEN Len(list) - n + 1 ELSE 1, Len(list))

Says(items) == UNION {item.says : item \in items}

\* Mutant: the GM's items are left in.
Unfiltered(list) == Range(list)

Shown(list) == {item \in Range(list) : item.shown}

-----------------------------------------------------------------------------
(* The context of a prompt.                                                *)

\* The active speaker, and whoever is present where the player is; seen or not.
RelevantNpcs(w) ==
    {n \in Npcs : n = w.speaker \/ (w.npcs[n].present /\ w.npcs[n].place = w.place)}

\* What each NPC did last where the player is not looking.
OffscreenNpcActivity(w) == UNION {w.npcs[n].deeds : n \in Npcs}

\* All that have a state, and all have one.
RelevantFactions(w) == Range(w.factions)

RelevantBonds(w) ==
    {p \in DOMAIN w.bonds : \E end \in {p[1], p[2]} : end = Player \/ end \in RelevantNpcs(w)}

\* Mutant: the newest GM-only facts are taken.
NewestGmFacts(w) ==
    {w.facts[i] : i \in Lasts(GmFactLimit, {i \in DOMAIN w.facts : w.facts[i].vis = "gm"})}

ReachableGmFacts(w) ==
    {w.facts[i] : i \in Firsts(GmFactLimit, {i \in DOMAIN w.facts : w.facts[i].vis = "gm"})}

RecentResolutions(w) ==
    {w.actions[i] : i \in Lasts(ResolutionLimit, {i \in DOMAIN w.actions : w.actions[i].shown})}

\* Place i of memories is told before place j.
Outranks(memories, i, j) ==
    \/ memories[i].weight > memories[j].weight
    \/ memories[i].weight = memories[j].weight /\ i < j

PrioritizedMemories(memories, shown, limit) ==
    LET places == {i \in DOMAIN memories : memories[i].shown = shown}
        outrank(i) == {j \in places : Outranks(memories, j, i)}
    IN  {memories[i] : i \in {i \in places : Cardinality(outrank(i)) < limit}}

AgentContext(w, messages) ==
    [npcs |-> RelevantNpcs(w),
     attitudes |-> {w.npcs[n].attitude : n \in RelevantNpcs(w)},
     offscreen |-> OffscreenNpcActivity(w),
     factions |-> RelevantFactions(w),
     bonds |-> RelevantBonds(w),
     quests |-> {q \in Quests : w.quests[q].status \in {"active", "available"}},
     clocks |-> Clocks,
     resolutions |-> RecentResolutions(w),
     clues |-> Shown(w.clues),
     sheet |-> Shown(w.sheet),
     gmNotes |-> w.gmNotes,
     facts |-> PlayerFacts(w),
     gmFacts |-> ReachableGmFacts(w),
     memories |-> PrioritizedMemories(w.memories, TRUE, PlayerMemoryLimit),
     gmMemories |-> PrioritizedMemories(w.memories, FALSE, GmMemoryLimit),
     summary |-> w.summary,
     messages |-> LastN(MessageLimit, messages)]

-----------------------------------------------------------------------------
(* The two prompts are the same sections, with the GM's side (gm) or not.  *)

If(gm, text) == IF gm THEN text ELSE {}

\* Of the GM-only facts render_gm_only_facts leaves out those that share no word with the
\* player's input and the scene's names: with the right input, none.
FactsSection(context, gm) == Says(context.facts) \union If(gm, Says(context.gmFacts))

MemorySection(context, gm) == Says(context.memories) \union If(gm, Says(context.gmMemories))

PlayerStateSection(context, gm) == Says(context.sheet) \union If(gm, context.gmNotes)

\* Public notes, revealed goals and notes on relationships are rendered nowhere.
SocialStateSection(context, gm) ==
    UNION {f.pressure \union If(gm, f.hiddenPressure) : f \in context.factions}

NpcAgencySection(context, gm) ==
    (UNION context.attitudes)
        \union UNION {d.says : d \in {d \in context.offscreen : gm \/ d.shown}}

ActionResolutionSection(context) == Says(context.resolutions)

ClueSection(context) == UNION {k.text : k \in context.clues}

Prompt(w, messages, gm) ==
    LET context == AgentContext(w, messages)
    IN  UNION {FactsSection(context, gm), PlayerStateSection(context, gm),
               SocialStateSection(context, gm), NpcAgencySection(context, gm),
               ActionResolutionSection(context), ClueSection(context),
               MemorySection(context, gm), context.summary, UNION Range(context.messages)}

NarrationContext(w, messages) == Prompt(w, messages, FALSE)

OracleContext(w, messages) == Prompt(w, messages, TRUE)

-----------------------------------------------------------------------------
(* The viewer's state.                                                     *)

Sees(shown, admin) == shown \/ admin

ViewedNpcs(w, admin) ==
    {[id |-> n, since |-> w.npcs[n].since, present |-> w.npcs[n].present,
      attitude |-> w.npcs[n].attitude] : n \in {n \in Npcs : Sees(w.npcs[n].shown, admin)}}

ViewedFactions(w) ==
    {[id |-> f, since |-> w.factions[f].since, notes |-> w.factions[f].notes,
      pressure |-> w.factions[f].pressure] : f \in Factions}

ViewedBonds(w, admin) ==
    LET npcs == {n.id : n \in ViewedNpcs(w, admin)}
        seen(p) == Player \in {p[1], p[2]} \/ npcs \intersect {p[1], p[2]} # {}
    IN  {[id |-> p, bond |-> w.bonds[p]] : p \in {p \in DOMAIN w.bonds : Sees(seen(p), admin)}}

ViewedQuests(w, admin) ==
    {[id |-> q, status |-> w.quests[q].status] :
        q \in {q \in Quests : Sees(q \in OpenQuests /\ w.quests[q].status # "hidden", admin)}}

ViewedClocks(w, admin) ==
    {[id |-> c, since |-> w.clocks[c].since] : c \in {c \in Clocks : Sees(w.clocks[c].shown, admin)}}

ViewedFacts(w, admin) ==
    {[id |-> f.id, says |-> f.says] : f \in {f \in Range(w.facts) : Sees(f.vis = "player", admin)}}

ViewedPlace(w, admin) == {p \in {w.place} : Sees(p \in OpenPlaces, admin)}

ViewedItems(list, admin) == {item \in Range(list) : Sees(item.shown, admin)}

\* What a view has of each type of entity.
Project(type, w, admin) ==
    CASE type = "npc" -> ViewedNpcs(w, admin)
      [] type = "faction" -> ViewedFactions(w)
      [] type = "relationship" -> ViewedBonds(w, admin)
      [] type = "quest" -> ViewedQuests(w, admin)
      [] type = "clock" -> ViewedClocks(w, admin)
      [] type = "fact" -> ViewedFacts(w, admin)
      [] type = "action" -> ViewedItems(w.actions, admin)
      [] type = "clue" -> ViewedItems(w.clues, admin)
      [] type = "player" -> ViewedItems(w.sheet, admin)
      [] type = "memory" -> ViewedItems(w.memories, admin)
      [] type = "location" -> ViewedPlace(w, admin)
      [] type = "speaker" -> {w.speaker} \intersect {n.id : n \in ViewedNpcs(w, admin)}

\* What a viewer's state spells out.
SpeltTo(w, admin) ==
    LET saying(type) == UNION {item.says : item \in Project(type, w, admin)}
    IN  UNION {saying("fact"), saying("action"), saying("player"), saying("memory"), w.events,
               UNION {f.notes \union f.pressure : f \in Project("faction", w, admin)},
               UNION {k.text : k \in Project("clue", w, admin)},
               UNION {b.bond.notes : b \in Project("relationship", w, admin)},
               UNION {n.attitude : n \in Project("npc", w, admin)}}

\* build_opening_intro names things of the player's view of the first world.
OpeningIntro(w) == SpeltTo(w, FALSE)

\* The ids of type's entities among the changed_entities of a patch.  Facts, resolutions
\* and clues are read from the end of the world's lists: as many as the delta adds.
ChangedEntities(type, w, d) ==
    LET ids(list) == {item.id : item \in Range(list)}
        about == {c \in Range(d) : c.of = type}
    IN  CASE type = "fact" -> ids(LastN(Count(d, "fact", "Added"), w.facts))
          [] type = "action" -> ids(LastN(Count(d, "action", "Recorded"), w.actions))
          [] type = "clue" -> ids(LastN(Count(d, "clue", "Discovered"), w.clues))
          [] type = "npc" -> {c.npc : c \in about}
          [] type = "faction" -> {c.faction : c \in about}
          [] type = "quest" -> {c.quest : c \in about}
          [] type = "clock" -> {c.clock : c \in about}
          [] type = "relationship" -> {c.pair : c \in about}
          [] type = "player" -> {Player : c \in about}
          [] type = "location" -> {c.to : c \in about}

=============================================================================
