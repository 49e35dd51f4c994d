----------------------------- MODULE StoryRules -----------------------------
(***************************************************************************)
(* Which deltas BasicDeltaValidator accepts, and what                      *)
(* BasicWorldStateReducer makes of one that it accepted.  The validator    *)
(* judges every change against the stored world (and, for clues and        *)
(* actions, the delta); the reducer applies them one after the other.      *)
(***************************************************************************)
EXTENDS Story

-----------------------------------------------------------------------------
(* The validator.                                                          *)

\* secret_conditions: a citation of anything else is an unknown entity.
DeclaredBy(s) == IF s \in Secrets THEN Declares[s] ELSE {}

GmFacts(w) == {f \in Range(w.facts) : f.vis = "gm"}
PlayerFacts(w) == {f \in Range(w.facts) : f.vis = "player"}

\* find_leaked_gm_only_facts: the GM-only facts whose text is part of the text.
Leaked(w, text) == {f \in GmFacts(w) : f.says # {} /\ f.says \subseteq text}

Covers(k, cites, proof) == cites \subseteq k.links /\ proof \in k.proves

ProofInWorld(w, f) == \E k \in Range(w.clues) : k.shown /\ Covers(k, f.cites, f.proof)

\* Mutant: a clue that is discovered unseen will do.
AnyProofInDelta(w, d, f) ==
    \E c \in In(d, "clue", "Discovered") : f.proof \in Conditions

ProofInDelta(w, d, f) ==
    \/ \E c \in In(d, "clue", "Discovered") :
          c.clue.shown /\ Covers(c.clue, f.cites, f.proof)
    \/ \E c \in In(d, "clue", "VisibilityChanged") :
          c.shown /\ \E k \in Range(w.clues) : k.id = c.id /\ Covers(k, f.cites, f.proof)

LegalProof(w, d, f) ==
    /\ \A s \in f.cites : f.proof \in DeclaredBy(s)
    /\ ProofInWorld(w, f) \/ ProofInDelta(w, d, f)

\* Mutant: one citation is enough for everything the text spells out.
FirstLeakCited(w, f) ==
    Leaked(w, f.says) # {} => \E g \in Leaked(w, f.says) : g.id \in f.cites /\ f.proof # NoCondition

\* That the leaked fact has conditions at all is part of LegalProof.
LeaksCited(w, f) == \A g \in Leaked(w, f.says) : g.id \in f.cites /\ f.proof # NoCondition

LegalFact(w, d, c) ==
    (c.of = "fact" /\ c.vis = "player") =>
        /\ LeaksCited(w, c)
        /\ c.cites # {} => c.proof # NoCondition
        /\ c.proof # NoCondition => LegalProof(w, d, c)

\* Knowledge an NPC gains is never a way to reveal a secret.
LegalKnowledge(w, c) ==
    (c.of = "npc" /\ c.kind = "KnowledgeAdded" /\ c.vis = "player") => Leaked(w, c.says) = {}

\* Mutant: no limit to importance.
AnyWeight(w, c) ==
    (c.of = "memory" /\ c.kind = "ImportanceChanged") => \E m \in Range(w.memories) : m.id = c.id

LegalMemory(w, c) ==
    c.of = "memory" =>
        /\ c.weight <= MaxWeight
        /\ c.kind = "ImportanceChanged" => \E m \in Range(w.memories) : m.id = c.id

\* delta_has_observable_consequence
Observable(d) == \E c \in Range(d) : c.of \notin {"speaker", "summary", "memory", "action"}

LegalAction(d, c) == c.of = "action" => c.stakes /\ Observable(d)

LegalInventory(w, c) ==
    (c.of = "inventory" /\ c.kind # "Added") => c.item \in DOMAIN w.items

\* No scenario gives the player a resource and no change adds one.
LegalPlayer(w, c) ==
    c.of = "player" =>
        /\ c.kind # "ResourceChanged"
        /\ c.kind = "GoalProgressed" => \E e \in Range(w.sheet) : e.sort = "goal" /\ e.id = c.id
        /\ c.kind = "ConditionCleared" => \E e \in Range(w.sheet) : e.sort = "condition" /\ e.id = c.id

LegalLinks(k) ==
    /\ k.links # {} => k.proves # {}
    /\ \A condition \in k.proves : \E s \in k.links : condition \in Declares[s]

LegalClue(w, d, c) ==
    c.of = "clue" =>
        IF c.kind = "Discovered" THEN LegalLinks(c.clue)
        ELSE \/ \E k \in Range(w.clues) : k.id = c.id
             \/ \E found \in In(d, "clue", "Discovered") : found.clue.id = c.id

Valid(w, d) ==
    \A c \in Range(d) :
        /\ LegalMemory(w, c) /\ LegalFact(w, d, c) /\ LegalAction(d, c) /\ LegalKnowledge(w, c)
        /\ LegalInventory(w, c) /\ LegalPlayer(w, c) /\ LegalClue(w, d, c)

-----------------------------------------------------------------------------
(* The reducer.  An id is unique because the list it is minted for only    *)
(* grows while the version stands still.                                   *)

\* Mutant: the place in the list is left out.
MintByVersion(w, list) == <<w.version + 1, 1>>

Mint(w, list) == <<w.version + 1, Len(list) + 1>>

Now(w) == w.version + 1

ApplyMemory(w, c) ==
    IF c.kind = "Added"
    THEN [w EXCEPT !.memories = Append(@, [id |-> Mint(w, @), says |-> c.says,
                                           shown |-> c.shown, weight |-> c.weight])]
    ELSE [w EXCEPT !.memories = [i \in DOMAIN @ |->
                                    IF @[i].id = c.id THEN [@[i] EXCEPT !.weight = c.weight] ELSE @[i]]]

AddFact(w, c, cites, proof, knownBy) ==
    [w EXCEPT !.facts = Append(@, [id |-> Mint(w, @), says |-> c.says, vis |-> c.vis, cites |-> cites,
                                   proof |-> proof, knownBy |-> knownBy])]

ApplyFact(w, c) == AddFact(w, c, c.cites, c.proof, c.knownBy)

ApplyAction(w, c) ==
    [w EXCEPT !.actions = Append(@, [id |-> Mint(w, @), says |-> c.says,
                                     shown |-> c.shown, clocks |-> c.clocks])]

\* The fact goes to the world's facts, its id to what the NPC knows.
Learn(w, c) ==
    [AddFact(w, c, {}, NoCondition, {c.npc}) EXCEPT !.npcs[c.npc].knows = @ \union {Mint(w, w.facts)}]

NpcAfter(npc, c, now) ==
    CASE c.kind = "AttitudeChanged" -> [npc EXCEPT !.attitude = c.says, !.since = now]
      [] c.kind = "StatusChanged" -> [npc EXCEPT !.since = now]
      [] c.kind = "LocationChanged" -> [npc EXCEPT !.place = c.to]
      [] c.kind = "VisibilityChanged" -> [npc EXCEPT !.shown = c.shown]
      [] c.kind = "AvailabilityChanged" -> [npc EXCEPT !.present = c.present]
      [] c.kind = "OffscreenActionRecorded" ->
            [npc EXCEPT !.deeds = {[says |-> c.says, shown |-> c.shown]}]
      [] c.kind \in {"IntentChanged", "NoteAdded"} -> npc

ApplyNpc(w, c) ==
    IF c.kind = "KnowledgeAdded" THEN Learn(w, c)
    ELSE [w EXCEPT !.npcs[c.npc] = NpcAfter(@, c, Now(w))]

\* Hidden notes are kept and never read again.
FactionAfter(faction, c, now) ==
    CASE c.kind \in {"StandingChanged", "PressureChanged"} -> [faction EXCEPT !.since = now]
      [] c.kind \in {"GoalRevealed", "PublicNoteAdded"} ->
            [faction EXCEPT !.notes = @ \union c.says, !.since = now]
      [] c.kind = "PublicPressureNoteAdded" ->
            [faction EXCEPT !.pressure = @ \union c.says, !.since = now]
      [] c.kind = "HiddenPressureNoteAdded" ->
            [faction EXCEPT !.hiddenPressure = @ \union c.says]
      [] c.kind = "HiddenNoteAdded" -> faction

ApplyFaction(w, c) == [w EXCEPT !.factions[c.faction] = FactionAfter(@, c, Now(w))]

QuestBecomes == [Started |-> "active", Completed |-> "completed", Failed |-> "failed"]

\* Starting a quest shows it to no one: visible is the scenario's.
ApplyQuest(w, c) ==
    IF c.kind = "ObjectiveCompleted"
    THEN [w EXCEPT !.quests[c.quest].objectives = @ \union {c.objective}]
    ELSE [w EXCEPT !.quests[c.quest].status = QuestBecomes[c.kind]]

ApplyClock(w, c) ==
    IF c.kind = "VisibilityChanged" THEN [w EXCEPT !.clocks[c.clock].shown = c.shown]
    ELSE [w EXCEPT !.clocks[c.clock].since = Now(w)]

\* An item that an earlier change of the delta removed is not there to update.
ApplyInventory(w, c) ==
    CASE c.kind = "Added" -> [w EXCEPT !.items = Put(@, c.item, Now(w))]
      [] c.kind = "Removed" -> [w EXCEPT !.items = Restrict(@, DOMAIN @ \ {c.item})]
      [] c.kind = "Updated" ->
            IF c.item \in DOMAIN w.items THEN [w EXCEPT !.items[c.item] = Now(w)] ELSE w

SheetSort == [TraitAdded |-> "trait", GoalAdded |-> "goal", ConditionAdded |-> "condition"]

\* Progress goes to the first goal with the id; clearing takes every condition with it.
Progress(sheet, id, now) ==
    LET goals == {i \in DOMAIN sheet : sheet[i].sort = "goal" /\ sheet[i].id = id}
    IN  [i \in DOMAIN sheet |->
            IF i \in goals /\ \A j \in goals : i <= j THEN [sheet[i] EXCEPT !.since = now] ELSE sheet[i]]

ApplyPlayer(w, c) ==
    CASE c.kind \in DOMAIN SheetSort ->
            [w EXCEPT !.sheet = Append(@, [sort |-> SheetSort[c.kind], id |-> c.id, says |-> c.says,
                                           shown |-> c.shown, since |-> Now(w)])]
      [] c.kind = "GoalProgressed" -> [w EXCEPT !.sheet = Progress(@, c.id, Now(w))]
      [] c.kind = "ConditionCleared" ->
            [w EXCEPT !.sheet = Kept(@, {i \in DOMAIN @ : ~ (@[i].sort = "condition" /\ @[i].id = c.id)})]
      [] c.kind = "GmNoteAdded" -> [w EXCEPT !.gmNotes = @ \union c.says]

\* find_or_insert_relationship_mut
Bond(w, pair) == IF pair \in DOMAIN w.bonds THEN w.bonds[pair] ELSE [since |-> 0, notes |-> {}]

ApplyRelationship(w, c) ==
    LET notes == IF c.kind = "NoteAdded" THEN c.says ELSE {}
        bond == [since |-> Now(w), notes |-> Bond(w, c.pair).notes \union notes]
    IN  [w EXCEPT !.bonds = Put(@, c.pair, bond)]

\* A clue that is discovered again is rewritten where it stands; one that is shown
\* before the delta discovers it is not there yet.
ApplyClue(w, c) ==
    LET found == c.kind = "Discovered"
        id == IF found THEN c.clue.id ELSE c.id
        rewritten(k) == IF found THEN c.clue ELSE [k EXCEPT !.shown = c.shown]
    IN  CASE \E k \in Range(w.clues) : k.id = id ->
                [w EXCEPT !.clues = [i \in DOMAIN @ |-> IF @[i].id = id THEN rewritten(@[i]) ELSE @[i]]]
          [] ~ (\E k \in Range(w.clues) : k.id = id) ->
                IF found THEN [w EXCEPT !.clues = Append(@, c.clue)] ELSE w

Apply(w, c) ==
    CASE c.of = "speaker" -> [w EXCEPT !.speaker = c.to]
      [] c.of = "summary" -> [w EXCEPT !.summary = c.says]
      [] c.of = "memory" -> ApplyMemory(w, c)
      [] c.of = "fact" -> ApplyFact(w, c)
      [] c.of = "action" -> ApplyAction(w, c)
      [] c.of = "npc" -> ApplyNpc(w, c)
      [] c.of = "faction" -> ApplyFaction(w, c)
      [] c.of = "quest" -> ApplyQuest(w, c)
      [] c.of = "clock" -> ApplyClock(w, c)
      [] c.of = "inventory" -> ApplyInventory(w, c)
      [] c.of = "player" -> ApplyPlayer(w, c)
      [] c.of = "relationship" -> ApplyRelationship(w, c)
      [] c.of = "clue" -> ApplyClue(w, c)
      [] c.of = "location" -> [w EXCEPT !.place = c.to]
      [] c.of = "event" -> [w EXCEPT !.events = @ \union c.says]

\* The working world after each change.
Course(w, d) ==
    LET course[i \in 0..Len(d)] == IF i = 0 THEN w ELSE Apply(course[i - 1], d[i])
    IN  course

Reduce(w, d) == [Course(w, d)[Len(d)] EXCEPT !.version = @ + 1]

=============================================================================
