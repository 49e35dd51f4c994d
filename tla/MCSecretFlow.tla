---------------------------- MODULE MCSecretFlow ----------------------------
(***************************************************************************)
(* Small instances of SecretFlow: two secrets that share a reveal          *)
(* condition, one NPC, two places.  A session's extractor writes changes   *)
(* of one repertoire: reveals, people, chronicle or things.                *)
(***************************************************************************)
EXTENDS SecretFlow

CONSTANTS mark, poison, rumour, seal, seraphyne, hall, crypt, guild, heist, ritual, key, scar

TwoSecrets == <<mark, poison>>
OneNpc == <<seraphyne>>
TwoPlaces == <<hall, crypt>>
SharedSeal == mark :> {seal} @@ poison :> {seal}

Truths == SUBSET {mark, poison} \ {{}}

PlayerFact(says, cites, proof) ==
    [of |-> "fact", kind |-> "Added", says |-> says, vis |-> "player", cites |-> cites,
     proof |-> proof, knownBy |-> {}]

GmFact == [PlayerFact({rumour}, {}, NoCondition) EXCEPT !.vis = "gm"]

Find(says, links, proves, shown) ==
    [of |-> "clue", kind |-> "Discovered",
     clue |-> [id |-> "residue", text |-> says, links |-> links, proves |-> proves, shown |-> shown]]

Reveals ==
         {PlayerFact(says, cites, proof) :
            says \in Truths, cites \in SUBSET {mark, poison}, proof \in {seal, NoCondition}}
  \union {Find({}, links, {seal}, shown) : links \in Truths, shown \in BOOLEAN}
  \union {[of |-> "clue", kind |-> "VisibilityChanged", id |-> "residue", shown |-> shown] :
            shown \in BOOLEAN}
  \union {GmFact, PlayerFact({rumour}, {}, NoCondition), Find({poison}, {}, {}, TRUE)}

Npc(kind) == [of |-> "npc", kind |-> kind, npc |-> seraphyne]

People ==
    {Npc("VisibilityChanged") @@ [shown |-> TRUE],
     Npc("VisibilityChanged") @@ [shown |-> FALSE],
     Npc("AvailabilityChanged") @@ [present |-> TRUE],
     Npc("LocationChanged") @@ [to |-> crypt],
     Npc("AttitudeChanged") @@ [says |-> {mark}],
     Npc("KnowledgeAdded") @@ [says |-> {}, vis |-> "player"],
     Npc("KnowledgeAdded") @@ [says |-> {mark}, vis |-> "others"],
     Npc("OffscreenActionRecorded") @@ [says |-> {poison}, shown |-> FALSE],
     Npc("OffscreenActionRecorded") @@ [says |-> {}, shown |-> TRUE],
     Npc("NoteAdded"),
     Npc("StatusChanged"),
     PlayerFact({}, {}, NoCondition),
     [of |-> "speaker", kind |-> "Changed", to |-> NoOne],
     [of |-> "relationship", kind |-> "Measured", pair |-> <<seraphyne, guild>>],
     [of |-> "location", kind |-> "Changed", to |-> crypt]}

Remember(says, shown, weight) ==
    [of |-> "memory", kind |-> "Added", says |-> says, shown |-> shown, weight |-> weight]

Chronicle ==
    {Remember({}, TRUE, 1), Remember({}, TRUE, 2), Remember({poison}, TRUE, 2),
     Remember({mark}, FALSE, 2), Remember({}, TRUE, 11),
     [of |-> "memory", kind |-> "ImportanceChanged", id |-> <<1, 1>>, weight |-> 3],
     [of |-> "memory", kind |-> "ImportanceChanged", id |-> <<1, 2>>, weight |-> 0],
     [of |-> "summary", kind |-> "Written", says |-> {mark}],
     [of |-> "summary", kind |-> "Written", says |-> {}],
     GmFact,
     [of |-> "action", kind |-> "Recorded", says |-> {}, shown |-> TRUE, stakes |-> TRUE, clocks |-> {ritual}],
     [of |-> "action", kind |-> "Recorded", says |-> {mark}, shown |-> FALSE, stakes |-> TRUE, clocks |-> {}],
     [of |-> "action", kind |-> "Recorded", says |-> {}, shown |-> TRUE, stakes |-> FALSE, clocks |-> {}],
     [of |-> "event", kind |-> "Written", says |-> {}]}

Things ==
         {[of |-> "quest", kind |-> kind, quest |-> heist] : kind \in {"Started", "Failed"}}
  \union {[of |-> "quest", kind |-> "ObjectiveCompleted", quest |-> heist, objective |-> key]}
  \union {[of |-> "clock", kind |-> "Advanced", clock |-> ritual],
          [of |-> "clock", kind |-> "VisibilityChanged", clock |-> ritual, shown |-> FALSE]}
  \union {[of |-> "inventory", kind |-> kind, item |-> key] : kind \in {"Added", "Removed", "Updated"}}
  \union {[of |-> "player", kind |-> kind, id |-> scar, says |-> {}, shown |-> TRUE] :
            kind \in {"TraitAdded", "GoalAdded"}}
  \union {[of |-> "player", kind |-> "ConditionAdded", id |-> scar, says |-> {mark}, shown |-> FALSE]}
  \union {[of |-> "player", kind |-> kind, id |-> scar] :
            kind \in {"GoalProgressed", "ConditionCleared", "ResourceChanged"}}
  \union {[of |-> "player", kind |-> "GmNoteAdded", says |-> {poison}]}
  \union {[of |-> "faction", kind |-> "StandingChanged", faction |-> guild]}
  \union {[of |-> "faction", kind |-> kind, faction |-> guild, says |-> {mark}] :
            kind \in {"PublicNoteAdded", "HiddenNoteAdded", "HiddenPressureNoteAdded"}}
  \union {[of |-> "faction", kind |-> "PublicPressureNoteAdded", faction |-> guild, says |-> {poison}]}
  \union {[of |-> "relationship", kind |-> "NoteAdded", pair |-> <<Player, guild>>, says |-> {}]}

Repertoires ==
    [reveals |-> Reveals, people |-> People, chronicle |-> Chronicle, things |-> Things]

=============================================================================
