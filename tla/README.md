# TLA+ models of the role-playing engine

This directory holds TLA+ models of the backend under `src/crates/`, the TLC
configurations that check them and TLAPS proofs about them. Paths below are
relative to `src/crates/` unless they begin with `.plan/` or `src/`.

    tlc -config PgSession.cfg MCPostgresSession.tla     # one run
    tlapm PostgresSession_proofs.tla                    # one proof module

`PROJECT.json` lists components, runs, mutants (a plausible bug for every
property, which TLC must find), the source lines each definition translates,
findings, hazards and theorems.

## 1. The system

A player's request to a session becomes a *turn*. The turn takes the session's
lock, loads the session, calls a language model for the narration, calls it
again for a *delta* (proposed changes of the world, as JSON), repairs the
delta's text once if it does not parse, validates it, reduces it into a copy of
the world, persists messages, delta, events and world in one transaction, and
answers with the narration and the part of the world a player may see. A
streamed turn hands the narration's tokens to the client while they arrive.

| Component | State | Operations | Hard behaviour |
|---|---|---|---|
| turn pipeline, `engine/src/pipeline` | none of its own; a guard, the loaded state, the responses | `process_turn`, `process_turn_debug`, `finalize_turn_delta` | every await is a place to fail, to be dropped or to be overtaken; events and the commit are separate writes |
| streaming, `engine/src/streaming.rs` | raw response, filter | `stream_turn` | the client controls how far it is polled; errors are yielded before the guard goes |
| PostgreSQL lock, `persistence/src/lock.rs` | `sessions.processing_turn`, `processing_turn_started_at` | `acquire`, release task | takeover by age, release that names no owner, asynchronous drop, crash |
| in-memory lock, `engine/src/lock.rs` | set of locked sessions | `acquire`, `drop` | no timeout: one leak is for good |
| PostgreSQL store, `persistence/src/{repositories,store}.rs` | sessions, world_states (versioned), messages, deltas, events, scenarios, provider_configs | load, persist, events, CRUD, timeline, export | reads without a transaction, optimistic version check, cascades, ambiguous commits |
| in-memory store, `persistence/src/store.rs` | the same under one mutex | the same | no version check, no foreign keys, ids that come back |
| validator and reducer, `engine/src/{validation,reducer}.rs` | the world | `validate`, `apply` | validated against the stored world all at once, applied one change after the other |
| secrets: context builder, prompts, validator | GM-only facts, clues, known facts | `build`, `render_context`, `render_narration_context`, reveal proof | two prompts with different knowledge, texts that flow from one to the other over turns, limits |
| projection, `engine/src/projection.rs` | none | `project`, `changed_entities` | a third choice of what may be known; it reads a turn's additions back from the world |
| stripper and token filter, `engine/src/safety.rs`, `streaming.rs` | the answer | `strip`, `is_reasoning_marker` | two filters on the same text, token boundaries |
| providers, `providers/src` | retry counter, line buffer | `generate`, `stream` | retries, backoff arithmetic, chunk boundaries, silence |
| provider registry, `api/src/{app,state}.rs` | rows in the database, objects in every process | register, delete, select, resolve | two places changed in two steps by several processes |
| catalogue, `api/src/app.rs`, `persistence/src/store.rs` | rows of scenarios and sessions | create, update, delete, view, export | read in one statement, act in another; foreign keys |
| API, CLI, configuration, scene classifier, prompt templates | none, or derived | routing, printing, pure functions | (see section 8) |

How they interact: handlers of `api/src/app.rs` call the pipeline through the
traits `SessionTurnLock`, `TurnStateStore` and `LlmProvider`; the pipeline calls
context builder, validator, reducer and projector as plain functions. Two turns meet only in the
lock and the store. The CLI runs the same router in a process of its own
(`cli/src/bootstrap.rs`), so to the database it is one more API process.

What makes the parts correct:

* lock and store: one history per session, each turn computed from all turns
  before it; answers that are true; no session locked for ever;
* validator and reducer: whatever list of changes a model writes, numbers stay
  in range and the dead stay out of play, although the two look at different worlds;
* secrets: nothing reaches a narrator or a player but through a fact that cites its proof,
  or in words the extractor wrote for the player; narrator and player know one scene;
* filters: the player reads the tale, all of it, and nothing else;
* providers: tokens arrive whole, once and in order, every call ends;
* registry: a deleted provider is not used again, and no other is refused without a reason;
* catalogue: a session always finds its scenario, and what is shown of it hangs together.

## 2. Modules

| Module | Models | Runs with |
|---|---|---|
| `SessionLedger` | abstract: what a session promises its clients | (a property of the two below) |
| `TurnPipeline` | the stages of a turn, independent of storage | extended by the two below |
| `PostgresSession` | a session in PostgreSQL, its lock, its transaction, several processes | `MCPostgresSession` |
| `MemorySession` | the same session in memory | `MCMemorySession` |
| `WorldDelta` | validator and reducer on people and numbers | `MCWorldDelta` |
| `Lists` | keeping some entries of a list, setting the one with a key | used by `Story` and `NarrationStream` |
| `Story` | the world with its people, places, texts and lists; the initial one; deltas | extended by the next |
| `StoryRules` | validator and reducer on these worlds | extended by the next |
| `StoryViews` | context builder, the sections of the two prompts, projection, `changed_entities` | extended by the next |
| `SecretFlow` | the turns of a session: what is told, shown, revealed and named over them | `MCSecretFlow` |
| `NarrationStream` | token filter and stripper | `MCNarrationStream` |
| `TokenDelivery` | abstract: what a token stream promises a turn | (a property of `ProviderCall`) |
| `ProviderRetry`, `SseStream` | `with_retries`; `SseLineDecoder` and the chunk loop | composed by `ProviderCall` |
| `ProviderCall` | a streamed provider call: the request with its retries, then the answer | `MCProviderCall` |
| `ProviderRegistry` | rows, registries and selections of several processes | extended by the next two |
| `SelectionHistory` | the registry with what was last selected for each session | itself |
| `SessionCatalogue` | scenarios and sessions that come and go around the registry; views, exports, raw timelines | `MCSessionCatalogue` |
| `*_proofs` | theorems (section 6) | |

### How the state and the actions correspond to the code

**TurnPipeline.** `pc[t]` is the await at which turn `t` is: one stage per
provider call, event write, lock call and store call, in the order of
`process_turn` (plain) or `stream_turn` (streamed). `guard[t]` says that the
`TurnLockGuard` exists; an error in a plain turn drops it with the function, a
stream yields the error first and drops it when it is polled again
(`CloseStream`). `EventSteps` is the table of stages that do nothing but record
an event: `(stage, event, next stage)`. `Cancel` is a dropped future. What a call
returns is chosen: `ParseDelta` either parses or goes to `repair`; the repair
happens once.

**PostgresSession.** `Acquire` is the conditional UPDATE of `lock.rs`; a statement that a turn has sent is
executed whatever becomes of the turn, so a turn that vanishes or fails while it waits for its lock UPDATE or
its COMMIT (`StopWaiting`) may leave it on the wire: `StrayAcquire` then takes the lock for nobody,
`StrayCommit` stores the turn, at any later time. `ReleaseDropped` turns every dropped guard into a member of
`releases`, the spawned tasks; `RunRelease` is the unconditional UPDATE. `started_at` is an age (`null`,
`fresh`, `old`); `FiveMinutesPass` makes a lock old, and `overran` remembers that a turn or its release was
not done by then. `ReadSession`, `ReadWorldState`, `ReadMessages` are the separate reads of `load_turn_state`.
`BeginAndInsert`, `UpdateWorldState`, `Commit` are the transaction of `persist_successful_turn`: its inserts
share-lock the sessions row (so `DeleteSession` waits), its UPDATE row-locks the world state (so a second one
waits and then looks at the version again; the rows of a COMMIT on the wire are held as long), `now()` is the
begin. `CommitLost` is a commit whose answer is lost. `deltas` stands for the committed turn's rows; `base`
and `seen` say which world and which messages it was computed from.

**MemorySession.** Each store call is one step under the mutex; the lock is
released inside `drop`; `Persist` overwrites the world without looking.
`RemoveScenario` looks for no session, and `InsertScenario` brings an id back:
the sessions it left are playable again. `late` counts the turns that
persisted after their session or its scenario was removed.

**WorldDelta.** `Valid(w, d)` translates the validator's arms, `Propose` a delta
it accepts, one `Reduce...` action per arm of the reducer, `Persist` or `Discard`
the store's answer. A meter is any number that has a range and is moved by
increments: standing, pressure, trust, suspicion, loyalty, progress.

**Story, StoryRules.** A text is the set of secrets it spells out, and a value
that a change overwrites is known by the version of the world that wrote it
(`since`): that is all that reveals, views and patches tell apart, and
`WorldDelta` has the numbers. A delta is a list of changes in the order in which
`apply` goes through its sections. `Valid` is `BasicDeltaValidator` (`LegalFact`
with the search for leaked GM-only facts and for the proof of a reveal,
`LegalClue`, `LegalAction`, ...), `Reduce` is `BasicWorldStateReducer`, one
`Apply...` operator per section; `Mint` is the id made of the version and the
length of the list.

**StoryViews.** `AgentContext` is `BasicContextBuilder::build`: whom and what it
selects, in which order, up to which limit. `Prompt(w, messages, gm)` is the union
of the sections of `render.rs`, with the GM's side for the extractor (`OracleContext`)
and without for the narrator (`NarrationContext`). `Project(type, w, admin)` is the
projection's entry for a type of entity and a viewer, `SpeltTo` everything it
says, `ChangedEntities` the ids that a turn's patch names.

**SecretFlow.** `Narrate` is the call that gets `NarrationContext` and may write
whatever it spells out. `Persist` is an extraction (its prompt holds every secret,
so it may write anything of its `Repertoire`) whose delta the validator accepts, the reducer
applies and the store keeps; `Abandon` every other end of a turn. The history variables are
`told` (what narrators' prompts have ever spelt out), `slipped` (what the texts
that nobody compares with the GM-only facts have spelt out: the
summary, shown memories, clue texts, public notes, attitudes, ...), `linked` (links and conditions of
every clue a turn discovered) and `summoned` (NPCs that a turn made present or hid).

**NarrationStream.** An answer is a sequence of pieces (tale, thought, tags, halves of a cut tag or phrase,
markers), written in tokens of one or two pieces by a model that closes its blocks; markers stand outside of
blocks and in them, and the tokenizer of a mode with `cut` cuts tags and markers where it likes. `HandOut` is
the loop of `stream_turn`, `strip` the stripper: the places it leaves, `Kept` from the text.

**ProviderCall.** `Retry!...` are the steps of `with_retries`: what a reply of the
server becomes (`post_chat`, `try_generate`), whether it is tried again, and the
`u64` shift and product of the backoff on the bits of the word. `Stream!...` are
the steps of the chunk loop. The three providers have the same control line by
line; they differ in what they make of a frame (`Visible`: llama.cpp drops control tokens;
`Metadata`: OpenRouter reports usage; `Yield`: OpenRouter leaves the rest of a
chunk at `[DONE]`). Bytes carry the character they belong to, so a chunk may be
cut anywhere; `Lossy` is `from_utf8_lossy` of one chunk. `Push` feeds the decoder symbol by symbol (`Feed`): a
blank line ends a frame as soon as it is complete, which is where the code's search finds it.

**ProviderRegistry.** Registering and deleting are two steps (row, then registry)
that other requests come between; a turn reads its session and resolves the
provider later. `BeginUnread` is `turn_stream`, which goes on with the default when
the session cannot be read. `Abandon` ends a request between its two steps: its client has left, so that axum drops
the handler, or the answer of its statement is lost. The row of an abandoned registration is then in no registry
until some process starts. `retired` and `entered` are history; `SelectionHistory` adds
`wanted` and `asked`, what was selected for a session and what for the one a turn is of.

**SessionCatalogue.** `job[j]` is a request between two of its statements:
`inserting` holds the scenario that `create_session` has read, `removing` and
`erasing` are deletions that have looked and not yet deleted, `locating`,
`viewing` and `collecting` are `export_session` (and, up to the world,
`project_session_state`) after its first, second and third read, `listing`,
`matching` and `recounting` are `raw_timeline` after its own. The statements
that write are one step each, with what the foreign keys do in them (`Referenced`
for RESTRICT; the cascade and the session's selection in `Erase`). Its steps are
conjoined with those of `ProviderRegistry`, so that it is a refinement of it.
The definitions of a scenario are numbered, `built` is the one a world was built from;
`CommitTurn` is a whole turn of `PostgresSession`.

## 3. Runs

| Run | Checks | Bounds |
|---|---|---|
| `pg_session` | types, `OneActiveTurnInTime`, `LockHeldWhileActive`, `SerialHistory`, `ContextMatchesBase`, `TimelineOrder`, `FinishedIsCommitted`, `HistoryOnlyGrows`, refinement of `SessionLedger`, `EveryTurnEnds`, `LockComesBack` | two turns (one streamed) in two processes, storage faults, lock UPDATEs and COMMITs that outlive their turns, locks that age at any time |
| `pg_one_active_turn` | violation: `OneActiveTurn` when a turn outlasts its lock | two turns |
| `memory` | types, `SerialHistory`, `AtMostOneLateTurn`, refinement of `SessionLedger`, `LockIsFreed` | three turns (one streamed); the session and its scenario removed at any time, the scenario inserted again |
| `delta` | types, `ClockInRange`, `SingleChangeLandsInRange`, `NoRevivalInOneTurn`, `TheFallenDoNotAct` | one NPC, clock, standing, bond and goal; two turns of up to two changes |
| `delta_standing` | violation: `FactionMetersInRange` | one standing |
| `secrets` | types, `RevealsAreCited`, `RevealsWereLinked`, `SecretsStayHidden`, `IdsHold`, `LimitsCutTheTail`, `NarratorKnowsTheScene`, `PatchNamesChanges` | two secrets that share a condition, one invented one, one entity of each kind, two places; two turns of up to two changes, drawn from one of four repertoires: reveals, people, chronicle, things; limits of one or two entries |
| `narration_markers` | violation: `ShownIsFreeOfMarkers` in a streamed turn whose tokenizer cuts a tag or marker | six pieces, plain and streamed turns of two kinds of providers |
| `narration_thoughts` | violation: `SavedIsTheTale` in a streamed turn whose tokenizer cuts nothing | six pieces |
| `provider_call` | types, refinement of `TokenDelivery` but for characters of several bytes (`DeliversAllButCutCharacters`), `EveryCallEnds` | three providers, 58 retries; answers of none to three tokens, one of them a control token, some with characters of two bytes; three ways to report usage; a garbled frame before any token; chunks of up to twelve bytes |
| `sse_split_character` | violation: `DeliversTokens` with a two-byte character | one token |
| `catalogue` | types, `RetiredProvidersRest`, `RefusalsAreJustified`, `DenialsAreJustified`, `ExportsAreWhole`, `ViewsAreUpToDate` | one provider, scenario (two definitions) and session (one turn), two processes, two requests of each kind; ids of providers and sessions are used once |
| `provider_fallback` | violation: `MissingProviderIsRefused` after the session's provider is deleted | one process, provider, session and request |

Why the bounds are enough for what they show. Two turns are enough for every race of lock, version check and
release, because each concerns a pair (an owner and one that takes over, a release and the lock it hits, a
commit and the version it invalidates). A release can also hit the lock of the next turn but one, but only
after a turn has outlasted its lock, when neither lock property says anything; the theorems of section 6 are
for any number of turns. Two changes of one entity are the least that separates validating from reducing; two
turns let the second start from a world the first has pushed out of range. Two secrets with one condition are
the least for a proof of one to be taken for the other; the limits of the prompts are 1 or 2 so that two turns
of two changes overrun them (in the code five GM-only facts, eight and five memories); two places and one NPC
are enough to be seen or unseen, present or away, here or there. A session draws its changes from one
repertoire, so changes of different repertoires are combined in no delta; each repertoire holds the kinds of
changes that read or write the same lists. Six pieces are more than the two counterexamples about narration
need. In the catalogue every race is one of two requests about the same row, so one row of each kind and two
requests meet all of them. 58 retries are a limit of what `EveryCallEnds` says, not of the run: it is the
largest `max_retries` whose backoff fits into its word, and from 59 on a build with overflow checks panics
(section 5); an answer of three tokens has frames before, between and behind those that a provider treats
differently, and twelve bytes hold several frames. For the theorems of section 6 no bound matters.

`CHECK_DEADLOCK FALSE` stands in every configuration because a finite number of
turns, requests or changes ends: the system really stops.

## 4. Fairness

* `PostgresSession!FairSpec`: every turn's next step happens (each provider call has
  a request timeout, each stream an idle timeout, each statement is answered or
  fails; the HTTP layer polls a stream until its client disconnects, which is
  `Disconnect`), spawned releases run (or fail), what has reached the server is executed, time passes. A provider that
  sends tokens for ever without pausing is not covered: nothing in the code ends
  such a stream, and `tokens` is assumed to be left.
* `MemorySession!FairSpec`: every turn's next step happens. Nothing else is needed: there
  is no lock timeout, and `LockIsFreed` shows that none is.
* `ProviderCall!FairSpec`: a request ends, a sleep ends, and the stream is read; the server
  may fall silent (`Stall` is not fair, and once it has happened only the idle
  timeout helps). `Crash`, `Disconnect`, `Drop`, `Break` and deletions are never fair.

## 5. What the code does other than its documents say

Shown by runs:

1. `pg_one_active_turn`: a turn that outlasts five minutes shares its session
   (README.md:88 rules that out). With the default 120 s request timeout and one
   retry, narration, extraction and repair can take 12 minutes. `pg_session` shows
   what still holds then: versions keep the history serial.
2. `delta_standing`: two changes of one standing in a delta leave its range.
3. `narration_thoughts`: the token filter removes `<think>` and with it the
   stripper's only hint; the thoughts are shown and saved.
4. `narration_markers`: the token filter looks at one token at a time, so a tag or phrase that the tokenizer
   has cut in two is shown, where its comment (`streaming.rs:221`) has the output free of them.
5. `provider_fallback`: deleting a provider sets the sessions' choice to NULL (`0001_core_schema.sql:26`), and
   their next turn silently uses the default (`api/README.md:46` wants a failure).
6. `sse_split_character`: a character cut by a chunk boundary becomes
   replacement characters (`String::from_utf8_lossy` per chunk). `provider_call`
   shows what still holds: nothing but that character is lost.

Met while modelling; each can be seen by changing one value or stating one formula:

* `http.rs:52`: with `max_retries` of 59 or more `100 * (1u64 << attempt)` overflows: a
  panic in a build with overflow checks (with `MaxRetries = 59` and `Checked = TRUE` a call
  ends in `panicked`, which violates `EveryCallEnds`); in one without, the delay is 0 at
  attempts 62 and 63 and starts again at 100 ms at 64.
* `openai_compatible.rs:109` and its like: a body that breaks off or is late in `generate` becomes
  `MalformedResponse` and is not tried again, where `provider.rs:179` and the guide (:1143) retry
  transport errors and timeouts. (`TextOf`.)
* `http.rs:64`: a status is never an error of reqwest here, so 408 is a plain 4xx and
  is not tried again.
* `openai_compatible.rs:33`: the client's request timeout spans the whole body, so a long streamed answer
  that never pauses is cut too.
* `openrouter.rs:295`: the `break` at `[DONE]` leaves only the inner loop; all three providers wait for the
  server to close, and if it does not, a complete answer ends as `StreamIdleTimeout`.
  (`Yield`, then `Stall`.)
* `openrouter.rs:310`: a server that reports usage as null on every chunk makes the provider emit one metadata event per
  chunk, where `streaming.rs:37` says at most once; each replaces the one before (`Metadata`), which is
  all that `DeliversAllButCutCharacters` says of them.
* `reducer.rs:29`: the extractor's summary, memories, clue texts and notes are not
  compared with GM-only facts; the next narrator reads them, or the player does, against the goal at
  `.plan/architecture/01-non-streaming-secrecy-boundary.md:5`. `SecretsStayHidden` says that
  this is the only such way: without `slipped` in it, it is violated.
* `projection.rs:129` and `:158`: a player's view names hidden NPCs as ends of relationships and hidden
  clocks in `linked_clock_ids`, and `changed_entities` (`:262`) names hidden NPCs and clocks, where
  README.md:407-412 has them removed. Only ids: no property of `SecretFlow` is about them.
* `projection.rs:250`: knowledge added to an NPC appends a fact too, so that `changed_entities` names the wrong
  facts; a clue discovered again makes it name the wrong clue; memories and
  the speaker are never named. (`PatchNamesChanges` excepts these.)
* `context.rs:257`: presence, not visibility, makes an NPC one of the narrator's cast, and the first
  speaker is the first NPC even if hidden; clocks and quests are told whether visible or not.
  (`NarratorKnowsTheScene` says so much of NPCs as is left.)
* `context.rs:338`: GM-only facts beyond the first five, and of memories of the same importance the
  newer ones, are never told to any prompt again (`LimitsCutTheTail`).
* `render.rs:502`: public notes and revealed goals of factions, events and notes on relationships are shown to the
  player and are in no prompt: the narrator does not know of them.
* `validation.rs:844`: a delta can discover a clue, reveal what it proves and hide
  it again; no world ever shows the proof (`.plan/gameplay/04-secrets-clues-discovery.md:190`
  wants it visible). `RevealsWereLinked` is what is left.
* `domain/src/validation.rs:88`: only the step from dead to active is refused; over
  two turns dead, injured, active is accepted (the guide, :854, wants a revival event).
* `validation.rs:222`: any availability is accepted for the dead and the unconscious
  (`.plan/gameplay/05-npc-agency.md:135` allows only Unavailable).
* `app.rs:454`: a streamed turn whose session cannot be read (a storage error) is narrated by
  the default provider instead of the session's, with the same sentence of
  `api/README.md:46` against it; the plain turn fails. (`BeginUnread`.)
* `app.rs:133`: a registration whose client leaves between the row and the registry, or whose INSERT is executed
  and not answered, leaves a row that can be listed and selected and that no process
  uses before it starts again: turns of sessions that select it are refused until then. (`Abandon`;
  `RefusalsAreJustified` names it as one of the reasons of a refusal.)
* `repositories.rs:597`: a client that was told of a storage error, or left, may find the turn in the history later
  and not only at once: its COMMIT may still be on the wire. (`StrayCommit`; `SessionLedger!Apply`
  allows it while the verdict is "unknown".)
* `store.rs:645` (persistence): a scenario that is deleted and created anew under the same id while
  `create_session` is between its read and its insert gets a session whose world was
  built from the deleted definition. `ViewsAreUpToDate` is what is left.
* `app.rs:335`: the events of a session deleted during its export come back as an empty
  list and not as "not found". (`ExportsAreWhole` excepts it.)
* `lock.rs:44` (persistence): a turn's lock is released by a task that runs
  later (`streaming.rs:58` says it is released when the stream completes, `cli/README.md:128`
  that Ctrl+C releases it immediately).
* `cli/src/commands/chat.rs:638`: a turn that is cancelled after its commit is reported as cancelled and is in the
  history (`Disconnect` between `Commit` and the reply, or `StrayCommit` after it).
* `store.rs:132` (persistence): in memory a scenario is removed under its sessions and a turn at work persists all
  the same, once (`AtMostOneLateTurn`); `insert_scenario` overwrites whatever has the id.
* `pipeline/mod.rs:315`: a failing extraction call leaves no `turn_error` event in a plain
  turn (`.plan/architecture/01-non-streaming-secrecy-boundary.md:29`).

## 6. What is proved

| Theorem | Says, for every value of the constants |
|---|---|
| `PostgresSession_proofs!TypeCorrect` | types |
| `...!MutualExclusion`, `...!LockIsKept` | until a turn or its release outlasts five minutes (`overran`), guards never coexist, and nothing clears or outdates an active turn's lock |
| `...!HistoryIsSerial`, `...!ContextIsConsistent`, `...!TimelineIsOrdered`, `...!HistoryGrows`, `...!LogIsTrue` | without any assumption on the lock |
| `...!Refinement` | `Spec => Promise!Spec`: the PostgreSQL session implements `SessionLedger`, COMMITs executed after their turn's end included |
| `MemorySession_proofs!TypeCorrect`, `!HistoryIsSerial`, `!LateTurnsAreFew` | any number of turns, removals and returns |
| `...!Refinement` | `Spec => Promise!Spec`: the session in memory implements `SessionLedger` as well |
| `WorldDelta_proofs!TypeCorrect`, `!ClocksInRange`, `!SingleChangesLand`, `!NoRevival`, `!TheFallenRest` | for deltas of any length, any scenario that `ScenarioAssumption` admits |
| `SecretFlow_proofs!TypeCorrect` | types, of worlds that any list of changes the validator accepts has been applied to |
| `...!RevealsCite`, `...!RevealsHaveClues` | a revealed secret is cited with a condition it declares, and a discovered clue links and proves it; any number of turns |
| `...!SecretsAreKept` | the secrecy boundary: no way into a narrator's prompt or a player's view but a revealed fact and the extractor's own words |
| `...!IdsStayUnique` | ids are unique, and what an NPC knows is a fact that names it |
| `...!ScenesAgree`, `...!LimitsHold` | narrator and player know one scene; the prompts' limits cut off what they should, whatever the limits are |
| `...!PatchesName` | what a turn changes in anyone's view, its patch names; deltas of any length |
| `NarrationStream_proofs!PlainTurnsAreSound` | a plain turn saves the tale, all of it and nothing else, of answers of any length, with tags and markers whole or cut, in blocks and outside |
| `ProviderCall_proofs!TypeCorrect` | types; what a turn receives is made of the answer's characters, control tokens and replacements of cut ones |
| `...!BytesArrive` | `Spec => CutDelivery!Spec`: the stream implements `TokenDelivery` if one does not look at the characters of several bytes; answers of any length, any cut into chunks |
| `...!TokensArrive` | `Spec => Delivery!Spec`: if every character has one byte, it implements `TokenDelivery` as it stands |
| `...!BackoffFits` | up to 58 retries, or without overflow checks, the backoff never panics |
| `SessionCatalogue_proofs!TypeCorrect`, `!RetiredRest`, `!RefusalsJustified` | of the provider registry; any number of processes, sessions, providers, requests |
| `...!CatalogueImplementsRegistry` | `CatalogueSpec => Spec` of the registry, and with it `!RetiredRestInCatalogue`, `!RefusalsJustifiedInCatalogue` |
| `...!CatalogueTypeCorrect`, `!DenialsJustified`, `!ExportsWhole`, `!ViewsUpToDate` | any number of scenarios, sessions and requests |

They rest on the named assumptions of the modules (`HostAssumption`, `StreamingAssumption`, `ScenarioLists`,
...), which TLC evaluates in the runs. Three theorems have a hypothesis of their own. `IdsStayUnique` assumes
that no secret of the scenario has an id of the form the reducer mints (`fact-{version}-{n}`,
`reducer.rs:69`), `Secrets \intersect Minted = {}`: the code does not compare the two, and a scenario that
names a secret `fact-1-2` would break it. `TokensArrive` assumes `OneByteAnswers` (run `sse_split_character`,
whose answer has a character of two bytes, shows that it is needed; for one-byte answers `CutAll` changes
nothing, so that `provider_call` checks `DeliversTokens` of those among its own), and `BackoffFits` that
`MaxRetries <= 58` or the build does not check for overflows (section 5 says what happens from 59 on).

The arguments.

* *Lock.* `OneActiveTurn` is not inductive: a pending release may clear a lock
  that is not its own. `LockInv` counts as *owners* the turns that hold a guard or have a release
  pending, and says that there is at most one and that the row is locked and fresh
  while there is; it holds as long as `overran` is false, because until then a lock only becomes old when there
  is no owner. Run `pg_one_active_turn` shows what happens afterwards.
* *History.* `SerialHistory` is not inductive either: between the UPDATE and the
  commit the version is the old one. `HistoryInv` is `LogInv` (the log as it stands,
  with `stamp < clock`), `LoadInv` (what a turn loaded is not newer than the log, and
  the world not newer than the messages) and `TransactionInv` (an open transaction
  began after every commit it has seen; one that has updated has the current
  version, and is the only one). A transaction whose COMMIT is on the wire counts as open (`HasBegun`, `Committing`): its
  locks keep every other from updating, so what held when its turn went still holds when it is executed. `ContextMatchesBase` follows: the version check
  makes `base` the whole log, and `base <= seen <= Len(log)` leaves `seen` no room. `TimelineOrder` follows
  from the stamps of the log increasing: the rows not younger than the i-th are the first i.
* *Refinement.* `CommitInv` ties stages to the log (a turn is in it exactly from its
  commit on, once, and one whose COMMIT is on the wire is not in it yet and has no definite answer); then each action is an `Apply`, `Accept`, `Reject`, `Abandon`,
  `Delete` or a stutter, one lemma each.
* *In memory* nothing compares versions, so all rests on the lock: `LockInv` says that
  the session is locked exactly while a turn holds a guard, and that no two do. While a
  turn is between its load and its persist nobody else writes, so `HistoryInv` can say
  that what it has loaded is still what is there, unless the session was removed meanwhile, and
  `LateInv` that whoever persists after a removal is the one that held the guard. The
  refinement has the shape of the PostgreSQL one, with `Persist` in the place of `Commit`.
* *WorldDelta.* `Judged` carries through the reducer that the delta was legal in the
  stored world and what the changes applied so far have done; the properties of
  the persisted world then compare only two worlds.
* *Reducer.* `Reduce` goes through a list of any length, so what it does to a world is
  an induction over the list. The library's induction rules are out of reach (section 7), but
  `Course`, the sequence of worlds between the changes, is a function on numbers and not
  an operator: `SecretFlow_proofs!SetInduction`, from the well-foundedness of `<`, says that a *set* of numbers with
  0 and all successors is `Nat`, and with it `CourseExists` that the function is defined, `CourseSteps` that it
  obeys its equation, and `CourseStays` that a set of worlds which no change leaves holds the whole course.
  `KeptEntries` is the same for `Kept`. What one change does has one lemma per section of a delta
  (`MemoryKeeps`, `LearnKeeps`, `FactionStep`, ...); `ApplyKeeps` puts them together, `Untouched` says
  which change leaves which field alone, and `ReduceKeeps`, `ReduceStays`, `ReduceFacts` lift this to deltas.
* *SecretFlow.* `RevealsWereLinked` needs to know where a proof comes from: `RevealInv` adds that the scenario's
  secrets stand where they were, so that no fact can spell one out without leaking it (`SecretsStand`), and that
  every clue of the world is in `linked` with at least the links and conditions it has (`CluesAreIn`).
  `SecretsStayHidden` is about prompts and views; `SecrecyInv` is about the world they are made of: every text
  of it that is for the player (`SpokenIn`), every message and what the narrator has just been told
  spells out only what is revealed or has slipped. Two lemmas then say once
  that the context builder with the narrator's sections (`NarratorIsTold`) and the projection (`PlayerIsShown`) let
  no other text through; one per kind of change (`ApplySpoken`) that a reducer's step either keeps a text or
  writes one that `Slips` counts. `IdsHold` is not inductive: ids are minted from a version and a length, and
  `IdInv` says that the second half of a minted id is the entry's own place. `CastInv`
  is that whoever is present is shown or was summoned. For the limits, `TopHas`: in a
  finite set with a strict total order exactly n have fewer than n above them; a memory's rank is such.
* *Patches.* `changed_entities` names what the delta names, and of a list that grows its last n entries, with
  n the delta's changes of the kind. `ReduceElsewhere`: what a delta does not name is as it was.
  `Continues`: a list only grows, by at most as many as the changes counted, so that what is new is
  among the last n (`NewOnesAreLast`). A clue can be found twice, and then the list grows by less; `FoundOnce` says
  that with as many ids as discoveries none is. Nothing here is an invariant: it is one fact about `Reduce` on any world.
* *NarrationStream.* `Told` follows a model's answer: each piece stands where a model puts it, a block is open
  exactly while the model thinks, and a marker that is not in a block is followed by reasoning only. A piece's place is settled by what comes
  before it (`PrefixStays`), so appending one (`PieceFalls`) keeps it; of a
  complete answer, the places `strip` keeps are then those of the tale.
* *Provider registry.* `RegistryInv` says that sessions refer only to rows and that a request carries a
  reference read at a moment when it was in the rows. For `RefusalsAreJustified`, `EnteredIsKept`: what a process has
  entered, of the rows still there, is in its registry unless its registration is between its two steps; `HalvesAreIssued` gives why no half-done request can lose
  an entry: ids are used once, so it names one that no later row has.
* *Provider call.* The invariant is that what has been delivered and what is `Coming` make the answer: the frames
  not yet looked at, and those that the decoder will find in its buffer with the bytes still on their way. Two facts
  carry it through `Receive`. Feeding two texts one after the other is feeding them joined (`PushConcat`, an
  induction over the text, `SequencesInduction`). And decoding depends on where a chunk ends only in a
  character of several bytes: replacing each of these by as many replacements as it has bytes (`Cut`), in the text, the buffer
  and the frames, makes `Lossy` of a chunk a map of its bytes (`CutLossy`), and commutes with the decoder, which looks only
  for newlines and prefixes (`PushCut`). So `Cut` of what is coming is the same before and after a chunk, wherever it
  ends (`ReceiveKeeps`). `Orderly` says of the frames to come that usage stands behind the tokens, and `[DONE]` last, so that
  OpenRouter's leaving a chunk at it loses nothing; `ResponseCarried` shows it of what a server writes. `TokensArrive` then
  adds that of one-byte characters nothing is cut (`NothingCut`), and with that the two refinements are one.
  The request's part, `RequestInv`, says that whoever sleeps has an attempt left.
* *SessionCatalogue.* `ScenariosStay` says that a session's row keeps its scenario's, with a definition not
  older than its world's; `JobIsTrue` says of every job that what it has read is still
  true, or was overtaken in the right direction, as long as its session is there. One
  lemma (`OneJob`) covers all steps that only read; each step that writes has its own.

`TurnPipeline_proofs` holds the lemmas on stages that the other proofs share.

## 7. Only model-checked

* Liveness (`EveryTurnEnds`, `LockComesBack`, `LockIsFreed`, `EveryCallEnds`): liveness under fairness is out of
  the prover's reach.
* `RECURSIVE` operators and inductions that take an operator as a parameter are out of its reach too, so no module
  has one: what is proved of recursive definitions here is proved of recursive *functions* (`Course`, `Kept`, `Push`)
  and of `FlattenSeq`, by induction over a set of numbers.

Every invariant and every safety property of the passing runs is stated by a theorem. Of the narration it is the
other way round: `PlainTurnsSaveTheTale` is proved and needs no run.

## 8. Not modelled, and why

* Prompt wording, JSON parsing and repair prompts: text; their outcomes are choices
  of `TurnPipeline`.
* The scene classifier, and `current_scene`, which only it reads: it picks the style a prompt is
  worded in and a message is labelled with, and nothing decides by it. Likewise the scene directive and
  the active role in the context builder.
* The word filter in front of the extractor's GM-only facts: it depends on the
  player's words, and the right words let every fact through; that is what `FactsSection` takes.
* Deltas with an unknown id, an empty text or no reason: the validator refuses them by one
  guard each, and `Story` proposes none.
* Listings; of the player's timeline query everything but the versions of turns (`TimelineOrder`), so also
  the versions of events and the order of the two messages of one turn, which get the same `created_at`; the in-memory catalogue beyond what turns meet.
* Provider health, readiness, model lists and request bodies; a server that closes the
  stream before `[DONE]`, which the code takes for the end (a hazard without a property); frames without
  content in mid-stream, which it ignores.
* CLI, configuration, secrets, mock provider: argument parsing, printing,
  construction. The CLI's Ctrl+C is a turn's `Cancel`.
* `i32` overflow of sums in the validator: `WorldDelta`'s integers are unbounded.
* An event row that the server writes after its turn has gone: its INSERT is one statement, what it says of the turn
  was settled before it was sent, and without the session the foreign key refuses it. (Statements of other requests
  that outlive their sender are the same as a request that is abandoned right after them.)
* Resources of the player: no scenario gives one and no change adds one, so `ResourceChanged` is always refused.

## 9. Plan

Order of work: (1) the session core with its lock and history, the abstract ledger
and the refinement proofs, in PostgreSQL and in memory; (2) validator and reducer;
(3) secrets, prompts, projection and patches; (4) providers and narration; (5) registry and
catalogue. These are done. Left:

1. *Catalogue in memory*: `remove_scenario` and `create_scenario` without keys, against the same
   properties (`DenialsAreJustified` fails there), and the listing that reads row by row.
2. *Timeline*: versions of events by `created_at` against the versions the turns committed, and the two
   messages of a turn, which tie.
3. *WorldDelta* with sums in `i32`.
4. *A server that closes early*: an end marker the stream could look for, and the property that a cut
   answer is never saved.
