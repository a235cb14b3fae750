# Nexus: verification project

TLA+ models of the parts of this repository whose correctness depends on
interleaving, failure and order, the TLC configurations that check them on small
instances, and TLAPS proofs of the properties that matter most for every
instance. Definitions are translated from the Python source; `PROJECT.json`
(`map`) names, for each one, the file and lines it stands for.

    tlasany FamilyHub.tla
    tlc -workers 2 -config hub_races.cfg MCFamilyHub     # hub_*.cfg
    tlc -workers 2 -config stores.cfg Stores
    tlc -workers 2 -config services.cfg Services
    tlc -workers 2 -config manager.cfg ModelManager      # manager_two_members.cfg
    tlc -workers 2 -config briefing_window.cfg HouseholdFeed
    for m in *_proofs.tla ; do tlapm $m ; done

## 1. The system

Nexus serves a family of language models ("members") to the persons of one
household. A **hub** (`nodes/brainstem_4070`, FastAPI) receives the chats, keeps
presence, inbox and sessions, asks a **cortex** (llama-server) for the answers,
and stores each turn through an **embedder** (`nodes/embedder_4070`, Chroma). A
**model manager** (`nodes/model_manager_4090`) loads and unloads the members'
weights and reports their presence to the hub. Clients are a CLI and a web page.

| component | state | operations | talks to |
|---|---|---|---|
| turn pipeline, `brainstem_4070/server.py` | `_turn_idx_by_session` (no lock), metrics file | `member_chat`, `generate`, `_live_member_turn`, `_run_turn` | stores, cortex, embedder |
| presence and inbox, `family_state.py` | `_presence` (memory only), `_inbox` (JSON file), log stamps | `set_presence`, `enqueue`, `queued_messages`, `complete_message`, `_drain_inbox` | called by every handler |
| hub sessions, `sessions.py` | `_sessions` per (person, member), JSON file | `get_or_mint`, `record_turn` | seeds the turn counter |
| token store, `auth.py`, `scripts/create_token.py` | tokens in memory and in a file two processes write | `verify` (stamps last use), reload on mtime, create, revoke | the file |
| embedder, `embedder_4070/server.py`, `scopes.py`, `chunker.py` | one Chroma collection | write, query, event, timeline, promote, back-fill | hub |
| model manager, `manager.py`, `tiering.py` | `loaded` (processes), fast-tier files | load, unload, stage, evict, report presence | hub presence endpoint |
| briefing and feed, `server.py` | none of its own; reads stamps and shared rows | briefing, spoken briefing, household events | embedder, cortex |
| cortex client | served model's id, cached for ever | chat with one retry | cortex |
| clients | session id, polled message ids | send, resend on 503, poll the inbox | hub |
| legacy paths: STM, `/embed`, NAS memory | bounded deque, a Chroma store, a JSONL log | store a text, then log that it was stored | NAS |
| agent registry (`core/registry.py`) | agents and heartbeats | register, heartbeat, expire | MQTT |
| evaluation bench (`bench/eval`) | candidates and their scores | sample, select, aggregate | cortex |

What makes each of them correct (the code has not all of it: sections 3
and 5 say where it falls short, and the properties what does hold):

* *inbox*: a message whose sender got the 202 is never lost, is answered in the
  order of arrival, once, and eventually, if the member keeps waking up;
* *turn pipeline*: a turn reported as remembered is in memory; a session's turn
  numbers never repeat; a turn is filed under its sender, whoever's request ran it;
* *hub sessions*: one session per (person, member), never shared, stable across
  restarts; its counter never ahead of the rows it counts;
* *token store*: the file holds the tokens created and not revoked; no verdict is
  made from a stale copy; a name has one token;
* *embedder*: nobody reads or promotes another member's private rows; a promoted
  copy exists once and keeps its provenance; after the back-fill every row has a scope;
* *briefing*: it tells a member all that the household shared while it slept;
* *model manager*: presence says what is loaded; no server is left behind; the
  last good copy of a member's weights survives, and the hot one is whole;
* *clients*: a prompt typed once has one effect at the hub, and what the user is
  told of it is true;
* *legacy paths*: what the log says was stored is stored;
* *agent registry*: an agent that beats in time is never dropped, one that
  stopped is;
* *chunker*: no text lost, chunk sizes bounded; *bench*: the best candidate counts.

What makes them hard: endpoints are `def` functions, so every request runs on a
thread of the server's pool and any two interleave outside a store's lock; the
drain of an inbox runs *inside* the presence request, one cortex call after
another, and two drains can overlap; the embedder keeps the old row when an id
exists and says nothing; a timed-out write may have been stored; flushes swallow
`OSError`; presence and the counter are lost by a restart, inbox and sessions
are not. Elsewhere two processes rewrite one file (tokens), a check is separated
from its act by minutes (loads), by a page (migration) or by a call (promotion),
and a client cannot tell a lost request from a lost answer. The `hazards` of
`PROJECT.json` list these places line by line, with the property that watches
each one, or why none does.

## 2. Modules

| module | models | actions |
|---|---|---|
| `Household` | the names shared by the stores | |
| `FamilyState` | `family_state.py` | `SetPresence`, `Enqueue`, `CompleteMessage`, `FlushLocked`, `FamilyRestart` |
| `HubSessions` | `sessions.py` and the runtime counter | `Known`/`Mint`/`MintUnflushed` (`get_or_mint`), `RecordTurn`, `Counter`, `SetCounter`, `SessionsRestart` |
| `EmbedderMemory` | the collection, as write-on-turn uses it | `MemoryWrite`, `AddRow` |
| `FamilyHub` | the handlers of `server.py` over these stores; the fairness; the properties | below |
| `Custody` | abstract: what the inbox promises a sender | `Accept`, `Answer` |
| `MCFamilyHub` | instances for TLC | |
| `TokenStore` | `auth.py` in the hub's threads and `create_token.py` in its own process | `Request`, `Stat`, `ReadFile`, `Adopt`, `Match`, `Restat`, `Respond`, `HubRestart`; `ScriptLoad`, `Create`, `Revoke`, `ScriptEnds` |
| `ModelManager` | `manager.py`, `tiering.py`, `fetch_weights.py`; llama-server is external | `Load`, `OpenStaging`, `CopyWeights`, `Verify`, `ReplaceHot`, `ReportWaking`, `Spawn`, `WaitHealthy`, `Publish`, `ReportAwake`, `ReportAsleep`, `Unload`, `StopServer`, `Evict`, `ManagerCrash`, `HubRestart`, `FetchBegin`, `FetchEnd`; `Bind`, `ServerDies` |
| `MemoryScopes` | `scopes.py`, the embedder's routes, `migrate_memory_scopes.py` | `MemoryWrite`, `MemoryEvent`, `PromoteRead`, `PromoteAdd`, `MigrateStart`, `MigratePage`, `MigrateUpdate`, `MigrateEnd`, `EmbedderCrash`, `MigrationCrash` |
| `HouseholdFeed` (extends `MemoryScopes`) | events, timeline, briefing, the presence log's stamps | `HouseholdEvent`, `SetPresence`, `Tick`; operators `Timelines`, `Briefings` |
| `AgentRegistry` | `core/registry.py`, `core/main.py`, `agent/agent.py` | `SendHeartbeat`, `AgentStops`, `OnMessage`, `BadMessage`, `SweepBegin`, `SweepOne`, `SweepEnd`, `Tick` |
| `LegacyMemory` | `/embed`, `/stm/write`, `core/nas_client.py`, the NAS service's writes | `EmbedBegin`, `WriteSemantic`, `WriteSemanticFails`, `LogEvent`, `LogEventFails`, `NasRestart`, `LegacyHubRestart`, `StmWrite` |
| `NexusClient` | the CLI's and the page's prompt loop, the proxy's timeout | `TypePrompt`, `SwitchPath`, `Answered`, `Refused`, `CortexDown`, `MemberLoading`, `PostAgain`, `NoAnswer`, `Queued`, `Poll`, `PollFails`, `CheckInbox`; `HubRunsTurn`, `HubSaysLoading`, `HubEnqueues`, `HubDrains`, `PresenceChanges` |
| `Chunker` | `chunker.py`'s packing | `PackPiece`, `ChunkTurn` |
| `BestOfN` | one seed of `bench/eval/bestofn.py` | `Sample`, `FirstPass`, `SecondPassStarts`, `SecondPass`, `SecondPassEnds` |
| `Stores`, `Services` | instances for TLC: the sum of components that share no state | |

| proofs | of |
|---|---|
| `FamilyHub_proofs` | the hub: types, arrival order, durability, refinement, the file under failing writes |
| `HubMemory_proofs` | the turn counter; privacy and permanence of sessions |
| `HubTurns_proofs` | custody against memory; turn numbers and what replies claim |
| `TokenStore_proofs`, `ModelManager_proofs`, `HouseholdFeed_proofs` | the module each is named for, and `MemoryScopes` |
| `Services_proofs` | `AgentRegistry`, `LegacyMemory`, `NexusClient` |
| `Algorithms_proofs` | `Chunker`, `BestOfN` |

### The hub

A store's operation is one critical section of its lock, hence one atomic
action. A handler is a process with a stage `pc[h]`; a stage ends at the next
access to shared state, so every interleaving the threads can produce on shared
state is a behaviour of `Next`:

| stage | action | code in `server.py` |
|---|---|---|
| `new` | `ReadPresence` | `member_chat` up to the branch on presence, read without the lock |
| `enqueue` | `EnqueueMessage` | `enqueue`, then the 202 |
| `loading`, `down` | `Resend` | a client told to retry sends the prompt again |
| `new` | `Generate` | `/generate`, with the client's own `X-Session-Id` |
| `idle` | `Report` | the presence endpoint; `awake` goes on to the drain |
| `snapshot`, `next`, `complete` | `Snapshot`, `NextMessage`, `Complete` | `_drain_inbox` |
| `session`, `seedtest`, `seed` | `OpenSession`, `SeedTest`, `Seed` | `_live_member_turn` before its turn: `get_or_mint`, then the unlocked check-then-set |
| `cortex` | `CortexAnswers`, `CortexDown` | the generation call; the counter is read when it returns |
| `write` | `MemoryWritten`, `MemoryWriteFails` | the embedder call |
| `bump` | `BumpCounter` | counter + 1, `memory_written`, the metric record |
| `count`, `record` | `ReadCounter`, `Record` | `record_turn`, whose argument is read before its lock |
| any | `Crash` | the process dies and a new one reads the files |

`TurnStep` is shared by a live chat, a legacy request and a drain, as `_run_turn`
is. A drain sets `msg` to the message it answers, so the same code runs with the
sender's session inside the reporter's request.

Abstractions of the hub, each with its reason:

* A message is the chat request it came from; the uuid `enqueue` makes is fresh.
* A turn is one row. Its chunks share the id prefix `session:turn_idx` and are
  added in one call, so they collide together or not at all.
* Retrieval and the briefing change no state and their failures are tolerated, so
  they are no stages. The `presence_log` stamps feed only the briefing.
* The metric record is written with the counter's bump: no other code reads it.
  It stands for what a reply told its client (`memory_written`, `turn_idx`).
* The cortex client's retries are abstracted to their outcome: an answer or `CortexError`.
* A `get_or_mint` whose flush raises ends the request with an error after the
  entry is in memory; the inbox's and `record_turn`'s flushes are swallowed.
  `DiskFaults` allows failing flushes in all stores, `ReadFaults` a store file that a
  boot finds unreadable, after which the hub starts empty.
* An id in `X-Session-Id` is assumed not to be one the hub minted: clients make
  their own, and the hub's ids are uuids that no client of this repository sends
  to `/generate`. Nothing in the server checks it; `SessionAssumption` and the
  initial `minted = ClientSids` say so.
* Reports come from a set of reporters, at any time, with any state, for any
  member. What is shown therefore does not depend on what the manager does.

### The token store

A hub thread in `require_token` is `verify[r]`: `Stat` and `ReadFile` come before
the store's lock, `Adopt` and `Match` hold it, and the lock stays held from the
match until `Restat`, the second stat at the end of `_flush` (`Unlocked`). The
script has the same class in another process: it loads, changes its copy and
writes it back whole. `site.calm` says how the two are used: the script runs while
no request is verified, and reads succeed. `site.argon2` says where the library
is; an argon2 hash verifies nothing where it is not. The file's mtime is a
version number that every write raises: two writes within one tick of the clock
are not modelled. `use_count` and `last_used_at` are left out; the write they
cause is not.

### The model manager

A request is a thread of the pool, cut at each call that takes long or that
another party can see: the copy, the digests, the rename, each report, the spawn,
the wait for health, the entry in `loaded`. `regime` says how the manager is
driven: one request at a time, overlapping ones, or one at a time beside
`fetch_weights.py`. The host is Windows (`config.py`), where a file someone has
open can be neither replaced nor unlinked. `Healthy` is a question to the one
port: any server that holds it answers, also an `orphan` that a dead manager
left. The hub starts, and restarts, with `DefaultPresence` for every member. A
report may be lost, and the manager goes on the same (`Tell`); one that took effect
and timed out is, to it, the same as one that worked. A report that the hub applies
after the manager gave it up and sent the next is not modelled. `report` remembers,
for the properties, whether the hub answered the last report about a member, and
whether one of the two has restarted since.
`Evict` takes any set of files that have a copy of the same size below, whole or
not (`SameSize`): which of those the byte budget, the pins and the LRU order pick
is left open.

### Scoped memory, feed and briefing

A row is its scope, origin, author and time; its text is the conversation it came
from (`talk`), which is what privacy is about. `Add` is Chroma's `add`: a row
whose id exists stays. A writer asks for any origin of `AskedOrigins`, `ORIGINS` are
those the embedder takes. `order` is the order `get()` pages through the rows in,
that of their insertion: what is added during a back-fill comes after its offset.
A promotion reads in `PromoteRead` and writes in `PromoteAdd`, a page of the
back-fill in `MigratePage` and `MigrateUpdate`, with anything in between. That a
promoted copy's id is no other row's (`PromotedIdsAreNew`) is assumed: a turn's id
ends in its chunk's number, an event's in a uuid. The hub of these modules does not
restart: the stamps it loads again are those of the file. `Timelines` and `Briefings` are sets: `get_where` fetches a
bounded number of rows in no order, so which rows a reader gets is a choice, and a
property of a briefing is one of every choice. A `ts` is a number: the code
compares ISO strings, and the strings the hub writes order as their instants.

### The others

* `AgentRegistry`: time is the age of each entry. The core's main thread decides on
  a snapshot (`SweepBegin`) and pops by id later (`SweepOne`), its network thread
  stamps in between. A heartbeat the broker loses is one not sent.
* `LegacyMemory`: one `/embed` is two posts to the NAS per text, either of which may
  fail before or after it took effect. Row ids hash the text with the process's
  salt, so an id is the pair of the process (`boot`) and the text. A full disk cuts
  a log line short, and the next line is appended to it.
* `NexusClient`: the hub is reduced to what one request can do there; a reply reaches
  a client that still waits for it. CLI and page are one machine, apart where their
  code is (a failing poll, a 503 after the cortex retry).
* `Chunker`: the text is the running total of tokens at the end of each piece, a chunk
  an interval of pieces, its length the difference of two totals. The recursive split
  is reduced to what it yields, pieces of at most `Target` tokens; one of white space
  has none. The last line of `_pack`, which drops blank chunks, is left out because
  `ChunksAreNotBlank` proves that there are none to drop.
* `BestOfN`: a candidate is a score or an error; a score of `Full` passes the oracle.
  The selector's two passes over the candidates go one candidate at a time (`scan`);
  `once` remembers what sampling a single time would have scored.

`Stores` and `Services` put several components in one instance: a behaviour runs one
of them and leaves the others at rest, so the states of the run are the sum, not
the product, of theirs. No property spans two of them, so nothing is lost.

## 3. What is checked

| run | instance | checks |
|---|---|---|
| `hub_races` | 2 chats of 2 persons to one member, 2 reporters, 3 threads, 1 crash, failing cortex, late embedder writes | `ArrivalOrder`, `CustodyIsDurable`, `CustodyIsNotMemory`, `CounterBehindMemory`, `SessionIsPrivate`, refinement of `Custody` |
| `hub_apart` | 3 threads, 2 chats of one person and a `/generate`, 1 reporter, 1 crash, failing flushes, unreadable files, failing cortex; the turns of a session one at a time, no death with an unsaved counter (`ApartSpec`) | `TypeOK`, `ClaimedMemoryIsKept`, `NoDuplicateTurnIdx` |
| `hub_wakes` | 2 chats of one person, 1 reporter, 2 threads, 1 crash, fairness | `HandlersFinish`, `QueuedIsAnswered` |
| `hub_session_race` | 2 overlapping `/generate` of one session, nothing fails | `NoDuplicateTurnIdx` is **violated** |
| `hub_turns_after_crash` | 1 thread, 1 crash | `NoDuplicateTurnIdx` is **violated** |
| `hub_stranded` | 1 chat, 1 reporter, nothing fails | `NoStrandedMessage` is **violated** |
| `hub_answered_twice` | 1 chat, 2 reporters, nothing fails | `AnsweredOnce` is **violated** |
| `stores` | memory: 2 members, a person, a turn, 2 old rows on pages of one, an event; tokens: 2 hub threads, 2 names, 2 tokens, 3 writes | `FeedTypeOK`, `NoCrossing`, `PaperTrail`, `NoUnscopedAfterMigration`, `ScopedRowsAreFinal`, `BriefingCoversLastReport`; `TokenTypeOK`, `NamesAreUnique`, `TokensAreKept`, `VerdictIsRight` |
| `services` | 2 agents; 2 callers of `/embed`, 2 starts of the NAS; 2 prompts; 4 pieces; 2 problems of 3 candidates | `PunctualAgentsStay`, `StoppedAgentsLeave`; `OneEventPerTear`, `EventsHaveRows`; `ClientTypeOK`, `OneEffectPerPrompt`, `ReportIsTrue`, `PromptsEnd`; `ChunksCoverTurn`, `ChunkLength`, `ExcessIsOnePiece`; `SelectionIsBest` |
| `manager` | 1 member, 2 requests, 2 servers, 1 fault, the three regimes | `ManagerTypeOK`, `HotIsWhole`, `WeightsSurvive`, `EveryServerIsOwned`, `QuietHubIsRight`, `RequestsEnd`, `WakingEnds` |
| `manager_two_members` | 2 members, requests one at a time, no fault | `LoadIsPerMember` is **violated** |
| `briefing_window` | 1 member who sleeps, 1 event, 2 asleep reports | `WindowIsSleepEdge` is **violated** |

`hub_races` shows the properties that hold of the code at every interleaving.
`hub_apart` shows how little has to be taken away for turn numbers to be right: with
threads, faults and a crash as before, two turns of *one* session must not overlap,
and the hub must not die between a turn's memory and the save of its counter. The
four `hub_` violation runs show the shortest ways to lose a property that the code
or its documents promise.

`stores` shows that scopes keep members apart through promotions, a migration cut
short and overlapping writes, and that the token file is right *as long as* the
script runs between requests (`site.calm`); without that premise a revoked token
can come back, and what is left is `NamesAreUnique` and `NoTokenIsMadeUp`. `manager`
shows the manager's promises for one request at a time (`serial`), whatever the
default presence and whichever step fails, and that no
regime without `fetch_weights.py` can lose the last copy of the weights: overlapping
loads do publish torn files, but a whole one stays below. `services` shows the
promises of the components that stand beside the hub's turns.

**Bounds of the hub runs.** Two chats to one member are the least that can be misordered, and two
reporters the least that can drain one inbox at once. The members' state is
disjoint, apart from the session ids, so one member is enough for these races;
two persons are enough for one's turn to be filed under the other. `Sids` has an
id for each pair that is minted in a run (with a crash no pair is minted twice
unless its flush failed, and `hub_apart`, whose two chats are of one pair, is the only
run with failing flushes).
`Workers` is the server's thread pool: 40 in the deployed server, 3 here, so that
one chat overlaps two drains, or two others a drain. `MaxCrashes` = 1: what a crash leaves behind is the
files and the rows, and one is enough to leave them at odds (the theorems below
hold for any number). No counter
needs a bound: each chat is queued once, and once answered no new drain takes it. Hub
session ids are symmetric, and symmetry is used in the safety runs only.

**Bounds of the others.** *Memory*: one member's row, another reader, one row of
each kind (a turn, one older than scopes, an event) and their promoted copies are
all that a privacy or migration violation needs, two old rows on pages of one a
back-fill that is cut short between two pages; a person's second request for a row
is a second promotion. `FetchLimit` and `EventCap` stand for 1000 and 50 and take
three of the at most four shared rows, so both limits are met; `briefing_window` is about the window.
Time has two instants, before and after a sleep edge. *Tokens*: `MaxVersion` 3
allows a create, a revoke and a usage flush in any order; two threads are the least
that can hold an old read while the other flushes. *Manager*: one member, because
two share nothing but the port, which is `manager_two_members`; two requests can
overlap; two servers, the second of which cannot bind; one fault at any step, the
manager's death included (the theorems hold for any number). *Registry*: two
agents, so that the sweep is at one while the other beats. *Legacy*: two starts
give one text two ids; one torn line and the one it swallows. *Client*: two
prompts, so that a late reply to the first can arrive while the second waits.
*Chunker*: four pieces are two chunks, their overlap and a piece that straddles.
*Bench*: three candidates have a tie, an error and a pass. These components stop at
their bounds, so their runs do not check deadlock; the hub's runs do.

**Fairness.** *Hub* (`FairSpec`, only in `hub_wakes`). Weak fairness of each handler's
stage: a thread that can move does, and each cortex or embedder call returns or
times out (`cortex_timeout`, `embedder_timeout` in `config.py`) with an outcome
nobody chose. Strong fairness of "someone reports the member awake" and of a
drained turn's cortex call succeeding: assumptions about the environment, without
which the code promises nothing (`tests/test_inbox_drain.py`: what a stopped
drain left is "retried on the next wake"). Chats and resends have no fairness.
Strong, because a report needs a free thread, and a call may fail many times.
*Manager*: weak fairness of `Handle(r)`, each request's thread; the wait for health
has a deadline, a report a timeout, a copy ends. *Registry* (`RegistryFairness`):
time passes, the core's two threads run, a heartbeat under way is delivered.
*Client* (`ClientFairness`): weak fairness of the client's own steps, among which
`NoAnswer` is always possible while it waits, so nothing is assumed of the hub.

### Findings

1. **Two turns of one session get one index** (`hub_session_race`).
   `_run_turn` reads the counter, calls the embedder, and only then moves the
   counter on. An overlapping turn reads the same value; its row has an id the
   collection holds, which `add` drops silently while the reply says
   `memory_written`. `docs/manual_integration_test_plan.md` (G4) expects "no
   duplicate idx" and lists the race among its soft spots.
2. **A crash reuses an index** (`hub_turns_after_crash`). The counter is persisted
   by `record_turn`, after the memory write. `sessions.py` says a restart "no
   longer resets turn counters"; between the two it sets it back by one.
3. **A message can miss the wake-up** (`hub_stranded`). Presence is read before
   `enqueue` and without its lock; a report of `awake` whose snapshot falls in
   between leaves the message queued with an awake member until the next such
   report. The code's own words are "waking up means answering what accumulated
   while asleep".
4. **Two members cannot be loaded** (`manager_two_members`). `manager.py:17-19` says
   that V1 runs one member at a time "but nothing in here assumes that: load/unload
   are per-member". Every server is started on the one `llama_port` (`manager.py:113`)
   and the wait for health asks that port: the second server exits, the first answers
   for it, and the second member is recorded as loaded and reported awake.
   `OneMemberIsServed` proves what is left: right for one member.
5. **An asleep report shortens the briefing** (`briefing_window`). `set_presence`
   stamps `last_asleep_at` on every asleep report (`family_state.py:124`), also on the
   one a failed load sends for a member already asleep. `server.py:884-885` says the
   briefing is "windowed to the member's last sleep edge". `BriefingCoversLastReport`
   is what does hold: nothing stamped since the last report is left out.
6. **A message is answered twice** (`hub_answered_twice`). A drain works through its
   snapshot without asking again, and `complete_message` replaces whatever reply is
   there (`server.py:704`). Two awake reports overlap when the manager gives up on the
   first after 5 s. `family_state.py:194-195` speaks of marking "a queued message
   answered, with the reply attached for the sender's poll", which the sender may
   have read by then.

## 4. What is proved

For every set of members, persons, requests, agents, tokens or prompts, any bound
and any number of crashes and faults:

| theorem | statement |
|---|---|
| `TypeCorrect` | `Spec => []TypeOK` (`FamilyHub`) |
| `AnswersInArrivalOrder` | `Spec => []ArrivalOrder` |
| `QueuedIsDurable` | if store files can be written and read, `Spec => []CustodyIsDurable` |
| `InboxKeepsCustody` | on the same premise, `Spec => CustodySpec` |
| `CounterStaysBehindMemory` | `Spec => []CounterBehindMemory` |
| `SessionsArePrivate` | `Spec => []SessionIsPrivate` |
| `CustodyKeepsOutOfMemory` | `Spec => []CustodyIsNotMemory` |
| `NoIndexTwice` | `ApartSpec => []NoDuplicateTurnIdx` |
| `ClaimsAreKept` | `LateWrites = FALSE` implies `ApartSpec => []ClaimedMemoryIsKept` |
| `FileNeverGoesBack` | if a boot can read the file, whatever writes the disk refuses, `Spec => FileForgetsNothing`: a message in the file stays there, and so does its answer |
| `SessionsLast` | on the same premise, `Spec => SessionsAreKept`: a pair keeps the session that reached the file |
| `ConversationsStayWhole` | if store files can be written and read, `Spec => []OneConversation`: a person's turns with a member are in one session |
| `TokensTyped`, `OneTokenPerName` | `TokenSpec => []TokenTypeOK`, `[]NamesAreUnique` |
| `NoTokenIsLost`, `NoStaleVerdict` | `TokenSpec => []TokensAreKept`, `[]VerdictIsRight` |
| `NoTokenIsMadeUp` | `TokenSpec => []TokensAreIssued`, also without `site.calm`: a token has one name, was drawn by create, and only such a token is let in |
| `ManagerTyped`, `LastCopyStays` | `Spec => []ManagerTypeOK`, `WeightsSurvive` (`ModelManager`) |
| `HotWeightsAreWhole`, `NoServerIsLost`, `QuietHubIsRightAlways` | `Spec => []HotIsWhole`, `[]EveryServerIsOwned`, `[]QuietHubIsRight` |
| `OneMemberIsServed` | for one member and requests one at a time, `Spec => []LoadIsPerMember` |
| `FeedTyped` | `Spec => []FeedTypeOK` (`HouseholdFeed`) |
| `QueriesDoNotCross`, `PromotionsAreTraced` | `Spec => []NoCrossing`, `[]PaperTrail` |
| `MigrationIsComplete`, `ScopedRowsStay` | `Spec => []NoUnscopedAfterMigration`, `ScopedRowsAreFinal` |
| `BriefingIsComplete` | `Spec => []BriefingCoversLastReport` |
| `PunctualAgentsAreKept` | `RegistrySpec => PunctualAgentsStay` |
| `LoggedIsStored`, `TornLineCostsOne` | `LegacySpec => []EventsHaveRows`, `[]OneEventPerTear` |
| `OnePromptOneEffect`, `UserIsToldTheTruth`, `FivePostsAtMost` | `ClientSpec => []OneEffectPerPrompt`, `[]ReportIsTrue`, `[]ClientTypeOK` |
| `NothingIsTakenBack` | `ClientSpec => ReportsStand`: what the user was told of a prompt stands |
| `TurnIsCovered`, `ChunksAreShort`, `ChunksAreNotBlank` | `ChunkSpec => []ChunksCoverTurn`, `[]ChunkLength`, `[]NoBlankChunk` |
| `ExcessIsSmall` | `ChunkSpec => []ExcessIsOnePiece` |
| `FirstOfTheBestCounts` | `BenchSpec => []SelectionIsBest` |

They rest on the named assumptions of the modules, which TLC evaluates in the runs:
`HouseholdAssumption`, `FamilyAssumption`, `SessionAssumption`, `HubAssumption`,
`TokenAssumption`, `ManagerAssumption` (a family has members), `ScopesAssumption`,
`NoneIsNoRow`, `PromotedIdsAreNew`, `StoreIsFinite` (`BriefingIsComplete` counts rows),
`FeedAssumption`
(a briefing's cap is within what it asks of the timeline), `RegistryAssumption`,
`LegacyAssumption`, `ClientAssumption`, `ChunkerAssumption` and `BestOfNAssumption`.

Some theorems have a premise more, because without it the property is false:

* `QueuedIsDurable` and `InboxKeepsCustody` need `DiskFaults = FALSE`, as the code sends
  the 202 even when the flush failed, and `ReadFaults = FALSE`, as a hub that cannot read
  its file starts empty. `FileNeverGoesBack` says what is left of custody on a disk that
  refuses writes: what did reach it stays. `ConversationsStayWhole` needs both too: a
  mint that missed the file, or cannot be read, is minted anew after a crash, and the
  pair's rows are then in two sessions.
* `NoIndexTwice` and `ClaimsAreKept` are of `ApartSpec`, which takes from `Spec` just the
  two events of `hub_session_race` and `hub_turns_after_crash`: a second turn of a
  session while one is numbered (`TurnsApart`), and a death while a counter is not in
  its pair's file (`CountersSaved`; a client's own session never is, so the hub does
  not die once one has a turn). Threads, turns of different sessions, failing flushes,
  unreadable files, cortex faults and other crashes are all in it. `ClaimsAreKept`
  needs `LateWrites = FALSE`: a row stored after its caller gave it up makes the next
  turn's row a duplicate.
* `OneMemberIsServed` has the premise that `manager_two_members` goes without.

The inductive invariants, and why the properties alone are not inductive:

* **`TypeInv`** = `TypeOK` and `TurnFrames`: a handler inside a turn has a message,
  and from `seedtest` on a session. Without it the embedder call and the counter
  access of a stage could be at no session.
* **`OrderInv`** = `BoxOK` of the inbox and of the file, and `DrainOK` of every
  drain. `BoxOK` numbers the messages of an inbox distinctly, up to `arrivals`.
  `DrainOK` says that a drain's snapshot is closed under the *older* messages that
  are still queued, and that the message whose turn runs is the oldest of them.
  That is why overlapping drains keep the order: each may complete a message the
  other has completed, but neither can reach one while an older is queued. It
  survives new arrivals (they are younger), other drains (they only remove
  messages) and crashes (no drain is left, and the file is a `BoxOK` inbox too).
* **`FileIsInbox`, `ToldIsQueued`**: with a faultless disk the file equals the
  inbox, and who was told "queued" is in it.
* **`DenseInv`**: every number a counter holds, in the dict, in the session's
  entry, in the file *or in a handler's local variable* (`carried`, the late seed
  and the argument of `record_turn`; `turn_idx` between the write and the bump),
  has a row for each index below it. Only stale values are ever written back, and
  a stale value is also dense, because rows are never removed.
* **`SessionInv`, `PrivateInv`**: minted ids are in use by one pair at most, in
  memory, in the file and in the handlers' frames; a row's session belongs to its
  sender's pair or to a client. A re-mint after a failed flush and a crash takes a
  new id, which no old row has.

`CustodyStep` gives the refinement: an `EnqueueMessage` is an `Accept`, a
`Complete` of a queued message an `Answer` (by `DrainOK`, the oldest), and every
other step, a crash included, a stutter.

* **`RowsAreAnswers`** (for `CustodyIsNotMemory`): a row with the text of a message
  is the work of the sender's own live turn or of a drain still in that turn, or the
  message is answered. The property speaks of the inbox alone, which the step that
  adds the row does not touch.
* **`NumbersInv`** (for `NoIndexTwice`): an index that was reported is `Spent`: the
  session's counter is past it or, after a restart and before the first turn seeds it,
  everything that may seed it is: the pair's entry in memory and in the file, and what a
  handler took from them. And a turn between its reading of the counter and its bump
  holds exactly the session's next number (`Numbered`), because no other turn of that
  session runs.
* **`RowsInv`** (for `ClaimsAreKept`): every row's index is spent, or is that of the one
  turn about to spend it, whose own row it is (`OwnRow`); so a turn's `add` never meets
  its id.
* **`FileIsBehind`** (for `FileNeverGoesBack`): a message in the file is in memory too,
  with the same number, and answered there if it is in the file. A flush writes all of
  memory, so it can only add to the file; a crash goes back to the file, and starts
  from equality.
* **`StoreIsBehind`** (for `SessionsLast`): the same of session ids. **`FileHasSids`** and
  **`RowsInSession`** (for `ConversationsStayWhole`): on a disk that works, every
  session is in the file, so a crash keeps it, and every row of a chat is in its pair's
  current one.

The other components:

* **`TokenInv`**: of every copy of the entries, wherever it is held, names are unique
  (`Files`), and no mtime is from the future (`Versions`). In a calm site, a store
  whose mtime is the file's holds what the file holds, a thread past its read holds
  the live tokens, and the script's copy is current because no request runs
  (`Calm`). `Versions` is what makes "the mtime is the same" mean "the entries are".
* **`IssuedInv`** (for `NoTokenIsMadeUp`): no step adds to the entries held anywhere
  (`Copies`) but create, whose token is new (`CopiesStep`); a thread between its match
  and its second stat holds a token that was drawn.
* **`HotInv`**: a request copies from a complete file on a lower tier
  (`SourcesAreWhole`: the manager writes to the hot tier only), so what passed
  `Verify` and waits to be renamed is complete (`StagedIsWhole`); this needs
  `OneAtATime`, because `.staging` is one file per member. `WeightsSurvive` follows
  from `SourcesAreWhole` alone, in every regime it names.
* **`OwnInv`**, **`HubInv`**: stage by stage, which process a request holds and that
  its member's entry is empty until published (`HandlesAreHeld`); and that the hub is
  right about every member no request is busy with whose last report it answered, and
  calls one whose weights are still being prepared asleep (`HubFollows`): a load that
  fails in the copy makes no report. **`OneServer`** (one member): at most one server lives and none is
  an orphan, so the one in the table, or about to enter it, is the one that answers
  on the port.
* **`MemoryInv`**: the text of a row belongs to the member its scope names
  (`TalkOwnsScope`); what a promotion or a page has read still holds when it writes
  (`ReadIsCurrent`, `PlanIsCurrent`), which is why the gap between them is harmless;
  the pages go through exactly the rows there are (`OrderIsStore`), and while a
  migration runs each row without a scope is in its page's plan or at a position
  between its offset and the number it counted (`MigrationCovers`): new rows come
  behind that, and have a scope. **`FeedInv`** adds that the stamp of a member is that
  of the last asleep report (`EdgeIsStamped`).
* **`RegistryInv`**: an agent the sweep's snapshot found expired is `late`, stamped
  since or not.
* **`LegacyInv`**: the event a call is about to log names the row it has just stored
  (`EventIsStored`); a cut line and the events that were swallowed are together no
  more than the tears (`TearsPay`).
* **`ClientInv`**: a prompt the client sleeps on left nothing at the hub (`LoopOK`,
  which is why posting it again is safe); prompt by prompt, what the hub holds of a
  POST, its reply, its effects and the report agree (`PromptOK`). `PostsOf` counts
  the POSTs by the retries; `PollsOpen` says that a prompt polled for has no end the
  user was told.
* **`ChunkInv`**: the chunks emitted cover the text up to the end of the last of them
  (`ChunksFit`), and the one being filled starts inside or right behind it and holds
  less than the bound (`CurrentOK`): what it got from the overlap is shorter than the
  overlap and a piece, and it is emitted before a piece makes it longer than the target.
  **`TightInv`** adds that a chunk of a text over the threshold has tokens, and that one,
  emitted or being filled, which exceeds the target ends with the piece right behind the
  chunk before it.
* **`BenchInv`**: where the scan is, what it has seen, and that its best so far is the
  first of the best of that (`ScanInv`). The sum and the counts follow problem by
  problem.

**Only model-checked**: the liveness properties `HandlersFinish`,
`QueuedIsAnswered`, `RequestsEnd`, `WakingEnds`, `StoppedAgentsLeave` and `PromptsEnd`
(fairness and `ENABLED` are out of the prover's reach). Every safety property that
a run finds to hold has its theorem. Of those a run refutes, `NoDuplicateTurnIdx` and
`LoadIsPerMember` are also proved on the premise their run goes without.

## 5. What is not modelled

`PROJECT.json` (`components`) says of each part how much of it is modelled. Left out:

* *the cortex client*: the hub's models take its outcome. Its cached model id and
  its blind retry are listed as hazards without a property: what a served model's
  name does is up to llama-server, and generation changes nothing the hub keeps;
* *read-only endpoints* (status, roster, dashboard, inbox listing), the inbox part of
  a briefing and its spoken form: they read state whose properties are stated where
  it is written;
* *latency bench, metrics, the bench's scorers, bootstrap and comparison*: floating
  point over recorded samples;
* *start-up scripts, containers, YAML validation, page rendering, the CLI's roster
  and session file*: sequential, pure I/O or layout;
* *details inside modelled parts*: `use_count` and `last_used_at` of a token, the byte
  budget and LRU order of an eviction, the metric record of a load, the separators
  of the chunker's recursive split, and its filter for blank chunks, which drops none.

Some promises the code cannot make, or makes less of than a document or a comment
says. The properties state what does hold, and nothing states these:

* *presence after a restart* of the hub or the manager, until the next report (Card 4 of
  `SPRINT_5_PLAN_2026-07-25.md`: "kill/restart recovers presence correctly"), and that of
  a member whose last report was lost; a dead llama-server stays in `loaded`;
* *two loads of one member at once* both start a server, as `load` looks at `loaded`
  (`manager.py:163`) minutes before it fills it (`manager.py:197`);
* *rows promoted during a sleep* keep the `ts` of their conversation (`scopes.py:137`),
  and the briefing's window compares `ts`, while `architecture_v2_family_of_models.md:191`
  counts "promoted memories" to the digest; and past 1000 shared rows the timeline sorts
  the ones it happened to fetch;
* *the origin of a row*: `/memory/write` takes any of `ORIGINS`, "promotion" included, with
  no source. `PaperTrail` is about the copies that `/memory/promote` makes;
* *a revocation beside a request under way*, which writes the token back (`auth.py:301`);
  a token file that could not be read, which the next create overwrites;
* *a chunk within the target* (`chunker.py:101-103`, "until adding the next piece would
  exceed `target`"): the overlap that seeds it is not counted. `ChunkLength` and
  `ExcessIsOnePiece` bound the excess;
* *an accepted message* whose inbox file cannot be read at the next boot; rows that
  `/embed` stored before it failed; an agent whose heartbeat arrives while the sweep that
  found it late removes it.
