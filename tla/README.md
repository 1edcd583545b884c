# NeuroLithe: verification project

TLA+ specifications of NeuroLithe: what the Kafka daemon, the MCP processes and
the command line do to a workspace's two stores, to the topics and to their
clients, when messages are redelivered, calls fail, processes share a directory
and any of them dies at the wrong moment. TLC checks small instances; TLAPS
proves the safety properties of the three bus doors, the searches, the hard reset
and its replay, the knowledge tree, the MCP session, the short-term memory, the
dialogue windows and the workspace's files for every value of the constants.

Paths below are relative to the repository's root (`src/...` is the Rust crate).

## 1. The system

NeuroLithe is a memory server. A *workspace* is a directory with two SQLite
files: the short-term store (STM: a graph of facts, turns and subject nodes that
decays) and the long-term store (LTM: a tree of concepts with documents as
leaves). A workspace is written by a Kafka **daemon** and by **MCP** processes.

| Component | Code | State | Operations | What makes it correct |
|---|---|---|---|---|
| Documents feeder | `interfaces/kafka_feeder.rs` | consumer position, stored and committed offsets, rewind generation, side topics | receive, classify, retry, set aside, settle the offset, shut down | no message is committed before it is dealt with; none blocks the partition; a rewind is not overwritten |
| Document ingestion | `application/ingestion.rs`, `distill.rs` | none of its own: leaves and bodies in LTM, the fingerprinted fact in STM | ingest (upsert by data id), forget | the stores agree whatever was repeated or cut off; an "unchanged" document is stored |
| LTM placement, LTM store | `application/ltm_placement.rs`, `documents.rs`, `infrastructure/ltm_repository.rs` | nodes, edges, summaries, vectors, `doc_bodies` | place, replace, forget, roll up, garden the inbox, seed the spine, wipe | one leaf and one body per document; every leaf hangs in the tree; summaries follow |
| Commands door | `interfaces/command_consumer.rs` | offsets of the command group | pin the start, receive, process, commit | old commands never run, new ones are not skipped |
| Write service, ledger | `application/write_service.rs`, `repository/commands.rs` | `processed_commands`, turns, subject nodes, edges, notes | remember (STM, LTM), forget, age sweep | applied at least once; duplicates only after a crash |
| Reset service | `application/reset_service.rs` | both stores | soft reset, hard reset | after a hard reset the replay rebuilds what the topic says |
| Query door | `interfaces/query_consumer.rs`, `bus_query.rs`, `application/query_service.rs` | offsets of the query group | parse, answer, copy errors aside, reply, commit | no request is committed unanswered; each gets a reply |
| Retrieval | `repository/search.rs`, `application/ltm_retrieval.rs`, `domain/ranking.rs` | none (read only) | search, recall, map a thread | what a caller cannot see takes no rank; both fusions agree |
| STM repository | `infrastructure/repository/*` | nodes with score, status, decay clock; edges; vectors | insert, replace, support, boost, decay sweep, archive, find subjects | no update is lost to a concurrent one; the index says what the nodes say |
| Memory app, sleep worker, conflict resolver | `application/app.rs`, `sleep.rs`, `domain/cognition/` | episodes to facts | assimilate, accommodate, store | a decision still holds when it is carried out |
| Session manager | `application/session_manager.rs` | dialogue buffers per session | push, compress across an await, trim, evict | no turn is lost or counted twice; the cap holds |
| Models | `infrastructure/llm.rs`, `config.rs` | none | resolve provider and key, read replies | a failure is told, a hang ends |
| MCP server and transport | `interfaces/mcp/*` | call queue, owed replies, current workspace | serve, cancel, drain, end of input, switch workspace | each request is answered once; the drain ends with idle stores |
| Workspaces, database | `application/workspace.rs`, `infrastructure/database.rs` | lease and lock files, open stores | open, create, switch, delete, import | nothing is deleted while open; no half-made store is served |
| Migrations, identity, re-embedding | `application/migrations.rs`, `reembed.rs` | schema version, embedding identity | migrate, back up, check, rewrite vectors | one identity per store; a backup before each migration |
| Schedulers | `application/scheduler.rs` | none | decay sweep, ledger sweep, metrics | |
| Introspection, monitoring | `application/introspection.rs`, `monitoring.rs` | none (read only) | views, counts | a filed document can be found by browsing |

**How they interact.** The daemon (`daemon.rs`) runs the feeder, the command
consumer, the query consumer, the MCP session and the schedulers as tasks of
*one* `LocalSet` on one thread. Between two `await`s a task runs alone; at an
`await` any other task may move. The command task rewinds the feeder's consumer
directly (`ConsumerRewind`) and shares the two stores and the
`RewindGeneration` counter with it. Other processes share the two files with it
under a shared lease and SQLite's locks: between any two statements another
process may run one. A maintenance command (delete, re-embed) asks for the
workspace's lock exclusively and is refused while anyone holds the lease.

**What is hard.** The two files cannot be written in one transaction. The broker
delivers again after a crash, a rebalance or a lost commit, possibly long after
newer messages were handled. Commits are asynchronous. A reset wipes the stores
while a document is in the model's hands. Retries race the shutdown. The ledger,
the fingerprint and the subject search are cached judgements about rows that
other code removes. A fact is decided on from a search, an await of the model
later. The decay sweep works in batches beside the boosts of another process. A
directory is served, upgraded and removed by processes that see each other only
in a lock file. A client may cancel, reuse an id or close its end while calls
queue. `PROJECT.json` lists each of these under `hazards`, at its line, with the
property that would catch it.

## 2. Modules

| Module | What it is |
|---|---|
| `AtLeastOnce` | the abstract delivery contract of a partition |
| `DocumentFeeder` | the feeder and the two-store upsert it drives; implements `AtLeastOnce` |
| `CommandConsumer` | the commands door, the write service, the ledger, the wipes |
| `ResetReplay` | `DocumentFeeder` composed with the command task's hard reset |
| `LtmTree` | the knowledge tree: seeding, filing, gardening, rolling up, wiping, by several processes |
| `LtmBrowse` | the views a reader has of `LtmTree` |
| `Memory` | the short-term memory: dialogue, recalls, commands, documents and decay, by several processes |
| `Workspace` | one directory: its lock, its files, opening, migrating, re-embedding, deleting, importing |
| `McpServer` | one MCP process: transport, calls, workspace tools, shutdown |
| `Recall` | ranking: legs, fusions, graph expansion, thread map (operators only) |
| `QueryDoor` | the query door, over `Recall` |
| `Models` | provider and key resolution, what a reply comes to (operators only) |
| `Conversation` | `push_dialogue`: archive, window, compression, learning, over `Models` |
| `DocumentFeederProofs` | theorems about `DocumentFeeder` and `ResetReplay` |
| `LtmTreeProofs` | theorems about `LtmTree` and `LtmBrowse` |
| `QueryDoorProofs` | theorems about `QueryDoor` and the searches of `Recall` |
| `CommandConsumerProofs`, `McpServerProofs`, `MemoryProofs`, `ConversationProofs`, `WorkspaceProofs` | theorems about the module each is named after |
| `MC...` | the small instances of each |

### DocumentFeeder

One partition, one consumer. `pc` is where the feeder task is; every value
between `"write"` and `"settle"` is a point at which the process can die or a
call can fail.

| Actions | Code |
|---|---|
| `Receive`, `LeaveLoop` | the loop of `KafkaFeeder::run`, `recv_or_stop`; `Decide` is `decide` |
| `IngestUnchanged`, `IngestDistill`, `Distilled`, `PlaceLeaf`, `PruneLeaf`, `WriteFact` | `IngestionService::ingest`: one action per transaction (`place_with_body`, each deletion of `remove_leaves`, `replace_document_node`), and the awaits before them |
| `BeginForget`, `UnlinkLeaf`, `DropBody`, `DropFact` | `IngestionService::forget`; `UnlinkLeaf` includes the trigger that drops a body with its last leaf |
| `WriteFails`, `RetryWrite`, `SetAside`, `SetAsideFails`, `RetryAside`, `Interrupt` | `retry_write`, `set_aside_until_done`, `pause_or_stop` |
| `Settle` | `offset_action` and what the loop does with it |
| `Rewind` | `ConsumerRewind::rewind_to_earliest`, with each of its calls failing |
| `Start`, `Crash`, `Shutdown`, `Close`, `Exit` | the daemon, `commit_on_shutdown` |
| `Produce`, `BrokerAnswers`, `Revoke`, `Assign` | the world outside |

Data is abstracted to what the properties tell apart: a document's content is
its fingerprint; a leaf is the version it holds; the STM fact is the fingerprint
on it. The initial stores are empty or hold documents filed by an older release,
with the migration's stand-in body and possibly no fingerprint.
An asynchronous commit is applied or lost at any time; `fate` is a history
variable that says what became of each offset.

### CommandConsumer

One partition, one consumer. `ReadEnd`, `PinAtEnd` and `ProbeFails` are
`pin_command_start`; `Receive`, `Settle` and `Fails` are the loop and the errors
it logs (offsets are stored automatically here, unlike in the feeder);
`Check`, `StoreTurn`, `FindSubject`, `RefreshSubject`, `CreateSubject`,
`StoreEdge`, `StoreNote`, `ForgetLtm`, `ForgetStm` and `Mark` are the
transactions of `WriteService`; `WipeStm` and `WipeLtm` those of `ResetService`;
`SweepLedger` is the scheduler dropping an id from the ledger; `Archive` is a
decay sweep, of this process or of an MCP server on the same store, fading a
subject node between any two of those transactions (the lookup asks for an
active node, so a faded one is replaced by the next turn); `Expire` is the
broker dropping the group's offset.
`born`, `start`, `ran`, `broken`, `undone` and `swept` are history variables: the
end of the topic when the group last began, the offset after which it promises
every command, which commands ran, which writes were cut off, which effects a later
command removed, which ids were forgotten by age. What they feed on is what the
promises in the comments are relative to.

Abstracted: a probe attempt that fails and is tried again is one attempt; the
seeding, embedding and rewind of a hard reset are the single step `Replayed`
(they are `ResetReplay`'s subject); documents only disappear (the feeder that
files them is not in this module); the ledger's sweep may drop any id and the decay
sweep archive any subject node, whatever its age, except the node just created or
refreshed. `MaxSweeps` bounds the two together.

### ResetReplay

Extends `DocumentFeeder` with the command task of a hard reset: `TakeReset`,
`WipeStm`, `WipeLtm`, `SeedSpine`, `EmbedSpine`, `RewindFeeder`, `SettleReset`,
each of which can fail where the code can. `CommandTurn` and `FeederTurn` say
which of the two tasks may move: only at the other's awaits. `spine` is the state
of the concepts. `StartDaemon` adds the seeding, embedding and gardening of the
daemon's start to the feeder's.

### LtmTree and LtmBrowse

Each action of a process is one read or one write of the database: the unit at
which a crash, or another process, can come between. `pc` and `job` say where a
process is in which operation.

| Actions | Code |
|---|---|
| `Seed`: `Open`, `FindRoot`, `MakeRoot`, `SeedPath`, `SeekBranch`, `MakeBranch`, `LinkBranch`, ... | the seeding of the spine: root, branches, inbox, each found, created and linked in separate statements |
| `Embed`: `ListMissing`, `EmbedConcept`, `EmbedFails`, ... | the embedding of the concepts without a vector, each from its summary |
| `Roll`: `RollNext`, `ReadChildren`, `WriteSummary` | the roll-up from a leaf's container to the root, one summary at a time |
| `Write`: `Replace`, `Forget`, `FindTarget`, `File`, `PruneNext`, `DeleteLeaf`, `DropBody`, ... | the choice of a concept by distance, the leaf with its body, the prunes, the deletion |
| `Tend`: `Garden`, `Unlink`, `Relink`, `Reset`, `Crash`, ... | the gardener's two statements per document, the wipe, the end of a process |
| `Reembed` | the rewriting of the tree's vectors by `reembed`, which is alone in the directory |

A summary is the set of documents it quotes and whether it was rolled; a vector
is what it was made of, `"curated"` or `"rolled"`; a distance is a constant from
a text to a concept by name and source. `LtmBrowse` adds what a reader sees: `Map`,
`InspectNode`, `Trace`, the health counts and the placement debugger. It changes
nothing and gives the tree's properties something to be about: `BrowsingFindsDocuments`
says that the map, the branch of each document and the counts agree with what is
stored, except for leaves that an interrupted operation left unlinked, which the health count shows.

### Memory

Each process has one connection and one thread: its own statements never
interleave, those of two processes do, and a call is cut by its awaits.

| Actions | Code |
|---|---|
| `Recall`, `Boost` | a search, then `boost_relevance` of the hits |
| `Extract`, `Resolve`, `Support`, `Content`, `Create`, `Link` | `SleepWorker`, `ConflictResolver::resolve`, `update_node_support`, `update_node_content`, the insert and its edge |
| `RememberTurn`, `FindSubject`, `RefreshSubject`, `AnchorSubject` | the STM half of `WriteService`, `find_or_create_subject` |
| `StoreFact`, `ReplaceDocument`, `Forget`, `Reset` | the document fact, the `store_fact` tool, forgetting and the wipe |
| `Sweep`, `SweepOn`, `WriteBatch` | `sweep_decay`: the batch is read, then written in a transaction that checks each row again |
| `Tick` | time, in the half-lives of the slowest layer |

A text stands for its embedding; which texts are near each other is a constant.
A score is how many half-lives it is away from 1.0, so the decay of a node is an
addition and its archival a comparison.

### Workspace

Files are inodes, so that a name can be removed and made again while a process
still holds the old file. `Serve`, `Delete`, `Reembed` and `Import` begin a
command; `Lease` and `LockExclusive` are the advisory locks; `OpenFile`,
`ReadVersion`, `BackUp`, `Migrate`, `CheckIdentity`, `Rebuild`, `RecordModel`
and `RecordDim` are the opening of one store; `Unlink` and `RemoveDir` are
`remove_dir_all` name by name; `Snapshot`, `Embed` and `Rewrite` are the
re-embedding; `CopyDir`, `Copy` and `Discard` the import; `WriteVector` a server
storing a vector of its own model. `crossed` is a history variable: a process opened
the directory while it was being removed or copied into, which the code does
not prevent (section 7).

### McpServer

Handlers are tasks of one thread, so an action runs from one await to the next.
`Ask`, `Call`, `Cancel`, `Refuse` and `StdinCloses` are lines on stdin; `Enter`,
`LineUp`, `TakeTurn` are a call on its way to `one_at_a_time`; `Memory`,
`Mistake`, `Create`, `Export`, `Delete`, `BeginSwitch` and `EndSwitch` are the
tools by what they do to workspaces; `Write` writes a reply; `SessionEnds` (end of
input), `ReadFails` (an error on stdin, which waits for nothing), `ClientGoes`,
`Started`, `ServeEnds` and `Signal` are start-up and the ways to stop. `drain_calls`
waits twice: `phase` is `"draining"` until no call is in flight (`CallsOut`), then
`"settling"` until every reply owed is written (`RepliesOut`); `BudgetSpent` gives up
either wait. Lines are still read during both. `cutOff` is a history variable: the
session ended with replies owed. The rmcp library is external: one entry per id in flight, one answer
per request, none to a cancelled one.

### Recall and QueryDoor

`Recall` computes what a search returns: the nearest and the matching nodes are given, in
order; the legs, their depth, visibility, both fusions (`SqlFused` for the SQL of
`search.rs`, `RrfFuse` for `domain/ranking.rs`), the neighbours of the hits, the
recall of the long-term store with its flattening, and the map of a thread are
computed. `KnnK` is `knn_k`: the over-fetch, clamped to what the vector index allows. Scores are whole numbers in units of `1/Scale`. A sorted list is `Ordered(S, key)`: its
i-th member is the one with i - 1 others before it, which is how an order is defined
without saying how it is computed, and what can be proved about; `Only` keeps the members of a list in
their order the same way. `IsSearch`, `IsRecall` and `IsMap` say what a search can be given: an index
lists a node once (its id is the primary key), and a valid configuration has no negative weight and
at most one that is 0 (`Ranking::problems`).
`QueryDoor` is the loop around it: `Send`, `Join`, `Receive`, `Respond` (execute
and format), `CopyAside` (the operator's copy of an error), `PublishResult`,
`Refuse`, `Park`, `CommitMessage`, `CommitLands`, `Stop`, `Leave`, `Crash`. A reply
that cannot be serialized ends as one whose send fails: a warning and no result.

### Models and Conversation

`Models` resolves which client serves chat and embeddings for a configuration
and what each provider's reply becomes: facts, a summary, an error. `Conversation`
is `push_dialogue` between its awaits: `Push`, `Archive`, `ArchiveFails`,
`Compressed`, `CompressionFails`, `Recall`, `RecallFails`, `Learn`, `Hang` and
`GiveUp` (a provider that does not answer, and the client's timeout), with
`Restart` and `Switch` taking the buffers away. A window is the raw messages, the
set its summary covers, and the tokens counted.

## 3. What is checked

Each run is in `PROJECT.json` with its properties; each property has a mutant, a
plausible bug in a definition that the same run must catch. Several properties
are a conjunction of named parts that a reader would want apart; the part is
named in the table and commented in the module.

| Run | Instance | What it shows |
|---|---|---|
| `feeder_contract` | one document; an event, one without text, one without an id; two messages, two write attempts; one stop, one rewind that may fail anywhere, one rebalance | `AtLeastOnceDelivery`: the feeder implements `AtLeastOnce`. `CommittedIsAccountedFor`: a committed message that was not written is in the side topic its kind calls for. `EveryMessageHandled`, and again after a rewind |
| `feeder_upsert` | three messages of one document (two contents, a tombstone, garbage), one stop, one completed rewind | `BodyMatchesNewestLeaf`. `CaughtUpAgrees`: once caught up, both stores hold what the last message says. `ReplacementNeverLoses`: only a forget takes the last leaf |
| `commands_offsets` | a write or a hard reset, three commands; one each of stop, rebalance and expiry; an error at any call | `OldCommandsNeverRun`, `NoneSkippedAfterStart`, `EveryCommandRun` |
| `commands_writes` | turns of one thread (two of one layer, one of another), a note, a forget, a soft reset, a refused hard one, a write without its text; three commands of these; one stop, one id or node swept; errors that leave something half done | `LedgerHolds`: what is marked is stored (`MarkedIsStored`), what is stored twice lost its mark (`DuplicatesArePaidFor`). `TurnsMeet`: the turns of a thread about one document, of whatever layer, connect through its active working node, also when a sweep fades one between two transactions |
| `reset_replays` | two messages, one hard reset, one stop, an error at any step | `ReplayIsSound`: unless a reset was given up on, the replay brings both stores back to what the topic says, wherever the crash fell and whatever was in hand |
| `ltm_tree` | one process, one document, two texts, two spines (the second a branch inside the first); nine nodes, four operations, two crashes or failed embeddings | `TreeIsSound` (a text is stored while a leaf has it, no container quotes a removed document), `SpineComplete` (after an open, branches and inbox hang under the root; a crash between making and linking the inbox, `cut`, is the one exception), `BrowsingFindsDocuments`, `SummariesCurrent`, `ReplacementKeepsOne`, `OperationsHeal`, `GardeningSettles` |
| `workspace` | two processes, two commands, one crash or failure; stores current, unrecorded, empty, newer, or swapped; two models of the same dimension | `StoresAreSound` (what is served was embedded by its server's model, no index mixes two), `ServedIsOnDisk`, `UpgradesAreSafe` (a backup before each migration, foreign stores untouched) |
| `mcp` | three requests on two ids, two workspaces, one fault, a daemon holding its own workspace | `SessionIsSound` (no request told twice, calls one at a time, no workspace deleted while it is held), `NoReplyLost`, `StoresRest` (once the calls are out, nothing touches a workspace until the checkpoint, whatever is cancelled, queued or read meanwhile), `Answering` |
| `memory` | two processes, two dialogue texts and a document's within each other's distance, two nodes, batches of one | `RowsAreSound`, `VectorFollowsText`, `FreshIsKept`, `ForgottenFades` |
| `memory_talkers` | the same with two processes that learn from dialogue | violates `VectorFollowsText` (section 7) |
| `queries` | two requests, one stop or kill, one failed send; some thousand searches, recalls and thread maps over three nodes | `DoorIsSound`, `SearchIsFair`, `FusionsAgree`, `EveryRequestSettled` |
| `conversation` | two open calls, three turns, three sessions with room for one besides that in use, three configurations, one fault | `WindowsAreSound`, `LeastRecentGoFirst`, `ArchivedOnce`, `LearnedOrTold`, `PushesEnd` |

**Bounds.** Every bound is a constant named `Max...`, said to be one at its
declaration.

- *Bus.* Two messages of one document are enough for a redelivery of the older
  after the newer; three for an older version, a newer one and the older again.
  Three commands are needed for a group without a committed offset to lose its
  assignment, start again at the end and commit on. One crash or shutdown
  is enough to cut any pair of transactions apart, one rewind or rebalance to
  overtake a message in hand. The write attempts are 1 where retries only lengthen
  the run and 2 where they are the subject. A second document would add nothing
  to the feeder: documents share no state there but the offsets. `feeder_upsert`
  takes no rebalance and no failing rewind, and `reset_replays` no rebalance,
  because the code does not keep `CaughtUpAgrees` under them (section 7);
  `reset_replays` excuses a reset the code itself reports as failed (`unreplayed`).
- *Tree.* Nine nodes are a root, an inbox, two branches, and leaves and the second seeding
  of a wipe; two crashes leave two different operations half done before the
  one that must heal them, four operations are a replacement of a replacement
  with gardening and a forget. One process: two writers of one data id break
  `ReplacementKeepsOne` (section 7).
- *Workspace.* Two processes and two commands are every pair of commands at every
  interleaving of their calls. Eight inodes are two sets of files and their copies. The
  two models have the same dimension, the case that a table cannot tell apart.
- *MCP.* Two ids with three requests allow a reuse of an id and another call
  beside it; two workspaces a switch and a deletion of the one left.
- *Memory.* Two nodes are a fact and another in the same sweep, or a node and
  its neighbour; batches of one put a gap between them. `Bound` is one half-life, so a node
  is archived within the run; two layers decay at different rates.
- *Queries.* Three nodes are the fewest with a hit, a neighbour and an invisible
  node; `OverFetch` 2 keeps the case in which the bounded neighbour search is
  too short, and `KnnMaxK` 2 the one in which the clamp, at k = 2, undoes the over-fetch. `Scale` is a common multiple of the ranks' denominators: the
  fusions are compared exactly.
- *Conversation.* Three sessions with room for one evict at each turn; a length of 5 crosses
  the threshold at once and a length of 1 after several turns.

**Symmetry** is declared for the contents of a document (`feeder_upsert`,
`reset_replays`) and for two turns that differ only in their id
(`commands_writes`); no run with symmetry checks liveness.

**Deadlock** is checked in the two memory runs. Elsewhere it is not: with the
bounded environment used up, a program that has handled everything waits, which
is what it should do.

**Fairness.** In the feeder and the commands door (`FairSpec`), weak: the
supervisor restarts the process, an exiting process exits, the group assigns the
partition, and a task that can run is polled by the executor; strong, for the
feeder only: forwarding to a side topic does not fail for ever, since the code
retries it without limit and says so. In `McpServer`, weak on the handlers, the
writing of replies and the start: the runtime polls its tasks, and the model and
the stores answer a call (with an answer or an error). In `QueryDoor`, weak on
the restart, on the loop's next step, and on the broker's answer to a commit.
In `Conversation`, weak on each call going on: a hung provider is cut off by the
HTTP client's timeout, which is why `GiveUp` is part of it. In `Memory`, strong on time
and on each schedule's sweep, which runs between the calls that otherwise keep
it waiting, weak on a sweep and a call going on. Nothing is
assumed of producers, of clients, of commits succeeding, or of writes succeeding.
`LtmTree`, `Workspace` and `ResetReplay` assume none and claim no liveness.

## 4. What is proved

For every set of documents, messages, commands, questions, requests, processes,
sessions, models and stores, and for every bound:

| Theorem | Property | Module |
|---|---|---|
| `TypeCorrect` | `TypeOK` | `DocumentFeederProofs` |
| `NothingSkipped` | `CommittedOnlyHandled` | `DocumentFeederProofs` |
| `NothingUnaccounted` | `CommittedIsAccountedFor` | `DocumentFeederProofs` |
| `Delivery` | `AtLeastOnceDelivery`, the refinement of `AtLeastOnce` | `DocumentFeederProofs` |
| `BodiesMatch` | `BodyMatchesNewestLeaf` | `DocumentFeederProofs` |
| `NeverLost` | `ReplacementNeverLoses` | `DocumentFeederProofs` |
| `CaughtUpAlwaysAgrees` | `CaughtUpAgrees`, if the partition is not rebalanced and no rewind stops half-way | `DocumentFeederProofs` |
| `ReplayAlwaysSound` | `ReplayIsSound`, if the partition is not rebalanced | `DocumentFeederProofs` |
| `CommandTypes` | `TypeOK` | `CommandConsumerProofs` |
| `NoOldCommand` | `OldCommandsNeverRun` | `CommandConsumerProofs` |
| `NoneSkipped` | `NoneSkippedAfterStart` | `CommandConsumerProofs` |
| `TurnsAlwaysMeet` | `TurnsMeet` | `CommandConsumerProofs` |
| `LedgerKept` | `LedgerHolds` | `CommandConsumerProofs` |
| `TreeStaysSound` | `TreeIsSound`, if the processes take turns | `LtmTreeProofs` |
| `SpineGetsComplete` | `SpineComplete`, if the processes take turns | `LtmTreeProofs` |
| `SummariesStayCurrent` | `SummariesCurrent` | `LtmTreeProofs` |
| `ReplacementAlwaysKeepsOne` | `ReplacementKeepsOne`, if the processes take turns | `LtmTreeProofs` |
| `OperationsAlwaysHeal` | `OperationsHeal`, if the processes take turns | `LtmTreeProofs` |
| `GardeningAlwaysSettles` | `GardeningSettles` | `LtmTreeProofs` |
| `BrowsingAlwaysFinds` | `BrowsingFindsDocuments`, if the processes take turns | `LtmTreeProofs` |
| `DoorSound` | `DoorIsSound` | `QueryDoorProofs` |
| `FusionsAlwaysAgree` | `FusionsAgree` | `QueryDoorProofs` |
| `SearchStaysFair` | `SearchIsFair` | `QueryDoorProofs` |
| `SessionSound` | `SessionIsSound` | `McpServerProofs` |
| `EveryReplyGiven` | `NoReplyLost` | `McpServerProofs` |
| `StoresComeToRest` | `StoresRest` | `McpServerProofs` |
| `RowsSound` | `RowsAreSound` | `MemoryProofs` |
| `FreshKept` | `FreshIsKept` | `MemoryProofs` |
| `VectorSound` | `VectorFollowsText`, if one process talks | `MemoryProofs` |
| `WindowsSound` | `WindowsAreSound` | `ConversationProofs` |
| `EvictionInOrder` | `LeastRecentGoFirst` | `ConversationProofs` |
| `ArchivedAtMostOnce` | `ArchivedOnce` | `ConversationProofs` |
| `NothingSwallowed` | `LearnedOrTold` | `ConversationProofs` |
| `StoresSound` | `StoresAreSound` | `WorkspaceProofs` |
| `ServedOnDisk` | `ServedIsOnDisk` | `WorkspaceProofs` |
| `UpgradesSafe` | `UpgradesAreSafe` | `WorkspaceProofs` |

The proofs assume what the modules assume of their constants, which TLC evaluates
on the small instances (`FeederConstants`, `ResetConstants`, `CommandConstants`,
`TreeConstants`, `PageConstant`, `RecallConstants`, `DoorConstants`, `NoneIsNothing`,
`McpConstants`, `MemoryConstants`, `ConversationConstants`, `WorkspaceConstants`). Most of an
assumption is the kind of a constant. Three say something: a model or a question never returns
the value that stands for "nothing"; a question is of an index that lists a node once, with weights
that pass `Ranking::problems` (`IsSearch`, `IsRecall`); and a store found in a directory is `Honest`: it records
the model of its vectors, or holds only vectors nobody can attribute, as every release leaves
it (`record_embedding`). Fairness plays no part.

Some theorems have a hypothesis, each because the property is false without it (section 7):

- `VectorSound` has `OneTalks`: two talkers do break `VectorFollowsText`.
- `CaughtUpAlwaysAgrees` and `ReplayAlwaysSound` have `MaxRebalances = 0`: a rebalance while a
  message is in hand moves the group past one it overtook. The first also has rewinds that
  move nothing when they fail; a rewind that stops half-way is the second's subject.
- Five theorems of the tree have `[]Alone`, that processes take turns: at most one is inside
  an operation, whichever it is, and any of them may die in one. The run's single process
  satisfies it. The other two need no hypothesis, since their properties excuse what a
  second process disturbed (`disturbed`), and `CalmInv` says that until then processes took turns.

*The feeder's offsets.* "Everything below the committed offset is handled" is not
inductive: an asynchronous commit, a close or a rebalance commits an offset that
was remembered earlier. `Progress` says it of every offset the feeder could still
commit or resume from: the committed one, the commit in flight, the stored one,
the fetch position, and the message in hand less one if it was received in the
generation that is still current. A rewind moves the position back, which
only weakens what `Progress` demands, and starts a new generation, so that the
commit of an older message is dropped. `Control` says what the task holds at each place
of its loop. `Delivery` then maps each step to an abstract one: a settle
handles the message, any change of the committed offset is an abstract commit or
a rewind, and the rest stutters.

*What became of each message.* `NothingUnaccounted` rests on `NothingSkipped`: what is
below the committed offset has a fate. `Accounted` says that a fate
agrees with the decision on the message, and that one that is neither
written nor skipped by that decision is already in its side topic; the message in
hand has been forwarded once its step is past the forwarding. Side topics only grow, so a
redelivery cannot undo it.

*The feeder's stores.* A replacement writes the new leaf and body in one
transaction and prunes the old leaves in another. `StoresInv` adds to
`BodyMatchesNewestLeaf` that a replacement in progress has its new leaf in place
(`Replacing`), so that what the prune leaves is what the body belongs to, and
that a document whose body is still the migration's stand-in has not been
replaced: its fact, if it has one, is of the leaf's version or carries no
fingerprint (`StandinIsOld`).

*The history of a document.* `CaughtUpAgrees` speaks of the moment when all is read, and must
be led there from any moment. `Read` is where reading goes on, or will after a restart: what
is in hand and not yet settled is read again. `Order`: every offset the group may fall back
to is at or behind `Read`, so a crash moves `Read` back and never forward. `Fitting` says what being
read up to k means for a document d (`Fits`): if the last message about d is among the first k,
the stores agree with it; and if d is `Misled` (its fact is of another version than its one leaf,
which is how a replacement or a forget that was cut short leaves it, and which would make a redelivery of the
older version pass for unchanged), then a message beyond k mends it. `Fits` for k implies it for any smaller
k (`FitsLess`), so crashes and rewinds keep it at once. The steps that write are the work: those between two
transactions leave d misled at worst, with the message in hand to mend it (`HandMends`); those that
finish leave it in agreement (`FinishedAgrees`); one that finds d unchanged leaves it in
agreement or as misled as it was (`MisledFits`).

*A hard reset.* `ResetInv` runs the feeder's invariants beside the command task's. `Turns`: each task moves
only while the other awaits, so the wipe never falls between two statements of a write; a
message that was in hand before the wipe is written into empty stores after it.
`Commanded`: a reset in hand is not committed. `Replays`: what was wiped is being wiped again,
is about to be rewound, is being replayed, or was given up on and reported. `Whole`: `Order` and `Fitting` hold
whenever no wipe is outstanding. What holds across a wipe, and across a rewind that
failed half-way, is only `Mendable`: some message mends a misled document. It is what the completed rewind
starts from, for it puts `Read` to 0 and then every message is yet to come.

*The commands door.* `OffsetsInv` has the same `Progress`, with "processed, or not
after `start`" for "handled", and `Beginning`: no offset the group remembers is older than
the end of the topic when it began. Both need `Control`: while the start is
being probed the consumer holds no partition and no commit is in flight, so the
pin cannot move an offset back. A step of the write or of a reset changes no
offset (`ProcessSteps`), so the offsets are proved once for all of them. For the
types of the stores, `Holding` says that the command in hand is a write with an
id where the code relies on it, and that an edge is stored between two rows
that exist.

*Where turns meet.* `TurnsMeet` is not inductive: an edge is stored two transactions after the
lookup that chose its end, and a sweep may come between. `InHandMeets` says what the turn
in hand has: no other working node of its subject is active, and if its own was archived
since the lookup, that was after the turn was stored. `OneNode`: a row id names one node. A creation finds no active
node, so the new one is later than all, and every edge stored so far is of an earlier turn.

*The ledger.* Its proof stands on the two invariants of the commands door. `OnceInv`:
an id that was neither broken off nor swept has at most one turn or note, and if
it has one it is in the ledger or in hand between its write and its mark
(`Owner`); what is about to be stored is not in the ledger, hence has no copy.
`MarkedInv`: a command in the ledger and not undone is `Whole`, and the one in hand has the part of its effect
that its step has come to (`Partly`): the turn is stored, the subjects still to
do are the last of the command's (`RemainingIsLast`), the others are linked (`OthersLinked`). A
forget and a wipe take only what they put into `undone`.

*The tree.* `TreeInv` is the shape of the tree (`TreeOK`, `Rooted`, `OneInbox`), the stores' agreement
(`BodiesFollowLeaves`), and what containers quote: no document that is gone (`NoGhostTitles`), only children's
documents unless the process in hand is about to say so (`QuotesChildren`, `QuotesAll`). `Stations` says what a
process holds at each of its steps, that is, what it read of the database in an earlier
statement and relies on in this one: the path of a seeding so far (`Reached`), the containers a roll-up still has to
visit, the old leaves still to prune. All of these are of rows another process could remove, which is where
`Alone` enters. A crash only drops what a process held, so the parts on the tree alone must be
true between any two statements. `Settled` strengthens `Stations` to what is true when nothing
crashed since the operation began, and carries a seeding, a roll-up and a gardening to their ends.

*The inbox.* `InboxLinked`: unless `cut`, every inbox hangs under the root or its process is about to
link it. Only the seeding makes an inbox, and no other step takes an edge between two
containers away (`Spares`), so each step keeps it (`LinkedStep`); with `Alone` no other process is between
making and linking when one comes to the end of its seeding.

*Browsing.* `BrowseInv` adds that each container has a distance from the root, one more than its
parents' (`Ranked`), that whatever holds something hangs under something, up to the root or
an inbox (`Hung`), that only the document a gardener is moving has no parent (`NoOrphans`),
and what a process is about to link (`Hangs`). The map, its depth and its rows are recursive functions
over levels: they exist for every depth by induction (`LayersExist`, `RowsExist`), a container is in a layer
no deeper than its distance from the root (`ContainersInLayers`), so the depth in the health view reaches
them all (`DepthReaches`), and the branch of a document descends to the root (`BranchLeadsHome`).

*The query door.* `DoorInv` strengthens `DoorIsSound` by the same idea: `Progress`
says that every request behind the committed offset, the commit in flight
and the consumer's position is settled, the one in hand excepted until its step is
`"finished"`; `Control` ties each step to the request and the reply it holds, and says that
past the copying the error is on the operator's topic or its failure is logged.
It assumes of the questions that executing one never yields the value that
stands for "no reply" (`NoneIsNothing`).

*The searches.* What a search computes does not change from state to state, so the invariants
are small: what is asked is one of the questions (`Asking`), and a reply is a failure or what was computed for it
(`Answering`). The work is in the lists. Keys of which no two are equal are a strict order (`Strict`), a member's place
is the number of those before it (`Standing`), and a list of the members in the order
of their keys is *the* order (`OrderedIs`). Hence both fusions are the order of one table of rows (`SqlFusedIs`,
`FuseIs`). The one in Rust breaks a tie by arrival, the one in SQL by id, and neither ever
does: two nodes never share both ranks (`PlacesDiffer`). That also makes the fusion of one leg
that leg (`FusionOfOne`, since a later rank has no more points: `PointsFall`), and with `NearestOfAll` (the two vector
indexes, each read to the full depth, hold the nearest of all) it gives the order of a search whose other leg
is off. For what cannot be seen: what is kept of a beginning is a beginning of what is kept (`OnlyBeginning`), so
cutting after looking and looking in a store without the rest give the same leg (`NearUnseen`, under
`Reaches`). That no hit is lost on the way to the reply is an induction over the flattening (`SomethingLeft`).

*The MCP session.* `NoReplyLost` speaks of the end of a session and nothing in it is
inductive. `McpInv` counts replies per id all along: told, in the outbox, and to come
while the id is in flight, never more than were asked (`Counted`). For an id
that was never cancelled it says more (`Exact`): asked is told plus owed, and what is
owed is in exactly one of those places. The cancelled ids are excepted because the
transport's set cannot tell two requests of one id apart. `Ends` carries the counts to where the
property looks: a session that ended by itself, or a drained process, owes nothing.
`Calls` says what each of the two waits of a drain has seen: no call is in flight while
replies settle, and with the shutdown begun none can come to be, since both doors (`Enter`,
`TakeTurn`) are shut and a last return leaves none; `StoresRest` follows step by step.
`Turns` tells handlers apart by the request they answer and gives the
turn to at most one, so that calls do not overlap; `Leases` says which workspace
each busy handler is in, so that none is deleted under it. Each step is sorted by what it does to the
replies (hands a request over, cancels, writes, has a handler return, nothing), and the counts are proved
once for each sort.

*The short-term memory.* `MemoryInv` is `Rows` (what is stored), `Tasks` (what
each process has in hand: ids it read before another process's step, which may be
gone) and `Locked` (a sweep holds the write lock, and the rows it read are as they were).
`FreshIsKept` rests on `Clock`: a score has fallen by no more than the half-lives nobody read the node for. It is
an inequality, since support raises a score and leaves the clock alone. `VectorFollowsText` is preserved by a step
only if the text that `update_node_support` writes back is still the node's (`ReadIsThere`);
that holds while one process talks, and `memory_talkers` shows what happens when two do.

*The windows.* `ConversationInv` says of a window that it is `Faithful`: its messages, the messages its summary
covers and those given up are the turns pushed since it began, each once and in
order, and its token count is theirs. While a summary is awaited, what was handed to
the model is still the older part of the window (`Asked`), which holds because calls
stand in line (`InLine`). `Recent` says that a session without a window was used before all
that have one, which is what makes an eviction remove the least recent. `Once` and
`Stands` relate a turn's archive entries to how far its call has come.
The token count of a list of messages is a recursive function, so that its value on an extended or a shortened list is
proved by induction over lengths (`LeastOf`, `Induct`, `RunningExists`, `RunningUnique`),
from the well-foundedness of `<`.

*The workspace.* `WorkspaceInv` has a part that always holds and one that holds
until `crossed`. Always: each process holds and has open what its place in its command calls for (`Placed`),
every inode it refers to exists (`Files`), and an exclusive lock has one holder
(`Exclusion`). Until `crossed`, `Directory`: whoever holds a lock holds the file *now* named
`.lock`, a deletion is alone, a copy into the directory has no one past its door, and whatever a process has open is
what the directory names. From this follows that two processes with one inode open
have it as the same store of the pair (`OneOfAKind`), and that a rewriting is alone (`ExclusiveAlone`).
`Identities`: every store is `Honest`, processes that adopt an unrecorded store at once have one model, and
what a process has found out about a store (`Knows`: its version and kind are this release's,
its model is mine, its table has my dimension, a snapshot of it exists) is still so. The last is the crux, for each was read
in one step and relied on in a later one: `Better` says what another process may do to a store meanwhile, every writing step is
shown to stay within it (`WrittenIsBetter`), and `Knows` to survive it (`KnowsStays`).

## 5. What is only model-checked

- Liveness (`EveryMessageHandled`, `EveryCommandRun`, `Answering`,
  `ForgottenFades`, `EveryRequestSettled`, `PushesEnd`): fairness and `ENABLED`
  are beyond the prover.
- `memory_talkers` is a counterexample; `VectorFollowsText` is proved for one talker only.

Induction on the natural numbers is done from the well-foundedness of `<`, which
the library states without an operator parameter. What stays out of reach are
liveness, `ENABLED` and definitions declared `RECURSIVE`; the modules proved about have none of these in
what the theorems need.

## 6. What is not modelled, and why

- Export and `backup` copies: they read, and take no lock (section 7 says what
  that leaves open). The listing of documents and its paging.
- Counters and the metrics publisher; logging; the printing of the CLI.
- HTTP bodies, the tokenizer, the ONNX runtime: outside services; a call is an
  await that may fail, and `Models` says what its reply comes to.
- The parsing and layering of the configuration: it does not change while the
  program runs. `Models` has the resolution of providers and keys.
- More than one partition: offsets of different partitions share only the
  rewind generation, which drops commits and never adds one.
- Floating-point scores and distances: a distance is an order or a constant of the
  instance, a fused score an exact fraction, a decaying score a number of half-lives.

## 7. Where the code and its words part

One divergence is a run of its own and a finding in `PROJECT.json`:

- **`memory_talkers`** (`domain/cognition/conflict_resolver.rs:163`). Resolving a
  fact reads a node with its payload and, to add tags, writes that payload back
  in a later statement that neither compares nor re-indexes. When another
  process refined the text in between, the old text is back under the new
  vector, although the comment of the branch says "keep the existing text (so
  the stored embedding stays valid)".

The others were met while modelling, as counterexamples of earlier or wider
instances. No property of a passing run claims what they break; the hazards
without a property in `PROJECT.json` point here.

*The bus*

- **Overtaken** (`interfaces/kafka_feeder.rs:308`). The partition is revoked and
  assigned again at an older offset while a message is in hand; that message's
  commit then moves the group past an older one that a crash cut off between the
  stores. `docs/src/kafka.md:76-77` promises otherwise.
- **Unchanged** (`application/ingestion.rs:244`). After a failed replacement, the old
  content published again is judged unchanged from the STM fingerprint while
  LTM holds the new one.
- **Failed commands** (`interfaces/command_consumer.rs:359`). A command whose write
  failed is committed, so nothing redelivers it; lines 403-404 speak of a retry.
- **Lost commands** (`repository/lifecycle.rs:165`). The ledger survives a reset of
  the store it speaks of: a redelivered reset wipes a turn whose own redelivery
  is then skipped. `application/write_service.rs:10-11` promises at least once.
- **Reset without an assignment** (`interfaces/command_consumer.rs:81`). A hard
  reset that runs while the feeder has no partition wipes the stores and rewinds
  nothing.
- **Blind filing** (`interfaces/command_consumer.rs:388`). A document placed while
  the spine is being embedded goes to the inbox, and the replay finds it unchanged.
- **Errors between a write and its mark.** `DuplicatesArePaidFor` excepts them; the
  ledger's comment (`repository/commands.rs`) says "applied once".
- **Subject nodes** (`repository/working.rs:76`, `application/write_service.rs:164-200`). They are looked
  for in the working layer and created in the command's: while there is no
  working one, every turn of another layer makes its own. A node that a sweep archives between
  the lookup and the boost is linked to all the same, and the next turn makes another.
  Lines 137-138 have a "reused node per (thread, dataId)". `TurnsMeet` is what is
  left: it is about the active working node, and allows an edge to one archived after its
  turn was stored.
- **Query door.** A group without a committed offset starts at the end, so requests sent before
  its first commit may be skipped by a restart; a send that fails is only logged.
  `EveryRequestSettled` counts both as settled.

*The tree*

- **Two writers** (`application/ltm_placement.rs:353`). Two processes replacing
  one data id each prune every leaf but their own: both leaves may go.
- **Two first starts.** Two processes seeding an empty store at once both find no branch
  and create two of a name. The run has one process.
- **A gardener cut off** between the inbox edge and the concept's leaves a leaf without a parent,
  which no later gardening looks for, and its title in the inbox's summary. The health view
  counts it and the map lists it as a root.
- **An inbox cut off** (`infrastructure/ltm_repository.rs:190-199`). Branches are found under their
  parent, so that one whose link a crash cut is made and linked again; the inbox is found by its
  kind, whatever it hangs under, and is linked only when it is made. A crash between the two
  leaves it beside the root until the store is wiped (`cut` in `SpineComplete`).
- **Vectors from rolled summaries.** A concept whose first embedding failed, and every concept
  after a re-embedding, is embedded from its rolled summary (titles of its documents) and
  not from its curated one. Seeding rolls nothing up: a new branch is quoted by its parent
  only after a document moves.

*The workspace*

- **Deleting** (`infrastructure/database.rs:146-148`). The lock is kept "until the
  tree is gone so nobody opens it mid-delete", but `remove_dir_all` unlinks the lock file
  itself, maybe first: a process opening the directory then makes a new lock file and serves what
  is being removed. `crossed` excuses it.
- **Import and export.** An import takes no lock on the directory it fills, and a crash in it leaves
  half a workspace that opens; an export or a backup takes none on what it reads.
- **Upgrades.** Two releases opening a store at once, and two embedders first recording an
  identity at once, are ordered by SQLite's transactions only statement by
  statement: the loser of an identity race finds out at its next open.

*Memory and dialogue*

- **Cap off by one** (`application/session_manager.rs:178`). Sessions are evicted before
  the pushed one is added back: `MAX_SESSIONS` others and the one in use are kept.
  Lines 31-34 and `docs/src/mcp/push-dialogue.md` say "at most".
- **The decay clock** (`repository/graph.rs:128`). Support and content updates raise the
  score and leave `last_decayed_at`: the next sweep charges the node for the time before.
  `FreshIsKept` allows for it by asking only that an archived node was not read for its half-lives.
- **Learning into what is gone.** A fact may be assimilated into a node archived since the
  search; an episode deleted by a reset makes the node's insert fail and the push report
  a learning error.
- **Facts beyond `MAX_FACTS_PER_EXTRACTION`** are cut with a log line only (`LearnedOrTold` allows it); an
  empty summary reply drops the messages it was asked to cover.
- **Kills.** A process that dies after archiving a turn and before answering leaves the
  client in doubt; sending the turn again archives it twice (`doubted` in `ArchivedOnce`).
- **One at a time.** The windows are sound because calls wait for each other: without
  that order a compression drains turns appended during its await.

*Sessions, searches, configuration*

- An error on stdin (`interfaces/mcp/transport.rs:416`) ends the session without waiting for the
  replies owed; the drain that follows still waits for them, up to its budget.
  `NoReplyLost` leaves such a session out (`cutOff`) and holds for a clean end of input.
- A cancellation that arrives after its request was answered may take the next request of the
  same id; `NoReplyLost` leaves ids that were cancelled out.
- Where the invisible neighbours of a query outnumber the over-fetch, visible ones are
  missed (`Reaches` in `SearchIsFair`); a keyword hit without a leaf vector leaves its slot unused;
  the neighbours listed with a hit include archived ones and those of other layers.
- A missing embedding key stops the start in `resolve_identity`, where
  `daemon.rs:40-44` says that startup continues; an OpenAI embedder without
  `embedding_base_url` uses the chat model's base URL.

## 8. Plan

1. A readers-writer lock as the abstract specification of `Workspace`, with
   `MaintenanceIsAlone` as its refinement where `crossed` does not hold.
2. Two writers in `LtmTree` with the properties that survive them (`BodiesFollowLeaves`,
   `SpineComplete`) as a run of their own.
3. Export and backup beside a writing process; the memory views of the introspection.
