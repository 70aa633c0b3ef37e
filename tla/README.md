# cxdb in TLA+

cxdb stores the conversations of coding agents as an append-only DAG of *turns*
with one mutable *head* per *context*, behind a binary protocol and an HTTP API.
`cxtx` wraps an agent, captures its traffic and uploads it. This directory holds
TLA+ models of the parts whose correctness depends on crashes, retries and
interleavings, TLC configurations that check them, and TLAPS proofs.

Check a model with `tlc -config <cfg> <MC module>`, the proofs of a module with
`tlapm <module>.tla`. `PROJECT.json` lists the runs, the definitions with the
source lines they model, a mutant for every property, the hazards of the code with
the properties that watch them, the findings and the theorems.

## 1. Inventory

| Part | State | Operations | What is hard | What makes it correct |
|---|---|---|---|---|
| turn store (`server/src/turn_store`) | `turns.log`, `turns.idx`, `turns.meta`, `heads.tbl`; the same as maps; two id counters | open, create, fork, append | four synced writes per append, a crash or a failed write between or inside any two, counters that are not persisted | forest of turns, acknowledged turns and heads survive, ids never reused |
| blob store (`blob_store`) | `blobs.pack`, `blobs.idx`, index map, write offset | open, put_if_absent, get | pack record and index entry are two writes; a torn entry | every entry names its own complete record, acknowledged blobs survive |
| store (`store.rs`) | both of them, under one `RwLock` | append_turn, put_blob, create | six writes over two stores for one append | no turn before its payload |
| metadata and secondary indexes (`store.rs`, `cql/indexes.rs`) | cache, indexes by tag, title, label, time, depth | extract at the first append, read, rebuild | caching under the read lock, maintenance under the write lock, rebuild at a start | indexes and cache agree, metadata of a context never changes |
| event bus, SSE (`events.rs`, `http/mod.rs`) | subscribers with bounded channels | publish, subscribe, stream | full channels, clients that leave | order, loss only by a full channel, leavers noticed |
| protocol server, session tracker (`main.rs`, `metrics.rs`) | connection count, two maps under two locks | accept, HELLO, create, append, close | handler threads and the HTTP thread interleave at every lock; early returns | maps agree, events ordered, limit kept, disconnects announced |
| cxtx delivery (`cxtx/src`: `lib.rs`, `delivery.rs`, `cxdb_http.rs`) | channel, worker's queue, ledger | spawn, deliver, shut down | tasks race to one queue, failing and half-failing requests, deadline | order per task, nothing dropped, duplicates only of lost answers, shutdown ends |
| cxtx capture (`proxy.rs`, `session.rs`, `provider/`) | ordinals, the observed history, one exchange per request or websocket | observe a request, take an answer from a body, a stream or a websocket | every request replays its conversation in a shape other than the one it was answered in; sub-agents and streams still open share one history | what is skipped was uploaded, a conversation is uploaded once |
| filesystem snapshots (`fs_store`, `store.rs`) | `roots.idx` and a map; trees are blobs | attach_fs, get_inherited, list, read a file | an append-only file that is flushed, never synced; paths from clients | attachments survive restarts, inheritance follows the chain, a path leads to what was captured |
| type registry (`registry`) | bundles, types, enums, tags; one file per bundle | put_bundle, open | a merge that mutates while it validates, then writes the file; `read_dir` and hash maps without an order | accepted bundles are served after every restart, a tag keeps its meaning, the server starts again |
| S3 sync (`s3_sync.rs`, `main.rs`) | sizes last uploaded, manifest, the objects | restore, sync, shutdown | files are copied one by one while they grow; failing requests; a lost disk | what was backed up is served again, the backup catches up |
| query language (`cql/`) | the indexes | lex, parse, execute, search | escapes, precedence, casts, binary search in lists that must be sorted | the documented grammar; exactly the contexts a query describes |
| turn reads (`turn_store`, `store.rs`, `http/mod.rs`) | none of their own | get_last, get_before, pages of GET .../turns | the head moves between two pages | every turn of the first page's chain once |
| projection (`projection`, `http/mod.rs`) | none of their own | JSON to msgpack and back | two directions written apart, versions, enums, unknown fields | what is read can be posted again |
| Rust client (`clients/rust`) | connection, request queue, sender thread, follow state | call, reconnect, close, subscribe, follow | a retry of what may have been done, late answers, close against enqueue, a head that moves between two requests | answers belong to their requests, calls return, turns emitted once and in order |
| snapshot capture (`clients/rust/src/fstree`) | the tree built so far, the last snapshot | capture, upload, track | a directory that others write to; links and cycles | the server shows what was captured, changes are reported exactly |
| gateway, frontend, cxdb-writer, configuration, counters of the metrics | little or none | | | no candidates for a model |

How they interact: a handler thread (`main.rs`) or the HTTP thread (`http/mod.rs`)
takes the store's lock, calls `store.rs`, which calls blob store and turn store in
that order and then maintains cache and indexes; the thread then publishes on the
event bus and tells the session tracker. SSE threads read the bus; the Rust client's
subscriber reads their streams and its follower asks the server, over the binary
protocol, for what the events announce. Searches, pages and projections run under the
read lock and the registry's mutex. The S3 task copies the files of all the stores
without any of their locks. cxtx reaches the server through the HTTP API alone.

## 2. Modules

| Module | Models | State and actions |
|---|---|---|
| `ContextDag` | abstract: what the turn store promises | a growing set of turns whose parents exist, heads that only move to a child or a new context |
| `TurnStore` | `turn_store/mod.rs` | a file is what a scan recovers (`valid`) and the bytes behind it (`junk`); `op` is the operation that holds the write lock and the stage it has reached. `CreateBegin`, `AppendBegin` up to the first write, one action per write (`WriteLog`, `WriteIdx`, `WriteMeta`, `WriteHead`), `Reply`; `Crash` and `WriteFails` at every stage; `Open` folds `load_turns`, `load_meta`, `load_heads` and the counters |
| `BlobStore` | `blob_store/mod.rs` | `PutBegin`, `PutPack`, `PutIdx`, open, crash, failed write; `blobs.idx` keeps the parts of entries that failed writes left, because its scan has no checksum and may read them as entries; the content of a blob is its hash, so two different contents never meet |
| `Store` | `store.rs`, composes the two | `append_turn` stores the payload, then checks and appends; one crash hits both stores |
| `ContextMetadata` | `store.rs`, `cql/indexes.rs`, the metadata reads of `http/mod.rs` | heads and turns as chains, the cache, the indexes; appends, reads that fill the cache, restart with rebuild |
| `EventBus` | `events.rs`, `handle_sse_stream` | a channel per stream, publish with `try_send`, the stream thread, heartbeats, clients that leave |
| `Sessions` | `main.rs`, `metrics.rs`, the writes of `http/mod.rs`; extends `EventBus` | one thread per connection, a step per lock, tracker map and event; the store is its lock and counters; an append may name a context that does not exist yet |
| `Delivery` | `cxtx/src`: `lib.rs`, `proxy.rs`, `session.rs`, `delivery.rs`, `cxdb_http.rs` | `run()`, proxy tasks that take ordinals and send turns, the worker's loop that takes messages one by one until the channel is empty, its three requests, each answered, refused, or carried out with the answer lost |
| `Provider` | `cxtx/src/provider/*.rs` | operators: the history in a request, the answer in a body or in the frames so far, for chat, Responses and Anthropic; what child and provider send is external |
| `Capture` | `proxy.rs`, `session.rs`; extends `Provider` | requests of several conversations, bodies, streams chunk by chunk and their end, websockets, errors of each; the observed history and the turns uploaded |
| `Client` | `clients/rust/src/client.rs`, `protocol.rs` | connections as two queues of frames that may break in two ways, dial, write a frame, read the next one, deadlines |
| `Reconnect` | `reconnect.rs`; extends `Client` | callers, bounded queue, sender thread, redial with retries and sleep, close |
| `Wire` | encoders and parsers of client and server (`turn.rs`, `context.rs`, `fs.rs`; `protocol/mod.rs`, `main.rs`) | one exchange: the call, the frame, what the server reads, its answer, what the call returns; an operation that fails ends the connection, except for the ERROR frames of GET_HEAD and of a blob's hash; a byte is a digit of a small base, casts drop high digits. GET_BLOB, for which the client has no code, is left out |
| `Follow` | `subscribe.rs`, `follow.rs`; extends `EventBus` | the subscriber's thread on a stream that may be cut, the hint channel, the follower with its two requests, `FollowState` |
| `Registry` | `registry/mod.rs` | a merge step by step in any order, refusals in the middle of it, the file, kills and open |
| `FsRoots` | `fs_store/mod.rs` (index), `store.rs` | the file as pieces of records, attach, load, inheritance, kills, failed writes, power losses |
| `FsTree` | `fs_store/mod.rs` (trees), `store.rs` | operators: parse a tree, resolve a path, list, read, sizes |
| `FsCapture` | `fstree/*.rs`; extends `FsTree` | one action per directory entry, upload blob by blob, attach, `Tracker.snapshot` and `diff_from_last` as steps of their own, other programs' writes in between |
| `S3Sync` | `s3_sync.rs`, `main.rs` | restore at the start, the sync task file by file, the manifest and then the recorded sizes, appends file by file, crashes, lost disks |
| `CqlParser` | `cql/parser.rs`, `ast.rs` | operators from characters to tokens to trees, keywords and booleans in any case, strings that are dates; a client types a query |
| `CqlSearch` | `cql/indexes.rs`, `executor.rs`, searches of `store.rs` | indexes as relations and sorted lists, one operator per kind of comparison; contexts are added and grow, the server is reopened and rebuilds the indexes, a search is answered |
| `Paging` | reads of `turn_store/mod.rs`, `store.rs`, `http/mod.rs`; extends `ContextDag` | a reader of the raw or the typed view that goes from page to page while turns are appended, to contexts that exist or not, contexts are created or forked and the server restarts |
| `Projection` | `projection/mod.rs`, encoders of `http/mod.rs` | values as tagged records, the order in which an enum's labels are searched, a post and a read |
| `StoreProofs`, `EventBusProofs`, `SessionsProofs`, `DeliveryProofs`, `ClientsProofs`, `DataDirProofs`, `QueriesProofs` | | theorems about `TurnStore`, `BlobStore` and `Store`; `EventBus`; `Sessions`; `Delivery` and `Capture`; `Reconnect`, `Follow` and `Wire`; `Registry`, `FsRoots` and `S3Sync`; `ContextMetadata` and `Paging` |
| `Induction` | | lemmas about natural numbers that those proofs share |
| `MC...` | | instances for TLC |

Where modules share no state (`MCClients`, `MCDataDir`, `MCDelivery`, `MCQueries`) one
instance holds several of them: a variable `part`, chosen at the start, says which one moves.

Data is abstracted to what the properties tell apart. A payload is a model value; a
turn in cxtx is its ordinal, kind and author; an event carries ids only. A torn
record is a number of bytes, because the loaders treat a tail shorter than their
first field differently from a longer one. Strings are opaque except where a property
is about their characters (the query lexer, prefixes and case in the indexes, lengths
on the wire, the pieces a streamed answer is put together from).

## 3. Runs

| Run | Shows | Bounds, and why they are enough |
|---|---|---|
| `store_crash` | with crashes only (tears of at least one field), what was acknowledged survives any crash and keeps its id, a turn always has its payload, and the turn store implements `ContextDag` | 3 turns, 2 contexts, 2 payloads, 2 faults in each store: a fork, a shared payload, a crash during recovery from a crash |
| `store_faults` | under every fault modelled, failed writes, short tears and stray appends included, the turns still form a forest, and index entries still name their own records unless an error cut that very entry short, which is then refused and never served as another blob | 2 turns, 1 context, 2 faults: one torn write, records behind it, one restart; parts of an index entry that end in the hash, in the lengths and behind them |
| `turnstore_short_tear` | finding 1 | |
| `sessions` | tracker, order of events (except that a turn appended to an id before its context is created is announced before it), disconnects, closed connections announced and the write lock given back | 2 connections, 2 sessions, 1 HTTP write, `MaxRequests` = 2 requests in all: every pair of handlers interleaved at each lock. No subscriber: publishing never waits for one, and `follow` has the streams |
| `follow` | loss only by a full channel; a turn emitted again only once it has left the window of `max_seen` ids, depths in order unless the head moved between the two requests of a sync on a branched context, and no gap unless the context is branched or the head moved; every accepted hint followed up; leavers noticed | 2 streams, channels of 1, 3 turns, 1 failing request: an overflow, a cut stream with turns appended meanwhile, a head that moves to another branch |
| `delivery` | order, duplicates, loss, ledger, outage marks; a session with a context catches up; a shutdown ends. In capture: every item the session takes for recorded was uploaded, in that order; a conversation that is alone, without errors, and whose answers are all taken in time and replayed as they were taken, is uploaded once and completely | one proxy task and the main task for a channel of one, 2 failing requests: an outage within an outage, a retry that fails again; `MaxEvents` = 2 captured turns and failing requests. Capture: 2 conversations with 3 requests in all, `MaxUpsets` = 1 error at any point, chunks of 3 frames or all the rest; Codex over HTTP and websocket, Pi with both formats: a second request before the first answer is taken, two conversations in turn, a request repeated after an error, a change of mode, answers with text, calls or nothing |
| `delivery_early` | finding 2 | no failing request |
| `clients` | answers and requests, repetitions, calls and close that return (a call without a deadline that was queued after the sender's last look excepted); both sides of the wire agree | 2 callers for a queue of 1, 2 dials with a sleep between them, 2 faults: a redial that fails, a close while the sender sleeps, a break after the server carried out the request. `Base` = 4: tags on both sides of a u16's limit, a frame above the limit |
| `clients_stale` | finding 3 | |
| `datadir` | registry, snapshot index, backup and capture, each under its faults | 7 bundles (an accepted, a conflicting, one with an unknown enum, two with one file name, one with a type version that is no number, one with version 0), 2 failures; 3 attachments in a tree of 3 turns, 3 faults; 2 files and 2 appends with 4 stops and 1 failed request, so that a disk is lost again after a restore; 2 captures of a directory with 4 entries and 1 write in between, 4 sets of options, patterns and an `exclude_fn` among them |
| `datadir_overwrite` | finding 4 | |
| `queries` | cache and index agree; lexer, parser, search, pages, JSON | 3 turns, 3 contexts, 2 restarts; queries of up to 5 chunks, lexed up to 7 tokens; 3 contexts with 3 kinds of metadata, 2 later appends to them, a reopened server, and every operator with values it takes and refuses, dates before and after 1970 among them; 4 turns, typed and not, in 2 contexts, pages of 0 to 2 turns in both views: a chain of several pages, a head overwritten between two of them; a type of two versions with an enum (labels that are numerals or occur twice, searched in either order), references, arrays, unknown fields, and bytes as base64, hex, arrays or objects |

Deadlock is checked for `store_crash`, whose next-state relation always offers a
restart. The other runs end where the bounds stop all clients, where a start that
failed is final, or where the process exits.

### Fairness

* `EventBus`: a stream's thread runs (weak fairness), and a heartbeat or a write to
  a client that has left eventually fails (strong fairness: the thread alternates
  between waiting and writing, and `recv_timeout` makes it write at least every
  heartbeat interval).
* `Sessions`: each handler thread runs. A write to a socket ends, by success or by
  error: the sockets have read and write timeouts. Nothing is assumed of clients. The
  bound on requests stops new ones only, never a step the fairness is about.
* `Follow`: the subscriber's and the follower's thread run, and a turn that was stored
  is announced (`main.rs` publishes before it answers). Requests may fail; clients need
  not append.
* `Reconnect`: sender, callers and the thread in `close` run; reads and dials end by
  their timeouts, and a deadline comes. A handle is never cancelled unless someone does.
* `S3Sync`: timer, requests and an append that was begun go on while the process runs.
  Starting, stopping and appending are up to others.
* `Delivery`: `run()` and the worker are scheduled and the clock runs. The end of a
  request is owed by nobody: the HTTP client sets no timeout (`cxdb_http.rs:61`) and
  the drain deadline is looked at only between items (`delivery.rs:232-263`).
  `ShutdownEnds` and `DeliveredOnceCreated` therefore say what holds *unless one
  request never ends*, which is the only way for a shutdown to hang. The child and its
  traffic get no fairness, and neither does `Capture`.

## 4. Findings

1. **Short tears survive recovery** (`turnstore_short_tear`). `load_heads`
   (`turn_store/mod.rs:242`) does not truncate a tail shorter than 8 bytes. Records
   written behind it are lost at the next start. `docs/storage.md:112,117` say that
   partial writes are detected and truncated.
2. **An early turn blocks a whole session** (`delivery_early`). cxtx starts the child
   before it enqueues the creation of the context. A turn captured in between is at
   the front of the queue, fails for want of a context, and keeps the creation
   behind it from being processed.
3. **A late answer is taken for the next one** (`clients_stale`). The client reads the
   next frame whatever its `req_id` (`client.rs:179`), and a read that timed out does not
   count as a broken connection. `docs/protocol.md:388` says to match by `req_id`.
4. **A failed restore overwrites the backup** (`datadir_overwrite`). A download that
   fails is logged (`s3_sync.rs:183`); the server starts empty and its next sync uploads
   the small files over the good ones.

Other disagreements between code and documentation met on the way. No run shows
them, and the models contain the behaviour unless noted:

* a failed write leaves torn bytes in `turns.log`; the turns acknowledged behind
  them are cut off by the next start and their ids handed out again
  (`turn_store/mod.rs:422`; `docs/architecture.md:72` says a turn id is never
  reused). The durability invariants are therefore checked and proved without
  `WriteErrors`;
* likewise a failed write to `blobs.idx` loses the entries behind it
  (`blob_store/mod.rs:203`); if it left the hash (32 to 51 of 52 bytes), the next start
  takes it and what follows for an entry. If the offset or the lengths are among what is
  lost, `get` refuses the blob, and `put_if_absent` returns Ok without storing it again.
  `IndexBacked` names this exception (`Refused`);
* an append with an explicit parent to a context that does not exist creates it
  (`turn_store/mod.rs:386`; `StrayAppends`, and `stray` in `Sessions`): its turn is
  announced before the context is, and a later `create_context` that reaches the id
  replaces the head by an empty one (`:347`). A reader between two pages then gets an empty
  page (`:535`) and takes it for the end (`reset` in `Paging`);
* a crash between `turns.log` and `turns.meta` leaves a turn without metadata; a
  context forked from it cannot be read (`turn_store/mod.rs:432`);
* the depth index is written once per context and not at later appends (`store.rs:249`;
  `cql/mod.rs:48` says "head turn depth"), and a rebuild takes the time of the last append
  for that of the creation. `SearchExact` leaves open whether such a context is found by its
  depth or by `created` (`OutOfDate`). A context without metadata is in no index; a forked context's
  metadata may change with a restart (`store.rs:152`);
* a failed operation other than GET_HEAD, and a request that cannot be parsed, close the
  connection instead of answering with an ERROR frame (`main.rs:279,303,339,399,420`;
  `docs/protocol.md:358` promises one); the idempotency key is parsed and not used;
* cxtx: a lost answer to the creation leaves an empty context behind although
  `docs/ADR.md:24` speaks of one context per invocation; a permanent error is retried
  for ever, like a transient one; a stream task that is still capturing is not waited
  for (`proxy.rs:539`);
* cxtx: `docs/ADR.md:43` says "upload only newly observed turns even when providers replay
  full history on every request". Conversations exist for which it does not: a Responses
  answer with calls is taken with them and replayed without (`openai.rs:365` passes over
  everything but messages, `:384`); an Anthropic `content_block_start` with an empty
  `input` puts "{}" in front of the arguments (`anthropic.rs:262`); a second conversation,
  or a request that overtakes `finalize_stream` (`proxy.rs:580`), is compared with the wrong
  history; a later developer message hides what came before it (`openai.rs:354`). Each
  counts as a rewrite, and items are uploaded again. These are the exceptions
  `ConversationOnce` names (`Repeatable`, `Steady`);
* a cached absence of metadata outlives the first append (`store.rs:140`;
  `store.rs:168` says "The cache starts empty, so the first append always triggers
  extraction"), and every error exit of `handle_client` leaves its session in the tracker
  (`main.rs:240`, `metrics.rs:101`);
* `roots.idx`: attach (`fs_store/mod.rs:199`) does not sync, `:146` does not truncate
  short tails, and the file is not among those synced to S3;
* the manifest names the files whose size the current `sync_state.json` has
  (`s3_sync.rs:447`). After a lost disk that file starts empty, so a first pass in which
  an upload fails (`:296`, logged) writes a manifest without that file, although the
  bucket still has it; a second lost disk is then restored without it. `SyncedServed`
  claims nothing after such a restore (`Misses`);
* the files are copied at different times (`s3_sync.rs:277`), so a restored `heads.tbl` may
  name a turn the restored `turns.log` lacks; `load_heads` does not look, and reads of that
  context fail until the id is given to another turn. `SyncedServed` claims nothing of the
  heads after such a restore (`ahead`), and nothing while finding 1 has misaligned the file
  (`Misaligned`);
* registry: versions need not grow (`registry/README.md:98`, "Monotonic versions"); a
  refused bundle leaves types, enums and tags behind until a restart; two bundle ids may
  have one file name; which renderer wins after a restart depends on `read_dir`;
* queries: negative numbers and fractions are cut by `as_u64`, a depth by `as u32`; `~=`
  and `^~=` of `host` respect case; `is_live = true` may return contexts no index has; the
  subtraction at `executor.rs:617` has no guard, and a date before 1970 wraps to a late one
  (`executor.rs:568`). `SearchExact` asks for queries without these (`AsDocumented`);
* projection: unknown fields whose names are no numbers are stored ("Preserve unknown
  fields instead of silently dropping them", `http/mod.rs:1557`) but never shown; a
  numeric name equal to a tag replaces the field; a number above i64::MAX, like a negative
  one, is shown as null in an integer field (`projection/mod.rs:376`); a label that is a
  numeral, or that two numbers share, is posted back as another number (`http/mod.rs:1585`,
  `:1590`); a key "09" comes back as "9"; a `map` field with a `ref` loses its fields in the
  answer. `RepostStable` speaks of objects without these (`Faithful`);
* the Rust client: `get_last` without payloads is misread (`turn.rs:180` expects a length
  that `main.rs:448` does not send), compressed appends are refused by the server
  (`turn.rs:87`), a client tag beyond 65535 bytes wraps its length;
* snapshots: the client's `split_path` drops "..", the server takes it for a name; a diff
  ignores modes; `upload` reads files again, so that a file may be stored under another
  hash than its tree names, which `attach_fs` does not notice (`store.rs:461`); the tracker
  keeps a snapshot whose upload failed.

## 5. Proofs

All theorems hold for every value of the constants allowed by the named `ASSUME`s
(bounds are naturals, a channel holds at least one event, torn lengths are shorter
than a record).

**Induction**. The provers cannot instantiate the library's induction theorems, which take
an operator, so the ones used here take a set: a nonempty set of naturals has a least
element (`LeastNumber`, from the well-foundedness of the naturals), induction for a set
(`SetInduction`), and `WalkExists`: a function defined along links that lead to smaller
numbers, as from a turn to its parent, exists and satisfies its equation. What the
recursive functions of the models compute rests on these.

**StoreProofs**, first the turn store (every fault allowed). `TypeCorrect`. `DagCorrect`: turns in
memory and turns recoverable from `turns.log` form a forest whose parents have smaller
ids and whose depths count. The disk part is not inductive alone: the record that is
being written must fit what is on disk, which may lag behind memory after failed
writes. `DagIInv` therefore adds that memory is on disk unless the log has a torn
record, that the record under way is fresh and has its parent, and that the counter is
above every id.

Durability of the turn store (assuming `CrashOnly`: no failing writes, no stray appends,
tears of at least 8 bytes; each of the three conditions is needed, see the findings).
`DurableIInv` adds to the former what the files hold while the server is up (memory
mirrors the files except for the record under way), what is torn (one record, long
enough for the loaders to notice), that acknowledged records are on disk, and that
metadata has its turn. From it follow `AckedTurnsSurvive`, `AckedHeadsSurvive`,
`HeadsCorrect` and `Refinement`: every step maps to a step of `ContextDag` or to a
stutter, a crash to at most one step, because recovery may complete an append whose
head was already written.

Then the blob store. `BlobTypeCorrect` and `BlobIndexCorrect` under
every fault, with `BlobInv` (offsets are inside the pack and taken once, and each part of an
entry that an error left is one of an entry that was right or is known as cut short);
`AckedBlobsSurvive` under `BlobCrashOnly`. Last the store. Every step of `Store` is a
step or a stutter of each part (`ProjectTurns`, `ProjectBlobs`), so the parts' invariants
carry over without being proved again. `PayloadsSurvive`, assuming `BlobCrashOnly` and no
more of the turn store's faults, needs in addition that the payload of the turn under way
is already in the blob index (`Pending`).

**EventBusProofs**. `BusTypeCorrect`; `BusOrderCorrect` from `OrderInv`, which orders
sent, held and queued events as one increasing sequence; `BusLossCorrect`.

**SessionsProofs** (assuming `ClientsAssumption`: the value that stands for no holder of
the lock is not a client). `TrackerCorrect`, `EventOrderCorrect` and `DisconnectCorrect`
come from one invariant, `SessionsInv`. The tracker's maps agree only because each
handler works on its own session between the two locks, so the invariant says what is in
the maps at every place of a handler (`RegisteredInv`, `CreatingInv`, `MappedInv`,
`OwnedInv`), who may hold which session (`SlotInv`, `IdsInv`), and which contexts a
disconnecting handler has still to forget (`OrphanedInv`). The order of the events rests
on `LockInv`: a turn and its event are made under one hold of the store's lock
(`AppendedInv`, `TurnsInv`), and an answer comes after it (`AnsweredInv`); a turn for an id
no context has yet is remembered as `stray` and excepted from the order. A step of the
front end is a step or a stutter of the bus (`FrontEndUsesBus`), so the theorems of
`EventBusProofs` hold in the server (`StreamsCorrect`).

**DeliveryProofs** (assuming `TasksAssumption`: a task is neither `run()` nor the
worker). A turn goes from its maker through the channel and the queue into CXDB.
`DeliveryInv` says that each of the four holds its turns in order and lies behind the
next one (`FlowInv`), except that the front of the queue may be stored already, namely
when its answer was lost (`StoredInv`); new turns are above all others (`FreshInv`).
From that follow `OrderCorrect`, where a duplicate is counted against the lost answer
that caused it (`CopiesInv`), `DeliveryComplete`, where the shutdown message is the last
one from `run()` (`ShutdownInv`), `LedgerCorrect`, and `OutagesCorrect`, where a
recovered turn stands between two degraded ones from the moment it is queued
(`OutageInv`). The steps are first sorted into seven kinds by what they do to the places
of turns (`StepKinds`); each part of the invariant is then proved kind by kind.

Capture, in the same module (assuming `CaptureAssumption`: the protocols are the four the
proxy knows, and arrays are sequences). `ObservedIsUploaded` from `CaptureInv`. That each
observed item is *somewhere* among the uploaded ones would not be inductive in a useful
way: a request keeps a prefix of the observed history and puts new items behind it, so the
invariant has to say where the prefix was found. `EmbedInv` says that there is an
increasing map from observed items to uploaded turns; a request keeps it on the prefix and
extends it behind the last turn, and so does an answer. That needs what each parser returns
to be a sequence of items, in every format (`HistoryIsTame`), for every body, frame or
error (`ExchangeInv`, `ConvInv`). Finally the greedy search by which `ObservedUploaded` is
stated finds any sequence that can be embedded.

**ClientsProofs**, first the reconnecting client (for any number of calls, faults and
retries and any size of the queue). `AnswersCorrect` from `ReconnectInv`. The client takes whatever frame comes next,
so that answers match requests rests on the connection never having more than one of them
under way: `InStep` says that of a connection on which no read has timed out, up or
closed by the server, and that the one frame is of the request the sender is reading for.
`OwnInv` carries it over to the answers left in the result channels and to the calls that
returned. `RepeatsCorrect` from `RepeatInv`, which adds that a request is in one place (not
yet queued, in the queue once, with the sender, or past it: `PlaceInv`) and how many
copies of it the sender may have made there (`TriesInv`, `CountInv`). A copy that waits is
a place in a connection's queue; when the server takes the first frame the others move up,
and the count follows from an injection of the places after into those before
(`WaitingServed`). `DoneInv` says that every result under way is of a request that was
carried out.

The follower, in the same module (assuming `FollowAssumption`: the channel of hints
and the window hold at least one, as `FollowState::new` sees to, and there is an event for
every turn). `FollowedInOrder` from `FollowInv`: the remembered ids are
the last `max_seen` emitted ones (`Window`); while no sync was raced or the context has no
branch, the turns emitted and those still to be emitted are sorted by depth, and the last
depth is what `FollowState` has (`Ordered`); while neither happened, they are the chain from
the first turn on (`Gapless`, with `Straight` for the tree). The attempt to prove the first
form of `EmittedInOrder`, in which depths always increase, showed that it fails with a
fourth turn, one more than the run has: the head moves to another branch between `get_head`
and `get_last`, the answer has turns of that branch, and a depth is emitted again (turns 2
and 4, of the same depth). `follow.go:52` speaks of "ordered turn streams"; the invariant now
says under which conditions they are.

The messages, in the same module (assuming `WireAssumption`: calls and answers hold what the
types of the code can hold, a number fits its type and a hash has its length, while a
vector may be longer than the length written before it; a byte has at least four values).
`TheSidesAgree` from `WireInv`, which only says that each variable is what the last step made
of the ones before it; the work is in what bytes are read as. Numbers come back from their
digits if nothing was cut off (`NumberOfDigits`). `ParseOf` is the lemma about layouts:
bytes that agree with those of a layout, as far as they go, are read as its values if they
are all there and not at all otherwise, by induction over the fields. `RoundTrip` and
`Truncated` are its two halves. Each request and each answer is then a layout with room for
its values (`SizedFits`: what is inside of something whose length fits a u32 fits it too),
except for HELLO, where the client writes a zero and the server reads a length; the records
of GET_LAST are read back by a second induction. The attempt to prove the first form of
`FramesUnderstood` showed that its second part was false for a tag longer than a u16 can
say: if it is made of zero bytes, the server also understands a beginning of that HELLO. The
invariant now asks of all three parts that lengths fit.

**DataDirProofs**, first the registry (assuming `BundlesAssumption`: a bundle has an id, a
version, enums and types, and a type has fields and a renderer). `RegistryServes` and `RegistryStarts` come from `RegistryInv`. A merge changes the
maps before it is known whether the bundle is accepted, so the maps may hold more than
any file (`TagInv`, `JobInv`); but a file is written only when its bundle and the bundles
of all other files are served by the same maps (`FilesInv`, `UpInv`). Two bundles served
by the same maps cannot conflict. While `open` reads the files, the maps hold nothing but
what some file says (`LoadInv`, with one part each for enums, types and tags), so no merge
is refused, whatever the order.

The snapshot index (assuming `FsAssumption`: parents are earlier turns and fragments are
not empty). `SnapshotsAreKept` from `FsInv`: the file is a sequence of records and of
fragments that a failed write or a power loss left (`IndexShape`), every root in the map or
recoverable from the file was attached to that turn, and as long as the file is not damaged
it has exactly what was attached (`IndexExact`). What `get_inherited` returns is then the
attachment of the nearest ancestor, by induction along the parents.

The backup (assuming `SyncFilesAssumption`: the files are distinct; the records of any of
them, `heads.tbl` included, may be torn). `BackupServed` from `S3Inv`. The files of a
backup are copied at different times, so what the bucket has of an append need not be on
the disk: a torn record may be uploaded before `Store::open` cuts it. The key is that such
an append never reached the last file and never will (`Unfinished`); what the bucket has
is therefore on the disk or of an unfinished append (`OnDisk`), and an append that is in
every object is in none of the records that are cut. Heads lead to records because the
store writes `heads.tbl` last (`HeadsInv`). `RepairCuts` and `RecordAdded` say
what the store does to the content of one file. The attempt to prove the first form of
`SyncedServed` showed that it did not hold with a fourth stop (§4, the manifest).

**QueriesProofs**. `TameContextsAreFound` from `MetadataInv`: the turns are a forest
(`Forest`), the walk to the first turn of a head ends at a root and is not changed by an
append, and a context that was only appended to at its head has that root as the first turn
of its chain, whose metadata is what cache and index hold (`TameContext`). A restart that
rebuilds the index reads the same root. `PagesCoverTheChain` (assuming `PagingAssumption`:
bounds and limits are naturals, 0 included) from `PageInv`: the turns served so far are the
part of the first head's chain from the cursor up. Appends, to any context id, and forks add
turns and move heads, a restart moves the id counter, a crash leaves a turn without metadata,
and none of them changes a chain that exists, so the next page continues it. The one step
that breaks this is a `create_context` whose id a stray append already used: it leaves the
reader's context empty, and an empty page is then not claimed to be the end of the chain; the walk of
`get_before` is shown to stop exactly where the limit or the chain ends.

Only model-checked:

* all liveness (`HintsFollowed`, `LeaversNoticed` and the like): temporal reasoning under
  fairness is beyond the prover;
* `CqlParser`, `CqlSearch`, `FsTree`, `FsCapture` and `Projection`: their operators recurse
  over trees, texts and values, by `RECURSIVE`, with which the prover loses its SMT backend,
  or by folds whose operators it cannot instantiate. What a recursion over a number computes
  can be proved (`Induction`); these have no number to go down along;
* `Capture.ConversationOnce`: it needs what the folds over texts and frames put together,
  character by character and call by call.

## 6. Not modelled

* In cxtx: splitting a byte stream into frames, the spellings of JSON that mean the same
  text, URLs and headers, the child's arguments and environment, the ledger's files.
  `Delivery` leaves open which turns an exchange adds, `Capture` when they arrive: the two
  meet in the order in which ordinals are taken.
* Listings, static files and the layout of answers in `http/mod.rs`; counters and rate
  windows of `metrics.rs`; configuration; TLS; the gateway, the frontend and
  `cxdb-writer`. They keep no state that another part relies on.
* The Go client has the design of the Rust client and is not modelled apart.
* Hash collisions and bit rot (a CRC is taken to be exact). Turn ids wrap at 2^64 in the
  code; the models bound them.

## 7. Plan

1. `Registry`, `FsRoots` and `S3Sync` composed with `Store`, over one data directory with
   one crash for all.
2. Proofs: `ConversationOnce` of `Capture`.
