# gogol: a verification project

gogol is a local semantic search and knowledge store. A daemon (`gogol serve`)
keeps, for every configured index, notes, glossary terms, document entries with
their embedding vectors, and code graphs in one SQLite database; it serves
queries from in-memory snapshots and applies mutations one at a time. This
directory holds TLA+ modules for its core, the TLC configurations that check
them and TLAPS proofs of their safety properties. Paths below are relative to
the repository's `src/` directory.

## 1. The system

| Component | State it keeps | Operations | Talks to |
|---|---|---|---|
| Daemon (`daemon/embed_server.cpp`) | `DaemonState`: a published, immutable snapshot per index, the `indexing` flag, providers, write queue | QUERY, LIST, STATUS, GET (read), ADD, RM, INDEX (mutate), SHUTDOWN | every other component |
| Connection handlers (`HandlerRegistry`) | one thread and socket per client, a finished flag | `spawn`, `reap`, `shutdown_all` | daemon, write queue, embed dispatcher |
| Write queue (`daemon/write_queue.h`) | FIFO of closures, `stop_`, one worker thread | `submit`, `submit_wait`, destructor (drains) | handlers, watcher, operations |
| Embed dispatcher (`embedding/embed_dispatcher.cpp`) | FIFO of closures, one thread that owns the model | `embed_sync`, `embed_documents_batch`, `embed_async` | handlers, operations, indexer |
| Operations (`core/operations.cpp`) | none | `op_add`, `op_rm`, `op_get` | adapters, dispatcher, storage |
| Indexer (`core/indexer.cpp`) | none; locals of one run | `run_index` | adapters, dispatcher, storage |
| Adapters (`adapters/`) | none; files and notes are theirs | `scan`, `check_stale`, `get_content`, `add`, `remove` | file system, storage |
| Storage (`storage/`) | one SQLite file per index: entries (+ FTS5), mem, glossary, edges, exports, types, metrics | `save_index`, `save_index_meta_only`, `save_all`, `load_*`, `keyword_search_fts` | file system |
| Search (`core/searcher.cpp`) | none | hybrid ranking of a snapshot with FTS hits | storage |
| File watcher (`daemon/file_watcher.cpp`) | pending indexes with due times, two threads | `start`, `stop`, `mark_changed`, `debounce_loop` | write queue, through a callback |
| RPC (`daemon/rpc_v2.cpp`, `embed_client.cpp`) | per connection: key and two nonces | framing, handshake, client commands with a timeout | daemon |
| MCP server (`mcp/`) | `Session`: scope, cursors, enabled tools | `tools/call` for each tool | RPC client, storage (read) |
| Chunking and extraction (`chunking/`) | none | `chunk_file`, `extract_calls`, `extract_metrics`, `extract_*` | tree-sitter |
| Graph queries (`core/call_graph_query.cpp`, `cli/`) | loaded edges | callers, callees, affected, explore | storage |

**How a mutation flows.** A handler parses the request and calls
`WriteQueue::submit_wait`. The worker runs the closure: `mutable_copy` of the
published snapshot, `op_add`/`op_rm` (which make the note, term or file
durable, then embed), `save_index_meta_only` or `save_index`, `publish`. The
handler wakes up and writes the answer. INDEX and the watcher's callback
`submit` without waiting a closure that runs `run_index`: scan, read, embed,
merge, read notes and glossary back, `save_all` in one transaction, `publish`.

**What is hard here.** Handlers interleave with the worker at every one of these
points; files and the clock change under a running job; a crash or an exception
can fall between any two durable steps; index jobs rewrite the tables of notes
they do not own; snapshots, database and FTS rows are three copies of the same
entries; the destruction order of queues, handlers and watcher decides whether
shutdown ends; two daemons may meet at the socket. `PROJECT.json` lists them
under "hazards", each with its line and the properties that cover it.

**What makes each part correct.**

- *Daemon*: an answered mutation has taken effect once and survives a crash; no
  writer overwrites another; the snapshot has the rows of the database, except
  between the save of a job and its publication; a file's result shown as fresh is
  fresh; every request is answered.
- *Write queue*: FIFO, each job once; promises outlive their jobs; the destructor
  drains and returns; no wakeup is lost; whoever waits for a job gets its result
  (which the construction of the queue may prevent, section 4).
- *Indexer*: entries and code graph of a file never disagree the wrong way round; a
  run that nothing disturbs leaves entries and rows of the present texts only, and
  if it is forced, all of them. (Not so without force: a chunk that once failed and
  exports and types of unchanged files may be missing.)
- *Search*: a hit names the entry whose text matched.
- *Watcher*: after the last change an index job that sees it runs.
- *Lifecycle*: whoever serves is found by its socket and named by the pid file, as
  long as no daemon is started while another is on its way up or down.
- *RPC*: a request is executed at most once, by a daemon of the client's build or
  with its key; the client is told the truth.
- *MCP session*: explicit arguments win over the cursor, which reaches what was
  shown (two answers of `explore` excepted, section 4); what is acknowledged is
  stored; every request is answered, unless a write to a daemon that has gone kills
  the process or a TCP peer is silent for ever.
- *Chunking and extraction*: a chunk starts where it says; what the chunker is to
  keep is in a chunk, once; a call has one caller.

## 2. Modules

| Module | Models | Kind |
|---|---|---|
| `KnowledgeStore` | what the daemon promises about notes and terms: a linearizable, crash-safe store | abstract specification |
| `Daemon` | one index of the daemon: handlers, jobs, database, files, snapshot, crash and restart | detailed specification, implements `KnowledgeStore` |
| `MCDaemon` | instances of `Daemon` | model checking |
| `Daemon_proofs` | theorems about `Daemon` | proofs |
| `WriteQueue` | `write_queue.h` at thread level | detailed specification |
| `MCWriteQueue` | instances of `WriteQueue` | model checking |
| `WriteQueue_proofs` | theorems about `WriteQueue` | proofs |
| `Watcher` | the file watcher: watched directories, watch thread, debounce thread, stop | component, extended by `DaemonThreads` |
| `DaemonThreads` | all threads of one process: accept loop, handlers, both queues, watcher, from start to the last destructor | composition |
| `MCDaemonThreads` | instances of `DaemonThreads` | model checking |
| `DaemonThreads_proofs` | theorems about `DaemonThreads` | proofs |
| `Lifecycle` | processes one after another, the socket file, the pid file, the operator's commands, kill -9 | detailed specification |
| `MCLifecycle` | instances of `Lifecycle` | model checking |
| `Lifecycle_proofs` | theorems about `Lifecycle` | proofs |
| `HybridSearch` | one QUERY over several indexes against the writer: snapshots, FTS5 row numbers, offsets | detailed specification |
| `MCHybridSearch` | instances of `HybridSearch` | model checking |
| `HybridSearch_proofs` | theorems about `HybridSearch` | proofs |
| `CallTree` | `calls`: the depth-first walk over the stored call graph | algorithm as a state machine |
| `AffectedFiles` | `affected`: matching inputs and imports to files, the breadth-first search with its cuts | algorithm as a state machine |
| `Extraction` | the walk over the functions of a syntax tree, their calls and metrics | algorithm |
| `Chunking` | the three chunkers | algorithm |
| `GraphQueries` | one of the four at a time | composition |
| `MCGraphQueries` | instances of `GraphQueries` | model checking |
| `GraphQueries_proofs` | theorems about `GraphQueries` and its four parts | proofs |
| `Indexer` | `run_index` with its scan over files that change: entries and code graphs | detailed specification |
| `MCIndexer` | instances of `Indexer` | model checking |
| `Indexer_proofs` | theorems about `Indexer` | proofs |
| `Rpc` | commands of clients through connections, handshake, frames, timeout, crashes | component, extended by `McpSession` |
| `McpSession` | an MCP server: requests, scope, cursors, and the commands of its tools | composition with `Rpc` |
| `MCMcpSession` | instances of `McpSession` | model checking |
| `McpSession_proofs` | theorems about `Rpc`, and by way of them about `McpSession` | proofs |

`DaemonThreads` extends `Watcher`, `GraphQueries` extends `CallTree`,
`AffectedFiles`, `Extraction` and `Chunking`, and `McpSession` extends `Rpc`; the
other modules stand by themselves and take from each other only what is shown:
`Indexer` starts from the entries of the table, which by `Daemon`'s
`SavedIsPublished` are those of the snapshot; `Rpc`'s `Execute` is the path of a
command through `Daemon`, which by `EveryRequestAnswered` ends.
`Daemon` takes the write queue as the FIFO with one worker that `WriteQueue`
shows it to be (`RunsInOrder`, `InitializedWaitReturns`, `DestructorReturns`), which
is why its `queue` is a sequence whose head the single worker takes. So it is
about a daemon whose worker has not read `stop_` before it was initialized: what
happens otherwise is `WriteQueue_construct`.

### Daemon

| State | In the code |
|---|---|
| `notes`, `glossary` | tables `mem` and `glossary` of `<index>.db` |
| `db` | table `entries`: per key the hash and the content its vector came from |
| `files` | the indexed directory: the version (mtime and size) of each file |
| `snap` | `DaemonState::indexes[name]`, the shared immutable snapshot |
| `indexing` | `DaemonState::indexing` |
| `queue`, `job`, `wpc` | the write queue, the closure being run and its next step |
| `copy`, `plan`, `valid`, `mem`, `gloss` | the closure's locals |
| `req`, `hpc` | each handler's request and whether it waits or is answered |

One action per point another thread or a crash can come between: `AddItem`,
`AddDoc`, `Remove` (handlers, `submit_wait`), `RequestIndex`, `WatcherFires`
(`submit`), `Start` (`mutable_copy`), `Persist*`, `Embed*` and `Remove*` (op_add
and op_rm), `SaveMetaOnly`, `SaveIndex`, `Scan`, `ReadFiles`, `Merge`, `Reload`,
`SaveAll` (run_index), `Publish`, `JobThrows`, `Reply`, `Crash`, `Restart`,
`Edit`, `Tick`.

Abstractions: one index (indexes share nothing but the queue); a note, term or
document is a model value and its content a number; a file is one chunk; a
file's version stands for mtime and size and no two contents of one file share
it; the text added for a document is a new version; a vector is named by the
content it was computed from. The index has a root directory that exists
(`run_index` returns early otherwise). The clock counts seconds, as
the timestamps do.

### WriteQueue

`queue_`, `stop_`, the worker's place in its loop (`worker`), the closure it
has popped (`current`), the owner's place in the constructor and the destructor
(`owner`), every caller's place in `submit` or `submit_wait` and its future.
Each step is what happens under the mutex or one action outside it: the
notification is a step of its own since both senders unlock first. Members are
constructed in the order they are declared in: `StartWorker`, then `InitStop`,
which takes no lock. Until then (`owner = "half"`) `stop` is either value, for it is
uninitialized memory. The worker reads it twice, in the wait's predicate (`Awake`)
and for its exit (`Exit`, `Pop`); if it is initialized in between, the worker takes
the front of an empty queue (`PopEmpty`), where the model ends. `misread` is
auxiliary and says that the worker got past its wait on the uninitialized value.
`Destroy` needs every caller idle, as `run_embed_server` stops the watcher and joins the
handlers before its `DaemonState` goes out of scope.

### Watcher and DaemonThreads

`Watcher` has the two threads of `file_watcher.cpp`: `watching` is `g_watching`,
`dirIndex` is `g_dir_to_index` as `start_file_watcher` builds it (one index per
directory, the last of the configuration wins), `pending` the indexes marked by
`mark_changed` with their due times. A due time is *fresh* or *due*: `Settle` is
the passing of the debounce interval, a new change makes it fresh again. An inotify
event stands for a file the index scans; events of other files are filtered by
extension in `watch_loop` and change nothing.

`DaemonThreads` puts it together with `run_embed_server` (`Start` to
`JoinDispatcher`), one thread per connection (`Connect`, `Request`, `Query`,
`Mutate`, `Index`, `Shutdown`, `ReadFails`, `Reply`), the write queue's worker
(`TakeJob`, `RunJob`, `PublishJob`, `JobFails`, `WriterExits`) and the dispatcher
(`Embed`, `DispatcherExits`). Both queues are taken at the level `WriteQueue`
shows: FIFO, drained by the destructor. The handshake of a TCP connection is part
of reading the first request; a connection is closed when its handler is done;
a job that fails does so before it publishes.

### Lifecycle

`sock` is who bound `~/.gogol/sock`, `pidfile` what the pid file says, `listening`
the processes with an open listening socket, `pc` each process's place in
`run_embed_server`. One operator issues `serve` and `serve --stop`, each after the
last has returned; kill -9 (`Crash`) and SIGTERM (`Terminate`, which ends the accept
loop the way SHUTDOWN does) come at any moment. `serve` is the parent that checks
(`Serve`), forks, writes the child's pid (`ParentWritesPid`) and waits until there
is a socket file, for at most 10 s (`ServeReturns`); the process that serves is its
child, started with `--foreground`, which does not check again. A socket file that a
crash has left ends the parent's wait at once, and nothing bounds how long the child
takes to get to its `bind`: so `ServeReturns` may come at any moment, and so may
`StopReturns`, whose wait ends after 2 s. `overlapped` is auxiliary: it becomes TRUE
with a `serve` that is given while some process has to do with the two files and
does not answer, on its way up or down. The indexing indicator file and the TCP
listener are left out.

### HybridSearch

`db` is the table `entries` of each index as a sequence (row r has rowid r: every
save deletes and inserts all rows and rebuilds FTS5 in one transaction), `snap` the
published snapshots, `writer` the index saved and not yet published (which is how
`Daemon_proofs!SnapshotIsSaved` lets them differ). The handler's state is that of
`handle_query` and `search`: the snapshots `held`, their entries `all` one after the
other, `offset`, and `credit`, the positions that get a keyword contribution. The
writer may save any table: what a job can save is `Daemon`'s business. Scores and
their order are left out, so FTS5 returns any LIMIT-sized set of matching rows.
`starts` and `disturbed` are auxiliary: nothing reads them but the property.

### CallTree, AffectedFiles, GraphQueries

`CallTree` has the recursion of `print_tree` and `collect_edges_recursive` as a
`stack` of open loops, each with the edges it has not yet looked at; the two do the
same, one prints and the other collects. `Direct` is the MCP tool at depth 1, which
lists the edges without a visited set. Callers and callees are two walks of one kind;
of an edge only its two names are kept, which is all the visited set looks at.
`AffectedFiles` has the queue and the visited set of `cmd_affected` and
`handle_affected`, for one index since indexes do not meet. A path is what the code
compares of it: the last directory segment and the name without its extension.
`Affected` turns inputs into seeds, `Expands` is the depth and the hub test,
`imported_by` the match of written imports to a file; `Before` is the order of the
`std::map` it goes through, in which the new files of one step are queued. What the
search should find is stated without a search, by recursion on the distance (`Within`).
Filters, status and output are left out. Each part has a specification of its own
(`CallTreeSpec`, `AffectedSpec`, `ExtractionSpec`, `ChunkingSpec`); a step of
`GraphQueries` is a step of one of them.

### Extraction, Chunking

`Extraction` grows a syntax tree node by node (`Parse`; `Holds` says what a class of
node may hold, which is tree-sitter's part) and then computes, as `ExtractFile`,
what `walk_functions` visits (`Visits`, `Closes`, `Bodies`), which calls
`collect_calls` gives to each function (`Below`, `CallsOf`) and what `analyze_body`
counts as decisions, logical operators included (`Decisions`). Node types are put in
the classes the code compares them with. `Chunking` cuts a file with one of the
chunkers: a file is its lines (blank, matching or plain) for `RegexChunks`, its
characters for `WindowChunks`, its top-level nodes for `NodeChunks`.

### Indexer

| State | In the code |
|---|---|
| `entries`, `graph` | the tables `entries`, and `edges`, `metrics`, `exports`, `types` |
| `disk`, `mounted`, `paths` | the files (mtime and size, text), the directories that exist, those configured |
| `pc`, `force`, `listed` | the run's next step, its argument, the hashes `scan_md_files` took |
| `todo`, `pending` | files still to read; the texts of the changed ones |
| `fresh`, `rows` | entries embedded, rows extracted |

`StartRun`, `Scan` (all directories are listed in one step), `ReadFile` per file,
`Embed` (with any set of chunks that fails), `Extract` per file, which reads the file
again, `SaveAll` (one transaction), `Return`, `Dies` (an exception or the process).
`Write`, `Truncate`, `Delete`, `Unmount` and `Mount` come at any moment; `disturbed`
is auxiliary and says that one came during the run. A text is named by its version;
of every kind a file has one row, a document one per link. Notes and glossary of the
same run are in `Daemon`.

### Rpc

Per command: the client's place `cpc`, its handler's `spc`, the frames under way in
both directions, the two `CryptoState`s (a key's name and kind, and who drew each
nonce and how far it has advanced), whether the connection still holds (`linked`),
and what was done (`handled`, `outcome`) and said (`answer`). `who` is the
environment and build of the process that runs it, `keyed` whether the daemon has
keys. `Connect` to `ReadAnswer` are `RpcClient`'s; `Timeout` exists over the unix
socket only; `Handshake` to `Reply` are `handle_client_conn`'s. `Crash` loses
handlers and requests, keeps any of the replies already written; `Start` starts any
build; `Break` resets a TCP connection or makes its peer silent, so that neither end
hears of the other again unless what it writes is retransmitted often enough
(`Unacknowledged`). Only the daemon ignores SIGPIPE: a client's write to a daemon
that has closed the connection kills its process (`answer` is "killed"); over TCP it
may fail with an error (ECONNRESET) instead, or be lost. A request over the limit of
64 MB is still being written ("sending") when the daemon has read its length and
closes. Encryption is not modelled as cryptography: a frame opens if key and nonce
are those it was sealed with. Each connection carries one command, so one sealed
frame each way: that the two ends advance their nonces alike is not exercised, and
no property is about it.

### McpSession

`scope` and `results` are `Session::default_index` and `last_results`; `asked` is the
request being processed, `using` the command of the `RpcClient` its tool made, `reply`
its answer, `found` what `explore` has found in the stores. `shown` (the hits of the
last answer that listed some), `lister` (which tool it was of) and `fetched` (the
location `get` asked for) are auxiliary. A hit has a type, an index and a path.
`query` caches hits with their types; `explore` lists related hits of any type and
caches them all as documents (`AsDocs`); if a name has several definitions it lists
them and caches nothing (`ExploreChoice`). Requests come one at a time (`Ask`), with the
arguments the registry lets pass (`Valid`). `add_term` is `add_note` again. Each of a
session's commands is one connection; all have the same environment.

## 3. Runs

| Run | Instance | Shows |
|---|---|---|
| `Daemon_jobs` | 1 handler, 1 note, 1 term, 1 file with 3 versions, 1 second, 1 fault, queue of 1 | `SavedIsPublished`, `DocStatusSound`, `NoLostUpdate`, `IndexRepairsNotes`, types; `ImplementsKnowledgeStore`: refinement of `KnowledgeStore` with index jobs and a crash in between; `EveryRequestAnswered` under fairness |
| `Daemon_vectors` | 1 note, 1 fault | violation: a note added over the daemon has no vector after a restart |
| `WriteQueue_safety` | 2 waiters, 1 poster, 4 jobs, any uninitialized `stop_` | FIFO, promises, destructor returns; drain and answers unless the worker misread `stop_` |
| `WriteQueue_construct` | 2 waiters, 1 poster, 1 job | violation: a worker that misread `stop_` has exited, and `submit_wait` never returns |
| `DaemonThreads_process` | 2 connections, 1 watched directory, 2 requests, a job that throws | `QueueDestroyedUnused`, `NobodyWaitsInVain`: the destruction order is safe; `ShutdownCompletes`, `ChangesAreIndexed` under fairness |
| `Lifecycle_commands` | 3 processes, 2 crashes, any SIGTERM, commands that return at any moment | `AloneIsReachable`, `AloneStatusIsTrue`; `ServeStarts`, `StopEnds` under fairness |
| `Lifecycle_restart` | 2 processes, an operator who sends no signal and waits for `serve` to be done | violation: the stopped daemon removes its successor's socket |
| `HybridSearch_exact` | 2 indexes with tables of up to 3 entries, 3 lists of names, all filters, 2 saves | `KeywordRanksExact`: without a save in between keyword ranks are exact |
| `GraphQueries_walks` | all graphs of 4 functions with up to 4 edges, depths 1 to 3; all graphs of 4 files with up to 3 imports, up to 2 inputs, depths 1 and 2, hubs at 2 importers; all syntax trees of up to 6 nodes; all files of up to 6 lines, characters or nodes | `TreeHangsTogether`, `TreeComplete`, `AffectedExact`, `AttributedOnce`, `ChunksLocateText` |
| `Indexer_runs` | 1 code file and 1 document that links to it and to the web, each under its own of 2 directories, 2 chunks, 2 changes, 1 fault | `EntriesAndGraphAgree`; `QuietRunConverges`, `ForcedRunIsExact`: what the next undisturbed run makes of any past |
| `McpSession_requests` | 10 requests, 2 commands, 2 builds; the unix socket, or TCP with no key, the daemon's or one of other bytes (with a request over the limit); 1 crash, reset or silent peer | `ToldTheTruth`, `HandledOnceByRightDaemon`, `CursorReachesItsHit`, `AckedNoteIsStored`; `RequestsAnswered` under fairness |
| `GraphQueries_dependents` | the same files with up to 2 imports | violation: an importer in the same directory is not found |

**Bounds and why they suffice.** All concurrency in `Daemon` meets at the queue and
the single worker: jobs never overlap, a job interferes with what happens *between*
its steps (submission of another job, edit, tick, crash), so a queue of one job behind
the running one shows every pair of jobs, of one handler, INDEX and the watcher.
Clients that wait at the same time differ in nothing but the order of their jobs; that
the store is linearizable for any number of them is a theorem
(`DaemonIsAKnowledgeStore`), as is every safety property of the run. `NoLostUpdate`
says therefore that a job starts from what is published, not that two writers could
not overlap: that they do not is the queue's single worker. Three versions of a file
are those of a stat, a read after an edit and one more edit before the save; one
second crosses each pair of clock readings once; one fault puts a crash, a failed
embedding or an exception at every step, and the runs go on after it. Two notes add
nothing (entries of different keys do not interact; `NoLostUpdate` has a note, a term
and a file to tell apart).

In `DaemonThreads` two connections let one wait for a job while another shuts the
daemon down or comes after it, two requests fill both queues, and one change more than
the debounce needs falls into a running index job. (`ChangesAreIndexed` is about the
watcher's path; that INDEX does nothing while the flag is set, and events of files
outside the index, are not in it.)

In `Lifecycle` three processes are one that crashes or stops, its successor, and one
that finds both's remains. In `Lifecycle_restart` the operator only does what the
message quoted in section 4 tells him to.

In `HybridSearch` one save shifts the rows of one index, a second falls between the
other's save and publication; a list with two indexes has something to spill into, one
with a name twice reads the same index at two times, one with an unknown name
contributes nothing in the middle.

In `GraphQueries` four edges make a cycle with a tail and a function reached by a long
and a short way; three imports reach past a hub or past the depth, two files have one
name in two directories; six nodes nest a call in a function in a method in a class,
six lines make two chunks with blank lines around.

In `Indexer` two changes put an edit before and one during a run (or an emptying and a
rewrite), one fault takes a chunk, a directory or a run away while the other file goes
on; the number of runs has no bound.

In `McpSession` the first command of two may fail and the second must be unaffected;
one fault falls on every step of either, and with the crash the restart brings the
other build. Keys do not matter to a unix socket nor builds to TCP, so the run does
not combine them; callers with a key of another name are in the theorems only.

In `WriteQueue` two waiters and a poster with four jobs let each of them return and
submit again while the other's job runs.

**Deadlock** is checked in the Daemon, HybridSearch and Indexer runs: a daemon can
always take another request, an indexer another run. The runs of the queue, of the
threads, of the processes, of the session and of the graph queries end when
everything is destroyed, has ended or is answered (a session has its two commands),
and switch it off.

**Fairness.** `Daemon`: weak fairness of the worker as a whole (one thread; its jobs
contain no wait but for the embedding, which returns) and of each handler's
reply. Clients, watcher, edits, crashes and restarts are free. `WriteQueue`: weak
fairness of each thread's steps; nobody has to submit or to destroy, and spurious
wakeups never have to come. `DaemonThreads`: weak fairness of the main thread, the
writer, the dispatcher, the two watcher threads and of each handler's own steps;
reading a request and writing a reply are fair only once `shutdown_all` has shut
the socket down, since a client may be silent for ever. Nobody has to connect, to
edit or to signal. `Lifecycle`: processes run and an issued command goes on; nobody
has to issue one. `McpSession`: the session's own steps, each client's reads and
timeout, and each handler's steps are weakly fair: threads run, a job ends
(`EveryRequestAnswered`), and a peer that has closed is noticed. No request need come,
no crashed daemon be started again, no connection break, no silent one be given up.

## 4. Where code and documentation disagree

1. `Daemon_vectors`: README.md:621 says embeddings are stored per entry and loaded
   at startup; ADD saves with `save_index_meta_only`, which gives a new row no
   vector and an updated one the old vector.
2. `Lifecycle_restart`: embed_client.cpp:149 tells the user to restart with
   `gogol serve --stop && gogol serve`; `--stop` returns after 2 s whether the daemon
   has ended or not, and the old process later unlinks the socket and the pid file
   of the new one.
3. `GraphQueries_dependents`: README.md:293 says `affected` finds all files that depend
   on the given ones, and import_store.cpp:27 that matching by directory segment keeps
   relative imports working; an import of a file beside the importer is written
   `./b`, whose segment `.` is nobody's directory, so it is not found.
4. `WriteQueue_construct`: write_queue.h:47 says `submit_wait` blocks until the job
   has run; `worker_` (line 94) is declared before `stop_` (95), so the worker may read
   an uninitialized `stop_`, exit, and leave every caller waiting.

Met without a run of its own:

- *Keyword ranks.* README.md:623-624 says the FTS rows never drift from the data; a
  query applies the row numbers of now to the snapshot it took before it waited for
  its embedding (searcher.cpp:84), so a save in between ranks entries that do not
  match, of the next index in the request even. `KeywordRanksExact` is about names
  no save came between, and fails without that condition.
- *Removed documents.* `op_rm` of a document deletes the file and keeps its entries
  until the next index job, though embed_server.cpp:556-558 says an entry can never
  exist without its content.
- *Watched directories.* Of two indexes configured with the same directory only the
  later is watched (file_watcher.cpp:248).
- *Depth of `calls`.* `--depth D` may leave out functions within D calls that the walk
  first met at its limit.
- *Cursors.* The session's default index wins over the cursor's (mcp_server.cpp:181),
  where the comment above says only explicit arguments do. `explore` lists related hits
  of any type and caches them as type "doc" (mcp_server.cpp:745, 772-783), though its
  comment (737-738) says that `get` can resolve each directly: with the number of a
  related note or term, `get` asks for a document. An `explore` with several
  definitions shows a list and caches none (586-600), so `get {result: N}` reads an
  earlier one. `CursorReachesItsHit` says exactly this of both.
- *"Daemon started".* The parent of `serve` prints it as soon as there is a socket file
  (embed_server.cpp:674), a stale one included, which its comment (669) takes for the
  daemon's being ready. Two `serve` commands in a row after a kill -9 may then
  start two daemons, the second of which unlinks the first one's socket.
- *SIGPIPE.* Only the daemon ignores it (embed_server.cpp:767). `gogol mcp` and the
  command line, which write with `write()` (rpc_v2.cpp:19), are killed if the daemon
  has closed the connection between connect and request; "Send failed" is seen
  over TCP only, if a reset comes first.
- *Exit codes.* `add` and `rm` look for the word "Error" in the answer
  (cmd_crud.cpp:73, 83): "Read failed" exits with 0, a success whose text contains
  the word with 1.
- *TCP.* Builds are compared and reads limited in time over the unix socket only;
  README.md:712 tells the user to restart the daemon after a change of keys, which
  are read at each handshake.
- *Links of documents.* With several configured paths entries are absolute and
  resolve_doc_ref (docref_store.cpp:100) looks relative ones up: no link to code
  resolves, which SKILL.md:61 does not say.
- *Extraction.* extract_exports compares extensions with "go" and "rs" while its
  callers pass ".go" and ".rs" (ts_chunker.cpp:780, 788): exports of Go and Rust are
  never found. ts_chunker.cpp:339 says nested named functions get an entry of their
  own, but walk_functions never enters a function's body, so their calls are lost, as
  are those of the top level. (Arrow functions bound to a name outside any body are
  visited, 413-434.) chunk_treesitter discards the text it collects between long nodes,
  but for a comment right above one.
- *Second reading.* If a changed file cannot be opened again for extraction
  (indexer.cpp:194), its rows are gone and come back only when it changes.

## 5. Proofs

For all values of the constants that satisfy `DaemonAssumption` (disjoint sets
of notes, terms and files; `NoEntry` is not an entry) and `QueueAssumption`:

- `Daemon_proofs!TypeCorrect`, by one lemma per family of actions.
- `Daemon_proofs!SnapshotIsSaved` (`SavedIsPublished`): the published snapshot has the
  rows of the table unless a job is between its save and its publication, when
  queries still get the one of before. Not inductive by itself: in that window the
  job's copy has the rows (`SavedInv`), and
  `PersistTerm` and `RemoveTerm` go to publication without a save, which is right
  only because the copy is still the snapshot then. `JobInv` adds that: which kind
  of job is at which step, that a dead process has no job, that `copy = snap` at
  `persist`. Every other way to `publish` goes through a save of the copy
  (`SaveGivesRows`).
- `Daemon_proofs!NoWriterOverwritesAnother` (`NoLostUpdate`), from `JobInv` and
  `CopyCurrent`: while an add or a removal runs, its copy is the snapshot except
  at its own key, because nobody else publishes.
- `Daemon_proofs!IndexJobRepairsNotes` (`IndexRepairsNotes`), from `JobInv` and
  `NotesCurrent`: what an index job has planned, merged and read back of the notes
  is still true of the store at each later step, because only the worker writes it.
- `Daemon_proofs!FileStatusIsSound` (`DocStatusSound`). The danger is an entry whose
  hash a file takes on later. `Seen` is the set of versions that no text still to be
  written over the daemon has; it only grows, and a file only ever gets a version
  outside it or goes (`NextFilesMove`). Every hash in the snapshot, the copy, the
  table and the plan is `Seen`, so what was right of it stays right (`EntryStays`).
  The step that needs an argument of its own is `save_index_meta_only`, whose vector
  is the old row's: a document's entry in the copy is the snapshot's or has hash 0
  (`AddCurrent`), and the snapshot then has the rows of the table (`SavedIsPublished`).
- `Daemon_proofs!DaemonIsAKnowledgeStore` (`Spec => ImplementsKnowledgeStore`): every
  step is a step of `KnowledgeStore` or stutters (`NextSimulates`). A request takes
  effect where its job makes the item durable (`PersistApplies`). It needs that a
  handler has at most one job, queued or running, which is its request (`ClientsInv`),
  that a stored note has a content, so that removing it is an effect
  (`NotesHaveContent`), and that an index job writes back the notes and terms as they
  are (`NotesCurrent`).
- `DaemonThreads_proofs`: `TypeCorrect`, `QueueOutlivesItsCallers`
  (`QueueDestroyedUnused`) and `WaitersHaveTheirThread` (`NobodyWaitsInVain`), for any
  connections, directories, configurations and bounds. The invariant says which
  threads are left at each place of the main thread (`WatcherInv`, `ShutdownInv`) and
  that whoever stands in the write queue or the dispatcher's, once each, is a thread
  that waits there (`JobsInv`, `EmbedsInv`): otherwise an answer could revive a
  handler that has been joined.
- `WriteQueue_proofs`: `TypeCorrect`, `FirstInFirstOut`, `NoDanglingPromise` (the
  invariant adds that each waiting caller has at most one job outstanding and
  that a job popped is the one that waited longest), all three whatever `stop_` starts
  from, and `DestructorDrains` (`NothingStranded`): a worker exits with an empty queue
  if it did not misread `stop_`. For then `stop_` is set only while the queue is being
  destroyed or while nobody can have pushed yet (`DrainInv`).
- `Lifecycle_proofs`: `TypeCorrect`; `InServiceIsReachable` (`AloneIsReachable`) and
  `StatusNamesTheServer` (`AloneStatusIsTrue`), for any processes, crashes and signals
  and however early the commands return, until a `serve` is given while a process is on
  its way up or down; `Lifecycle_restart` shows that they need it. The inductive
  invariant says that until then at most one process has to do with the two files, the
  one whose pid the parent is about to write if there is such a parent (`OneAtATime`),
  and from which step to which each file is its own (`OwnsFiles`).
- `HybridSearch_proofs`: `TypeCorrect` and `UndisturbedQueryIsExact`
  (`KeywordRanksExact`), for any indexes, tables and lists of names. The invariant
  says that a snapshot still to be ranked has the rows of the database unless a save
  came in between (`HeldCurrent`), that the names' entries lie in `all` one after
  the other and where (`Segments`), that `offset` follows them (`Progress`) and that
  the ranks so far are behind it (`CreditBehind`). That LIMIT cuts nothing off is a
  cardinality argument (`BestIsAll`).
- `GraphQueries_proofs`, `calls`: `ReportsHangTogether` (`TreeHangsTogether`) and
  `ReportsAreComplete` (`TreeComplete`), for any graph and depth. The invariant says
  that the open loops are those of the path to the innermost one, level by level
  (`PathInv`), and that each neighbour of a function reported above the limit is
  reported or still to come in an open loop of that function (`NothingForgotten`);
  the visited set alone says neither.
- `GraphQueries_proofs`, `affected`: `AffectedIsExact` (`AffectedExact`), for any
  import graph, depth and finite set of inputs. `SearchInv` says that the search is at
  some distance c: the queue holds files of distance c and behind them of c + 1, what is
  seen is what lies within c and the queued files of c + 1, and of a file within c
  whose search goes on every importer is seen unless the file is still queued. When
  the queue empties before the depth is reached, no greater distance adds anything.
- `GraphQueries_proofs`, extraction: `CallsAttributedOnce` (`AttributedOnce`), for any
  tree. A function's body is never entered by the walk, so no body the walk visits
  lies in another (`BodiesNotNested`), so the calls below two visits are apart
  (`VisitsApart`), and the decisions counted for all of them are a sum of the sizes
  of sets that do not meet (`SumBounded`).
- `GraphQueries_proofs`, chunking: `ChunksAreFound` (`ChunksLocateText`), for any
  file, window and overlap: a file cut at its splits or into windows has every line or
  character in a chunk (lines from the first that is not blank), one cut at its nodes
  every long node with the comment right above it, and no more is claimed of the
  latter; lines and nodes are in one chunk only, windows share at most `overlap`
  characters; a chunk has the line it starts at. By what each loop has cut after k of
  the units (`NodeFold`, `RegexFold`) and the arithmetic of the windows
  (`WindowsLocated`).
- `GraphQueries_proofs!QueriesAreExact`: all of them of the composition, since its
  specification implies each part's (`PartsAlone`).
- `Indexer_proofs`: `TypeCorrect`, `GraphIsNotBehind` (`EntriesAndGraphAgree`),
  `QuietRunsConverge` (`QuietRunConverges`) and `ForcedRunsAreExact`
  (`ForcedRunIsExact`), for any files, directories, links, chunks and numbers of
  changes and faults. The invariant orders what a run has seen: a file's hash in the
  listing is not newer than the text read after it, which is not newer than the rows
  extracted from the second reading (`Seen`, `SeenText`), and both tables agree with
  each other and, for hashes that are the file's, with its text (`TablesInv`). In a
  run nothing disturbs the three are the same, which gives convergence.
- `McpSession_proofs`, part one, about `Rpc`: `TypeCorrect`,
  `ClientsAreToldTheTruth` (`ToldTheTruth`) and `CommandsAreHandledOnce`
  (`HandledOnceByRightDaemon`), for any commands, callers, builds and faults.
  Neither is inductive; `Conversation(c)` says for each place of a client and of its
  handler what is under way between them (at most one frame each way, and which
  one), which state each `CryptoState` has reached, and that a command may be at or
  past its handler only if the build or the key was checked.
- `McpSession_proofs`, part two: `SessionsUseRpc` (`Spec => RpcSpec`), by which the
  theorems above hold of a session's commands; `CursorsReachTheirHits`
  (`CursorReachesItsHit`, with the two exceptions of `explore`),
  `AcknowledgedNotesAreStored` (`AckedNoteIsStored`), `SessionTypeCorrect`
  (`TypeOK`). `SessionInv` says that a tool connects only if it may, with a command
  that has not run, and that a location stays the one it was computed as while the
  request is processed, and that what is cached is what was listed last, as
  documents if `explore` did, unless that was a choice of definitions.

What `GraphQueries_proofs` says of recursive definitions and folds needs induction,
and the library's induction theorems take an operator as a parameter, which the
provers cannot instantiate. The module therefore starts with induction over sets: a
set of naturals that has 0 and each successor is `Nat` (`NatSetInduction`), and a
function defined by recursion, on a number or along a tree, meets its definition
(`Recursion`); both follow from the minimal element of a well-founded order. The
folds of the community modules are such functions (`FoldsBy`, `FoldsLeft`), and a
property is proved of all of them by naming the set of points where it holds.

The assumptions are those of the modules' ASSUMEs; `Rpc` needs that a caller on the
unix socket uses no key, `Indexer` that code files and documents are different ones,
`DaemonThreads` that a connection is no index, `AffectedFiles` that a command line
names finitely many inputs, `McpSession` that requests have passed the registry's
validation.

Each safety property of a passing run is a theorem. Only model-checked is liveness
(`EveryRequestAnswered`, `InitializedWaitReturns`, `DestructorReturns`,
`ShutdownCompletes`, `ChangesAreIndexed`, `ServeStarts`, `StopEnds`,
`RequestsAnswered`): fairness and ENABLED are out of the prover's reach.

## 6. Plan

1. Search results: the merge of scores and the status shown per hit, which needs an
   order of scores.

## 7. Not modelled

llama.cpp and the vectors' numbers (an embedding is named by its text); the
tree-sitter parser and its grammars (`Extraction` takes any tree of the node classes
the code compares); imports, exports, types and headings as they are found in a tree,
which is pattern matching on node types and names; SQLite itself (a transaction is
atomic and durable, as the `Tx` class uses it), its opening and schema; the loaders
of the per-collection files that are no longer written; argument parsing, output
formats and the configuration file (read once; `Writable` and the watched paths are
constants); cryptography. `initialize`, `ping`, `tools/list` and malformed JSON are
answered by the MCP server without a state that matters here. The indexing indicator
file is only displayed. SHUTDOWN and a second command on one connection, which no
client of the repository sends over one `RpcClient`, are not in `Rpc`.
