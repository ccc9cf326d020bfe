---------------------------- MODULE DaemonThreads ----------------------------
(***************************************************************************)
(* The threads of one daemon process, from the start of its watcher to its *)
(* exit: the main thread's accept loop and shutdown sequence, a thread for *)
(* each connection (HandlerRegistry), the writer thread of the WriteQueue, *)
(* the embedding thread of the EmbedDispatcher and the two of the Watcher. *)
(* What a job does to the index is Daemon's subject; here it reads the     *)
(* directories, may wait for the dispatcher, publishes and answers.        *)
(***************************************************************************)
EXTENDS Watcher

CONSTANTS
  Conns,        \* connections
  Writer,       \* the writer thread, as a client of the dispatcher
  NoJob,
  MaxRequests,  \* bound: requests received and failures of jobs
  MaxFaults

ASSUME ThreadsAssumption ==
  /\ Writer \notin Conns
  /\ NoJob \notin Conns \cup Indexes /\ Conns \cap Indexes = {}
  /\ MaxRequests \in Nat /\ MaxFaults \in Nat

VARIABLES
  main,        \* the main thread: its place in run_embed_server
  shutdown,    \* g_shutdown
  conn,        \* each connection, and the handler thread it has
  cut,         \* its socket has been shut down by shutdown_all
  queue,       \* WriteQueue: a connection (ADD, RM) or an index (INDEX, watcher)
  worker,      \* the writer thread: "idle", "run", "embed", "publish", "exited"
  job,         \* the job it runs
  seen,        \* an index job's local: the directories as it has scanned them
  indexed,     \* what the published snapshot of each index was made from
  dispatch,    \* EmbedDispatcher: who waits for an embedding, oldest first
  dispatcher,  \* its thread: "running", "exited"
  requests, faults

poolVars == <<conn, cut, requests>>
writerVars == <<queue, worker, job, seen, indexed, faults>>
embedVars == <<dispatch, dispatcher>>
vars == <<watcherVars, main, shutdown, poolVars, writerVars, embedVars>>

MainSteps == {"start", "loop", "select", "joinWatcher", "cancel", "join", "unlink",
              "drain", "stopDispatcher", "exited"}
Running == {"read", "query", "mutate", "reply"}   \* the thread runs

TypeOK ==
  /\ WatcherTypeOK
  /\ main \in MainSteps
  /\ shutdown \in BOOLEAN
  /\ conn \in [Conns -> {"none", "backlog", "done", "joined"} \cup Running]
  /\ cut \in [Conns -> BOOLEAN]
  /\ queue \in Seq(Conns \cup Indexes)
  /\ worker \in {"idle", "run", "embed", "publish", "exited"}
  /\ job \in Conns \cup Indexes \cup {NoJob}
  /\ job = NoJob <=> worker \in {"idle", "exited"}
  /\ seen \in [Dirs -> Nat]
  /\ indexed \in [Indexes -> [Dirs -> Nat]]
  /\ dispatch \in Seq(Conns \cup {Writer})
  /\ dispatcher \in {"running", "exited"}
  /\ requests \in Nat /\ faults \in Nat

Init ==
  /\ WatcherInit
  /\ main = "start"
  /\ shutdown = FALSE
  /\ conn = [c \in Conns |-> "none"]
  /\ cut = [c \in Conns |-> FALSE]
  /\ queue = <<>>
  /\ worker = "idle" /\ job = NoJob
  /\ seen = [d \in Dirs |-> 0]
  /\ indexed = [i \in Indexes |-> [d \in Dirs |-> 0]]
  /\ dispatch = <<>> /\ dispatcher = "running"
  /\ requests = 0 /\ faults = 0

-----------------------------------------------------------------------------
(* The main thread.                                                        *)

\* run_embed_server, after load_all.
Start ==
  /\ main = "start" /\ main' = "loop"
  /\ IF WatchedDirs = {} THEN UNCHANGED watcherVars ELSE StartWatcher
  /\ UNCHANGED <<shutdown, poolVars, writerVars, embedVars>>

TestShutdown ==
  /\ main = "loop"
  /\ IF shutdown THEN StopWatcher /\ main' = "joinWatcher"
     ELSE main' = "select" /\ UNCHANGED watcherVars
  /\ UNCHANGED <<shutdown, poolVars, writerVars, embedVars>>

\* select returns; finished threads are joined, one client is accepted.
Reaped == [c \in Conns |-> IF conn[c] = "done" THEN "joined" ELSE conn[c]]
Tick ==
  /\ main = "select" /\ main' = "loop"
  /\ \/ conn' = Reaped /\ \A c \in Conns : conn[c] # "backlog"
     \/ \E c \in Conns : conn[c] = "backlog" /\ conn' = [Reaped EXCEPT ![c] = "read"]
  /\ UNCHANGED <<watcherVars, shutdown, cut, requests, writerVars, embedVars>>

MainStep(from, to) ==
  /\ main = from /\ main' = to
  /\ UNCHANGED <<watcherVars, shutdown, requests, writerVars>>

\* stop_file_watcher has joined; the listening sockets are closed.
CloseListeners ==
  /\ MainStep("joinWatcher", "cancel")
  /\ WatcherJoined
  /\ conn' = [c \in Conns |-> IF conn[c] = "backlog" THEN "none" ELSE conn[c]]
  /\ UNCHANGED <<cut, embedVars>>

\* Mutant: the sockets of running handlers stay open.
CancelNothing == MainStep("cancel", "join") /\ UNCHANGED <<conn, cut, embedVars>>

\* shutdown_all: the sockets of the threads that still run are shut down, then
\* every thread is joined.
CancelHandlers ==
  /\ MainStep("cancel", "join")
  /\ cut' = [c \in Conns |-> cut[c] \/ conn[c] \in Running]
  /\ UNCHANGED <<conn, embedVars>>

\* Mutant: the handlers are abandoned.
AbandonHandlers == MainStep("join", "unlink") /\ UNCHANGED <<conn, cut, embedVars>>

JoinHandlers ==
  /\ MainStep("join", "unlink")
  /\ \A c \in Conns : conn[c] \notin Running
  /\ conn' = Reaped
  /\ UNCHANGED <<cut, embedVars>>

\* Then the locals of run_embed_server go, the last declared first: the write
\* queue with its DaemonState, whose destructor drains, and the dispatcher.
Unlink == MainStep("unlink", "drain") /\ UNCHANGED <<conn, cut, embedVars>>
JoinWriter ==
  /\ MainStep("drain", "stopDispatcher")
  /\ worker = "exited"
  /\ UNCHANGED <<conn, cut, embedVars>>
JoinDispatcher ==
  /\ MainStep("stopDispatcher", "exited")
  /\ dispatcher = "exited"
  /\ UNCHANGED <<conn, cut, embedVars>>

\* SIGTERM, SIGINT.
Signal ==
  /\ main # "exited" /\ ~shutdown
  /\ shutdown' = TRUE
  /\ UNCHANGED <<watcherVars, main, poolVars, writerVars, embedVars>>

-----------------------------------------------------------------------------
(* Connections and their handler threads.                                  *)

Listening == main \in {"start", "loop", "select", "joinWatcher"}

Handle(c, from, to) == conn[c] = from /\ conn' = [conn EXCEPT ![c] = to]

Connect(c) ==
  /\ Listening
  /\ Handle(c, "none", "backlog")
  /\ UNCHANGED <<watcherVars, main, shutdown, cut, requests, writerVars, embedVars>>

Request(c, to) ==
  /\ requests < MaxRequests /\ requests' = requests + 1
  /\ Handle(c, "read", to)
  /\ UNCHANGED <<watcherVars, main, cut, worker, job, seen, indexed, faults, dispatcher>>

Query(c) ==
  /\ Request(c, "query")
  /\ dispatch' = Append(dispatch, c)
  /\ UNCHANGED <<shutdown, queue>>

Mutate(c) ==
  /\ Request(c, "mutate")
  /\ queue' = Append(queue, c)
  /\ UNCHANGED <<shutdown, dispatch>>

\* Dropped, with an answer, while an index job runs.
Index(c) ==
  /\ Request(c, "reply")
  /\ IF job \in Indexes THEN UNCHANGED queue
     ELSE \E i \in Indexes : queue' = Append(queue, i)
  /\ UNCHANGED <<shutdown, dispatch>>

Shutdown(c) ==
  /\ Request(c, "done")
  /\ shutdown' = TRUE
  /\ UNCHANGED <<queue, dispatch>>

\* read_msg fails: the client has hung up, or shutdown_all has cut the socket.
ReadFails(c) ==
  /\ Handle(c, "read", "done")
  /\ UNCHANGED <<watcherVars, main, shutdown, cut, requests, writerVars, embedVars>>

Reply(c) ==
  /\ Handle(c, "reply", IF shutdown THEN "done" ELSE "read")
  /\ UNCHANGED <<watcherVars, main, shutdown, cut, requests, writerVars, embedVars>>

-----------------------------------------------------------------------------
(* The writer thread and the dispatcher's.                                 *)

Work(from, to) ==
  /\ worker = from /\ worker' = to
  /\ UNCHANGED <<watcherVars, main, shutdown, cut, requests, dispatcher>>

\* Mutant: like INDEX, the callback does nothing while an index job runs.
WatcherSubmitsUnlessIndexing(i) ==
  /\ Fire(i)
  /\ queue' = IF job \in Indexes THEN queue ELSE Append(queue, i)
  /\ UNCHANGED <<main, shutdown, poolVars, worker, job, seen, indexed, faults, embedVars>>

\* The callback submits whatever runs; it never blocks.
WatcherSubmits(i) ==
  /\ Fire(i)
  /\ queue' = Append(queue, i)
  /\ UNCHANGED <<main, shutdown, poolVars, worker, job, seen, indexed, faults, embedVars>>

TakeJob ==
  /\ Work("idle", "run")
  /\ queue # <<>>
  /\ job' = Head(queue) /\ queue' = Tail(queue)
  /\ UNCHANGED <<conn, seen, indexed, faults, dispatch>>

\* run_index scans the directories of its configuration.  The chunks that have
\* changed, and a mutation's text, are embedded; there may be none.
RunJob ==
  /\ \/ Work("run", "embed") /\ dispatch' = Append(dispatch, Writer)
     \/ Work("run", "publish") /\ UNCHANGED dispatch
  /\ seen' = [d \in Dirs |-> IF job \in Indexes /\ d \in Configs[job] THEN version[d] ELSE 0]
  /\ UNCHANGED <<conn, queue, job, indexed, faults>>

Answer == conn' = IF job \in Conns THEN [conn EXCEPT ![job] = "reply"] ELSE conn

PublishJob ==
  /\ Work("publish", "idle")
  /\ indexed' = IF job \in Indexes THEN [indexed EXCEPT ![job] = seen] ELSE indexed
  /\ Answer
  /\ job' = NoJob /\ seen' = [d \in Dirs |-> 0]
  /\ UNCHANGED <<queue, faults, dispatch>>

\* Mutant: the indexing flag stays set.
JobFailsSilently ==
  /\ Work("publish", "idle")
  /\ faults < MaxFaults /\ faults' = faults + 1
  /\ UNCHANGED <<conn, queue, job, seen, indexed, dispatch>>

\* An exception: nothing is published, nobody tries again.
JobFails ==
  /\ Work("publish", "idle")
  /\ faults < MaxFaults /\ faults' = faults + 1
  /\ Answer
  /\ job' = NoJob /\ seen' = [d \in Dirs |-> 0]
  /\ UNCHANGED <<queue, indexed, dispatch>>

\* Mutant: stop_ alone ends the loop.
WriterExitsAtOnce ==
  /\ Work("idle", "exited")
  /\ main = "drain"
  /\ UNCHANGED <<conn, queue, job, seen, indexed, faults, dispatch>>

WriterExits ==
  /\ Work("idle", "exited")
  /\ main = "drain" /\ queue = <<>>
  /\ UNCHANGED <<conn, queue, job, seen, indexed, faults, dispatch>>

Embed ==
  /\ dispatcher = "running" /\ dispatch # <<>>
  /\ dispatch' = Tail(dispatch)
  /\ LET t == Head(dispatch) IN
       IF t = Writer THEN worker' = "publish" /\ UNCHANGED conn
       ELSE conn' = [conn EXCEPT ![t] = "reply"] /\ UNCHANGED worker
  /\ UNCHANGED <<watcherVars, main, shutdown, cut, requests, queue, job, seen, indexed,
                 faults, dispatcher>>

DispatcherExits ==
  /\ dispatcher = "running" /\ main = "stopDispatcher" /\ dispatch = <<>>
  /\ dispatcher' = "exited"
  /\ UNCHANGED <<watcherVars, main, shutdown, poolVars, writerVars, dispatch>>

-----------------------------------------------------------------------------

Main == Start \/ TestShutdown \/ Tick \/ CloseListeners \/ CancelHandlers \/ JoinHandlers
        \/ Unlink \/ JoinWriter \/ JoinDispatcher
Handler(c) == Query(c) \/ Mutate(c) \/ Index(c) \/ Shutdown(c) \/ ReadFails(c) \/ Reply(c)
WriterThread == TakeJob \/ RunJob \/ PublishJob \/ JobFails \/ WriterExits
EmbedThread == Embed \/ DispatcherExits
WatchThread ==
  /\ AddWatches \/ (\E d \in Dirs : MarkChanged(d)) \/ LeaveWatchLoop \/ JoinDebounce
  /\ UNCHANGED <<main, shutdown, poolVars, writerVars, embedVars>>
DebounceThread ==
  \/ /\ Collect \/ NextIteration
     /\ UNCHANGED <<main, shutdown, poolVars, writerVars, embedVars>>
  \/ \E i \in Indexes : WatcherSubmits(i)
World ==
  /\ (\E d \in Dirs : Edit(d)) \/ (\E i \in Indexes : Settle(i))
  /\ UNCHANGED <<main, shutdown, poolVars, writerVars, embedVars>>

Next ==
  \/ Main \/ WriterThread \/ EmbedThread \/ WatchThread \/ DebounceThread
  \/ \E c \in Conns : Connect(c) \/ Handler(c)
  \/ World \/ Signal

Spec == Init /\ [][Next]_vars

\* Every thread runs; a read or a write on a socket returns once the socket is
\* shut down, and not before if the client does nothing; time passes.
Fairness ==
  /\ WF_vars(Main) /\ WF_vars(WriterThread) /\ WF_vars(EmbedThread)
  /\ WF_vars(WatchThread) /\ WF_vars(DebounceThread)
  /\ \A i \in Indexes : WF_vars(Settle(i) /\ World)
  /\ \A c \in Conns : WF_vars(cut[c] /\ (ReadFails(c) \/ Reply(c)))
LiveSpec == Spec /\ Fairness

-----------------------------------------------------------------------------
(* Properties.                                                             *)

\* When the write queue is destroyed nobody can call it any more: what
\* WriteQueue assumes of its owner (Destroy), and what keeps a handler or the
\* watcher's callback from using a DaemonState that is gone.
QueueDestroyedUnused ==
  main \in {"drain", "stopDispatcher", "exited"}
    => /\ watcher \in {"off", "ended"} /\ debounce \in {"off", "ended"}
       /\ \A c \in Conns : conn[c] \notin Running

\* Nobody waits for a thread that has ended: the writer for the dispatcher, a
\* handler for either.
NobodyWaitsInVain ==
  /\ worker = "embed" \/ (\E c \in Conns : conn[c] = "query") => dispatcher = "running"
  /\ queue # <<>> \/ (\E c \in Conns : conn[c] = "mutate") => worker # "exited"

\* "so the join always completes": after SHUTDOWN or a signal the process ends,
\* with clients that neither send nor read and handlers that wait for a job.
ShutdownCompletes == shutdown ~> main = "exited"

\* "After changes settle ... it triggers an incremental reindex", during index
\* jobs of any origin: an event of a directory leads to a published snapshot of
\* its index made from the directory as it was at that event, or from a later
\* state.  A job that fails is not tried again.
ChangesAreIndexed ==
  \A d \in Dirs, v \in 1 .. MaxEdits :
    (d \in events /\ version[d] = v)
      ~> (indexed[IndexOf(d)][d] >= v \/ shutdown \/ faults > 0)
=============================================================================
