------------------------ MODULE DaemonThreads_proofs ------------------------
(***************************************************************************)
(* For any connections, directories, configurations and numbers of         *)
(* requests: nobody uses the write queue once it is destroyed, and nobody  *)
(* waits for a thread that has ended.                                      *)
(***************************************************************************)
EXTENDS DaemonThreads, SequenceTheorems, TLAPS

WatcherOver == {"cancel", "join", "unlink", "drain", "stopDispatcher", "exited"}
HandlersOver == {"unlink", "drain", "stopDispatcher", "exited"}

\* The debounce thread lives within the watch thread, which the main thread
\* joins before it goes on.
WatcherInv ==
  /\ watcher \in {"off", "starting"} => debounce = "off"
  /\ watcher = "ended" => debounce = "ended"
  /\ main = "start" => watcher = "off"
  /\ main \in WatcherOver => watcher \in {"off", "ended"}

\* Which threads are left at each place of the main thread.
ShutdownInv ==
  /\ main \in HandlersOver => \A c \in Conns : conn[c] \notin Running
  /\ worker = "exited" => main \in {"drain", "stopDispatcher", "exited"} /\ queue = <<>>
  /\ main \in {"stopDispatcher", "exited"} => worker = "exited"
  /\ dispatcher = "exited" => main \in {"stopDispatcher", "exited"}

\* A connection in a queue is one whose handler waits there, and nowhere else.
JobsInv ==
  /\ job \in Conns => conn[job] = "mutate"
  /\ \A i \in DOMAIN queue : queue[i] \in Conns =>
       /\ conn[queue[i]] = "mutate" /\ queue[i] # job
       /\ \A j \in DOMAIN queue \ {i} : queue[j] # queue[i]
EmbedsInv ==
  \A i \in DOMAIN dispatch :
    /\ dispatch[i] \in Conns => conn[dispatch[i]] = "query"
    /\ dispatch[i] = Writer => worker = "embed"
    /\ \A j \in DOMAIN dispatch \ {i} : dispatch[j] # dispatch[i]

ThreadsInv == TypeOK /\ WatcherInv /\ ShutdownInv /\ JobsInv /\ EmbedsInv

-----------------------------------------------------------------------------
(* Types.                                                                  *)

LEMMA InitTypes == Init => TypeOK
<1> SUFFICES ASSUME Init PROVE TypeOK
  OBVIOUS
<1>1. WatcherTypeOK
  <2>1. watching \in BOOLEAN
    BY Zenon DEF Init, WatcherInit
  <2>2. QED
    BY <2>1, WatcherAssumption DEF Init, WatcherInit, WatcherTypeOK
<1>2. shutdown \in BOOLEAN /\ cut \in [Conns -> BOOLEAN]
  BY DEF Init
<1>3. queue \in Seq(Conns \cup Indexes) /\ dispatch \in Seq(Conns \cup {Writer})
  BY EmptySeq DEF Init
<1>4. QED
  BY <1>1, <1>2, <1>3 DEF Init, TypeOK, MainSteps

\* The watcher's own steps.
LEMMA WatcherTypes ==
  ASSUME WatcherTypeOK,
         \/ StartWatcher \/ StopWatcher \/ AddWatches \/ LeaveWatchLoop \/ JoinDebounce
         \/ Collect \/ NextIteration \/ UNCHANGED watcherVars
         \/ (\E d \in Dirs : MarkChanged(d) \/ Edit(d)) \/ (\E i \in Indexes : Settle(i) \/ Fire(i))
  PROVE  WatcherTypeOK'
<1> USE DEF WatcherTypeOK
<1>1. CASE StartWatcher \/ StopWatcher
  <2>1. watching' \in BOOLEAN
    BY <1>1, Zenon DEF StartWatcher, StopWatcher
  <2>2. QED
    BY <1>1, <2>1 DEF StartWatcher, StopWatcher
<1>2. CASE AddWatches \/ LeaveWatchLoop \/ JoinDebounce
  BY <1>2 DEF AddWatches, LeaveWatchLoop, JoinDebounce
<1>3. CASE Collect \/ NextIteration
  BY <1>3 DEF Collect, NextIteration, Due
<1>4. CASE \E d \in Dirs : MarkChanged(d) \/ Edit(d)
  BY <1>4, WatcherAssumption DEF MarkChanged, Edit
<1>5. CASE \E i \in Indexes : Settle(i) \/ Fire(i)
  BY <1>5 DEF Settle, Fire
<1>6. CASE UNCHANGED watcherVars
  BY <1>6 DEF watcherVars
<1>7. QED
  BY <1>1, <1>2, <1>3, <1>4, <1>5, <1>6

LEMMA Appended ==
  ASSUME NEW S, NEW s \in Seq(S), NEW e \in S PROVE Append(s, e) \in Seq(S)
BY AppendProperties

\* What a step of the main thread leaves.
LEMMA MainTypes == TypeOK /\ Main => TypeOK'
<1> SUFFICES ASSUME TypeOK, Main PROVE TypeOK'
  OBVIOUS
<1> USE DEF MainStep, poolVars, writerVars, embedVars
<1>1. WatcherTypeOK'
  BY WatcherTypes DEF TypeOK, Main, Start, TestShutdown, Tick, CloseListeners, CancelHandlers,
                      JoinHandlers, Unlink, JoinWriter, JoinDispatcher
<1>2. main' \in MainSteps
  BY DEF Main, Start, TestShutdown, Tick, CloseListeners, CancelHandlers, JoinHandlers, Unlink,
         JoinWriter, JoinDispatcher, MainSteps
<1>3. UNCHANGED <<shutdown, requests, queue, worker, job, seen, indexed, faults, dispatch, dispatcher>>
  BY DEF Main, Start, TestShutdown, Tick, CloseListeners, CancelHandlers, JoinHandlers, Unlink,
         JoinWriter, JoinDispatcher
<1>4. conn' \in [Conns -> {"none", "backlog", "done", "joined"} \cup Running]
  <2>1. conn \in [Conns -> {"none", "backlog", "done", "joined"} \cup Running]
    BY DEF TypeOK
  <2>2. Reaped \in [Conns -> {"none", "backlog", "done", "joined"} \cup Running]
    BY <2>1 DEF Reaped
  <2>3. CASE Tick
    BY <2>2, <2>3 DEF Tick, Running
  <2>4. CASE ~Tick
    BY <2>1, <2>2, <2>4
       DEF Main, Start, TestShutdown, CloseListeners, CancelHandlers, JoinHandlers, Unlink,
           JoinWriter, JoinDispatcher
  <2>5. QED
    BY <2>3, <2>4
<1>5. cut' \in [Conns -> BOOLEAN]
  BY DEF TypeOK, Main, Start, TestShutdown, Tick, CloseListeners, CancelHandlers, JoinHandlers,
         Unlink, JoinWriter, JoinDispatcher
<1>6. QED
  BY <1>1, <1>2, <1>3, <1>4, <1>5 DEF TypeOK

LEMMA HandlerTypes ==
  ASSUME TypeOK, NEW c \in Conns, Connect(c) \/ Handler(c)
  PROVE  TypeOK'
<1> USE DEF Handle, Request, writerVars, embedVars, poolVars
<1>1. WatcherTypeOK'
  BY WatcherTypes DEF TypeOK, Connect, Handler, Query, Mutate, Index, Shutdown, ReadFails, Reply
<1>2. UNCHANGED <<main, cut, worker, job, seen, indexed, faults, dispatcher>>
  BY DEF Connect, Handler, Query, Mutate, Index, Shutdown, ReadFails, Reply
<1>3. conn' \in [Conns -> {"none", "backlog", "done", "joined"} \cup Running]
  BY DEF TypeOK, Connect, Handler, Query, Mutate, Index, Shutdown, ReadFails, Reply, Running
<1>4. requests' \in Nat
  BY DEF TypeOK, Connect, Handler, Query, Mutate, Index, Shutdown, ReadFails, Reply
<1>5. shutdown' \in BOOLEAN
  <2>1. shutdown' = TRUE \/ shutdown' = shutdown
    BY DEF Connect, Handler, Query, Mutate, Index, Shutdown, ReadFails, Reply
  <2>2. QED
    BY <2>1, Zenon DEF TypeOK
<1>6. queue' \in Seq(Conns \cup Indexes)
  <2>1. queue' = queue \/ \E j \in Conns \cup Indexes : queue' = Append(queue, j)
    BY DEF Connect, Handler, Query, Mutate, Index, Shutdown, ReadFails, Reply
  <2>2. queue \in Seq(Conns \cup Indexes)
    BY DEF TypeOK
  <2>3. QED
    BY <2>1, <2>2, Appended
<1>7. dispatch' \in Seq(Conns \cup {Writer})
  <2>1. dispatch' = dispatch \/ dispatch' = Append(dispatch, c)
    BY DEF Connect, Handler, Query, Mutate, Index, Shutdown, ReadFails, Reply
  <2>2. dispatch \in Seq(Conns \cup {Writer}) /\ c \in Conns \cup {Writer}
    BY DEF TypeOK
  <2>3. QED
    BY <2>1, <2>2, Appended
<1>8. QED
  BY <1>1, <1>2, <1>3, <1>4, <1>5, <1>6, <1>7 DEF TypeOK

LEMMA WriterTypes == TypeOK /\ WriterThread => TypeOK'
<1> SUFFICES ASSUME TypeOK, WriterThread PROVE TypeOK'
  OBVIOUS
<1> USE DEF Work, Answer
<1>1. WatcherTypeOK' /\ UNCHANGED <<main, shutdown, cut, requests, dispatcher>>
  BY WatcherTypes DEF TypeOK, WriterThread, TakeJob, RunJob, PublishJob, JobFails, WriterExits
<1>2. [d \in Dirs |-> 0] \in [Dirs -> Nat]
  OBVIOUS
<1>3. /\ queue \in Seq(Conns \cup Indexes) /\ seen \in [Dirs -> Nat] /\ version \in [Dirs -> Nat]
      /\ indexed \in [Indexes -> [Dirs -> Nat]] /\ faults \in Nat
      /\ conn \in [Conns -> {"none", "backlog", "done", "joined"} \cup Running]
  BY WatcherAssumption DEF TypeOK, WatcherTypeOK
<1>4. CASE TakeJob
  <2>1. job' \in Conns \cup Indexes /\ queue' \in Seq(Conns \cup Indexes)
    BY <1>3, <1>4, HeadTailProperties DEF TakeJob
  <2>2. QED
    BY <1>1, <1>4, <2>1, ThreadsAssumption DEF TypeOK, TakeJob
<1>5. CASE RunJob
  <2>1. seen' \in [Dirs -> Nat]
    BY <1>3, <1>5 DEF RunJob
  <2>2. dispatch' \in Seq(Conns \cup {Writer})
    <3>1. dispatch \in Seq(Conns \cup {Writer}) /\ Writer \in Conns \cup {Writer}
      BY DEF TypeOK
    <3>2. dispatch' = dispatch \/ dispatch' = Append(dispatch, Writer)
      BY <1>5 DEF RunJob
    <3>3. QED
      BY <3>1, <3>2, Appended
  <2>3. worker = "run" /\ worker' \in {"embed", "publish"}
    BY <1>5 DEF RunJob
  <2>4. UNCHANGED <<conn, queue, job, indexed, faults>>
    BY <1>5 DEF RunJob
  <2>5. QED
    BY <1>1, <2>1, <2>2, <2>3, <2>4 DEF TypeOK
<1>6. CASE PublishJob \/ JobFails
  <2>1. /\ worker' = "idle" /\ job' = NoJob /\ seen' = [d \in Dirs |-> 0]
        /\ UNCHANGED <<queue, dispatch>> /\ faults' \in Nat
    BY <1>3, <1>6 DEF PublishJob, JobFails
  <2>2. indexed' \in [Indexes -> [Dirs -> Nat]]
    BY <1>3, <1>6 DEF PublishJob, JobFails
  <2>3. conn' \in [Conns -> {"none", "backlog", "done", "joined"} \cup Running]
    BY <1>3, <1>6 DEF PublishJob, JobFails, Running
  <2>4. QED
    BY <1>1, <1>2, <2>1, <2>2, <2>3 DEF TypeOK
<1>7. CASE WriterExits
  BY <1>1, <1>7 DEF TypeOK, WriterExits
<1>8. QED
  BY <1>4, <1>5, <1>6, <1>7 DEF WriterThread

\* The writer that is answered is one that waits.
LEMMA EmbedTypes == TypeOK /\ EmbedsInv /\ EmbedThread => TypeOK'
<1> SUFFICES ASSUME TypeOK, EmbedsInv, EmbedThread PROVE TypeOK'
  OBVIOUS
<1> USE DEF poolVars, writerVars
<1>1. CASE Embed
  <2>1. WatcherTypeOK' /\ UNCHANGED <<main, shutdown, cut, requests, queue, job, seen, indexed,
                                      faults, dispatcher>>
    BY <1>1, WatcherTypes DEF TypeOK, Embed
  <2>2. /\ dispatch \in Seq(Conns \cup {Writer}) /\ dispatch # <<>>
        /\ Head(dispatch) = dispatch[1] /\ 1 \in DOMAIN dispatch
        /\ Head(dispatch) \in Conns \cup {Writer} /\ Tail(dispatch) \in Seq(Conns \cup {Writer})
    BY <1>1, HeadTailProperties DEF TypeOK, Embed
  <2>3. CASE Head(dispatch) = Writer
    <3>1. worker = "embed" /\ worker' = "publish" /\ UNCHANGED conn
      BY <1>1, <2>2, <2>3 DEF Embed, EmbedsInv
    <3>2. QED
      BY <1>1, <2>1, <2>2, <3>1 DEF TypeOK, Embed
  <2>4. CASE Head(dispatch) # Writer
    <3>1. conn' = [conn EXCEPT ![Head(dispatch)] = "reply"] /\ worker' = worker
      BY <1>1, <2>4 DEF Embed
    <3>2. conn' \in [Conns -> {"none", "backlog", "done", "joined"} \cup Running]
      BY <3>1 DEF TypeOK, Running
    <3>3. QED
      BY <1>1, <2>1, <2>2, <3>1, <3>2 DEF TypeOK, Embed
  <2>5. QED
    BY <2>3, <2>4
<1>2. CASE DispatcherExits
  BY <1>2, WatcherTypes DEF TypeOK, DispatcherExits
<1>3. QED
  BY <1>1, <1>2 DEF EmbedThread

LEMMA WorldTypes ==
  TypeOK /\ (WatchThread \/ DebounceThread \/ World \/ Signal \/ UNCHANGED vars) => TypeOK'
<1> SUFFICES ASSUME TypeOK, WatchThread \/ DebounceThread \/ World \/ Signal \/ UNCHANGED vars
             PROVE  TypeOK'
  OBVIOUS
<1> USE DEF poolVars, writerVars, embedVars
<1>1. WatcherTypeOK'
  BY WatcherTypes DEF TypeOK, WatchThread, DebounceThread, WatcherSubmits, World, Signal, vars
<1>2. UNCHANGED <<main, conn, cut, requests, worker, job, seen, indexed, faults, dispatch, dispatcher>>
  BY DEF WatchThread, DebounceThread, WatcherSubmits, World, Signal, vars
<1>3. shutdown' \in BOOLEAN
  <2>1. shutdown' = TRUE \/ shutdown' = shutdown
    BY DEF WatchThread, DebounceThread, WatcherSubmits, World, Signal, vars
  <2>2. QED
    BY <2>1, Zenon DEF TypeOK
<1>4. queue' \in Seq(Conns \cup Indexes)
  <2>1. queue' = queue \/ \E i \in Indexes : queue' = Append(queue, i)
    BY DEF WatchThread, DebounceThread, WatcherSubmits, World, Signal, vars
  <2>2. queue \in Seq(Conns \cup Indexes) /\ \A i \in Indexes : i \in Conns \cup Indexes
    BY DEF TypeOK
  <2>3. QED
    BY <2>1, <2>2, Appended
<1>5. QED
  BY <1>1, <1>2, <1>3, <1>4 DEF TypeOK

-----------------------------------------------------------------------------
(* Steps of the main thread.                                               *)

\* It does not touch a handler that waits for a job or an embedding.
LEMMA MainLeavesWaiting ==
  ASSUME TypeOK, Main, NEW c \in Conns, conn[c] \in {"mutate", "query"}
  PROVE  conn'[c] = conn[c]
<1>1. conn \in [Conns -> {"none", "backlog", "done", "joined"} \cup Running]
  BY DEF TypeOK
<1>2. Reaped[c] = conn[c] /\ Reaped \in [Conns -> {"none", "backlog", "done", "joined"} \cup Running]
  BY <1>1 DEF Reaped
<1>3. CASE Tick
  BY <1>2, <1>3 DEF Tick
<1>4. CASE ~Tick
  BY <1>1, <1>2, <1>4
     DEF Main, Start, TestShutdown, CloseListeners, CancelHandlers, JoinHandlers, Unlink,
         JoinWriter, JoinDispatcher, MainStep, poolVars
<1> QED BY <1>3, <1>4

LEMMA MainKeepsWatcher == WatcherInv /\ Main => WatcherInv'
<1> SUFFICES ASSUME WatcherInv, Main PROVE WatcherInv'
  OBVIOUS
<1> USE DEF WatcherInv, WatcherOver
<1>1. CASE Start
  BY <1>1 DEF Start, StartWatcher, watcherVars
<1>2. CASE TestShutdown \/ Tick
  BY <1>2 DEF TestShutdown, StopWatcher, Tick, watcherVars
<1>3. CASE CloseListeners
  BY <1>3 DEF CloseListeners, MainStep, WatcherJoined, watcherVars
<1>4. CASE CancelHandlers \/ JoinHandlers \/ Unlink \/ JoinWriter \/ JoinDispatcher
  BY <1>4 DEF CancelHandlers, JoinHandlers, Unlink, JoinWriter, JoinDispatcher, MainStep,
              watcherVars
<1> QED BY <1>1, <1>2, <1>3, <1>4 DEF Main

LEMMA MainKeepsOrder == TypeOK /\ ShutdownInv /\ Main => ShutdownInv'
<1> SUFFICES ASSUME TypeOK, ShutdownInv, Main PROVE ShutdownInv'
  OBVIOUS
<1> USE DEF ShutdownInv, HandlersOver, MainStep
<1>0. UNCHANGED <<worker, queue, dispatcher>>
  BY DEF Main, Start, TestShutdown, Tick, CloseListeners, CancelHandlers, JoinHandlers, Unlink,
         JoinWriter, JoinDispatcher, writerVars, embedVars
<1>1. CASE Start \/ TestShutdown \/ Tick \/ CloseListeners \/ CancelHandlers
  <2>1. /\ main \in {"start", "loop", "select", "joinWatcher", "cancel"}
        /\ main' \in {"loop", "select", "joinWatcher", "cancel", "join"}
    BY <1>1 DEF Start, TestShutdown, Tick, CloseListeners, CancelHandlers
  <2>2. QED
    BY <1>0, <2>1
<1>2. CASE JoinHandlers
  <2>1. main = "join" /\ main' = "unlink" /\ \A c \in Conns : conn'[c] \notin Running
    BY <1>2 DEF JoinHandlers, Reaped, TypeOK, Running
  <2>2. QED
    BY <1>0, <2>1
<1>3. CASE Unlink \/ JoinWriter \/ JoinDispatcher
  <2>1. /\ main \in {"unlink", "drain", "stopDispatcher"} /\ UNCHANGED conn
        /\ main = "unlink" => main' = "drain"
        /\ main = "drain" => main' = "stopDispatcher" /\ worker = "exited"
        /\ main = "stopDispatcher" => main' = "exited"
    BY <1>3 DEF Unlink, JoinWriter, JoinDispatcher
  <2>2. QED
    BY <1>0, <2>1
<1> QED BY <1>1, <1>2, <1>3 DEF Main

LEMMA MainKeepsQueues == TypeOK /\ JobsInv /\ EmbedsInv /\ Main => (JobsInv /\ EmbedsInv)'
<1> SUFFICES ASSUME TypeOK, JobsInv, EmbedsInv, Main PROVE (JobsInv /\ EmbedsInv)'
  OBVIOUS
<1>1. UNCHANGED <<worker, job, queue, dispatch>>
  BY DEF Main, Start, TestShutdown, Tick, CloseListeners, CancelHandlers, JoinHandlers, Unlink,
         JoinWriter, JoinDispatcher, MainStep, writerVars, embedVars
<1>2. \A c \in Conns : conn[c] \in {"mutate", "query"} => conn'[c] = conn[c]
  BY MainLeavesWaiting
<1> QED BY <1>1, <1>2 DEF JobsInv, EmbedsInv

-----------------------------------------------------------------------------
(* Steps of the handlers.                                                  *)

LEMMA HandlerKeepsOrder ==
  ASSUME TypeOK, WatcherInv, ShutdownInv, NEW c \in Conns, Connect(c) \/ Handler(c)
  PROVE  WatcherInv' /\ ShutdownInv'
<1> USE DEF Handle, Request, writerVars, embedVars, poolVars
<1>0. UNCHANGED <<main, worker, dispatcher, watcher, debounce>>
  BY DEF Connect, Handler, Query, Mutate, Index, Shutdown, ReadFails, Reply, watcherVars
<1>1. WatcherInv'
  BY <1>0 DEF WatcherInv
<1>2. CASE Connect(c)
  <2>1. main \notin HandlersOver /\ queue' = queue
    BY <1>2 DEF Connect, Listening, HandlersOver
  <2>2. QED
    BY <1>0, <1>1, <2>1 DEF ShutdownInv
<1>3. CASE Handler(c)
  <2>1. conn[c] \in Running
    BY <1>3 DEF Handler, Query, Mutate, Index, Shutdown, ReadFails, Reply, Running
  <2>2. main \notin HandlersOver
    BY <2>1 DEF ShutdownInv
  <2>3. QED
    BY <1>0, <1>1, <2>2 DEF ShutdownInv, HandlersOver
<1> QED BY <1>2, <1>3

\* A handler that queues a job or a text waits nowhere yet.
LEMMA HandlerKeepsQueues ==
  ASSUME TypeOK, JobsInv, EmbedsInv, NEW c \in Conns, Connect(c) \/ Handler(c)
  PROVE  (JobsInv /\ EmbedsInv)'
<1> USE DEF Handle, Request, writerVars, embedVars, poolVars
<1>0. UNCHANGED <<worker, job>> /\ \A b \in Conns \ {c} : conn'[b] = conn[b]
  BY DEF TypeOK, Connect, Handler, Query, Mutate, Index, Shutdown, ReadFails, Reply
<1>1. conn[c] \notin {"mutate", "query"}
  BY DEF Connect, Handler, Query, Mutate, Index, Shutdown, ReadFails, Reply
<1>2. /\ c # job /\ \A i \in DOMAIN queue : queue[i] # c
      /\ \A i \in DOMAIN dispatch : dispatch[i] # c
  BY <1>1 DEF JobsInv, EmbedsInv
<1>3. queue \in Seq(Conns \cup Indexes) /\ dispatch \in Seq(Conns \cup {Writer})
  BY DEF TypeOK
<1>4. JobsInv'
  <2>1. CASE queue' = queue
    BY <1>0, <1>2, <2>1 DEF JobsInv
  <2>2. CASE Mutate(c)
    <3>1. queue' = Append(queue, c) /\ conn'[c] = "mutate" /\ c \in Conns \cup Indexes
      BY <2>2 DEF Mutate, TypeOK
    <3>2. /\ DOMAIN queue' = DOMAIN queue \cup {Len(queue) + 1}
          /\ queue'[Len(queue) + 1] = c /\ \A i \in DOMAIN queue : queue'[i] = queue[i]
      BY <1>3, <3>1, AppendProperties
    <3>3. QED
      BY <1>0, <1>2, <3>1, <3>2 DEF JobsInv
  <2>3. CASE Index(c) /\ queue' # queue
    <3>1. PICK i \in Indexes : queue' = Append(queue, i)
      BY <2>3 DEF Index
    <3>2. i \in Conns \cup Indexes /\ i \notin Conns
      BY ThreadsAssumption
    <3>3. /\ DOMAIN queue' = DOMAIN queue \cup {Len(queue) + 1}
          /\ queue'[Len(queue) + 1] = i /\ \A k \in DOMAIN queue : queue'[k] = queue[k]
      BY <1>3, <3>1, <3>2, AppendProperties
    <3>4. QED
      BY <1>0, <1>2, <3>2, <3>3 DEF JobsInv
  <2>4. QED
    BY <2>1, <2>2, <2>3 DEF Connect, Handler, Query, Index, Shutdown, ReadFails, Reply
<1>5. EmbedsInv'
  <2>1. CASE dispatch' = dispatch
    BY <1>0, <1>2, <2>1 DEF EmbedsInv
  <2>2. CASE Query(c)
    <3>1. /\ dispatch' = Append(dispatch, c) /\ conn'[c] = "query"
          /\ c \in Conns \cup {Writer} /\ c # Writer
      BY <2>2, ThreadsAssumption DEF Query, TypeOK
    <3>2. /\ DOMAIN dispatch' = DOMAIN dispatch \cup {Len(dispatch) + 1}
          /\ dispatch'[Len(dispatch) + 1] = c /\ \A i \in DOMAIN dispatch : dispatch'[i] = dispatch[i]
      BY <1>3, <3>1, AppendProperties
    <3>3. QED
      BY <1>0, <1>2, <3>1, <3>2 DEF EmbedsInv
  <2>3. QED
    BY <2>1, <2>2 DEF Connect, Handler, Mutate, Index, Shutdown, ReadFails, Reply
<1> QED BY <1>4, <1>5

-----------------------------------------------------------------------------
(* Steps of the writer thread and of the dispatcher's.                     *)

\* The client of a job that ends is one that waits for it.
LEMMA AnswersWaiting ==
  ASSUME TypeOK, JobsInv, Answer
  PROVE  /\ \A c \in Conns : c # job => conn'[c] = conn[c]
         /\ job \in Conns => conn[job] = "mutate"
BY DEF TypeOK, JobsInv, Answer

LEMMA WriterKeepsOrder ==
  ASSUME TypeOK, WatcherInv, ShutdownInv, JobsInv, WriterThread
  PROVE  WatcherInv' /\ ShutdownInv'
<1> USE DEF Work
<1>0. UNCHANGED <<main, dispatcher, watcher, debounce>>
  BY DEF WriterThread, TakeJob, RunJob, PublishJob, JobFails, WriterExits, watcherVars
<1>1. WatcherInv'
  BY <1>0 DEF WatcherInv
<1>2. worker # "exited"
  BY DEF WriterThread, TakeJob, RunJob, PublishJob, JobFails, WriterExits
<1>3. CASE TakeJob \/ RunJob
  <2>1. conn' = conn /\ worker' # "exited"
    BY <1>3 DEF TakeJob, RunJob
  <2>2. QED
    BY <1>0, <1>1, <1>2, <2>1 DEF ShutdownInv
<1>4. CASE PublishJob \/ JobFails
  <2>1. worker' = "idle" /\ Answer
    BY <1>4 DEF PublishJob, JobFails
  <2>2. main \in HandlersOver => conn' = conn
    BY <2>1, AnswersWaiting DEF ShutdownInv, Running, Answer
  <2>3. QED
    BY <1>0, <1>1, <1>2, <2>1, <2>2 DEF ShutdownInv
<1>5. CASE WriterExits
  BY <1>0, <1>1, <1>5 DEF ShutdownInv, WriterExits
<1> QED BY <1>3, <1>4, <1>5 DEF WriterThread

LEMMA WriterKeepsQueues ==
  ASSUME TypeOK, JobsInv, EmbedsInv, WriterThread
  PROVE  (JobsInv /\ EmbedsInv)'
<1> USE DEF Work
<1>1. queue \in Seq(Conns \cup Indexes) /\ dispatch \in Seq(Conns \cup {Writer})
  BY DEF TypeOK
<1>2. CASE TakeJob
  <2>1. /\ job' = Head(queue) /\ queue' = Tail(queue) /\ queue # <<>> /\ worker # "embed"
        /\ UNCHANGED <<conn, dispatch>>
    BY <1>2 DEF TakeJob
  <2>2. /\ 1 \in DOMAIN queue /\ job' = queue[1]
        /\ \A i \in DOMAIN queue' : i \in Nat /\ i + 1 \in DOMAIN queue \ {1} /\ queue'[i] = queue[i + 1]
    BY <1>1, <2>1, HeadTailProperties
  <2>3. job' \in Conns => conn'[job'] = "mutate"
    BY <2>1, <2>2 DEF JobsInv
  <2>4. ASSUME NEW i \in DOMAIN queue', queue'[i] \in Conns
        PROVE  /\ conn'[queue'[i]] = "mutate" /\ queue'[i] # job'
               /\ \A j \in DOMAIN queue' \ {i} : queue'[j] # queue'[i]
    <3>1. i + 1 \in DOMAIN queue \ {1} /\ queue'[i] = queue[i + 1]
      BY <2>2
    <3>2. /\ conn[queue[i + 1]] = "mutate"
          /\ \A j \in DOMAIN queue \ {i + 1} : queue[j] # queue[i + 1]
      BY <2>4, <3>1 DEF JobsInv
    <3>3. \A j \in DOMAIN queue' \ {i} : j + 1 \in DOMAIN queue \ {i + 1} /\ queue'[j] = queue[j + 1]
      BY <2>2
    <3>4. QED
      BY <2>1, <2>2, <3>1, <3>2, <3>3
  <2>5. EmbedsInv'
    BY <2>1 DEF EmbedsInv
  <2>6. QED
    BY <2>3, <2>4, <2>5 DEF JobsInv
<1>3. CASE RunJob
  <2>1. worker = "run" /\ UNCHANGED <<conn, queue, job>>
    BY <1>3 DEF RunJob
  <2>2. \A i \in DOMAIN dispatch : dispatch[i] # Writer
    BY <2>1 DEF EmbedsInv
  <2>3. CASE dispatch' = dispatch
    BY <2>1, <2>2, <2>3 DEF JobsInv, EmbedsInv
  <2>4. CASE dispatch' = Append(dispatch, Writer) /\ worker' = "embed"
    <3>1. Writer \in Conns \cup {Writer} /\ Writer \notin Conns
      BY ThreadsAssumption
    <3>2. /\ DOMAIN dispatch' = DOMAIN dispatch \cup {Len(dispatch) + 1}
          /\ dispatch'[Len(dispatch) + 1] = Writer
          /\ \A i \in DOMAIN dispatch : dispatch'[i] = dispatch[i]
      BY <1>1, <2>4, <3>1, AppendProperties
    <3>3. EmbedsInv'
      BY <2>1, <2>2, <2>4, <3>1, <3>2 DEF EmbedsInv
    <3>4. QED
      BY <2>1, <3>3 DEF JobsInv
  <2>5. QED
    BY <1>3, <2>3, <2>4 DEF RunJob
<1>4. CASE PublishJob \/ JobFails
  <2>1. worker = "publish" /\ Answer /\ job' = NoJob /\ UNCHANGED <<queue, dispatch>>
    BY <1>4 DEF PublishJob, JobFails
  <2>2. /\ \A c \in Conns : c # job => conn'[c] = conn[c]
        /\ job \in Conns => conn[job] = "mutate"
    BY <2>1, AnswersWaiting
  <2>3. QED
    BY <2>1, <2>2, ThreadsAssumption DEF JobsInv, EmbedsInv
<1>5. CASE WriterExits
  BY <1>5 DEF JobsInv, EmbedsInv, WriterExits
<1> QED BY <1>2, <1>3, <1>4, <1>5 DEF WriterThread

LEMMA EmbedKeeps ==
  ASSUME TypeOK, WatcherInv, ShutdownInv, JobsInv, EmbedsInv, EmbedThread
  PROVE  (WatcherInv /\ ShutdownInv /\ JobsInv /\ EmbedsInv)'
<1> USE DEF poolVars, writerVars
<1>0. UNCHANGED <<main, queue, job, watcher, debounce>>
  BY DEF EmbedThread, Embed, DispatcherExits, watcherVars
<1>1. WatcherInv'
  BY <1>0 DEF WatcherInv
<1>2. CASE DispatcherExits
  BY <1>0, <1>1, <1>2 DEF DispatcherExits, ShutdownInv, JobsInv, EmbedsInv
<1>3. CASE Embed
  <2>1. /\ dispatch \in Seq(Conns \cup {Writer}) /\ dispatch # <<>>
        /\ dispatch' = Tail(dispatch) /\ dispatcher' = dispatcher
    BY <1>3 DEF Embed, TypeOK
  <2>2. /\ 1 \in DOMAIN dispatch /\ Head(dispatch) = dispatch[1] /\ dispatch[1] \in Conns \cup {Writer}
        /\ \A i \in DOMAIN dispatch' :
             i \in Nat /\ i + 1 \in DOMAIN dispatch \ {1} /\ dispatch'[i] = dispatch[i + 1]
    BY <2>1, HeadTailProperties
  <2>3. ASSUME NEW i \in DOMAIN dispatch'
        PROVE  dispatch'[i] # dispatch[1] /\ \A j \in DOMAIN dispatch' \ {i} : dispatch'[j] # dispatch'[i]
    <3>1. i + 1 \in DOMAIN dispatch \ {1} /\ dispatch'[i] = dispatch[i + 1]
      BY <2>2
    <3>2. \A j \in DOMAIN dispatch \ {i + 1} : dispatch[j] # dispatch[i + 1]
      BY <3>1 DEF EmbedsInv
    <3>3. \A j \in DOMAIN dispatch' \ {i} : j + 1 \in DOMAIN dispatch \ {i + 1} /\ dispatch'[j] = dispatch[j + 1]
      BY <2>2
    <3>4. QED
      BY <2>2, <3>1, <3>2, <3>3
  <2>4. \A i \in DOMAIN dispatch' :
          /\ dispatch'[i] \in Conns => conn[dispatch'[i]] = "query"
          /\ dispatch'[i] = Writer => worker = "embed"
    BY <2>2 DEF EmbedsInv
  <2>5. CASE dispatch[1] = Writer
    <3>1. worker = "embed" /\ worker' = "publish" /\ conn' = conn
      BY <1>3, <2>2, <2>5 DEF Embed, EmbedsInv
    <3>2. ShutdownInv' /\ JobsInv'
      BY <1>0, <2>1, <3>1 DEF ShutdownInv, JobsInv
    <3>3. EmbedsInv'
      BY <2>3, <2>4, <2>5, <3>1 DEF EmbedsInv
    <3>4. QED
      BY <1>1, <3>2, <3>3
  <2>6. CASE dispatch[1] # Writer
    <3>1. /\ dispatch[1] \in Conns /\ conn[dispatch[1]] = "query" /\ worker' = worker
          /\ \A c \in Conns \ {dispatch[1]} : conn'[c] = conn[c]
      BY <1>3, <2>2, <2>6 DEF Embed, EmbedsInv, TypeOK
    <3>2. main \notin HandlersOver
      BY <3>1 DEF ShutdownInv, Running
    <3>3. ShutdownInv'
      BY <1>0, <2>1, <3>1, <3>2 DEF ShutdownInv
    <3>4. JobsInv'
      BY <1>0, <3>1 DEF JobsInv
    <3>5. EmbedsInv'
      BY <2>3, <2>4, <3>1 DEF EmbedsInv
    <3>6. QED
      BY <1>1, <3>3, <3>4, <3>5
  <2>7. QED
    BY <2>5, <2>6
<1> QED BY <1>2, <1>3 DEF EmbedThread

-----------------------------------------------------------------------------
(* Steps of the watcher's threads and of the world.                        *)

LEMMA WorldKeeps ==
  ASSUME TypeOK, WatcherInv, ShutdownInv, JobsInv, EmbedsInv,
         WatchThread \/ DebounceThread \/ World \/ Signal \/ UNCHANGED vars
  PROVE  (WatcherInv /\ ShutdownInv /\ JobsInv /\ EmbedsInv)'
<1> USE DEF poolVars, writerVars, embedVars
<1>0. UNCHANGED <<main, conn, worker, job, dispatch, dispatcher>>
  BY DEF WatchThread, DebounceThread, WatcherSubmits, World, Signal, vars
<1>1. WatcherInv'
  <2>1. CASE WatchThread
    BY <1>0, <2>1 DEF WatcherInv, WatcherOver, WatchThread, AddWatches, MarkChanged, LeaveWatchLoop,
                      JoinDebounce
  <2>2. CASE DebounceThread
    BY <1>0, <2>2 DEF WatcherInv, WatcherOver, DebounceThread, Collect, NextIteration,
                      WatcherSubmits, Fire
  <2>3. CASE World \/ Signal \/ UNCHANGED vars
    BY <1>0, <2>3 DEF WatcherInv, World, Edit, Settle, Signal, vars, watcherVars
  <2>4. QED
    BY <2>1, <2>2, <2>3
<1>2. CASE queue' = queue
  BY <1>0, <1>1, <1>2 DEF ShutdownInv, JobsInv, EmbedsInv
<1>3. ASSUME NEW i \in Indexes, WatcherSubmits(i)
      PROVE  (ShutdownInv /\ JobsInv)'
  <2>1. queue' = Append(queue, i) /\ queue \in Seq(Conns \cup Indexes)
        /\ i \in Conns \cup Indexes /\ i \notin Conns /\ debounce = "fire"
    BY <1>3, ThreadsAssumption DEF WatcherSubmits, Fire, TypeOK
  <2>2. main \notin HandlersOver
    BY <2>1 DEF WatcherInv, WatcherOver, HandlersOver
  <2>3. ShutdownInv'
    BY <1>0, <2>2 DEF ShutdownInv, HandlersOver
  <2>4. /\ DOMAIN queue' = DOMAIN queue \cup {Len(queue) + 1}
        /\ queue'[Len(queue) + 1] = i /\ \A k \in DOMAIN queue : queue'[k] = queue[k]
    BY <2>1, AppendProperties
  <2>5. JobsInv'
    BY <1>0, <2>1, <2>4 DEF JobsInv
  <2>6. QED
    BY <2>3, <2>5
<1>4. CASE queue' # queue
  <2>1. \E i \in Indexes : WatcherSubmits(i)
    BY <1>4 DEF WatchThread, DebounceThread, World, Signal, vars
  <2>2. EmbedsInv'
    BY <1>0 DEF EmbedsInv
  <2>3. QED
    BY <1>1, <1>3, <2>1, <2>2
<1> QED BY <1>2, <1>4

-----------------------------------------------------------------------------

LEMMA InitThreads == Init => ThreadsInv
<1> SUFFICES ASSUME Init PROVE ThreadsInv
  OBVIOUS
<1>1. WatcherInv /\ ShutdownInv
  BY DEF Init, WatcherInit, WatcherInv, WatcherOver, ShutdownInv, HandlersOver
<1>2. JobsInv /\ EmbedsInv
  BY ThreadsAssumption DEF Init, JobsInv, EmbedsInv
<1> QED BY <1>1, <1>2, InitTypes DEF ThreadsInv

LEMMA NextThreads == ThreadsInv /\ [Next]_vars => ThreadsInv'
<1> SUFFICES ASSUME ThreadsInv, [Next]_vars PROVE ThreadsInv'
  OBVIOUS
<1> USE DEF ThreadsInv
<1>1. CASE Main
  BY <1>1, MainTypes, MainKeepsWatcher, MainKeepsOrder, MainKeepsQueues
<1>2. ASSUME NEW c \in Conns, Connect(c) \/ Handler(c) PROVE ThreadsInv'
  BY <1>2, HandlerTypes, HandlerKeepsOrder, HandlerKeepsQueues
<1>3. CASE WriterThread
  BY <1>3, WriterTypes, WriterKeepsOrder, WriterKeepsQueues
<1>4. CASE EmbedThread
  BY <1>4, EmbedTypes, EmbedKeeps
<1>5. CASE WatchThread \/ DebounceThread \/ World \/ Signal \/ UNCHANGED vars
  BY <1>5, WorldTypes, WorldKeeps
<1> QED BY <1>1, <1>2, <1>3, <1>4, <1>5 DEF Next

\* Every variable of the threads keeps its type, and the writer has a job just
\* while it runs one.
THEOREM TypeCorrect == Spec => []TypeOK
<1>1. ThreadsInv => TypeOK
  BY DEF ThreadsInv
<1>2. QED
  BY InitThreads, NextThreads, <1>1, PTL DEF Spec

\* The shutdown sequence of run_embed_server, with clients that hang, jobs and
\* events at any moment: when the write queue's destructor runs, the watcher's
\* threads and every handler are gone.
THEOREM QueueOutlivesItsCallers == Spec => []QueueDestroyedUnused
<1>1. ThreadsInv => QueueDestroyedUnused
  <2> SUFFICES ASSUME ThreadsInv PROVE QueueDestroyedUnused
    OBVIOUS
  <2>1. TypeOK /\ WatcherTypeOK /\ WatcherInv /\ ShutdownInv
    BY DEF ThreadsInv, TypeOK
  <2>2. QED
    BY <2>1 DEF WatcherInv, WatcherOver, ShutdownInv, HandlersOver, QueueDestroyedUnused
<1>2. QED
  BY InitThreads, NextThreads, <1>1, PTL DEF Spec

\* The destructors of the write queue and of the dispatcher run in an order in
\* which neither ends a thread that somebody waits for.
THEOREM WaitersHaveTheirThread == Spec => []NobodyWaitsInVain
<1>1. ThreadsInv => NobodyWaitsInVain
  <2> SUFFICES ASSUME ThreadsInv PROVE NobodyWaitsInVain
    OBVIOUS
  <2>1. ShutdownInv /\ dispatcher \in {"running", "exited"}
    BY DEF ThreadsInv, TypeOK
  <2>2. QED
    BY <2>1 DEF ShutdownInv, HandlersOver, Running, NobodyWaitsInVain
<1>2. QED
  BY InitThreads, NextThreads, <1>1, PTL DEF Spec
=============================================================================
