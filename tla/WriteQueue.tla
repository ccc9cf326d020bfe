----------------------------- MODULE WriteQueue -----------------------------
(***************************************************************************)
(* src/daemon/write_queue.h at the level of its threads: one worker, a     *)
(* mutex, a condition variable, callers that submit and forget (the        *)
(* watcher, INDEX) or submit and wait (ADD, RM), and the owner that        *)
(* constructs the queue and destroys it.  A step is what happens under the *)
(* lock, or one action outside it; notifications are steps of their own    *)
(* because the code sends them after it has unlocked.                      *)
(*                                                                         *)
(* Members are initialized in the order of their declarations: the worker_ *)
(* thread starts before stop_ is initialized, and the initializer takes no *)
(* lock.  What the worker reads of stop_ until then is whatever the memory *)
(* holds.                                                                  *)
(***************************************************************************)
EXTENDS Naturals, Sequences

CONSTANTS
  Waiters,       \* threads that call submit_wait
  Posters,       \* threads that call submit
  MaxJobs        \* bound: jobs submitted

Callers == Waiters \cup Posters

ASSUME QueueAssumption ==
  /\ Waiters \cap Posters = {}
  /\ MaxJobs \in Nat

VARIABLES
  queue,      \* queue_
  stop,       \* stop_, whatever the memory holds before its initializer runs
  worker,     \* "unborn", "check", "awake" (past the wait, holding the lock),
              \*   "blocked", "run", "exited", "undefined"
  current,    \* the job the worker has popped, <<>> or <<job>>
  owner,      \* "constructing", "half", "alive", "stopping", "joining", "gone",
              \*   "crashed"
  misread,    \* auxiliary: the worker went past the wait on an uninitialized stop_
  caller,     \* each caller: "idle", "notify", "wait"
  future,     \* what a waiter's future holds: "none", "value", "exception"
  submitted,  \* history: jobs in the order they were pushed
  executed    \* history: jobs in the order they were run

callers == <<caller, future>>
history == <<submitted, executed>>
vars == <<queue, stop, worker, current, owner, misread, callers, history>>

Job == [by : Callers, n : Nat]

TypeOK ==
  /\ queue \in Seq(Job)
  /\ stop \in BOOLEAN
  /\ worker \in {"unborn", "check", "awake", "blocked", "run", "exited", "undefined"}
  /\ current \in Seq(Job) /\ Len(current) = IF worker = "run" THEN 1 ELSE 0
  /\ owner \in {"constructing", "half", "alive", "stopping", "joining", "gone", "crashed"}
  /\ misread \in BOOLEAN
  /\ caller \in [Callers -> {"idle", "notify", "wait"}]
  /\ future \in [Callers -> {"none", "value", "exception"}]
  /\ submitted \in Seq(Job)
  /\ executed \in Seq(Job)

Init ==
  /\ queue = <<>>
  /\ stop \in BOOLEAN          \* uninitialized memory
  /\ worker = "unborn"
  /\ current = <<>>
  /\ owner = "constructing"
  /\ misread = FALSE
  /\ caller = [c \in Callers |-> "idle"]
  /\ future = [c \in Callers |-> "none"]
  /\ submitted = <<>>
  /\ executed = <<>>

-----------------------------------------------------------------------------
(* The owner: constructor and destructor.                                  *)

\* The constructor, in two steps.
StartWorker ==
  /\ owner = "constructing"
  /\ owner' = "half"
  /\ worker' = "check"
  /\ UNCHANGED <<queue, stop, current, misread, callers, history>>

InitStop ==
  /\ owner = "half"
  /\ owner' = "alive"
  /\ stop' = FALSE
  /\ UNCHANGED <<queue, worker, current, misread, callers, history>>

\* The worker holds the lock for more than one step only past its wait.
LockFree == worker # "awake"

\* run_embed_server has stopped the watcher and joined every handler by now.
Destroy ==
  /\ owner = "alive" /\ LockFree
  /\ \A c \in Callers : caller[c] = "idle"
  /\ stop' = TRUE
  /\ owner' = "stopping"
  /\ UNCHANGED <<queue, worker, current, misread, callers, history>>

\* Mutant: the notification is forgotten.
WakeForgotten == UNCHANGED worker
Wake == worker' = IF worker = "blocked" THEN "check" ELSE worker

NotifyAll ==
  /\ owner = "stopping"
  /\ Wake
  /\ owner' = "joining"
  /\ UNCHANGED <<queue, stop, current, misread, callers, history>>

Join ==
  /\ owner = "joining" /\ worker = "exited"
  /\ owner' = "gone"
  /\ UNCHANGED <<queue, stop, worker, current, misread, callers, history>>

-----------------------------------------------------------------------------
(* Callers.                                                                *)

Push(c) ==
  /\ owner = "alive" /\ LockFree /\ caller[c] = "idle" /\ Len(submitted) < MaxJobs
  /\ LET j == [by |-> c, n |-> Len(submitted)] IN
       /\ queue' = Append(queue, j)
       /\ submitted' = Append(submitted, j)
  /\ future' = [future EXCEPT ![c] = "none"]
  /\ caller' = [caller EXCEPT ![c] = "notify"]
  /\ UNCHANGED <<stop, worker, current, owner, misread, executed>>

NotifyOne(c) ==
  /\ caller[c] = "notify"
  /\ Wake
  /\ caller' = [caller EXCEPT ![c] = IF c \in Waiters THEN "wait" ELSE "idle"]
  /\ UNCHANGED <<queue, stop, current, owner, misread, future, history>>

\* Mutant: the caller gives up before its job has run.
ReturnEarly(c) ==
  /\ caller[c] = "wait"
  /\ caller' = [caller EXCEPT ![c] = "idle"]
  /\ UNCHANGED <<queue, stop, worker, current, owner, misread, future, history>>

\* fut.get() returns the job's value or rethrows its exception.
Return(c) ==
  /\ caller[c] = "wait" /\ future[c] # "none"
  /\ caller' = [caller EXCEPT ![c] = "idle"]
  /\ UNCHANGED <<queue, stop, worker, current, owner, misread, future, history>>

-----------------------------------------------------------------------------
(* The worker.                                                             *)

\* Under the lock: the predicate of cv_.wait, which reads stop_.
Block ==
  /\ worker = "check" /\ queue = <<>> /\ ~stop
  /\ worker' = "blocked"
  /\ UNCHANGED <<queue, stop, current, owner, misread, callers, history>>

Awake ==
  /\ worker = "check" /\ (queue # <<>> \/ stop)
  /\ worker' = "awake"
  /\ misread' = (misread \/ (queue = <<>> /\ owner = "half"))
  /\ UNCHANGED <<queue, stop, current, owner, callers, history>>

\* Mutant: stop_ alone ends the loop.
ExitAtOnce ==
  /\ worker = "awake" /\ stop
  /\ worker' = "exited"
  /\ UNCHANGED <<queue, stop, current, owner, misread, callers, history>>

\* The exit test reads stop_ a second time.
Exit ==
  /\ worker = "awake" /\ stop /\ queue = <<>>
  /\ worker' = "exited"
  /\ UNCHANGED <<queue, stop, current, owner, misread, callers, history>>

\* Mutants: the newest job first; a job that is never taken out of current.
PopNewest ==
  /\ worker = "awake" /\ queue # <<>>
  /\ current' = <<queue[Len(queue)]>>
  /\ queue' = SubSeq(queue, 1, Len(queue) - 1)
  /\ worker' = "run"
  /\ UNCHANGED <<stop, owner, misread, callers, history>>

PopAgain ==
  /\ worker = "awake" /\ queue # <<>>
  /\ current' = Append(current, Head(queue))
  /\ queue' = Tail(queue)
  /\ UNCHANGED <<stop, worker, owner, misread, callers, history>>

Pop ==
  /\ worker = "awake" /\ queue # <<>>
  /\ current' = <<Head(queue)>>
  /\ queue' = Tail(queue)
  /\ worker' = "run"
  /\ UNCHANGED <<stop, owner, misread, callers, history>>

\* stop_ was initialized between its two readings: front() of an empty queue is
\* undefined behaviour, where the model ends.
PopEmpty ==
  /\ worker = "awake" /\ queue = <<>> /\ ~stop
  /\ worker' = "undefined" /\ owner' = "crashed"
  /\ UNCHANGED <<queue, stop, current, misread, callers, history>>

\* A throwing job is caught: by submit_wait's wrapper, or by run().
RunJob ==
  /\ worker = "run"
  /\ LET j == current[1] IN
       /\ \E outcome \in {"value", "exception"} :
            future' = IF j.by \in Waiters THEN [future EXCEPT ![j.by] = outcome] ELSE future
       /\ executed' = Append(executed, j)
  /\ current' = <<>>
  /\ worker' = "check"
  /\ UNCHANGED <<queue, stop, owner, misread, caller, submitted>>

SpuriousWakeup ==
  /\ worker = "blocked"
  /\ worker' = "check"
  /\ UNCHANGED <<queue, stop, current, owner, misread, callers, history>>

Owner == StartWorker \/ InitStop \/ Destroy \/ NotifyAll \/ Join
Caller(c) == Push(c) \/ NotifyOne(c) \/ Return(c)
Worker == Block \/ Awake \/ Exit \/ Pop \/ PopEmpty \/ RunJob

Next == Owner \/ (\E c \in Callers : Caller(c)) \/ Worker \/ SpuriousWakeup

Spec == Init /\ [][Next]_vars

\* Every thread that can take a step takes one.  Nobody has to call submit,
\* nobody has to destroy the queue, and no wakeup comes by itself.
Fairness ==
  /\ WF_vars(StartWorker) /\ WF_vars(InitStop)
  /\ WF_vars(NotifyAll) /\ WF_vars(Join)
  /\ WF_vars(Worker)
  /\ \A c \in Callers : WF_vars(NotifyOne(c)) /\ WF_vars(Return(c))
LiveSpec == Spec /\ Fairness

-----------------------------------------------------------------------------
(* Properties.                                                             *)

Outstanding == current \o queue

\* First in, first out, each job once, whatever the callers interleave: what
\* ran, what is running and what waits are together what was submitted.
RunsInOrder == submitted = executed \o Outstanding

\* submit_wait's job writes to a promise on its caller's stack: while the job is
\* queued or running the caller is still inside the call, and the promise has
\* not been set (setting it twice would throw).
PromiseAlive ==
  \A i \in DOMAIN Outstanding :
    LET c == Outstanding[i].by IN
      c \in Waiters => caller[c] # "idle" /\ future[c] = "none"

\* The destructor drains: jobs that were submitted and forgotten are not lost
\* at shutdown, and no job is pushed to a queue nobody empties.  It takes a worker
\* that did not see stop_ before it was initialized.
NothingStranded ==
  ~misread => worker # "undefined" /\ (worker = "exited" => queue = <<>>)

\* "Enqueue and block until the job has run, returning its result."  Does not
\* hold: a worker that found garbage in stop_ has exited, and nobody runs the job.
SubmitWaitReturns == \A c \in Waiters : caller[c] = "notify" ~> caller[c] = "idle"

\* Unless the worker has seen it so early the job does run, and with a
\* notification outside the lock no wakeup is lost.
InitializedWaitReturns ==
  \A c \in Waiters : caller[c] = "notify" ~> caller[c] = "idle" \/ misread

\* ~WriteQueue joins its worker, however many jobs are left.
DestructorReturns == owner = "stopping" ~> owner = "gone"
=============================================================================
