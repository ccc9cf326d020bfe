------------------------------ MODULE Lifecycle ------------------------------
(***************************************************************************)
(* Daemon processes one after another: `gogol serve`, `gogol serve --stop`,*)
(* SIGTERM and kill -9, and the two files by which they find each other,   *)
(* the socket ~/.gogol/sock and the pid file (run_embed_server, daemonize, *)
(* stop_embed_server, daemon_is_running).  One operator issues the         *)
(* commands, each after the last has returned; a command that polls for 10 *)
(* or 2 seconds may give up at any moment, since nothing bounds the        *)
(* daemon's boot and the jobs it waits for.                                *)
(*                                                                         *)
(* The foreground process is the one that serves: `serve` checks, forks    *)
(* and executes itself with --foreground, which does not check again.      *)
(* Each process is started at most once.                                   *)
(***************************************************************************)
EXTENDS Naturals

CONSTANTS
  Procs,       \* process ids
  None,
  MaxCrashes   \* bound

ASSUME LifecycleAssumption == None \notin Procs /\ MaxCrashes \in Nat

VARIABLES
  sock,       \* who bound the socket file, None if there is no file
  listening,  \* processes with an open listening socket
  pidfile,    \* the pid in the pid file, None if there is no file
  pc,         \* each process: its next step, or how it ended
  operator,   \* "idle", or the place in the command being run
  target,     \* the process that command started or asked to stop
  overlapped, \* auxiliary: serve was given while a process had its socket not yet
              \*   open, or closed already and the two files still to remove
  crashes

files == <<sock, listening, pidfile>>
vars == <<files, pc, operator, target, overlapped, crashes>>

Booting == {"writePid", "unlinkStale", "bind", "listen", "load"}
Stopping == {"close", "join", "unlinkSock", "unlinkPid", "drain"}
Ended == {"exited", "failed", "crashed"}

TypeOK ==
  /\ sock \in Procs \cup {None}
  /\ listening \subseteq {p \in Procs : pc[p] \in {"load", "run", "close"}}
  /\ pidfile \in Procs \cup {None}
  /\ pc \in [Procs -> {"new", "run"} \cup Booting \cup Stopping \cup Ended]
  /\ operator \in {"idle", "forked", "waitSock", "asked", "waitPid"}
  /\ target \in Procs \cup {None}
  /\ overlapped \in BOOLEAN
  /\ crashes \in Nat

Init ==
  /\ sock = None /\ listening = {} /\ pidfile = None
  /\ pc = [p \in Procs |-> "new"]
  /\ operator = "idle" /\ target = None
  /\ overlapped = FALSE /\ crashes = 0

\* connect() on the socket's path succeeds.
Connects == sock # None /\ sock \in listening

-----------------------------------------------------------------------------
(* Commands.                                                               *)

Command(from, to) == operator = from /\ operator' = to

\* Processes that still have to do with the files and do not answer on the socket.
InBetween == {p \in Procs : pc[p] \in {"writePid", "unlinkStale", "bind", "listen",
                                       "join", "unlinkSock", "unlinkPid"}}

\* The kernel's choice of a pid, which makes no difference.
NextPid == CHOOSE p \in Procs : pc[p] = "new"

\* Mutant: it forks whether or not a daemon answers.
ServeUnchecked(p) ==
  /\ Command("idle", "forked")
  /\ pc[p] = "new" /\ p = NextPid
  /\ pc' = [pc EXCEPT ![p] = "writePid"]
  /\ target' = p
  /\ overlapped' = (overlapped \/ InBetween # {})
  /\ UNCHANGED <<files, crashes>>

\* serve: "Daemon already running." or fork.
Serve(p) ==
  /\ Command("idle", "forked")
  /\ ~Connects
  /\ pc[p] = "new" /\ p = NextPid
  /\ pc' = [pc EXCEPT ![p] = "writePid"]
  /\ target' = p
  /\ overlapped' = (overlapped \/ InBetween # {})
  /\ UNCHANGED <<files, crashes>>

\* daemonize's parent writes the child's pid, too.
ParentWritesPid ==
  /\ Command("forked", "waitSock")
  /\ pidfile' = target
  /\ UNCHANGED <<sock, listening, pc, target, overlapped, crashes>>

\* "Daemon started": there is a socket file, its child's or one that a crash left.
\* "still loading model": there was none for 10 s.
ServeReturns ==
  /\ Command("waitSock", "idle")
  /\ UNCHANGED <<files, pc, target, overlapped, crashes>>

Stop ==
  /\ Command("idle", "asked")
  /\ Connects
  /\ target' = sock
  /\ UNCHANGED <<files, pc, overlapped, crashes>>

\* Mutant: it answers and goes on.
ShutdownForgotten ==
  /\ Command("asked", "waitPid")
  /\ pc[target] = "run"
  /\ UNCHANGED <<files, pc, target, overlapped, crashes>>

\* The daemon answers once it accepts, with "bye", and leaves its loop.
ShutdownReceived ==
  /\ Command("asked", "waitPid")
  /\ pc[target] = "run"
  /\ pc' = [pc EXCEPT ![target] = "close"]
  /\ UNCHANGED <<files, target, overlapped, crashes>>

\* The connection is not accepted any more, or breaks.
ShutdownLost ==
  /\ Command("asked", "waitPid")
  /\ target \notin listening
  /\ UNCHANGED <<files, pc, target, overlapped, crashes>>

\* --stop polls for the pid file to go, for 2 s: it may well return before, when
\* a handler waits longer than that for its job.
StopReturns ==
  /\ Command("waitPid", "idle")
  /\ UNCHANGED <<files, pc, target, overlapped, crashes>>

-----------------------------------------------------------------------------
(* A daemon process.                                                       *)

Step(p, from, to) ==
  /\ pc[p] = from
  /\ pc' = [pc EXCEPT ![p] = to]
  /\ UNCHANGED <<operator, target, overlapped, crashes>>

WritePid(p) ==
  /\ Step(p, "writePid", "unlinkStale")
  /\ pidfile' = p
  /\ UNCHANGED <<sock, listening>>

\* Mutant: a socket file left by a crash stays.
KeepStaleSocket(p) ==
  /\ Step(p, "unlinkStale", "bind")
  /\ UNCHANGED files

UnlinkStaleSocket(p) ==
  /\ Step(p, "unlinkStale", "bind")
  /\ sock' = None
  /\ UNCHANGED <<listening, pidfile>>

\* bind fails if the file exists; the process ends and leaves its pid file.
Bind(p) ==
  /\ IF sock = None THEN Step(p, "bind", "listen") /\ sock' = p
     ELSE Step(p, "bind", "failed") /\ UNCHANGED sock
  /\ UNCHANGED <<listening, pidfile>>

Listen(p) ==
  /\ Step(p, "listen", "load")
  /\ listening' = listening \cup {p}
  /\ UNCHANGED <<sock, pidfile>>

\* The model and the indexes; from here on the process may write them.
Load(p) ==
  /\ Step(p, "load", "run")
  /\ UNCHANGED files

\* SIGTERM or SIGINT: the accept loop ends.  One that comes earlier is seen there.
Terminate(p) ==
  /\ Step(p, "run", "close")
  /\ UNCHANGED files

\* Mutant: it goes on listening.
CloseListenerForgotten(p) ==
  /\ Step(p, "close", "join")
  /\ UNCHANGED files

\* The listening socket is closed; its file stays.
CloseListener(p) ==
  /\ Step(p, "close", "join")
  /\ listening' = listening \ {p}
  /\ UNCHANGED <<sock, pidfile>>

\* Handlers are joined, which wait for jobs of the write queue.
JoinHandlers(p) ==
  /\ Step(p, "join", "unlinkSock")
  /\ UNCHANGED files

\* unlink takes the path: whoever's socket it is.
UnlinkSocket(p) ==
  /\ Step(p, "unlinkSock", "unlinkPid")
  /\ sock' = None
  /\ UNCHANGED <<listening, pidfile>>

UnlinkPid(p) ==
  /\ Step(p, "unlinkPid", "drain")
  /\ pidfile' = None
  /\ UNCHANGED <<sock, listening>>

\* Mutant: the files go last.
DrainThenUnlink(p) ==
  /\ Step(p, "drain", "exited")
  /\ sock' = None /\ pidfile' = None
  /\ UNCHANGED listening

\* ~WriteQueue runs the jobs that are left.
Drain(p) ==
  /\ Step(p, "drain", "exited")
  /\ UNCHANGED files

Alive(p) == pc[p] \notin {"new"} \cup Ended

\* kill -9, or SIGTERM before it is handled: the files stay.
Crash(p) ==
  /\ Alive(p) /\ crashes < MaxCrashes
  /\ crashes' = crashes + 1
  /\ pc' = [pc EXCEPT ![p] = "crashed"]
  /\ listening' = listening \ {p}
  /\ UNCHANGED <<sock, pidfile, operator, target, overlapped>>

-----------------------------------------------------------------------------

\* What a command does once it has been issued.
Issued == ParentWritesPid \/ ServeReturns \/ ShutdownReceived \/ ShutdownLost \/ StopReturns

Operator == (\E p \in Procs : Serve(p)) \/ Stop \/ Issued

Process(p) == WritePid(p) \/ UnlinkStaleSocket(p) \/ Bind(p) \/ Listen(p) \/ Load(p)
              \/ CloseListener(p) \/ JoinHandlers(p) \/ UnlinkSocket(p) \/ UnlinkPid(p)
              \/ Drain(p)

Next == Operator \/ \E p \in Procs : Process(p) \/ Terminate(p) \/ Crash(p)

Spec == Init /\ [][Next]_vars

\* Processes run (their jobs end), and commands that have been issued go on.
\* Nobody has to issue one.
Fairness == WF_vars(Issued) /\ \A p \in Procs : WF_vars(Process(p))
LiveSpec == Spec /\ Fairness

-----------------------------------------------------------------------------
(* Properties.                                                             *)

\* A daemon in service can be found: the socket file is its own.  ("Restart with:
\* gogol serve --stop && gogol serve" relies on it.)  Does not hold: a process on its
\* way down unlinks the socket of its successor.
Reachable == \A p \in Procs : pc[p] = "run" => sock = p /\ p \in listening

\* It holds, whatever crashed, was terminated or stopped before, until a serve is
\* given in between; and none comes in between while the daemon answers.
AloneIsReachable == ~overlapped => Reachable

\* `serve --status` prints the pid of the daemon that answers, likewise.
AloneStatusIsTrue ==
  ~overlapped => \A p \in Procs : pc[p] = "run" => pidfile = p

\* serve brings up a daemon, after any crash, socket file left or not: it neither
\* fails to bind nor hangs.  With two at a time one may fail to bind.
ServeStarts ==
  \A p \in Procs : pc[p] = "writePid" ~> pc[p] \in {"run", "crashed"} \/ overlapped

\* --stop returns, and what it has asked to stop ends.
StopEnds ==
  \A p \in Procs : operator = "asked" /\ target = p ~> operator = "idle" /\ ~Alive(p)
=============================================================================
