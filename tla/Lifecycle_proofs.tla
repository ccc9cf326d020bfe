-------------------------- MODULE Lifecycle_proofs --------------------------
(***************************************************************************)
(* For any number of processes, crashes and signals, however early the     *)
(* commands return: until a serve is given while a process is on its way   *)
(* up or down and does not answer, a daemon in service is reachable through *)
(* the socket file and named by the pid file.                              *)
(***************************************************************************)
EXTENDS Lifecycle, TLAPS

\* The processes that have to do with the two files.
Active == {p \in Procs : pc[p] \in Booting \cup {"run", "close", "join", "unlinkSock",
                                                 "unlinkPid"}}

\* There is one at a time, and it is the one whose pid the parent will write.
OneAtATime ==
  /\ \A p, q \in Active : p = q
  /\ operator = "forked" => Active \subseteq {target}

\* The files are its own from the step that makes them to the one that removes
\* them.
OwnsFiles ==
  \A p \in Active :
    /\ pc[p] \in {"load", "run", "close"} => p \in listening
    /\ pc[p] \in {"listen", "load", "run", "close", "join", "unlinkSock"} => sock = p
    /\ pc[p] = "bind" => sock = None
    /\ pc[p] # "writePid" => pidfile = p

CommandInv == operator # "idle" => target \in Procs

IInv == TypeOK /\ CommandInv /\ (~overlapped => OneAtATime /\ OwnsFiles)

LEMMA InitIInv == Init => IInv
<1> SUFFICES ASSUME Init PROVE IInv
  OBVIOUS
<1>1. Active = {}
  BY DEF Init, Active, Booting
<1>2. TypeOK
  BY LifecycleAssumption DEF Init, TypeOK, Booting, Stopping, Ended
<1>3. QED
  BY <1>1, <1>2 DEF Init, IInv, CommandInv, OneAtATime, OwnsFiles

\* Only a process with an open listening socket is ever among those that accept
\* connections.
LEMMA NextType == TypeOK /\ CommandInv /\ [Next]_vars => TypeOK' /\ CommandInv'
<1> SUFFICES ASSUME TypeOK, CommandInv, [Next]_vars PROVE TypeOK' /\ CommandInv'
  OBVIOUS
<1> USE DEF TypeOK, CommandInv, Step, Command, Booting, Stopping, Ended, files
<1>1. ASSUME NEW p \in Procs, Process(p) \/ Terminate(p) PROVE TypeOK' /\ CommandInv'
  <2>1. CASE WritePid(p) \/ UnlinkStaleSocket(p) \/ Bind(p) \/ Listen(p) \/ Load(p)
             \/ Terminate(p)
    BY <2>1 DEF WritePid, UnlinkStaleSocket, Bind, Listen, Load, Terminate
  <2>2. CASE CloseListener(p) \/ JoinHandlers(p) \/ UnlinkSocket(p) \/ UnlinkPid(p) \/ Drain(p)
    BY <2>2 DEF CloseListener, JoinHandlers, UnlinkSocket, UnlinkPid, Drain
  <2>3. QED
    BY <1>1, <2>1, <2>2 DEF Process
<1>2. ASSUME NEW p \in Procs, Crash(p) PROVE TypeOK' /\ CommandInv'
  BY <1>2 DEF Crash
<1>3. ASSUME NEW p \in Procs, Serve(p) PROVE TypeOK' /\ CommandInv'
  <2>1. overlapped' \in BOOLEAN
    BY <1>3, Zenon DEF Serve
  <2>2. QED
    BY <1>3, <2>1 DEF Serve
<1>4. CASE Stop
  BY <1>4, LifecycleAssumption DEF Stop, Connects
<1>5. CASE Issued
  BY <1>5 DEF Issued, ParentWritesPid, ServeReturns, ShutdownReceived, ShutdownLost, StopReturns
<1>6. CASE UNCHANGED vars
  BY <1>6 DEF vars
<1>7. QED
  BY <1>1, <1>2, <1>3, <1>4, <1>5, <1>6 DEF Next, Operator

\* Every variable keeps its type: a process that has ended or closed its socket
\* is never among those that listen.
THEOREM TypeCorrect == Spec => []TypeOK
<1>1. Init => TypeOK /\ CommandInv
  BY InitIInv DEF IInv
<1>2. QED
  BY <1>1, NextType, PTL DEF Spec

\* What is to show of a step as long as no two daemons have overlapped.
Alone == TypeOK /\ CommandInv /\ OneAtATime /\ OwnsFiles

\* Steps of processes that have nothing to do with the files any more.
LEMMA QuietStep ==
  ASSUME Alone, NEW p \in Procs, Drain(p) PROVE (OneAtATime /\ OwnsFiles)'
BY DEF Alone, TypeOK, OneAtATime, OwnsFiles, Active, Drain, Step, Booting, Stopping, Ended, files

\* A process on its way up.
LEMMA BootStep ==
  ASSUME Alone, NEW p \in Procs,
         WritePid(p) \/ UnlinkStaleSocket(p) \/ Bind(p) \/ Listen(p) \/ Load(p)
  PROVE  (OneAtATime /\ OwnsFiles)'
<1>1. p \in Active
  BY DEF Active, WritePid, UnlinkStaleSocket, Bind, Listen, Load, Step, Booting
<1>2. \A q \in Active : q = p
  BY <1>1 DEF Alone, OneAtATime
<1>3. Active' \subseteq Active
  BY <1>1 DEF Alone, TypeOK, Active, WritePid, UnlinkStaleSocket, Bind, Listen, Load, Step,
              Booting, Ended
<1>4. OneAtATime'
  BY <1>2, <1>3 DEF Alone, OneAtATime, WritePid, UnlinkStaleSocket, Bind, Listen, Load, Step
<1>5. OwnsFiles'
  BY <1>1, <1>2, <1>3 DEF Alone, TypeOK, OwnsFiles, Active, WritePid, UnlinkStaleSocket, Bind,
                          Listen, Load, Step, Booting, Ended, files
<1>6. QED
  BY <1>4, <1>5

\* A process on its way down.
LEMMA StopStep ==
  ASSUME Alone, NEW p \in Procs,
         Terminate(p) \/ CloseListener(p) \/ JoinHandlers(p) \/ UnlinkSocket(p) \/ UnlinkPid(p)
  PROVE  (OneAtATime /\ OwnsFiles)'
<1>1. p \in Active
  BY DEF Active, Terminate, CloseListener, JoinHandlers, UnlinkSocket, UnlinkPid, Step
<1>2. \A q \in Active : q = p
  BY <1>1 DEF Alone, OneAtATime
<1>3. Active' \subseteq Active
  BY <1>1 DEF Alone, TypeOK, Active, Terminate, CloseListener, JoinHandlers, UnlinkSocket,
              UnlinkPid, Step, Booting
<1>4. OneAtATime'
  BY <1>2, <1>3 DEF Alone, OneAtATime, Terminate, CloseListener, JoinHandlers, UnlinkSocket,
                    UnlinkPid, Step
<1>5. OwnsFiles'
  BY <1>1, <1>2, <1>3 DEF Alone, TypeOK, OwnsFiles, Active, Terminate, CloseListener,
                          JoinHandlers, UnlinkSocket, UnlinkPid, Step, Booting, files
<1>6. QED
  BY <1>4, <1>5

LEMMA CrashStep ==
  ASSUME Alone, NEW p \in Procs, Crash(p) PROVE (OneAtATime /\ OwnsFiles)'
<1>1. Active' = Active \ {p}
  BY DEF Alone, TypeOK, Active, Crash, Booting, Ended
<1>2. \A q \in Active' : pc'[q] = pc[q] /\ (q \in listening' <=> q \in listening)
  BY <1>1 DEF Alone, TypeOK, Active, Crash
<1>3. OneAtATime'
  BY <1>1 DEF Alone, OneAtATime, Crash
<1>4. OwnsFiles'
  BY <1>1, <1>2 DEF Alone, OwnsFiles, Crash
<1>5. QED
  BY <1>3, <1>4

\* serve finds no daemon that answers: there is none, or one in between.
LEMMA ServeStep ==
  ASSUME Alone, NEW p \in Procs, Serve(p), InBetween = {} PROVE (OneAtATime /\ OwnsFiles)'
<1>1. Active = {}
  <2>1. ASSUME NEW q \in Active PROVE pc[q] \in {"load", "run", "close"}
    BY DEF Active, InBetween, Booting
  <2>2. \A q \in Active : sock = q /\ q \in listening
    BY <2>1 DEF Alone, OwnsFiles
  <2>3. QED
    BY <2>2, LifecycleAssumption DEF Serve, Connects, Active
<1>2. Active' = {p}
  BY <1>1 DEF Alone, TypeOK, Active, Serve, Booting
<1>3. OneAtATime' /\ OwnsFiles'
  BY <1>2 DEF Alone, TypeOK, OneAtATime, OwnsFiles, Serve, Command, files
<1>4. QED
  BY <1>3

LEMMA CommandStep ==
  ASSUME Alone, Stop \/ Issued PROVE (OneAtATime /\ OwnsFiles)'
<1> USE DEF Command, files
<1>1. CASE ParentWritesPid
  <2>1. Active' = Active
    BY <1>1 DEF Active, ParentWritesPid
  <2>2. QED
    BY <1>1, <2>1 DEF Alone, OneAtATime, OwnsFiles, ParentWritesPid
<1>2. CASE Stop \/ ServeReturns \/ ShutdownLost \/ StopReturns
  <2>1. Active' = Active /\ operator' # "forked"
    BY <1>2 DEF Active, Stop, ServeReturns, ShutdownLost, StopReturns
  <2>2. QED
    BY <1>2, <2>1 DEF Alone, OneAtATime, OwnsFiles, Stop, ServeReturns, ShutdownLost, StopReturns
<1>3. CASE ShutdownReceived
  <2>1. target \in Procs /\ target \in Active
    BY <1>3 DEF Alone, CommandInv, Active, ShutdownReceived
  <2>2. pc' = [pc EXCEPT ![target] = "close"] /\ Active' = Active /\ operator' # "forked"
    BY <1>3, <2>1 DEF Alone, TypeOK, Active, ShutdownReceived
  <2>3. QED
    BY <1>3, <2>1, <2>2 DEF Alone, TypeOK, OneAtATime, OwnsFiles, ShutdownReceived
<1>4. QED
  BY <1>1, <1>2, <1>3 DEF Issued

LEMMA NextIInv == IInv /\ [Next]_vars => IInv'
<1> SUFFICES ASSUME IInv, [Next]_vars PROVE IInv'
  OBVIOUS
<1>1. TypeOK' /\ CommandInv'
  BY NextType DEF IInv
<1>2. ASSUME ~overlapped' PROVE (OneAtATime /\ OwnsFiles)'
  <2>1. ASSUME NEW p \in Procs, Serve(p) PROVE ~overlapped /\ InBetween = {}
    BY <1>2, <2>1 DEF Serve
  <2>2. CASE UNCHANGED vars
    BY <1>2, <2>2 DEF IInv, vars, files, OneAtATime, OwnsFiles, Active
  <2>3. CASE Stop \/ Issued
    <3>1. ~overlapped
      BY <1>2, <2>3 DEF Stop, Issued, ParentWritesPid, ServeReturns, ShutdownReceived,
                        ShutdownLost, StopReturns
    <3>2. QED
      BY <2>3, <3>1, CommandStep DEF IInv, Alone
  <2>4. ASSUME NEW p \in Procs, Process(p) \/ Terminate(p) \/ Crash(p)
        PROVE  (OneAtATime /\ OwnsFiles)'
    <3>1. ~overlapped
      BY <1>2, <2>4 DEF Process, WritePid, UnlinkStaleSocket, Bind, Listen, Load, CloseListener,
                        JoinHandlers, UnlinkSocket, UnlinkPid, Drain, Terminate, Crash, Step
    <3>2. QED
      BY <2>4, <3>1, QuietStep, BootStep, StopStep, CrashStep DEF Process, IInv, Alone
  <2>5. QED
    BY <2>1, <2>2, <2>3, <2>4, ServeStep DEF Next, Operator, IInv, Alone
<1>3. QED
  BY <1>1, <1>2 DEF IInv

\* A daemon that serves is the one that the socket file leads to, after any
\* commands, signals and crashes: as long as serve was not given in between.
THEOREM InServiceIsReachable == Spec => []AloneIsReachable
<1>1. IInv => AloneIsReachable
  BY DEF IInv, OwnsFiles, Active, AloneIsReachable, Reachable
<1>2. QED
  BY InitIInv, NextIInv, <1>1, PTL DEF Spec

\* Likewise it is the one that the pid file names, for `gogol serve --status`.
THEOREM StatusNamesTheServer == Spec => []AloneStatusIsTrue
<1>1. IInv => AloneStatusIsTrue
  BY DEF IInv, OwnsFiles, Active, AloneStatusIsTrue
<1>2. QED
  BY InitIInv, NextIInv, <1>1, PTL DEF Spec
=============================================================================
