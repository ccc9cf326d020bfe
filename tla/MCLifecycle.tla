----------------------------- MODULE MCLifecycle -----------------------------
(* Small instances of Lifecycle for TLC.                                   *)
EXTENDS Lifecycle

CONSTANTS p1, p2, p3

TwoProcs == {p1, p2}
ThreeProcs == {p1, p2, p3}

\* An operator who sends no signals and gives serve only when no process is on
\* its way up.
Careless ==
  \E p \in Procs :
    \/ Terminate(p)
    \/ Serve(p) /\ \E q \in Procs : pc[q] \in Booting
RestartSpec == Init /\ [][Next /\ ~Careless]_vars
=============================================================================
