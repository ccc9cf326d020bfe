-------------------------- MODULE MCDaemonThreads ---------------------------
(* Small instances of DaemonThreads for TLC.                               *)
EXTENDS DaemonThreads

CONSTANTS k1, k2, d1, d2

TwoConns == {k1, k2}
OneConn == {k1}
NoConns == {}
OneDir == {d1}
TwoDirs == {d1, d2}
OneIndex == <<{d1}>>
TwoIndexes == <<{d1}, {d2}>>
First == {1}
FirstTwo == {1, 2}
=============================================================================
