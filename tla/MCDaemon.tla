------------------------------ MODULE MCDaemon ------------------------------
(* Small instances of Daemon for TLC.                                      *)
EXTENDS Daemon

CONSTANTS c1, c2, n1, n2, t1, d1

TwoHandlers == {c1, c2}
OneHandler == {c1}
TwoNotes == {n1, n2}
OneNote == {n1}
OneTerm == {t1}
OneDoc == {d1}
None == {}
=============================================================================
