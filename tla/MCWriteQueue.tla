---------------------------- MODULE MCWriteQueue ----------------------------
(* Small instances of WriteQueue for TLC.                                  *)
EXTENDS WriteQueue

CONSTANTS w1, w2, p1

TwoWaiters == {w1, w2}
OnePoster == {p1}
=============================================================================
