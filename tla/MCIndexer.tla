----------------------------- MODULE MCIndexer -----------------------------
(* Small instances of Indexer for TLC.                                     *)
EXTENDS Indexer, TLC

CONSTANTS src, doc, here, there

TwoFiles == {src, doc}
OneCode == {src}
OneDoc == {doc}
TwoRoots == {here, there}
Under == src :> here @@ doc :> there
Targets == doc :> {src, Web}
TwoChunks == {1, 2}
=============================================================================
