---------------------------- MODULE GraphQueries ----------------------------
(***************************************************************************)
(* The pure computations, one at a time: what the indexer takes from a     *)
(* source file, its calls or its chunks, and a client's question of the    *)
(* stored graphs, `calls` or `affected`.                                   *)
(***************************************************************************)
EXTENDS CallTree, AffectedFiles, Extraction, Chunking

vars == <<callVars, affectedVars, extractionVars, chunkVars>>

Init == CallTreeInit /\ AffectedInit /\ ExtractionInit /\ ChunkingInit

\* Only one of the four leaves its initial state.
Next ==
  \/ /\ search = "idle" /\ chunker = "" /\ Len(kind) = 1
     /\ CallTreeNext
     /\ UNCHANGED <<affectedVars, extractionVars, chunkVars>>
  \/ /\ calls = "idle" /\ chunker = "" /\ Len(kind) = 1
     /\ AffectedNext
     /\ UNCHANGED <<callVars, extractionVars, chunkVars>>
  \/ /\ calls = "idle" /\ search = "idle" /\ chunker = ""
     /\ ExtractionNext
     /\ UNCHANGED <<callVars, affectedVars, chunkVars>>
  \/ /\ calls = "idle" /\ search = "idle" /\ Len(kind) = 1
     /\ CutFile
     /\ UNCHANGED <<callVars, affectedVars, extractionVars>>

Spec == Init /\ [][Next]_vars
=============================================================================
