------------------------------ MODULE Chunking ------------------------------
(***************************************************************************)
(* How a file is cut into chunks: RegexChunker at the lines that match,    *)
(* TreeSitterChunker at the nodes of five lines and more, chunk_window     *)
(* every so many characters (chunking/chunker_iface.cpp, chunker.cpp,      *)
(* ts_chunker.cpp).  Which chunker a file gets is its extension's.         *)
(***************************************************************************)
EXTENDS Integers, Sequences, FiniteSets, SequencesExt

CONSTANTS
  MaxUnits,            \* bound: lines, characters or nodes of a file
  window, overlap      \* the parameters of chunk_window

ASSUME ChunkingAssumption ==
  MaxUnits \in Nat /\ window \in Nat /\ overlap \in Nat /\ overlap < window

VARIABLES
  file,                \* its lines, characters or top-level nodes
  chunker,             \* what cut it, "" before
  chunks

chunkVars == <<file, chunker, chunks>>

\* The line a chunk is said to start at, and the units it is made of.
Chunk(line, units) == [line |-> line, units |-> units]
FilesOf(kinds) == UNION {[1 .. n -> kinds] : n \in 0 .. MaxUnits}
Units(first, last) == [k \in 1 .. last - first + 1 |-> first + k - 1]

ChunkingInit == file = <<>> /\ chunker = "" /\ chunks = <<>>

-----------------------------------------------------------------------------

\* Mutant: a chunk keeps the start of the one before.
RegexChunksStale(text) ==
  LET Cut(sofar, n) ==
        IF text[n] = "split" /\ sofar.body # <<>>
        THEN [done |-> Append(sofar.done, Chunk(sofar.start, sofar.body)),
              start |-> sofar.start, body |-> <<n>>]
        ELSE [sofar EXCEPT !.body = IF @ = <<>> /\ text[n] = "blank" THEN @ ELSE Append(@, n)]
      last == FoldLeft(Cut, [done |-> <<>>, start |-> 1, body |-> <<>>], Units(1, Len(text)))
  IN IF last.body = <<>> THEN last.done
     ELSE Append(last.done, Chunk(last.start, last.body))

\* RegexChunker::chunk.  A line that splits is not blank and is in its chunk, so
\* a heading without a body does not occur.  Empty lines leave an empty body empty.
RegexChunks(text) ==
  LET Cut(sofar, n) ==
        IF text[n] = "split"
        THEN [done |-> IF sofar.body = <<>> THEN sofar.done
                       ELSE Append(sofar.done, Chunk(sofar.start, sofar.body)),
              start |-> n, body |-> <<n>>]
        ELSE [sofar EXCEPT !.body = IF @ = <<>> /\ text[n] = "blank" THEN @ ELSE Append(@, n)]
      last == FoldLeft(Cut, [done |-> <<>>, start |-> 1, body |-> <<>>], Units(1, Len(text)))
  IN IF last.body = <<>> THEN last.done
     ELSE Append(last.done, Chunk(last.start, last.body))

\* chunk_window: the windows start every window - overlap characters.
LineAt(text, n) == 1 + Cardinality({j \in 1 .. n - 1 : text[j] = "newline"})
WindowChunks(text) ==
  LET step == window - overlap
      begin(k) == (k - 1) * step + 1
      end(k) == Min({begin(k) + window - 1, Len(text)})
  IN [k \in 1 .. (Len(text) + step - 1) \div step |->
        Chunk(LineAt(text, begin(k)), Units(begin(k), end(k)))]

\* chunk_treesitter: what is shorter than five lines is dropped, but for a comment
\* right before a node that is not.
Height(node) == IF node = "long" THEN 5 ELSE 1
LineOfNode(nodes, n) == 1 + FoldLeft(LAMBDA sum, j : sum + Height(nodes[j]), 0, Units(1, n - 1))
NodeChunks(nodes) ==
  LET Cut(sofar, n) ==
        IF nodes[n] # "long" THEN sofar
        ELSE LET commented == n > 1 /\ nodes[n - 1] = "comment"
             IN Append(sofar, Chunk(LineOfNode(nodes, n), IF commented THEN <<n - 1, n>> ELSE <<n>>))
  IN FoldLeft(Cut, <<>>, Units(1, Len(nodes)))

\* A file TreeSitterChunker finds nothing long in is cut into windows.
CutFile ==
  /\ chunker = ""
  /\ \/ /\ chunker' = "regex" /\ file' \in FilesOf({"blank", "plain", "split"})
        /\ chunks' = RegexChunks(file')
     \/ /\ chunker' = "window" /\ file' \in FilesOf({"newline", "other"})
        /\ chunks' = WindowChunks(file')
     \/ /\ chunker' = "treesitter" /\ file' \in FilesOf({"comment", "short", "long"})
        /\ chunks' = NodeChunks(file') /\ chunks' # <<>>

ChunkingSpec == ChunkingInit /\ [][CutFile]_chunkVars

-----------------------------------------------------------------------------
(* Properties.                                                             *)

UnitsOf(c) == {c.units[k] : k \in DOMAIN c.units}
LineOf(unit) ==
  CASE chunker = "regex" -> unit
    [] chunker = "window" -> LineAt(file, unit)
    [] OTHER -> LineOfNode(file, unit)
\* What a search must be able to find: of the text before the first line that is
\* not blank nothing, and of nodes the long ones with the comment right above.
Content ==
  CASE chunker = "regex" ->
         {n \in DOMAIN file : \E j \in 1 .. n : file[j] # "blank"}
    [] chunker = "window" -> DOMAIN file
    [] OTHER ->
         {n \in DOMAIN file :
            file[n] = "long" \/ (file[n] = "comment" /\ n < Len(file) /\ file[n + 1] = "long")}

\* Nothing that is to be found is in no chunk; no line and no node is in two, and
\* a window shares at most overlap characters with an earlier one.  A chunk
\* starts at the line it says (`gogol get` shows the file from there): where its
\* first character, its split or its long node is.  Only text before the first
\* split is said to start at line 1 when there are empty lines above it.
ChunksLocateText ==
  chunker # "" =>
    /\ Content \subseteq UNION {UnitsOf(chunks[k]) : k \in DOMAIN chunks}
    /\ \A j, k \in DOMAIN chunks : j < k =>
         IF chunker = "window" THEN Last(chunks[j].units) < Head(chunks[k].units) + overlap
         ELSE UnitsOf(chunks[j]) \cap UnitsOf(chunks[k]) = {}
    /\ \A k \in DOMAIN chunks :
         LET c == chunks[k] IN
           /\ c.units # <<>>
           /\ \/ c.line = LineOf(IF chunker = "treesitter" THEN Last(c.units) ELSE Head(c.units))
              \/ chunker = "regex" /\ k = 1 /\ c.line = 1 /\ file[Head(c.units)] = "plain"
=============================================================================
