---------------------------- MODULE AffectedFiles ----------------------------
(***************************************************************************)
(* `gogol affected` and the MCP tool of that name: the breadth-first       *)
(* search for the files that import the given ones, directly or through    *)
(* others (cmd_affected, handle_affected, imported_by).  Each index is     *)
(* searched by itself; this is one.  A file is its directory's last        *)
(* segment, "" at the root, and its name without extension; an import is   *)
(* what the importing file wrote, by the same two parts.                   *)
(***************************************************************************)
EXTENDS Naturals, Sequences, FiniteSets, SequencesExt

CONSTANTS
  Files,          \* records [dir, base], the indexed files
  Inputs,         \* records [dir, base], what a client may name
  ImportGraphs,   \* sets of pairs of a file and an import it contains
  AffectedDepths,
  FileOrder,      \* the files in the order of std::map
  BARREL_FANIN,   \* a file with more importers is a hub
  MaxInputs       \* bound: how many files a client names

ASSUME AffectedAssumption ==
  /\ Files \subseteq Inputs /\ IsFiniteSet(Inputs)
  /\ \A graph \in ImportGraphs : \A i \in graph : i[1] \in Files
  /\ AffectedDepths \subseteq Nat \ {0}
  /\ FileOrder \in SetToSeqs(Files)
  /\ BARREL_FANIN \in Nat /\ MaxInputs \in Nat

VARIABLES
  imports,     \* the graph the command has loaded
  search,      \* "idle", "walking" or "answered"
  seeds,
  maxDepth,
  seen,        \* the command's visited set
  queue,       \* files with their distance
  affected     \* the answer

affectedVars == <<imports, search, seeds, maxDepth, seen, queue, affected>>

AffectedTypeOK ==
  /\ \A i \in imports : i[1] \in Files
  /\ search \in {"idle", "walking", "answered"}
  /\ seeds \subseteq Inputs
  /\ maxDepth \in AffectedDepths \cup {0}
  /\ seen \subseteq Inputs
  /\ queue \in Seq(Inputs \X (0..maxDepth))
  /\ affected \subseteq Files

AffectedInit ==
  /\ imports = {} /\ search = "idle" /\ seeds = {} /\ maxDepth = 0
  /\ seen = {} /\ queue = <<>> /\ affected = {}

-----------------------------------------------------------------------------

\* imported_by: the last segment must agree and, unless the file is given by its bare
\* name, the segment written before it must be the file's directory.
Imports(import, file) ==
  /\ import.base = file.base
  /\ file.dir = "" \/ import.dir = file.dir

imported_by(file) == {f \in Files : \E i \in imports : i[1] = f /\ Imports(i[2], file)}

\* An input names a file exactly or, without a directory, by its name.
Names(input, file) == file = input \/ (input.dir = "" /\ file.base = input.base)

\* The first file, of those with imports, that an input names; or the input as it is.
Seed(input, graph) ==
  LET hits == {k \in 1..Len(FileOrder) :
                 Names(input, FileOrder[k]) /\ \E i \in graph : i[1] = FileOrder[k]}
  IN IF hits = {} THEN input ELSE FileOrder[CHOOSE k \in hits : \A j \in hits : k <= j]

\* As std::map has them.
Before(f, g) ==
  \E j, k \in DOMAIN FileOrder : j < k /\ FileOrder[j] = f /\ FileOrder[k] = g

\* Queue entries.
AtDistance(order, d) == [k \in DOMAIN order |-> <<order[k], d>>]

\* The command loads the graph and queues the seeds.  An input with an index before it
\* is a seed as it is.
Affected(inputs, prefixed, d) ==
  /\ search = "idle" /\ inputs \cup prefixed # {}
  /\ Cardinality(inputs) + Cardinality(prefixed) <= MaxInputs
  /\ search' = "walking" /\ maxDepth' = d
  /\ imports' \in ImportGraphs
  /\ seeds' = {Seed(i, imports') : i \in inputs} \cup prefixed
  /\ seen' = seeds'
  /\ \E order \in SetToSeqs(seeds') : queue' = AtDistance(order, 0)
  /\ UNCHANGED affected

\* Mutant: a hub stops the search even when it was asked for.
ExpandsNoHub(file, d) == d < maxDepth /\ Cardinality(imported_by(file)) <= BARREL_FANIN

\* The search goes on from a file short of the depth, unless it is a hub it came to.
Expands(file, d) ==
  /\ d < maxDepth
  /\ d > 0 => Cardinality(imported_by(file)) <= BARREL_FANIN

Dequeue ==
  LET file == Head(queue)[1]
      d == Head(queue)[2]
      new == IF Expands(file, d) THEN imported_by(file) \ seen ELSE {}
  IN
  /\ search = "walking" /\ queue # <<>>
  /\ seen' = seen \cup new
  /\ affected' = affected \cup new
  /\ \E order \in SetToSeqs(new) :
       /\ \A j, k \in DOMAIN order : j < k => Before(order[j], order[k])
       /\ queue' = Tail(queue) \o AtDistance(order, d + 1)
  /\ UNCHANGED <<imports, search, seeds, maxDepth>>

AnswerAffected ==
  /\ search = "walking" /\ queue = <<>>
  /\ search' = "answered"
  /\ UNCHANGED <<imports, seeds, maxDepth, seen, queue, affected>>

AffectedNext ==
  \/ \E inputs, prefixed \in SUBSET Inputs, d \in AffectedDepths : Affected(inputs, prefixed, d)
  \/ Dequeue
  \/ AnswerAffected

AffectedSpec == AffectedInit /\ [][AffectedNext]_affectedVars

-----------------------------------------------------------------------------
(* Properties.                                                             *)

\* The files at most k imports away from a seed with no hub between.
Within[k \in Nat] ==
  IF k = 0 THEN seeds
  ELSE LET nearer == Within[k - 1]
           open == {f \in nearer : f \in seeds \/ Cardinality(imported_by(f)) <= BARREL_FANIN}
       IN nearer \cup UNION {imported_by(f) : f \in open}

\* The search is exact: the queue, the visited set and the early exits together report
\* the files that lie within the depth of a seed, and no seed.
AffectedExact == search = "answered" => affected = Within[maxDepth] \ seeds

\* The file an import means: "." is the directory of the one that wrote it.
Meaning(file, import) ==
  IF import.dir = "." THEN [import EXCEPT !.dir = file.dir] ELSE import

\* "Find all files that transitively depend on given files": at the least, a file that
\* imports a seed is reported.
DependentsFound ==
  search = "answered" =>
    \A i \in imports : Meaning(i[1], i[2]) \in seeds => i[1] \in affected \cup seeds
=============================================================================
