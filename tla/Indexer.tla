------------------------------ MODULE Indexer ------------------------------
(***************************************************************************)
(* run_index (core/indexer.cpp) over several files of several chunks, with *)
(* the scan it starts from (config/scanner.cpp, adapters/file_adapter.cpp) *)
(* and the code graphs it keeps beside the entries (SqliteBackend).        *)
(*                                                                         *)
(* A run lists the files, reads the ones whose hash is new, embeds their   *)
(* chunks, reads the same files again for their calls, imports, metrics,   *)
(* exports, types and links, and saves everything in one transaction.      *)
(* Files are edited, emptied and deleted and directories come and go at    *)
(* any moment.  Runs are jobs of one worker, so no two overlap, and the    *)
(* entries a run starts from are the rows of the table (Daemon's           *)
(* SavedIsPublished).  Notes and glossary are in Daemon.                   *)
(***************************************************************************)
EXTENDS Integers, FiniteSets

CONSTANTS
  Files,               \* files with a configured extension, not ignored
  Code, Markdown,      \* those with a tree-sitter grammar, those with links
  Roots, RootOf,       \* directories, and the one each file is under
  Links, Web,          \* targets of a file's links; Web stands for "://"
  Chunks,              \* chunks of a text
  MaxVersion,          \* bound: changes to files
  MaxFaults            \* bound: crashes, failed embeddings, directories that go

\* A version of a file is its mtime and size, which no two versions share.
\* text is Nothing for a text that yields no chunk, the version otherwise.
Nothing == 0
NoFile == [hash |-> Nothing, text |-> Nothing]
File == [hash : Nat, text : Nat]

\* What a code file contributes.  save_all replaces every kind; a run starts
\* from the stored rows of the carried kinds, and of the others from none.
CodeKinds == {"call", "import", "metric", "export", "type"}
Carried == {"call", "import", "metric", "docref"}
Kinds == CodeKinds \cup {"docref"}

Version == Nat \ {Nothing}
Entry == [file : Files, chunk : Chunks, hash : Version, text : Version]
Row == [kind : Kinds, file : Files, text : Version, dst : Files \cup {Web}]

ASSUME IndexerAssumption ==
  /\ Code \subseteq Files /\ Markdown \subseteq Files /\ Code \cap Markdown = {}
  /\ RootOf \in [Files -> Roots] /\ Web \notin Files
  /\ Links \in [Markdown -> SUBSET (Files \cup {Web})]
  /\ MaxVersion \in Nat /\ MaxFaults \in Nat

VARIABLES
  paths,               \* the configured directories
  disk, mounted,       \* the files, and the directories that exist
  entries, graph,      \* tables of <index>.db: entries, and edges, metrics, exports
  pc,                  \* the next step of the run
  force, listed,       \* its argument, and the hash of each file listed
  todo,                \* files it has still to read, or to read again
  pending,             \* the texts read, Nothing for a file not among the changed
  fresh, rows,         \* entries embedded and rows extracted
  disturbed,           \* a file or directory changed since the run began
  version, faults

tables == <<entries, graph>>
outside == <<paths, disk, mounted, disturbed, version>>
locals == <<force, listed, todo, pending, fresh, rows>>
vars == <<paths, disk, mounted, entries, graph, pc, force, listed, todo,
          pending, fresh, rows, disturbed, version, faults>>

Nowhere == [f \in Files |-> Nothing]

TypeOK ==
  /\ paths \in SUBSET Roots /\ mounted \in SUBSET Roots
  /\ disk \in [Files -> File]
  /\ entries \in SUBSET Entry /\ graph \in SUBSET Row
  /\ pc \in {"idle", "scan", "read", "extract", "saved"}
  /\ force \in BOOLEAN /\ disturbed \in BOOLEAN
  /\ listed \in [Files -> Nat] /\ pending \in [Files -> Nat]
  /\ todo \in SUBSET Files
  /\ fresh \in SUBSET Entry /\ rows \in SUBSET Row
  /\ version \in Nat /\ faults \in Nat

Init ==
  /\ paths \in SUBSET Roots \ {{}} /\ mounted = Roots
  /\ disk \in [Files -> {NoFile, [hash |-> 1, text |-> 1]}]
  /\ entries = {} /\ graph = {}
  /\ pc = "idle" /\ force = FALSE /\ disturbed = FALSE
  /\ listed = Nowhere /\ pending = Nowhere /\ todo = {}
  /\ fresh = {} /\ rows = {}
  /\ version = 1 /\ faults = 0

-----------------------------------------------------------------------------
(* The file system.                                                        *)

Reachable(f) == RootOf[f] \in mounted
\* read_file and ifstream: what is not there reads as an empty text.
Text(f) == IF Reachable(f) THEN disk[f].text ELSE Nothing

Fault == faults < MaxFaults /\ faults' = faults + 1

Disturb == disturbed' = (pc # "idle")
Unseen == UNCHANGED <<tables, pc, locals, paths>>

Change(f, empty) ==
  /\ Reachable(f) /\ version < MaxVersion
  /\ version' = version + 1
  /\ disk' = [disk EXCEPT ![f] =
       [hash |-> version + 1, text |-> IF empty THEN Nothing ELSE version + 1]]
  /\ Disturb /\ Unseen /\ UNCHANGED <<mounted, faults>>

Write(f) == Change(f, FALSE)
Truncate(f) == disk[f] # NoFile /\ Change(f, TRUE)

Delete(f) ==
  /\ Reachable(f) /\ disk[f] # NoFile
  /\ disk' = [disk EXCEPT ![f] = NoFile]
  /\ Disturb /\ Unseen /\ UNCHANGED <<mounted, version, faults>>

Unmount(r) ==
  /\ r \in mounted /\ Fault
  /\ mounted' = mounted \ {r}
  /\ Disturb /\ Unseen /\ UNCHANGED <<disk, version>>

Mount(r) ==
  /\ r \notin mounted
  /\ mounted' = mounted \cup {r}
  /\ Disturb /\ Unseen /\ UNCHANGED <<disk, version, faults>>

-----------------------------------------------------------------------------
(* run_index.                                                              *)

At(step) == pc = step
Goto(step) == pc' = step /\ UNCHANGED outside

StartRun ==
  /\ At("idle")
  /\ force' \in BOOLEAN
  /\ Goto("scan")
  /\ UNCHANGED <<tables, listed, todo, pending, fresh, rows, faults>>

\* scan_md_files of every configured directory that exists, with stat_hash.
Listing(f) ==
  IF RootOf[f] \in paths /\ Reachable(f) THEN disk[f].hash ELSE Nothing
\* The file has entries of this hash already.
Known(f, hash) == \E e \in entries : e.file = f /\ e.hash = hash

\* all_paths takes every file listed; those to read are the ones not known.
Select(new) ==
  {f \in Files : new[f] # Nothing /\ (force \/ ~Known(f, new[f]))}

Scan ==
  /\ At("scan")
  /\ listed' = [f \in Files |-> Listing(f)]
  /\ todo' = Select(listed')
  /\ Goto("read")
  /\ UNCHANGED <<tables, force, pending, fresh, rows, faults>>

\* The text of now beside the hash of the listing.
ReadFile(f) ==
  /\ At("read") /\ f \in todo
  /\ pending' = [pending EXCEPT ![f] = Text(f)]
  /\ todo' = todo \ {f}
  /\ Goto("read")
  /\ UNCHANGED <<tables, force, listed, fresh, rows, faults>>

\* changed: the files that yielded a chunk.  valid: the files listed.
changed == {f \in Files : pending[f] # Nothing}
valid == {f \in Files : listed[f] # Nothing}

\* A chunk whose embedding comes back empty is left out.
Embed(lost) ==
  /\ At("read") /\ todo = {}
  /\ IF lost = {} THEN UNCHANGED faults ELSE Fault
  /\ fresh' = {[file |-> p[1], chunk |-> p[2], hash |-> listed[p[1]], text |-> pending[p[1]]] :
                 p \in (changed \X Chunks) \ lost}
  /\ todo' = changed
  /\ Goto("extract")
  /\ UNCHANGED <<tables, force, listed, pending, rows>>

\* resolve_doc_ref keeps what is "://" and what is listed.  What it looks up
\* never starts with "/", so it is not found when several directories are
\* configured and files are listed under their absolute names.
Resolved(f) ==
  (Links[f] \cap {Web}) \cup (IF Cardinality(paths) > 1 THEN {} ELSE Links[f] \cap valid)

Extracted(f, text) ==
  IF text = Nothing THEN {}
  ELSE IF f \in Code
       THEN {[kind |-> k, file |-> f, text |-> text, dst |-> f] : k \in CodeKinds}
  ELSE IF f \in Markdown
       THEN {[kind |-> "docref", file |-> f, text |-> text, dst |-> d] : d \in Resolved(f)}
  ELSE {}

\* The file is opened a second time; one that cannot be is passed over.
Extract(f) ==
  /\ At("extract") /\ f \in todo
  /\ rows' = rows \cup Extracted(f, Text(f))
  /\ todo' = todo \ {f}
  /\ Goto("extract")
  /\ UNCHANGED <<tables, force, listed, pending, fresh, faults>>

\* Entries of files listed and not changed.
KeptEntries == {e \in entries : e.file \notin changed /\ e.file \in valid}

\* Mutant: rows are erased for files that are gone, not for those that changed.
KeptRowsOfChanged ==
  IF force THEN {} ELSE {g \in graph : g.kind \in Carried /\ g.file \in valid}
\* Mutant: a forced run loads the graphs too.
KeptRowsForced == {g \in graph : g.kind \in Carried /\ g.file \notin changed /\ g.file \in valid}
\* Rows of files listed and not changed; a forced run starts from none.
KeptRows ==
  IF force THEN {}
  ELSE {g \in graph : g.kind \in Carried /\ g.file \notin changed /\ g.file \in valid}

\* Mutant: entries and graphs are saved by two transactions.
SaveEntriesOnly ==
  /\ At("extract") /\ todo = {}
  /\ entries' = KeptEntries \cup fresh
  /\ graph' \in {graph, KeptRows \cup rows}
  /\ Goto("saved")
  /\ UNCHANGED <<locals, faults>>

SaveAll ==
  /\ At("extract") /\ todo = {}
  /\ entries' = KeptEntries \cup fresh
  /\ graph' = KeptRows \cup rows
  /\ Goto("saved")
  /\ UNCHANGED <<locals, faults>>

Over ==
  /\ pc' = "idle" /\ force' = FALSE /\ disturbed' = FALSE
  /\ listed' = Nowhere /\ pending' = Nowhere /\ todo' = {}
  /\ fresh' = {} /\ rows' = {}
  /\ UNCHANGED <<paths, disk, mounted, version>>

Return == At("saved") /\ Over /\ UNCHANGED <<tables, faults>>

\* An exception anywhere before the commit, or the end of the process.
Dies == ~At("idle") /\ Fault /\ Over /\ UNCHANGED tables

Step ==
  \/ StartRun \/ Scan \/ SaveAll \/ Return \/ Dies
  \/ \E f \in Files : ReadFile(f) \/ Extract(f)
  \/ \E lost \in SUBSET (changed \X Chunks) : Embed(lost)
Environment ==
  \/ \E f \in Files : Write(f) \/ Truncate(f) \/ Delete(f)
  \/ \E r \in Roots : Unmount(r) \/ Mount(r)
Next == Step \/ Environment

Spec == Init /\ [][Next]_vars

-----------------------------------------------------------------------------
(* Properties.                                                             *)

\* The entries of one file all come from one listing and one reading, and the
\* code graph's rows of a file are never from an older text than its entries:
\* what calls or affected say of a file is not behind what a search says.
EntriesAndGraphAgree ==
  /\ \A d, e \in entries : d.file = e.file => d.hash = e.hash /\ d.text = e.text
  /\ \A e \in entries, g \in graph : e.file = g.file => e.text <= g.text

Quiet == At("saved") /\ ~disturbed
\* Present and not emptied: of an emptied file the old entries stay.
Full == {f \in Files : Listing(f) # Nothing /\ disk[f].text # Nothing}
EntryOf(f, c) == [file |-> f, chunk |-> c, hash |-> disk[f].hash, text |-> disk[f].text]

\* A run nothing disturbs ends with the directory as it is, whatever the runs
\* before it met.  Of a file present and not emptied there are entries and
\* rows of its present text only; the ones it was read for now are there, and
\* all of them are as long as nothing ever failed.  Of a file not listed there
\* is nothing.  Exports and types are there for files read now only, and links
\* resolve against the listing of the run that read them.
QuietRunConverges ==
  Quiet =>
    /\ \A e \in entries : e.file \in Full => e = EntryOf(e.file, e.chunk)
    /\ \A g \in graph : g.file \in Full => g.text = disk[g.file].text
    /\ \A e \in entries : Listing(e.file) # Nothing
    /\ \A g \in graph : Listing(g.file) # Nothing
    /\ \A f \in Full \cap changed : Extracted(f, disk[f].text) \subseteq graph
    /\ \A f \in Full : faults = 0 =>
         /\ \A c \in Chunks : EntryOf(f, c) \in entries
         /\ \A g \in Extracted(f, disk[f].text) : g.kind \in Carried \ {"docref"} => g \in graph

\* A forced run that nothing disturbs repairs what earlier failures left out:
\* every file was embedded again, and the graph is exactly what the texts give.
ForcedRunIsExact ==
  Quiet /\ force =>
    /\ {e \in entries : e.file \in Full} = fresh
    /\ graph = UNION {Extracted(f, disk[f].text) : f \in Full}
=============================================================================
