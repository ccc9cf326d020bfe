--------------------------- MODULE Indexer_proofs ---------------------------
(***************************************************************************)
(* For any files, directories, links and chunks: the entries and the code  *)
(* graph of a file never disagree, and a run nothing disturbs repairs them *)
(* whatever came before.                                                   *)
(***************************************************************************)
EXTENDS Indexer, TLAPS

\* Versions only grow: one seen of a file is behind what the file is now.
Seen(f, v) == v <= version /\ (disk[f].hash # Nothing => v <= disk[f].hash)
\* A text seen of a file is its present one if they have the same version.
SeenText(f, t) == Seen(f, t) /\ (t = disk[f].hash => t = disk[f].text)

DiskInv ==
  /\ \A f \in Files : /\ disk[f].hash <= version
                      /\ disk[f].text \in {Nothing, disk[f].hash}
  /\ faults = 0 => mounted = Roots

Complete(e) == \A c \in Chunks : [e EXCEPT !.chunk = c] \in entries
CodeRow(k, f, t) == [kind |-> k, file |-> f, text |-> t, dst |-> f]
Mapped(f, t, where) == \A k \in Carried \ {"docref"} : CodeRow(k, f, t) \in where

TablesInv ==
  /\ \A e \in entries : /\ Seen(e.file, e.hash) /\ SeenText(e.file, e.text)
                        /\ e.hash <= e.text
  /\ \A g \in graph : SeenText(g.file, g.text)
  /\ EntriesAndGraphAgree
  /\ faults = 0 => \A e \in entries :
       /\ Complete(e)
       /\ e.file \in Code /\ e.hash = disk[e.file].hash => Mapped(e.file, e.text, graph)

\* A selected file that has been read.
WasRead(f) == f \in Select(listed) /\ (pc = "extract" \/ f \notin todo)

ReadInv ==
  pc \in {"read", "extract"} =>
    \A f \in Files :
      /\ Seen(f, listed[f]) /\ SeenText(f, pending[f])
      /\ pending[f] # Nothing => /\ listed[f] # Nothing /\ listed[f] <= pending[f]
                                 /\ WasRead(f)
      /\ ~disturbed => listed[f] = Listing(f)
      /\ ~disturbed /\ WasRead(f) => pending[f] = Text(f)
      /\ WasRead(f) /\ pending[f] = Nothing /\ faults = 0 =>
           \A e \in entries : e.file = f => e.hash # disk[f].hash

StartInv == pc \in {"idle", "scan"} => pending = Nowhere
BeforeInv == pc \in {"idle", "scan", "read"} => fresh = {} /\ rows = {}
TodoInv == /\ pc = "read" => todo \subseteq Select(listed)
           /\ pc = "extract" => todo \subseteq changed

FreshInv ==
  pc = "extract" =>
    /\ \A e \in fresh : /\ e.file \in changed
                        /\ e.hash = listed[e.file] /\ e.text = pending[e.file]
    /\ faults = 0 => \A f \in changed, c \in Chunks :
         [file |-> f, chunk |-> c, hash |-> listed[f], text |-> pending[f]] \in fresh

RowsInv ==
  pc = "extract" =>
    /\ \A r \in rows : r.file \in changed /\ pending[r.file] <= r.text /\ SeenText(r.file, r.text)
    /\ ~disturbed => \A r : r \in rows <=>
         \E f \in changed \ todo : r \in Extracted(f, disk[f].text)
    /\ faults = 0 => \A f \in (changed \ todo) \cap Code :
         disk[f].hash = listed[f] => Mapped(f, pending[f], rows)

Inv == /\ DiskInv /\ TablesInv /\ ReadInv /\ StartInv /\ BeforeInv /\ TodoInv
       /\ FreshInv /\ RowsInv

-----------------------------------------------------------------------------
(* What changes outside.                                                   *)

\* A file stays as it is, goes, or becomes a version nobody has seen.
DiskMoves ==
  /\ version' \in Nat /\ version <= version'
  /\ disk' \in [Files -> File]
  /\ \A f \in Files :
       \/ disk'[f] = disk[f]
       \/ disk'[f] = NoFile
       \/ /\ disk'[f].hash = version' /\ version < version'
          /\ disk'[f].text \in {Nothing, version'}
  /\ faults' = 0 => faults = 0 /\ (mounted = Roots => mounted' = Roots)

LEMMA EnvironmentMoves ==
  ASSUME TypeOK, Environment
  PROVE  DiskMoves /\ Disturb /\ Unseen
<1>1. CASE \E f \in Files : Write(f) \/ Truncate(f)
  <2>1. PICK f \in Files, empty \in BOOLEAN : Change(f, empty)
    BY <1>1 DEF Write, Truncate
  <2>2. version + 1 \in Nat /\ version' = version + 1
    BY <2>1 DEF Change, TypeOK
  <2>3. /\ disk' = [disk EXCEPT ![f] =
             [hash |-> version', text |-> IF empty THEN Nothing ELSE version']]
        /\ [hash |-> version', text |-> IF empty THEN Nothing ELSE version'] \in File
    BY <2>1, <2>2 DEF Change, File, Nothing
  <2> QED BY <2>1, <2>2, <2>3 DEF Change, DiskMoves, TypeOK
<1>2. CASE \E f \in Files : Delete(f)
  <2>1. NoFile \in File
    BY DEF NoFile, File, Nothing
  <2> QED BY <1>2, <2>1 DEF Delete, DiskMoves, TypeOK
<1>3. CASE \E r \in Roots : Unmount(r) \/ Mount(r)
  BY <1>3 DEF Unmount, Mount, Fault, DiskMoves, TypeOK
<1> QED BY <1>1, <1>2, <1>3 DEF Environment

\* What was seen of a file stays behind it.
LEMMA SeenStays ==
  ASSUME TypeOK, DiskMoves, NEW f \in Files, NEW v \in Nat
  PROVE  /\ Seen(f, v) => Seen(f, v)'
         /\ SeenText(f, v) => SeenText(f, v)'
         /\ v # Nothing /\ v <= version /\ v # disk[f].hash => v # disk'[f].hash
<1>1. /\ disk[f] \in File /\ disk'[f] \in File /\ version \in Nat /\ version' \in Nat
      /\ version <= version'
  BY DEF TypeOK, DiskMoves
<1>2. \/ disk'[f] = disk[f]
      \/ disk'[f] = NoFile
      \/ /\ disk'[f].hash = version' /\ version < version'
         /\ disk'[f].text \in {Nothing, version'}
  BY DEF DiskMoves
<1>3. disk[f].hash \in Nat /\ disk'[f].hash \in Nat
  BY <1>1 DEF File
<1> QED BY <1>1, <1>2, <1>3 DEF Seen, SeenText, NoFile, Nothing

LEMMA EnvironmentType ==
  ASSUME TypeOK, Environment
  PROVE  TypeOK'
<1>1. DiskMoves /\ Disturb /\ Unseen
  BY EnvironmentMoves
<1>2. mounted' \in SUBSET Roots /\ faults' \in Nat
  BY DEF Environment, Write, Truncate, Change, Delete, Unmount, Mount, Fault, TypeOK
<1> QED BY <1>1, <1>2 DEF TypeOK, DiskMoves, Disturb, Unseen, tables, locals

LEMMA EnvironmentInv ==
  ASSUME TypeOK, Inv, Environment
  PROVE  Inv'
<1>1. DiskMoves /\ Disturb /\ Unseen
  BY EnvironmentMoves
<1>2. /\ \A f \in Files : Seen(f, listed[f]) => Seen(f, listed[f])'
      /\ \A f \in Files : SeenText(f, pending[f]) => SeenText(f, pending[f])'
      /\ \A e \in entries : Seen(e.file, e.hash) => Seen(e.file, e.hash)'
      /\ \A e \in entries : SeenText(e.file, e.text) => SeenText(e.file, e.text)'
      /\ \A g \in graph : SeenText(g.file, g.text) => SeenText(g.file, g.text)'
      /\ \A r \in rows : SeenText(r.file, r.text) => SeenText(r.file, r.text)'
  BY <1>1, SeenStays DEF TypeOK, Entry, Row, Version, Unseen, locals, tables
<1>3. \A e \in entries : Seen(e.file, e.hash) /\ e.hash # disk[e.file].hash
                           => e.hash # disk'[e.file].hash
  BY <1>1, SeenStays DEF TypeOK, Entry, Version, Seen
<1>4. \A f \in Files : listed[f] # Nothing /\ Seen(f, listed[f]) /\ listed[f] # disk[f].hash
                         => listed[f] # disk'[f].hash
  BY <1>1, SeenStays DEF TypeOK, Seen
<1>5. /\ entries' = entries /\ graph' = graph /\ pc' = pc /\ force' = force
      /\ listed' = listed /\ todo' = todo /\ pending' = pending
      /\ fresh' = fresh /\ rows' = rows
      /\ changed' = changed /\ Select(listed)' = Select(listed)
      /\ \A f : WasRead(f)' <=> WasRead(f)
  BY <1>1 DEF Unseen, tables, locals, changed, Select, Known, WasRead
<1>6. disturbed' <=> pc # "idle"
  BY <1>1 DEF Disturb
<1>7. faults' = 0 => faults = 0
  BY <1>1 DEF DiskMoves
<1>8. DiskInv'
  BY <1>1 DEF DiskMoves, Inv, DiskInv, TypeOK, File, NoFile, Nothing
<1>9. TablesInv'
  <2>1. EntriesAndGraphAgree'
    BY <1>5 DEF Inv, TablesInv, EntriesAndGraphAgree
  <2>2. faults' = 0 => \A e \in entries' :
          /\ Complete(e)'
          /\ e.file \in Code /\ e.hash = disk'[e.file].hash => Mapped(e.file, e.text, graph')
    BY <1>3, <1>5, <1>7 DEF Inv, TablesInv, Complete
  <2> QED BY <1>2, <1>5, <2>1, <2>2 DEF Inv, TablesInv, Mapped
<1>10. ReadInv'
  BY <1>2, <1>3, <1>5, <1>6, <1>7 DEF Inv, TablesInv, ReadInv
<1>11. StartInv' /\ BeforeInv' /\ TodoInv'
  BY <1>5 DEF Inv, StartInv, BeforeInv, TodoInv
<1>12. FreshInv'
  BY <1>5, <1>7 DEF Inv, FreshInv
<1>13. RowsInv'
  <2> SUFFICES ASSUME pc = "extract" PROVE RowsInv'
    BY <1>5 DEF RowsInv
  <2>1. \A f \in changed : listed[f] # Nothing /\ Seen(f, listed[f])
    BY DEF Inv, ReadInv, changed
  <2>2. faults' = 0 => \A f \in (changed \ todo) \cap Code :
          disk'[f].hash = listed[f] => Mapped(f, pending[f], rows)
    BY <1>4, <1>7, <2>1 DEF Inv, RowsInv, changed
  <2> QED BY <1>2, <1>5, <1>6, <2>2 DEF Inv, RowsInv, Mapped
<1> QED BY <1>8, <1>9, <1>10, <1>11, <1>12, <1>13 DEF Inv

-----------------------------------------------------------------------------
(* The start of a run.                                                     *)

LEMMA InitInv == Init => TypeOK /\ Inv
<1> SUFFICES ASSUME Init PROVE TypeOK /\ Inv
  OBVIOUS
<1>1. NoFile \in File /\ [hash |-> 1, text |-> 1] \in File
  BY DEF NoFile, File, Nothing
<1>2. TypeOK
  BY <1>1 DEF Init, TypeOK, Nowhere, Nothing
<1>3. \A f \in Files : disk[f] \in {NoFile, [hash |-> 1, text |-> 1]}
  BY DEF Init
<1>4. DiskInv
  BY <1>3 DEF Init, DiskInv, NoFile, Nothing
<1>5. TablesInv
  BY DEF Init, TablesInv, EntriesAndGraphAgree
<1> QED BY <1>2, <1>4, <1>5 DEF Init, Inv, ReadInv, StartInv, BeforeInv, TodoInv, FreshInv, RowsInv

\* Steps that leave the tables and the file system alone.
LEMMA TablesStay ==
  ASSUME Inv, UNCHANGED <<disk, mounted, version, tables>>, faults' = 0 => faults = 0
  PROVE  DiskInv' /\ TablesInv'
<1>1. DiskInv'
  BY DEF Inv, DiskInv
<1>2. EntriesAndGraphAgree' /\ (\A e : Complete(e)' <=> Complete(e))
  BY DEF Inv, TablesInv, EntriesAndGraphAgree, tables, Complete
<1>3. TablesInv'
  BY <1>2 DEF Inv, TablesInv, tables, Seen, SeenText, Mapped
<1> QED BY <1>1, <1>3

LEMMA StartInvariant ==
  ASSUME TypeOK, Inv, StartRun
  PROVE  TypeOK' /\ Inv'
<1>1. TypeOK'
  BY DEF StartRun, Goto, outside, tables, TypeOK
<1>2. DiskInv' /\ TablesInv'
  BY TablesStay DEF StartRun, Goto, outside
<1> QED BY <1>1, <1>2 DEF StartRun, At, Goto, Inv, ReadInv, StartInv, BeforeInv, TodoInv, FreshInv, RowsInv

LEMMA OverInvariant ==
  ASSUME TypeOK, Inv, Return \/ Dies
  PROVE  TypeOK' /\ Inv'
<1>1. Over /\ UNCHANGED tables /\ faults' \in Nat /\ (faults' = 0 => faults = 0)
  BY DEF Return, Dies, Fault, TypeOK
<1>2. TypeOK'
  BY <1>1 DEF Over, tables, TypeOK, Nowhere, Nothing
<1>3. DiskInv' /\ TablesInv'
  BY <1>1, TablesStay DEF Over
<1> QED BY <1>1, <1>2, <1>3 DEF Over, Inv, ReadInv, StartInv, BeforeInv, TodoInv, FreshInv, RowsInv

LEMMA ListingType ==
  ASSUME TypeOK, NEW f \in Files
  PROVE  Listing(f) \in Nat /\ Text(f) \in Nat
BY DEF TypeOK, File, Listing, Text, Nothing

LEMMA ScanInvariant ==
  ASSUME TypeOK, Inv, Scan
  PROVE  TypeOK' /\ Inv'
<1>1. /\ pc = "scan" /\ pc' = "read"
      /\ listed' = [f \in Files |-> Listing(f)] /\ todo' = Select(listed')
      /\ UNCHANGED <<tables, force, pending, fresh, rows, faults, outside>>
  BY DEF Scan, At, Goto
<1>2. TypeOK'
  BY <1>1, ListingType DEF TypeOK, tables, outside, Select
<1>3. DiskInv' /\ TablesInv'
  BY <1>1, TablesStay DEF outside
<1>4. Select(listed)' = todo'
  BY <1>1 DEF Select, Known, tables
<1>5. ReadInv'
  <2> SUFFICES ASSUME NEW f \in Files
               PROVE  /\ Seen(f, Listing(f))' /\ SeenText(f, Nothing)'
                      /\ Listing(f)' = Listing(f)
    BY <1>1, <1>4 DEF Inv, StartInv, Nowhere, ReadInv, WasRead, Nothing
  <2>1. disk[f] \in File /\ version \in Nat
    BY DEF TypeOK
  <2> QED BY <1>1, <2>1 DEF Inv, DiskInv, Seen, SeenText, outside, Listing, Reachable, File, Nothing
<1>6. TodoInv' /\ BeforeInv' /\ StartInv'
  BY <1>1, <1>4 DEF Inv, TodoInv, BeforeInv, StartInv
<1> QED BY <1>1, <1>2, <1>3, <1>5, <1>6 DEF Inv, FreshInv, RowsInv

-----------------------------------------------------------------------------
(* Reading, embedding, extracting.                                         *)

LEMMA TextSeen ==
  ASSUME TypeOK, Inv, NEW f \in Files
  PROVE  /\ SeenText(f, Text(f))
         /\ Text(f) # Nothing => Text(f) = disk[f].text /\ Text(f) = disk[f].hash /\ Reachable(f)
         /\ faults = 0 => Text(f) = disk[f].text
<1>1. disk[f] \in File /\ version \in Nat /\ RootOf[f] \in Roots
  BY IndexerAssumption DEF TypeOK
<1>2. disk[f].hash <= version /\ disk[f].text \in {Nothing, disk[f].hash}
  BY DEF Inv, DiskInv
<1>3. faults = 0 => Reachable(f)
  BY <1>1 DEF Inv, DiskInv, Reachable
<1> QED BY <1>1, <1>2, <1>3 DEF Text, SeenText, Seen, File, Nothing

\* A file that reads as empty while nothing ever failed is empty, and no entry
\* has its version.
LEMMA EmptyIsNew ==
  ASSUME TypeOK, Inv, faults = 0, NEW f \in Files, Text(f) = Nothing,
         NEW e \in entries, e.file = f
  PROVE  e.hash # disk[f].hash
<1>1. disk[f].text = Nothing /\ disk[f] \in File
  BY TextSeen DEF TypeOK
<1>2. SeenText(f, e.text) /\ e.hash <= e.text
  BY DEF Inv, TablesInv
<1>3. e.hash \in Nat \ {Nothing} /\ e.text \in Nat \ {Nothing}
  BY DEF TypeOK, Entry, Version
<1> QED BY <1>1, <1>2, <1>3 DEF SeenText, Seen, File, Nothing

LEMMA ReadFileInvariant ==
  ASSUME TypeOK, Inv, NEW f \in Files, ReadFile(f)
  PROVE  TypeOK' /\ Inv'
<1>1. /\ pc = "read" /\ pc' = "read" /\ f \in todo
      /\ pending' = [pending EXCEPT ![f] = Text(f)] /\ todo' = todo \ {f}
      /\ UNCHANGED <<tables, force, listed, fresh, rows, faults, outside>>
  BY DEF ReadFile, At, Goto
<1>2. TypeOK'
  BY <1>1, ListingType DEF TypeOK, tables, outside
<1>3. DiskInv' /\ TablesInv'
  BY <1>1, TablesStay DEF outside
<1>4. Select(listed)' = Select(listed) /\ f \in Select(listed)
  BY <1>1 DEF Select, Known, tables, Inv, TodoInv
<1>5. ReadInv'
  <2> SUFFICES ASSUME NEW g \in Files
               PROVE  /\ Seen(g, listed[g]) /\ SeenText(g, pending'[g])
                      /\ pending'[g] # Nothing => /\ listed[g] # Nothing
                                                  /\ listed[g] <= pending'[g]
                                                  /\ WasRead(g)'
                      /\ ~disturbed => listed[g] = Listing(g)
                      /\ ~disturbed /\ WasRead(g)' => pending'[g] = Text(g)
                      /\ WasRead(g)' /\ pending'[g] = Nothing /\ faults = 0 =>
                           \A e \in entries : e.file = g => e.hash # disk[g].hash
    BY <1>1 DEF ReadInv, Seen, SeenText, Listing, Text, Reachable, outside, tables
  <2>1. CASE g # f
    <3>1. pending'[g] = pending[g] /\ (WasRead(g)' <=> WasRead(g))
      BY <1>1, <1>4, <2>1 DEF WasRead, TypeOK
    <3> QED BY <1>1, <3>1 DEF Inv, ReadInv
  <2>2. CASE g = f
    <3>1. pending'[f] = Text(f) /\ WasRead(f)'
      BY <1>1, <1>4 DEF WasRead, TypeOK
    <3>2. Seen(f, listed[f]) /\ listed[f] # Nothing /\ (~disturbed => listed[f] = Listing(f))
      BY <1>1, <1>4 DEF Inv, ReadInv, Select
    <3>3. /\ SeenText(f, Text(f))
          /\ Text(f) # Nothing => Text(f) = disk[f].hash
      BY TextSeen
    <3>4. Text(f) # Nothing => listed[f] <= Text(f)
      BY <3>2, <3>3 DEF Seen
    <3>5. Text(f) = Nothing /\ faults = 0 =>
            \A e \in entries : e.file = f => e.hash # disk[f].hash
      BY EmptyIsNew
    <3> QED BY <2>2, <3>1, <3>2, <3>3, <3>4, <3>5
  <2> QED BY <2>1, <2>2
<1>6. TodoInv' /\ BeforeInv' /\ StartInv'
  BY <1>1, <1>4 DEF Inv, TodoInv, BeforeInv, StartInv
<1> QED BY <1>1, <1>2, <1>3, <1>5, <1>6 DEF Inv, FreshInv, RowsInv

LEMMA EmbedInvariant ==
  ASSUME TypeOK, Inv, NEW lost \in SUBSET (changed \X Chunks), Embed(lost)
  PROVE  TypeOK' /\ Inv'
<1> DEFINE new(p) == [file |-> p[1], chunk |-> p[2], hash |-> listed[p[1]], text |-> pending[p[1]]]
<1>1. /\ pc = "read" /\ pc' = "extract" /\ todo = {} /\ todo' = changed
      /\ fresh' = {new(p) : p \in (changed \X Chunks) \ lost}
      /\ UNCHANGED <<tables, force, listed, pending, rows, outside>>
  BY DEF Embed, At, Goto
<1>2. faults' \in Nat /\ (faults' = 0 => faults = 0 /\ lost = {})
  BY DEF Embed, Fault, TypeOK
<1>3. \A f \in changed : /\ f \in Files /\ listed[f] \in Version /\ pending[f] \in Version
                         /\ WasRead(f)
  BY <1>1 DEF Inv, ReadInv, changed, TypeOK, Version
<1>4. changed' = changed /\ Select(listed)' = Select(listed)
      /\ \A f : WasRead(f)' <=> WasRead(f)
  BY <1>1 DEF changed, Select, Known, tables, WasRead
<1>5. TypeOK'
  <2>1. fresh' \subseteq Entry
    BY <1>1, <1>3 DEF Entry
  <2>2. todo' \subseteq Files
    BY <1>1 DEF changed
  <2> QED BY <1>1, <1>2, <2>1, <2>2 DEF TypeOK, tables, outside
<1>6. DiskInv' /\ TablesInv'
  BY <1>1, <1>2, TablesStay DEF outside
<1>7. ReadInv'
  BY <1>1, <1>2, <1>4 DEF Inv, ReadInv, Seen, SeenText, Listing, Text, Reachable, outside, tables
<1>8. FreshInv'
  <2>1. \A e \in fresh' : e.file \in changed /\ e.hash = listed[e.file] /\ e.text = pending[e.file]
    BY <1>1
  <2>2. ASSUME faults' = 0, NEW f \in changed, NEW c \in Chunks
        PROVE  [file |-> f, chunk |-> c, hash |-> listed[f], text |-> pending[f]] \in fresh'
    <3>1. <<f, c>> \in (changed \X Chunks) \ lost
      BY <1>2, <2>2
    <3>2. new(<<f, c>>) \in fresh'
      BY <1>1, <3>1
    <3> QED BY <3>2
  <2> QED BY <1>1, <1>4, <2>1, <2>2 DEF FreshInv
<1>9. RowsInv'
  BY <1>1, <1>4 DEF Inv, BeforeInv, RowsInv
<1>10. TodoInv' /\ StartInv' /\ BeforeInv'
  BY <1>1, <1>4 DEF TodoInv, StartInv, BeforeInv
<1> QED BY <1>5, <1>6, <1>7, <1>8, <1>9, <1>10 DEF Inv

\* What is extracted from a file's text.
LEMMA ExtractedRows ==
  ASSUME NEW f \in Files, NEW t \in Nat
  PROVE  /\ Extracted(f, t) \subseteq Row
         /\ \A r \in Extracted(f, t) : r.file = f /\ r.text = t /\ t # Nothing
         /\ f \in Code /\ t # Nothing => \A k \in CodeKinds : CodeRow(k, f, t) \in Extracted(f, t)
         /\ \A r \in Extracted(f, t) : r.kind # "docref" => f \in Code /\ r = CodeRow(r.kind, f, t)
<1>1. CASE t = Nothing
  BY <1>1 DEF Extracted
<1>2. CASE t # Nothing /\ f \in Code
  <2>1. Extracted(f, t) = {CodeRow(k, f, t) : k \in CodeKinds}
    BY <1>2 DEF Extracted, CodeRow
  <2>2. \A k \in CodeKinds : /\ CodeRow(k, f, t) \in Row
                            /\ CodeRow(k, f, t).file = f /\ CodeRow(k, f, t).text = t
                            /\ CodeRow(k, f, t).kind = k
    BY <1>2 DEF CodeRow, Row, Kinds, Version
  <2> QED BY <1>2, <2>1, <2>2
<1>3. CASE t # Nothing /\ f \in Markdown /\ f \notin Code
  <2>1. Links[f] \in SUBSET (Files \cup {Web})
    BY <1>3, IndexerAssumption
  <2>2. Resolved(f) \subseteq Files \cup {Web}
    BY <2>1 DEF Resolved
  <2>3. Extracted(f, t) =
          {[kind |-> "docref", file |-> f, text |-> t, dst |-> d] : d \in Resolved(f)}
    BY <1>3 DEF Extracted
  <2> QED BY <1>3, <2>2, <2>3 DEF Row, Kinds, Version
<1>4. CASE f \notin Markdown /\ f \notin Code
  BY <1>4 DEF Extracted
<1> QED BY <1>1, <1>2, <1>3, <1>4

LEMMA ExtractInvariant ==
  ASSUME TypeOK, Inv, NEW f \in Files, Extract(f)
  PROVE  TypeOK' /\ Inv'
<1>1. /\ pc = "extract" /\ pc' = "extract" /\ f \in todo /\ f \in changed
      /\ rows' = rows \cup Extracted(f, Text(f)) /\ todo' = todo \ {f}
      /\ UNCHANGED <<tables, force, listed, pending, fresh, faults, outside>>
  BY DEF Extract, At, Goto, Inv, TodoInv
<1>2. Text(f) \in Nat /\ disk[f] \in File /\ pending[f] \in Nat
  BY ListingType DEF TypeOK
<1>3. TypeOK'
  BY <1>1, <1>2, ExtractedRows DEF TypeOK, tables, outside
<1>4. DiskInv' /\ TablesInv'
  BY <1>1, TablesStay DEF outside
<1>5. changed' = changed /\ Select(listed)' = Select(listed)
      /\ (\A g : WasRead(g)' <=> WasRead(g))
      /\ \A g, t : Extracted(g, t)' = Extracted(g, t)
  BY <1>1 DEF changed, Select, Known, tables, WasRead, Extracted, Resolved, valid, outside
<1>6. /\ listed[f] # Nothing /\ listed[f] <= pending[f] /\ pending[f] # Nothing
      /\ SeenText(f, pending[f])
      /\ ~disturbed => pending[f] = Text(f)
  BY <1>1 DEF Inv, ReadInv, changed
<1>7. /\ SeenText(f, Text(f))
      /\ Text(f) # Nothing => Text(f) = disk[f].text /\ Text(f) = disk[f].hash
      /\ faults = 0 => Text(f) = disk[f].text
  BY TextSeen
<1>8. \A r \in Extracted(f, Text(f)) :
        r.file \in changed /\ pending[r.file] <= r.text /\ SeenText(r.file, r.text)
  <2>1. Text(f) # Nothing => pending[f] <= Text(f)
    BY <1>2, <1>6, <1>7 DEF SeenText, Seen
  <2> QED BY <1>1, <1>2, <1>7, <2>1, ExtractedRows
<1>9. ~disturbed => Extracted(f, Text(f)) = Extracted(f, disk[f].text)
  BY <1>6, <1>7
<1>10. faults = 0 /\ f \in Code /\ disk[f].hash = listed[f] => Mapped(f, pending[f], rows')
  <2> SUFFICES ASSUME faults = 0, f \in Code, disk[f].hash = listed[f]
               PROVE  Mapped(f, pending[f], rows')
    OBVIOUS
  <2>1. pending[f] = disk[f].hash
    BY <1>2, <1>6 DEF SeenText, Seen, File
  <2>2. pending[f] = Text(f)
    BY <2>1, <1>6, <1>7 DEF SeenText
  <2>3. \A k \in Carried \ {"docref"} : CodeRow(k, f, pending[f]) \in Extracted(f, Text(f))
    BY <1>2, <1>6, <2>2, ExtractedRows DEF Carried, CodeKinds
  <2> QED BY <1>1, <2>3 DEF Mapped
<1>11. RowsInv'
  <2>1. \A r \in rows' :
          r.file \in changed /\ pending[r.file] <= r.text /\ SeenText(r.file, r.text)
    BY <1>1, <1>8 DEF Inv, RowsInv
  <2>2. ~disturbed => \A r : r \in rows' <=>
          \E g \in changed \ todo' : r \in Extracted(g, disk[g].text)
    BY <1>1, <1>9 DEF Inv, RowsInv
  <2>3. faults = 0 => \A g \in (changed \ todo') \cap Code :
          disk[g].hash = listed[g] => Mapped(g, pending[g], rows')
    BY <1>1, <1>10 DEF Inv, RowsInv, Mapped
  <2> QED BY <1>1, <1>5, <2>1, <2>2, <2>3 DEF RowsInv, SeenText, Seen, outside
<1>12. ReadInv'
  BY <1>1, <1>5 DEF Inv, ReadInv, Seen, SeenText, Listing, Text, Reachable, outside, tables
<1>13. FreshInv' /\ TodoInv' /\ StartInv' /\ BeforeInv'
  BY <1>1, <1>5 DEF Inv, FreshInv, TodoInv, StartInv, BeforeInv
<1> QED BY <1>3, <1>4, <1>11, <1>12, <1>13 DEF Inv

-----------------------------------------------------------------------------
(* The save.                                                               *)

\* A file with a text that a quiet run did not read again is known by its
\* present version, and every entry of it has that version.
LEMMA QuietUnchanged ==
  ASSUME TypeOK, Inv, pc = "extract", ~disturbed, NEW f \in Full, f \notin changed
  PROVE  /\ ~force /\ f \in valid
         /\ \E e \in entries : e.file = f
         /\ \A e \in entries : e.file = f =>
              e.hash = disk[f].hash /\ e.text = disk[f].hash /\ e.text = disk[f].text
<1>1. f \in Files /\ Listing(f) # Nothing /\ disk[f].text # Nothing /\ disk[f] \in File
  BY DEF Full, TypeOK
<1>2. listed[f] = Listing(f) /\ listed[f] = disk[f].hash /\ Text(f) = disk[f].text
  BY <1>1 DEF Inv, ReadInv, Listing, Text
<1>3. pending[f] = Nothing
  BY <1>1 DEF changed
<1>4. f \notin Select(listed)
  BY <1>1, <1>2, <1>3 DEF Inv, ReadInv, WasRead
<1>5. ~force /\ Known(f, listed[f])
  BY <1>1, <1>2, <1>4 DEF Select
<1>6. PICK d \in entries : d.file = f /\ d.hash = disk[f].hash
  BY <1>2, <1>5 DEF Known
<1>7. ASSUME NEW e \in entries, e.file = f
      PROVE  e.hash = disk[f].hash /\ e.text = disk[f].hash /\ e.text = disk[f].text
  <2>1. e.hash = disk[f].hash
    BY <1>6, <1>7 DEF Inv, TablesInv, EntriesAndGraphAgree
  <2>2. SeenText(f, e.text) /\ e.hash <= e.text
    BY <1>7 DEF Inv, TablesInv
  <2>3. e.hash \in Nat \ {Nothing} /\ e.text \in Nat
    BY DEF TypeOK, Entry, Version
  <2> QED BY <1>1, <2>1, <2>2, <2>3 DEF SeenText, Seen, File, Nothing
<1> QED BY <1>1, <1>2, <1>5, <1>6, <1>7 DEF valid

\* A file that a quiet run did read.
LEMMA QuietChanged ==
  ASSUME TypeOK, Inv, pc = "extract", ~disturbed, NEW f \in changed
  PROVE  /\ f \in Files /\ f \in Full /\ f \in valid
         /\ listed[f] = disk[f].hash /\ pending[f] = disk[f].text
<1>1. f \in Files /\ pending[f] # Nothing
  BY DEF changed
<1>2. listed[f] # Nothing /\ listed[f] = Listing(f) /\ pending[f] = Text(f)
  BY <1>1 DEF Inv, ReadInv
<1>3. Text(f) = disk[f].text /\ Listing(f) = disk[f].hash
  BY <1>1, <1>2 DEF Text, Listing
<1> QED BY <1>1, <1>2, <1>3 DEF Full, valid

LEMMA SavedTables ==
  ASSUME TypeOK, Inv, SaveAll
  PROVE  TypeOK' /\ TablesInv'
<1>1. /\ pc = "extract" /\ todo = {}
      /\ entries' = KeptEntries \cup fresh /\ graph' = KeptRows \cup rows
      /\ pc' = "saved" /\ UNCHANGED <<locals, faults, outside>>
  BY DEF SaveAll, At, Goto
<1>2. TypeOK'
  BY <1>1 DEF TypeOK, KeptEntries, KeptRows, locals, outside
<1>3. \A e \in KeptEntries : e \in entries /\ e.file \notin changed /\ e.file \in valid
  BY DEF KeptEntries
<1>4. \A g \in KeptRows : g \in graph /\ g.file \notin changed
  BY DEF KeptRows
<1>5. \A e \in fresh : /\ e \in Entry /\ e.file \in changed
                       /\ e.hash = listed[e.file] /\ e.text = pending[e.file]
  BY <1>1 DEF Inv, FreshInv, TypeOK
<1>6. \A r \in rows : r.file \in changed /\ pending[r.file] <= r.text /\ SeenText(r.file, r.text)
  BY <1>1 DEF Inv, RowsInv
<1>7. \A f \in changed : /\ Seen(f, listed[f]) /\ SeenText(f, pending[f])
                         /\ listed[f] <= pending[f]
  BY <1>1 DEF Inv, ReadInv, changed
<1>8. \A e \in entries' : Seen(e.file, e.hash) /\ SeenText(e.file, e.text) /\ e.hash <= e.text
  BY <1>1, <1>3, <1>5, <1>7 DEF Inv, TablesInv
<1>9. \A g \in graph' : SeenText(g.file, g.text)
  BY <1>1, <1>4, <1>6 DEF Inv, TablesInv
<1>10. EntriesAndGraphAgree'
  <2>1. ASSUME NEW d \in entries', NEW e \in entries', d.file = e.file
        PROVE  d.hash = e.hash /\ d.text = e.text
    BY <1>1, <1>3, <1>5, <2>1 DEF Inv, TablesInv, EntriesAndGraphAgree
  <2>2. ASSUME NEW e \in entries', NEW g \in graph', e.file = g.file
        PROVE  e.text <= g.text
    BY <1>1, <1>3, <1>4, <1>5, <1>6, <2>2 DEF Inv, TablesInv, EntriesAndGraphAgree
  <2> QED BY <2>1, <2>2 DEF EntriesAndGraphAgree
<1>11. ASSUME faults = 0, NEW e \in KeptEntries
       PROVE  /\ Complete(e)'
              /\ e.file \in Code /\ e.hash = disk[e.file].hash => Mapped(e.file, e.text, graph')
  <2>1. e \in Entry
    BY <1>3 DEF TypeOK
  <2>2. ASSUME NEW c \in Chunks PROVE [e EXCEPT !.chunk = c] \in entries'
    <3>1. [e EXCEPT !.chunk = c] \in entries
      BY <1>3, <1>11 DEF Inv, TablesInv, Complete
    <3>2. [e EXCEPT !.chunk = c].file = e.file
      BY <2>1 DEF Entry
    <3> QED BY <1>1, <1>3, <3>1, <3>2 DEF KeptEntries
  <2>3. CASE force
    <3>1. e.file \in Files /\ listed[e.file] # Nothing /\ pending[e.file] = Nothing
      BY <1>3, <2>1 DEF valid, changed, Entry
    <3>2. WasRead(e.file)
      BY <1>1, <2>3, <3>1 DEF WasRead, Select
    <3>3. e.hash # disk[e.file].hash
      BY <1>1, <1>3, <1>11, <3>1, <3>2 DEF Inv, ReadInv
    <3> QED BY <2>2, <3>3 DEF Complete
  <2>4. CASE ~force
    <3> SUFFICES ASSUME e.file \in Code, e.hash = disk[e.file].hash, NEW k \in Carried \ {"docref"}
                 PROVE  CodeRow(k, e.file, e.text) \in graph'
      BY <2>2 DEF Complete, Mapped
    <3>1. CodeRow(k, e.file, e.text) \in graph
      BY <1>3, <1>11 DEF Inv, TablesInv, Mapped
    <3>2. CodeRow(k, e.file, e.text).kind = k /\ CodeRow(k, e.file, e.text).file = e.file
      BY DEF CodeRow
    <3> QED BY <1>1, <1>3, <2>4, <3>1, <3>2 DEF KeptRows
  <2> QED BY <2>3, <2>4
<1>12. ASSUME faults = 0, NEW e \in fresh
       PROVE  /\ Complete(e)'
              /\ e.file \in Code /\ e.hash = disk[e.file].hash => Mapped(e.file, e.text, graph')
  <2>1. ASSUME NEW c \in Chunks PROVE [e EXCEPT !.chunk = c] \in entries'
    <3>1. [e EXCEPT !.chunk = c] =
            [file |-> e.file, chunk |-> c, hash |-> listed[e.file], text |-> pending[e.file]]
      BY <1>5 DEF Entry
    <3>2. [file |-> e.file, chunk |-> c, hash |-> listed[e.file], text |-> pending[e.file]] \in fresh
      BY <1>1, <1>5, <1>12 DEF Inv, FreshInv
    <3> QED BY <1>1, <3>1, <3>2
  <2>2. e.file \in Code /\ e.hash = disk[e.file].hash => Mapped(e.file, e.text, rows)
    BY <1>1, <1>5, <1>12 DEF Inv, RowsInv
  <2> QED BY <1>1, <2>1, <2>2 DEF Complete, Mapped
<1>13. TablesInv'
  <2>1. \A e \in entries' : Seen(e.file, e.hash)' /\ SeenText(e.file, e.text)' /\ e.hash <= e.text
    BY <1>1, <1>8 DEF Seen, SeenText, outside
  <2>2. \A g \in graph' : SeenText(g.file, g.text)'
    BY <1>1, <1>9 DEF Seen, SeenText, outside
  <2>3. faults' = 0 => \A e \in entries' :
          /\ Complete(e)'
          /\ e.file \in Code /\ e.hash = disk'[e.file].hash => Mapped(e.file, e.text, graph')
    BY <1>1, <1>11, <1>12 DEF outside
  <2> QED BY <1>10, <2>1, <2>2, <2>3 DEF TablesInv, Mapped
<1> QED BY <1>2, <1>13

LEMMA SavedConverges ==
  ASSUME TypeOK, Inv, SaveAll
  PROVE  QuietRunConverges' /\ ForcedRunIsExact'
<1>1. /\ pc = "extract" /\ todo = {}
      /\ entries' = KeptEntries \cup fresh /\ graph' = KeptRows \cup rows
      /\ UNCHANGED <<locals, faults, outside>>
  BY DEF SaveAll, At, Goto
<1>2. /\ Full' = Full /\ changed' = changed
      /\ \A f : Listing(f)' = Listing(f)
      /\ \A f, c : EntryOf(f, c)' = EntryOf(f, c)
      /\ \A f, t : Extracted(f, t)' = Extracted(f, t)
  BY <1>1 DEF Full, changed, Listing, Reachable, EntryOf, Extracted, Resolved, valid, locals, outside
<1> SUFFICES ASSUME ~disturbed PROVE QuietRunConverges' /\ ForcedRunIsExact'
  BY <1>1 DEF QuietRunConverges, ForcedRunIsExact, Quiet, outside
<1>3. \A f \in changed : /\ f \in Files /\ f \in Full /\ f \in valid
                         /\ listed[f] = disk[f].hash /\ pending[f] = disk[f].text
  BY <1>1, QuietChanged
<1>4. \A f \in Full : f \in Files /\ disk[f].text \in Nat /\ disk[f].text # Nothing
  BY DEF Full, TypeOK, File
<1>5. \A f \in valid : Listing(f) # Nothing
  BY <1>1 DEF Inv, ReadInv, valid
<1>6. \A e \in KeptEntries : /\ e \in entries /\ e \in Entry
                             /\ e.file \notin changed /\ e.file \in valid
  BY DEF KeptEntries, TypeOK
<1>7. \A g \in KeptRows : /\ g \in graph /\ g.file \notin changed /\ g.file \in valid /\ ~force
  BY DEF KeptRows
<1>8. \A e \in fresh : /\ e \in Entry /\ e.file \in changed
                       /\ e.hash = disk[e.file].hash /\ e.text = disk[e.file].text
  BY <1>1, <1>3 DEF Inv, FreshInv, TypeOK
<1>9. \A r : r \in rows <=> \E f \in changed : r \in Extracted(f, disk[f].text)
  BY <1>1 DEF Inv, RowsInv
<1>10. \A r \in rows : r.file \in changed /\ r.text = disk[r.file].text
  BY <1>3, <1>4, <1>9, ExtractedRows
<1>11. \A e \in entries' : e.file \in Full => e = EntryOf(e.file, e.chunk)
  <2> SUFFICES ASSUME NEW e \in entries', e.file \in Full PROVE e = EntryOf(e.file, e.chunk)
    OBVIOUS
  <2>1. e \in Entry
    BY <1>1, <1>6, <1>8
  <2>2. e.hash = disk[e.file].hash /\ e.text = disk[e.file].text
    BY <1>1, <1>6, <1>8, QuietUnchanged
  <2> QED BY <2>1, <2>2 DEF Entry, EntryOf
<1>12. \A g \in graph' : g.file \in Full => g.text = disk[g.file].text
  <2> SUFFICES ASSUME NEW g \in KeptRows, g.file \in Full PROVE g.text = disk[g.file].text
    BY <1>1, <1>10
  <2>1. PICK e \in entries : e.file = g.file /\ e.text = disk[g.file].hash
                             /\ e.text = disk[g.file].text
    BY <1>1, <1>7, QuietUnchanged
  <2>2. e.text <= g.text /\ SeenText(g.file, g.text)
    BY <1>7, <2>1 DEF Inv, TablesInv, EntriesAndGraphAgree
  <2>3. g.text \in Nat /\ disk[g.file] \in File
    BY <1>4, <1>7 DEF TypeOK, Row, Version
  <2> QED BY <1>4, <2>1, <2>2, <2>3 DEF SeenText, Seen, File
<1>13. /\ \A e \in entries' : Listing(e.file) # Nothing
       /\ \A g \in graph' : Listing(g.file) # Nothing
  BY <1>1, <1>3, <1>5, <1>6, <1>7, <1>8, <1>10
<1>14. \A f \in Full \cap changed : Extracted(f, disk[f].text) \subseteq graph'
  BY <1>1, <1>9
<1>15. ASSUME faults = 0, NEW f \in Full
       PROVE  /\ \A c \in Chunks : EntryOf(f, c) \in entries'
              /\ \A g \in Extracted(f, disk[f].text) :
                   g.kind \in Carried \ {"docref"} => g \in graph'
  <2>1. CASE f \in changed
    <3>1. \A c \in Chunks : EntryOf(f, c) \in fresh
      BY <1>1, <1>3, <1>15, <2>1 DEF Inv, FreshInv, EntryOf
    <3> QED BY <1>1, <1>14, <2>1, <3>1
  <2>2. CASE f \notin changed
    <3>1. /\ ~force /\ f \in valid
          /\ \A e \in entries : e.file = f =>
               e.hash = disk[f].hash /\ e.text = disk[f].hash /\ e.text = disk[f].text
      BY <1>1, <2>2, QuietUnchanged
    <3>2. PICK e \in entries : e.file = f
      BY <1>1, <2>2, QuietUnchanged
    <3>3. e \in Entry /\ e.hash = disk[f].hash /\ e.text = disk[f].text
      BY <3>1, <3>2 DEF TypeOK
    <3>4. ASSUME NEW c \in Chunks PROVE EntryOf(f, c) \in entries'
      <4>1. [e EXCEPT !.chunk = c] \in entries
        BY <1>15, <3>2 DEF Inv, TablesInv, Complete
      <4>2. [e EXCEPT !.chunk = c] = EntryOf(f, c)
        BY <3>2, <3>3 DEF Entry, EntryOf
      <4>3. EntryOf(f, c).file = f
        BY DEF EntryOf
      <4> QED BY <1>1, <2>2, <3>1, <4>1, <4>2, <4>3 DEF KeptEntries
    <3>5. ASSUME NEW g \in Extracted(f, disk[f].text), g.kind \in Carried \ {"docref"}
          PROVE  g \in graph'
      <4>1. f \in Code /\ g = CodeRow(g.kind, f, disk[f].text) /\ g.file = f
        BY <1>4, <3>5, ExtractedRows
      <4>2. Mapped(f, e.text, graph)
        BY <1>15, <3>2, <3>3, <4>1 DEF Inv, TablesInv
      <4>3. g \in graph
        BY <3>3, <3>5, <4>1, <4>2 DEF Mapped
      <4> QED BY <1>1, <2>2, <3>1, <3>5, <4>1, <4>3 DEF KeptRows
    <3> QED BY <3>4, <3>5
  <2> QED BY <2>1, <2>2
<1>16. QuietRunConverges'
  BY <1>1, <1>2, <1>11, <1>12, <1>13, <1>14, <1>15 DEF QuietRunConverges, locals, outside
<1>17. ASSUME force PROVE ForcedRunIsExact'
  <2>1. changed = Full
    BY <1>1, <1>3, <1>17, QuietUnchanged
  <2>2. \A e \in fresh : e.file \in Full
    BY <1>8, <2>1
  <2>3. \A e \in KeptEntries : e.file \notin Full
    BY <1>6, <2>1
  <2>4. {e \in entries' : e.file \in Full} = fresh
    BY <1>1, <2>2, <2>3
  <2>5. graph' = rows
    BY <1>1, <1>17 DEF KeptRows
  <2>6. rows = UNION {Extracted(f, disk[f].text) : f \in Full}
    BY <1>9, <2>1
  <2> QED BY <1>1, <1>2, <2>4, <2>5, <2>6 DEF ForcedRunIsExact, locals, outside
<1>18. ~force => ForcedRunIsExact'
  BY <1>1 DEF ForcedRunIsExact, locals
<1> QED BY <1>16, <1>17, <1>18

LEMMA SaveAllInvariant ==
  ASSUME TypeOK, Inv, SaveAll
  PROVE  TypeOK' /\ Inv'
<1>1. pc' = "saved" /\ UNCHANGED <<disk, mounted, version, faults>>
  BY DEF SaveAll, Goto, outside
<1>2. TypeOK' /\ TablesInv'
  BY SavedTables
<1>3. DiskInv'
  BY <1>1 DEF Inv, DiskInv
<1> QED BY <1>1, <1>2, <1>3 DEF Inv, ReadInv, StartInv, BeforeInv, TodoInv, FreshInv, RowsInv

-----------------------------------------------------------------------------
(* Every step.                                                             *)

LEMMA StutterInvariant ==
  ASSUME TypeOK, Inv, UNCHANGED vars
  PROVE  TypeOK' /\ Inv'
<1>1. TypeOK'
  BY DEF vars, TypeOK
<1>2. DiskInv' /\ TablesInv'
  BY TablesStay DEF vars, tables
<1>3. /\ changed' = changed /\ Select(listed)' = Select(listed)
      /\ (\A f : WasRead(f)' <=> WasRead(f))
      /\ \A f, t : Extracted(f, t)' = Extracted(f, t)
  BY DEF vars, changed, Select, Known, WasRead, Extracted, Resolved, valid
<1>4. ReadInv'
  BY <1>3 DEF vars, Inv, ReadInv, Seen, SeenText, Listing, Text, Reachable
<1>5. RowsInv'
  BY <1>3 DEF vars, Inv, RowsInv, SeenText, Seen, Mapped
<1>6. FreshInv' /\ TodoInv' /\ StartInv' /\ BeforeInv'
  BY <1>3 DEF vars, Inv, FreshInv, TodoInv, StartInv, BeforeInv
<1> QED BY <1>1, <1>2, <1>4, <1>5, <1>6 DEF Inv

\* The invariant, and the two properties of the moment a run has saved: only
\* the save leads there, and what changes outside afterwards disturbs the run.
IndInv == TypeOK /\ Inv /\ QuietRunConverges /\ ForcedRunIsExact

LEMMA NextInvariant == IndInv /\ [Next]_vars => IndInv'
<1> SUFFICES ASSUME IndInv, [Next]_vars PROVE IndInv'
  OBVIOUS
<1>1. CASE SaveAll
  BY <1>1, SaveAllInvariant, SavedConverges DEF IndInv
<1>2. CASE Step /\ ~SaveAll
  <2>1. TypeOK' /\ Inv'
    BY <1>2, StartInvariant, ScanInvariant, OverInvariant, ReadFileInvariant,
       ExtractInvariant, EmbedInvariant DEF IndInv, Step
  <2>2. pc' # "saved"
    BY <1>2 DEF Step, StartRun, Scan, Return, Dies, Over, ReadFile, Extract, Embed, Goto
  <2> QED BY <2>1, <2>2 DEF IndInv, QuietRunConverges, ForcedRunIsExact, Quiet, At
<1>3. CASE Environment
  <2>1. TypeOK' /\ Inv'
    BY <1>3, EnvironmentType, EnvironmentInv DEF IndInv
  <2>2. pc' = pc /\ disturbed' = (pc # "idle")
    BY <1>3, EnvironmentMoves DEF IndInv, Disturb, Unseen
  <2> QED BY <2>1, <2>2 DEF IndInv, QuietRunConverges, ForcedRunIsExact, Quiet, At
<1>4. CASE UNCHANGED vars
  <2>1. TypeOK' /\ Inv'
    BY <1>4, StutterInvariant DEF IndInv
  <2>2. /\ Full' = Full /\ changed' = changed /\ Quiet' = Quiet
        /\ \A f : Listing(f)' = Listing(f)
        /\ \A f, c : EntryOf(f, c)' = EntryOf(f, c)
        /\ \A f, t : Extracted(f, t)' = Extracted(f, t)
    BY <1>4 DEF vars, Full, changed, Quiet, At, Listing, Reachable, EntryOf, Extracted,
                Resolved, valid
  <2>3. QuietRunConverges'
    BY <1>4, <2>2 DEF vars, IndInv, QuietRunConverges
  <2>4. ForcedRunIsExact'
    BY <1>4, <2>2 DEF vars, IndInv, ForcedRunIsExact
  <2> QED BY <2>1, <2>3, <2>4 DEF IndInv
<1> QED BY <1>1, <1>2, <1>3, <1>4 DEF Next

LEMMA InitIndInv == Init => IndInv
BY InitInv DEF Init, IndInv, QuietRunConverges, ForcedRunIsExact, Quiet, At

LEMMA AlwaysIndInv == Spec => []IndInv
BY InitIndInv, NextInvariant, PTL DEF Spec

\* The state of a run keeps its types.
THEOREM TypeCorrect == Spec => []TypeOK
<1>1. IndInv => TypeOK
  BY DEF IndInv
<1> QED BY <1>1, AlwaysIndInv, PTL

\* For any directory tree and however files change under a run, the entries of
\* a file are of one reading and its code graph's rows are not older.
THEOREM GraphIsNotBehind == Spec => []EntriesAndGraphAgree
<1>1. IndInv => EntriesAndGraphAgree
  BY DEF IndInv, Inv, TablesInv
<1> QED BY <1>1, AlwaysIndInv, PTL

\* A run nothing disturbs ends with the directory as it is.
THEOREM QuietRunsConverge == Spec => []QuietRunConverges
<1>1. IndInv => QuietRunConverges
  BY DEF IndInv
<1> QED BY <1>1, AlwaysIndInv, PTL

\* A forced run nothing disturbs stores exactly what the texts give.
THEOREM ForcedRunsAreExact == Spec => []ForcedRunIsExact
<1>1. IndInv => ForcedRunIsExact
  BY DEF IndInv
<1> QED BY <1>1, AlwaysIndInv, PTL
=============================================================================
