---------------------------- MODULE Daemon_proofs ----------------------------
(***************************************************************************)
(* Safety of one index of the daemon, for any notes, terms, files, clients *)
(* and bounds.                                                             *)
(***************************************************************************)
EXTENDS Daemon, SequenceTheorems, TLAPS

LEMMA BlankIsTable == Blank \in Table
BY DEF Blank, Table

LEMMA IndexJobIsJob == \A force \in BOOLEAN : IndexJob(force) \in Job
BY DEF IndexJob, Job, Empty

\* Jobs queued by a handler keep the types.
LEMMA SubmitType ==
  ASSUME TypeOK, NEW c \in Clients, NEW j \in Job, Submit(c, j), version' \in Nat
  PROVE  TypeOK'
<1>1. queue' \in Seq(Job)
  BY AppendProperties DEF Submit, TypeOK
<1>2. req' \in [Clients -> Job] /\ hpc' \in [Clients -> {"idle", "waiting", "ok", "err"}]
  BY DEF Submit, TypeOK
<1>3. QED
  BY <1>1, <1>2 DEF Submit, TypeOK, durable, locals

\* A job that ends leaves its locals blank and answers its own client.
LEMMA FinishType ==
  ASSUME TypeOK, NEW answer \in {"ok", "err"}, Finish(answer)
  PROVE  /\ wpc' \in Steps /\ job' \in Job
         /\ copy' \in Table /\ plan' \in Table /\ valid' \in SUBSET Docs
         /\ mem' \in [Notes -> Note] /\ gloss' \in [Terms -> Nat]
         /\ hpc' \in [Clients -> {"idle", "waiting", "ok", "err"}]
<1>1. NoJob \in Job
  BY IndexJobIsJob DEF NoJob
<1>2. NoNote \in Note /\ Empty \in Nat /\ "idle" \in Steps
  BY DEF NoNote, Note, Empty, Steps
<1>3. QED
  BY <1>1, <1>2, BlankIsTable DEF Finish, TypeOK

LEMMA GotoType ==
  ASSUME TypeOK, NEW step \in Steps, Goto(step)
  PROVE  /\ wpc' \in Steps /\ job' \in Job
         /\ hpc' \in [Clients -> {"idle", "waiting", "ok", "err"}]
BY DEF Goto, TypeOK

\* save_index_meta_only writes rows of the table's type.
LEMMA MetaOnlyType ==
  ASSUME NEW rows \in Table, NEW old \in Table
  PROVE  MetaOnly(rows, old) \in Table
<1>1. \A k \in Keys : rows[k] # NoEntry => rows[k].hash \in Nat
  BY DEF Table, Entry
<1>2. \A k \in Keys : old[k] # NoEntry => old[k].emb \in Nat
  BY DEF Table, Entry
<1>3. QED
  BY <1>1, <1>2 DEF MetaOnly, Table, Entry, Empty

\* The chunks a scan plans have the hash of the listing.
LEMMA PlanType ==
  ASSUME TypeOK, Scan
  PROVE  plan' \in Table
<1>1. \A n \in Notes : [hash |-> notes[n].ts, emb |-> notes[n].content] \in Entry
  BY DEF TypeOK, Note, Entry
<1>2. \A d \in Docs : [hash |-> files[d], emb |-> Empty] \in Entry
  BY DEF TypeOK, Entry, Empty
<1>3. QED
  BY <1>1, <1>2 DEF Scan, Table, Keys

LEMMA InitType == Init => TypeOK
<1>1. NoJob \in Job /\ NoNote \in Note /\ Empty \in Nat /\ "idle" \in Steps /\ <<>> \in Seq(Job)
  BY IndexJobIsJob, EmptySeq DEF NoJob, NoNote, Note, Empty, Steps
<1>2. ASSUME Init PROVE TypeOK
  <2>1. up \in BOOLEAN /\ indexing \in BOOLEAN
    BY <1>2, Zenon DEF Init
  <2>2. files \in [Docs -> Nat]
    BY <1>2 DEF Init, Empty
  <2>3. QED
    BY <1>1, <1>2, <2>1, <2>2, BlankIsTable DEF Init, TypeOK
<1>3. QED
  BY <1>2

LEMMA NextType == TypeOK /\ [Next]_vars => TypeOK'
<1> SUFFICES ASSUME TypeOK, [Next]_vars PROVE TypeOK'
  OBVIOUS
<1> USE DaemonAssumption DEF TypeOK, durable, locals, env
<1>1. ASSUME NEW c \in Clients, Handler(c) PROVE TypeOK'
  <2>1. CASE AddItem(c)
    <3>1. PICK k \in Items, x \in Contents :
            Submit(c, [op |-> "add", key |-> k, content |-> x, force |-> FALSE, client |-> c])
      BY <2>1 DEF AddItem
    <3>2. [op |-> "add", key |-> k, content |-> x, force |-> FALSE, client |-> c] \in Job
      BY DEF Job, Contents
    <3>3. QED
      BY <2>1, <3>1, <3>2, SubmitType DEF AddItem
  <2>2. CASE AddDoc(c)
    <3>1. PICK d \in Docs :
            Submit(c, [op |-> "add", key |-> d, content |-> version', force |-> FALSE, client |-> c])
      BY <2>2 DEF AddDoc
    <3>2. version' \in Nat
      BY <2>2 DEF AddDoc
    <3>3. [op |-> "add", key |-> d, content |-> version', force |-> FALSE, client |-> c] \in Job
      BY <3>2 DEF Job
    <3>4. QED
      BY <3>1, <3>2, <3>3, SubmitType
  <2>3. CASE Remove(c)
    <3>1. PICK k \in Items \cup Docs :
            Submit(c, [op |-> "rm", key |-> k, content |-> Empty, force |-> FALSE, client |-> c])
      BY <2>3 DEF Remove
    <3>2. [op |-> "rm", key |-> k, content |-> Empty, force |-> FALSE, client |-> c] \in Job
      BY DEF Job, Empty
    <3>3. QED
      BY <2>3, <3>1, <3>2, SubmitType DEF Remove
  <2>4. CASE Reply(c)
    <3>1. NoJob \in Job
      BY IndexJobIsJob DEF NoJob
    <3>2. QED
      BY <2>4, <3>1 DEF Reply
  <2>5. QED
    BY <1>1, <2>1, <2>2, <2>3, <2>4 DEF Handler
<1>2. CASE RequestIndex \/ WatcherFires
  <2>1. queue' \in Seq(Job)
    <3>1. PICK force \in BOOLEAN : queue' = Append(queue, IndexJob(force))
      BY <1>2, Zenon DEF RequestIndex, WatcherFires
    <3>2. QED
      BY <3>1, IndexJobIsJob, AppendProperties
  <2>2. QED
    BY <1>2, <2>1 DEF RequestIndex, WatcherFires
<1>3. CASE Worker
  <2> USE DEF At, Fault
  <2>0. \A step \in {"embed", "saveMeta", "saveFull", "publish", "read", "merge", "reload",
                     "saveAll"} : step \in Steps
    BY DEF Steps
  <2>1. CASE Start
    <3>1. job' \in Job /\ queue' \in Seq(Job)
      BY <2>1, HeadTailProperties DEF Start
    <3>2. wpc' \in Steps
      BY <2>1 DEF Start, Steps
    <3>3. QED
      BY <2>1, <3>1, <3>2 DEF Start
  <2>2. CASE PersistTerm \/ PersistNote \/ PersistDoc
    <3>1. job.content \in Nat /\ [content |-> job.content, ts |-> clock] \in Note
      BY DEF Job, Note
    <3>2. glossary' \in [Terms -> Nat]
      BY <2>2, <3>1 DEF PersistTerm, PersistNote, PersistDoc
    <3>5. notes' \in [Notes -> Note]
      BY <2>2, <3>1 DEF PersistTerm, PersistNote, PersistDoc
    <3>6. files' \in [Docs -> Nat]
      BY <2>2, <3>1 DEF PersistTerm, PersistNote, PersistDoc
    <3>3. wpc' \in Steps /\ job' \in Job /\ hpc' \in [Clients -> {"idle", "waiting", "ok", "err"}]
      BY <2>2, <2>0, GotoType DEF PersistTerm, PersistNote, PersistDoc
    <3>4. QED
      BY <2>2, <3>2, <3>3, <3>5, <3>6 DEF PersistTerm, PersistNote, PersistDoc
  <2>3. CASE Reject \/ EmbedNoteFails \/ JobThrows \/ Publish
    <3>1. PICK answer \in {"ok", "err"} : Finish(answer)
      BY <2>3 DEF Reject, EmbedNoteFails, JobThrows, Publish
    <3>2. UNCHANGED <<notes, glossary, db, files, up, queue, req, clock, version>>
          /\ snap' \in Table /\ faults' \in Nat
      BY <2>3 DEF Reject, EmbedNoteFails, JobThrows, Publish
    <3>3. indexing' \in BOOLEAN
      BY <2>3, Zenon DEF Reject, EmbedNoteFails, JobThrows, Publish
    <3>4. QED
      BY <3>1, <3>2, <3>3, FinishType
  <2>4. CASE EmbedNote \/ EmbedDoc \/ EmbedDocFails
    <3>1. [hash |-> clock, emb |-> job.content] \in Entry /\ [hash |-> 0, emb |-> job.content] \in Entry
      BY DEF Entry, Job
    <3>2. copy' \in Table
      BY <2>4, <3>1 DEF EmbedNote, EmbedDoc, EmbedDocFails, Keys, Table
    <3>3. wpc' \in Steps /\ job' \in Job /\ hpc' \in [Clients -> {"idle", "waiting", "ok", "err"}]
      BY <2>4, <2>0, GotoType DEF EmbedNote, EmbedDoc, EmbedDocFails
    <3>4. QED
      BY <2>4, <3>2, <3>3 DEF EmbedNote, EmbedDoc, EmbedDocFails
  <2>5. CASE RemoveTerm \/ RemoveNote \/ RemoveDoc
    <3>1. NoNote \in Note /\ Empty \in Nat
      BY DEF NoNote, Note, Empty
    <3>2. glossary' \in [Terms -> Nat]
      BY <2>5, <3>1 DEF RemoveTerm, RemoveNote, RemoveDoc
    <3>6. notes' \in [Notes -> Note]
      BY <2>5, <3>1 DEF RemoveTerm, RemoveNote, RemoveDoc
    <3>7. files' \in [Docs -> Nat]
      BY <2>5, <3>1 DEF RemoveTerm, RemoveNote, RemoveDoc
    <3>3. copy' \in Table
      BY <2>5 DEF RemoveTerm, RemoveNote, RemoveDoc, Table
    <3>4. wpc' \in Steps /\ job' \in Job /\ hpc' \in [Clients -> {"idle", "waiting", "ok", "err"}]
      BY <2>5, <2>0, GotoType DEF RemoveTerm, RemoveNote, RemoveDoc
    <3>5. QED
      BY <2>5, <3>2, <3>3, <3>4, <3>6, <3>7 DEF RemoveTerm, RemoveNote, RemoveDoc
  <2>6. CASE SaveMetaOnly \/ SaveIndex
    <3>1. db' \in Table
      BY <2>6, MetaOnlyType DEF SaveMetaOnly, SaveIndex
    <3>2. wpc' \in Steps /\ job' \in Job /\ hpc' \in [Clients -> {"idle", "waiting", "ok", "err"}]
      BY <2>6, <2>0, GotoType DEF SaveMetaOnly, SaveIndex
    <3>3. QED
      BY <2>6, <3>1, <3>2 DEF SaveMetaOnly, SaveIndex
  <2>7. CASE Scan
    <3>1. plan' \in Table
      BY <2>7, PlanType, Zenon DEF Scan
    <3>2. wpc' \in Steps /\ job' \in Job /\ hpc' \in [Clients -> {"idle", "waiting", "ok", "err"}]
      BY <2>7, <2>0, GotoType DEF Scan
    <3>3. QED
      BY <2>7, <3>1, <3>2 DEF Scan
  <2>8. CASE ReadFiles
    <3>1. \A k \in Docs : plan[k] # NoEntry => [plan[k] EXCEPT !.emb = files[k]] \in Entry
      BY DEF Table, Keys, Entry
    <3>2. plan' \in Table
      BY <2>8, <3>1 DEF ReadFiles, Table
    <3>3. wpc' \in Steps /\ job' \in Job /\ hpc' \in [Clients -> {"idle", "waiting", "ok", "err"}]
      BY <2>8, <2>0, GotoType DEF ReadFiles
    <3>4. QED
      BY <2>8, <3>2, <3>3 DEF ReadFiles
  <2>9. ASSUME NEW lost \in SUBSET Planned, Merge(lost) PROVE TypeOK'
    <3>1. copy' \in Table /\ faults' \in Nat
      BY <2>9 DEF Merge, Table
    <3>2. wpc' \in Steps /\ job' \in Job /\ hpc' \in [Clients -> {"idle", "waiting", "ok", "err"}]
      BY <2>9, <2>0, GotoType DEF Merge
    <3>3. QED
      BY <2>9, <3>1, <3>2 DEF Merge
  <2>10. CASE Reload \/ SaveAll
    <3>1. wpc' \in Steps /\ job' \in Job /\ hpc' \in [Clients -> {"idle", "waiting", "ok", "err"}]
      BY <2>10, <2>0, GotoType DEF Reload, SaveAll
    <3>2. QED
      BY <2>10, <3>1 DEF Reload, SaveAll
  <2>11. QED
    BY <1>3, <2>1, <2>2, <2>3, <2>4, <2>5, <2>6, <2>7, <2>8, <2>9, <2>10 DEF Worker
<1>4. CASE Crash
  <2>1. NoJob \in Job /\ NoNote \in Note /\ Empty \in Nat /\ "idle" \in Steps /\ <<>> \in Seq(Job)
    BY IndexJobIsJob, EmptySeq DEF NoJob, NoNote, Note, Empty, Steps
  <2>2. up' \in BOOLEAN /\ indexing' \in BOOLEAN
    BY <1>4, Zenon DEF Crash
  <2>3. QED
    BY <1>4, <2>1, <2>2, BlankIsTable DEF Crash, Fault
<1>5. CASE Restart \/ Tick
  <2>1. up' \in BOOLEAN
    BY <1>5, Zenon DEF Restart, Tick
  <2>2. QED
    BY <1>5, <2>1 DEF Restart, Tick
<1>6. CASE Edit
  BY <1>6 DEF Edit, Empty
<1>7. CASE UNCHANGED vars
  BY <1>7 DEF vars
<1>8. QED
  BY <1>1, <1>2, <1>3, <1>4, <1>5, <1>6, <1>7 DEF Next

THEOREM TypeCorrect == Spec => []TypeOK
BY InitType, NextType, PTL DEF Spec

-----------------------------------------------------------------------------
(* The inductive invariant behind the safety properties: what a job knows   *)
(* at each of its steps.                                                    *)

ItemSteps == {"persist", "embed", "saveMeta", "saveFull"}
IndexSteps == {"scan", "read", "merge", "reload", "saveAll"}

\* Which job is at which step; the copy is untouched until the first change.
JobInv ==
  /\ TypeOK
  /\ ~up => wpc = "idle"
  /\ wpc \in ItemSteps => job.op # "index"
  /\ wpc \in IndexSteps => job.op = "index"
  /\ wpc = "persist" => copy = snap

\* An add or a removal differs from the snapshot in its own entry only.
CopyCurrent ==
  wpc # "idle" /\ job.op # "index" => \A k \in Keys \ {job.key} : copy[k] = snap[k]

\* An entry that stands for the note as it is in the store.
Matches(entry, n) == notes[n] # NoNote /\ entry.hash = notes[n].ts

\* What an index job has read of the notes is still so when it writes them back.
NotesCurrent ==
  /\ wpc \in {"read", "merge"} =>
       \A n \in Notes :
         /\ plan[n] # NoEntry => Matches(plan[n], n)
         /\ plan[n] = NoEntry /\ notes[n] # NoNote => Matches(copy[n], n)
  /\ wpc \in {"reload", "saveAll", "publish"} /\ job.op = "index" =>
       \A n \in Notes : copy[n] # NoEntry => Matches(copy[n], n)
  /\ wpc = "saveAll" => mem = notes /\ gloss = glossary

core == <<notes, glossary, db, up, snap, job, wpc, locals>>

\* The steps that are not the writer's, nor a crash or a restart.
Outside == (\E c \in Clients : Handler(c)) \/ RequestIndex \/ WatcherFires \/ Edit \/ Tick
           \/ UNCHANGED vars

LEMMA OutsideIsQuiet == Outside => UNCHANGED core
BY DEF Outside, Handler, AddItem, AddDoc, Remove, Submit, Reply, RequestIndex, WatcherFires,
       Edit, Tick, vars, core, durable, locals, env

\* A job that fails changes nothing that is durable or published.
Fails == Reject \/ EmbedNoteFails \/ JobThrows

LEMMA FailsIsQuiet == Fails => wpc' = "idle" /\ UNCHANGED <<notes, glossary, db, up, snap>>
BY DEF Fails, Reject, EmbedNoteFails, JobThrows, Finish, durable

LEMMA NextJobInv == JobInv /\ [Next]_vars => JobInv'
<1> SUFFICES ASSUME JobInv, [Next]_vars PROVE JobInv'
  OBVIOUS
<1>1. TypeOK'
  BY NextType DEF JobInv
<1> USE <1>1 DEF JobInv, ItemSteps, IndexSteps, At, Goto
<1>2. CASE Outside
  BY <1>2, OutsideIsQuiet DEF core, locals
<1>3. CASE Fails
  BY <1>3, FailsIsQuiet
<1>4. CASE Start
  BY <1>4 DEF Start, durable
<1>5. CASE PersistTerm \/ PersistNote \/ PersistDoc \/ EmbedNote \/ EmbedDoc \/ EmbedDocFails
  BY <1>5 DEF PersistTerm, PersistNote, PersistDoc, EmbedNote, EmbedDoc, EmbedDocFails
<1>6. CASE RemoveTerm \/ RemoveNote \/ RemoveDoc \/ SaveMetaOnly \/ SaveIndex
  BY <1>6 DEF RemoveTerm, RemoveNote, RemoveDoc, SaveMetaOnly, SaveIndex
<1>7. CASE Publish
  BY <1>7 DEF Publish, Finish
<1>8. CASE Scan \/ ReadFiles \/ Reload \/ SaveAll \/ (\E lost \in SUBSET Planned : Merge(lost))
  BY <1>8 DEF Scan, ReadFiles, Reload, SaveAll, Merge
<1>9. CASE Crash \/ Restart
  BY <1>9 DEF Crash, Restart
<1>10. QED
  BY <1>2, <1>3, <1>4, <1>5, <1>6, <1>7, <1>8, <1>9 DEF Next, Worker, Outside, Fails

LEMMA NextCopyCurrent == JobInv /\ CopyCurrent /\ [Next]_vars => CopyCurrent'
<1> SUFFICES ASSUME JobInv, CopyCurrent, [Next]_vars PROVE CopyCurrent'
  OBVIOUS
<1> USE DEF CopyCurrent, At, Goto
<1>1. CASE Outside
  BY <1>1, OutsideIsQuiet DEF core, locals
<1>2. CASE Fails \/ Publish \/ Crash \/ Restart
  BY <1>2, FailsIsQuiet DEF Publish, Finish, Crash, Restart, locals, JobInv
<1>3. CASE Start
  BY <1>3 DEF Start
<1>4. CASE PersistTerm \/ PersistNote \/ PersistDoc \/ RemoveTerm \/ RemoveDoc \/ EmbedDocFails
           \/ SaveMetaOnly \/ SaveIndex
  BY <1>4 DEF PersistTerm, PersistNote, PersistDoc, RemoveTerm, RemoveDoc, EmbedDocFails,
              SaveMetaOnly, SaveIndex, locals
<1>5. CASE EmbedNote \/ EmbedDoc \/ RemoveNote
  <2>1. \A k \in Keys \ {job.key} : copy'[k] = copy[k]
    BY <1>5 DEF EmbedNote, EmbedDoc, RemoveNote, JobInv, TypeOK, Table
  <2>2. UNCHANGED <<snap, job>>
    BY <1>5 DEF EmbedNote, EmbedDoc, RemoveNote
  <2>3. wpc # "idle"
    BY <1>5 DEF EmbedNote, EmbedDoc, RemoveNote
  <2>4. QED
    BY <2>1, <2>2, <2>3
<1>6. CASE Scan \/ ReadFiles \/ Reload \/ SaveAll \/ (\E lost \in SUBSET Planned : Merge(lost))
  BY <1>6 DEF Scan, ReadFiles, Reload, SaveAll, Merge, JobInv, IndexSteps
<1>7. QED
  BY <1>1, <1>2, <1>3, <1>4, <1>5, <1>6 DEF Next, Worker, Outside, Fails

-----------------------------------------------------------------------------
(* Save comes before publish.                                              *)

\* A save makes the table's rows those of the copy.
LEMMA SaveGivesRows ==
  ASSUME NEW rows \in Table, NEW old \in Table
  PROVE  SameRows(rows, rows) /\ SameRows(rows, MetaOnly(rows, old))
<1>1. SameRows(rows, rows)
  BY DEF SameRows
<1>2. ASSUME NEW k \in Keys, rows[k] # NoEntry PROVE MetaOnly(rows, old)[k] # NoEntry
  <2>1. MetaOnly(rows, old)[k] \in Entry
    BY <1>2 DEF MetaOnly, Table, Entry, Empty
  <2>2. QED
    BY <2>1, DaemonAssumption
<1>3. QED
  BY <1>1, <1>2 DEF SameRows, MetaOnly

\* The inductive form: what a job is about to publish it has saved.
SavedInv == SavedIsPublished /\ (wpc = "publish" => SameRows(copy, db))

LEMMA NextSaved == JobInv /\ SavedInv /\ [Next]_vars => SavedInv'
<1> SUFFICES ASSUME JobInv, SavedInv, [Next]_vars PROVE SavedInv'
  OBVIOUS
<1> USE DEF SavedInv, SavedIsPublished, At, Goto
<1>0. copy \in Table /\ db \in Table
  BY DEF JobInv, TypeOK
<1>1. CASE Outside
  BY <1>1, OutsideIsQuiet DEF core, locals, SameRows
<1>2. CASE Fails
  <2>1. wpc # "publish"
    BY <1>2 DEF Fails, Reject, EmbedNoteFails, JobThrows
  <2>2. QED
    BY <1>2, <2>1, FailsIsQuiet DEF SameRows
<1>3. CASE Start \/ PersistNote \/ PersistDoc \/ EmbedNote \/ EmbedDoc \/ EmbedDocFails
           \/ RemoveNote \/ RemoveDoc
           \/ Scan \/ ReadFiles \/ Reload \/ (\E lost \in SUBSET Planned : Merge(lost))
  <2>1. wpc # "publish" /\ wpc' # "publish" /\ UNCHANGED <<db, snap, up>>
    BY <1>3 DEF Start, PersistNote, PersistDoc, EmbedNote, EmbedDoc, EmbedDocFails, RemoveNote,
                RemoveDoc, Scan, ReadFiles, Reload, Merge, durable
  <2>2. QED
    BY <2>1 DEF SameRows
<1>4. CASE PersistTerm \/ RemoveTerm
  <2>1. up /\ copy = snap /\ wpc = "persist"
    BY <1>4 DEF PersistTerm, RemoveTerm, JobInv
  <2>2. UNCHANGED <<db, copy>> /\ wpc' = "publish"
    BY <1>4 DEF PersistTerm, RemoveTerm, locals
  <2>3. QED
    BY <2>1, <2>2 DEF SameRows
<1>5. CASE SaveMetaOnly
  <2>1. db' = MetaOnly(copy, db) /\ copy' = copy /\ wpc' = "publish"
    BY <1>5 DEF SaveMetaOnly, locals
  <2>2. QED
    BY <1>0, <2>1, SaveGivesRows DEF SameRows
<1>6. CASE SaveIndex \/ SaveAll
  <2>1. db' = copy /\ copy' = copy /\ wpc' = "publish"
    BY <1>6 DEF SaveIndex, SaveAll, locals
  <2>2. QED
    BY <1>0, <2>1, SaveGivesRows DEF SameRows
<1>7. CASE Publish
  <2>1. up /\ wpc = "publish" /\ snap' = copy /\ wpc' = "idle" /\ db' = db
    BY <1>7 DEF Publish, Finish, durable
  <2>2. QED
    BY <2>1 DEF SameRows
<1>8. CASE Crash
  <2>1. ~up'
    BY <1>8 DEF Crash
  <2>2. wpc' = "idle"
    BY <1>8 DEF Crash
  <2>3. QED
    BY <2>1, <2>2
<1>9. CASE Restart
  <2>1. wpc' = "idle" /\ snap' = db /\ db' = db
    BY <1>9 DEF Restart, JobInv, durable
  <2>2. QED
    BY <1>0, <2>1, SaveGivesRows DEF SameRows
<1>10. QED
  BY <1>1, <1>2, <1>3, <1>4, <1>5, <1>6, <1>7, <1>8, <1>9 DEF Next, Worker, Outside, Fails

LEMMA InitSafe == Init => JobInv /\ CopyCurrent /\ SavedInv /\ NotesCurrent
<1> SUFFICES ASSUME Init PROVE JobInv /\ CopyCurrent /\ SavedInv /\ NotesCurrent
  OBVIOUS
<1>1. JobInv
  BY InitType DEF Init, JobInv, ItemSteps, IndexSteps
<1>2. CopyCurrent /\ NotesCurrent
  BY DEF Init, CopyCurrent, NotesCurrent
<1>3. SavedInv
  BY DEF Init, SavedInv, SavedIsPublished, SameRows
<1>4. QED
  BY <1>1, <1>2, <1>3

\* Whatever job runs, fails or is cut short by a crash, for any number of
\* clients and faults (embed_server.cpp, save before publish): outside the window
\* between a job's save and its publication, the snapshot that queries are served
\* from has the rows of the entries table.
THEOREM SnapshotIsSaved == Spec => []SavedIsPublished
<1>1. Init => JobInv /\ SavedInv
  BY InitSafe
<1>2. JobInv /\ SavedInv /\ [Next]_vars => (JobInv /\ SavedInv)'
  BY NextJobInv, NextSaved
<1>3. SavedInv => SavedIsPublished
  BY DEF SavedInv
<1>4. QED
  BY <1>1, <1>2, <1>3, PTL DEF Spec

-----------------------------------------------------------------------------
(* Copies are made from what is published.                                 *)

LEMMA PublishLosesNothing ==
  ASSUME JobInv, CopyCurrent, Publish, job.op # "index", NEW k \in Keys \ {job.key}
  PROVE  snap'[k] = snap[k]
BY DEF CopyCurrent, Publish, At

\* mutable_copy and publish with one writer: however many handlers submit,
\* publishing an add or a removal changes no entry but the job's own.
THEOREM NoWriterOverwritesAnother == Spec => NoLostUpdate
<1>1. Init => JobInv /\ CopyCurrent
  BY InitSafe
<1>2. JobInv /\ CopyCurrent /\ [Next]_vars => (JobInv /\ CopyCurrent)'
  BY NextJobInv, NextCopyCurrent
<1>3. JobInv /\ CopyCurrent /\ [Next]_vars =>
        [Publish /\ job.op # "index"
           => \A k \in Keys \ {job.key} : snap'[k] = snap[k]]_vars
  BY PublishLosesNothing
<1>4. QED
  BY <1>1, <1>2, <1>3, PTL DEF Spec, NoLostUpdate

-----------------------------------------------------------------------------
(* An index job reads, merges and writes back notes that do not change.    *)

LEMMA NextNotesCurrent == JobInv /\ NotesCurrent /\ [Next]_vars => NotesCurrent'
<1> SUFFICES ASSUME JobInv, NotesCurrent, [Next]_vars PROVE NotesCurrent'
  OBVIOUS
<1> USE DEF NotesCurrent, Matches, At, Goto
<1>0. Notes \subseteq Keys /\ notes \in [Notes -> Note] /\ plan \in Table /\ copy \in Table
  BY DEF JobInv, TypeOK, Keys
<1>1. CASE Outside
  BY <1>1, OutsideIsQuiet DEF core, locals
<1>2. CASE Fails
  BY <1>2, FailsIsQuiet
<1>3. CASE Publish \/ Crash
  BY <1>3 DEF Publish, Finish, Crash
<1>4. CASE Restart
  BY <1>4 DEF Restart, JobInv
<1>5. CASE Start
  BY <1>5 DEF Start
<1>6. CASE PersistTerm \/ PersistNote \/ PersistDoc \/ EmbedNote \/ EmbedDoc \/ EmbedDocFails
           \/ RemoveTerm \/ RemoveNote \/ RemoveDoc \/ SaveMetaOnly \/ SaveIndex
  <2>1. wpc \in ItemSteps
    BY <1>6 DEF PersistTerm, PersistNote, PersistDoc, EmbedNote, EmbedDoc, EmbedDocFails,
                RemoveTerm, RemoveNote, RemoveDoc, SaveMetaOnly, SaveIndex, ItemSteps
  <2>2. job' = job /\ wpc' \in {"embed", "saveMeta", "saveFull", "publish"}
    BY <1>6 DEF PersistTerm, PersistNote, PersistDoc, EmbedNote, EmbedDoc, EmbedDocFails,
                RemoveTerm, RemoveNote, RemoveDoc, SaveMetaOnly, SaveIndex
  <2>3. job'.op # "index"
    BY <2>1, <2>2 DEF JobInv
  <2>4. QED
    BY <2>2, <2>3
<1>7. CASE Scan
  <2>1. wpc' = "read" /\ UNCHANGED <<notes, copy>>
    BY <1>7 DEF Scan, durable
  <2>2. ASSUME NEW n \in Notes
        PROVE  plan'[n] = IF notes[n] # NoNote /\ Changed(n, notes[n].ts)
                          THEN [hash |-> notes[n].ts, emb |-> notes[n].content] ELSE NoEntry
    BY <1>0, <1>7 DEF Scan
  <2>3. ASSUME NEW n \in Notes
        PROVE  [hash |-> notes[n].ts, emb |-> notes[n].content] # NoEntry
    BY <1>0, DaemonAssumption DEF Entry, Note
  <2>4. ASSUME NEW n \in Notes, plan'[n] # NoEntry
        PROVE  notes[n] # NoNote /\ plan'[n].hash = notes[n].ts
    <3>1. CASE notes[n] # NoNote /\ Changed(n, notes[n].ts)
      <4>1. plan'[n] = [hash |-> notes[n].ts, emb |-> notes[n].content]
        BY <2>2, <3>1
      <4>2. QED
        BY <3>1, <4>1
    <3>2. CASE ~(notes[n] # NoNote /\ Changed(n, notes[n].ts))
      BY <2>2, <2>4, <3>2
    <3>3. QED
      BY <3>1, <3>2
  <2>5. ASSUME NEW n \in Notes, plan'[n] = NoEntry, notes[n] # NoNote
        PROVE  copy[n].hash = notes[n].ts
    BY <2>2, <2>3, <2>5 DEF Changed
  <2>6. QED
    BY <2>1, <2>4, <2>5
<1>8. CASE ReadFiles
  <2>1. wpc = "read" /\ wpc' = "merge" /\ UNCHANGED <<notes, copy>>
    BY <1>8 DEF ReadFiles, durable
  <2>2. \A n \in Notes : plan'[n] = plan[n]
    BY <1>0, <1>8, DaemonAssumption DEF ReadFiles
  <2>3. QED
    BY <2>1, <2>2
<1>9. ASSUME NEW lost \in SUBSET Planned, Merge(lost) PROVE NotesCurrent'
  <2>1. wpc = "merge" /\ wpc' = "reload" /\ UNCHANGED notes
    BY <1>9 DEF Merge, durable
  <2>2. ASSUME NEW n \in Notes, copy'[n] # NoEntry
        PROVE  notes[n] # NoNote /\ copy'[n].hash = notes[n].ts
    <3>1. CASE n \in Planned \ lost
      BY <1>0, <1>9, <2>1, <3>1 DEF Merge, Planned
    <3>2. CASE n \notin Planned \ lost
      <4>1. n \in Kept /\ copy'[n] = copy[n]
        BY <1>0, <1>9, <2>2, <3>2 DEF Merge
      <4>2. plan[n] = NoEntry /\ notes[n] # NoNote
        BY <1>0, <4>1 DEF Kept, Planned
      <4>3. QED
        BY <2>1, <4>1, <4>2
    <3>3. QED
      BY <3>1, <3>2
  <2>3. QED
    BY <2>1, <2>2
<1>10. CASE Reload
  BY <1>10 DEF Reload, durable, JobInv, IndexSteps
<1>11. CASE SaveAll
  <2>1. wpc = "saveAll" /\ wpc' = "publish" /\ notes' = notes /\ copy' = copy /\ job' = job
    BY <1>11 DEF SaveAll, locals
  <2>2. QED
    BY <2>1
<1>12. QED
  BY <1>1, <1>2, <1>3, <1>4, <1>5, <1>6, <1>7, <1>8, <1>9, <1>10, <1>11
     DEF Next, Worker, Outside, Fails

LEMMA PublishedNotesMatch ==
  ASSUME JobInv, NotesCurrent, Publish, job.op = "index", NEW n \in Notes, snap'[n] # NoEntry
  PROVE  notes[n] # NoNote /\ snap'[n].hash = notes[n].ts
BY DEF NotesCurrent, Matches, Publish, At

\* run_index with adds, removals, failures and crashes around it: the notes of
\* the snapshot it publishes are notes of the store, at their timestamp.
THEOREM IndexJobRepairsNotes == Spec => IndexRepairsNotes
<1>1. Init => JobInv /\ NotesCurrent
  BY InitSafe
<1>2. JobInv /\ NotesCurrent /\ [Next]_vars => (JobInv /\ NotesCurrent)'
  BY NextJobInv, NextNotesCurrent
<1>3. JobInv /\ NotesCurrent /\ [Next]_vars =>
        [Publish /\ job.op = "index"
           => \A n \in Notes : snap'[n] # NoEntry
                => notes[n] # NoNote /\ snap'[n].hash = notes[n].ts]_vars
  BY PublishedNotesMatch
<1>4. QED
  BY <1>1, <1>2, <1>3, PTL DEF Spec, IndexRepairsNotes

-----------------------------------------------------------------------------
(* A file's status.                                                        *)

DocAdd(j) == j.op = "add" /\ j.key \in Docs

\* Versions that no text still to be written over the daemon has.
Seen == {v \in 0 .. version :
           /\ \A i \in DOMAIN queue : DocAdd(queue[i]) => queue[i].content # v
           /\ DocAdd(job) /\ wpc = "persist" => job.content # v}

\* The texts of documents still to be written are versions of their own.
TextsToCome ==
  /\ \A i \in DOMAIN queue : DocAdd(queue[i]) =>
       /\ queue[i].content \in 1 .. version
       /\ \A j \in DOMAIN queue \ {i} : DocAdd(queue[j]) => queue[j].content # queue[i].content
  /\ DocAdd(job) /\ wpc = "persist" =>
       /\ job.content \in 1 .. version
       /\ \A i \in DOMAIN queue : DocAdd(queue[i]) => queue[i].content # job.content

\* An entry that will not be taken for current when the file has moved on.
Sound(entry, d) ==
  /\ entry.hash \in Seen
  /\ files[d] # Empty /\ entry.hash = files[d] => entry.emb = files[d]
SoundIn(table) == \A d \in Docs : table[d] # NoEntry => Sound(table[d], d)

FilesSeen == \A d \in Docs : files[d] \in Seen

\* Every table an entry can come from, and where an add of a document stands.
TablesSound ==
  /\ SoundIn(snap) /\ SoundIn(copy) /\ SoundIn(db)
  /\ \A d \in Docs : plan[d] # NoEntry => plan[d].hash \in Seen
  /\ wpc # "read" => SoundIn(plan)
AddCurrent ==
  /\ wpc = "embed" => copy = snap
  /\ wpc = "saveMeta" /\ job.key \in Docs =>
       copy[job.key] = snap[job.key] \/ (copy[job.key] # NoEntry /\ copy[job.key].hash = 0)
StatusInv == TextsToCome /\ FilesSeen /\ TablesSound /\ AddCurrent

\* A file only ever gets a version that was not seen before.
FilesMove ==
  /\ Seen \subseteq Seen'
  /\ \A d \in Docs : files'[d] \in {files[d], Empty} \/ files'[d] \notin Seen

\* Then an entry that was sound stays sound.
LEMMA EntryStays ==
  ASSUME FilesMove, NEW d \in Docs, NEW e, Sound(e, d)
  PROVE  e.hash \in Seen' /\ (files'[d] # Empty /\ e.hash = files'[d] => e.emb = files'[d])
BY DEF FilesMove, Sound

\* A handler's submission moves no file; the text of a document is a new version.
LEMMA SubmitMoves ==
  ASSUME TypeOK, TextsToCome, FilesSeen, NEW c \in Clients, NEW j \in Job, Submit(c, j),
         version' \in Nat, version <= version',
         DocAdd(j) => j.content = version' /\ version' = version + 1
  PROVE  FilesMove /\ TextsToCome' /\ FilesSeen'
<1>1. /\ queue' = Append(queue, j) /\ queue \in Seq(Job) /\ version \in Nat
      /\ UNCHANGED <<files, job, wpc>>
  BY DEF Submit, TypeOK
<1>2. /\ DOMAIN queue' = DOMAIN queue \cup {Len(queue) + 1} /\ Len(queue) + 1 \notin DOMAIN queue
      /\ queue'[Len(queue) + 1] = j /\ \A i \in DOMAIN queue : queue'[i] = queue[i]
  BY <1>1, AppendProperties
<1>3. Seen \subseteq Seen'
  BY <1>1, <1>2 DEF Seen, DocAdd
<1>4. TextsToCome'
  BY <1>1, <1>2 DEF TextsToCome, DocAdd
<1> QED BY <1>1, <1>3, <1>4 DEF FilesMove, FilesSeen

\* An index job queued is no document's text.
LEMMA AppendIndexMoves ==
  ASSUME TypeOK, TextsToCome, FilesSeen, NEW force \in BOOLEAN,
         queue' = Append(queue, IndexJob(force)), UNCHANGED <<files, job, wpc, version>>
  PROVE  FilesMove /\ TextsToCome' /\ FilesSeen'
<1>1. queue \in Seq(Job) /\ IndexJob(force) \in Job
  BY IndexJobIsJob DEF TypeOK
<1>2. /\ DOMAIN queue' = DOMAIN queue \cup {Len(queue) + 1}
      /\ queue'[Len(queue) + 1] = IndexJob(force) /\ \A i \in DOMAIN queue : queue'[i] = queue[i]
  BY <1>1, AppendProperties
<1>3. ~DocAdd(IndexJob(force))
  BY DEF DocAdd, IndexJob
<1>4. Seen \subseteq Seen'
  BY <1>2, <1>3 DEF Seen, DocAdd
<1>5. TextsToCome'
  BY <1>2, <1>3 DEF TextsToCome, DocAdd
<1> QED BY <1>4, <1>5 DEF FilesMove, FilesSeen

\* The queue and the job as they were, or no add about to persist, or no queue.
LEMMA QuietMoves ==
  ASSUME TypeOK, TextsToCome, FilesSeen, UNCHANGED <<files, version>>,
         queue' = queue \/ queue' = <<>>,
         (job' = job /\ wpc' = wpc) \/ wpc' # "persist"
  PROVE  FilesMove /\ TextsToCome' /\ FilesSeen'
<1>1. Seen \subseteq Seen'
  BY DEF Seen, DocAdd
<1>2. TextsToCome'
  BY DEF TextsToCome, DocAdd
<1> QED BY <1>1, <1>2 DEF FilesMove, FilesSeen

LEMMA EditMoves ==
  ASSUME TypeOK, TextsToCome, FilesSeen, Edit
  PROVE  FilesMove /\ TextsToCome' /\ FilesSeen'
<1>1. PICK d \in Docs, v \in {Empty, version'} : files' = [files EXCEPT ![d] = v]
  BY DEF Edit
<1>2. version' = version + 1 /\ version \in Nat /\ UNCHANGED <<queue, job, wpc>>
  BY DEF Edit, TypeOK
<1>3. files \in [Docs -> Nat]
  BY DEF TypeOK
<1>4. Seen \subseteq Seen' /\ version' \notin Seen
  BY <1>2 DEF Seen, DocAdd
<1>5. TextsToCome'
  BY <1>2 DEF TextsToCome, DocAdd
<1>6. Empty \in Seen' /\ version' \in Seen'
  BY <1>2 DEF Seen, TextsToCome, DocAdd, Empty
<1>7. FilesMove
  BY <1>1, <1>3, <1>4 DEF FilesMove
<1>8. FilesSeen'
  BY <1>1, <1>3, <1>4, <1>6 DEF FilesSeen
<1> QED BY <1>5, <1>7, <1>8

LEMMA PersistDocMoves ==
  ASSUME TypeOK, TextsToCome, FilesSeen, PersistDoc
  PROVE  FilesMove /\ TextsToCome' /\ FilesSeen'
<1>1. /\ DocAdd(job) /\ wpc = "persist" /\ wpc' = "embed"
      /\ files' = [files EXCEPT ![job.key] = job.content]
      /\ UNCHANGED <<queue, job, version>> /\ files \in [Docs -> Nat]
  BY DEF PersistDoc, At, Goto, DocAdd, env, TypeOK
<1>2. Seen \subseteq Seen' /\ TextsToCome'
  BY <1>1 DEF Seen, TextsToCome, DocAdd
<1>3. job.content \notin Seen /\ job.content \in Seen'
  BY <1>1 DEF Seen, TextsToCome, DocAdd
<1>4. FilesMove
  BY <1>1, <1>2, <1>3 DEF FilesMove
<1>5. FilesSeen'
  BY <1>1, <1>2, <1>3 DEF FilesSeen
<1> QED BY <1>2, <1>4, <1>5

LEMMA RemoveDocMoves ==
  ASSUME TypeOK, TextsToCome, FilesSeen, RemoveDoc
  PROVE  FilesMove /\ TextsToCome' /\ FilesSeen'
<1>1. /\ wpc' # "persist" /\ files' = [files EXCEPT ![job.key] = Empty]
      /\ UNCHANGED <<queue, job, version>> /\ files \in [Docs -> Nat] /\ version \in Nat
  BY DEF RemoveDoc, Goto, env, TypeOK
<1>2. Seen \subseteq Seen' /\ TextsToCome' /\ Empty \in Seen'
  BY <1>1 DEF Seen, TextsToCome, DocAdd, Empty
<1>3. FilesMove /\ FilesSeen'
  BY <1>1, <1>2 DEF FilesMove, FilesSeen
<1> QED BY <1>2, <1>3

LEMMA StartMoves ==
  ASSUME TypeOK, TextsToCome, FilesSeen, Start
  PROVE  FilesMove /\ TextsToCome' /\ FilesSeen'
<1>1. /\ queue \in Seq(Job) /\ queue # <<>> /\ wpc = "idle"
      /\ job' = Head(queue) /\ queue' = Tail(queue) /\ UNCHANGED <<files, version>>
  BY DEF Start, At, TypeOK, env
<1>2. /\ 1 \in DOMAIN queue /\ job' = queue[1]
      /\ \A i \in DOMAIN queue' : i + 1 \in DOMAIN queue \ {1} /\ queue'[i] = queue[i + 1] /\ i \in Nat
  BY <1>1, HeadTailProperties
<1>3. Seen \subseteq Seen'
  BY <1>1, <1>2 DEF Seen, DocAdd
<1>4. TextsToCome'
  BY <1>1, <1>2 DEF TextsToCome, DocAdd
<1> QED BY <1>1, <1>3, <1>4 DEF FilesMove, FilesSeen

LEMMA NextFilesMove ==
  ASSUME JobInv, TextsToCome, FilesSeen, [Next]_vars
  PROVE  FilesMove /\ TextsToCome' /\ FilesSeen'
<1>0. TypeOK
  BY DEF JobInv
<1> USE <1>0 DEF At, Goto, durable, locals, env
<1>1. ASSUME NEW c \in Clients, Handler(c) PROVE FilesMove /\ TextsToCome' /\ FilesSeen'
  <2>0. version \in Nat
    BY DEF TypeOK
  <2>1. CASE AddItem(c)
    <3>1. PICK k \in Items, x \in Contents :
            Submit(c, [op |-> "add", key |-> k, content |-> x, force |-> FALSE, client |-> c])
      BY <2>1 DEF AddItem
    <3>2. [op |-> "add", key |-> k, content |-> x, force |-> FALSE, client |-> c] \in Job
      BY DaemonAssumption DEF Job, Contents
    <3>3. k \notin Docs /\ version' = version
      BY <2>1, DaemonAssumption DEF AddItem, Items
    <3>4. QED
      BY <2>0, <3>1, <3>2, <3>3, SubmitMoves DEF DocAdd
  <2>2. CASE AddDoc(c)
    <3>1. PICK d \in Docs :
            Submit(c, [op |-> "add", key |-> d, content |-> version', force |-> FALSE, client |-> c])
      BY <2>2 DEF AddDoc
    <3>2. version' = version + 1
      BY <2>2 DEF AddDoc
    <3>3. [op |-> "add", key |-> d, content |-> version', force |-> FALSE, client |-> c] \in Job
      BY <2>0, <3>2 DEF Job
    <3>4. QED
      BY <2>0, <3>1, <3>2, <3>3, SubmitMoves
  <2>3. CASE Remove(c)
    <3>1. PICK k \in Items \cup Docs :
            Submit(c, [op |-> "rm", key |-> k, content |-> Empty, force |-> FALSE, client |-> c])
      BY <2>3 DEF Remove
    <3>2. [op |-> "rm", key |-> k, content |-> Empty, force |-> FALSE, client |-> c] \in Job
      BY DEF Job, Empty
    <3>3. version' = version
      BY <2>3 DEF Remove
    <3>4. QED
      BY <2>0, <3>1, <3>2, <3>3, SubmitMoves DEF DocAdd
  <2>4. CASE Reply(c)
    BY <2>4, QuietMoves DEF Reply
  <2>5. QED
    BY <1>1, <2>1, <2>2, <2>3, <2>4 DEF Handler
<1>2. CASE RequestIndex \/ WatcherFires
  <2>1. PICK force \in BOOLEAN : queue' = Append(queue, IndexJob(force))
    BY <1>2, Zenon DEF RequestIndex, WatcherFires
  <2>2. UNCHANGED <<files, job, wpc, version>>
    BY <1>2 DEF RequestIndex, WatcherFires
  <2>3. QED
    BY <2>1, <2>2, AppendIndexMoves
<1>3. CASE Edit
  BY <1>3, EditMoves
<1>4. CASE PersistDoc
  BY <1>4, PersistDocMoves
<1>5. CASE RemoveDoc
  BY <1>5, RemoveDocMoves
<1>6. CASE Start
  BY <1>6, StartMoves
<1>7. CASE Fails \/ Publish \/ Crash
  <2>1. UNCHANGED <<files, version>> /\ wpc' = "idle" /\ (queue' = queue \/ queue' = <<>>)
    BY <1>7 DEF Fails, Reject, EmbedNoteFails, JobThrows, Publish, Finish, Crash
  <2>2. QED
    BY <2>1, QuietMoves
<1>8. CASE PersistTerm \/ PersistNote \/ EmbedNote \/ EmbedDoc \/ EmbedDocFails \/ RemoveTerm
           \/ RemoveNote \/ SaveMetaOnly \/ SaveIndex
  <2>1. UNCHANGED <<files, version, queue>> /\ wpc' # "persist"
    BY <1>8 DEF PersistTerm, PersistNote, EmbedNote, EmbedDoc, EmbedDocFails, RemoveTerm,
                RemoveNote, SaveMetaOnly, SaveIndex
  <2>2. QED
    BY <2>1, QuietMoves
<1>9. CASE Scan \/ ReadFiles \/ Reload \/ SaveAll \/ (\E lost \in SUBSET Planned : Merge(lost))
  <2>1. UNCHANGED <<files, version, queue>> /\ wpc' # "persist"
    BY <1>9 DEF Scan, ReadFiles, Reload, SaveAll, Merge
  <2>2. QED
    BY <2>1, QuietMoves
<1>10. CASE Restart \/ Tick \/ UNCHANGED vars
  <2>1. UNCHANGED <<files, version, queue, job, wpc>>
    BY <1>10 DEF Restart, Tick, vars
  <2>2. QED
    BY <2>1, QuietMoves
<1>11. QED
  BY <1>1, <1>2, <1>3, <1>4, <1>5, <1>6, <1>7, <1>8, <1>9, <1>10 DEF Next, Worker, Fails

\* Where the entries of a document come from in a step: entries that were sound.
LEMMA TablesStay ==
  ASSUME FilesMove,
         \A d \in Docs : snap'[d] # NoEntry => Sound(snap'[d], d),
         \A d \in Docs : copy'[d] # NoEntry => Sound(copy'[d], d),
         \A d \in Docs : db'[d] # NoEntry => Sound(db'[d], d),
         \A d \in Docs : plan'[d] # NoEntry => plan'[d].hash \in Seen,
         wpc' # "read" => \A d \in Docs : plan'[d] # NoEntry => Sound(plan'[d], d)
  PROVE  TablesSound'
BY EntryStays DEF TablesSound, SoundIn, Sound, FilesMove

\* A document's entry written by save_index_meta_only: its vector is the old
\* row's, which the snapshot shares, unless the entry is never current.
LEMMA MetaOnlySound ==
  ASSUME JobInv, CopyCurrent, SavedInv, StatusInv, SaveMetaOnly,
         NEW d \in Docs, db'[d] # NoEntry
  PROVE  Sound(db'[d], d)
<1>0. /\ up /\ wpc = "saveMeta" /\ job.op # "index" /\ db' = MetaOnly(copy, db) /\ d \in Keys
      /\ copy \in Table /\ snap \in Table /\ db \in Table
  BY DEF SaveMetaOnly, At, JobInv, ItemSteps, Keys, TypeOK
<1>1. copy[d] # NoEntry /\ Sound(copy[d], d)
  BY <1>0 DEF MetaOnly, StatusInv, TablesSound, SoundIn
<1>2. db'[d].hash = copy[d].hash /\ (db[d] # NoEntry => db'[d].emb = db[d].emb)
  BY <1>0, <1>1 DEF MetaOnly
<1>3. ASSUME files[d] # Empty, copy[d].hash = files[d] PROVE db'[d].emb = files[d]
  <2>1. copy[d] = snap[d]
    BY <1>0, <1>3 DEF CopyCurrent, StatusInv, AddCurrent, Empty
  <2>2. db[d] # NoEntry /\ db[d].hash = copy[d].hash
    BY <1>0, <1>1, <2>1 DEF SavedInv, SavedIsPublished, SameRows
  <2>3. db[d].emb = files[d]
    BY <1>3, <2>2 DEF StatusInv, TablesSound, SoundIn, Sound
  <2>4. QED
    BY <1>2, <2>2, <2>3
<1>4. QED
  BY <1>1, <1>2, <1>3 DEF Sound

LEMMA NextAddCurrent == JobInv /\ AddCurrent /\ [Next]_vars => AddCurrent'
<1> SUFFICES ASSUME JobInv, AddCurrent, [Next]_vars PROVE AddCurrent'
  OBVIOUS
<1> USE DEF AddCurrent, At, Goto
<1>1. CASE Outside
  BY <1>1, OutsideIsQuiet DEF core, locals
<1>2. CASE Fails \/ Publish \/ Crash \/ Restart
  BY <1>2, FailsIsQuiet DEF Publish, Finish, Crash, Restart, JobInv
<1>3. CASE Start \/ Scan \/ ReadFiles \/ Reload \/ SaveAll \/ SaveMetaOnly \/ SaveIndex
           \/ PersistTerm \/ RemoveTerm \/ RemoveDoc \/ (\E lost \in SUBSET Planned : Merge(lost))
  <2>1. wpc' \notin {"embed", "saveMeta"}
    BY <1>3 DEF Start, Scan, ReadFiles, Reload, SaveAll, SaveMetaOnly, SaveIndex, PersistTerm,
                RemoveTerm, RemoveDoc, Merge
  <2>2. QED
    BY <2>1
<1>4. CASE PersistNote \/ PersistDoc
  BY <1>4 DEF PersistNote, PersistDoc, locals, JobInv
<1>5. CASE EmbedNote \/ RemoveNote
  <2>1. job' = job /\ job.key \notin Docs /\ wpc' = "saveMeta"
    BY <1>5, DaemonAssumption DEF EmbedNote, RemoveNote
  <2>2. QED
    BY <2>1
<1>6. CASE EmbedDoc
  <2>1. copy \in [Keys -> Entry \cup {NoEntry}] /\ job.key \in Keys
    BY <1>6 DEF EmbedDoc, JobInv, TypeOK, Table, Keys
  <2>2. [hash |-> 0, emb |-> job.content] # NoEntry
    BY DaemonAssumption DEF JobInv, TypeOK, Job, Entry
  <2>3. copy'[job.key] = [hash |-> 0, emb |-> job.content] /\ job' = job /\ wpc' = "saveMeta"
    BY <1>6, <2>1 DEF EmbedDoc
  <2>4. QED
    BY <2>2, <2>3
<1>7. CASE EmbedDocFails
  BY <1>7 DEF EmbedDocFails, locals
<1>8. QED
  BY <1>1, <1>2, <1>3, <1>4, <1>5, <1>6, <1>7 DEF Next, Worker, Outside, Fails

LEMMA NextTablesSound ==
  ASSUME JobInv, CopyCurrent, SavedInv, StatusInv, FilesMove, [Next]_vars
  PROVE  TablesSound'
<1> USE DEF StatusInv, TablesSound, SoundIn, At, Goto
<1>0. Docs \subseteq Keys /\ Docs \cap Notes = {}
      /\ snap \in Table /\ copy \in Table /\ db \in Table /\ plan \in Table
  BY DaemonAssumption DEF Keys, JobInv, TypeOK
<1>1. \A d \in Docs : Blank[d] = NoEntry
  BY <1>0 DEF Blank
<1>2. CASE Outside
  BY <1>2, OutsideIsQuiet, TablesStay DEF core, locals
<1>3. CASE Fails
  <2>1. copy' = Blank /\ plan' = Blank /\ UNCHANGED <<snap, db>>
    BY <1>3 DEF Fails, Reject, EmbedNoteFails, JobThrows, Finish, durable
  <2>2. QED
    BY <1>1, <2>1, TablesStay
<1>4. CASE Publish
  <2>1. copy' = Blank /\ plan' = Blank /\ snap' = copy /\ db' = db
    BY <1>4 DEF Publish, Finish, durable
  <2>2. QED
    BY <1>1, <2>1, TablesStay
<1>5. CASE Crash
  <2>1. copy' = Blank /\ plan' = Blank /\ snap' = Blank /\ db' = db
    BY <1>5 DEF Crash, durable
  <2>2. QED
    BY <1>1, <2>1, TablesStay
<1>6. CASE Restart
  <2>1. snap' = db /\ wpc' = wpc /\ UNCHANGED <<copy, plan, db>>
    BY <1>6 DEF Restart, locals, durable
  <2>2. QED
    BY <2>1, TablesStay
<1>7. CASE Start
  <2>1. copy' = snap /\ wpc # "read" /\ UNCHANGED <<snap, plan, db>>
    BY <1>7 DEF Start, durable
  <2>2. QED
    BY <2>1, TablesStay
<1>8. CASE PersistTerm \/ PersistNote \/ PersistDoc \/ RemoveTerm \/ RemoveDoc \/ EmbedDocFails
           \/ Reload
  <2>1. wpc # "read" /\ UNCHANGED <<snap, copy, plan, db>>
    BY <1>8 DEF PersistTerm, PersistNote, PersistDoc, RemoveTerm, RemoveDoc, EmbedDocFails, Reload,
                locals, durable
  <2>2. QED
    BY <2>1, TablesStay
<1>9. CASE EmbedNote \/ RemoveNote
  <2>1. wpc # "read" /\ UNCHANGED <<snap, plan, db>>
    BY <1>9 DEF EmbedNote, RemoveNote, durable
  <2>2. \A d \in Docs : copy'[d] = copy[d]
    BY <1>0, <1>9 DEF EmbedNote, RemoveNote, Table
  <2>3. QED
    BY <2>1, <2>2, TablesStay
<1>10. CASE EmbedDoc
  <2>1. wpc # "read" /\ UNCHANGED <<snap, plan, db>>
        /\ copy' = [copy EXCEPT ![job.key] = [hash |-> 0, emb |-> job.content]]
    BY <1>10 DEF EmbedDoc, durable
  <2>2. 0 \in Seen
    BY DEF Seen, TextsToCome, JobInv, TypeOK
  <2>3. \A d \in Docs : copy'[d] # NoEntry => Sound(copy'[d], d)
    BY <1>0, <2>1, <2>2 DEF Table, Sound, Empty
  <2>4. QED
    BY <2>1, <2>3, TablesStay
<1>11. CASE SaveMetaOnly
  <2>1. wpc # "read" /\ UNCHANGED <<snap, copy, plan>>
    BY <1>11 DEF SaveMetaOnly, locals
  <2>2. \A d \in Docs : db'[d] # NoEntry => Sound(db'[d], d)
    BY <1>11, MetaOnlySound
  <2>3. QED
    BY <2>1, <2>2, TablesStay
<1>12. CASE SaveIndex \/ SaveAll
  <2>1. wpc # "read" /\ db' = copy /\ UNCHANGED <<snap, copy, plan>>
    BY <1>12 DEF SaveIndex, SaveAll, locals
  <2>2. QED
    BY <2>1, TablesStay
<1>13. CASE Scan
  <2>1. wpc' = "read" /\ UNCHANGED <<snap, copy, db>>
    BY <1>13 DEF Scan, durable
  <2>2. ASSUME NEW d \in Docs, plan'[d] # NoEntry PROVE plan'[d].hash \in Seen
    <3>1. plan'[d] = [hash |-> files[d], emb |-> Empty]
      BY <1>0, <1>13, <2>2 DEF Scan
    <3>2. plan'[d].hash = files[d]
      BY <3>1
    <3>3. QED
      BY <3>2, Zenon DEF FilesSeen
  <2>3. QED
    BY <2>1, <2>2, TablesStay
<1>14. CASE ReadFiles
  <2>1. UNCHANGED <<snap, copy, db>>
    BY <1>14 DEF ReadFiles, durable
  <2>2. ASSUME NEW d \in Docs, plan'[d] # NoEntry
        PROVE  plan[d] # NoEntry /\ plan'[d] = [plan[d] EXCEPT !.emb = files[d]]
    BY <1>0, <1>14, <2>2 DEF ReadFiles
  <2>3. \A d \in Docs : plan[d] # NoEntry => plan[d] \in [hash : Nat, emb : Nat]
    BY <1>0 DEF Table, Entry
  <2>4. \A d \in Docs : plan'[d] # NoEntry => plan'[d].hash \in Seen /\ plan'[d].emb = files[d]
    BY <2>2, <2>3
  <2>5. \A d \in Docs : plan'[d] # NoEntry => Sound(plan'[d], d)
    BY <2>4 DEF Sound
  <2>6. QED
    BY <2>1, <2>4, <2>5, TablesStay
<1>15. ASSUME NEW lost \in SUBSET Planned, Merge(lost) PROVE TablesSound'
  <2>1. wpc = "merge" /\ UNCHANGED <<snap, plan, db>>
    BY <1>15 DEF Merge, durable
  <2>2. \A d \in Docs : copy'[d] \in {plan[d], copy[d], NoEntry}
    BY <1>0, <1>15 DEF Merge
  <2>3. \A d \in Docs : copy'[d] # NoEntry => Sound(copy'[d], d)
    BY <2>1, <2>2
  <2>4. QED
    BY <2>1, <2>3, TablesStay
<1>16. QED
  BY <1>2, <1>3, <1>4, <1>5, <1>6, <1>7, <1>8, <1>9, <1>10, <1>11, <1>12, <1>13, <1>14, <1>15
     DEF Next, Worker, Outside, Fails

LEMMA InitStatus == Init => StatusInv
<1> SUFFICES ASSUME Init PROVE StatusInv
  OBVIOUS
<1>1. DOMAIN queue = {} /\ wpc = "idle" /\ version = 0 /\ \A d \in Docs : files[d] = 0
  BY DEF Init, Empty
<1>2. TextsToCome /\ FilesSeen /\ AddCurrent
  BY <1>1 DEF TextsToCome, FilesSeen, AddCurrent, Seen
<1>3. \A d \in Docs : Blank[d] = NoEntry
  BY DEF Blank, Keys
<1>4. TablesSound
  BY <1>3 DEF Init, TablesSound, SoundIn
<1>5. QED
  BY <1>2, <1>4 DEF StatusInv

\* Edits at any moment of an index job, adds and removals over the daemon,
\* failed embeddings, crashes and restarts, for any number of files: an entry
\* that search shows as current was embedded from the file's present text.
THEOREM FileStatusIsSound == Spec => []DocStatusSound
<1> DEFINE IInv == JobInv /\ CopyCurrent /\ SavedInv /\ StatusInv
<1>1. Init => IInv
  BY InitSafe, InitStatus
<1>2. IInv /\ [Next]_vars => IInv'
  <2> SUFFICES ASSUME IInv, [Next]_vars PROVE IInv'
    OBVIOUS
  <2>1. JobInv' /\ CopyCurrent' /\ SavedInv'
    BY NextJobInv, NextCopyCurrent, NextSaved
  <2>2. FilesMove /\ TextsToCome' /\ FilesSeen'
    BY NextFilesMove DEF StatusInv
  <2>3. TablesSound'
    BY <2>2, NextTablesSound
  <2>4. AddCurrent'
    BY NextAddCurrent DEF StatusInv
  <2>5. QED
    BY <2>1, <2>2, <2>3, <2>4 DEF StatusInv
<1>3. IInv => DocStatusSound
  BY DEF StatusInv, TablesSound, SoundIn, Sound, DocStatusSound
<1>4. QED
  BY <1>1, <1>2, <1>3, PTL DEF Spec

-----------------------------------------------------------------------------
(* The knowledge is a linearizable store.                                  *)

\* A handler's job asks for what the abstract store offers.
Proper(j) ==
  j.key \in Items => \/ j.op = "add" /\ j.content \in Contents
                     \/ j.op = "rm" /\ j.content = Empty

\* A job queued or run is nobody's, or that of the handler that waits for it.
Held(j) ==
  IF j.op = "index" THEN j.client = NoClient
  ELSE /\ j.client \in Clients /\ j.key \in Items \cup Docs /\ Proper(j)
       /\ hpc[j.client] = "waiting" /\ req[j.client] = j

\* A handler has at most one job, and a stored note has a content.
ClientsInv ==
  /\ wpc = "idle" => job = NoJob
  /\ Held(job)
  /\ \A i \in DOMAIN queue :
       /\ Held(queue[i])
       /\ queue[i].op # "index" =>
            /\ queue[i].client # job.client
            /\ \A j \in DOMAIN queue \ {i} : queue[j].client # queue[i].client
NotesHaveContent == \A n \in Notes : notes[n] = NoNote \/ notes[n].content # Empty

LEMMA NoJobIsIndex == NoJob.op = "index" /\ NoJob.client = NoClient
BY DEF NoJob, IndexJob

LEMMA SubmitHeld ==
  ASSUME TypeOK, ClientsInv, NEW c \in Clients, NEW j \in Job, Submit(c, j),
         j.op # "index", j.client = c, j.key \in Items \cup Docs, Proper(j)
  PROVE  ClientsInv'
<1>1. /\ queue' = Append(queue, j) /\ queue \in Seq(Job) /\ UNCHANGED <<job, wpc>>
      /\ hpc[c] = "idle" /\ req' = [req EXCEPT ![c] = j]
      /\ hpc' = [hpc EXCEPT ![c] = "waiting"]
      /\ req \in [Clients -> Job] /\ hpc \in [Clients -> {"idle", "waiting", "ok", "err"}]
  BY DEF Submit, TypeOK
<1>2. /\ DOMAIN queue' = DOMAIN queue \cup {Len(queue) + 1} /\ Len(queue) + 1 \notin DOMAIN queue
      /\ queue'[Len(queue) + 1] = j /\ \A i \in DOMAIN queue : queue'[i] = queue[i]
  BY <1>1, AppendProperties
<1>3. job.client # c /\ \A i \in DOMAIN queue : queue[i].client # c
  BY <1>1, DaemonAssumption DEF ClientsInv, Held
<1>4. Held(job)' /\ (wpc' = "idle" => job' = NoJob)
  BY <1>1, <1>3 DEF ClientsInv, Held, Proper
<1>5. \A i \in DOMAIN queue : Held(queue[i])'
  BY <1>1, <1>2, <1>3 DEF ClientsInv, Held, Proper
<1>6. ASSUME NEW i \in DOMAIN queue' PROVE Held(queue[i])'
  BY <1>1, <1>2, <1>5 DEF Held, Proper
<1>7. ASSUME NEW i \in DOMAIN queue', queue'[i].op # "index"
      PROVE  /\ queue'[i].client # job'.client
             /\ \A k \in DOMAIN queue' \ {i} : queue'[k].client # queue'[i].client
  BY <1>1, <1>2, <1>3, <1>7 DEF ClientsInv
<1> QED BY <1>4, <1>6, <1>7 DEF ClientsInv

LEMMA AppendIndexHeld ==
  ASSUME TypeOK, ClientsInv, NEW force \in BOOLEAN, queue' = Append(queue, IndexJob(force)),
         UNCHANGED <<job, wpc, req, hpc>>
  PROVE  ClientsInv'
<1>1. queue \in Seq(Job) /\ IndexJob(force) \in Job
      /\ IndexJob(force).op = "index" /\ IndexJob(force).client = NoClient
  BY IndexJobIsJob DEF TypeOK, IndexJob
<1>2. /\ DOMAIN queue' = DOMAIN queue \cup {Len(queue) + 1}
      /\ queue'[Len(queue) + 1] = IndexJob(force) /\ \A i \in DOMAIN queue : queue'[i] = queue[i]
  BY <1>1, AppendProperties
<1>3. Held(job)' /\ (wpc' = "idle" => job' = NoJob)
  BY DEF ClientsInv, Held
<1>4. \A i \in DOMAIN queue' : Held(queue[i])'
  BY <1>1, <1>2 DEF ClientsInv, Held
<1>5. ASSUME NEW i \in DOMAIN queue', queue'[i].op # "index"
      PROVE  /\ queue'[i].client # job'.client
             /\ \A k \in DOMAIN queue' \ {i} : queue'[k].client # queue'[i].client
  <2>1. i \in DOMAIN queue /\ queue'[i] = queue[i] /\ queue[i].client \in Clients
    BY <1>1, <1>2, <1>5 DEF ClientsInv, Held
  <2>2. QED
    BY <1>1, <1>2, <1>5, <2>1, DaemonAssumption DEF ClientsInv
<1> QED BY <1>3, <1>4, <1>5 DEF ClientsInv

LEMMA StartHeld ==
  ASSUME TypeOK, ClientsInv, Start
  PROVE  ClientsInv'
<1>1. /\ queue \in Seq(Job) /\ queue # <<>> /\ wpc' # "idle"
      /\ job' = Head(queue) /\ queue' = Tail(queue) /\ UNCHANGED <<req, hpc>>
  BY DEF Start, TypeOK
<1>2. /\ 1 \in DOMAIN queue /\ job' = queue[1]
      /\ \A i \in DOMAIN queue' : i + 1 \in DOMAIN queue \ {1} /\ queue'[i] = queue[i + 1] /\ i \in Nat
  BY <1>1, HeadTailProperties
<1>3. Held(job)' /\ \A i \in DOMAIN queue' : Held(queue[i])'
  BY <1>1, <1>2 DEF ClientsInv, Held
<1>4. ASSUME NEW i \in DOMAIN queue', queue'[i].op # "index"
      PROVE  /\ queue'[i].client # job'.client
             /\ \A k \in DOMAIN queue' \ {i} : queue'[k].client # queue'[i].client
  <2>1. queue[i + 1].op # "index" /\ i + 1 \in DOMAIN queue \ {1} /\ queue'[i] = queue[i + 1]
    BY <1>2, <1>4
  <2>2. \A k \in DOMAIN queue \ {i + 1} : queue[k].client # queue[i + 1].client
    BY <2>1 DEF ClientsInv
  <2>3. ASSUME NEW k \in DOMAIN queue' \ {i} PROVE k + 1 \in DOMAIN queue \ {i + 1} /\ queue'[k] = queue[k + 1]
    BY <1>2, <1>4
  <2>4. QED
    BY <1>2, <2>1, <2>2, <2>3
<1> QED BY <1>1, <1>3, <1>4 DEF ClientsInv

\* Of a job that ends only the handler that waited for it is answered.
LEMMA FinishHeld ==
  ASSUME TypeOK, ClientsInv, NEW answer \in {"ok", "err"}, Finish(answer), UNCHANGED <<queue, req>>
  PROVE  ClientsInv'
<1>1. wpc' = "idle" /\ job' = NoJob
  BY DEF Finish
<1>2. ASSUME NEW c \in Clients, c # job.client PROVE hpc'[c] = hpc[c]
  <2>1. hpc \in [Clients -> {"idle", "waiting", "ok", "err"}]
    BY DEF TypeOK
  <2>2. CASE job.client \in Clients
    <3>1. hpc' = [hpc EXCEPT ![job.client] = answer]
      BY <2>2 DEF Finish
    <3>2. QED
      BY <1>2, <2>1, <3>1
  <2>3. CASE job.client \notin Clients
    <3>1. hpc' = hpc
      BY <2>3 DEF Finish
    <3>2. QED
      BY <3>1
  <2>4. QED
    BY <2>2, <2>3
<1>3. Held(job)'
  BY <1>1, NoJobIsIndex DEF Held
<1>4. ASSUME NEW i \in DOMAIN queue' PROVE Held(queue[i])'
  BY <1>2 DEF ClientsInv, Held
<1>5. ASSUME NEW i \in DOMAIN queue', queue'[i].op # "index"
      PROVE  queue'[i].client # NoClient
  BY <1>5, DaemonAssumption DEF ClientsInv, Held
<1> QED BY <1>1, <1>3, <1>4, <1>5, NoJobIsIndex DEF ClientsInv

LEMMA ReplyHeld ==
  ASSUME TypeOK, ClientsInv, NEW c \in Clients, Reply(c)
  PROVE  ClientsInv'
<1>1. /\ hpc[c] # "waiting" /\ UNCHANGED <<queue, job, wpc>>
      /\ \A b \in Clients \ {c} : hpc'[b] = hpc[b] /\ req'[b] = req[b]
  BY DEF Reply, TypeOK
<1>2. Held(job)' /\ \A i \in DOMAIN queue : Held(queue[i])'
  BY <1>1 DEF ClientsInv, Held
<1> QED BY <1>1, <1>2 DEF ClientsInv

LEMMA QuietHeld ==
  ASSUME ClientsInv, UNCHANGED <<queue, job, req, hpc>>, wpc' = wpc \/ wpc' # "idle"
  PROVE  ClientsInv'
<1>1. Held(job)' /\ \A i \in DOMAIN queue : Held(queue[i])'
  BY DEF ClientsInv, Held
<1> QED BY <1>1 DEF ClientsInv

LEMMA NextClientsInv ==
  ASSUME JobInv, ClientsInv, [Next]_vars
  PROVE  ClientsInv'
<1>0. TypeOK
  BY DEF JobInv
<1> USE <1>0 DEF At, Goto
<1>1. ASSUME NEW c \in Clients, Handler(c) PROVE ClientsInv'
  <2>1. CASE AddItem(c)
    <3>1. PICK k \in Items, x \in Contents :
            Submit(c, [op |-> "add", key |-> k, content |-> x, force |-> FALSE, client |-> c])
      BY <2>1 DEF AddItem
    <3>2. [op |-> "add", key |-> k, content |-> x, force |-> FALSE, client |-> c] \in Job
      BY DaemonAssumption DEF Job, Contents
    <3>3. QED
      BY <3>1, <3>2, SubmitHeld DEF Proper
  <2>2. CASE AddDoc(c)
    <3>1. PICK d \in Docs :
            Submit(c, [op |-> "add", key |-> d, content |-> version', force |-> FALSE, client |-> c])
      BY <2>2 DEF AddDoc
    <3>2. version' \in Nat /\ d \notin Items
      BY <2>2, DaemonAssumption DEF AddDoc, TypeOK, Items
    <3>3. [op |-> "add", key |-> d, content |-> version', force |-> FALSE, client |-> c] \in Job
      BY <3>2 DEF Job
    <3>4. QED
      BY <3>1, <3>2, <3>3, SubmitHeld DEF Proper
  <2>3. CASE Remove(c)
    <3>1. PICK k \in Items \cup Docs :
            Submit(c, [op |-> "rm", key |-> k, content |-> Empty, force |-> FALSE, client |-> c])
      BY <2>3 DEF Remove
    <3>2. [op |-> "rm", key |-> k, content |-> Empty, force |-> FALSE, client |-> c] \in Job
      BY DEF Job, Empty
    <3>3. QED
      BY <3>1, <3>2, SubmitHeld DEF Proper
  <2>4. CASE Reply(c)
    BY <2>4, ReplyHeld
  <2>5. QED
    BY <1>1, <2>1, <2>2, <2>3, <2>4 DEF Handler
<1>2. CASE RequestIndex \/ WatcherFires
  <2>1. PICK force \in BOOLEAN : queue' = Append(queue, IndexJob(force))
    BY <1>2, Zenon DEF RequestIndex, WatcherFires
  <2>2. UNCHANGED <<job, wpc, req, hpc>>
    BY <1>2 DEF RequestIndex, WatcherFires
  <2>3. QED
    BY <2>1, <2>2, AppendIndexHeld
<1>3. CASE Start
  BY <1>3, StartHeld
<1>4. CASE Fails \/ Publish
  <2>1. \E answer \in {"ok", "err"} : Finish(answer)
    BY <1>4 DEF Fails, Reject, EmbedNoteFails, JobThrows, Publish
  <2>2. UNCHANGED <<queue, req>>
    BY <1>4 DEF Fails, Reject, EmbedNoteFails, JobThrows, Publish
  <2>3. QED
    BY <2>1, <2>2, FinishHeld
<1>5. CASE PersistTerm \/ PersistNote \/ PersistDoc \/ EmbedNote \/ EmbedDoc \/ EmbedDocFails
           \/ RemoveTerm \/ RemoveNote \/ RemoveDoc \/ SaveMetaOnly \/ SaveIndex
  <2>1. UNCHANGED <<queue, job, req, hpc>> /\ wpc' # "idle"
    BY <1>5 DEF PersistTerm, PersistNote, PersistDoc, EmbedNote, EmbedDoc, EmbedDocFails,
                RemoveTerm, RemoveNote, RemoveDoc, SaveMetaOnly, SaveIndex
  <2>2. QED
    BY <2>1, QuietHeld
<1>6. CASE Scan \/ ReadFiles \/ Reload \/ SaveAll \/ (\E lost \in SUBSET Planned : Merge(lost))
  <2>1. UNCHANGED <<queue, job, req, hpc>> /\ wpc' # "idle"
    BY <1>6 DEF Scan, ReadFiles, Reload, SaveAll, Merge
  <2>2. QED
    BY <2>1, QuietHeld
<1>7. CASE Crash
  <2>1. job' = NoJob /\ queue' = <<>>
    BY <1>7 DEF Crash
  <2>2. Held(job)'
    BY <2>1, NoJobIsIndex DEF Held
  <2>3. QED
    BY <2>1, <2>2 DEF ClientsInv
<1>8. CASE Restart \/ Edit \/ Tick \/ UNCHANGED vars
  <2>1. UNCHANGED <<queue, job, req, hpc, wpc>>
    BY <1>8 DEF Restart, Edit, Tick, vars
  <2>2. QED
    BY <2>1, QuietHeld
<1>9. QED
  BY <1>1, <1>2, <1>3, <1>4, <1>5, <1>6, <1>7, <1>8 DEF Next, Worker, Fails

LEMMA NextNotesHaveContent ==
  ASSUME JobInv, NotesCurrent, ClientsInv, NotesHaveContent, [Next]_vars
  PROVE  NotesHaveContent'
<1> USE DEF NotesHaveContent, At
<1>0. notes \in [Notes -> Note]
  BY DEF JobInv, TypeOK
<1>1. CASE PersistNote
  <2>1. notes' = [notes EXCEPT ![job.key] = [content |-> job.content, ts |-> clock]]
    BY <1>1 DEF PersistNote
  <2>2. job.content # Empty
    BY <1>1 DEF PersistNote, ClientsInv, Held, Proper, Items, Contents, Empty
  <2>3. QED
    BY <1>0, <2>1, <2>2
<1>2. CASE RemoveNote
  BY <1>0, <1>2 DEF RemoveNote
<1>3. CASE SaveAll
  BY <1>3 DEF SaveAll, NotesCurrent
<1>4. CASE Outside
  BY <1>4, OutsideIsQuiet DEF core
<1>5. CASE Fails
  BY <1>5, FailsIsQuiet
<1>6. CASE Start \/ PersistTerm \/ PersistDoc \/ EmbedNote \/ EmbedDoc \/ EmbedDocFails
           \/ RemoveTerm \/ RemoveDoc \/ SaveMetaOnly \/ SaveIndex
  <2>1. notes' = notes
    BY <1>6 DEF Start, PersistTerm, PersistDoc, EmbedNote, EmbedDoc, EmbedDocFails, RemoveTerm,
                RemoveDoc, SaveMetaOnly, SaveIndex, durable
  <2>2. QED
    BY <2>1
<1>7. CASE Publish \/ Scan \/ ReadFiles \/ Reload \/ (\E lost \in SUBSET Planned : Merge(lost))
           \/ Crash \/ Restart
  <2>1. notes' = notes
    BY <1>7 DEF Publish, Scan, ReadFiles, Reload, Merge, Crash, Restart, durable
  <2>2. QED
    BY <2>1
<1>8. QED
  BY <1>1, <1>2, <1>3, <1>4, <1>5, <1>6, <1>7 DEF Next, Worker, Outside, Fails

-----------------------------------------------------------------------------
(* The step simulation.                                                    *)

ItemStore == [k \in Items |-> IF k \in Notes THEN notes[k].content ELSE glossary[k]]
Asked == [c \in Clients |-> AskedOf(c)]
Phase == [c \in Clients |-> PhaseOf(c)]

\* Steps the abstract store does not see.
LEMMA Stutters ==
  ASSUME ItemStore' = ItemStore, \A c \in Clients : AskedOf(c)' = AskedOf(c),
         \A c \in Clients : PhaseOf(c)' = PhaseOf(c)
  PROVE  UNCHANGED KS!vars
<1>1. Asked' = Asked /\ Phase' = Phase
  BY DEF Asked, Phase
<1> QED BY <1>1 DEF KS!vars, ItemStore, Asked, Phase

\* A request of an item is called.
LEMMA SubmitCalls ==
  ASSUME TypeOK, ClientsInv, NEW c \in Clients, NEW j \in Job, Submit(c, j),
         j.op # "index", j.client = c, j.key \in Items, Proper(j)
  PROVE  KS!Call(c)
<1>1. /\ UNCHANGED <<notes, glossary, job, wpc>>
      /\ hpc[c] = "idle" /\ req' = [req EXCEPT ![c] = j]
      /\ hpc' = [hpc EXCEPT ![c] = "waiting"]
      /\ req \in [Clients -> Job] /\ hpc \in [Clients -> {"idle", "waiting", "ok", "err"}]
  BY DEF Submit, TypeOK, durable
<1>2. job.client # c /\ j.key \notin Docs
  BY <1>1, DaemonAssumption DEF ClientsInv, Held, Items
<1>3. Phase[c] = "idle" /\ Phase' = [Phase EXCEPT ![c] = "called"]
  BY <1>1, <1>2 DEF Phase, PhaseOf
<1>4. Asked' = [Asked EXCEPT ![c] = [op |-> j.op, item |-> j.key, content |-> j.content]]
  BY <1>1, <1>2 DEF Asked, AskedOf
<1>5. [op |-> j.op, item |-> j.key, content |-> j.content] \in KS!Request
  BY DEF KS!Request, Proper, Job, KS!Empty, Empty
<1>6. ItemStore' = ItemStore
  BY <1>1 DEF ItemStore
<1> QED BY <1>3, <1>4, <1>5, <1>6 DEF KS!Call, KS!Move, ItemStore, Asked, Phase

\* Files are not the abstract store's business.
LEMMA SubmitDocStutters ==
  ASSUME TypeOK, ClientsInv, NEW c \in Clients, NEW j \in Job, Submit(c, j), j.key \in Docs
  PROVE  UNCHANGED KS!vars
<1>1. /\ UNCHANGED <<notes, glossary, job, wpc>>
      /\ hpc[c] = "idle" /\ req' = [req EXCEPT ![c] = j]
      /\ hpc' = [hpc EXCEPT ![c] = "waiting"]
      /\ req \in [Clients -> Job] /\ hpc \in [Clients -> {"idle", "waiting", "ok", "err"}]
  BY DEF Submit, TypeOK, durable
<1>2. ItemStore' = ItemStore
  BY <1>1 DEF ItemStore
<1>3. \A b \in Clients : AskedOf(b)' = AskedOf(b)
  BY <1>1 DEF AskedOf
<1>4. \A b \in Clients : PhaseOf(b)' = PhaseOf(b)
  BY <1>1 DEF PhaseOf
<1> QED BY <1>2, <1>3, <1>4, Stutters

LEMMA ReplyReturns ==
  ASSUME TypeOK, ClientsInv, NEW c \in Clients, Reply(c)
  PROVE  KS!Return(c) \/ UNCHANGED KS!vars
<1>1. /\ hpc[c] \in {"ok", "err"} /\ UNCHANGED <<notes, glossary, job, wpc>>
      /\ hpc' = [hpc EXCEPT ![c] = "idle"] /\ req' = [req EXCEPT ![c] = NoJob]
      /\ req \in [Clients -> Job] /\ hpc \in [Clients -> {"idle", "waiting", "ok", "err"}]
  BY DEF Reply, TypeOK, durable
<1>2. ItemStore' = ItemStore
  BY <1>1 DEF ItemStore
<1>3. CASE req[c].key \in Docs
  <2>1. \A b \in Clients : AskedOf(b)' = AskedOf(b)
    BY <1>1, <1>3 DEF AskedOf
  <2>2. \A b \in Clients : PhaseOf(b)' = PhaseOf(b)
    BY <1>1, <1>3 DEF PhaseOf
  <2>3. QED
    BY <1>2, <2>1, <2>2, Stutters
<1>4. CASE req[c].key \notin Docs
  <2>1. Phase[c] \in {"ok", "err"} /\ Phase' = [Phase EXCEPT ![c] = "idle"]
    BY <1>1, <1>4 DEF Phase, PhaseOf
  <2>2. Asked' = [Asked EXCEPT ![c] = [op |-> "none"]]
    BY <1>1, <1>4 DEF Asked, AskedOf
  <2>3. QED
    BY <1>2, <2>1, <2>2 DEF KS!Return, KS!Move, KS!Idle, ItemStore, Asked, Phase
<1> QED BY <1>3, <1>4

LEMMA StartStutters ==
  ASSUME TypeOK, ClientsInv, Start
  PROVE  UNCHANGED KS!vars
<1>1. /\ queue \in Seq(Job) /\ queue # <<>> /\ wpc = "idle"
      /\ job' = Head(queue) /\ UNCHANGED <<notes, glossary, req, hpc>>
      /\ job'.op # "index" => wpc' = "persist"
  BY DEF Start, At, TypeOK, durable
<1>2. 1 \in DOMAIN queue /\ job' = queue[1]
  BY <1>1, HeadTailProperties
<1>3. job'.op = "index" => job'.client = NoClient
  BY <1>2 DEF ClientsInv, Held
<1>4. \A c \in Clients : job.client # c
  BY <1>1, NoJobIsIndex, DaemonAssumption DEF ClientsInv
<1>5. \A c \in Clients : job'.client = c => wpc' = "persist"
  BY <1>1, <1>3, DaemonAssumption
<1>6. ItemStore' = ItemStore
  BY <1>1 DEF ItemStore
<1>7. \A c \in Clients : AskedOf(c)' = AskedOf(c)
  BY <1>1 DEF AskedOf
<1>8. \A c \in Clients : PhaseOf(c)' = PhaseOf(c)
  BY <1>1, <1>4, <1>5 DEF PhaseOf
<1> QED BY <1>6, <1>7, <1>8, Stutters

\* A job goes on, after the store has the item, or without an item.
LEMMA QuietStutters ==
  ASSUME ClientsInv, UNCHANGED <<notes, glossary, req, hpc, job>>,
         \/ wpc = "persist" <=> wpc' = "persist"
         \/ job.op = "index" \/ job.key \in Docs
  PROVE  UNCHANGED KS!vars
<1>1. ItemStore' = ItemStore
  BY DEF ItemStore
<1>2. \A c \in Clients : AskedOf(c)' = AskedOf(c)
  BY DEF AskedOf
<1>3. ASSUME NEW c \in Clients PROVE PhaseOf(c)' = PhaseOf(c)
  <2>1. CASE wpc = "persist" <=> wpc' = "persist"
    BY <2>1 DEF PhaseOf
  <2>2. CASE job.op = "index"
    <3>1. job.client # c
      BY <2>2, DaemonAssumption DEF ClientsInv, Held
    <3>2. QED
      BY <3>1 DEF PhaseOf
  <2>3. CASE job.op # "index" /\ job.key \in Docs
    <3>1. job.client = c => req[c].key \in Docs
      BY <2>3 DEF ClientsInv, Held
    <3>2. QED
      BY <3>1 DEF PhaseOf
  <2>4. QED
    BY <2>1, <2>2, <2>3
<1> QED BY <1>1, <1>2, <1>3, Stutters

\* The linearization point of an item's job: the client is called, then applied.
LEMMA PersistPhase ==
  ASSUME TypeOK, ClientsInv, job.op # "index", job.key \in Items, wpc = "persist",
         wpc' # "persist", UNCHANGED <<req, hpc, job>>
  PROVE  /\ job.client \in Clients /\ Phase[job.client] = "called"
         /\ Phase' = [Phase EXCEPT ![job.client] = "applied"]
         /\ Asked' = Asked
         /\ Asked[job.client] = [op |-> job.op, item |-> job.key, content |-> job.content]
<1>1. /\ job.client \in Clients /\ hpc[job.client] = "waiting" /\ req[job.client] = job
      /\ job.key \notin Docs
  BY DaemonAssumption DEF ClientsInv, Held, Items
<1>2. Phase[job.client] = "called" /\ Phase' = [Phase EXCEPT ![job.client] = "applied"]
  BY <1>1 DEF Phase, PhaseOf
<1>3. Asked' = Asked
  BY DEF Asked, AskedOf
<1>4. Asked[job.client] = [op |-> job.op, item |-> job.key, content |-> job.content]
  BY <1>1 DEF Asked, AskedOf
<1> QED BY <1>1, <1>2, <1>3, <1>4

LEMMA PersistApplies ==
  ASSUME TypeOK, ClientsInv, NotesHaveContent,
         PersistTerm \/ PersistNote \/ RemoveTerm \/ RemoveNote
  PROVE  \E c \in Clients : KS!Apply(c)
<1>1. /\ job.op \in {"add", "rm"} /\ job.key \in Items /\ wpc = "persist" /\ wpc' # "persist"
      /\ UNCHANGED <<req, hpc, job>>
  BY DEF PersistTerm, PersistNote, RemoveTerm, RemoveNote, At, Goto, Items
<1>2. job.op = "rm" => job.content = Empty
  BY <1>1 DEF ClientsInv, Held, Proper
<1>3. job.op = "rm" => ItemStore[job.key] # 0
  BY <1>1, DaemonAssumption
     DEF PersistTerm, PersistNote, RemoveTerm, RemoveNote, Stored, ItemStore, NotesHaveContent,
         Items, Empty
<1>4. ItemStore' = [ItemStore EXCEPT ![job.key] = job.content]
  <2>1. notes \in [Notes -> Note] /\ glossary \in [Terms -> Nat] /\ Notes \cap Terms = {}
    BY DaemonAssumption DEF TypeOK
  <2>2. CASE PersistTerm \/ RemoveTerm
    <3>1. /\ job.key \in Terms /\ notes' = notes
          /\ glossary' = [glossary EXCEPT ![job.key] = job.content]
      BY <1>2, <2>2 DEF PersistTerm, RemoveTerm
    <3>2. job.key \notin Notes /\ \A k \in Terms : k \notin Notes
      BY <2>1, <3>1
    <3>3. \A k \in Items : ItemStore'[k] = [ItemStore EXCEPT ![job.key] = job.content][k]
      BY <2>1, <3>1, <3>2 DEF ItemStore, Items
    <3>4. QED
      BY <3>3 DEF ItemStore
  <2>3. CASE PersistNote \/ RemoveNote
    <3>1. /\ job.key \in Notes /\ glossary' = glossary
          /\ notes'[job.key].content = job.content
          /\ \A n \in Notes \ {job.key} : notes'[n] = notes[n]
      BY <1>2, <2>1, <2>3 DEF PersistNote, RemoveNote, NoNote
    <3>2. \A k \in Items : ItemStore'[k] = [ItemStore EXCEPT ![job.key] = job.content][k]
      BY <2>1, <3>1 DEF ItemStore, Items
    <3>3. QED
      BY <3>2 DEF ItemStore
  <2>4. QED
    BY <2>2, <2>3
<1>5. /\ job.client \in Clients /\ Phase[job.client] = "called"
      /\ Phase' = [Phase EXCEPT ![job.client] = "applied"] /\ Asked' = Asked
      /\ Asked[job.client] = [op |-> job.op, item |-> job.key, content |-> job.content]
  BY <1>1, PersistPhase
<1>6. PICK c \in Clients : c = job.client
  BY <1>5
<1>7. KS!Apply(c)
  BY <1>3, <1>4, <1>5, <1>6 DEF KS!Apply, KS!Move, KS!Empty, ItemStore, Asked, Phase
<1> QED BY <1>7

\* The end of a job is the success or the failure of its client's request.
LEMMA FinishAnswers ==
  ASSUME TypeOK, ClientsInv, NEW answer \in {"ok", "err"}, Finish(answer),
         UNCHANGED <<notes, glossary, req>>, answer = "ok" => wpc # "persist"
  PROVE  (\E c \in Clients : KS!Succeed(c) \/ KS!Fail(c)) \/ UNCHANGED KS!vars
<1>1. ItemStore' = ItemStore
  BY DEF ItemStore
<1>2. job'.client \notin Clients
  BY NoJobIsIndex, DaemonAssumption DEF Finish
<1>3. hpc \in [Clients -> {"idle", "waiting", "ok", "err"}]
  BY DEF TypeOK
<1>4. CASE job.client \notin Clients
  <2>1. hpc' = hpc
    BY <1>4 DEF Finish
  <2>2. \A c \in Clients : AskedOf(c)' = AskedOf(c)
    BY <2>1 DEF AskedOf
  <2>3. \A c \in Clients : PhaseOf(c)' = PhaseOf(c)
    BY <1>2, <1>4, <2>1 DEF PhaseOf
  <2>4. QED
    BY <1>1, <2>2, <2>3, Stutters
<1>5. CASE job.client \in Clients
  <2>1. hpc' = [hpc EXCEPT ![job.client] = answer]
    BY <1>5 DEF Finish
  <2>2. hpc[job.client] = "waiting" /\ req[job.client] = job
    BY <1>5, DaemonAssumption DEF ClientsInv, Held
  <2>3. \A c \in Clients : AskedOf(c)' = AskedOf(c)
    BY <1>3, <2>1, <2>2 DEF AskedOf
  <2>4. CASE job.key \in Docs
    <3>1. \A c \in Clients : PhaseOf(c)' = PhaseOf(c)
      BY <1>2, <1>3, <2>1, <2>2, <2>4 DEF PhaseOf
    <3>2. QED
      BY <1>1, <2>3, <3>1, Stutters
  <2>5. CASE job.key \notin Docs
    <3>1. Phase[job.client] = IF wpc = "persist" THEN "called" ELSE "applied"
      BY <1>5, <2>2, <2>5 DEF Phase, PhaseOf
    <3>2. Phase' = [Phase EXCEPT ![job.client] = answer]
      BY <1>2, <1>3, <1>5, <2>1, <2>2, <2>5 DEF Phase, PhaseOf
    <3>3. Asked' = Asked
      BY <2>3 DEF Asked
    <3>4. KS!Succeed(job.client) \/ KS!Fail(job.client)
      BY <1>1, <3>1, <3>2, <3>3
         DEF KS!Succeed, KS!Fail, KS!Move, ItemStore, Asked, Phase
    <3>5. QED
      BY <1>5, <3>4
  <2>6. QED
    BY <2>4, <2>5
<1> QED BY <1>4, <1>5

\* The store survives; the answers do not.
LEMMA CrashIsCrash == Crash => KS!Crash
<1> SUFFICES ASSUME Crash PROVE KS!Crash
  OBVIOUS
<1>1. /\ UNCHANGED <<notes, glossary>> /\ hpc' = [c \in Clients |-> "idle"]
  BY DEF Crash, durable
<1>2. ItemStore' = ItemStore
  BY <1>1 DEF ItemStore
<1>3. Asked' = [c \in Clients |-> [op |-> "none"]]
  BY <1>1 DEF Asked, AskedOf
<1>4. Phase' = [c \in Clients |-> "idle"]
  BY <1>1 DEF Phase, PhaseOf
<1> QED BY <1>2, <1>3, <1>4 DEF KS!Crash, KS!Idle, ItemStore, Asked, Phase

LEMMA NextSimulates ==
  ASSUME JobInv, NotesCurrent, ClientsInv, NotesHaveContent, [Next]_vars
  PROVE  [KS!Next]_KS!vars
<1>0. TypeOK
  BY DEF JobInv
<1> USE <1>0 DEF At, Goto, durable
<1>1. ASSUME NEW c \in Clients, Handler(c) PROVE [KS!Next]_KS!vars
  <2>1. CASE AddItem(c)
    <3>1. PICK k \in Items, x \in Contents :
            Submit(c, [op |-> "add", key |-> k, content |-> x, force |-> FALSE, client |-> c])
      BY <2>1 DEF AddItem
    <3>2. [op |-> "add", key |-> k, content |-> x, force |-> FALSE, client |-> c] \in Job
      BY DaemonAssumption DEF Job, Contents
    <3>3. KS!Call(c)
      BY <3>1, <3>2, SubmitCalls DEF Proper
    <3>4. QED
      BY <3>3 DEF KS!Next
  <2>2. CASE AddDoc(c)
    <3>1. PICK d \in Docs :
            Submit(c, [op |-> "add", key |-> d, content |-> version', force |-> FALSE, client |-> c])
      BY <2>2 DEF AddDoc
    <3>2. version' \in Nat
      BY <2>2 DEF AddDoc, TypeOK
    <3>3. [op |-> "add", key |-> d, content |-> version', force |-> FALSE, client |-> c] \in Job
      BY <3>2 DEF Job
    <3>4. QED
      BY <3>1, <3>3, SubmitDocStutters
  <2>3. CASE Remove(c)
    <3>1. PICK k \in Items \cup Docs :
            Submit(c, [op |-> "rm", key |-> k, content |-> Empty, force |-> FALSE, client |-> c])
      BY <2>3 DEF Remove
    <3>2. [op |-> "rm", key |-> k, content |-> Empty, force |-> FALSE, client |-> c] \in Job
      BY DEF Job, Empty
    <3>3. CASE k \in Docs
      BY <3>1, <3>2, <3>3, SubmitDocStutters
    <3>4. CASE k \in Items
      <4>1. KS!Call(c)
        BY <3>1, <3>2, <3>4, SubmitCalls DEF Proper
      <4>2. QED
        BY <4>1 DEF KS!Next
    <3>5. QED
      BY <3>3, <3>4
  <2>4. CASE Reply(c)
    <3>1. KS!Return(c) \/ UNCHANGED KS!vars
      BY <2>4, ReplyReturns
    <3>2. QED
      BY <3>1 DEF KS!Next
  <2>5. QED
    BY <1>1, <2>1, <2>2, <2>3, <2>4 DEF Handler
<1>2. CASE Start
  BY <1>2, StartStutters
<1>3. CASE Fails \/ Publish
  <2>1. \E answer \in {"ok", "err"} : Finish(answer) /\ (answer = "ok" => wpc # "persist")
    BY <1>3 DEF Fails, Reject, EmbedNoteFails, JobThrows, Publish
  <2>2. UNCHANGED <<notes, glossary, req>>
    BY <1>3 DEF Fails, Reject, EmbedNoteFails, JobThrows, Publish
  <2>3. (\E c \in Clients : KS!Succeed(c) \/ KS!Fail(c)) \/ UNCHANGED KS!vars
    BY <2>1, <2>2, FinishAnswers
  <2>4. QED
    BY <2>3 DEF KS!Next
<1>4. CASE PersistTerm \/ PersistNote \/ RemoveTerm \/ RemoveNote
  <2>1. \E c \in Clients : KS!Apply(c)
    BY <1>4, PersistApplies
  <2>2. QED
    BY <2>1 DEF KS!Next
<1>5. CASE PersistDoc \/ RemoveDoc
  <2>1. UNCHANGED <<notes, glossary, req, hpc, job>> /\ job.key \in Docs
    BY <1>5 DEF PersistDoc, RemoveDoc
  <2>2. QED
    BY <2>1, QuietStutters
<1>6. CASE EmbedNote \/ EmbedDoc \/ EmbedDocFails \/ SaveMetaOnly \/ SaveIndex
  <2>1. UNCHANGED <<notes, glossary, req, hpc, job>> /\ wpc # "persist" /\ wpc' # "persist"
    BY <1>6 DEF EmbedNote, EmbedDoc, EmbedDocFails, SaveMetaOnly, SaveIndex
  <2>2. QED
    BY <2>1, QuietStutters
<1>7. CASE Scan \/ ReadFiles \/ Reload \/ SaveAll \/ (\E lost \in SUBSET Planned : Merge(lost))
  <2>1. UNCHANGED <<notes, glossary, req, hpc, job>> /\ wpc # "persist" /\ wpc' # "persist"
    BY <1>7 DEF Scan, ReadFiles, Reload, SaveAll, Merge, NotesCurrent
  <2>2. QED
    BY <2>1, QuietStutters
<1>8. CASE Crash
  BY <1>8, CrashIsCrash DEF KS!Next
<1>9. CASE RequestIndex \/ WatcherFires \/ Restart \/ Edit \/ Tick \/ UNCHANGED vars
  <2>1. UNCHANGED <<notes, glossary, req, hpc, job, wpc>>
    BY <1>9 DEF RequestIndex, WatcherFires, Restart, Edit, Tick, vars
  <2>2. QED
    BY <2>1, QuietStutters
<1>10. QED
  BY <1>1, <1>2, <1>3, <1>4, <1>5, <1>6, <1>7, <1>8, <1>9 DEF Next, Worker, Fails

LEMMA InitClients == Init => ClientsInv /\ NotesHaveContent /\ KS!Init
<1> SUFFICES ASSUME Init PROVE ClientsInv /\ NotesHaveContent /\ KS!Init
  OBVIOUS
<1>1. ClientsInv
  BY NoJobIsIndex DEF Init, ClientsInv, Held
<1>2. NotesHaveContent
  BY DEF Init, NotesHaveContent
<1>3. ItemStore \in [Items -> Contents \cup {0}]
  BY DEF Init, ItemStore, Items, NoNote, Empty
<1>4. Asked = [c \in Clients |-> [op |-> "none"]]
  BY DEF Init, Asked, AskedOf
<1>5. Phase = [c \in Clients |-> "idle"]
  BY DEF Init, Phase, PhaseOf
<1> QED BY <1>1, <1>2, <1>3, <1>4, <1>5
        DEF KS!Init, KS!Idle, KS!Empty, ItemStore, Asked, Phase

\* Adds and removals of notes and terms through the write queue, amid index jobs
\* that write both tables back, failures, crashes and restarts, for any number
\* of clients: each takes effect at most once, between its call and its answer,
\* and one that is answered OK has.
THEOREM DaemonIsAKnowledgeStore == Spec => ImplementsKnowledgeStore
<1> DEFINE IInv == JobInv /\ NotesCurrent /\ ClientsInv /\ NotesHaveContent
<1>1. Init => IInv /\ KS!Init
  BY InitSafe, InitClients
<1>2. IInv /\ [Next]_vars => IInv' /\ [KS!Next]_KS!vars
  <2> SUFFICES ASSUME IInv, [Next]_vars PROVE IInv' /\ [KS!Next]_KS!vars
    OBVIOUS
  <2>1. JobInv' /\ NotesCurrent'
    BY NextJobInv, NextNotesCurrent
  <2>2. ClientsInv' /\ NotesHaveContent'
    BY NextClientsInv, NextNotesHaveContent
  <2>3. [KS!Next]_KS!vars
    BY NextSimulates
  <2>4. QED
    BY <2>1, <2>2, <2>3
<1>3. QED
  BY <1>1, <1>2, PTL DEF Spec, ImplementsKnowledgeStore, KS!Spec
=============================================================================
