------------------------------- MODULE Daemon -------------------------------
(***************************************************************************)
(* One index of the gogol daemon (src/daemon/embed_server.cpp) with the    *)
(* code its mutations run through: op_add and op_rm (core/operations.cpp), *)
(* run_index (core/indexer.cpp), the two adapters and SqliteBackend.       *)
(*                                                                         *)
(* Connection handlers queue their mutations on the WriteQueue and wait.   *)
(* Its single worker runs one job at a time; a job copies the published    *)
(* snapshot, changes durable state (notes, glossary, files, the entries    *)
(* table) and its copy, and publishes the copy.  Every point where another *)
(* thread, the file system or a crash can come between is a step of its    *)
(* own.  A file is one chunk here, and its version its mtime and size.     *)
(***************************************************************************)
EXTENDS Integers, Sequences

CONSTANTS
  Notes, Terms, Docs,  \* topics of notes, glossary terms, paths of files
  Clients,             \* connection handlers
  MaxContent,          \* contents of notes and terms are 1..MaxContent
  Writable,            \* TRUE for an index in mode rw
  NoEntry, NoKey, NoClient,
  MaxVersion,          \* bound: changes to the indexed directory
  MaxTime,             \* bound: seconds the clock may advance
  MaxFaults,           \* bound: crashes, failed embeddings, thrown exceptions
  MaxQueue             \* bound: jobs waiting

Items == Notes \cup Terms
Keys == Notes \cup Docs           \* what the index has entries for
Contents == 1 .. MaxContent
Empty == 0                        \* no content, no file, no embedding

\* hash: a note's timestamp or a file's version (its mtime and size), 0 for a
\* document added over the daemon.  emb: the content the vector was computed
\* from, Empty for a row whose vector is missing.
Entry == [hash : Nat, emb : Nat]
Note == [content : Nat, ts : Nat]
NoNote == [content |-> Empty, ts |-> 0]
Table == [Keys -> Entry \cup {NoEntry}]
Blank == [k \in Keys |-> NoEntry]

Job == [op : {"add", "rm", "index"},
        key : Items \cup Docs \cup {NoKey},
        content : Nat,
        force : BOOLEAN,
        client : Clients \cup {NoClient}]
IndexJob(force) == [op |-> "index", key |-> NoKey, content |-> Empty,
                    force |-> force, client |-> NoClient]
NoJob == IndexJob(FALSE)

ASSUME DaemonAssumption ==
  /\ MaxContent \in Nat \ {0} /\ Writable \in BOOLEAN
  /\ MaxVersion \in Nat /\ MaxTime \in Nat /\ MaxFaults \in Nat /\ MaxQueue \in Nat
  /\ Notes \cap Terms = {} /\ Notes \cap Docs = {} /\ Terms \cap Docs = {}
  /\ NoKey \notin Items \cup Docs
  /\ NoClient \notin Clients
  /\ NoEntry \notin Entry

VARIABLES
  notes, glossary,     \* tables of <index>.db: [Notes -> Note], [Terms -> content]
  db,                  \* its entries table
  files,               \* the indexed directory: version of each file, Empty if absent
  up,                  \* the process runs
  snap,                \* the published snapshot (DaemonState::indexes)
  indexing,            \* DaemonState::indexing
  queue,               \* WriteQueue: jobs not yet started
  job, wpc,            \* the job being run and its next step
  copy, plan, valid,   \* its locals: the mutable copy, the chunks to embed, the files scanned
  mem, gloss,          \*   and the notes and glossary an index job read back
  req, hpc,            \* each handler's request and how far it is
  clock, version, faults

durable == <<notes, glossary, db>>
locals == <<copy, plan, valid, mem, gloss>>
env == <<clock, version, faults>>
vars == <<notes, glossary, db, files, up, snap, indexing, queue, job, wpc,
          copy, plan, valid, mem, gloss, req, hpc, clock, version, faults>>

Steps == {"idle", "persist", "embed", "saveMeta", "saveFull", "publish",
          "scan", "read", "merge", "reload", "saveAll"}

TypeOK ==
  /\ notes \in [Notes -> Note]
  /\ glossary \in [Terms -> Nat]
  /\ db \in Table
  /\ files \in [Docs -> Nat]
  /\ up \in BOOLEAN
  /\ snap \in Table
  /\ indexing \in BOOLEAN
  /\ queue \in Seq(Job)
  /\ job \in Job
  /\ wpc \in Steps
  /\ copy \in Table
  /\ plan \in Table
  /\ valid \in SUBSET Docs
  /\ mem \in [Notes -> Note]
  /\ gloss \in [Terms -> Nat]
  /\ req \in [Clients -> Job]
  /\ hpc \in [Clients -> {"idle", "waiting", "ok", "err"}]
  /\ clock \in Nat /\ version \in Nat /\ faults \in Nat

\* A first start: nothing stored, an empty directory.
Init ==
  /\ notes = [n \in Notes |-> NoNote]
  /\ glossary = [t \in Terms |-> Empty]
  /\ db = Blank
  /\ files = [d \in Docs |-> Empty]
  /\ up = TRUE
  /\ snap = Blank
  /\ indexing = FALSE
  /\ queue = <<>>
  /\ job = NoJob /\ wpc = "idle"
  /\ copy = Blank /\ plan = Blank /\ valid = {}
  /\ mem = [n \in Notes |-> NoNote] /\ gloss = [t \in Terms |-> Empty]
  /\ req = [c \in Clients |-> NoJob]
  /\ hpc = [c \in Clients |-> "idle"]
  /\ clock = 0 /\ version = 0 /\ faults = 0

-----------------------------------------------------------------------------
(* Connection handlers.                                                    *)

\* submit_wait: the handler queues its job and blocks on the future.
Submit(c, j) ==
  /\ up /\ hpc[c] = "idle" /\ Len(queue) < MaxQueue
  /\ queue' = Append(queue, j)
  /\ req' = [req EXCEPT ![c] = j]
  /\ hpc' = [hpc EXCEPT ![c] = "waiting"]
  /\ UNCHANGED <<durable, files, up, snap, indexing, job, wpc, locals, clock, faults>>

AddItem(c) ==
  \E k \in Items, x \in Contents :
    /\ Submit(c, [op |-> "add", key |-> k, content |-> x, force |-> FALSE, client |-> c])
    /\ UNCHANGED version

\* The text of a file added is new: it is the file's next version.
AddDoc(c) ==
  /\ version < MaxVersion
  /\ version' = version + 1
  /\ \E d \in Docs :
       Submit(c, [op |-> "add", key |-> d, content |-> version', force |-> FALSE, client |-> c])

Remove(c) ==
  \E k \in Items \cup Docs :
    /\ Submit(c, [op |-> "rm", key |-> k, content |-> Empty, force |-> FALSE, client |-> c])
    /\ UNCHANGED version

\* INDEX is answered at once; while a job of either kind is indexing the
\* request is dropped with "Already indexing", which changes nothing.
RequestIndex ==
  /\ up /\ ~indexing /\ Len(queue) < MaxQueue
  /\ \E force \in BOOLEAN : queue' = Append(queue, IndexJob(force))
  /\ UNCHANGED <<durable, files, up, snap, indexing, job, wpc, locals, req, hpc, env>>

\* The watcher's callback does not look at the flag.
WatcherFires ==
  /\ up /\ Len(queue) < MaxQueue
  /\ queue' = Append(queue, IndexJob(FALSE))
  /\ UNCHANGED <<durable, files, up, snap, indexing, job, wpc, locals, req, hpc, env>>

Reply(c) ==
  /\ up /\ hpc[c] \in {"ok", "err"}
  /\ hpc' = [hpc EXCEPT ![c] = "idle"]
  /\ req' = [req EXCEPT ![c] = NoJob]
  /\ UNCHANGED <<durable, files, up, snap, indexing, queue, job, wpc, locals, env>>

-----------------------------------------------------------------------------
(* The writer thread.                                                      *)

At(step) == up /\ wpc = step
Goto(step) == wpc' = step /\ UNCHANGED <<job, hpc>>

\* Mutant: a job that throws leaves its client waiting.
FinishSilently(answer) ==
  /\ wpc' = "idle" /\ job' = NoJob
  /\ copy' = Blank /\ plan' = Blank /\ valid' = {}
  /\ mem' = [n \in Notes |-> NoNote] /\ gloss' = [t \in Terms |-> Empty]
  /\ hpc' = IF answer = "ok" /\ job.client \in Clients
            THEN [hpc EXCEPT ![job.client] = answer] ELSE hpc

\* The job returns or throws: its locals are gone, and a handler that waits
\* for it has its answer.
Finish(answer) ==
  /\ wpc' = "idle" /\ job' = NoJob
  /\ copy' = Blank /\ plan' = Blank /\ valid' = {}
  /\ mem' = [n \in Notes |-> NoNote] /\ gloss' = [t \in Terms |-> Empty]
  /\ hpc' = IF job.client \in Clients THEN [hpc EXCEPT ![job.client] = answer] ELSE hpc

Fault == faults < MaxFaults /\ faults' = faults + 1

\* Mutant: a job starts from the database, not from the published snapshot.
StartFromDatabase ==
  /\ At("idle") /\ queue # <<>>
  /\ job' = Head(queue) /\ queue' = Tail(queue)
  /\ copy' = db
  /\ wpc' = IF job'.op = "index" THEN "scan" ELSE "persist"
  /\ indexing' = (job'.op = "index")
  /\ UNCHANGED <<durable, files, up, snap, plan, valid, mem, gloss, req, hpc, env>>

\* The worker takes the oldest job, whose first act is mutable_copy.
Start ==
  /\ At("idle") /\ queue # <<>>
  /\ job' = Head(queue) /\ queue' = Tail(queue)
  /\ copy' = snap
  /\ wpc' = IF job'.op = "index" THEN "scan" ELSE "persist"
  /\ indexing' = (job'.op = "index")
  /\ UNCHANGED <<durable, files, up, snap, plan, valid, mem, gloss, req, hpc, env>>

\* op_add: the content is made durable first.
PersistTerm ==
  /\ At("persist") /\ job.op = "add" /\ job.key \in Terms
  /\ glossary' = [glossary EXCEPT ![job.key] = job.content]
  /\ Goto("publish")
  /\ UNCHANGED <<notes, db, files, up, snap, indexing, queue, locals, req, env>>

PersistNote ==
  /\ At("persist") /\ job.op = "add" /\ job.key \in Notes
  /\ notes' = [notes EXCEPT ![job.key] = [content |-> job.content, ts |-> clock]]
  /\ Goto("embed")
  /\ UNCHANGED <<glossary, db, files, up, snap, indexing, queue, locals, req, env>>

PersistDoc ==
  /\ At("persist") /\ job.op = "add" /\ job.key \in Docs /\ Writable
  /\ files' = [files EXCEPT ![job.key] = job.content]
  /\ Goto("embed")
  /\ UNCHANGED <<durable, up, snap, indexing, queue, locals, req, env>>

\* "Index is read-only", or "Not found" for what is to be removed.
Stored(k) ==
  IF k \in Notes THEN notes[k] # NoNote
  ELSE IF k \in Terms THEN glossary[k] # Empty
  ELSE files[k] # Empty

Reject ==
  /\ At("persist")
  /\ \/ job.key \in Docs /\ ~Writable
     \/ job.op = "rm" /\ ~Stored(job.key)
  /\ Finish("err")
  /\ UNCHANGED <<durable, files, up, snap, indexing, queue, req, env>>

\* The new entry's hash is the time after embedding, not the note's timestamp.
EmbedNote ==
  /\ At("embed") /\ job.key \in Notes
  /\ copy' = [copy EXCEPT ![job.key] = [hash |-> clock, emb |-> job.content]]
  /\ Goto("saveMeta")
  /\ UNCHANGED <<durable, files, up, snap, indexing, queue, plan, valid, mem, gloss, req, env>>

EmbedNoteFails ==
  /\ At("embed") /\ job.key \in Notes /\ Fault
  /\ Finish("err")
  /\ UNCHANGED <<durable, files, up, snap, indexing, queue, req, clock, version>>

\* Mutant: the file's current stat hash, taken after the embedding.
EmbedDocStamped ==
  /\ At("embed") /\ job.key \in Docs
  /\ copy' = [copy EXCEPT ![job.key] = [hash |-> files[job.key], emb |-> job.content]]
  /\ Goto("saveMeta")
  /\ UNCHANGED <<durable, files, up, snap, indexing, queue, plan, valid, mem, gloss, req, env>>

EmbedDoc ==
  /\ At("embed") /\ job.key \in Docs
  /\ copy' = [copy EXCEPT ![job.key] = [hash |-> 0, emb |-> job.content]]
  /\ Goto("saveMeta")
  /\ UNCHANGED <<durable, files, up, snap, indexing, queue, plan, valid, mem, gloss, req, env>>

\* A file that cannot be embedded keeps its old entry; the add succeeds.
EmbedDocFails ==
  /\ At("embed") /\ job.key \in Docs /\ Fault
  /\ Goto("saveMeta")
  /\ UNCHANGED <<durable, files, up, snap, indexing, queue, locals, req, clock, version>>

\* op_rm.  Only a note's removal touches the entries.
RemoveTerm ==
  /\ At("persist") /\ job.op = "rm" /\ job.key \in Terms /\ Stored(job.key)
  /\ glossary' = [glossary EXCEPT ![job.key] = Empty]
  /\ Goto("publish")
  /\ UNCHANGED <<notes, db, files, up, snap, indexing, queue, locals, req, env>>

\* Mutant: the removal is published without being saved.
RemoveNoteUnsaved ==
  /\ At("persist") /\ job.op = "rm" /\ job.key \in Notes /\ Stored(job.key)
  /\ notes' = [notes EXCEPT ![job.key] = NoNote]
  /\ copy' = [copy EXCEPT ![job.key] = NoEntry]
  /\ Goto("publish")
  /\ UNCHANGED <<glossary, db, files, up, snap, indexing, queue, plan, valid, mem, gloss, req, env>>

RemoveNote ==
  /\ At("persist") /\ job.op = "rm" /\ job.key \in Notes /\ Stored(job.key)
  /\ notes' = [notes EXCEPT ![job.key] = NoNote]
  /\ copy' = [copy EXCEPT ![job.key] = NoEntry]
  /\ Goto("saveMeta")
  /\ UNCHANGED <<glossary, db, files, up, snap, indexing, queue, plan, valid, mem, gloss, req, env>>

RemoveDoc ==
  /\ At("persist") /\ job.op = "rm" /\ job.key \in Docs /\ Writable /\ Stored(job.key)
  /\ files' = [files EXCEPT ![job.key] = Empty]
  /\ Goto("saveFull")
  /\ UNCHANGED <<durable, up, snap, indexing, queue, locals, req, env>>

\* Mutant: no row is looked up, the vector of a new one is null.
MetaOnlyNull(rows, old) ==
  [k \in Keys |->
     IF rows[k] = NoEntry THEN NoEntry
     ELSE [hash |-> rows[k].hash, emb |-> IF old[k] = NoEntry THEN NoEntry ELSE old[k].emb]]

\* save_index_meta_only: the rows are rewritten from the copy, the vectors are
\* those of the old rows with the same path and line.
MetaOnly(rows, old) ==
  [k \in Keys |->
     IF rows[k] = NoEntry THEN NoEntry
     ELSE [hash |-> rows[k].hash,
           emb |-> IF old[k] = NoEntry THEN Empty ELSE old[k].emb]]

SaveMetaOnly ==
  /\ At("saveMeta")
  /\ db' = MetaOnly(copy, db)
  /\ Goto("publish")
  /\ UNCHANGED <<notes, glossary, files, up, snap, indexing, queue, locals, req, env>>

SaveIndex ==
  /\ At("saveFull")
  /\ db' = copy
  /\ Goto("publish")
  /\ UNCHANGED <<notes, glossary, files, up, snap, indexing, queue, locals, req, env>>

Publish ==
  /\ At("publish")
  /\ snap' = copy
  /\ indexing' = FALSE
  /\ Finish("ok")
  /\ UNCHANGED <<durable, files, up, queue, req, env>>

-----------------------------------------------------------------------------
(* run_index.                                                              *)

Changed(k, hash) == job.force \/ copy[k] = NoEntry \/ copy[k].hash # hash

\* FileAdapter::scan lists the files and their stat hashes, MemAdapter::scan
\* the notes.  A chunk planned has its hash; a file's text is read next.
Scan ==
  /\ At("scan")
  /\ valid' = {d \in Docs : files[d] # Empty}
  /\ plan' = [k \in Keys |->
       IF k \in Notes
       THEN IF notes[k] # NoNote /\ Changed(k, notes[k].ts)
            THEN [hash |-> notes[k].ts, emb |-> notes[k].content] ELSE NoEntry
       ELSE IF files[k] # Empty /\ Changed(k, files[k])
            THEN [hash |-> files[k], emb |-> Empty] ELSE NoEntry]
  /\ Goto("read")
  /\ UNCHANGED <<durable, files, up, snap, indexing, queue, copy, mem, gloss, req, env>>

\* The text is that of now, the hash that of the listing.  A file gone since
\* yields no chunk and keeps its old entry.
ReadFiles ==
  /\ At("read")
  /\ plan' = [k \in Keys |->
       IF k \in Docs /\ plan[k] # NoEntry
       THEN IF files[k] = Empty THEN NoEntry ELSE [plan[k] EXCEPT !.emb = files[k]]
       ELSE plan[k]]
  /\ Goto("merge")
  /\ UNCHANGED <<durable, files, up, snap, indexing, queue, copy, valid, mem, gloss, req, env>>

Planned == {k \in Keys : plan[k] # NoEntry}
\* Mutant: entries of notes are kept whether or not the note is.
KeptNotes == {k \in Keys \ Planned : k \in Notes \/ k \in valid}
Kept == {k \in Keys \ Planned : IF k \in Notes THEN notes[k] # NoNote ELSE k \in valid}

\* Chunks whose embedding comes back empty are left out.
Merge(lost) ==
  /\ At("merge")
  /\ IF lost = {} THEN UNCHANGED faults ELSE Fault
  /\ copy' = [k \in Keys |-> IF k \in Planned \ lost THEN plan[k]
                             ELSE IF k \in Kept THEN copy[k]
                             ELSE NoEntry]
  /\ Goto("reload")
  /\ UNCHANGED <<durable, files, up, snap, indexing, queue, plan, valid, mem, gloss, req,
                 clock, version>>

\* Mutant: save_all with the notes and glossary of a fresh IndexFile.
ReloadForgotten ==
  /\ At("reload")
  /\ Goto("saveAll")
  /\ UNCHANGED <<durable, files, up, snap, indexing, queue, locals, req, env>>

\* run_index owns neither notes nor glossary: it reads them here and save_all
\* writes them back, with the entries, in one transaction.
Reload ==
  /\ At("reload")
  /\ mem' = notes /\ gloss' = glossary
  /\ Goto("saveAll")
  /\ UNCHANGED <<durable, files, up, snap, indexing, queue, copy, plan, valid, req, env>>

SaveAll ==
  /\ At("saveAll")
  /\ db' = copy /\ notes' = mem /\ glossary' = gloss
  /\ Goto("publish")
  /\ UNCHANGED <<files, up, snap, indexing, queue, locals, req, env>>

\* A database or file system error before the job has saved: nothing is
\* published, the client is told, the worker goes on.
JobThrows ==
  /\ up /\ wpc \in {"persist", "saveMeta", "saveFull", "scan", "read", "reload", "saveAll"}
  /\ Fault
  /\ indexing' = FALSE
  /\ Finish("err")
  /\ UNCHANGED <<durable, files, up, snap, queue, req, clock, version>>

-----------------------------------------------------------------------------
(* The world around the daemon.                                            *)

\* The process dies: memory is lost, what was committed stays.
Crash ==
  /\ up /\ Fault
  /\ up' = FALSE
  /\ snap' = Blank /\ indexing' = FALSE /\ queue' = <<>>
  /\ job' = NoJob /\ wpc' = "idle"
  /\ copy' = Blank /\ plan' = Blank /\ valid' = {}
  /\ mem' = [n \in Notes |-> NoNote] /\ gloss' = [t \in Terms |-> Empty]
  /\ req' = [c \in Clients |-> NoJob]
  /\ hpc' = [c \in Clients |-> "idle"]
  /\ UNCHANGED <<durable, files, clock, version>>

\* load_all
Restart ==
  /\ ~up
  /\ up' = TRUE
  /\ snap' = db
  /\ UNCHANGED <<durable, files, indexing, queue, job, wpc, locals, req, hpc, env>>

\* Somebody edits, creates or deletes a file.
Edit ==
  /\ version < MaxVersion
  /\ version' = version + 1
  /\ \E d \in Docs, v \in {Empty, version'} : files' = [files EXCEPT ![d] = v]
  /\ UNCHANGED <<durable, up, snap, indexing, queue, job, wpc, locals, req, hpc, clock, faults>>

Tick ==
  /\ clock < MaxTime
  /\ clock' = clock + 1
  /\ UNCHANGED <<durable, files, up, snap, indexing, queue, job, wpc, locals, req, hpc,
                 version, faults>>

Handler(c) == AddItem(c) \/ AddDoc(c) \/ Remove(c) \/ Reply(c)

Worker ==
  \/ Start \/ PersistTerm \/ PersistNote \/ PersistDoc \/ Reject
  \/ EmbedNote \/ EmbedNoteFails \/ EmbedDoc \/ EmbedDocFails
  \/ RemoveTerm \/ RemoveNote \/ RemoveDoc
  \/ SaveMetaOnly \/ SaveIndex \/ Publish
  \/ Scan \/ ReadFiles \/ (\E lost \in SUBSET Planned : Merge(lost)) \/ Reload \/ SaveAll
  \/ JobThrows

Next ==
  \/ \E c \in Clients : Handler(c)
  \/ RequestIndex \/ WatcherFires
  \/ Worker
  \/ Crash \/ Restart \/ Edit \/ Tick

Spec == Init /\ [][Next]_vars

\* Threads that can run do run: the worker is a thread of its own whose jobs
\* contain no wait but the embedding, and a handler only has to write its
\* answer.  Clients, watcher, editors and crashes are free.
Fairness ==
  /\ WF_vars(Worker)
  /\ \A c \in Clients : WF_vars(Reply(c))
LiveSpec == Spec /\ Fairness

-----------------------------------------------------------------------------
(* Properties.                                                             *)

\* Same entries with the same hashes: what a restart would load (vectors aside).
SameRows(entries, table) ==
  \A k \in Keys :
    IF entries[k] = NoEntry THEN table[k] = NoEntry
    ELSE table[k] # NoEntry /\ table[k].hash = entries[k].hash

\* Save comes before publish, a job that fails publishes nothing, and a crash at
\* any step leaves a table from which the snapshot restarts: the snapshot that
\* queries get has the rows of the table, except between the save of a job and
\* its publication, when they still get the snapshot of before.
SavedIsPublished == up /\ wpc # "publish" => SameRows(snap, db)

\* A result for a file shown without "(stale)" was embedded from the text the
\* file has now, however edits fall between stat, read, embedding and restart.
DocStatusSound ==
  \A d \in Docs :
    up /\ snap[d] # NoEntry /\ files[d] # Empty /\ snap[d].hash = files[d]
      => snap[d].emb = files[d]

\* "There is no lost-update window between concurrent writers": publishing an
\* add or a removal changes no entry but its own.
NoLostUpdate ==
  [][Publish /\ job.op # "index"
       => \A k \in Keys \ {job.key} : snap'[k] = snap[k]]_vars

\* An index job repairs what crashes and failures left behind: the notes in the
\* snapshot it publishes are notes of the store, at their current timestamp.
IndexRepairsNotes ==
  [][Publish /\ job.op = "index"
       => \A n \in Notes : snap'[n] # NoEntry
            => notes[n] # NoNote /\ snap'[n].hash = notes[n].ts]_vars

\* The notes and the glossary are a linearizable store that survives crashes,
\* index jobs included, which write both tables back.
AskedOf(c) == IF hpc[c] = "idle" \/ req[c].key \in Docs
              THEN [op |-> "none"]
              ELSE [op |-> req[c].op, item |-> req[c].key, content |-> req[c].content]
PhaseOf(c) == IF hpc[c] = "idle" \/ req[c].key \in Docs THEN "idle"
              ELSE IF hpc[c] # "waiting" THEN hpc[c]
              ELSE IF job.client = c /\ wpc # "persist" THEN "applied"
              ELSE "called"
KS == INSTANCE KnowledgeStore WITH
        store <- [k \in Items |-> IF k \in Notes THEN notes[k].content ELSE glossary[k]],
        request <- [c \in Clients |-> AskedOf(c)],
        phase <- [c \in Clients |-> PhaseOf(c)]
ImplementsKnowledgeStore == KS!Spec

\* Whoever waits on the write queue is answered, behind any number of index
\* jobs, unless the process dies, which closes the connection.
EveryRequestAnswered == \A c \in Clients : hpc[c] = "waiting" ~> hpc[c] = "idle"

\* README: "Embeddings are stored as a BLOB per entry ... and loaded into memory
\* at startup".  Does not hold: save_index_meta_only gives a new row no vector.
EveryEntryHasVector ==
  up => \A k \in Keys : snap[k] # NoEntry => snap[k].emb # Empty
=============================================================================
