---------------------------- MODULE HybridSearch ----------------------------
(***************************************************************************)
(* One QUERY against the writer (handle_query, search, keyword_search_fts, *)
(* save_index, publish).  The query ranks a snapshot of each index it      *)
(* names, and the keyword ranks come from the database of the moment, as   *)
(* row numbers that are taken for positions in the snapshot.               *)
(*                                                                         *)
(* Positions count from 1, as rowids do.  Scores are left out: which       *)
(* entries get a keyword contribution is what the module follows.          *)
(***************************************************************************)
EXTENDS Naturals, Sequences, FiniteSets

CONSTANTS
  Indexes,
  Strangers,   \* names a client may send that are no index
  Entries,     \* what an entry's path and chunk name
  Notes,       \* the entries that are notes; the others are documents
  Matching,    \* the entries whose path or chunk has a word of the query
  Tables,      \* the tables the writer may save
  Requests,    \* the lists of names a client may send
  Filters,
  None,
  MaxSaves     \* bound

ASSUME SearchAssumption ==
  /\ Indexes \cap Strangers = {}
  /\ None \notin Indexes
  /\ Notes \subseteq Entries /\ Matching \subseteq Entries
  /\ Tables \subseteq Seq(Entries)
  /\ Requests \subseteq Seq(Indexes \cup Strangers)
  /\ Filters \subseteq {"all", "doc", "note", "term"}
  /\ MaxSaves \in Nat

VARIABLES
  db,         \* table entries of each index: row r has rowid r; FTS5 follows it
  snap,       \* the published snapshots
  writer,     \* the index saved and not yet published
  saves,
  pc,         \* the handler's next step
  names, filter,
  held,       \* the snapshots the handler holds
  next,       \* the place in names of the loop it is in
  all,        \* search: the entries of the snapshots held
  offset,     \* search: where those of names[next] begin
  credit,     \* the positions in all with a keyword contribution
  starts,     \* auxiliary: where each name's entries begin in all
  disturbed   \* auxiliary: the names whose keyword ranks may be off

writerVars == <<db, snap, writer, saves>>
queryVars == <<names, filter, held, all, offset, credit, starts>>
vars == <<writerVars, pc, next, queryVars, disturbed>>

\* The entries names[k] contributes.
Held(k) == IF names[k] \in DOMAIN held THEN held[names[k]] ELSE <<>>

\* search's lambda matches.
Passes(e) ==
  \/ filter = "all"
  \/ filter = "doc" /\ e \notin Notes
  \/ filter = "note" /\ e \in Notes

TypeOK ==
  /\ db \in [Indexes -> Tables] /\ snap \in [Indexes -> Tables]
  /\ writer \in Indexes \cup {None}
  /\ saves \in Nat
  /\ pc \in {"idle", "grab", "collect", "embed", "rank", "answered"}
  /\ names \in Requests \cup {<<>>}
  /\ filter \in Filters \cup {"all"}
  /\ DOMAIN held \subseteq Indexes
  /\ \A i \in DOMAIN held : held[i] \in Tables
  /\ next \in 1..(Len(names) + 1)
  /\ all \in Seq(Entries)
  /\ offset \in Nat
  /\ credit \subseteq 1..Len(all)
  /\ starts \in Seq(Nat)
  /\ disturbed \subseteq Indexes

Init ==
  /\ db \in [Indexes -> Tables] /\ snap = db
  /\ writer = None /\ saves = 0
  /\ pc = "idle" /\ names = <<>> /\ filter = "all" /\ held = <<>> /\ next = 1
  /\ all = <<>> /\ offset = 0 /\ credit = {} /\ starts = <<>> /\ disturbed = {}

-----------------------------------------------------------------------------
(* The writer.                                                             *)

\* names[k], k \in here, will still be ranked with the snapshot held.
Awaits(i) ==
  /\ pc \in {"grab", "collect", "embed", "rank"}
  /\ i \in DOMAIN held
  /\ pc = "rank" => \E k \in next..Len(names) : names[k] = i

\* One transaction rewrites the rows densely and rebuilds FTS5.
Save(i) ==
  /\ writer = None /\ saves < MaxSaves
  /\ \E rows \in Tables : db' = [db EXCEPT ![i] = rows]
  /\ writer' = i /\ saves' = saves + 1
  /\ disturbed' = IF Awaits(i) THEN disturbed \cup {i} ELSE disturbed
  /\ UNCHANGED <<snap, pc, next, queryVars>>

\* It publishes what it saved.
Publish ==
  /\ writer # None
  /\ snap' = [snap EXCEPT ![writer] = db[writer]]
  /\ writer' = None
  /\ UNCHANGED <<db, saves, pc, next, queryVars, disturbed>>

-----------------------------------------------------------------------------
(* The handler.                                                            *)

Query ==
  /\ pc = "idle"
  /\ names' \in Requests /\ filter' \in Filters
  /\ pc' = "grab" /\ next' = 1 /\ held' = <<>>
  /\ all' = <<>> /\ offset' = 0 /\ credit' = {}
  /\ starts' = <<>> /\ disturbed' = {}
  /\ UNCHANGED writerVars

\* One pass of the loop over the names, with a snapshot or without.
Grab ==
  LET i == names[next] IN
  /\ pc = "grab" /\ next <= Len(names)
  /\ IF i \in Indexes
       THEN /\ held' = [j \in DOMAIN held \cup {i} |-> IF j = i THEN snap[i] ELSE held[j]]
            /\ disturbed' = IF writer = i THEN disturbed \cup {i} ELSE disturbed \ {i}
       ELSE UNCHANGED <<held, disturbed>>
  /\ next' = next + 1
  /\ UNCHANGED <<writerVars, pc, names, filter, all, offset, credit, starts>>

Loop(from, to) ==
  /\ pc = from /\ next > Len(names)
  /\ pc' = to /\ next' = 1
  /\ UNCHANGED <<writerVars, queryVars, disturbed>>

Search == Loop("grab", "collect")

Collect ==
  /\ pc = "collect" /\ next <= Len(names)
  /\ all' = all \o Held(next)
  /\ starts' = Append(starts, Len(all))
  /\ next' = next + 1
  /\ UNCHANGED <<writerVars, pc, names, filter, held, offset, credit, disturbed>>

\* No entries: no results.
Collected == Loop("collect", IF all = <<>> THEN "answered" ELSE "embed")

\* The query waits for the dispatcher, behind index jobs; an empty vector ends it.
EmbedQuery ==
  /\ pc = "embed"
  /\ pc' \in {"rank", "answered"}
  /\ UNCHANGED <<writerVars, next, queryVars, disturbed>>

\* Rows FTS5 returns: the LIMIT best, in an order left open.
Best(rows, limit) ==
  {R \in SUBSET rows : Cardinality(R) =
                         IF Cardinality(rows) <= limit THEN Cardinality(rows) ELSE limit}

\* Mutant: positions past the end count.
CreditUnchecked(rows) == {g \in {offset + r : r \in rows} : g > Len(all) \/ Passes(all[g])}

\* Mutant: rowid taken for a position from 0.
CreditShifted(rows) ==
  {g \in {offset + r + 1 : r \in rows} : g <= Len(all) /\ Passes(all[g])}

\* apply_keyword_rank.
Credit(rows) == {g \in {offset + r : r \in rows} : g <= Len(all) /\ Passes(all[g])}

\* keyword_search_fts of names[next], with as many rows as the snapshot has.
Rank ==
  LET i == names[next] IN
  /\ pc = "rank" /\ next <= Len(names)
  /\ IF i \in DOMAIN held
       THEN \E R \in Best({r \in 1..Len(db[i]) : db[i][r] \in Matching}, Len(held[i])) :
              credit' = credit \cup Credit(R)
       ELSE UNCHANGED credit
  /\ offset' = offset + Len(Held(next))
  /\ next' = next + 1
  /\ UNCHANGED <<writerVars, pc, names, filter, held, all, starts, disturbed>>

\* An error of the database is no keyword ranks.
RankFails ==
  /\ pc = "rank" /\ next <= Len(names)
  /\ names[next] \in DOMAIN held
  /\ disturbed' = disturbed \cup {names[next]}
  /\ offset' = offset + Len(Held(next))
  /\ next' = next + 1
  /\ UNCHANGED <<writerVars, pc, names, filter, held, all, credit, starts>>

Ranked ==
  /\ pc = "rank" /\ next > Len(names)
  /\ pc' = "answered"
  /\ UNCHANGED <<writerVars, next, queryVars, disturbed>>

\* The response is written; the handler reads the next request.
Respond ==
  /\ pc = "answered"
  /\ pc' = "idle"
  /\ UNCHANGED <<writerVars, next, queryVars, disturbed>>

-----------------------------------------------------------------------------

Writer == (\E i \in Indexes : Save(i)) \/ Publish

Handler == Query \/ Grab \/ Search \/ Collect \/ Collected \/ EmbedQuery
           \/ Rank \/ RankFails \/ Ranked \/ Respond

Next == Writer \/ Handler

Spec == Init /\ [][Next]_vars

-----------------------------------------------------------------------------
(* Properties.                                                             *)

\* While no save falls between a name's snapshot and its keyword ranks, nor
\* between save and publication under the snapshot, for it and for the names
\* before it, exactly its matching entries get keyword ranks: row numbers are
\* positions, the offsets of several indexes add up, LIMIT cuts nothing off.
KeywordRanksExact ==
  pc \in {"rank", "answered"} =>
    \A k \in 1..(next - 1) :
      (\A j \in 1..k : names[j] \notin disturbed) =>
        \A l \in 1..Len(Held(k)) :
          starts[k] + l \in credit <=> Held(k)[l] \in Matching /\ Passes(Held(k)[l])
=============================================================================
