------------------------- MODULE HybridSearch_proofs -------------------------
(***************************************************************************)
(* For any indexes, entries, tables and lists of names: as long as no save *)
(* comes in between, keyword ranks go to the entries whose words matched.  *)
(***************************************************************************)
EXTENDS HybridSearch, FiniteSetTheorems, TLAPS

\* Only the writer's index is ahead of its snapshot.
Aligned == \A i \in Indexes : writer # i => snap[i] = db[i]

\* A snapshot still to be ranked has the rows of the database.
HeldCurrent == \A i \in Indexes : Awaits(i) /\ i \notin disturbed => held[i] = db[i]

\* The entries of names[1], names[2], ... lie in all one after the other.
Segments ==
  /\ \A k \in 1..Len(starts) :
       /\ starts[k] + Len(Held(k)) <= Len(all)
       /\ \A l \in 1..Len(Held(k)) : all[starts[k] + l] = Held(k)[l]
  /\ \A j, k \in 1..Len(starts) : j < k => starts[j] + Len(Held(j)) <= starts[k]
  /\ \A k \in 1..(Len(starts) - 1) : starts[k + 1] = starts[k] + Len(Held(k))
  /\ Len(starts) > 0 => /\ starts[1] = 0
                        /\ starts[Len(starts)] + Len(Held(Len(starts))) = Len(all)
  /\ Len(starts) = 0 => all = <<>>

\* Where the handler is.
Progress ==
  /\ pc = "grab" => starts = <<>> /\ all = <<>> /\ offset = 0 /\ credit = {}
  /\ pc = "collect" => Len(starts) = next - 1 /\ offset = 0 /\ credit = {}
  /\ pc = "embed" => Len(starts) = Len(names) /\ next = 1 /\ offset = 0 /\ credit = {}
  /\ pc = "rank" => /\ Len(starts) = Len(names)
                    /\ next <= Len(names) => offset = starts[next]
  /\ pc = "answered" => next = 1 \/ Len(starts) = Len(names)

\* No keyword rank falls past the entries of the names done.
CreditBehind ==
  pc = "rank" /\ (\A j \in 1..(next - 1) : names[j] \notin disturbed)
    => \A g \in credit : g <= offset

Inv == Aligned /\ HeldCurrent /\ Segments /\ Progress /\ CreditBehind /\ KeywordRanksExact

-----------------------------------------------------------------------------

LEMMA NamesType == TypeOK => names \in Seq(Indexes \cup Strangers)
<1>1. <<>> \in Seq(Indexes \cup Strangers)
  OBVIOUS
<1>2. \A n \in Requests : n \in Seq(Indexes \cup Strangers)
  BY SearchAssumption
<1> QED BY <1>1, <1>2 DEF TypeOK

LEMMA HeldType ==
  ASSUME TypeOK, NEW k \in 1..Len(names)
  PROVE  Held(k) \in Seq(Entries) /\ Len(Held(k)) \in Nat
<1>1. Held(k) \in Tables \cup {<<>>}
  BY DEF Held, TypeOK
<1>2. <<>> \in Seq(Entries)
  OBVIOUS
<1>3. \A t \in Tables : t \in Seq(Entries)
  BY SearchAssumption
<1>4. Held(k) \in Seq(Entries)
  BY <1>1, <1>2, <1>3
<1> QED BY <1>4

\* With as many rows as the snapshot has entries, LIMIT cuts nothing off.
LEMMA BestIsAll ==
  ASSUME NEW t \in Seq(Entries), NEW rows, rows = {r \in 1..Len(t) : t[r] \in Matching},
         NEW R \in Best(rows, Len(t))
  PROVE  R = rows
<1>1. /\ Len(t) \in Nat /\ IsFiniteSet(1..Len(t)) /\ Cardinality(1..Len(t)) = Len(t)
  BY FS_Interval
<1>2. rows \in SUBSET (1..Len(t))
  OBVIOUS
<1>3. IsFiniteSet(rows) /\ Cardinality(rows) <= Len(t)
  BY <1>1, <1>2, FS_Subset
<1>4. R \in SUBSET rows /\ Cardinality(R) = Cardinality(rows)
  BY <1>3 DEF Best
<1> QED BY <1>3, <1>4, FS_Subset

-----------------------------------------------------------------------------
(* Types.                                                                  *)

LEMMA InitType == Init => TypeOK
BY DEF Init, TypeOK

LEMMA WriterType ==
  ASSUME TypeOK, Writer
  PROVE  TypeOK'
<1>1. CASE \E i \in Indexes : Save(i)
  BY <1>1 DEF TypeOK, Save, queryVars
<1>2. CASE Publish
  BY <1>2 DEF TypeOK, Publish, queryVars
<1> QED BY <1>1, <1>2 DEF Writer

LEMMA HandlerType ==
  ASSUME TypeOK, Handler
  PROVE  TypeOK'
<1> USE DEF TypeOK, writerVars, queryVars
<1>1. CASE Query
  BY <1>1, SearchAssumption DEF Query
<1>2. CASE Grab
  <2>1. /\ DOMAIN held' \subseteq Indexes
        /\ \A i \in DOMAIN held' : held'[i] \in Tables
    BY <1>2 DEF Grab
  <2>2. disturbed' \subseteq Indexes
    BY <1>2 DEF Grab
  <2>3. next' \in 1..(Len(names') + 1)
    BY <1>2, NamesType DEF Grab
  <2> QED BY <1>2, <2>1, <2>2, <2>3 DEF Grab
<1>3. CASE Search \/ Collected
  <2>1. pc' \in {"collect", "answered", "embed"} /\ next' = 1
    BY <1>3 DEF Search, Collected, Loop
  <2>2. next' \in 1..(Len(names) + 1)
    BY <2>1, NamesType
  <2>3. UNCHANGED <<writerVars, queryVars, disturbed>>
    BY <1>3 DEF Search, Collected, Loop
  <2> QED BY <2>1, <2>2, <2>3
<1>4. CASE Collect
  <2>1. Held(next) \in Seq(Entries)
    BY <1>4, HeldType, NamesType DEF Collect
  <2>2. all' \in Seq(Entries) /\ Len(all') >= Len(all)
    BY <1>4, <2>1 DEF Collect
  <2>3. starts' \in Seq(Nat)
    BY <1>4 DEF Collect
  <2>4. credit' \subseteq 1..Len(all')
    BY <1>4, <2>2 DEF Collect
  <2>5. next' \in 1..(Len(names') + 1)
    BY <1>4, NamesType DEF Collect
  <2> QED BY <1>4, <2>2, <2>3, <2>4, <2>5 DEF Collect
<1>5. CASE EmbedQuery \/ Ranked \/ Respond
  BY <1>5 DEF EmbedQuery, Ranked, Respond
<1>6. CASE Rank
  <2>1. Len(Held(next)) \in Nat /\ next' \in 1..(Len(names') + 1)
    BY <1>6, HeldType, NamesType DEF Rank
  <2>2. \A rows \in SUBSET Nat : (\A r \in rows : r > 0) => Credit(rows) \subseteq 1..Len(all)
    BY DEF Credit
  <2>3. credit' \subseteq 1..Len(all)
    <3>1. CASE names[next] \in DOMAIN held
      <4>1. PICK R \in Best({r \in 1..Len(db[names[next]]) : db[names[next]][r] \in Matching},
                            Len(held[names[next]])) : credit' = credit \cup Credit(R)
        BY <1>6, <3>1 DEF Rank
      <4>2. R \in SUBSET (1..Len(db[names[next]])) /\ db[names[next]] \in Seq(Entries)
        BY <3>1, SearchAssumption DEF Best
      <4>3. R \in SUBSET Nat /\ \A r \in R : r > 0
        BY <4>2
      <4> QED BY <4>1, <4>3, <2>2
    <3>2. CASE names[next] \notin DOMAIN held
      BY <1>6, <3>2 DEF Rank
    <3> QED BY <3>1, <3>2
  <2> QED BY <1>6, <2>1, <2>3 DEF Rank
<1>7. CASE RankFails
  <2>1. Len(Held(next)) \in Nat /\ next' \in 1..(Len(names') + 1)
    BY <1>7, HeldType, NamesType DEF RankFails
  <2> QED BY <1>7, <2>1 DEF RankFails
<1> QED BY <1>1, <1>2, <1>3, <1>4, <1>5, <1>6, <1>7 DEF Handler

\* Every variable keeps its type; keyword ranks never fall outside all.
THEOREM TypeCorrect == Spec => []TypeOK
<1>1. TypeOK /\ [Next]_vars => TypeOK'
  <2>1. ASSUME TypeOK, UNCHANGED vars PROVE TypeOK'
    BY <2>1 DEF TypeOK, vars, writerVars, queryVars
  <2> QED BY <2>1, WriterType, HandlerType DEF Next
<1> QED BY InitType, <1>1, PTL DEF Spec

-----------------------------------------------------------------------------
(* The invariant.                                                          *)

LEMMA InitInv == Init => Inv
BY DEF Init, Inv, Aligned, HeldCurrent, Awaits, Segments, Progress, CreditBehind,
       KeywordRanksExact

LEMMA WriterInv ==
  ASSUME TypeOK, Inv, Writer
  PROVE  Inv'
<1>1. /\ UNCHANGED <<pc, next, queryVars>>
      /\ disturbed \subseteq disturbed'
  BY DEF Writer, Save, Publish
<1>2. \A k : Held(k)' = Held(k)
  BY <1>1 DEF Held, queryVars
<1>3. \A e : Passes(e)' <=> Passes(e)
  BY <1>1 DEF Passes, queryVars
<1>4. \A i : Awaits(i)' <=> Awaits(i)
  BY <1>1 DEF Awaits, queryVars
<1>5. Aligned' /\ HeldCurrent'
  <2>1. CASE \E i \in Indexes : Save(i)
    <3>1. PICK i \in Indexes : Save(i)
      BY <2>1
    <3>2. \A j \in Indexes : j # i => db'[j] = db[j]
      BY <3>1 DEF Save, TypeOK
    <3>3. Aligned'
      BY <3>1, <3>2, SearchAssumption DEF Save, Inv, Aligned
    <3>4. HeldCurrent'
      BY <1>4, <3>1, <3>2 DEF Save, Inv, HeldCurrent, queryVars
    <3> QED BY <3>3, <3>4
  <2>2. CASE Publish
    <3>1. Aligned'
      BY <2>2 DEF Publish, Inv, Aligned, TypeOK
    <3>2. HeldCurrent'
      BY <1>4, <2>2 DEF Publish, Inv, HeldCurrent, queryVars
    <3> QED BY <3>1, <3>2
  <2> QED BY <2>1, <2>2 DEF Writer
<1>6. Segments'
  BY <1>1, <1>2 DEF Inv, Segments, queryVars
<1>7. Progress'
  BY <1>1 DEF Inv, Progress, queryVars
<1>8. CreditBehind'
  BY <1>1 DEF Inv, CreditBehind, queryVars
<1>9. KeywordRanksExact'
  BY <1>1, <1>2, <1>3 DEF Inv, KeywordRanksExact, queryVars
<1> QED BY <1>5, <1>6, <1>7, <1>8, <1>9 DEF Inv

\* Up to the ranking.
LEMMA GrabInv ==
  ASSUME TypeOK, Inv, Query \/ Grab
  PROVE  Inv'
<1>1. pc' = "grab" /\ UNCHANGED writerVars
  BY DEF Query, Grab, Inv, Progress
<1>2. starts' = <<>> /\ all' = <<>> /\ offset' = 0 /\ credit' = {}
  BY DEF Query, Grab, Inv, Progress
<1>3. Aligned'
  BY <1>1 DEF Inv, Aligned, writerVars
<1>4. HeldCurrent'
  <2>1. CASE Query
    BY <2>1 DEF Query, HeldCurrent, Awaits
  <2>2. CASE Grab /\ names[next] \in Indexes
    <3>1. ASSUME NEW i \in Indexes, Awaits(i)', i \notin disturbed' PROVE held'[i] = db'[i]
      <4>1. CASE i = names[next]
        <5>1. writer # i /\ held'[i] = snap[i]
          BY <2>2, <3>1, <4>1 DEF Grab
        <5> QED BY <1>1, <5>1 DEF Inv, Aligned, writerVars
      <4>2. CASE i # names[next]
        <5>1. i \in DOMAIN held /\ i \notin disturbed /\ held'[i] = held[i]
          BY <2>2, <3>1, <4>2 DEF Grab, Awaits
        <5>2. Awaits(i)
          BY <2>2, <5>1 DEF Grab, Awaits
        <5> QED BY <1>1, <5>1, <5>2 DEF Inv, HeldCurrent, writerVars
      <4> QED BY <4>1, <4>2
    <3> QED BY <3>1 DEF HeldCurrent
  <2>3. CASE Grab /\ names[next] \notin Indexes
    BY <2>3 DEF Grab, Inv, HeldCurrent, Awaits, writerVars
  <2> QED BY <2>1, <2>2, <2>3
<1>5. Segments' /\ Progress' /\ CreditBehind' /\ KeywordRanksExact'
  BY <1>1, <1>2 DEF Segments, Progress, CreditBehind, KeywordRanksExact
<1> QED BY <1>3, <1>4, <1>5 DEF Inv

LEMMA CollectInv ==
  ASSUME TypeOK, Inv, Collect
  PROVE  Inv'
<1> DEFINE n == Len(starts)
<1>1. /\ pc = "collect" /\ pc' = "collect" /\ n = next - 1 /\ next \in 1..Len(names)
      /\ n \in Nat /\ offset' = 0 /\ credit' = {} /\ next' = next + 1
  BY NamesType DEF Collect, Inv, Progress, TypeOK
<1>2. Held(next) \in Seq(Entries) /\ Len(Held(next)) \in Nat
  BY <1>1, HeldType
<1>3. /\ all \in Seq(Entries) /\ Len(all) \in Nat
      /\ Len(all') = Len(all) + Len(Held(next))
      /\ \A g \in 1..Len(all) : all'[g] = all[g]
      /\ \A l \in 1..Len(Held(next)) : all'[Len(all) + l] = Held(next)[l]
  BY <1>2 DEF Collect, TypeOK
<1>4. /\ starts \in Seq(Nat) /\ Len(starts') = n + 1
      /\ starts'[n + 1] = Len(all)
      /\ \A k \in 1..n : starts'[k] = starts[k] /\ starts[k] \in Nat
  BY DEF Collect, TypeOK
<1>5. \A k : Held(k)' = Held(k)
  BY DEF Collect, Held
<1>6. \A k \in 1..n : Len(Held(k)) \in Nat
  BY <1>1, HeldType
<1>7. Segments'
  <2>1. ASSUME NEW k \in 1..(n + 1)
        PROVE  /\ starts'[k] + Len(Held(k)) <= Len(all')
               /\ \A l \in 1..Len(Held(k)) : all'[starts'[k] + l] = Held(k)[l]
    <3>1. CASE k = n + 1
      <4>1. starts'[k] = Len(all) /\ k = next
        BY <1>1, <1>4, <3>1
      <4> QED BY <1>2, <1>3, <4>1
    <3>2. CASE k \in 1..n
      <4>1. /\ starts[k] + Len(Held(k)) <= Len(all)
            /\ \A l \in 1..Len(Held(k)) : all[starts[k] + l] = Held(k)[l]
        BY <3>2 DEF Inv, Segments
      <4>2. starts'[k] = starts[k] /\ starts[k] \in Nat /\ Len(Held(k)) \in Nat
        BY <1>4, <1>6, <3>2
      <4>3. \A l \in 1..Len(Held(k)) : starts[k] + l \in 1..Len(all)
        BY <1>3, <4>1, <4>2
      <4>4. \A l \in 1..Len(Held(k)) : all'[starts'[k] + l] = Held(k)[l]
        BY <1>3, <4>1, <4>2, <4>3
      <4>5. starts'[k] + Len(Held(k)) <= Len(all')
        BY <1>2, <1>3, <4>1, <4>2
      <4> QED BY <4>4, <4>5
    <3> QED BY <1>1, <3>1, <3>2
  <2>2. ASSUME NEW j \in 1..(n + 1), NEW k \in 1..(n + 1), j < k
        PROVE  starts'[j] + Len(Held(j)) <= starts'[k]
    <3>1. j \in 1..n
      BY <1>1, <2>2
    <3>2. CASE k = n + 1
      BY <1>4, <3>1, <3>2 DEF Inv, Segments
    <3>3. CASE k \in 1..n
      BY <1>4, <2>2, <3>1, <3>3 DEF Inv, Segments
    <3> QED BY <1>1, <3>2, <3>3
  <2>3. ASSUME NEW k \in 1..n PROVE starts'[k + 1] = starts'[k] + Len(Held(k))
    <3>1. CASE k = n
      BY <1>1, <1>4, <3>1 DEF Inv, Segments
    <3>2. CASE k \in 1..(n - 1)
      <4>1. starts[k + 1] = starts[k] + Len(Held(k))
        BY <1>1, <3>2 DEF Inv, Segments
      <4>2. k + 1 \in 1..n
        BY <1>1, <3>2
      <4> QED BY <1>4, <4>1, <4>2
    <3> QED BY <1>1, <3>1, <3>2
  <2>4. starts'[1] = 0
    <3>1. CASE n = 0
      BY <1>4, <3>1 DEF Inv, Segments
    <3>2. CASE n > 0
      BY <1>1, <1>4, <3>2 DEF Inv, Segments
    <3> QED BY <1>1, <3>1, <3>2
  <2>5. starts'[n + 1] + Len(Held(n + 1)) = Len(all')
    BY <1>1, <1>3, <1>4
  <2>6. Len(starts') = n + 1 /\ n + 1 > 0 /\ (n + 1) - 1 = n
    BY <1>1, <1>4
  <2> HIDE DEF n
  <2> QED BY <1>5, <2>1, <2>2, <2>3, <2>4, <2>5, <2>6 DEF Segments
<1>8. Aligned' /\ HeldCurrent'
  BY <1>1 DEF Collect, Inv, Aligned, HeldCurrent, Awaits, writerVars
<1>9. Progress' /\ CreditBehind' /\ KeywordRanksExact'
  BY <1>1, <1>4 DEF Progress, CreditBehind, KeywordRanksExact
<1> QED BY <1>7, <1>8, <1>9 DEF Inv

\* From one loop to the next.
LEMMA LoopInv ==
  ASSUME TypeOK, Inv, Search \/ Collected \/ EmbedQuery
  PROVE  Inv'
<1>1. UNCHANGED <<writerVars, queryVars, disturbed>>
  BY DEF Search, Collected, Loop, EmbedQuery
<1>2. /\ pc \in {"grab", "collect", "embed"} /\ next' = 1 /\ offset' = 0 /\ credit' = {}
      /\ pc' \in {"collect", "embed", "rank", "answered"}
  BY <1>1 DEF Search, Collected, Loop, EmbedQuery, Inv, Progress, queryVars
<1>3. \A k : Held(k)' = Held(k)
  BY <1>1 DEF Held, queryVars
<1>4. Segments'
  BY <1>1, <1>3 DEF Inv, Segments, queryVars
<1>5. \A i : Awaits(i)' => Awaits(i)
  BY <1>1, <1>2 DEF Awaits, queryVars
<1>6. Aligned' /\ HeldCurrent'
  BY <1>1, <1>5 DEF Inv, Aligned, HeldCurrent, writerVars, queryVars
<1>7. Progress'
  <2>1. CASE Search
    BY <1>1, <1>2, <2>1 DEF Search, Loop, Inv, Progress, queryVars
  <2>2. CASE Collected
    BY <1>1, <1>2, <2>2, NamesType DEF Collected, Loop, Inv, Progress, queryVars, TypeOK
  <2>3. CASE EmbedQuery
    <3>1. Len(starts') = Len(names') /\ pc' \in {"rank", "answered"}
      BY <1>1, <2>3 DEF EmbedQuery, Inv, Progress, queryVars
    <3>2. next' <= Len(names') => Len(starts) > 0
      BY <1>1, <1>2, <3>1 DEF queryVars
    <3> QED BY <1>1, <1>2, <3>1, <3>2 DEF Inv, Progress, Segments, queryVars
  <2> QED BY <2>1, <2>2, <2>3
<1>8. CreditBehind' /\ KeywordRanksExact'
  BY <1>2 DEF CreditBehind, KeywordRanksExact
<1> QED BY <1>4, <1>6, <1>7, <1>8 DEF Inv

\* The entries ranked for one name, if nothing was saved in between.
LEMMA RankCredit ==
  ASSUME TypeOK, Inv, Rank, names[next] \notin disturbed
  PROVE  credit' = credit \cup {offset + l : l \in
                     {m \in 1..Len(Held(next)) : Held(next)[m] \in Matching /\ Passes(Held(next)[m])}}
<1> DEFINE i == names[next]
           t == Held(next)
           rows == {r \in 1..Len(t) : t[r] \in Matching}
<1>1. next \in 1..Len(names) /\ offset = starts[next] /\ next \in 1..Len(starts)
  BY NamesType DEF Rank, TypeOK, Inv, Progress
<1>2. t \in Seq(Entries) /\ Len(t) \in Nat
  BY <1>1, HeldType
<1>3. CASE i \notin DOMAIN held
  <2>1. t = <<>> /\ credit' = credit
    BY <1>3 DEF Rank, Held
  <2> QED BY <2>1
<1>4. CASE i \in DOMAIN held
  <2>1. Awaits(i) /\ i \in Indexes
    BY <1>1, <1>4 DEF Rank, Awaits, TypeOK
  <2>2. held[i] = db[i] /\ t = held[i]
    BY <1>4, <2>1 DEF Inv, HeldCurrent, Held
  <2>3. PICK R \in Best(rows, Len(t)) : credit' = credit \cup Credit(R)
    BY <1>4, <2>2 DEF Rank
  <2>4. R = rows
    BY <1>2, <2>3, BestIsAll
  <2>5. \A l \in 1..Len(t) : offset + l <= Len(all) /\ all[offset + l] = t[l]
    <3>1. /\ starts[next] + Len(t) <= Len(all)
          /\ \A l \in 1..Len(t) : all[starts[next] + l] = t[l]
      BY <1>1 DEF Inv, Segments
    <3>2. offset \in Nat /\ Len(all) \in Nat
      BY DEF TypeOK
    <3> QED BY <1>1, <1>2, <3>1, <3>2
  <2>6. Credit(rows) = {offset + l : l \in {m \in 1..Len(t) : t[m] \in Matching /\ Passes(t[m])}}
    BY <2>5 DEF Credit
  <2> QED BY <2>3, <2>4, <2>6
<1> QED BY <1>3, <1>4

\* Whatever the rows, the entries of the names done are left alone.
LEMMA RankAhead ==
  ASSUME TypeOK, Inv, Rank
  PROVE  credit \subseteq credit' /\ \A g \in credit' \ credit : g > offset
<1>1. offset \in Nat
  BY DEF TypeOK
<1>2. CASE names[next] \in DOMAIN held
  <2>1. PICK R \in Best({r \in 1..Len(db[names[next]]) : db[names[next]][r] \in Matching},
                        Len(held[names[next]])) : credit' = credit \cup Credit(R)
    BY <1>2 DEF Rank
  <2>2. \A r \in R : r \in Nat /\ r > 0
    <3>1. R \subseteq 1..Len(db[names[next]]) /\ Len(db[names[next]]) \in Nat
      <4>1. db[names[next]] \in Seq(Entries)
        BY <1>2, SearchAssumption DEF TypeOK
      <4> QED BY <4>1 DEF Best
    <3> QED BY <3>1
  <2>3. \A g \in Credit(R) : g > offset
    BY <1>1, <2>2 DEF Credit
  <2> QED BY <2>1, <2>3
<1>3. CASE names[next] \notin DOMAIN held
  BY <1>3 DEF Rank
<1> QED BY <1>2, <1>3

\* What the two outcomes of the ranking of a name have in common.
LEMMA NextName ==
  ASSUME TypeOK, Inv, Rank \/ RankFails
  PROVE  /\ next \in 1..Len(names) /\ next' = next + 1 /\ Len(starts) = Len(names)
         /\ starts[next] = offset /\ offset \in Nat /\ Len(Held(next)) \in Nat
         /\ offset' = offset + Len(Held(next))
         /\ \A k : Held(k)' = Held(k)
         /\ \A e : Passes(e)' <=> Passes(e)
         /\ disturbed \subseteq disturbed'
         /\ Aligned' /\ HeldCurrent' /\ Segments' /\ Progress'
<1>1. /\ pc = "rank" /\ pc' = "rank" /\ next \in 1..Len(names) /\ next' = next + 1
      /\ UNCHANGED <<writerVars, names, filter, held, all, starts>>
      /\ offset' = offset + Len(Held(next)) /\ disturbed \subseteq disturbed'
  BY NamesType DEF Rank, RankFails, TypeOK
<1>2. Len(starts) = Len(names) /\ starts[next] = offset
  BY <1>1 DEF Inv, Progress
<1>3. /\ \A k : Held(k)' = Held(k)
      /\ \A e : Passes(e)' <=> Passes(e)
  BY <1>1 DEF Held, Passes
<1>4. offset \in Nat /\ Len(Held(next)) \in Nat
  BY <1>1, HeldType DEF TypeOK
<1>5. Segments'
  BY <1>1, <1>3 DEF Inv, Segments
<1>6. Aligned'
  BY <1>1 DEF Inv, Aligned, writerVars
<1>7. HeldCurrent'
  <2>1. Len(names) \in Nat
    BY NamesType
  <2>2. \A i : Awaits(i)' => Awaits(i)
    BY <1>1, <2>1 DEF Awaits
  <2> QED BY <1>1, <2>2 DEF Inv, HeldCurrent, writerVars
<1>8. Progress'
  <2>1. next' <= Len(names) => starts[next'] = offset'
    <3>1. Len(names) \in Nat
      BY NamesType
    <3>2. next + 1 <= Len(names) => next \in 1..(Len(starts) - 1)
      BY <1>1, <1>2, <3>1
    <3> QED BY <1>1, <1>2, <3>2 DEF Inv, Segments
  <2> QED BY <1>1, <1>2, <2>1 DEF Progress
<1> QED BY <1>1, <1>2, <1>3, <1>4, <1>5, <1>6, <1>7, <1>8

LEMMA RankInv ==
  ASSUME TypeOK, Inv, Rank
  PROVE  Inv'
<1>1. pc = "rank" /\ UNCHANGED <<names, starts, disturbed>>
  BY DEF Rank
<1>2. CreditBehind'
  <2> SUFFICES ASSUME \A j \in 1..next : names[j] \notin disturbed
               PROVE  \A g \in credit' : g <= offset'
    BY <1>1, NextName DEF CreditBehind
  <2>1. \A g \in credit : g <= offset
    BY <1>1, NextName DEF Inv, CreditBehind
  <2>2. next \in 1..next
    BY NextName
  <2>3. \A g \in credit' : g \in credit \/ \E l \in 1..Len(Held(next)) : g = offset + l
    BY <2>2, RankCredit
  <2>4. offset \in Nat /\ Len(Held(next)) \in Nat /\ offset' = offset + Len(Held(next))
    BY NextName
  <2>5. \A g \in credit : g \in Nat /\ g <= offset + Len(Held(next))
    <3>1. \A g \in credit : g \in Nat
      BY DEF TypeOK
    <3> QED BY <2>1, <2>4, <3>1
  <2>6. \A l \in 1..Len(Held(next)) : offset + l <= offset + Len(Held(next))
    BY <2>4
  <2> QED BY <2>3, <2>4, <2>5, <2>6
<1>3. KeywordRanksExact'
  <2>0. /\ 1..(next' - 1) = 1..next /\ \A k : Held(k)' = Held(k)
        /\ \A e : Passes(e)' <=> Passes(e)
    BY NextName
  <2> SUFFICES ASSUME NEW k \in 1..next, \A j \in 1..k : names[j] \notin disturbed,
                      NEW l \in 1..Len(Held(k))
               PROVE  starts[k] + l \in credit' <=> Held(k)[l] \in Matching /\ Passes(Held(k)[l])
    BY <1>1, <2>0 DEF KeywordRanksExact
  <2>1. CASE k \in 1..(next - 1)
    <3>1. starts[k] + l \in credit <=> Held(k)[l] \in Matching /\ Passes(Held(k)[l])
      BY <1>1, <2>1 DEF Inv, KeywordRanksExact
    <3>0. /\ k \in 1..Len(starts) /\ next \in 1..Len(starts) /\ k < next
          /\ k \in 1..Len(names)
      <4>1. next \in 1..Len(names) /\ Len(starts) = Len(names)
        BY NextName
      <4>2. Len(names) \in Nat
        BY NamesType
      <4> QED BY <2>1, <4>1, <4>2
    <3>2. starts[k] + Len(Held(k)) <= starts[next]
      BY <3>0 DEF Inv, Segments
    <3>3. starts[k] \in Nat /\ Len(Held(k)) \in Nat
      BY <3>0, HeldType DEF TypeOK
    <3>4. ~(starts[k] + l > offset)
      BY <3>2, <3>3, NextName
    <3> QED BY <3>1, <3>4, RankAhead
  <2>2. CASE k = next
    <3>1. \A g \in credit : g <= offset
      BY <1>1, <2>2, NextName DEF Inv, CreditBehind
    <3>2. offset + l \notin credit
      BY <2>2, <3>1, NextName
    <3>3. offset + l \in credit' <=>
            l \in {m \in 1..Len(Held(next)) : Held(next)[m] \in Matching /\ Passes(Held(next)[m])}
      <4>1. names[next] \notin disturbed
        BY <2>2
      <4>2. \A m \in 1..Len(Held(next)) : offset + m = offset + l => m = l
        BY <2>2, NextName
      <4> QED BY <3>2, <4>1, <4>2, <2>2, RankCredit
    <3> QED BY <2>2, <3>3, NextName
  <2> QED BY <2>1, <2>2, NextName
<1> QED BY <1>2, <1>3, NextName DEF Inv

LEMMA RankFailsInv ==
  ASSUME TypeOK, Inv, RankFails
  PROVE  Inv'
<1>1. /\ pc = "rank" /\ UNCHANGED <<names, starts, credit>>
      /\ names[next] \in disturbed'
  BY DEF RankFails
<1>2. CreditBehind'
  <2>1. next \in 1..(next' - 1)
    BY NextName
  <2> QED BY <1>1, <2>1 DEF CreditBehind
<1>3. KeywordRanksExact'
  <2> SUFFICES ASSUME NEW k \in 1..next, \A j \in 1..k : names[j] \notin disturbed',
                      NEW l \in 1..Len(Held(k))
               PROVE  starts[k] + l \in credit <=> Held(k)[l] \in Matching /\ Passes(Held(k)[l])
    <3>1. /\ next' - 1 = next /\ \A m : Held(m)' = Held(m)
          /\ \A e : Passes(e)' <=> Passes(e)
      BY NextName
    <3> QED BY <1>1, <3>1 DEF KeywordRanksExact
  <2>1. k # next
    BY <1>1, NextName
  <2>2. k \in 1..(next - 1) /\ \A j \in 1..k : names[j] \notin disturbed
    BY <2>1, NextName
  <2> QED BY <1>1, <2>2 DEF Inv, KeywordRanksExact
<1> QED BY <1>2, <1>3, NextName DEF Inv

LEMMA EndInv ==
  ASSUME TypeOK, Inv, Ranked \/ Respond
  PROVE  Inv'
<1>1. /\ UNCHANGED <<writerVars, next, queryVars, disturbed>>
      /\ (pc = "rank" /\ pc' = "answered") \/ pc' = "idle"
  BY DEF Ranked, Respond
<1>2. (\A k : Held(k)' = Held(k)) /\ (\A e : Passes(e)' <=> Passes(e))
  BY <1>1 DEF Held, Passes, queryVars
<1>3. Aligned' /\ HeldCurrent' /\ CreditBehind'
  BY <1>1 DEF Inv, Aligned, HeldCurrent, Awaits, CreditBehind, writerVars
<1>4. Segments'
  BY <1>1, <1>2 DEF Inv, Segments, queryVars
<1>5. Progress'
  BY <1>1 DEF Inv, Progress, queryVars
<1>6. KeywordRanksExact'
  BY <1>1, <1>2 DEF Inv, KeywordRanksExact, queryVars
<1> QED BY <1>3, <1>4, <1>5, <1>6 DEF Inv

LEMMA StutterInv ==
  ASSUME Inv, UNCHANGED vars
  PROVE  Inv'
<1>1. /\ \A k : Held(k)' = Held(k)
      /\ \A e : Passes(e)' <=> Passes(e)
      /\ \A i : Awaits(i)' <=> Awaits(i)
  BY DEF vars, queryVars, Held, Passes, Awaits
<1>2. Aligned' /\ HeldCurrent' /\ Progress' /\ CreditBehind'
  BY <1>1 DEF Inv, Aligned, HeldCurrent, Progress, CreditBehind, vars, writerVars, queryVars
<1>3. Segments' /\ KeywordRanksExact'
  BY <1>1 DEF Inv, Segments, KeywordRanksExact, vars, queryVars
<1> QED BY <1>2, <1>3 DEF Inv

\* Queries that no save comes between rank by keyword exactly the entries that
\* match, however many indexes, of whatever sizes, they name.
THEOREM UndisturbedQueryIsExact == Spec => []KeywordRanksExact
<1>1. TypeOK /\ Inv /\ [Next]_vars => Inv'
  BY WriterInv, GrabInv, CollectInv, LoopInv, RankInv, RankFailsInv, EndInv, StutterInv
     DEF Next, Handler
<1>2. Inv => KeywordRanksExact
  BY DEF Inv
<1> QED BY <1>1, <1>2, InitInv, TypeCorrect, PTL DEF Spec
=============================================================================
