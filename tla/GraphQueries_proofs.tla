-------------------------- MODULE GraphQueries_proofs --------------------------
(***************************************************************************)
(* What holds of `calls`, `affected`, the extraction and the chunkers for  *)
(* every graph, tree and text.                                             *)
(*                                                                         *)
(* A recursive definition says what it computes only where its recursion   *)
(* has a solution.  Here that is proved for each of them from one lemma on *)
(* well-founded recursion; induction is over sets of natural numbers.      *)
(***************************************************************************)
EXTENDS GraphQueries, SequenceTheorems, FiniteSetTheorems, TLAPS

-----------------------------------------------------------------------------
(* Induction and recursion over data, with sets and functions for the      *)
(* predicates and operators that no prover here can instantiate.           *)

\* Induction over the natural numbers, with a set for the predicate.
LEMMA NatSetInduction ==
  ASSUME NEW S, 0 \in S, \A n \in Nat : n \in S => n + 1 \in S
  PROVE  \A n \in Nat : n \in S
<1> DEFINE missed == Nat \ S
<1> SUFFICES ASSUME missed # {} PROVE FALSE
  OBVIOUS
<1>1. PICK x \in missed : \A y \in missed : ~ (<<y, x>> \in OpToRel(<, Nat))
  <2>1. missed \subseteq Nat
    OBVIOUS
  <2> HIDE DEF missed
  <2>2. QED
    BY <2>1, NatLessThanWellFounded, WFMin, Zenon
<1>2. x - 1 \in missed
  OBVIOUS
<1>3. <<x - 1, x>> \in OpToRel(<, Nat)
  BY <1>2 DEF OpToRel
<1>4. QED
  BY <1>1, <1>2, <1>3

\* What F makes of a function at x depends on the function's values at lower rank.
Recursive(S, T, rank, F) ==
  /\ T # {} /\ rank \in [S -> Nat] /\ F \in [S \X [S -> T] -> T]
  /\ \A x \in S : \A g, h \in [S -> T] :
       (\A y \in S : rank[y] < rank[x] => g[y] = h[y]) => F[<<x, g>>] = F[<<x, h>>]

\* There is a function with the value at each place that F makes of it.
LEMMA Recursion ==
  ASSUME NEW S, NEW T, NEW rank, NEW F, Recursive(S, T, rank, F)
  PROVE  \E f \in [S -> T] : \A x \in S : f[x] = F[<<x, f>>]
<1> USE DEF Recursive
<1> DEFINE Solves(g, n) == \A x \in S : rank[x] < n => g[x] = F[<<x, g>>]
           Solvable == {n \in Nat : \E g \in [S -> T] : Solves(g, n)}
           Unique == {n \in Nat : \A g, h \in [S -> T] :
                        Solves(g, n) /\ Solves(h, n) => \A x \in S : rank[x] < n => g[x] = h[x]}
<1>1. \A n \in Nat : n \in Solvable
  <2>1. 0 \in Solvable
    <3>1. PICK t \in T : TRUE
      OBVIOUS
    <3>2. [x \in S |-> t] \in [S -> T] /\ Solves([x \in S |-> t], 0)
      OBVIOUS
    <3>3. QED
      BY <3>2
  <2>2. ASSUME NEW n \in Nat, n \in Solvable PROVE n + 1 \in Solvable
    <3>1. PICK g \in [S -> T] : Solves(g, n)
      BY <2>2
    <3> DEFINE h == [x \in S |-> IF rank[x] < n THEN g[x] ELSE F[<<x, g>>]]
    <3>2. h \in [S -> T]
      OBVIOUS
    <3>3. ASSUME NEW x \in S, rank[x] < n + 1 PROVE h[x] = F[<<x, h>>]
      <4>1. \A y \in S : rank[y] < rank[x] => g[y] = h[y]
        BY <3>3
      <4>2. F[<<x, g>>] = F[<<x, h>>]
        BY <3>2, <4>1
      <4>3. h[x] = F[<<x, g>>]
        BY <3>1
      <4>4. QED
        BY <4>2, <4>3
    <3> HIDE DEF h
    <3>4. QED
      BY <3>2, <3>3
  <2> HIDE DEF Solvable
  <2>3. QED
    BY <2>1, <2>2, NatSetInduction
<1>2. \A n \in Nat : n \in Unique
  <2>1. 0 \in Unique
    OBVIOUS
  <2>2. ASSUME NEW n \in Nat, n \in Unique PROVE n + 1 \in Unique
    <3>1. ASSUME NEW g \in [S -> T], NEW h \in [S -> T], Solves(g, n + 1), Solves(h, n + 1),
                 NEW x \in S, rank[x] < n + 1
          PROVE  g[x] = h[x]
      <4>1. Solves(g, n) /\ Solves(h, n)
        BY <3>1
      <4>2. \A y \in S : rank[y] < n => g[y] = h[y]
        BY <2>2, <4>1
      <4>3. \A y \in S : rank[y] < rank[x] => g[y] = h[y]
        BY <3>1, <4>2
      <4>4. F[<<x, g>>] = F[<<x, h>>]
        BY <4>3
      <4>5. QED
        BY <3>1, <4>4
    <3> HIDE DEF Solves
    <3>2. n + 1 \in Nat
      OBVIOUS
    <3>3. QED
      BY <3>1, <3>2
  <2> HIDE DEF Unique
  <2>3. QED
    BY <2>1, <2>2, NatSetInduction
<1> DEFINE sol == [n \in Nat |-> CHOOSE g \in [S -> T] : Solves(g, n)]
           f == [x \in S |-> sol[rank[x] + 1][x]]
<1>3. ASSUME NEW n \in Nat PROVE sol[n] \in [S -> T] /\ Solves(sol[n], n)
  <2>1. \E g \in [S -> T] : Solves(g, n)
    BY <1>1
  <2>2. sol[n] = CHOOSE g \in [S -> T] : Solves(g, n)
    OBVIOUS
  <2> HIDE DEF Solves, sol
  <2>3. QED
    BY <2>1, <2>2
<1> HIDE DEF sol, Solvable, Unique
<1>4. f \in [S -> T]
  <2>1. ASSUME NEW x \in S PROVE sol[rank[x] + 1][x] \in T
    <3>1. rank[x] + 1 \in Nat
      OBVIOUS
    <3>2. sol[rank[x] + 1] \in [S -> T]
      BY <1>3, <3>1
    <3>3. QED
      BY <3>2
  <2>2. QED
    BY <2>1
<1>5. ASSUME NEW x \in S PROVE f[x] = F[<<x, f>>]
  <2> DEFINE g == sol[rank[x] + 1]
  <2>1. rank[x] + 1 \in Nat /\ g \in [S -> T] /\ Solves(g, rank[x] + 1)
    <3>1. rank[x] + 1 \in Nat
      OBVIOUS
    <3> HIDE DEF Solves, f
    <3>2. QED
      BY <1>3, <3>1
  <2>2. f[x] = g[x]
    OBVIOUS
  <2>3. ASSUME NEW y \in S, rank[y] < rank[x] PROVE f[y] = g[y]
    <3> DEFINE h == sol[rank[y] + 1]
    <3>1. rank[y] + 1 \in Nat /\ h \in [S -> T] /\ Solves(h, rank[y] + 1)
      <4>1. rank[y] + 1 \in Nat
        OBVIOUS
      <4> HIDE DEF Solves, f, g
      <4>2. QED
        BY <1>3, <4>1
    <3>2. f[y] = h[y]
      OBVIOUS
    <3> HIDE DEF f, g, h
    <3>3. Solves(g, rank[y] + 1)
      BY <2>1, <2>3
    <3>4. rank[y] + 1 \in Unique
      BY <1>2, <3>1
    <3>5. QED
      BY <2>1, <3>1, <3>2, <3>3, <3>4 DEF Unique
  <2> HIDE DEF f, g
  <2>4. F[<<x, f>>] = F[<<x, g>>]
    BY <1>4, <2>1, <2>3
  <2>5. QED
    BY <2>1, <2>2, <2>4
<1>6. QED
  BY <1>4, <1>5

\* A set of natural numbers has a least element.
LEMMA LeastNatural ==
  ASSUME NEW S, S \subseteq Nat, S # {}
  PROVE  \E k \in S : \A j \in S : k <= j
<1>1. PICK k \in S : \A j \in S : ~ (<<j, k>> \in OpToRel(<, Nat))
  BY NatLessThanWellFounded, WFMin, Zenon
<1>2. ASSUME NEW j \in S PROVE k <= j
  <2>1. j < k => <<j, k>> \in OpToRel(<, Nat)
    BY DEF OpToRel
  <2>2. QED
    <3>1. j \in Nat /\ k \in Nat /\ ~ (j < k)
      BY <1>1, <2>1
    <3>2. QED
      BY <3>1
<1>3. QED
  BY <1>2

\* Induction up to a bound.
LEMMA UpTo ==
  ASSUME NEW n \in Nat, NEW S, 0 \in S, \A k \in 1..n : k - 1 \in S => k \in S
  PROVE  n \in S
<1> DEFINE R == {k \in Nat : k <= n => k \in S}
<1>1. 0 \in R
  OBVIOUS
<1>2. \A k \in Nat : k \in R => k + 1 \in R
  <2>1. ASSUME NEW k \in Nat, k \in R, k + 1 <= n PROVE k + 1 \in S
    <3>1. k + 1 \in 1..n /\ (k + 1) - 1 \in S
      BY <2>1
    <3>2. QED
      BY <3>1
  <2>2. QED
    BY <2>1
<1> HIDE DEF R
<1>3. n \in R
  BY <1>1, <1>2, NatSetInduction
<1>4. QED
  BY <1>3 DEF R

-----------------------------------------------------------------------------
(* Folds.                                                                  *)

\* f folds the subsets of S, the last element pick names.
FoldsBy(f, S, pick, base, F) ==
  /\ f[{}] = base
  /\ \A s \in SUBSET S : s # {} => f[s] = F[<<f[s \ {pick[s]}], pick[s]>>]

\* The recursion of a fold over a finite set that takes its elements as pick says.
LEMMA SetFold ==
  ASSUME NEW S, IsFiniteSet(S), NEW pick, \A s \in SUBSET S : s # {} => pick[s] \in s,
         NEW T, NEW base \in T, NEW F \in [T \X S -> T]
  PROVE  \E f \in [SUBSET S -> T] : FoldsBy(f, S, pick, base, F)
<1> DEFINE D == SUBSET S
           rest(s) == s \ {pick[s]}
           rank == [s \in D |-> Cardinality(s)]
           G == [p \in D \X [D -> T] |-> IF p[1] = {} THEN base ELSE F[<<p[2][rest(p[1])], pick[p[1]]>>]]
<1>1. \A s \in D : s # {} => pick[s] \in S /\ rest(s) \in D
  OBVIOUS
<1>2. ASSUME NEW s \in D PROVE IsFiniteSet(s) /\ Cardinality(s) \in Nat
  BY FS_Subset, FS_CardinalityType
<1>3. ASSUME NEW s \in D, s # {} PROVE Cardinality(rest(s)) < Cardinality(s)
  <2>1. pick[s] \in s
    BY <1>3
  <2>2. Cardinality(rest(s)) = Cardinality(s) - 1
    BY <1>2, <2>1, FS_RemoveElement
  <2>3. QED
    BY <1>2, <2>2
<1>4. rank \in [D -> Nat] /\ \A s \in D : rank[s] = Cardinality(s)
  BY <1>2
<1> HIDE DEF rest, rank
<1>5. G \in [D \X [D -> T] -> T]
  BY <1>1
<1>6. \A s \in D : \A g \in [D -> T] :
        G[<<s, g>>] = IF s = {} THEN base ELSE F[<<g[rest(s)], pick[s]>>]
  OBVIOUS
<1> HIDE DEF G
<1>7. ASSUME NEW s \in D, NEW g \in [D -> T], NEW h \in [D -> T],
             \A t \in D : rank[t] < rank[s] => g[t] = h[t]
      PROVE  G[<<s, g>>] = G[<<s, h>>]
  <2>1. s # {} => g[rest(s)] = h[rest(s)]
    BY <1>1, <1>3, <1>4, <1>7
  <2>2. CASE s = {}
    BY <1>6, <2>2
  <2>3. CASE s # {}
    <3>1. G[<<s, g>>] = F[<<g[rest(s)], pick[s]>>] /\ G[<<s, h>>] = F[<<h[rest(s)], pick[s]>>]
      BY <1>6, <2>3
    <3>2. QED
      BY <2>1, <2>3, <3>1
  <2>4. QED
    BY <2>2, <2>3
<1> HIDE DEF D
<1>8. Recursive(D, T, rank, G)
  BY <1>4, <1>5, <1>7 DEF Recursive
<1>9. PICK f \in [D -> T] : \A s \in D : f[s] = G[<<s, f>>]
  BY <1>8, Recursion
<1>10. {} \in D
  BY DEF D
<1>11. f[{}] = base /\ \A s \in D : s # {} => f[s] = F[<<f[rest(s)], pick[s]>>]
  BY <1>6, <1>9, <1>10
<1>12. QED
  BY <1>11 DEF D, rest, FoldsBy

\* A left fold takes the last element of a prefix first.
LEMMA LastOfPrefix ==
  ASSUME NEW k \in Nat \ {0}
  PROVE  Max(1..k) = k /\ (1..k) \ {k} = 1..(k - 1)
<1>1. k \in 1..k /\ \A y \in 1..k : k >= y
  OBVIOUS
<1>2. \A x \in 1..k : (\A y \in 1..k : x >= y) => x = k
  OBVIOUS
<1>3. Max(1..k) = k
  BY <1>1, <1>2 DEF Max
<1>4. QED
  BY <1>3

\* A largest element.
LEMMA MaxOfSet ==
  ASSUME NEW n \in Nat, NEW s \in SUBSET (1..n), s # {}
  PROVE  Max(s) \in s /\ \A y \in s : y <= Max(s)
<1> DEFINE Bounds == {m \in Nat : \A y \in s : y <= m}
<1>1. Bounds \subseteq Nat /\ n \in Bounds
  OBVIOUS
<1>2. PICK m \in Bounds : \A j \in Bounds : m <= j
  BY <1>1, LeastNatural
<1>3. m \in s
  <2>1. m \in Nat /\ m # 0
    <3>1. PICK y \in s : y \in 1..n
      OBVIOUS
    <3>2. QED
      BY <1>2, <3>1
  <2>2. m - 1 \in Nat /\ m - 1 \notin Bounds
    BY <1>2, <2>1
  <2>3. QED
    BY <1>2, <2>1, <2>2
<1>4. \A y \in s : m >= y
  BY <1>2
<1>5. \E x \in s : \A y \in s : x >= y
  BY <1>3, <1>4
<1>6. Max(s) \in s /\ \A y \in s : Max(s) >= y
  <2>1. Max(s) = CHOOSE x \in s : \A y \in s : x >= y
    BY DEF Max
  <2>2. QED
    BY <1>5, <2>1
<1>7. QED
  BY <1>6

\* f folds the prefixes of 1..n from the left.
FoldsLeft(f, n, base, F) ==
  /\ f[{}] = base
  /\ \A s \in SUBSET (1..n) : s # {} => f[s] = F[<<f[s \ {Max(s)}], Max(s)>>]

\* The recursion of a left fold.
LEMMA LeftFold ==
  ASSUME NEW n \in Nat, NEW T, NEW base \in T, NEW F \in [T \X (1..n) -> T]
  PROVE  \E f \in [SUBSET (1..n) -> T] : FoldsLeft(f, n, base, F)
<1> DEFINE pick == [s \in SUBSET (1..n) |-> Max(s)]
<1>1. IsFiniteSet(1..n)
  BY FS_Interval
<1>2. \A s \in SUBSET (1..n) : pick[s] = Max(s)
  OBVIOUS
<1> HIDE DEF pick
<1>3. \A s \in SUBSET (1..n) : s # {} => pick[s] \in s
  BY <1>2, MaxOfSet
<1>4. PICK f \in [SUBSET (1..n) -> T] : FoldsBy(f, 1..n, pick, base, F)
  BY <1>1, <1>3, SetFold
<1>5. FoldsLeft(f, n, base, F)
  BY <1>2, <1>4 DEF FoldsBy, FoldsLeft
<1>6. QED
  BY <1>5

\* An order of a set has each of its elements.
LEMMA Enumeration ==
  ASSUME NEW S, IsFiniteSet(S), NEW order \in SetToSeqs(S)
  PROVE  /\ order \in Seq(S)
         /\ \A x \in S : \E k \in 1..Len(order) : order[k] = x
<1> DEFINE n == Cardinality(S)
<1>1. n \in Nat
  BY FS_CardinalityType
<1>2. order \in [1..n -> S] /\ \A i, j \in 1..n : i # j => order[i] # order[j]
  BY DEF SetToSeqs
<1>3. order \in Seq(S) /\ Len(order) = n
  BY <1>1, <1>2
<1>4. IsFiniteSet(1..n) /\ Cardinality(1..n) = n
  BY <1>1, FS_Interval
<1>5. order \in Injection(1..n, S)
  BY <1>2 DEF Injection, IsInjective
<1>6. order \in Surjection(1..n, S)
  BY <1>4, <1>5, FS_Injection
<1>7. QED
  BY <1>3, <1>6 DEF Surjection

\* What lies after the first entry and behind the last.
LEMMA TakenAndAdded ==
  ASSUME NEW S, NEW q \in Seq(S), q # <<>>, NEW added \in Seq(S)
  PROVE  /\ Len(q) \in Nat \ {0} /\ Head(q) = q[1] /\ q[1] \in S
         /\ Tail(q) \o added \in Seq(S)
         /\ Len(Tail(q) \o added) = Len(q) - 1 + Len(added)
         /\ \A k \in 1..Len(q) - 1 : (Tail(q) \o added)[k] = q[k + 1]
         /\ \A k \in 1..Len(added) : (Tail(q) \o added)[Len(q) - 1 + k] = added[k]
<1>1. Len(q) \in Nat \ {0}
  BY EmptySeq, LenProperties
<1>2. /\ Tail(q) \in Seq(S) /\ Len(Tail(q)) = Len(q) - 1
      /\ \A k \in 1..Len(Tail(q)) : Tail(q)[k] = q[k + 1]
  BY HeadTailProperties
<1>3. /\ Tail(q) \o added \in Seq(S) /\ Len(Tail(q) \o added) = Len(Tail(q)) + Len(added)
      /\ \A k \in 1..Len(Tail(q)) + Len(added) :
           (Tail(q) \o added)[k] = IF k <= Len(Tail(q)) THEN Tail(q)[k]
                                   ELSE added[k - Len(Tail(q))]
  BY <1>2, ConcatProperties
<1>4. Len(added) \in Nat
  BY LenProperties
<1>5. \A k \in 1..Len(q) - 1 : (Tail(q) \o added)[k] = q[k + 1]
  BY <1>1, <1>2, <1>3, <1>4
<1>6. \A k \in 1..Len(added) : (Tail(q) \o added)[Len(q) - 1 + k] = added[k]
  BY <1>1, <1>2, <1>3, <1>4
<1>7. QED
  BY <1>1, <1>2, <1>3, <1>5, <1>6, ElementOfSeq, HeadTailProperties

-----------------------------------------------------------------------------
(* CallTree.                                                               *)

\* An open call.
FrameType == [name : Functions, todo : SUBSET Functions, level : Nat]

\* What has been reported or asked for,
Known == asked \cup {e.name : e \in tree}

\* and what of it lies above the limit.
Expanded == asked \cup {e.name : e \in {r \in tree : r.depth < depth}}

\* f has been reported just above level k.
ReportedAt(f, k) == IF k = 1 THEN f \in asked ELSE \E p \in tree : p.name = f /\ p.depth + 1 = k

\* The open calls are those of the path to the innermost one.
PathInv ==
  /\ \A k \in 1..Len(stack) :
       /\ stack[k].level = k /\ k <= depth
       /\ stack[k].todo \subseteq Neighbours(stack[k].name)
       /\ ReportedAt(stack[k].name, k)
  /\ calls = "walking" => stack # <<>> /\ visited = Known
  /\ calls = "answered" => stack = <<>>
  /\ calls = "idle" => stack = <<>> /\ tree = {}

\* What is reported above the limit has its neighbours reported, or still to come in
\* an open call of its own.
NothingForgotten ==
  calls # "idle" =>
    \A f \in Expanded : \A g \in Neighbours(f) :
      g \in Known \/ \E k \in 1..Len(stack) : stack[k].name = f /\ g \in stack[k].todo

\* The inductive invariant of the walk.
TreeInv == CallTreeTypeOK /\ PathInv /\ TreeHangsTogether

-----------------------------------------------------------------------------
(* The stack while one edge is taken from the innermost loop, and after.   *)

\* The innermost call.
LEMMA TopFrame ==
  ASSUME CallTreeTypeOK, stack # <<>>
  PROVE  /\ Len(stack) \in Nat \ {0} /\ Top \in FrameType
         /\ \A k \in 1..Len(stack) : stack[k] \in FrameType
<1>1. stack \in Seq(FrameType)
  BY DEF CallTreeTypeOK, FrameType
<1>2. Len(stack) \in Nat \ {0}
  BY <1>1, EmptySeq, LenProperties
<1>3. \A k \in 1..Len(stack) : stack[k] \in FrameType
  BY <1>1, ElementOfSeq
<1>4. QED
  BY <1>2, <1>3 DEF Top

\* The open calls when an edge is taken from the innermost.
Taken(g) == [stack EXCEPT ![Len(stack)].todo = @ \ {g}]

\* They are the open calls but for that edge.
LEMMA TakenFrames ==
  ASSUME CallTreeTypeOK, stack # <<>>, NEW g \in Functions
  PROVE  /\ Taken(g) \in Seq(FrameType) /\ Len(Taken(g)) = Len(stack)
         /\ \A k \in 1..Len(stack) :
              /\ Taken(g)[k].name = stack[k].name /\ Taken(g)[k].level = stack[k].level
              /\ Taken(g)[k].todo = IF k = Len(stack) THEN stack[k].todo \ {g} ELSE stack[k].todo
<1>1. PICK frames : frames = Taken(g)
  OBVIOUS
<1>2. stack \in Seq(FrameType) /\ Len(stack) \in 1..Len(stack)
  BY TopFrame DEF CallTreeTypeOK, FrameType
<1> DEFINE top == [stack[Len(stack)] EXCEPT !.todo = @ \ {g}]
<1>3. top \in FrameType /\ frames = [stack EXCEPT ![Len(stack)] = top]
  BY <1>1, <1>2, TopFrame DEF FrameType, Top, Taken
<1>4. frames \in Seq(FrameType) /\ Len(frames) = Len(stack)
      /\ \A k \in 1..Len(stack) : frames[k] = IF k = Len(stack) THEN top ELSE stack[k]
  BY <1>2, <1>3, ExceptSeq
<1>5. /\ top.name = stack[Len(stack)].name /\ top.level = stack[Len(stack)].level
      /\ top.todo = stack[Len(stack)].todo \ {g}
  BY TopFrame DEF FrameType, Top
<1> HIDE DEF top
<1>6. ASSUME NEW k \in 1..Len(stack)
      PROVE  /\ frames[k].name = stack[k].name /\ frames[k].level = stack[k].level
             /\ frames[k].todo = IF k = Len(stack) THEN stack[k].todo \ {g} ELSE stack[k].todo
  <2>1. CASE k = Len(stack)
    BY <1>4, <1>5, <2>1
  <2>2. CASE k # Len(stack)
    BY <1>4, <2>2
  <2>3. QED
    BY <2>1, <2>2
<1>7. QED
  BY <1>1, <1>4, <1>6

\* The open calls with one more.
LEMMA LongerFrames ==
  ASSUME NEW frames \in Seq(FrameType), NEW frame \in FrameType
  PROVE  /\ Append(frames, frame) \in Seq(FrameType)
         /\ Len(Append(frames, frame)) = Len(frames) + 1
         /\ \A k \in 1..Len(frames) : Append(frames, frame)[k] = frames[k]
         /\ Append(frames, frame)[Len(frames) + 1] = frame
BY AppendProperties

\* The open calls without the innermost.
LEMMA ShorterFrames ==
  ASSUME CallTreeTypeOK, stack # <<>>,
         NEW frames, frames = SubSeq(stack, 1, Len(stack) - 1)
  PROVE  /\ frames \in Seq(FrameType) /\ Len(frames) = Len(stack) - 1
         /\ \A k \in 1..Len(frames) : frames[k] = stack[k]
<1> DEFINE n == Len(stack) - 1
<1>1. frames = SubSeq(stack, 1, n) /\ n = Len(stack) - 1
      /\ n \in Int /\ 0 <= n /\ \A k \in 1..n : stack[k] \in FrameType
  BY TopFrame
<1>2. /\ SubSeq(stack, 1, n) \in Seq(FrameType)
      /\ Len(SubSeq(stack, 1, n)) = IF 1 <= n THEN n - 1 + 1 ELSE 0
      /\ \A k \in 1..n - 1 + 1 : SubSeq(stack, 1, n)[k] = stack[1 + k - 1]
  BY <1>1, SubSeqProperties
<1> HIDE DEF n
<1>3. Len(SubSeq(stack, 1, n)) = n
  BY <1>1, <1>2
<1>4. \A k \in 1..n : frames[k] = stack[k]
  BY <1>1, <1>2
<1>5. QED
  BY <1>1, <1>2, <1>3, <1>4

-----------------------------------------------------------------------------
(* One pass of the innermost loop.                                         *)

\* What one edge reports.
NewReport(g) == [name |-> g, depth |-> Top.level, parent |-> Top.name]

\* What is known after it: at most one frame more, the new function's.
LEMMA VisitEffect ==
  ASSUME TreeInv, NEW g \in Functions, Visit(g)
  PROVE  /\ Len(stack) \in Nat \ {0} /\ Top \in FrameType /\ Top.level = Len(stack)
         /\ Top.level <= depth /\ <<Top.name, g>> \in edges /\ ReportedAt(Top.name, Len(stack))
         /\ stack' \in Seq(FrameType) /\ stack' # <<>>
         /\ \A k \in 1..Len(stack) :
              /\ stack'[k].name = stack[k].name /\ stack'[k].level = stack[k].level
              /\ stack'[k].todo = IF k = Len(stack) THEN stack[k].todo \ {g} ELSE stack[k].todo
         /\ \/ /\ Len(stack') = Len(stack)
               /\ g \in visited \/ Top.level = depth
            \/ /\ Len(stack') = Len(stack) + 1 /\ g \notin visited
               /\ Top.level < depth
               /\ stack'[Len(stack) + 1] = Frame(g, Top.level + 1)
         /\ visited' = visited \cup {g}
         /\ tree' = IF g \in visited THEN tree ELSE tree \cup {NewReport(g)}
<1>1. PICK frames : frames = Taken(g)
  OBVIOUS
<1>2. CallTreeTypeOK /\ stack # <<>> /\ g \in Top.todo
  BY DEF TreeInv, Visit
<1>3. Len(stack) \in Nat \ {0} /\ Len(stack) \in 1..Len(stack) /\ Top \in FrameType
  BY <1>2, TopFrame
<1>4. /\ Top.level = Len(stack) /\ Top.level <= depth /\ ReportedAt(Top.name, Len(stack))
      /\ Top.todo \subseteq Neighbours(Top.name)
  <2>1. PathInv
    BY DEF TreeInv
  <2>2. QED
    BY <1>3, <2>1 DEF PathInv, Top
<1>5. <<Top.name, g>> \in edges
  BY <1>2, <1>4 DEF Neighbours
<1>6. /\ frames \in Seq(FrameType) /\ Len(frames) = Len(stack)
      /\ \A k \in 1..Len(stack) :
           /\ frames[k].name = stack[k].name /\ frames[k].level = stack[k].level
           /\ frames[k].todo = IF k = Len(stack) THEN stack[k].todo \ {g} ELSE stack[k].todo
  BY <1>1, <1>2, TakenFrames
<1>7. frames # <<>>
  BY <1>3, <1>6, EmptySeq
<1>8. depth \in Nat /\ Top.level \in Nat
  BY <1>2, <1>3 DEF CallTreeTypeOK, FrameType
<1>9. Frame(g, Top.level + 1) \in FrameType
  BY <1>8 DEF Frame, FrameType, Neighbours
<1>10. IF g \in visited
        THEN stack' = frames /\ visited' = visited /\ tree' = tree
        ELSE /\ visited' = visited \cup {g} /\ tree' = tree \cup {NewReport(g)}
             /\ stack' = Descend(g, frames)
  BY <1>1 DEF Visit, NewReport, Taken
<1>11. CASE g \in visited
  BY <1>3, <1>4, <1>5, <1>6, <1>7, <1>10, <1>11
<1>12. CASE g \notin visited /\ Top.level < depth
  <2>1. stack' = Append(frames, Frame(g, Top.level + 1))
    BY <1>10, <1>12 DEF Descend
  <2>2. /\ stack' \in Seq(FrameType) /\ Len(stack') = Len(stack) + 1
        /\ \A k \in 1..Len(stack) : stack'[k] = frames[k]
        /\ stack'[Len(stack) + 1] = Frame(g, Top.level + 1)
    BY <1>6, <1>9, <2>1, LongerFrames
  <2>3. stack' # <<>>
    BY <1>3, <2>2, EmptySeq
  <2>4. QED
    BY <1>3, <1>4, <1>5, <1>6, <1>10, <1>12, <2>2, <2>3
<1>13. CASE g \notin visited /\ ~(Top.level < depth)
  <2>1. stack' = frames /\ Top.level = depth
    BY <1>4, <1>8, <1>10, <1>13 DEF Descend
  <2>2. QED
    BY <1>3, <1>4, <1>5, <1>6, <1>7, <1>10, <1>13, <2>1
<1>14. QED
  BY <1>11, <1>12, <1>13

\* Taking an edge.
LEMMA VisitStep ==
  ASSUME TreeInv, NothingForgotten, NEW g \in Functions, Visit(g)
  PROVE  TreeInv' /\ NothingForgotten'
<1> DEFINE n == Len(stack)
<1>1. /\ n \in Nat \ {0} /\ Top \in FrameType /\ Top.level = n
      /\ n <= depth /\ <<Top.name, g>> \in edges /\ ReportedAt(Top.name, n)
      /\ stack' \in Seq(FrameType) /\ stack' # <<>>
      /\ \A k \in 1..n :
           /\ stack'[k].name = stack[k].name /\ stack'[k].level = stack[k].level
           /\ stack'[k].todo = IF k = n THEN stack[k].todo \ {g} ELSE stack[k].todo
      /\ \/ Len(stack') = n /\ (g \in visited \/ n = depth)
         \/ /\ Len(stack') = n + 1 /\ g \notin visited /\ n < depth
            /\ stack'[n + 1] = Frame(g, n + 1)
      /\ visited' = visited \cup {g}
      /\ tree' = IF g \in visited THEN tree ELSE tree \cup {NewReport(g)}
  BY VisitEffect, Zenon
<1>2. /\ UNCHANGED <<edges, calls, asked, depth>> /\ calls = "walking"
      /\ visited = Known /\ CallTreeTypeOK /\ TreeHangsTogether
  BY DEF Visit, TreeInv, PathInv
<1> HIDE DEF n
<1>3. depth \in Nat /\ NewReport(g) \in Report
  BY <1>1, <1>2 DEF CallTreeTypeOK, NewReport, Report, FrameType
<1>4. NewReport(g).name = g /\ NewReport(g).depth = n /\ NewReport(g).parent = Top.name
  BY <1>1 DEF NewReport
<1>5. \A f \in Functions : Neighbours(f)' = Neighbours(f)
  BY <1>2 DEF Neighbours
<1>6. Known' = Known \cup {g}
  <2>1. CASE g \in visited
    BY <1>1, <1>2, <2>1 DEF Known
  <2>2. CASE g \notin visited
    BY <1>1, <1>2, <1>4, <2>2 DEF Known
  <2>3. QED
    BY <2>1, <2>2
<1>7. CallTreeTypeOK'
  <2>1. tree' \in SUBSET Report
    BY <1>1, <1>2, <1>3 DEF CallTreeTypeOK
  <2>2. QED
    BY <1>1, <1>2, <2>1 DEF CallTreeTypeOK, FrameType
<1>8. tree \subseteq tree'
  BY <1>1
<1>9. TreeHangsTogether'
  <2> SUFFICES ASSUME NEW e \in tree'
               PROVE  /\ <<e.parent, e.name>> \in edges' /\ e.depth \in 1..depth'
                      /\ IF e.depth = 1 THEN e.parent \in asked'
                         ELSE \E p \in tree' : p.name = e.parent /\ p.depth + 1 = e.depth
    BY DEF TreeHangsTogether
  <2>1. CASE e \in tree
    BY <1>2, <1>8, <2>1 DEF TreeHangsTogether
  <2>2. CASE e = NewReport(g)
    BY <1>1, <1>2, <1>3, <1>4, <1>8, <2>2 DEF ReportedAt
  <2>3. QED
    BY <1>1, <2>1, <2>2
<1>10. PathInv'
  <2>1. ASSUME NEW k \in 1..Len(stack')
        PROVE  /\ stack'[k].level = k /\ k <= depth'
               /\ stack'[k].todo \subseteq Neighbours(stack[k].name)'
               /\ ReportedAt(stack[k].name, k)'
    <3>1. CASE k \in 1..n
      <4>1. stack[k].level = k /\ k <= depth /\ stack[k].todo \subseteq Neighbours(stack[k].name)
            /\ ReportedAt(stack[k].name, k) /\ stack[k] \in FrameType
        BY <3>1, TopFrame DEF n, TreeInv, PathInv
      <4>2. stack'[k].name = stack[k].name /\ stack'[k].level = k
            /\ stack'[k].todo \subseteq stack[k].todo
        BY <1>1, <3>1, <4>1
      <4>3. Neighbours(stack[k].name)' = Neighbours(stack[k].name)
        BY <1>2, <4>2 DEF Neighbours
      <4>4. ReportedAt(stack[k].name, k)'
        BY <1>2, <1>8, <4>1, <4>2 DEF ReportedAt
      <4>5. QED
        BY <1>2, <4>1, <4>2, <4>3, <4>4
    <3>2. CASE k = n + 1
      <4>1. stack'[k] = Frame(g, n + 1) /\ g \notin visited /\ n < depth
        BY <1>1, <3>2
      <4>2. stack'[k].name = g /\ stack'[k].level = k /\ stack'[k].todo = Neighbours(g)
        BY <3>2, <4>1 DEF Frame
      <4>3. NewReport(g) \in tree'
        BY <1>1, <4>1
      <4>4. ReportedAt(stack[k].name, k)'
        BY <1>1, <1>4, <3>2, <4>2, <4>3 DEF ReportedAt
      <4>5. Neighbours(stack[k].name)' = Neighbours(g)
        BY <1>2, <4>2 DEF Neighbours
      <4>6. QED
        BY <1>1, <1>2, <1>3, <3>2, <4>1, <4>2, <4>4, <4>5
    <3>3. QED
      BY <1>1, <3>1, <3>2
  <2>2. calls' = "walking" /\ stack' # <<>> /\ visited' = Known'
    BY <1>1, <1>2, <1>6
  <2>3. QED
    BY <2>1, <2>2 DEF PathInv
<1>11. NothingForgotten'
  <2> SUFFICES ASSUME NEW f \in Expanded', NEW h \in Neighbours(f)'
               PROVE  \/ h \in Known'
                      \/ \E k \in 1..Len(stack') : stack'[k].name = f /\ h \in stack'[k].todo
    BY DEF NothingForgotten
  <2>1. h \in Neighbours(f)
    BY <1>2 DEF Neighbours
  <2>2. CASE f \in Expanded
    <3>1. h \in Known \/ \E k \in 1..n : stack[k].name = f /\ h \in stack[k].todo
      BY <1>2, <2>1, <2>2 DEF NothingForgotten, n
    <3>2. ASSUME NEW k \in 1..n, stack[k].name = f, h \in stack[k].todo, h # g
          PROVE  k \in 1..Len(stack') /\ stack'[k].name = f /\ h \in stack'[k].todo
      <4>1. stack'[k].name = stack[k].name
            /\ stack'[k].todo = IF k = n THEN stack[k].todo \ {g} ELSE stack[k].todo
        BY <1>1
      <4>2. k \in 1..Len(stack')
        BY <1>1
      <4>3. QED
        BY <3>2, <4>1, <4>2
    <3>3. QED
      BY <1>6, <3>1, <3>2
  <2>3. CASE f \notin Expanded
    <3>1. f = g /\ g \notin visited /\ n < depth
      BY <1>1, <1>2, <1>4, <2>3 DEF Expanded
    <3>2. n + 1 \in 1..Len(stack') /\ stack'[n + 1] = Frame(g, n + 1)
      BY <1>1, <3>1
    <3>3. QED
      BY <2>1, <3>1, <3>2 DEF Frame
  <2>4. QED
    BY <2>2, <2>3
<1>12. QED
  BY <1>7, <1>9, <1>10, <1>11 DEF TreeInv

-----------------------------------------------------------------------------
(* The other steps.                                                        *)

\* The start of a walk.
LEMMA CallsStep ==
  ASSUME TreeInv, NEW f \in Functions, NEW d \in CallDepths, Calls(f, d)
  PROVE  TreeInv' /\ NothingForgotten'
<1>1. /\ edges' \in SUBSET (Functions \X Functions) /\ d \in Nat \ {0}
      /\ calls' = "walking" /\ asked' = {f} /\ depth' = d /\ visited' = {f}
      /\ stack' = <<Frame(f, 1)'>> /\ tree' = {} /\ CallTreeTypeOK
  BY CallTreeAssumption DEF Calls, TreeInv, PathInv
<1>2. Frame(f, 1)' \in FrameType
  BY DEF Frame, FrameType, Neighbours
<1>3. stack' \in Seq(FrameType) /\ Len(stack') = 1 /\ stack'[1] = Frame(f, 1)' /\ stack' # <<>>
  BY <1>1, <1>2
<1>4. stack'[1].name = f /\ stack'[1].level = 1 /\ stack'[1].todo = Neighbours(f)'
  BY <1>3 DEF Frame
<1>5. CallTreeTypeOK'
  BY <1>1, <1>3 DEF CallTreeTypeOK, FrameType
<1>6. PathInv'
  <2>1. Known' = {f} /\ ReportedAt(f, 1)'
    BY <1>1 DEF Known, ReportedAt
  <2>2. \A k \in 1..Len(stack') : k = 1
    BY <1>3
  <2>3. ASSUME NEW k \in 1..Len(stack')
        PROVE  /\ stack'[k].level = k /\ k <= depth'
               /\ stack'[k].todo \subseteq Neighbours(stack[k].name)'
               /\ ReportedAt(stack[k].name, k)'
    BY <1>1, <1>4, <2>1, <2>2
  <2>4. QED
    BY <1>1, <1>3, <2>1, <2>3 DEF PathInv
<1>7. TreeHangsTogether'
  BY <1>1 DEF TreeHangsTogether
<1>8. NothingForgotten'
  <2>1. Expanded' = {f} /\ 1 \in 1..Len(stack')
    BY <1>1, <1>3 DEF Expanded
  <2>2. QED
    BY <1>4, <2>1 DEF NothingForgotten
<1>9. QED
  BY <1>5, <1>6, <1>7, <1>8 DEF TreeInv

\* At depth 1 the neighbours are the answer.
LEMMA DirectStep ==
  ASSUME TreeInv, NEW f \in Functions, Direct(f)
  PROVE  TreeInv' /\ NothingForgotten'
<1> DEFINE listed == {[name |-> g, depth |-> 1, parent |-> f] : g \in Neighbours(f)'}
<1>1. /\ edges' \in SUBSET (Functions \X Functions)
      /\ calls' = "answered" /\ asked' = {f} /\ depth' = 1 /\ tree' = listed
      /\ stack' = <<>> /\ visited' = visited /\ CallTreeTypeOK
  BY CallTreeAssumption DEF Direct, TreeInv, PathInv
<1>2. Neighbours(f)' \subseteq Functions /\ \A g \in Neighbours(f)' : <<f, g>> \in edges'
  BY DEF Neighbours
<1>3. \A e \in listed : e \in Report /\ e.depth = 1 /\ e.parent = f /\ e.name \in Neighbours(f)'
  BY <1>2 DEF Report
<1>4. ASSUME NEW g \in Neighbours(f)' PROVE \E e \in listed : e.name = g
  <2> DEFINE e == [name |-> g, depth |-> 1, parent |-> f]
  <2>1. e \in listed /\ e.name = g
    OBVIOUS
  <2>2. QED
    BY <2>1, Zenon
<1> HIDE DEF listed
<1>5. CallTreeTypeOK'
  BY <1>1, <1>3 DEF CallTreeTypeOK
<1>6. PathInv'
  BY <1>1 DEF PathInv
<1>7. TreeHangsTogether'
  BY <1>1, <1>2, <1>3 DEF TreeHangsTogether
<1>8. Expanded' = {f}
  BY <1>1, <1>3 DEF Expanded
<1>9. NothingForgotten'
  BY <1>1, <1>4, <1>8 DEF NothingForgotten, Known
<1>10. QED
  BY <1>5, <1>6, <1>7, <1>9 DEF TreeInv

\* A loop that is through has nothing left to come.
LEMMA ReturnStep ==
  ASSUME TreeInv, NothingForgotten, Return
  PROVE  TreeInv' /\ NothingForgotten'
<1> DEFINE n == Len(stack)
<1>1. /\ CallTreeTypeOK /\ stack # <<>> /\ Top.todo = {} /\ calls = "walking"
      /\ stack' = SubSeq(stack, 1, Len(stack) - 1)
      /\ calls' = IF n = 1 THEN "answered" ELSE "walking"
      /\ UNCHANGED <<edges, asked, depth, visited, tree>>
  BY DEF Return, TreeInv
<1>2. n \in Nat \ {0}
  BY <1>1, TopFrame
<1>3. stack' \in Seq(FrameType) /\ Len(stack') = n - 1
      /\ \A k \in 1..n - 1 : stack'[k] = stack[k]
  BY <1>1, ShorterFrames
<1>4. stack[n].todo = {}
  BY <1>1 DEF Top
<1> HIDE DEF n
<1>5. \A f \in Functions : Neighbours(f)' = Neighbours(f)
  BY <1>1 DEF Neighbours
<1>6. CallTreeTypeOK'
  BY <1>1, <1>3 DEF CallTreeTypeOK, FrameType
<1>7. Known' = Known /\ Expanded' = Expanded
  BY <1>1 DEF Known, Expanded
<1>8. PathInv'
  <2>1. ASSUME NEW k \in 1..Len(stack')
        PROVE  /\ stack'[k].level = k /\ k <= depth'
               /\ stack'[k].todo \subseteq Neighbours(stack[k].name)'
               /\ ReportedAt(stack[k].name, k)'
    <3>1. k \in 1..n /\ stack'[k] = stack[k]
      BY <1>2, <1>3
    <3>2. stack[k].level = k /\ k <= depth /\ stack[k].todo \subseteq Neighbours(stack[k].name)
          /\ ReportedAt(stack[k].name, k)
      BY <3>1 DEF TreeInv, PathInv, n
    <3>3. Neighbours(stack[k].name)' = Neighbours(stack[k].name)
      BY <1>1, <3>1 DEF Neighbours
    <3>4. ReportedAt(stack[k].name, k)'
      BY <1>1, <3>1, <3>2 DEF ReportedAt
    <3>5. QED
      BY <1>1, <3>1, <3>2, <3>3, <3>4
  <2>2. CASE n = 1
    <3>1. stack' = <<>>
      BY <1>3, <2>2, EmptySeq
    <3>2. QED
      BY <1>1, <2>1, <2>2, <3>1 DEF PathInv
  <2>3. CASE n # 1
    <3>1. stack' # <<>>
      BY <1>2, <1>3, <2>3, EmptySeq
    <3>2. visited = Known
      BY <1>1 DEF TreeInv, PathInv
    <3>3. QED
      BY <1>1, <1>7, <2>1, <2>3, <3>1, <3>2 DEF PathInv
  <2>4. QED
    BY <2>2, <2>3
<1>9. TreeHangsTogether'
  BY <1>1 DEF TreeInv, TreeHangsTogether
<1>10. NothingForgotten'
  <2> SUFFICES ASSUME NEW f \in Expanded', NEW h \in Neighbours(f)'
               PROVE  \/ h \in Known'
                      \/ \E k \in 1..Len(stack') : stack'[k].name = f /\ h \in stack'[k].todo
    BY DEF NothingForgotten
  <2>1. f \in Expanded /\ h \in Neighbours(f)
    BY <1>1, <1>7 DEF Neighbours
  <2>2. h \in Known \/ \E k \in 1..n : stack[k].name = f /\ h \in stack[k].todo
    BY <1>1, <2>1 DEF NothingForgotten, n
  <2>3. ASSUME NEW k \in 1..n, stack[k].name = f, h \in stack[k].todo
        PROVE  k \in 1..Len(stack') /\ stack'[k].name = f /\ h \in stack'[k].todo
    <3>1. k # n
      BY <1>4, <2>3
    <3>2. k \in 1..n - 1
      BY <1>2, <3>1
    <3>3. QED
      BY <1>3, <2>3, <3>2
  <2>4. QED
    BY <1>7, <2>2, <2>3
<1>11. QED
  BY <1>6, <1>8, <1>9, <1>10 DEF TreeInv

-----------------------------------------------------------------------------
(* Theorems.                                                               *)

\* The invariant holds of every walk.
LEMMA WalkInvariant == CallTreeSpec => [](TreeInv /\ NothingForgotten)
<1>1. CallTreeInit => TreeInv /\ NothingForgotten
  BY EmptySeq DEF CallTreeInit, TreeInv, NothingForgotten, CallTreeTypeOK, PathInv,
                  TreeHangsTogether
<1>2. TreeInv /\ NothingForgotten /\ [CallTreeNext]_callVars => TreeInv' /\ NothingForgotten'
  <2> SUFFICES ASSUME TreeInv, NothingForgotten, [CallTreeNext]_callVars
               PROVE  TreeInv' /\ NothingForgotten'
    OBVIOUS
  <2>1. ASSUME NEW f \in Functions, NEW d \in CallDepths, Calls(f, d)
        PROVE  TreeInv' /\ NothingForgotten'
    BY <2>1, CallsStep
  <2>2. ASSUME NEW f \in Functions, Direct(f)
        PROVE  TreeInv' /\ NothingForgotten'
    BY <2>2, DirectStep
  <2>3. ASSUME NEW f \in Functions, Visit(f)
        PROVE  TreeInv' /\ NothingForgotten'
    BY <2>3, VisitStep
  <2>4. CASE Return
    BY <2>4, ReturnStep
  <2>5. CASE UNCHANGED callVars
    <3> USE <2>5 DEF callVars
    <3>1. CallTreeTypeOK' /\ TreeHangsTogether'
      BY DEF TreeInv, CallTreeTypeOK, TreeHangsTogether
    <3>2. PathInv'
      BY DEF TreeInv, PathInv, Known, ReportedAt, Neighbours
    <3>3. NothingForgotten'
      BY DEF NothingForgotten, Known, Expanded, Neighbours
    <3>4. QED
      BY <3>1, <3>2, <3>3 DEF TreeInv
  <2>6. QED
    BY <2>1, <2>2, <2>3, <2>4, <2>5 DEF CallTreeNext
<1>3. QED
  BY <1>1, <1>2, PTL DEF CallTreeSpec

\* Whatever the graph, its cycles included, the function and the depth, a function is
\* reported only under one that has an edge to it, one level above.
THEOREM ReportsHangTogether == CallTreeSpec => []TreeHangsTogether
<1>1. TreeInv => TreeHangsTogether
  BY DEF TreeInv
<1>2. QED
  BY <1>1, WalkInvariant, PTL

\* Whatever the graph, the answer of `calls` is complete above the depth limit: the set
\* of visited functions never keeps the neighbours of a reported one out of the tree.
THEOREM ReportsAreComplete == CallTreeSpec => []TreeComplete
<1>1. TreeInv /\ NothingForgotten => TreeComplete
  <2> SUFFICES ASSUME TreeInv, NothingForgotten, calls = "answered",
                      NEW f \in Expanded, NEW g \in Neighbours(f)
               PROVE  g \in Known
    BY DEF TreeComplete, Expanded, Known
  <2>1. stack = <<>> /\ Len(stack) = 0
    BY EmptySeq DEF TreeInv, PathInv
  <2>2. QED
    BY <2>1 DEF NothingForgotten
<1>2. QED
  BY <1>1, WalkInvariant, PTL

-----------------------------------------------------------------------------
(* AffectedFiles.                                                          *)

\* The files in the queue at a distance.
Enqueued(c) == {f \in Inputs : \E k \in 1..Len(queue) : queue[k] = <<f, c>>}

\* What the search goes on from.
Open(f) == f \in seeds \/ Cardinality(imported_by(f)) <= BARREL_FANIN

\* The queue is in order, and what is seen is what lies within c and what is queued
\* behind it: nothing within c is left out but what is still to be dequeued.
Level(c) ==
  /\ \A k \in 1..Len(queue) : queue[k][2] \in {c, c + 1}
  /\ \A j, k \in 1..Len(queue) : j < k => queue[j][2] <= queue[k][2]
  /\ Enqueued(c) \subseteq Within[c] /\ Enqueued(c + 1) \subseteq Within[c + 1]
  /\ seen = Within[c] \cup Enqueued(c + 1)
  /\ c < maxDepth =>
       \A f \in Within[c] : Open(f) => f \in Enqueued(c) \/ imported_by(f) \subseteq seen

\* The inductive invariant of the search: it is at some level.
SearchInv ==
  /\ search = "idle" => affected = {}
  /\ search # "idle" =>
       /\ seen = seeds \cup affected /\ affected \cap seeds = {}
       /\ \A k \in 1..Len(queue) : queue[k][2] = 0 <=> queue[k][1] \in seeds
       /\ \E c \in 0..maxDepth : Level(c)
  /\ search = "answered" => queue = <<>>

\* The files are in order, each once.
LEMMA FilesFinite ==
  /\ IsFiniteSet(Inputs) /\ Files \subseteq Inputs /\ IsFiniteSet(Files)
  /\ FileOrder \in Seq(Files)
<1>1. IsFiniteSet(Inputs) /\ Files \subseteq Inputs /\ FileOrder \in SetToSeqs(Files)
  BY AffectedAssumption
<1>2. IsFiniteSet(Files)
  BY <1>1, FS_Subset
<1>3. QED
  BY <1>1, <1>2, Enumeration

\* A seed is an input or the file that it names.
LEMMA SeedIsInput ==
  ASSUME NEW input \in Inputs, NEW graph
  PROVE  Seed(input, graph) \in Inputs
<1> DEFINE hits == {k \in 1..Len(FileOrder) :
                      Names(input, FileOrder[k]) /\ \E i \in graph : i[1] = FileOrder[k]}
<1>1. CASE hits = {}
  BY <1>1 DEF Seed
<1>2. CASE hits # {}
  <2>1. hits \subseteq 1..Len(FileOrder) /\ 1..Len(FileOrder) \subseteq Nat
    BY FilesFinite, LenProperties
  <2>2. Seed(input, graph) = FileOrder[CHOOSE k \in hits : \A j \in hits : k <= j]
    BY <1>2 DEF Seed
  <2> HIDE DEF hits
  <2>3. \E k \in hits : \A j \in hits : k <= j
    BY <1>2, <2>1, LeastNatural
  <2>4. (CHOOSE k \in hits : \A j \in hits : k <= j) \in 1..Len(FileOrder)
    BY <2>1, <2>3
  <2>5. \A k \in 1..Len(FileOrder) : FileOrder[k] \in Inputs
    BY FilesFinite, ElementOfSeq
  <2>6. QED
    BY <2>2, <2>4, <2>5
<1>3. QED
  BY <1>1, <1>2

\* What is queued at a distance.
LEMMA QueueEntries ==
  ASSUME NEW S, NEW order \in Seq(S), NEW d
  PROVE  /\ AtDistance(order, d) \in Seq(S \X {d}) /\ Len(AtDistance(order, d)) = Len(order)
         /\ \A k \in 1..Len(order) : AtDistance(order, d)[k] = <<order[k], d>>
<1>1. Len(order) \in Nat /\ DOMAIN order = 1..Len(order) /\ \A k \in 1..Len(order) : order[k] \in S
  BY LenProperties, ElementOfSeq
<1>2. AtDistance(order, d) = [k \in 1..Len(order) |-> <<order[k], d>>]
  BY <1>1 DEF AtDistance
<1>3. AtDistance(order, d) \in [1..Len(order) -> S \X {d}]
  BY <1>1, <1>2
<1>4. QED
  BY <1>1, <1>2, <1>3

\* Within is what its definition says.
WithinUnfolds ==
  /\ Within[0] = seeds
  /\ \A k \in Nat : \A f :
       f \in Within[k + 1] <=> \/ f \in Within[k]
                               \/ \E g \in Within[k] : Open(g) /\ f \in imported_by(g)

\* The recursive definition of Within has a solution, so it unfolds.
LEMMA WithinDefined ==
  ASSUME AffectedTypeOK
  PROVE  WithinUnfolds
<1> DEFINE T == SUBSET Inputs
           step(S) == S \cup UNION {imported_by(f) : f \in {g \in S : Open(g)}}
           F == [p \in Nat \X [Nat -> T] |-> IF p[1] = 0 THEN seeds
                                             ELSE IF p[1] - 1 \in Nat THEN step(p[2][p[1] - 1]) ELSE {}]
           rank == [k \in Nat |-> k]
<1>1. seeds \in T /\ \A S \in T : step(S) \in T
  BY FilesFinite DEF AffectedTypeOK, imported_by
<1> HIDE DEF step
<1>2. F \in [Nat \X [Nat -> T] -> T]
  BY <1>1
<1>3. \A k \in Nat : \A g \in [Nat -> T] : F[<<k, g>>] = IF k = 0 THEN seeds ELSE step(g[k - 1])
  OBVIOUS
<1>4. rank \in [Nat -> Nat] /\ T # {} /\ \A k \in Nat : rank[k] = k
  OBVIOUS
<1> HIDE DEF F, rank, T
<1>5. ASSUME NEW k \in Nat, NEW g \in [Nat -> T], NEW h \in [Nat -> T],
             \A j \in Nat : rank[j] < rank[k] => g[j] = h[j]
      PROVE  F[<<k, g>>] = F[<<k, h>>]
  <2>1. CASE k = 0
    BY <1>3, <2>1
  <2>2. CASE k # 0
    <3>1. k - 1 \in Nat /\ g[k - 1] = h[k - 1]
      BY <1>4, <1>5, <2>2
    <3>2. QED
      BY <1>3, <2>2, <3>1
  <2>3. QED
    BY <2>1, <2>2
<1>6. PICK f \in [Nat -> T] : \A k \in Nat : f[k] = F[<<k, f>>]
  <2>1. \A k \in Nat : \A g, h \in [Nat -> T] :
          (\A j \in Nat : rank[j] < rank[k] => g[j] = h[j]) => F[<<k, g>>] = F[<<k, h>>]
    BY <1>5
  <2>2. Recursive(Nat, T, rank, F)
    BY <1>2, <1>4, <2>1 DEF Recursive
  <2>3. QED
    BY <2>2, Recursion
<1>7. f = [k \in Nat |-> IF k = 0 THEN seeds ELSE step(f[k - 1])]
  BY <1>3, <1>6
<1>8. Within = CHOOSE g : g = [k \in Nat |-> IF k = 0 THEN seeds ELSE step(g[k - 1])]
  BY DEF Within, step, Open
<1>9. Within = [k \in Nat |-> IF k = 0 THEN seeds ELSE step(Within[k - 1])]
  BY <1>7, <1>8
<1>10. Within[0] = seeds /\ \A k \in Nat : Within[k + 1] = step(Within[k])
  BY <1>9
<1>11. QED
  BY <1>10 DEF WithinUnfolds, step

\* Entries of the queue are files with a distance.
LEMMA QueueFacts ==
  ASSUME AffectedTypeOK
  PROVE  /\ Len(queue) \in Nat /\ maxDepth \in Nat
         /\ \A k \in 1..Len(queue) :
              /\ queue[k] = <<queue[k][1], queue[k][2]>>
              /\ queue[k][1] \in Inputs /\ queue[k][2] \in 0..maxDepth
<1>1. queue \in Seq(Inputs \X (0..maxDepth)) /\ maxDepth \in AffectedDepths \cup {0}
  BY DEF AffectedTypeOK
<1>2. \A k \in 1..Len(queue) : queue[k] \in Inputs \X (0..maxDepth)
  BY <1>1, ElementOfSeq
<1>3. QED
  BY <1>1, <1>2, AffectedAssumption, LenProperties

\* The seeds are queued.
LEMMA AffectedStep ==
  ASSUME AffectedTypeOK, SearchInv, NEW inputs \in SUBSET Inputs, NEW prefixed \in SUBSET Inputs,
         NEW d \in AffectedDepths, Affected(inputs, prefixed, d)
  PROVE  AffectedTypeOK' /\ (WithinUnfolds' => SearchInv')
<1>1. /\ search' = "walking" /\ maxDepth' = d /\ d \in Nat \ {0} /\ imports' \in ImportGraphs
      /\ seeds' = {Seed(i, imports') : i \in inputs} \cup prefixed
      /\ seen' = seeds' /\ affected' = {}
  BY AffectedAssumption DEF Affected, SearchInv
<1>2. seeds' \subseteq Inputs /\ IsFiniteSet(seeds')
  <2>1. \A i \in inputs : Seed(i, imports') \in Inputs
    BY SeedIsInput
  <2>2. seeds' \subseteq Inputs
    BY <1>1, <2>1
  <2>3. QED
    BY <2>2, FilesFinite, FS_Subset
<1>3. PICK order \in SetToSeqs(seeds') : queue' = AtDistance(order, 0)
  BY DEF Affected
<1>4. order \in Seq(seeds') /\ \A f \in seeds' : \E k \in 1..Len(order) : order[k] = f
  BY <1>2, <1>3, Enumeration
<1>5. /\ queue' \in Seq(seeds' \X {0}) /\ Len(queue') = Len(order)
      /\ \A k \in 1..Len(order) : queue'[k] = <<order[k], 0>> /\ order[k] \in seeds'
  BY <1>3, <1>4, QueueEntries, ElementOfSeq
<1>6. AffectedTypeOK'
  <2>1. \A i \in imports' : i[1] \in Files
    BY <1>1, AffectedAssumption
  <2>2. queue' \in Seq(Inputs \X (0..maxDepth'))
    BY <1>1, <1>2, <1>5
  <2>3. QED
    BY <1>1, <1>2, <2>1, <2>2 DEF AffectedTypeOK
<1>7. ASSUME WithinUnfolds' PROVE SearchInv'
  <2>1. \A k \in 1..Len(queue') : queue'[k][1] \in seeds' /\ queue'[k][2] = 0
    BY <1>5
  <2>2. Enqueued(0)' = seeds' /\ Enqueued(1)' = {}
    <3>1. \A f \in seeds' : f \in Inputs /\ \E k \in 1..Len(queue') : queue'[k] = <<f, 0>>
      BY <1>2, <1>4, <1>5
    <3>2. \A k \in 1..Len(queue') : \A f, e : queue'[k] = <<f, e>> => f \in seeds' /\ e = 0
      BY <1>5
    <3>3. seeds' \subseteq Enqueued(0)'
      BY <3>1 DEF Enqueued
    <3>4. \A e, f : f \in Enqueued(e)' => f \in seeds' /\ e = 0
      BY <3>2 DEF Enqueued
    <3>5. QED
      BY <3>3, <3>4
  <2>3. Within'[0] = seeds'
    BY <1>7 DEF WithinUnfolds
  <2>4. Level(0)'
    BY <1>1, <2>1, <2>2, <2>3 DEF Level
  <2>5. 0 \in 0..maxDepth'
    BY <1>1
  <2>6. QED
    BY <1>1, <2>1, <2>4, <2>5 DEF SearchInv
<1>8. QED
  BY <1>6, <1>7

\* When nothing is left at a level, the search is at the next.
LEMMA NextLevel ==
  ASSUME AffectedTypeOK, WithinUnfolds, NEW c \in Nat, c < maxDepth, Level(c), Enqueued(c) = {}
  PROVE  Level(c + 1)
<1>1. \A k \in 1..Len(queue) : queue[k][2] = c + 1
  BY QueueFacts DEF Level, Enqueued
<1>2. Within[c + 1] = seen
  <2>1. ASSUME NEW f \in Within[c + 1] PROVE f \in seen
    BY <2>1 DEF WithinUnfolds, Level
  <2>2. Within[c] \subseteq Within[c + 1]
    BY DEF WithinUnfolds
  <2>3. QED
    BY <2>1, <2>2 DEF Level
<1>3. Enqueued(c + 2) = {} /\ c + 1 + 1 = c + 2
  BY <1>1 DEF Enqueued
<1>4. c + 1 < maxDepth =>
        \A f \in Within[c + 1] : Open(f) => f \in Enqueued(c + 1) \/ imported_by(f) \subseteq seen
  BY <1>2 DEF Level
<1>5. QED
  BY <1>1, <1>2, <1>3, <1>4 DEF Level

\* What a dequeued file adds lies behind the rest of the queue.
HeadFile == Head(queue)[1]
HeadDist == Head(queue)[2]
NewFiles == IF Expands(HeadFile, HeadDist) THEN imported_by(HeadFile) \ seen ELSE {}

\* One turn of the loop, in terms of positions of the queue.
LEMMA DequeueEffect ==
  ASSUME AffectedTypeOK, Dequeue
  PROVE  /\ search = "walking" /\ UNCHANGED <<imports, search, seeds, maxDepth>>
         /\ HeadFile \in Inputs /\ HeadDist \in 0..maxDepth /\ NewFiles \subseteq Files
         /\ Len(queue) \in Nat \ {0} /\ queue[1] = <<HeadFile, HeadDist>>
         /\ seen' = seen \cup NewFiles /\ affected' = affected \cup NewFiles
         /\ queue' \in Seq(Inputs \X (0..maxDepth)) /\ Len(queue') \in Nat
         /\ Len(queue') >= Len(queue) - 1
         /\ \A k \in 1..Len(queue) - 1 : queue'[k] = queue[k + 1]
         /\ \A k \in Len(queue)..Len(queue') : \E f \in NewFiles : queue'[k] = <<f, HeadDist + 1>>
         /\ \A f \in NewFiles : \E k \in Len(queue)..Len(queue') : queue'[k] = <<f, HeadDist + 1>>
<1> DEFINE S == Inputs \X (0..maxDepth)
<1>1. queue \in Seq(S) /\ queue # <<>>
  BY DEF AffectedTypeOK, Dequeue
<1>2. NewFiles \in SUBSET Files /\ IsFiniteSet(NewFiles)
  <2>1. NewFiles \in SUBSET Files
    BY DEF imported_by, NewFiles
  <2>2. QED
    BY <2>1, FilesFinite, FS_Subset
<1>3. Head(queue) \in S /\ Head(queue) = queue[1] /\ Len(queue) \in Nat \ {0}
  BY <1>1, EmptySeq, LenProperties, ElementOfSeq, HeadTailProperties
<1>4. HeadFile \in Inputs /\ HeadDist \in 0..maxDepth /\ queue[1] = <<HeadFile, HeadDist>>
  BY <1>3 DEF HeadFile, HeadDist
<1>5. NewFiles = IF Expands(HeadFile, HeadDist) THEN imported_by(HeadFile) \ seen ELSE {}
  BY DEF NewFiles
<1> HIDE DEF S
<1>6. PICK order \in SetToSeqs(NewFiles) : queue' = Tail(queue) \o AtDistance(order, HeadDist + 1)
  BY DEF Dequeue, NewFiles, HeadFile, HeadDist
<1>7. order \in Seq(NewFiles) /\ \A f \in NewFiles : \E k \in 1..Len(order) : order[k] = f
  BY <1>2, <1>6, Enumeration
<1> DEFINE added == AtDistance(order, HeadDist + 1)
           m == Len(order)
<1>8. /\ added \in Seq(NewFiles \X {HeadDist + 1}) /\ Len(added) = m
      /\ \A k \in 1..m : added[k] = <<order[k], HeadDist + 1>> /\ order[k] \in NewFiles
  BY <1>7, QueueEntries, ElementOfSeq
<1>9. added \in Seq(S) /\ m \in Nat
  <2>1. \A k \in 1..m : added[k] \in S
    <3>1. CASE NewFiles = {}
      BY <1>8, <3>1
    <3>2. CASE NewFiles # {}
      <4>1. HeadDist + 1 \in 0..maxDepth
        BY <1>4, <1>5, <3>2, QueueFacts DEF Expands
      <4>2. QED
        BY <1>2, <1>8, <4>1, FilesFinite DEF S
    <3>3. QED
      BY <3>1, <3>2
  <2>2. QED
    BY <1>8, <2>1, LenProperties DEF S
<1>10. queue' = Tail(queue) \o added
  BY <1>6
<1> HIDE DEF added
<1>11. /\ queue' \in Seq(S) /\ Len(queue') = Len(queue) - 1 + m
       /\ \A k \in 1..Len(queue) - 1 : queue'[k] = queue[k + 1]
       /\ \A k \in 1..m : queue'[Len(queue) - 1 + k] = added[k]
  <2>1. /\ Tail(queue) \o added \in Seq(S)
        /\ Len(Tail(queue) \o added) = Len(queue) - 1 + Len(added)
        /\ \A k \in 1..Len(queue) - 1 : (Tail(queue) \o added)[k] = queue[k + 1]
        /\ \A k \in 1..Len(added) : (Tail(queue) \o added)[Len(queue) - 1 + k] = added[k]
    BY <1>1, <1>9, TakenAndAdded
  <2>2. QED
    BY <1>8, <1>10, <2>1
<1>12. /\ search = "walking" /\ UNCHANGED <<imports, search, seeds, maxDepth>>
       /\ seen' = seen \cup NewFiles /\ affected' = affected \cup NewFiles
  BY DEF Dequeue, NewFiles, HeadFile, HeadDist
<1>13. ASSUME NEW k \in Len(queue)..Len(queue')
       PROVE  \E f \in NewFiles : queue'[k] = <<f, HeadDist + 1>>
  <2>1. k - (Len(queue) - 1) \in 1..m /\ k = Len(queue) - 1 + (k - (Len(queue) - 1))
    BY <1>3, <1>9, <1>11
  <2>2. queue'[k] = <<order[k - (Len(queue) - 1)], HeadDist + 1>>
    BY <1>8, <1>11, <2>1
  <2>3. QED
    BY <1>8, <2>1, <2>2
<1>14. ASSUME NEW f \in NewFiles
       PROVE  \E k \in Len(queue)..Len(queue') : queue'[k] = <<f, HeadDist + 1>>
  <2>1. PICK j \in 1..m : order[j] = f
    BY <1>7
  <2>2. Len(queue) - 1 + j \in Len(queue)..Len(queue')
    BY <1>3, <1>9, <1>11
  <2>3. queue'[Len(queue) - 1 + j] = <<f, HeadDist + 1>>
    BY <1>8, <1>11, <2>1
  <2>4. QED
    BY <2>2, <2>3
<1>15. queue' \in Seq(Inputs \X (0..maxDepth))
  BY <1>11 DEF S
<1>16. QED
  <2>1. Len(queue') \in Nat /\ Len(queue') >= Len(queue) - 1
    BY <1>3, <1>9, <1>11
  <2>2. QED
    BY <1>2, <1>3, <1>4, <1>11, <1>12, <1>13, <1>14, <1>15, <2>1, Zenon

\* What is within a distance is settled when the search starts.
LEMMA SameGraph ==
  ASSUME UNCHANGED <<imports, seeds>>
  PROVE  /\ \A f : imported_by(f)' = imported_by(f) /\ (Open(f)' <=> Open(f))
         /\ Within' = Within
<1>1. \A f : imported_by(f)' = imported_by(f) /\ (Open(f)' <=> Open(f))
  BY DEF imported_by, Open
<1>2. Within' = Within
  BY DEF Within, imported_by
<1>3. QED
  BY <1>1, <1>2

\* One turn of the loop keeps the search between two levels.
LEMMA DequeueStep ==
  ASSUME AffectedTypeOK, WithinUnfolds, SearchInv, Dequeue
  PROVE  AffectedTypeOK' /\ SearchInv'
<1>1. PICK hd, d, new : hd = HeadFile /\ d = HeadDist /\ new = NewFiles
  OBVIOUS
<1>2. /\ search = "walking" /\ UNCHANGED <<imports, search, seeds, maxDepth>>
      /\ hd \in Inputs /\ d \in 0..maxDepth /\ new \subseteq Files
      /\ Len(queue) \in Nat \ {0} /\ queue[1] = <<hd, d>>
      /\ seen' = seen \cup new /\ affected' = affected \cup new
      /\ queue' \in Seq(Inputs \X (0..maxDepth)) /\ Len(queue') \in Nat
      /\ Len(queue') >= Len(queue) - 1
      /\ \A k \in 1..Len(queue) - 1 : queue'[k] = queue[k + 1]
      /\ \A k \in Len(queue)..Len(queue') : \E f \in new : queue'[k] = <<f, d + 1>>
      /\ \A f \in new : \E k \in Len(queue)..Len(queue') : queue'[k] = <<f, d + 1>>
  BY <1>1, DequeueEffect
<1>3. maxDepth \in Nat /\ d \in Nat
  BY <1>2, QueueFacts
<1>4. new = IF Expands(hd, d) THEN imported_by(hd) \ seen ELSE {}
  BY <1>1 DEF NewFiles
<1>5. AffectedTypeOK'
  BY <1>2, FilesFinite DEF AffectedTypeOK
<1>6. /\ seen = seeds \cup affected /\ affected \cap seeds = {}
      /\ \A k \in 1..Len(queue) : queue[k][2] = 0 <=> queue[k][1] \in seeds
  BY <1>2 DEF SearchInv
<1>7. Level(d)
  <2>1. PICK c \in 0..maxDepth : Level(c)
    BY <1>2 DEF SearchInv
  <2>2. CASE d = c
    BY <2>1, <2>2
  <2>3. CASE d # c
    <3>1. 1 \in 1..Len(queue) /\ queue[1][2] = d /\ maxDepth \in Nat
      BY <1>2, QueueFacts
    <3>2. d = c + 1 /\ c < maxDepth
      <4>1. queue[1][2] \in {c, c + 1}
        BY <2>1, <3>1 DEF Level
      <4>2. c \in Nat /\ d <= maxDepth
        BY <1>2, <3>1
      <4>3. QED
        BY <2>3, <3>1, <4>1, <4>2
    <3>3. Enqueued(c) = {}
      <4>1. \A k \in 1..Len(queue) : queue[k][2] >= queue[1][2]
        BY <2>1, <3>1, QueueFacts DEF Level
      <4>2. QED
        BY <3>1, <3>2, <4>1 DEF Enqueued
    <3>4. QED
      BY <2>1, <3>2, <3>3, NextLevel
  <2>4. QED
    BY <2>2, <2>3
<1>8. /\ \A f : imported_by(f)' = imported_by(f) /\ (Open(f)' <=> Open(f))
      /\ Within' = Within
  BY <1>2, SameGraph
<1>9. hd \in Enqueued(d) /\ hd \in Within[d] /\ (d = 0 <=> hd \in seeds)
  <2>1. 1 \in 1..Len(queue) /\ queue[1] = <<hd, d>> /\ hd \in Inputs
    BY <1>2
  <2>2. hd \in Enqueued(d)
    BY <2>1 DEF Enqueued
  <2>3. Enqueued(d) \subseteq Within[d]
    BY <1>7 DEF Level
  <2>4. d = 0 <=> hd \in seeds
    BY <1>6, <2>1
  <2>5. QED
    BY <2>2, <2>3, <2>4
<1>10. new \subseteq Within[d + 1] /\ new \cap seen = {}
  <2>1. new # {} => Expands(hd, d) /\ new \subseteq imported_by(hd)
    BY <1>4
  <2>2. Expands(hd, d) => Open(hd)
    BY <1>3, <1>9 DEF Expands, Open
  <2>3. QED
    BY <1>3, <1>2, <1>9, <1>4, <2>1, <2>2 DEF WithinUnfolds
<1>11. Expands(hd, d) => imported_by(hd) \subseteq seen'
  BY <1>2, <1>4
<1>12. d < maxDepth /\ Open(hd) => Expands(hd, d)
  BY <1>9 DEF Expands, Open
<1>13. \A k \in 1..Len(queue') :
         \/ k + 1 \in 1..Len(queue) /\ queue'[k] = queue[k + 1]
         \/ k >= Len(queue) /\ \E f \in new : queue'[k] = <<f, d + 1>>
  BY <1>2
<1>14. \A k \in 1..Len(queue') :
         /\ queue'[k][2] \in {d, d + 1}
         /\ queue'[k][2] = 0 <=> queue'[k][1] \in seeds
  BY <1>3, <1>6, <1>7, <1>10, <1>13 DEF Level
<1>15. \A j, k \in 1..Len(queue') : j < k => queue'[j][2] <= queue'[k][2]
  <2> SUFFICES ASSUME NEW j \in 1..Len(queue'), NEW k \in 1..Len(queue'), j < k
               PROVE  queue'[j][2] <= queue'[k][2]
    OBVIOUS
  <2>1. CASE k + 1 \in 1..Len(queue) /\ queue'[k] = queue[k + 1]
    <3>1. j + 1 \in 1..Len(queue) /\ queue'[j] = queue[j + 1]
      BY <1>2, <2>1
    <3>2. QED
      BY <1>7, <2>1, <3>1 DEF Level
  <2>2. CASE \E f \in new : queue'[k] = <<f, d + 1>>
    BY <1>3, <1>14, <2>2
  <2>3. QED
    BY <1>13, <2>1, <2>2
<1>16. Enqueued(d)' \subseteq Enqueued(d) /\ Enqueued(d) \subseteq Enqueued(d)' \cup {hd}
  <2>1. ASSUME NEW f \in Enqueued(d)' PROVE f \in Enqueued(d)
    BY <1>3, <1>13 DEF Enqueued
  <2>2. ASSUME NEW f \in Enqueued(d), f # hd PROVE f \in Enqueued(d)'
    <3>1. PICK k \in 1..Len(queue) : queue[k] = <<f, d>>
      BY DEF Enqueued
    <3>2. k # 1
      BY <1>2, <2>2, <3>1
    <3>3. k - 1 \in 1..Len(queue') /\ queue'[k - 1] = <<f, d>>
      BY <1>2, <3>1, <3>2
    <3>4. QED
      BY <3>3 DEF Enqueued
  <2>3. QED
    BY <2>1, <2>2
<1>17. Enqueued(d + 1)' = Enqueued(d + 1) \cup new
  <2>1. ASSUME NEW f \in Enqueued(d + 1)' PROVE f \in Enqueued(d + 1) \cup new
    BY <1>3, <1>13 DEF Enqueued
  <2>2. ASSUME NEW f \in Enqueued(d + 1) PROVE f \in Enqueued(d + 1)'
    <3>1. PICK k \in 1..Len(queue) : queue[k] = <<f, d + 1>>
      BY DEF Enqueued
    <3>2. k # 1
      BY <1>2, <3>1
    <3>3. k - 1 \in 1..Len(queue') /\ queue'[k - 1] = <<f, d + 1>>
      BY <1>2, <3>1, <3>2
    <3>4. QED
      BY <3>3 DEF Enqueued
  <2>3. ASSUME NEW f \in new PROVE f \in Enqueued(d + 1)'
    <3>1. PICK k \in Len(queue)..Len(queue') : queue'[k] = <<f, d + 1>>
      BY <1>2
    <3>2. k \in 1..Len(queue') /\ f \in Inputs
      BY <1>2, FilesFinite
    <3>3. QED
      BY <3>1, <3>2 DEF Enqueued
  <2>4. QED
    BY <2>1, <2>2, <2>3
<1>18. Level(d)'
  <2>1. Enqueued(d)' \subseteq Within'[d] /\ Enqueued(d + 1)' \subseteq Within'[d + 1]
    BY <1>7, <1>8, <1>10, <1>16, <1>17 DEF Level
  <2>2. seen' = Within'[d] \cup Enqueued(d + 1)'
    BY <1>2, <1>7, <1>8, <1>17 DEF Level
  <2>3. ASSUME d < maxDepth', NEW f \in Within'[d], Open(f)'
        PROVE  f \in Enqueued(d)' \/ imported_by(f)' \subseteq seen'
    BY <1>2, <1>7, <1>8, <1>11, <1>12, <1>16, <2>3 DEF Level
  <2>4. QED
    BY <1>14, <1>15, <2>1, <2>2, <2>3 DEF Level
<1>19. SearchInv'
  BY <1>2, <1>6, <1>10, <1>14, <1>18 DEF SearchInv
<1>20. QED
  BY <1>5, <1>19

\* The depth the search got to is as good as the depth it was asked for.
LEMMA AnswerIsExact ==
  ASSUME AffectedTypeOK, WithinUnfolds, SearchInv, search = "answered"
  PROVE  affected = Within[maxDepth] \ seeds
<1>1. maxDepth \in Nat
  BY QueueFacts
<1>2. PICK c \in 0..maxDepth : Level(c)
  BY DEF SearchInv
<1>3. \A e : Enqueued(e) = {}
  <2>1. Len(queue) = 0
    BY EmptySeq DEF SearchInv
  <2>2. QED
    BY <2>1 DEF Enqueued
<1>4. seen = Within[c]
  BY <1>2, <1>3 DEF Level
<1>5. Within[maxDepth] = Within[c]
  <2>1. CASE c = maxDepth
    BY <2>1
  <2>2. CASE c # maxDepth
    <3> DEFINE Closed == {n \in Nat : n >= c => Within[n] = Within[c]}
    <3>1. \A f \in Within[c] : Open(f) => imported_by(f) \subseteq Within[c]
      BY <1>1, <1>2, <1>3, <1>4, <2>2 DEF Level
    <3>2. 0 \in Closed
      BY <1>2
    <3>3. ASSUME NEW n \in Nat, n \in Closed PROVE n + 1 \in Closed
      <4>1. CASE n >= c
        <5>1. Within[n] = Within[c]
          BY <3>3, <4>1
        <5>2. \A f : f \in Within[n + 1] <=> f \in Within[c]
          BY <3>1, <5>1 DEF WithinUnfolds
        <5>3. Within[n + 1] = Within[c]
          BY <5>2, Zenon
        <5>4. QED
          BY <5>3
      <4>2. CASE ~ (n >= c)
        <5>1. n + 1 >= c => n + 1 = c
          BY <1>2, <4>2
        <5>2. QED
          BY <5>1
      <4>3. QED
        BY <4>1, <4>2
    <3> HIDE DEF Closed
    <3>4. maxDepth \in Closed
      BY <1>1, <3>2, <3>3, NatSetInduction
    <3>5. QED
      BY <1>1, <1>2, <3>4 DEF Closed
  <2>3. QED
    BY <2>1, <2>2
<1>6. QED
  BY <1>4, <1>5 DEF SearchInv

\* Types need nothing of the search.
LEMMA AffectedTypeStep ==
  ASSUME AffectedTypeOK, SearchInv, [AffectedNext]_affectedVars
  PROVE  AffectedTypeOK'
<1>1. ASSUME NEW inputs \in SUBSET Inputs, NEW prefixed \in SUBSET Inputs,
             NEW d \in AffectedDepths, Affected(inputs, prefixed, d)
      PROVE  AffectedTypeOK'
  BY <1>1, AffectedStep
<1>2. CASE Dequeue
  BY <1>2, DequeueEffect, FilesFinite DEF AffectedTypeOK
<1>3. CASE AnswerAffected
  BY <1>3 DEF AnswerAffected, AffectedTypeOK
<1>4. CASE UNCHANGED affectedVars
  BY <1>4 DEF affectedVars, AffectedTypeOK
<1>5. QED
  BY <1>1, <1>2, <1>3, <1>4 DEF AffectedNext

\* Every step keeps the invariant of the search.
LEMMA SearchStep ==
  ASSUME AffectedTypeOK, WithinUnfolds, WithinUnfolds', SearchInv, [AffectedNext]_affectedVars
  PROVE  SearchInv'
<1>1. ASSUME NEW inputs \in SUBSET Inputs, NEW prefixed \in SUBSET Inputs,
             NEW d \in AffectedDepths, Affected(inputs, prefixed, d)
      PROVE  SearchInv'
  BY <1>1, AffectedStep
<1>2. CASE Dequeue
  BY <1>2, DequeueStep
<1>3. ASSUME UNCHANGED <<imports, seeds, maxDepth, seen, queue, affected>>,
             search' = search \/ (search' = "answered" /\ search = "walking" /\ queue = <<>>)
      PROVE  SearchInv'
  <2>1. /\ \A f : imported_by(f)' = imported_by(f) /\ (Open(f)' <=> Open(f))
        /\ Within' = Within
    BY <1>3, SameGraph
  <2>2. \A c : Enqueued(c)' = Enqueued(c)
    BY <1>3 DEF Enqueued
  <2>3. \A c : Level(c)' <=> Level(c)
    BY <1>3, <2>1, <2>2 DEF Level
  <2>4. QED
    BY <1>3, <2>3 DEF SearchInv
<1>4. CASE AnswerAffected
  BY <1>3, <1>4 DEF AnswerAffected
<1>5. CASE UNCHANGED affectedVars
  BY <1>3, <1>5 DEF affectedVars
<1>6. QED
  BY <1>1, <1>2, <1>4, <1>5 DEF AffectedNext

\* The invariant holds of every search.
LEMMA SearchInvariant == AffectedSpec => [](AffectedTypeOK /\ WithinUnfolds /\ SearchInv)
<1>1. AffectedInit => AffectedTypeOK /\ SearchInv
  BY EmptySeq DEF AffectedInit, AffectedTypeOK, SearchInv
<1>2. AffectedTypeOK => WithinUnfolds
  BY WithinDefined
<1>3. AffectedTypeOK /\ WithinUnfolds /\ SearchInv /\ [AffectedNext]_affectedVars => AffectedTypeOK'
  BY AffectedTypeStep
<1>4. AffectedTypeOK /\ WithinUnfolds /\ WithinUnfolds' /\ SearchInv /\ [AffectedNext]_affectedVars
        => SearchInv'
  BY SearchStep
<1>5. QED
  BY <1>1, <1>2, <1>3, <1>4, PTL DEF AffectedSpec

-----------------------------------------------------------------------------
(* Extraction.                                                             *)

\* What a node may be.
Kinds == Statements \cup {"root", "export", "body", "arrow", "object"}

\* A parent is before its children.
TreeOK ==
  /\ kind \in Seq(Kinds) /\ parent \in Seq(Nat) /\ Len(parent) = Len(kind) /\ Len(kind) >= 1
  /\ kind[1] = "root"
  /\ \A n \in Nodes : n # 1 => parent[n] \in Nodes /\ parent[n] < n

\* The nodes are numbered from 1.
LEMMA NodesAre ==
  ASSUME TreeOK
  PROVE  /\ Nodes = 1..Len(kind) /\ Len(kind) \in Nat /\ Nodes \subseteq Nat \ {0} /\ IsFiniteSet(Nodes)
         /\ 1 \in Nodes /\ DOMAIN parent = Nodes
<1>1. Nodes = 1..Len(kind) /\ Len(kind) \in Nat /\ DOMAIN parent = Nodes
  BY LenProperties DEF TreeOK, Nodes
<1>2. IsFiniteSet(1..Len(kind))
  BY <1>1, FS_Interval
<1>3. QED
  BY <1>1, <1>2 DEF TreeOK

\* What holds of a node when it does of those before it holds of every one.
LEMMA NodeInduction ==
  ASSUME TreeOK, NEW S, \A n \in Nodes : (\A m \in Nodes : m < n => m \in S) => n \in S
  PROVE  \A n \in Nodes : n \in S
<1> DEFINE missed == Nodes \ S
<1> SUFFICES ASSUME missed # {} PROVE FALSE
  OBVIOUS
<1>1. missed \subseteq Nat
  BY NodesAre
<1>2. PICK n \in missed : \A m \in missed : n <= m
  <2> HIDE DEF missed
  <2>1. QED
    BY <1>1, LeastNatural
<1>3. \A m \in Nodes : m < n => m \in S
  BY <1>1, <1>2, NodesAre
<1>4. QED
  BY <1>2, <1>3

\* Functions of the nodes that are defined by their value at the parent.
ByParent(T, F) ==
  /\ T # {} /\ F \in [Nodes \X [Nodes -> T] -> T]
  /\ \A n \in Nodes : \A g, h \in [Nodes -> T] :
       (n # 1 => g[parent[n]] = h[parent[n]]) => F[<<n, g>>] = F[<<n, h>>]

\* Such a function exists.
LEMMA ParentRecursion ==
  ASSUME TreeOK, NEW T, NEW F, ByParent(T, F)
  PROVE  \E f \in [Nodes -> T] : \A n \in Nodes : f[n] = F[<<n, f>>]
<1> DEFINE rank == [n \in Nodes |-> n]
<1>1. rank \in [Nodes -> Nat] /\ \A n \in Nodes : rank[n] = n
  BY NodesAre
<1> HIDE DEF rank
<1>2. ASSUME NEW n \in Nodes, NEW g \in [Nodes -> T], NEW h \in [Nodes -> T],
             \A m \in Nodes : rank[m] < rank[n] => g[m] = h[m]
      PROVE  F[<<n, g>>] = F[<<n, h>>]
  <2>1. n # 1 => g[parent[n]] = h[parent[n]]
    BY <1>1, <1>2 DEF TreeOK
  <2>2. QED
    BY <2>1 DEF ByParent
<1>3. Recursive(Nodes, T, rank, F)
  BY <1>1, <1>2 DEF Recursive, ByParent
<1>4. QED
  BY <1>3, Recursion

\* Above unfolds.
LEMMA AboveDefined ==
  ASSUME TreeOK
  PROVE  Above[1] = {} /\ \A n \in Nodes : n # 1 => Above[n] = {parent[n]} \cup Above[parent[n]]
<1> DEFINE T == SUBSET Nodes
           at(n, g) == IF n = 1 THEN {} ELSE {parent[n]} \cup g[parent[n]]
           F == [p \in Nodes \X [Nodes -> T] |-> at(p[1], p[2])]
<1>1. \A n \in Nodes : \A g \in [Nodes -> T] : at(n, g) \in T
  BY DEF TreeOK
<1>2. ASSUME NEW n \in Nodes, NEW g \in [Nodes -> T], NEW h \in [Nodes -> T],
             n # 1 => g[parent[n]] = h[parent[n]]
      PROVE  at(n, g) = at(n, h)
  BY <1>2
<1>3. Above = CHOOSE g : g = [n \in Nodes |-> at(n, g)]
  BY DEF Above
<1> HIDE DEF at
<1>4. /\ F \in [Nodes \X [Nodes -> T] -> T]
      /\ \A n \in Nodes : \A g \in [Nodes -> T] : F[<<n, g>>] = at(n, g)
  BY <1>1
<1>5. T # {}
  OBVIOUS
<1> HIDE DEF F, T
<1>6. ByParent(T, F)
  BY <1>2, <1>4, <1>5 DEF ByParent
<1>7. PICK f \in [Nodes -> T] : \A n \in Nodes : f[n] = F[<<n, f>>]
  BY <1>6, ParentRecursion
<1>8. f = [n \in Nodes |-> at(n, f)]
  BY <1>4, <1>7
<1>9. Above = [n \in Nodes |-> at(n, Above)]
  BY <1>3, <1>8
<1>10. QED
  BY <1>9, NodesAre DEF at

\* WalkCtx unfolds.
LEMMA WalkDefined ==
  ASSUME TreeOK
  PROVE  /\ WalkCtx[1] = 1
         /\ \A n \in Nodes : n # 1 =>
              WalkCtx[n] = IF kind[parent[n]] = "class"
                           THEN IF WalkCtx[parent[n]] # 0 /\ kind[n] = "body" THEN parent[n] ELSE 0
                           ELSE IF kind[parent[n]] = "variable"
                           THEN IF WalkCtx[parent[n]] # 0 /\ kind[n] = "object" THEN parent[n] ELSE 0
                           ELSE IF is_function_def(parent[n]) THEN 0 ELSE WalkCtx[parent[n]]
<1> DEFINE T == Nat
           at(n, g) == IF n = 1 THEN 1 ELSE LET p == parent[n] IN
                         IF kind[p] = "class" THEN IF g[p] # 0 /\ kind[n] = "body" THEN p ELSE 0
                         ELSE IF kind[p] = "variable" THEN IF g[p] # 0 /\ kind[n] = "object" THEN p ELSE 0
                         ELSE IF is_function_def(p) THEN 0 ELSE g[p]
           F == [p \in Nodes \X [Nodes -> T] |-> at(p[1], p[2])]
<1>1. \A n \in Nodes : n # 1 => parent[n] \in Nodes /\ parent[n] \in Nat
  BY NodesAre DEF TreeOK
<1>2. \A n \in Nodes : \A g \in [Nodes -> T] : at(n, g) \in T
  BY <1>1
<1>3. ASSUME NEW n \in Nodes, NEW g \in [Nodes -> T], NEW h \in [Nodes -> T],
             n # 1 => g[parent[n]] = h[parent[n]]
      PROVE  at(n, g) = at(n, h)
  BY <1>3
<1> HIDE DEF at
<1>4. /\ F \in [Nodes \X [Nodes -> T] -> T]
      /\ \A n \in Nodes : \A g \in [Nodes -> T] : F[<<n, g>>] = at(n, g)
  BY <1>2
<1>5. T # {}
  OBVIOUS
<1> HIDE DEF F, T
<1>6. ByParent(T, F)
  BY <1>3, <1>4, <1>5 DEF ByParent
<1>7. PICK f \in [Nodes -> T] : \A n \in Nodes : f[n] = F[<<n, f>>]
  BY <1>6, ParentRecursion
<1>8. f = [n \in Nodes |-> at(n, f)]
  BY <1>4, <1>7
<1> DEFINE cased(n, g) == IF n = 1 THEN 1
                          ELSE LET p == parent[n] IN
                            CASE kind[p] = "class" -> IF g[p] # 0 /\ kind[n] = "body" THEN p ELSE 0
                              [] kind[p] = "variable" -> IF g[p] # 0 /\ kind[n] = "object" THEN p ELSE 0
                              [] is_function_def(p) -> 0
                              [] OTHER -> g[p]
<1>9. ASSUME NEW n, NEW g PROVE at(n, g) = cased(n, g)
  <2>1. CASE n = 1
    BY <2>1 DEF at
  <2>2. CASE n # 1
    <3>1. CASE kind[parent[n]] = "class"
      <4>1. ~ (kind[parent[n]] = "variable") /\ ~ is_function_def(parent[n])
        BY <3>1 DEF is_function_def
      <4>2. QED
        BY <2>2, <3>1, <4>1, Zenon DEF at
    <3>2. CASE kind[parent[n]] = "variable"
      <4>1. ~ (kind[parent[n]] = "class") /\ ~ is_function_def(parent[n])
        BY <3>2 DEF is_function_def
      <4>2. QED
        BY <2>2, <3>2, <4>1, Zenon DEF at
    <3>3. CASE kind[parent[n]] # "class" /\ kind[parent[n]] # "variable" /\ is_function_def(parent[n])
      BY <2>2, <3>3, Zenon DEF at
    <3>4. CASE kind[parent[n]] # "class" /\ kind[parent[n]] # "variable" /\ ~ is_function_def(parent[n])
      BY <2>2, <3>4, Zenon DEF at
    <3>5. QED
      BY <3>1, <3>2, <3>3, <3>4
  <2>3. QED
    BY <2>1, <2>2
<1>10. WalkCtx = CHOOSE g : g = [n \in Nodes |-> cased(n, g)]
  BY DEF WalkCtx
<1> HIDE DEF cased
<1>11. f = [n \in Nodes |-> cased(n, f)]
  BY <1>8, <1>9
<1>12. WalkCtx = [n \in Nodes |-> cased(n, WalkCtx)]
  BY <1>10, <1>11
<1>13. \A n \in Nodes : WalkCtx[n] = at(n, WalkCtx)
  BY <1>9, <1>12
<1>14. QED
  BY <1>13, NodesAre DEF at

\* The recursion in Below unfolds.
LEMMA BelowDefined ==
  ASSUME TreeOK, NEW b \in Nodes, NEW K
  PROVE  /\ Below(b, K) \subseteq Nodes
         /\ \A n \in Nodes : n \in Below(b, K) <=>
              n = b \/ (n > b /\ kind[n] \notin K /\ parent[n] \in Below(b, K))
<1> DEFINE T == BOOLEAN
           at(n, g) == n = b \/ (n > b /\ kind[n] \notin K /\ g[parent[n]])
           F == [p \in Nodes \X [Nodes -> T] |-> at(p[1], p[2])]
           fix == CHOOSE g : g = [n \in Nodes |-> at(n, g)]
<1>1. \A n \in Nodes : n > b => n # 1
  BY NodesAre
<1>2. ASSUME NEW n \in Nodes, NEW g \in [Nodes -> T], NEW h \in [Nodes -> T],
             n # 1 => g[parent[n]] = h[parent[n]]
      PROVE  at(n, g) = at(n, h)
  BY <1>1, <1>2
<1>3. \A n, g : at(n, g) \in T
  OBVIOUS
<1> HIDE DEF at
<1>4. /\ F \in [Nodes \X [Nodes -> T] -> T]
      /\ \A n \in Nodes : \A g \in [Nodes -> T] : F[<<n, g>>] = at(n, g)
  BY <1>3, Zenon
<1>5. T # {}
  OBVIOUS
<1> HIDE DEF F, T
<1>6. ByParent(T, F)
  BY <1>2, <1>4, <1>5 DEF ByParent
<1>7. PICK f \in [Nodes -> T] : \A n \in Nodes : f[n] = F[<<n, f>>]
  BY <1>6, ParentRecursion
<1>8. f = [n \in Nodes |-> at(n, f)]
  BY <1>4, <1>7, Zenon
<1>9. fix = [n \in Nodes |-> at(n, fix)]
  BY <1>8, Zenon
<1>10. Below(b, K) = {n \in Nodes : fix[n]}
  BY DEF Below, at
<1> HIDE DEF fix
<1>11. \A n \in Nodes : fix[n] = at(n, fix)
  BY <1>9
<1>12. ASSUME NEW n \in Nodes
       PROVE  n \in Below(b, K) <=> n = b \/ (n > b /\ kind[n] \notin K /\ parent[n] \in Below(b, K))
  <2>1. n \in Below(b, K) <=> n = b \/ (n > b /\ kind[n] \notin K /\ fix[parent[n]])
    BY <1>10, <1>11, Zenon DEF at
  <2>2. n > b => parent[n] \in Nodes
    BY <1>1 DEF TreeOK
  <2>3. QED
    BY <1>10, <2>1, <2>2, Zenon
<1>13. QED
  BY <1>10, <1>12

\* The nodes above a node are a chain.
LEMMA AncestorsOrdered ==
  ASSUME TreeOK
  PROVE  \A n \in Nodes :
           /\ Above[n] \subseteq {m \in Nodes : m < n}
           /\ \A a \in Above[n] : Above[a] \subseteq Above[n]
           /\ \A a, b \in Above[n] : a = b \/ a \in Above[b] \/ b \in Above[a]
<1> DEFINE Chain(n) == /\ Above[n] \subseteq {m \in Nodes : m < n}
                       /\ \A a \in Above[n] : Above[a] \subseteq Above[n]
                       /\ \A a, b \in Above[n] : a = b \/ a \in Above[b] \/ b \in Above[a]
           S == {n \in Nodes : Chain(n)}
<1>1. ASSUME NEW n \in Nodes, \A m \in Nodes : m < n => m \in S PROVE Chain(n)
  <2>1. CASE n = 1
    BY <2>1, AboveDefined
  <2>2. CASE n # 1
    <3>1. PICK p : p = parent[n]
      OBVIOUS
    <3>2. p \in Nodes /\ p < n /\ Above[n] = {p} \cup Above[p]
      BY <2>2, <3>1, AboveDefined DEF TreeOK
    <3>3. Chain(p)
      BY <1>1, <3>2
    <3>4. Above[n] \subseteq {m \in Nodes : m < n}
      BY <3>2, <3>3, NodesAre
    <3>5. QED
      BY <3>2, <3>3, <3>4
  <2>3. QED
    BY <2>1, <2>2
<1> HIDE DEF Chain
<1>2. \A n \in Nodes : n \in S
  <2>1. \A n \in Nodes : (\A m \in Nodes : m < n => m \in S) => n \in S
    BY <1>1
  <2> HIDE DEF S
  <2>2. QED
    BY <2>1, NodeInduction
<1>3. QED
  BY <1>2 DEF Chain

\* What is below a body: no node on the way is of a kind that is skipped.
LEMMA BelowMeans ==
  ASSUME TreeOK, NEW b \in Nodes, NEW K
  PROVE  \A n \in Nodes : n \in Below(b, K) <=>
           \/ n = b
           \/ /\ b \in Above[n] /\ kind[n] \notin K
              /\ \A d \in Above[n] : b \in Above[d] => kind[d] \notin K
<1> DEFINE Reached(n) == \/ n = b
                         \/ /\ b \in Above[n] /\ kind[n] \notin K
                            /\ \A d \in Above[n] : b \in Above[d] => kind[d] \notin K
           S == {n \in Nodes : n \in Below(b, K) <=> Reached(n)}
<1>1. ASSUME NEW n \in Nodes, \A m \in Nodes : m < n => m \in S PROVE n \in S
  <2>1. CASE n = b
    BY <2>1, BelowDefined
  <2>2. CASE n = 1 /\ n # b
    <3>1. ~ (n > b) /\ Above[n] = {}
      BY <2>2, NodesAre, AboveDefined
    <3>2. QED
      BY <2>2, <3>1, BelowDefined
  <2>3. CASE n # 1 /\ n # b
    <3>1. PICK p : p = parent[n]
      OBVIOUS
    <3>2. p \in Nodes /\ p < n /\ Above[n] = {p} \cup Above[p]
      BY <2>3, <3>1, AboveDefined DEF TreeOK
    <3>3. p \in Below(b, K) <=> Reached(p)
      BY <1>1, <3>2
    <3>4. n \in Below(b, K) <=> n > b /\ kind[n] \notin K /\ p \in Below(b, K)
      BY <2>3, <3>1, BelowDefined
    <3>5. b \in Above[n] => n > b
      BY AncestorsOrdered, NodesAre
    <3>6. b \notin Above[b]
      BY AncestorsOrdered, NodesAre
    <3>7. ASSUME n \in Below(b, K) PROVE Reached(n)
      <4>1. kind[n] \notin K /\ Reached(p)
        BY <3>3, <3>4, <3>7
      <4>2. CASE p = b
        <5>1. ASSUME NEW d \in Above[n], b \in Above[d] PROVE FALSE
          <6>1. d \in Above[b]
            BY <3>2, <3>6, <4>2, <5>1
          <6>2. d < b /\ b < d /\ d \in Nat /\ b \in Nat
            <7>1. d \in Nodes /\ d < b
              BY <6>1, AncestorsOrdered
            <7>2. b < d
              BY <5>1, <7>1, AncestorsOrdered
            <7>3. QED
              BY <7>1, <7>2, NodesAre
          <6>3. QED
            BY <6>2
        <5>2. QED
          BY <3>2, <4>1, <4>2, <5>1
      <4>3. CASE p # b
        BY <3>2, <4>1, <4>3
      <4>4. QED
        BY <4>2, <4>3
    <3>8. ASSUME Reached(n) PROVE n \in Below(b, K)
      <4>1. n > b /\ kind[n] \notin K /\ b \in Above[n]
        BY <2>3, <3>5, <3>8
      <4>2. p = b \/ (b \in Above[p] /\ kind[p] \notin K)
        BY <2>3, <3>2, <3>8
      <4>3. Reached(p)
        BY <2>3, <3>2, <3>8, <4>2
      <4>4. QED
        BY <3>3, <3>4, <4>1, <4>3
    <3>9. QED
      BY <3>7, <3>8
  <2>4. QED
    BY <2>1, <2>2, <2>3
<1>2. \A n \in Nodes : n \in S
  <2>1. \A n \in Nodes : (\A m \in Nodes : m < n => m \in S) => n \in S
    BY <1>1
  <2> HIDE DEF S
  <2>2. QED
    BY <2>1, NodeInduction
<1>3. QED
  BY <1>2

\* The walk comes to nothing below a body it does not come to.
LEMMA WalkStops ==
  ASSUME TreeOK, NEW b \in Nodes, WalkCtx[b] = 0
  PROVE  \A n \in Nodes : b \in Above[n] => WalkCtx[n] = 0
<1> DEFINE S == {n \in Nodes : b \in Above[n] => WalkCtx[n] = 0}
<1>1. ASSUME NEW n \in Nodes, \A m \in Nodes : m < n => m \in S, b \in Above[n] PROVE WalkCtx[n] = 0
  <2>1. n # 1
    BY <1>1, AboveDefined
  <2>2. PICK p : p = parent[n]
    OBVIOUS
  <2>3. p \in Nodes /\ p < n /\ Above[n] = {p} \cup Above[p]
    BY <2>1, <2>2, AboveDefined DEF TreeOK
  <2>4. WalkCtx[p] = 0
    BY <1>1, <2>3
  <2>5. QED
    BY <2>1, <2>2, <2>4, WalkDefined
<1>2. \A n \in Nodes : n \in S
  <2>1. \A n \in Nodes : (\A m \in Nodes : m < n => m \in S) => n \in S
    BY <1>1
  <2> HIDE DEF S
  <2>2. QED
    BY <2>1, NodeInduction
<1>3. QED
  BY <1>2

\* It comes to the top level with the context of the file.
LEMMA WalkAtTop ==
  ASSUME TreeOK
  PROVE  \A n \in Nodes : AtTopLevel(n) => WalkCtx[n] = 1
<1> DEFINE S == {n \in Nodes : AtTopLevel(n) => WalkCtx[n] = 1}
<1>1. ASSUME NEW n \in Nodes, \A m \in Nodes : m < n => m \in S, AtTopLevel(n) PROVE WalkCtx[n] = 1
  <2>1. CASE n = 1
    BY <2>1, WalkDefined
  <2>2. CASE n # 1
    <3>1. PICK p : p = parent[n]
      OBVIOUS
    <3>2. p \in Nodes /\ p < n /\ Above[n] = {p} \cup Above[p]
      BY <2>2, <3>1, AboveDefined DEF TreeOK
    <3>3. AtTopLevel(p) /\ kind[p] \in {"root", "export", "other"}
      BY <1>1, <3>2 DEF AtTopLevel
    <3>4. WalkCtx[p] = 1
      BY <1>1, <3>2, <3>3
    <3>5. ~ is_function_def(p) /\ kind[p] # "class" /\ kind[p] # "variable"
      BY <3>3 DEF is_function_def
    <3>6. QED
      BY <2>2, <3>1, <3>4, <3>5, WalkDefined
  <2>3. QED
    BY <2>1, <2>2
<1>2. \A n \in Nodes : n \in S
  <2>1. \A n \in Nodes : (\A m \in Nodes : m < n => m \in S) => n \in S
    BY <1>1
  <2> HIDE DEF S
  <2>2. QED
    BY <2>1, NodeInduction
<1>3. QED
  BY <1>2

\* The definition or the closure that a visit is of.
Definer(v) == parent[v.body]

\* What a visit is: by a definition, or by an arrow with the name of its variable.
VisitOf(v, d) ==
  /\ v.body \in Nodes /\ kind[v.body] = "body" /\ parent[v.body] = d /\ d \in Nodes
  /\ v.body = Min(Bodies(d)) /\ v.body # 1
  /\ \/ /\ is_function_def(d) /\ WalkCtx[d] # 0
        /\ v = [ctx |-> WalkCtx[d], name |-> d, body |-> v.body]
     \/ /\ kind[d] = "arrow" /\ d # 1 /\ kind[parent[d]] = "variable" /\ WalkCtx[parent[d]] # 0
        /\ v = [ctx |-> WalkCtx[parent[d]], name |-> parent[d], body |-> v.body]

\* The body that a visit takes.
LEMMA FirstBody ==
  ASSUME TreeOK, NEW d \in Nodes, Bodies(d) # {}
  PROVE  Min(Bodies(d)) \in Bodies(d) /\ Min(Bodies(d)) # 1
<1> DEFINE B == Bodies(d)
<1>1. B \subseteq Nat /\ 1 \notin B
  BY NodesAre DEF TreeOK, Bodies
<1> HIDE DEF B
<1>2. B # {}
  BY DEF B
<1>3. \E x \in B : \A y \in B : x <= y
  BY <1>1, <1>2, LeastNatural
<1>4. Min(B) = CHOOSE x \in B : \A y \in B : x <= y
  BY DEF Min
<1>5. Min(B) \in B
  BY <1>3, <1>4
<1>6. QED
  BY <1>1, <1>5 DEF B

\* Visits are made at definitions and closures.
LEMMA VisitsAre ==
  ASSUME TreeOK, NEW v \in Visits
  PROVE  VisitOf(v, Definer(v))
<1>1. ASSUME NEW n \in Nodes, is_function_def(n), WalkCtx[n] # 0, Bodies(n) # {},
             v = [ctx |-> WalkCtx[n], name |-> n, body |-> Min(Bodies(n))]
      PROVE  VisitOf(v, n) /\ parent[v.body] = n
  <2>1. v.body = Min(Bodies(n))
    BY <1>1
  <2>2. v.body \in Nodes /\ kind[v.body] = "body" /\ parent[v.body] = n /\ v.body # 1
    BY <1>1, <2>1, FirstBody DEF Bodies
  <2>3. QED
    BY <1>1, <2>1, <2>2 DEF VisitOf
<1>2. ASSUME NEW a \in Nodes, Closes(a), WalkCtx[parent[a]] # 0, Bodies(a) # {},
             v = [ctx |-> WalkCtx[parent[a]], name |-> parent[a], body |-> Min(Bodies(a))]
      PROVE  VisitOf(v, a) /\ parent[v.body] = a
  <2>1. v.body = Min(Bodies(a))
    BY <1>2
  <2>2. v.body \in Nodes /\ kind[v.body] = "body" /\ parent[v.body] = a /\ v.body # 1
    BY <1>2, <2>1, FirstBody DEF Bodies
  <2>3. a # 1
    BY <1>2 DEF Closes, TreeOK
  <2>4. QED
    BY <1>2, <2>1, <2>2, <2>3 DEF VisitOf, Closes
<1>3. \/ \E n \in Nodes : /\ is_function_def(n) /\ WalkCtx[n] # 0 /\ Bodies(n) # {}
                          /\ v = [ctx |-> WalkCtx[n], name |-> n, body |-> Min(Bodies(n))]
      \/ \E a \in Nodes : /\ Closes(a) /\ WalkCtx[parent[a]] # 0 /\ Bodies(a) # {}
                          /\ v = [ctx |-> WalkCtx[parent[a]], name |-> parent[a], body |-> Min(Bodies(a))]
  BY DEF Visits
<1>4. QED
  BY <1>1, <1>2, <1>3 DEF Definer

\* The walk does not come to the body of a visit,
LEMMA BodiesNotWalked ==
  ASSUME TreeOK, NEW v \in Visits
  PROVE  WalkCtx[v.body] = 0
<1>1. PICK d : d = Definer(v)
  OBVIOUS
<1>2. VisitOf(v, d)
  BY <1>1, VisitsAre
<1>3. v.body \in Nodes /\ v.body # 1 /\ parent[v.body] = d /\ d \in Nodes
  BY <1>2 DEF VisitOf
<1>4. CASE is_function_def(d)
  <2>1. kind[d] # "class" /\ kind[d] # "variable"
    BY <1>4 DEF is_function_def
  <2>2. QED
    BY <1>3, <1>4, <2>1, WalkDefined
<1>5. CASE kind[d] = "arrow" /\ d # 1 /\ kind[parent[d]] = "variable"
  <2>1. WalkCtx[d] = 0
    BY <1>3, <1>5, WalkDefined
  <2>2. kind[d] # "class" /\ kind[d] # "variable"
    BY <1>5
  <2>3. QED
    BY <1>3, <2>1, <2>2, WalkDefined
<1>6. QED
  BY <1>2, <1>4, <1>5 DEF VisitOf

\* so there is no visit inside another one's body.
LEMMA BodiesNotNested ==
  ASSUME TreeOK, NEW v \in Visits, NEW w \in Visits
  PROVE  w.body \notin Above[v.body]
<1> SUFFICES ASSUME w.body \in Above[v.body] PROVE FALSE
  OBVIOUS
<1>1. PICK d : d = Definer(v)
  OBVIOUS
<1>2. VisitOf(v, d)
  BY <1>1, VisitsAre
<1>3. w.body \in Nodes /\ kind[w.body] = "body" /\ WalkCtx[w.body] = 0
  BY VisitsAre, BodiesNotWalked DEF VisitOf
<1>4. v.body \in Nodes /\ v.body # 1 /\ parent[v.body] = d /\ d \in Nodes
  BY <1>2 DEF VisitOf
<1>5. w.body = d \/ w.body \in Above[d]
  BY <1>4, AboveDefined
<1>6. kind[d] # "body"
  BY <1>2 DEF VisitOf, is_function_def
<1>7. w.body \in Above[d] /\ WalkCtx[d] = 0
  BY <1>3, <1>4, <1>5, <1>6, WalkStops
<1>8. CASE is_function_def(d) /\ WalkCtx[d] # 0
  BY <1>7, <1>8
<1>9. CASE kind[d] = "arrow" /\ d # 1 /\ kind[parent[d]] = "variable" /\ WalkCtx[parent[d]] # 0
  <2>1. parent[d] \in Nodes
    BY <1>4, <1>9 DEF TreeOK
  <2>2. w.body = parent[d] \/ w.body \in Above[parent[d]]
    BY <1>4, <1>7, <1>9, AboveDefined
  <2>3. w.body # parent[d]
    BY <1>3, <1>9
  <2>4. QED
    BY <1>3, <1>9, <2>1, <2>2, <2>3, WalkStops
<1>10. QED
  BY <1>2, <1>8, <1>9 DEF VisitOf

\* No node is below the bodies of two visits.
LEMMA VisitsApart ==
  ASSUME TreeOK, NEW v \in Visits, NEW w \in Visits, NEW K, NEW L, NEW n,
         n \in Below(v.body, K), n \in Below(w.body, L)
  PROVE  v = w
<1>1. PICK d : d = Definer(v)
  OBVIOUS
<1>2. PICK e : e = Definer(w)
  OBVIOUS
<1>3. VisitOf(v, d) /\ VisitOf(w, e)
  BY <1>1, <1>2, VisitsAre
<1>4. v.body \in Nodes /\ w.body \in Nodes
  BY <1>3 DEF VisitOf
<1>5. n \in Nodes /\ (n = v.body \/ v.body \in Above[n]) /\ (n = w.body \/ w.body \in Above[n])
  <2>1. n \in Nodes
    BY <1>4, BelowDefined
  <2>2. QED
    BY <1>4, <2>1, BelowMeans
<1>6. v.body = w.body \/ v.body \in Above[w.body] \/ w.body \in Above[v.body]
  BY <1>5, AncestorsOrdered
<1>7. v.body = w.body
  BY <1>6, BodiesNotNested
<1>8. d = e
  BY <1>3, <1>7 DEF VisitOf
<1>9. kind[d] = "arrow" => ~ is_function_def(d)
  BY DEF is_function_def
<1>10. QED
  BY <1>3, <1>7, <1>8, <1>9 DEF VisitOf

\* What ExtractFile makes of the tree.
EdgesOfTree ==
  UNION {{[ctx |-> v.ctx, name |-> v.name, call |-> n] : n \in CallsOf(v)} : v \in Visits}
MetricsOf(v) == [ctx |-> v.ctx, name |-> v.name, cyclomatic |-> Count(v, Decisions) + 1,
                 returns |-> Count(v, {"return"}), depth |-> Max(Depths(v))]
MetricsOfTree == {MetricsOf(v) : v \in Visits}

\* An edge is a call below the body of a visit.
LEMMA EdgesAre ==
  ASSUME TreeOK, NEW e \in EdgesOfTree
  PROVE  \E v \in Visits : /\ e = [ctx |-> v.ctx, name |-> v.name, call |-> e.call]
                           /\ e.call \in Below(v.body, {"function"}) /\ kind[e.call] \in CallKinds
<1>1. PICK v \in Visits : \E n \in CallsOf(v) : e = [ctx |-> v.ctx, name |-> v.name, call |-> n]
  BY DEF EdgesOfTree
<1>2. PICK n \in CallsOf(v) : e = [ctx |-> v.ctx, name |-> v.name, call |-> n]
  BY <1>1
<1>3. e.call = n /\ n \in Below(v.body, {"function"}) /\ kind[n] \in CallKinds
  BY <1>2 DEF CallsOf, Collect
<1>4. QED
  BY <1>2, <1>3

\* A call is an edge of one function,
LEMMA EdgesSingle ==
  ASSUME TreeOK, NEW e \in EdgesOfTree, NEW o \in EdgesOfTree, e.call = o.call
  PROVE  e = o
<1>1. PICK v \in Visits : /\ e = [ctx |-> v.ctx, name |-> v.name, call |-> e.call]
                          /\ e.call \in Below(v.body, {"function"})
  BY EdgesAre
<1>2. PICK w \in Visits : /\ o = [ctx |-> w.ctx, name |-> w.name, call |-> o.call]
                          /\ o.call \in Below(w.body, {"function"})
  BY EdgesAre
<1>3. v = w
  BY <1>1, <1>2, VisitsApart
<1>4. QED
  BY <1>1, <1>2, <1>3

\* which is the innermost definition it stands in,
LEMMA EdgesWithin ==
  ASSUME TreeOK, NEW e \in EdgesOfTree
  PROVE  e.name \in Above[e.call] /\ DefinitionsBetween(e.name, e.call) = {}
<1>1. PICK v \in Visits : /\ e = [ctx |-> v.ctx, name |-> v.name, call |-> e.call]
                          /\ e.call \in Below(v.body, {"function"}) /\ kind[e.call] \in CallKinds
  BY EdgesAre
<1>2. PICK n, f, b, d : n = e.call /\ f = e.name /\ b = v.body /\ d = Definer(v)
  OBVIOUS
<1>3. VisitOf(v, d) /\ f = v.name
  BY <1>1, <1>2, VisitsAre
<1>4. b \in Nodes /\ b # 1 /\ kind[b] = "body" /\ parent[b] = d /\ d \in Nodes
  BY <1>2, <1>3 DEF VisitOf
<1>5. n \in Nodes
  BY <1>1, <1>2, <1>4, BelowDefined
<1>6. b \in Above[n] /\ \A x \in Above[n] : b \in Above[x] => kind[x] # "function"
  <2>1. n # b
    BY <1>1, <1>2, <1>4 DEF CallKinds
  <2>2. QED
    BY <1>1, <1>2, <1>4, <1>5, <2>1, BelowMeans
<1>7. Above[b] = {d} \cup Above[d]
  BY <1>4, AboveDefined
<1>8. f = d \/ (kind[d] = "arrow" /\ f = parent[d] /\ Above[d] = {f} \cup Above[f])
  <2>1. d # 1 => Above[d] = {parent[d]} \cup Above[parent[d]]
    BY <1>4, AboveDefined
  <2>2. QED
    BY <1>3, <2>1 DEF VisitOf
<1>9. f \in Above[b] /\ f \in Above[n] /\ f \in Nodes
  <2>1. f \in Above[b]
    BY <1>7, <1>8
  <2>2. Above[b] \subseteq Above[n] /\ Above[n] \subseteq Nodes
    BY <1>5, <1>6, AncestorsOrdered
  <2>3. QED
    BY <2>1, <2>2
<1>10. ASSUME NEW x \in Above[n], f \in Above[x], kind[x] = "function" PROVE FALSE
  <2>1. x = b \/ b \in Above[x] \/ x \in Above[b]
    BY <1>5, <1>6, AncestorsOrdered
  <2>2. x \in Above[b]
    BY <1>4, <1>6, <1>10, <2>1
  <2>3. f \notin Above[f] /\ ~ (x \in Above[f])
    <3>1. x \in Nodes
      BY <1>4, <2>2, AncestorsOrdered
    <3>2. f < x
      BY <1>10, <3>1, AncestorsOrdered
    <3>3. f \in Nat /\ x \in Nat
      BY <1>9, <3>1, NodesAre
    <3>4. \A y \in Above[f] : y < f
      BY <1>9, AncestorsOrdered
    <3>5. QED
      BY <3>2, <3>3, <3>4
  <2>4. CASE f = d
    BY <1>7, <1>10, <2>2, <2>3, <2>4
  <2>5. CASE kind[d] = "arrow" /\ f = parent[d] /\ Above[d] = {f} \cup Above[f]
    BY <1>7, <1>10, <2>2, <2>3, <2>5
  <2>6. QED
    BY <1>8, <2>4, <2>5
<1>11. QED
  BY <1>2, <1>9, <1>10 DEF DefinitionsBetween

\* and is missed at none at the top level.
LEMMA EdgesComplete ==
  ASSUME TreeOK, NEW f \in Nodes, NEW n \in Nodes, kind[f] = "function", AtTopLevel(f),
         kind[n] = "call", f \in Above[n], Bodies(f) # {}, Min(Bodies(f)) \in Above[n],
         DefinitionsBetween(f, n) = {}
  PROVE  \E e \in EdgesOfTree : e.name = f /\ e.call = n
<1> DEFINE v == [ctx |-> WalkCtx[f], name |-> f, body |-> Min(Bodies(f))]
           b == Min(Bodies(f))
           e == [ctx |-> v.ctx, name |-> v.name, call |-> n]
<1>1. v \in Visits
  <2>1. is_function_def(f) /\ WalkCtx[f] # 0
    BY WalkAtTop DEF is_function_def
  <2>2. QED
    BY <2>1 DEF Visits
<1>2. b \in Nodes /\ b # 1 /\ parent[b] = f /\ kind[b] = "body"
  BY FirstBody DEF Bodies
<1>3. v.body = b /\ v.name = f
  OBVIOUS
<1> HIDE DEF b
<1>4. f \in Above[b]
  BY <1>2, AboveDefined
<1>5. ASSUME NEW x \in Above[n], b \in Above[x] PROVE kind[x] # "function"
  <2>1. x \in Nodes /\ Above[b] \subseteq Above[x]
    BY <1>5, AncestorsOrdered
  <2>2. f \in Above[x]
    BY <1>4, <2>1
  <2>3. QED
    BY <2>2 DEF DefinitionsBetween
<1>6. n \in Below(b, {"function"})
  <2>1. b \in Above[n]
    BY DEF b
  <2>2. QED
    BY <1>2, <1>5, <2>1, BelowMeans
<1>7. n \in CallsOf(v)
  BY <1>3, <1>6, BelowDefined DEF CallsOf, Collect, CallKinds
<1> HIDE DEF v
<1>8. e \in EdgesOfTree /\ e.name = f /\ e.call = n
  BY <1>1, <1>3, <1>7 DEF EdgesOfTree
<1>9. QED
  BY <1>8

\* A function with an edge has metrics.
LEMMA EdgesMeasured ==
  ASSUME TreeOK, NEW e \in EdgesOfTree
  PROVE  \E m \in MetricsOfTree : m.name = e.name /\ m.ctx = e.ctx
<1>1. PICK v \in Visits : e = [ctx |-> v.ctx, name |-> v.name, call |-> e.call]
  BY EdgesAre
<1>2. MetricsOf(v) \in MetricsOfTree /\ MetricsOf(v).name = v.name /\ MetricsOf(v).ctx = v.ctx
  BY DEF MetricsOf, MetricsOfTree
<1>3. QED
  BY <1>1, <1>2

\* The sum AttributedOnce takes.
SumOf(M) == MapThenSumSet(LAMBDA m : m.cyclomatic - 1, M)

\* g sums up M in the order of pick.
SumsUp(g, pick, M) ==
  /\ SumOf(M) = g[M] /\ g[{}] = 0
  /\ \A s \in SUBSET M : s # {} =>
       pick[s] \in s /\ g[s] = (pick[s].cyclomatic - 1) + g[s \ {pick[s]}]

\* The sum over a set takes its elements one by one.
LEMMA SumFold ==
  ASSUME NEW M, IsFiniteSet(M), \A m \in M : m.cyclomatic - 1 \in Nat
  PROVE  \E g, pick : SumsUp(g, pick, M)
<1> DEFINE pick == [s \in SUBSET M |-> CHOOSE x \in s : TRUE]
           F == [p \in Nat \X M |-> (p[2].cyclomatic - 1) + p[1]]
           step(g) == [s \in SUBSET M |->
                         IF s = {} THEN 0
                         ELSE ((CHOOSE x \in s : TRUE).cyclomatic - 1) + g[s \ {CHOOSE x \in s : TRUE}]]
           iter == CHOOSE g : g = step(g)
<1>1. \A s \in SUBSET M : pick[s] = CHOOSE x \in s : TRUE
  OBVIOUS
<1>2. \A s \in SUBSET M : s # {} => pick[s] \in s
  BY <1>1
<1> HIDE DEF pick
<1>3. F \in [Nat \X M -> Nat] /\ \A k \in Nat, m \in M : F[<<k, m>>] = (m.cyclomatic - 1) + k
  OBVIOUS
<1> HIDE DEF F
<1>4. PICK f \in [SUBSET M -> Nat] : FoldsBy(f, M, pick, 0, F)
  BY <1>2, <1>3, SetFold
<1>5. f = step(f)
  <2>1. ASSUME NEW s \in SUBSET M, s # {}
        PROVE  f[s] = ((CHOOSE x \in s : TRUE).cyclomatic - 1) + f[s \ {CHOOSE x \in s : TRUE}]
    <3>1. pick[s] \in M /\ f[s \ {pick[s]}] \in Nat
      BY <1>2, <1>4, <2>1
    <3>2. f[s] = (pick[s].cyclomatic - 1) + f[s \ {pick[s]}]
      BY <1>3, <1>4, <2>1, <3>1 DEF FoldsBy
    <3>3. QED
      BY <1>1, <3>2
  <2>2. f[{}] = 0
    BY <1>4 DEF FoldsBy
  <2>3. QED
    BY <1>4, <2>1, <2>2
<1>6. iter = step(iter)
  BY <1>5
<1>7. SumOf(M) = iter[M]
  BY DEF SumOf, MapThenSumSet, MapThenFoldSet
<1> HIDE DEF iter
<1>8. iter[{}] = 0
  BY <1>6
<1>9. ASSUME NEW s \in SUBSET M, s # {}
      PROVE  iter[s] = (pick[s].cyclomatic - 1) + iter[s \ {pick[s]}]
  <2>1. iter[s] = step(iter)[s]
    BY <1>6, Zenon
  <2>2. iter[s] = ((CHOOSE x \in s : TRUE).cyclomatic - 1) + iter[s \ {CHOOSE x \in s : TRUE}]
    BY <1>9, <2>1
  <2>3. QED
    BY <1>1, <2>2
<1>10. SumsUp(iter, pick, M)
  BY <1>2, <1>7, <1>8, <1>9 DEF SumsUp
<1>11. QED
  BY <1>10

\* What is counted in sets with nothing in common is counted once.
LEMMA SumBounded ==
  ASSUME NEW M, IsFiniteSet(M), NEW D, IsFiniteSet(D), NEW part \in [M -> SUBSET D],
         \A m \in M : m.cyclomatic - 1 = Cardinality(part[m]),
         \A m, o \in M : m # o => part[m] \cap part[o] = {}
  PROVE  SumOf(M) <= Cardinality(D)
<1> DEFINE all(s) == UNION {part[m] : m \in s}
<1>1. \A m \in M : m.cyclomatic - 1 \in Nat
  BY FS_Subset, FS_CardinalityType
<1>2. PICK g, pick : SumsUp(g, pick, M)
  BY <1>1, SumFold
<1> USE DEF SumsUp
<1>3. \A s \in SUBSET M : all(s) \subseteq D /\ IsFiniteSet(all(s)) /\ Cardinality(all(s)) \in Nat
  <2>1. \A s \in SUBSET M : all(s) \subseteq D
    OBVIOUS
  <2> HIDE DEF all
  <2>2. QED
    BY <2>1, FS_Subset, FS_CardinalityType
<1> DEFINE S == {k \in Nat : \A s \in SUBSET M : Cardinality(s) = k => g[s] = Cardinality(all(s))}
<1>4. 0 \in S
  <2>1. ASSUME NEW s \in SUBSET M, Cardinality(s) = 0 PROVE g[s] = Cardinality(all(s))
    <3>1. s = {}
      BY <2>1, FS_Subset, FS_EmptySet
    <3>2. all(s) = {}
      BY <3>1
    <3> HIDE DEF all
    <3>3. QED
      BY <1>2, <3>1, <3>2, FS_EmptySet
  <2>2. QED
    BY <2>1
<1>5. ASSUME NEW k \in Nat, k \in S PROVE k + 1 \in S
  <2>1. ASSUME NEW s \in SUBSET M, Cardinality(s) = k + 1 PROVE g[s] = Cardinality(all(s))
    <3>1. IsFiniteSet(s) /\ s # {}
      BY <2>1, FS_Subset, FS_EmptySet
    <3>2. PICK x, r : x = pick[s] /\ r = s \ {pick[s]}
      OBVIOUS
    <3>3. x \in s /\ r \in SUBSET M /\ x \in M /\ g[s] = (x.cyclomatic - 1) + g[r]
      BY <1>2, <3>1, <3>2
    <3>4. Cardinality(r) = k
      <4>1. Cardinality(s \ {x}) = Cardinality(s) - 1
        BY <3>1, <3>3, FS_RemoveElement
      <4>2. QED
        BY <2>1, <3>2, <3>3, <4>1
    <3>5. g[r] = Cardinality(all(r))
      BY <1>5, <3>3, <3>4
    <3>6. all(s) = all(r) \cup part[x]
      <4>1. s = r \cup {x}
        BY <3>2, <3>3
      <4>2. QED
        BY <4>1
    <3>7. all(r) \cap part[x] = {}
      BY <3>2, <3>3
    <3>8. IsFiniteSet(part[x]) /\ IsFiniteSet(all(r)) /\ Cardinality(all(r)) \in Nat
          /\ Cardinality(part[x]) \in Nat
      BY <1>3, <3>3, FS_Subset, FS_CardinalityType
    <3> HIDE DEF all
    <3>9. Cardinality(all(s)) = Cardinality(all(r)) + Cardinality(part[x])
      <4>1. Cardinality(all(r) \cup part[x])
              = Cardinality(all(r)) + Cardinality(part[x]) - Cardinality(all(r) \cap part[x])
        BY <3>8, FS_Union
      <4>2. Cardinality(all(r) \cap part[x]) = 0
        BY <3>7, FS_EmptySet
      <4>3. QED
        BY <3>6, <3>8, <4>1, <4>2
    <3>10. QED
      BY <3>3, <3>5, <3>8, <3>9
  <2>2. QED
    BY <2>1
<1> HIDE DEF S
<1>6. Cardinality(M) \in S
  BY <1>4, <1>5, NatSetInduction, FS_CardinalityType
<1>7. SumOf(M) = Cardinality(all(M))
  BY <1>2, <1>6 DEF S
<1>8. Cardinality(all(M)) <= Cardinality(D)
  BY <1>3, FS_Subset
<1>9. QED
  BY <1>7, <1>8

\* No decision is below two bodies, so none is counted twice.
LEMMA DecisionsOnce ==
  ASSUME TreeOK
  PROVE  SumOf(MetricsOfTree) <= Cardinality({n \in Nodes : kind[n] \in Decisions})
<1> DEFINE D == {n \in Nodes : kind[n] \in Decisions}
           M == MetricsOfTree
           visit == [m \in M |-> CHOOSE v \in Visits : m = MetricsOf(v)]
           counted(v) == {n \in Analyzed(v) : kind[n] \in Decisions}
           part == [m \in M |-> counted(visit[m])]
           body == [m \in M |-> visit[m].body]
<1>1. ASSUME NEW m \in M PROVE visit[m] \in Visits /\ m = MetricsOf(visit[m])
  <2>1. \E v \in Visits : m = MetricsOf(v)
    BY DEF MetricsOfTree
  <2>2. visit[m] = CHOOSE v \in Visits : m = MetricsOf(v)
    OBVIOUS
  <2> HIDE DEF visit
  <2>3. QED
    BY <2>1, <2>2
<1> HIDE DEF visit
<1>2. ASSUME NEW v \in Visits
      PROVE  /\ v.body \in Nodes /\ counted(v) \subseteq D
             /\ MetricsOf(v).cyclomatic - 1 = Cardinality(counted(v))
  <2>1. v.body \in Nodes
    BY VisitsAre DEF VisitOf
  <2>2. counted(v) \subseteq D
    BY <2>1, BelowDefined DEF Analyzed
  <2>3. IsFiniteSet(counted(v))
    BY <2>2, NodesAre, FS_Subset
  <2>4. Cardinality(counted(v)) \in Nat
    BY <2>3, FS_CardinalityType
  <2>5. MetricsOf(v).cyclomatic = Cardinality(counted(v)) + 1
    BY DEF MetricsOf, Count
  <2> HIDE DEF counted
  <2>6. QED
    BY <2>1, <2>2, <2>4, <2>5
<1>3. ASSUME NEW v \in Visits, NEW w \in Visits, v # w PROVE counted(v) \cap counted(w) = {}
  BY <1>3, VisitsApart DEF Analyzed
<1> HIDE DEF counted, D, M
<1>4. IsFiniteSet(D)
  BY NodesAre, FS_Subset DEF D
<1>5. IsFiniteSet(M)
  <2>1. body \in Injection(M, Nodes)
    <3>1. body \in [M -> Nodes]
      BY <1>1, <1>2
    <3>2. ASSUME NEW m \in M, NEW o \in M, body[m] = body[o] PROVE m = o
      <4>1. visit[m] \in Visits /\ visit[o] \in Visits /\ visit[m].body = visit[o].body
        BY <1>1, <3>2
      <4>2. visit[m].body \in Nodes /\ visit[m].body \in Below(visit[m].body, {})
            /\ visit[m].body \in Below(visit[o].body, {})
        BY <1>2, <4>1, BelowDefined
      <4>3. visit[m] = visit[o]
        BY <4>1, <4>2, VisitsApart
      <4>4. QED
        BY <1>1, <4>3
    <3>3. QED
      BY <3>1, <3>2 DEF Injection, IsInjective
  <2>2. QED
    BY <2>1, NodesAre, FS_Injection
<1>6. part \in [M -> SUBSET D] /\ \A m \in M : m.cyclomatic - 1 = Cardinality(part[m])
  BY <1>1, <1>2
<1>7. \A m, o \in M : m # o => part[m] \cap part[o] = {}
  <2>1. ASSUME NEW m \in M, NEW o \in M, m # o PROVE visit[m] # visit[o]
    BY <1>1, <2>1
  <2>2. QED
    BY <1>1, <1>3, <2>1
<1> HIDE DEF part
<1>8. SumOf(M) <= Cardinality(D)
  BY <1>4, <1>5, <1>6, <1>7, SumBounded
<1>9. QED
  BY <1>8 DEF M, D

\* The tree is one, and what is extracted is what ExtractFile makes of it.
ExtractionInv ==
  /\ TreeOK /\ extraction \in {"parsing", "done"}
  /\ extraction = "done" => callEdges = EdgesOfTree /\ metrics = MetricsOfTree

\* What ExtractFile makes of a tree is right.
LEMMA AttributionIsExact ==
  ASSUME ExtractionInv
  PROVE  AttributedOnce
<1> SUFFICES ASSUME TreeOK, extraction = "done", callEdges = EdgesOfTree, metrics = MetricsOfTree
             PROVE  AttributedOnce
  BY DEF ExtractionInv, AttributedOnce
<1>1. \A e, o \in callEdges : e.call = o.call => e = o
  BY EdgesSingle
<1>2. \A e \in callEdges : e.name \in Above[e.call] /\ DefinitionsBetween(e.name, e.call) = {}
  BY EdgesWithin
<1>3. \A f, n \in Nodes :
         /\ kind[f] = "function" /\ AtTopLevel(f) /\ kind[n] = "call"
         /\ f \in Above[n] /\ Bodies(f) # {} /\ Min(Bodies(f)) \in Above[n]
         /\ DefinitionsBetween(f, n) = {}
         => \E e \in callEdges : e.name = f /\ e.call = n
  BY EdgesComplete
<1>4. \A e \in callEdges : \E m \in metrics : m.name = e.name /\ m.ctx = e.ctx
  BY EdgesMeasured
<1>5. SumOf(metrics) <= Cardinality({n \in Nodes : kind[n] \in Decisions})
  BY DecisionsOnce
<1>6. QED
  BY <1>1, <1>2, <1>3, <1>4, <1>5 DEF AttributedOnce, SumOf

\* A tree starts with its root.
LEMMA ExtractionInitInv ==
  ASSUME ExtractionInit
  PROVE  ExtractionInv
<1>1. kind = <<"root">> /\ parent = <<0>> /\ "root" \in Kinds
  BY DEF ExtractionInit, Kinds
<1>2. /\ kind \in Seq(Kinds) /\ parent \in Seq(Nat) /\ Len(kind) = 1 /\ Len(parent) = 1
      /\ kind[1] = "root" /\ DOMAIN kind = 1..1
  BY <1>1
<1>3. TreeOK
  BY <1>2 DEF TreeOK, Nodes
<1>4. QED
  BY <1>3 DEF ExtractionInit, ExtractionInv

\* Every further node has its parent before it.
LEMMA ParseStep ==
  ASSUME TreeOK, NEW p \in Nodes,
         NEW k \in Statements \cup {"export", "body", "arrow", "object"}, Parse(k, p)
  PROVE  TreeOK'
<1>1. k \in Kinds
  BY DEF Kinds
<1>2. Nodes = 1..Len(kind) /\ Len(kind) \in Nat /\ DOMAIN parent = Nodes /\ p \in Nat
  BY NodesAre
<1>3. kind \in Seq(Kinds) /\ parent \in Seq(Nat) /\ Len(parent) = Len(kind) /\ Len(kind) >= 1
  BY DEF TreeOK
<1>4. kind' = Append(kind, k) /\ parent' = Append(parent, p)
  BY DEF Parse
<1>5. /\ kind' \in Seq(Kinds) /\ parent' \in Seq(Nat)
      /\ Len(kind') = Len(kind) + 1 /\ Len(parent') = Len(kind) + 1
      /\ \A n \in 1..Len(kind) : kind'[n] = kind[n] /\ parent'[n] = parent[n]
      /\ parent'[Len(kind) + 1] = p
  BY <1>1, <1>2, <1>3, <1>4, AppendProperties
<1>6. Nodes' = 1..(Len(kind) + 1)
  BY <1>5, LenProperties DEF Nodes
<1>7. kind'[1] = "root" /\ Len(kind') >= 1
  BY <1>2, <1>3, <1>5 DEF TreeOK
<1>8. ASSUME NEW n \in Nodes', n # 1 PROVE parent'[n] \in Nodes' /\ parent'[n] < n
  <2>1. CASE n \in Nodes
    <3>1. parent'[n] = parent[n] /\ parent[n] \in Nodes /\ parent[n] < n
      BY <1>2, <1>5, <1>8, <2>1 DEF TreeOK
    <3>2. QED
      BY <1>2, <1>6, <3>1
  <2>2. CASE n = Len(kind) + 1
    BY <1>2, <1>5, <1>6, <2>2
  <2>3. QED
    BY <1>2, <1>6, <2>1, <2>2
<1>9. QED
  BY <1>5, <1>7, <1>8 DEF TreeOK

\* The depth of decisions of each node under a body.
DepthUnder(b) ==
  CHOOSE levels : levels = [n \in Nodes |-> (IF n = b THEN 0 ELSE levels[parent[n]])
                                          + (IF kind[n] = "decision" THEN 1 ELSE 0)]

\* What is made of a tree does not change while the tree does not.
LEMMA SameTree ==
  ASSUME UNCHANGED <<kind, parent>>
  PROVE  TreeOK' = TreeOK /\ EdgesOfTree' = EdgesOfTree /\ MetricsOfTree' = MetricsOfTree
<1>1. TreeOK' = TreeOK
  BY DEF TreeOK, Nodes
<1>2. Visits' = Visits
  BY DEF Visits, WalkCtx, Bodies, Closes, is_function_def, Nodes
<1>3. \A b, K : Below(b, K)' = Below(b, K)
  BY DEF Below, Nodes
<1>4. \A v : CallsOf(v)' = CallsOf(v)
  BY <1>3 DEF CallsOf, Collect
<1>5. \A v : MetricsOf(v)' = MetricsOf(v)
  <2>1. \A v : Analyzed(v)' = Analyzed(v)
    BY <1>3 DEF Analyzed
  <2>2. \A v, k : Count(v, k)' = Count(v, k)
    BY <2>1 DEF Count
  <2>3. \A v : Depths(v)' = Depths(v)
    <3>1. \A b : DepthUnder(b)' = DepthUnder(b)
      BY DEF DepthUnder, Nodes
    <3>2. \A v : Depths(v) = {DepthUnder(v.body)[n] : n \in Analyzed(v)}
      BY DEF Depths, DepthUnder
    <3>3. \A v : Depths(v)' = {DepthUnder(v.body)'[n] : n \in Analyzed(v)'}
      BY DEF Depths, DepthUnder
    <3>4. QED
      BY <2>1, <3>1, <3>2, <3>3
  <2>4. QED
    BY <2>2, <2>3 DEF MetricsOf
<1>6. QED
  BY <1>1, <1>2, <1>4, <1>5 DEF EdgesOfTree, MetricsOfTree

\* Every step keeps the tree one and what is extracted exact.
LEMMA ExtractionStep ==
  ASSUME ExtractionInv, [ExtractionNext]_extractionVars
  PROVE  ExtractionInv'
<1>1. CASE ExtractFile
  <2>1. UNCHANGED <<kind, parent>> /\ callEdges' = EdgesOfTree /\ metrics' = MetricsOfTree /\ extraction' = "done"
    BY <1>1 DEF ExtractFile, EdgesOfTree, MetricsOfTree, MetricsOf
  <2>2. QED
    BY <2>1, SameTree DEF ExtractionInv
<1>2. ASSUME NEW p \in Nodes, NEW k \in Statements \cup {"export", "body", "arrow", "object"}, Parse(k, p)
      PROVE  ExtractionInv'
  <2>1. extraction' = "parsing"
    BY <1>2 DEF Parse
  <2>2. TreeOK'
    BY <1>2, ParseStep DEF ExtractionInv
  <2>3. QED
    BY <2>1, <2>2 DEF ExtractionInv
<1>3. CASE UNCHANGED extractionVars
  <2>1. UNCHANGED <<kind, parent>> /\ UNCHANGED <<extraction, callEdges, metrics>>
    BY <1>3 DEF extractionVars
  <2>2. QED
    BY <2>1, SameTree DEF ExtractionInv
<1>4. QED
  BY <1>1, <1>2, <1>3 DEF ExtractionNext

-----------------------------------------------------------------------------
(* Chunking.                                                               *)

\* The units of a file, in order.
LEMMA UnitsFromOne ==
  ASSUME NEW n \in Nat
  PROVE  /\ DOMAIN Units(1, n) = 1..n
         /\ \A k \in 1..n : Units(1, n)[k] = k
BY DEF Units

\* The chunk of a long node; what one node adds.
NodeChunk(nodes, n) ==
  Chunk(LineOfNode(nodes, n), IF n > 1 /\ nodes[n - 1] = "comment" THEN <<n - 1, n>> ELSE <<n>>)
NodeCut(nodes, sofar, n) ==
  IF nodes[n] # "long" THEN sofar ELSE Append(sofar, NodeChunk(nodes, n))

\* NodeChunks cuts at one node after another.
LEMMA NodeFold ==
  ASSUME NEW n \in Nat, NEW nodes, Len(nodes) = n
  PROVE  \E g : /\ NodeChunks(nodes) = g[1..n] /\ g[{}] = <<>>
                /\ \A k \in 1..n : g[1..k] = NodeCut(nodes, g[1..(k - 1)], k)
<1> DEFINE T == Seq([line : {LineOfNode(nodes, k) : k \in 1..n}, units : Seq(Int)])
           F == [p \in T \X (1..n) |-> NodeCut(nodes, p[1], p[2])]
           q == Units(1, n)
           step(g) == [s \in SUBSET DOMAIN q |->
                         IF s = {} THEN <<>> ELSE NodeCut(nodes, g[s \ {Max(s)}], q[Max(s)])]
           iter == CHOOSE g : g = step(g)
<1>1. ASSUME NEW sofar \in T, NEW k \in 1..n PROVE NodeCut(nodes, sofar, k) \in T
  <2>1. <<k>> \in Seq(Int) /\ <<k - 1, k>> \in Seq(Int)
    OBVIOUS
  <2>2. ASSUME NEW u \in Seq(Int)
        PROVE  Chunk(LineOfNode(nodes, k), u)
                 \in [line : {LineOfNode(nodes, j) : j \in 1..n}, units : Seq(Int)]
    BY DEF Chunk
  <2>3. QED
    BY <2>1, <2>2, AppendProperties DEF NodeCut, NodeChunk
<1>2. <<>> \in T
  OBVIOUS
<1> HIDE DEF T
<1>3. F \in [T \X (1..n) -> T] /\ \A sofar \in T, k \in 1..n : F[<<sofar, k>>] = NodeCut(nodes, sofar, k)
  BY <1>1
<1> HIDE DEF F
<1>4. PICK f \in [SUBSET (1..n) -> T] : FoldsLeft(f, n, <<>>, F)
  BY <1>2, <1>3, LeftFold
<1>5. f = step(f)
  <2>1. ASSUME NEW s \in SUBSET (1..n), s # {}
        PROVE  f[s] = NodeCut(nodes, f[s \ {Max(s)}], q[Max(s)])
    <3>1. Max(s) \in 1..n /\ q[Max(s)] = Max(s) /\ s \ {Max(s)} \in SUBSET (1..n)
      BY <2>1, MaxOfSet, UnitsFromOne
    <3>2. f[s] = F[<<f[s \ {Max(s)}], Max(s)>>]
      BY <1>4, <2>1 DEF FoldsLeft
    <3>3. f[s \ {Max(s)}] \in T
      BY <3>1
    <3>4. QED
      BY <1>3, <3>1, <3>2, <3>3
  <2>2. f[{}] = <<>>
    BY <1>4 DEF FoldsLeft
  <2>3. QED
    BY <1>4, <2>1, <2>2, UnitsFromOne
<1> HIDE DEF q
<1>6. iter = step(iter)
  BY <1>5
<1> HIDE DEF iter
<1>7. DOMAIN q = 1..n /\ \A k \in 1..n : q[k] = k
  BY UnitsFromOne DEF q
<1>8. iter[{}] = <<>>
  BY <1>6
<1>9. ASSUME NEW k \in 1..n PROVE iter[1..k] = NodeCut(nodes, iter[1..(k - 1)], k)
  <2>1. Max(1..k) = k /\ (1..k) \ {k} = 1..(k - 1)
    BY LastOfPrefix
  <2>2. 1..k \in SUBSET DOMAIN q /\ 1..k # {}
    BY <1>7
  <2>3. iter[1..k] = NodeCut(nodes, iter[(1..k) \ {Max(1..k)}], q[Max(1..k)])
    <3>1. PICK s : s = 1..k
      OBVIOUS
    <3>2. iter[s] = NodeCut(nodes, iter[s \ {Max(s)}], q[Max(s)])
      <4>1. s \in SUBSET DOMAIN q /\ s # {}
        BY <2>2, <3>1
      <4>2. iter[s] = step(iter)[s]
        BY <1>6, Zenon
      <4>3. QED
        BY <4>1, <4>2
    <3>3. QED
      BY <3>1, <3>2
  <2>4. QED
    BY <1>7, <2>1, <2>3
<1>10. NodeChunks(nodes) = iter[1..n]
  <2>1. NodeChunks(nodes) = iter[DOMAIN q]
    BY DEF NodeChunks, FoldLeft, MapThenFoldSet, iter, q, NodeCut, NodeChunk
  <2>2. QED
    BY <1>7, <2>1
<1>11. QED
  BY <1>8, <1>9, <1>10

\* done are the chunks of the first k nodes that are long.
NodesCut(nodes, done, k) ==
  /\ done \in Seq([line : {LineOfNode(nodes, n) : n \in DOMAIN nodes}, units : Seq(Int)])
  /\ \A j \in DOMAIN done : \E n \in 1..k : nodes[n] = "long" /\ done[j] = NodeChunk(nodes, n)
  /\ \A n \in 1..k : nodes[n] = "long" => \E j \in DOMAIN done : done[j] = NodeChunk(nodes, n)
  /\ \A i, j \in DOMAIN done : i # j => done[i] # done[j]

\* Chunks of two long nodes have nothing in common.
LEMMA NodeChunkUnits ==
  ASSUME NEW nodes, NEW n \in Nat \ {0}, NEW m \in Nat \ {0}, nodes[n] = "long", nodes[m] = "long"
  PROVE  /\ NodeChunk(nodes, n).units # <<>> /\ n \in UnitsOf(NodeChunk(nodes, n))
         /\ NodeChunk(nodes, n).units \in Seq(Int)
         /\ NodeChunk(nodes, n).line = LineOfNode(nodes, n)
         /\ Last(NodeChunk(nodes, n).units) = n
         /\ n > 1 /\ nodes[n - 1] = "comment" => n - 1 \in UnitsOf(NodeChunk(nodes, n))
         /\ n # m => UnitsOf(NodeChunk(nodes, n)) \cap UnitsOf(NodeChunk(nodes, m)) = {}
<1>1. ASSUME NEW x \in Nat \ {0}, nodes[x] = "long"
      PROVE  /\ NodeChunk(nodes, x).units # <<>>
             /\ NodeChunk(nodes, x).units \in Seq(Int)
             /\ Last(NodeChunk(nodes, x).units) = x
             /\ x \in UnitsOf(NodeChunk(nodes, x))
             /\ x > 1 /\ nodes[x - 1] = "comment" => x - 1 \in UnitsOf(NodeChunk(nodes, x))
             /\ \A y \in UnitsOf(NodeChunk(nodes, x)) : y = x \/ (y = x - 1 /\ nodes[y] = "comment")
  <2> DEFINE u == NodeChunk(nodes, x).units
  <2>1. u = IF x > 1 /\ nodes[x - 1] = "comment" THEN <<x - 1, x>> ELSE <<x>>
    BY DEF NodeChunk, Chunk
  <2>2. UnitsOf(NodeChunk(nodes, x)) = {u[k] : k \in DOMAIN u}
    BY DEF UnitsOf
  <2> HIDE DEF u
  <2>3. CASE x > 1 /\ nodes[x - 1] = "comment"
    <3>1. u = <<x - 1, x>>
      BY <2>1, <2>3
    <3>2. u \in Seq(Int) /\ u # <<>> /\ Last(u) = x
      BY <3>1 DEF Last
    <3>3. DOMAIN u = {1, 2} /\ u[1] = x - 1 /\ u[2] = x
      BY <3>1
    <3>4. QED
      BY <2>2, <2>3, <3>2, <3>3 DEF u
  <2>4. CASE ~ (x > 1 /\ nodes[x - 1] = "comment")
    <3>1. u = <<x>>
      BY <2>1, <2>4
    <3>2. u \in Seq(Int) /\ u # <<>> /\ Last(u) = x
      BY <3>1 DEF Last
    <3>3. DOMAIN u = {1} /\ u[1] = x
      BY <3>1
    <3>4. QED
      BY <2>2, <2>4, <3>2, <3>3 DEF u
  <2>5. QED
    BY <2>3, <2>4
<1>2. NodeChunk(nodes, n).line = LineOfNode(nodes, n)
  BY DEF NodeChunk, Chunk
<1>3. ASSUME n # m, NEW y, y \in UnitsOf(NodeChunk(nodes, n)), y \in UnitsOf(NodeChunk(nodes, m))
      PROVE  FALSE
  <2>1. y = n \/ (y = n - 1 /\ nodes[y] = "comment")
    BY <1>1, <1>3
  <2>2. y = m \/ (y = m - 1 /\ nodes[y] = "comment")
    BY <1>1, <1>3
  <2>3. QED
    BY <1>3, <2>1, <2>2
<1>4. QED
  BY <1>1, <1>2, <1>3

\* One more node.
LEMMA NodesCutStep ==
  ASSUME NEW n \in Nat, NEW nodes, DOMAIN nodes = 1..n, NEW k \in 1..n,
         NEW done, NodesCut(nodes, done, k - 1)
  PROVE  NodesCut(nodes, NodeCut(nodes, done, k), k)
<1> DEFINE Chunks == [line : {LineOfNode(nodes, x) : x \in DOMAIN nodes}, units : Seq(Int)]
<1>1. CASE nodes[k] # "long"
  <2>1. NodeCut(nodes, done, k) = done
    BY <1>1 DEF NodeCut
  <2>2. QED
    BY <1>1, <2>1 DEF NodesCut
<1>2. CASE nodes[k] = "long"
  <2> DEFINE c == NodeChunk(nodes, k)
             after == NodeCut(nodes, done, k)
  <2>1. after = Append(done, c)
    BY <1>2 DEF NodeCut
  <2>2. c.units \in Seq(Int) /\ Last(c.units) = k
    BY <1>2, NodeChunkUnits
  <2>3. c = [line |-> LineOfNode(nodes, k), units |-> c.units]
    BY DEF NodeChunk, Chunk
  <2>4. c \in Chunks
    BY <2>2, <2>3
  <2>5. done \in Seq(Chunks)
    BY DEF NodesCut
  <2> HIDE DEF c, Chunks
  <2>6. /\ after \in Seq(Chunks) /\ Len(after) = Len(done) + 1 /\ Len(done) \in Nat
        /\ DOMAIN done = 1..Len(done) /\ DOMAIN after = 1..(Len(done) + 1)
        /\ \A j \in DOMAIN done : after[j] = done[j]
        /\ after[Len(done) + 1] = c
    BY <2>1, <2>4, <2>5, AppendProperties, LenProperties
  <2> HIDE DEF after
  <2>7. \A j \in DOMAIN after : j \in DOMAIN done \/ j = Len(done) + 1
    BY <2>6
  <2>8. ASSUME NEW j \in DOMAIN after
        PROVE  \E m \in 1..k : nodes[m] = "long" /\ after[j] = NodeChunk(nodes, m)
    <3>1. CASE j \in DOMAIN done
      <4>1. PICK m \in 1..(k - 1) : nodes[m] = "long" /\ done[j] = NodeChunk(nodes, m)
        BY <3>1 DEF NodesCut
      <4>2. m \in 1..k
        OBVIOUS
      <4>3. QED
        BY <2>6, <3>1, <4>1, <4>2
    <3>2. CASE j = Len(done) + 1
      <4>1. k \in 1..k /\ after[j] = NodeChunk(nodes, k)
        BY <2>6, <3>2 DEF c
      <4>2. QED
        BY <1>2, <4>1
    <3>3. QED
      BY <2>7, <3>1, <3>2
  <2>9. ASSUME NEW m \in 1..k, nodes[m] = "long"
        PROVE  \E j \in DOMAIN after : after[j] = NodeChunk(nodes, m)
    <3>1. CASE m = k
      BY <2>6, <3>1 DEF c
    <3>2. CASE m # k
      <4>1. m \in 1..(k - 1)
        BY <3>2
      <4>2. PICK j \in DOMAIN done : done[j] = NodeChunk(nodes, m)
        BY <2>9, <4>1 DEF NodesCut
      <4>3. j \in DOMAIN after /\ after[j] = NodeChunk(nodes, m)
        BY <2>6, <4>2
      <4>4. QED
        BY <4>3
    <3>3. QED
      BY <3>1, <3>2
  <2>10. ASSUME NEW j \in DOMAIN done PROVE done[j] # c
    <3>1. PICK m \in 1..(k - 1) : nodes[m] = "long" /\ done[j] = NodeChunk(nodes, m)
      BY DEF NodesCut
    <3>2. Last(NodeChunk(nodes, m).units) = m
      BY <3>1, NodeChunkUnits
    <3>3. m # k
      OBVIOUS
    <3>4. QED
      BY <2>2, <3>1, <3>2, <3>3
  <2>11. ASSUME NEW i \in DOMAIN after, NEW j \in DOMAIN after, i # j PROVE after[i] # after[j]
    BY <2>6, <2>7, <2>10, <2>11 DEF NodesCut
  <2>12. QED
    BY <2>6, <2>8, <2>9, <2>11 DEF NodesCut, Chunks, after
<1>3. QED
  BY <1>1, <1>2

\* What NodeChunks makes of any nodes.
LEMMA NodesLocated ==
  ASSUME NEW n \in Nat, NEW nodes, nodes \in [1..n -> {"comment", "short", "long"}]
  PROVE  NodesCut(nodes, NodeChunks(nodes), n)
<1>1. DOMAIN nodes = 1..n /\ Len(nodes) = n
  OBVIOUS
<1>2. PICK g : /\ NodeChunks(nodes) = g[1..n] /\ g[{}] = <<>>
               /\ \A k \in 1..n : g[1..k] = NodeCut(nodes, g[1..(k - 1)], k)
  BY <1>1, NodeFold
<1> DEFINE S == {k \in Nat : NodesCut(nodes, g[1..k], k)}
<1>3. 0 \in S
  <2>1. 1..0 = {}
    OBVIOUS
  <2>2. NodesCut(nodes, <<>>, 0)
    BY DEF NodesCut
  <2>3. QED
    BY <1>2, <2>1, <2>2
<1>4. ASSUME NEW k \in 1..n, k - 1 \in S PROVE k \in S
  BY <1>1, <1>2, <1>4, NodesCutStep
<1> HIDE DEF S
<1>5. n \in S
  BY <1>3, <1>4, UpTo
<1>6. QED
  BY <1>2, <1>5 DEF S

\* What RegexChunks carries from line to line, and the chunks it would end with.
Lines == [line : Nat, units : Seq(Nat)]
Sofar == [done : Seq(Lines), start : Nat, body : Seq(Nat)]
Nothing == [done |-> <<>>, start |-> 1, body |-> <<>>]
RegexCut(text, sofar, n) ==
  IF text[n] = "split"
  THEN [done |-> IF sofar.body = <<>> THEN sofar.done
                 ELSE Append(sofar.done, Chunk(sofar.start, sofar.body)),
        start |-> n, body |-> <<n>>]
  ELSE [sofar EXCEPT !.body = IF @ = <<>> /\ text[n] = "blank" THEN @ ELSE Append(@, n)]
AllChunks(sofar) ==
  IF sofar.body = <<>> THEN sofar.done ELSE Append(sofar.done, Chunk(sofar.start, sofar.body))

\* The types of what has been cut.
LEMMA RegexCutType ==
  ASSUME NEW text, NEW sofar \in Sofar, NEW n \in Nat
  PROVE  RegexCut(text, sofar, n) \in Sofar
<1>1. sofar.done \in Seq(Lines) /\ sofar.start \in Nat /\ sofar.body \in Seq(Nat)
  BY DEF Sofar
<1>2. Append(sofar.body, n) \in Seq(Nat) /\ <<n>> \in Seq(Nat)
  BY <1>1, AppendProperties
<1>3. Chunk(sofar.start, sofar.body) \in Lines
  BY <1>1 DEF Chunk, Lines
<1>4. Append(sofar.done, Chunk(sofar.start, sofar.body)) \in Seq(Lines)
  BY <1>1, <1>3, AppendProperties
<1>5. CASE text[n] = "split"
  BY <1>1, <1>2, <1>4, <1>5 DEF RegexCut, Sofar
<1>6. CASE text[n] # "split"
  <2>1. RegexCut(text, sofar, n)
          = [done |-> sofar.done, start |-> sofar.start,
             body |-> IF sofar.body = <<>> /\ text[n] = "blank" THEN sofar.body ELSE Append(sofar.body, n)]
    BY <1>6 DEF RegexCut, Sofar
  <2>2. QED
    BY <1>1, <1>2, <2>1 DEF Sofar
<1>7. QED
  BY <1>5, <1>6

\* RegexChunks cuts at one line after another.
LEMMA RegexFold ==
  ASSUME NEW n \in Nat, NEW text, Len(text) = n
  PROVE  \E g : /\ RegexChunks(text) = AllChunks(g[1..n]) /\ g[{}] = Nothing
                /\ \A k \in 1..n : g[1..k] = RegexCut(text, g[1..(k - 1)], k)
<1> DEFINE F == [p \in Sofar \X (1..n) |-> RegexCut(text, p[1], p[2])]
           q == Units(1, n)
           step(g) == [s \in SUBSET DOMAIN q |->
                         IF s = {} THEN Nothing ELSE RegexCut(text, g[s \ {Max(s)}], q[Max(s)])]
           iter == CHOOSE g : g = step(g)
<1>1. Nothing \in Sofar
  BY DEF Nothing, Sofar
<1>2. F \in [Sofar \X (1..n) -> Sofar]
        /\ \A sofar \in Sofar, k \in 1..n : F[<<sofar, k>>] = RegexCut(text, sofar, k)
  BY RegexCutType
<1> HIDE DEF F
<1>3. PICK f \in [SUBSET (1..n) -> Sofar] : FoldsLeft(f, n, Nothing, F)
  BY <1>1, <1>2, LeftFold
<1>4. f = step(f)
  <2>1. ASSUME NEW s \in SUBSET (1..n), s # {}
        PROVE  f[s] = RegexCut(text, f[s \ {Max(s)}], q[Max(s)])
    <3>1. Max(s) \in 1..n /\ q[Max(s)] = Max(s) /\ s \ {Max(s)} \in SUBSET (1..n)
      BY <2>1, MaxOfSet, UnitsFromOne
    <3>2. f[s] = F[<<f[s \ {Max(s)}], Max(s)>>]
      BY <1>3, <2>1 DEF FoldsLeft
    <3>3. f[s \ {Max(s)}] \in Sofar
      BY <3>1
    <3>4. QED
      BY <1>2, <3>1, <3>2, <3>3
  <2>2. f[{}] = Nothing
    BY <1>3 DEF FoldsLeft
  <2>3. QED
    BY <1>3, <2>1, <2>2, UnitsFromOne
<1> HIDE DEF q
<1>5. iter = step(iter)
  BY <1>4
<1> HIDE DEF iter
<1>6. DOMAIN q = 1..n /\ \A k \in 1..n : q[k] = k
  BY UnitsFromOne DEF q
<1>7. iter[{}] = Nothing
  BY <1>5
<1>8. ASSUME NEW k \in 1..n PROVE iter[1..k] = RegexCut(text, iter[1..(k - 1)], k)
  <2>1. Max(1..k) = k /\ (1..k) \ {k} = 1..(k - 1)
    BY LastOfPrefix
  <2>2. PICK s : s = 1..k
    OBVIOUS
  <2>3. s \in SUBSET DOMAIN q /\ s # {}
    <3>1. 1..k \subseteq 1..n /\ k \in 1..k
      OBVIOUS
    <3>2. QED
      BY <1>6, <2>2, <3>1
  <2>4. iter[s] = step(iter)[s]
    BY <1>5, Zenon
  <2>5. iter[s] = RegexCut(text, iter[s \ {Max(s)}], q[Max(s)])
    BY <2>3, <2>4
  <2>6. QED
    BY <1>6, <2>1, <2>2, <2>5
<1>9. RegexChunks(text) = AllChunks(iter[1..n])
  <2>1. RegexChunks(text) = AllChunks(iter[DOMAIN q])
    BY DEF RegexChunks, AllChunks, Nothing, FoldLeft, MapThenFoldSet, iter, q, RegexCut
  <2>2. QED
    BY <1>6, <2>1
<1>10. QED
  BY <1>7, <1>8, <1>9

\* cs are the chunks of the first k lines.
LinesCut(text, cs, k) ==
  /\ cs \in Seq(Lines)
  /\ \A i \in DOMAIN cs : cs[i].units # <<>> /\ UnitsOf(cs[i]) \subseteq 1..k
  /\ \A i \in DOMAIN cs : \/ cs[i].line = Head(cs[i].units)
                          \/ i = 1 /\ cs[i].line = 1 /\ text[Head(cs[i].units)] = "plain"
  /\ \A i, j \in DOMAIN cs : i # j => UnitsOf(cs[i]) \cap UnitsOf(cs[j]) = {}
  /\ \A m \in 1..k : (\E j \in 1..m : text[j] # "blank") =>
       \E i \in DOMAIN cs : m \in UnitsOf(cs[i])

\* The lines of a chunk.
LEMMA LinesUnits ==
  ASSUME NEW l, NEW b \in Seq(Nat)
  PROVE  /\ UnitsOf(Chunk(l, b)) = {b[j] : j \in DOMAIN b}
         /\ Chunk(l, b).line = l /\ Chunk(l, b).units = b
BY DEF UnitsOf, Chunk

\* A chunk that starts at line k.
LEMMA LineAdded ==
  ASSUME NEW text, NEW k \in Nat \ {0}, NEW cs, LinesCut(text, cs, k - 1), NEW l \in Nat,
         l = k \/ (cs = <<>> /\ l = 1 /\ text[k] = "plain")
  PROVE  LinesCut(text, Append(cs, Chunk(l, <<k>>)), k)
<1> DEFINE c == Chunk(l, <<k>>)
           after == Append(cs, c)
<1>1. c.line = l /\ c.units = <<k>> /\ c \in Lines /\ c.units # <<>> /\ Head(c.units) = k
  BY DEF Chunk, Lines
<1> HIDE DEF c
<1>2. UnitsOf(c) = {k}
  <2>1. <<k>> \in Seq(Nat) /\ DOMAIN <<k>> = {1} /\ <<k>>[1] = k
    OBVIOUS
  <2>2. UnitsOf(c) = {<<k>>[j] : j \in DOMAIN <<k>>}
    BY <1>1 DEF UnitsOf
  <2>3. QED
    BY <2>1, <2>2, Zenon
<1>3. cs \in Seq(Lines)
  BY DEF LinesCut
<1>4. /\ after \in Seq(Lines) /\ Len(cs) \in Nat
      /\ DOMAIN cs = 1..Len(cs) /\ DOMAIN after = 1..(Len(cs) + 1)
      /\ \A j \in DOMAIN cs : after[j] = cs[j]
      /\ after[Len(cs) + 1] = c
  BY <1>1, <1>3, AppendProperties, LenProperties
<1> HIDE DEF after
<1>5. \A j \in DOMAIN after : (j \in DOMAIN cs /\ after[j] = cs[j]) \/ (j = Len(cs) + 1 /\ after[j] = c)
  BY <1>4
<1>6. cs = <<>> => Len(cs) + 1 = 1
  OBVIOUS
<1>7. ASSUME NEW i \in DOMAIN after
      PROVE  /\ after[i].units # <<>> /\ UnitsOf(after[i]) \subseteq 1..k
             /\ \/ after[i].line = Head(after[i].units)
                \/ i = 1 /\ after[i].line = 1 /\ text[Head(after[i].units)] = "plain"
  <2>1. CASE i \in DOMAIN cs /\ after[i] = cs[i]
    <3>1. UnitsOf(cs[i]) \subseteq 1..(k - 1)
      BY <2>1 DEF LinesCut
    <3>2. 1..(k - 1) \subseteq 1..k
      OBVIOUS
    <3>3. QED
      BY <2>1, <3>1, <3>2 DEF LinesCut
  <2>2. CASE i = Len(cs) + 1 /\ after[i] = c
    <3>1. UnitsOf(after[i]) = {k} /\ after[i].units # <<>> /\ Head(after[i].units) = k /\ after[i].line = l
      BY <1>1, <1>2, <2>2
    <3>2. l = k \/ (i = 1 /\ l = 1 /\ text[k] = "plain")
      BY <1>6, <2>2
    <3>3. {k} \subseteq 1..k
      OBVIOUS
    <3>4. QED
      BY <3>1, <3>2, <3>3
  <2>3. QED
    BY <1>5, <2>1, <2>2
<1>8. ASSUME NEW i \in DOMAIN cs PROVE UnitsOf(cs[i]) \cap UnitsOf(c) = {}
  <2>1. UnitsOf(cs[i]) \subseteq 1..(k - 1)
    BY DEF LinesCut
  <2>2. k \notin 1..(k - 1)
    OBVIOUS
  <2>3. QED
    BY <1>2, <2>1, <2>2
<1>9. ASSUME NEW i \in DOMAIN after, NEW j \in DOMAIN after, i # j
      PROVE  UnitsOf(after[i]) \cap UnitsOf(after[j]) = {}
  BY <1>5, <1>8, <1>9 DEF LinesCut
<1>10. ASSUME NEW m \in 1..k, \E j \in 1..m : text[j] # "blank"
       PROVE  \E i \in DOMAIN after : m \in UnitsOf(after[i])
  <2>1. CASE m = k
    <3>1. Len(cs) + 1 \in DOMAIN after /\ m \in UnitsOf(after[Len(cs) + 1])
      BY <1>2, <1>4, <2>1
    <3>2. QED
      BY <3>1
  <2>2. CASE m # k
    <3>1. m \in 1..(k - 1)
      BY <2>2
    <3>2. PICK i \in DOMAIN cs : m \in UnitsOf(cs[i])
      BY <1>10, <3>1 DEF LinesCut
    <3>3. i \in DOMAIN after /\ m \in UnitsOf(after[i])
      BY <1>4, <3>2
    <3>4. QED
      BY <3>3
  <2>3. QED
    BY <2>1, <2>2
<1>11. LinesCut(text, after, k)
  BY <1>4, <1>7, <1>9, <1>10 DEF LinesCut
<1>12. QED
  BY <1>11 DEF after, c

\* The last chunk goes on with line k.
LEMMA LineContinued ==
  ASSUME NEW text, NEW k \in Nat \ {0}, NEW done \in Seq(Lines), NEW l \in Nat,
         NEW b \in Seq(Nat), b # <<>>, LinesCut(text, Append(done, Chunk(l, b)), k - 1)
  PROVE  LinesCut(text, Append(done, Chunk(l, Append(b, k))), k)
<1> DEFINE c == Chunk(l, b)
           d == Chunk(l, Append(b, k))
           cs == Append(done, c)
           after == Append(done, d)
           last == Len(done) + 1
<1>1. Append(b, k) \in Seq(Nat) /\ Append(b, k) # <<>> /\ Head(Append(b, k)) = Head(b)
  BY AppendProperties, LenProperties
<1>2. c.line = l /\ c.units = b /\ c \in Lines /\ d.line = l /\ d.units = Append(b, k) /\ d \in Lines
  BY <1>1 DEF Chunk, Lines
<1>3. UnitsOf(d) = UnitsOf(c) \cup {k}
  <2>1. UnitsOf(c) = {b[j] : j \in DOMAIN b}
    BY LinesUnits
  <2>2. UnitsOf(d) = {Append(b, k)[j] : j \in DOMAIN Append(b, k)}
    BY <1>1, LinesUnits
  <2>3. /\ DOMAIN Append(b, k) = 1..(Len(b) + 1) /\ DOMAIN b = 1..Len(b) /\ Len(b) \in Nat
        /\ Append(b, k)[Len(b) + 1] = k
        /\ \A j \in DOMAIN b : Append(b, k)[j] = b[j]
    BY AppendProperties, LenProperties
  <2>4. \A j \in DOMAIN Append(b, k) : j \in DOMAIN b \/ j = Len(b) + 1
    BY <2>3
  <2> HIDE DEF c, d
  <2>5. UnitsOf(d) \subseteq UnitsOf(c) \cup {k}
    BY <2>1, <2>2, <2>3, <2>4
  <2>6. UnitsOf(c) \cup {k} \subseteq UnitsOf(d)
    <3>1. k \in UnitsOf(d)
      BY <2>2, <2>3
    <3>2. DOMAIN b \subseteq DOMAIN Append(b, k)
      BY <2>3
    <3>3. UnitsOf(c) \subseteq UnitsOf(d)
      BY <2>1, <2>2, <2>3, <3>2
    <3>4. QED
      BY <3>1, <3>3
  <2>7. QED
    BY <2>5, <2>6
<1> HIDE DEF c, d
<1>4. /\ after \in Seq(Lines) /\ cs \in Seq(Lines) /\ Len(done) \in Nat
      /\ DOMAIN done = 1..Len(done) /\ DOMAIN after = 1..last /\ DOMAIN cs = 1..last
      /\ \A j \in DOMAIN done : after[j] = done[j] /\ cs[j] = done[j]
      /\ after[last] = d /\ cs[last] = c
  BY <1>2, AppendProperties, LenProperties
<1>5. LinesCut(text, cs, k - 1)
  BY DEF c
<1> HIDE DEF after, cs
<1>6. \A j \in DOMAIN after : (j # last /\ after[j] = cs[j]) \/ (j = last /\ after[j] = d)
  BY <1>4
<1>7. DOMAIN after = DOMAIN cs /\ last \in DOMAIN cs
  BY <1>4
<1> HIDE DEF last
<1>8. 1..(k - 1) \subseteq 1..k /\ k \in 1..k /\ k \notin 1..(k - 1)
  OBVIOUS
<1>9. \A i \in DOMAIN cs : UnitsOf(cs[i]) \subseteq 1..(k - 1)
  BY <1>5 DEF LinesCut
<1>10. ASSUME NEW i \in DOMAIN after
       PROVE  /\ after[i].units # <<>> /\ UnitsOf(after[i]) \subseteq 1..k
              /\ \/ after[i].line = Head(after[i].units)
                 \/ i = 1 /\ after[i].line = 1 /\ text[Head(after[i].units)] = "plain"
  <2>1. CASE i # last /\ after[i] = cs[i]
    BY <1>5, <1>7, <1>8, <1>9, <2>1 DEF LinesCut
  <2>2. CASE i = last /\ after[i] = d
    <3>1. UnitsOf(d) \subseteq 1..k
      BY <1>3, <1>4, <1>7, <1>8, <1>9
    <3>2. c.line = Head(c.units) \/ (last = 1 /\ c.line = 1 /\ text[Head(c.units)] = "plain")
      BY <1>4, <1>5, <1>7 DEF LinesCut
    <3>3. QED
      BY <1>1, <1>2, <2>2, <3>1, <3>2
  <2>3. QED
    BY <1>6, <2>1, <2>2
<1>11. ASSUME NEW i \in DOMAIN after, i # last PROVE UnitsOf(after[i]) \cap UnitsOf(d) = {}
  <2>1. UnitsOf(cs[i]) \cap UnitsOf(c) = {}
    BY <1>4, <1>5, <1>7, <1>11 DEF LinesCut
  <2>2. k \notin UnitsOf(cs[i])
    BY <1>7, <1>8, <1>9
  <2>3. QED
    BY <1>3, <1>6, <1>11, <2>1, <2>2
<1>12. ASSUME NEW i \in DOMAIN after, NEW j \in DOMAIN after, i # j
       PROVE  UnitsOf(after[i]) \cap UnitsOf(after[j]) = {}
  BY <1>5, <1>6, <1>7, <1>11, <1>12 DEF LinesCut
<1>13. ASSUME NEW m \in 1..k, \E j \in 1..m : text[j] # "blank"
       PROVE  \E i \in DOMAIN after : m \in UnitsOf(after[i])
  <2>1. CASE m = k
    BY <1>3, <1>4, <1>7, <2>1
  <2>2. CASE m # k
    <3>1. m \in 1..(k - 1)
      BY <2>2
    <3>2. PICK i \in DOMAIN cs : m \in UnitsOf(cs[i])
      BY <1>5, <1>13, <3>1 DEF LinesCut
    <3>3. m \in UnitsOf(after[i])
      BY <1>3, <1>4, <1>6, <1>7, <3>2
    <3>4. QED
      BY <1>7, <3>2, <3>3
  <2>3. QED
    BY <2>1, <2>2
<1>14. LinesCut(text, after, k)
  BY <1>4, <1>10, <1>12, <1>13 DEF LinesCut
<1>15. QED
  BY <1>14 DEF after, d

\* What is so of the first k lines.
LinesSofar(text, sofar, k) ==
  /\ sofar \in Sofar
  /\ LinesCut(text, AllChunks(sofar), k)
  /\ sofar.body = <<>> => sofar.done = <<>> /\ sofar.start = 1 /\ \A m \in 1..k : text[m] = "blank"

\* One more line.
LEMMA LinesSofarStep ==
  ASSUME NEW n \in Nat, NEW text \in [1..n -> {"blank", "plain", "split"}], NEW k \in 1..n,
         NEW sofar, LinesSofar(text, sofar, k - 1)
  PROVE  LinesSofar(text, RegexCut(text, sofar, k), k)
<1> DEFINE after == RegexCut(text, sofar, k)
           b == sofar.body
<1>1. sofar \in Sofar /\ LinesCut(text, AllChunks(sofar), k - 1)
  BY DEF LinesSofar
<1>2. sofar.done \in Seq(Lines) /\ sofar.start \in Nat /\ b \in Seq(Nat)
  BY <1>1 DEF Sofar
<1>3. after \in Sofar
  BY <1>1, RegexCutType
<1>4. Append(b, k) # <<>>
  <2>1. k \in Nat
    OBVIOUS
  <2> HIDE DEF b
  <2>2. QED
    BY <1>2, <2>1, AppendProperties
<1>5. text[k] \in {"blank", "plain", "split"} /\ k \in Nat \ {0}
  OBVIOUS
<1>6. CASE text[k] = "split"
  <2>1. after = [done |-> AllChunks(sofar), start |-> k, body |-> <<k>>]
    BY <1>6 DEF RegexCut, AllChunks
  <2>2. after.body # <<>> /\ AllChunks(after) = Append(AllChunks(sofar), Chunk(k, <<k>>))
    BY <2>1 DEF AllChunks
  <2> HIDE DEF after
  <2>3. LinesCut(text, AllChunks(after), k)
    BY <1>1, <1>5, <2>2, LineAdded
  <2>4. QED
    BY <1>3, <2>2, <2>3 DEF LinesSofar, after
<1>7. CASE text[k] # "split" /\ ~ (b = <<>> /\ text[k] = "blank")
  <2>1. after = [done |-> sofar.done, start |-> sofar.start, body |-> Append(b, k)]
    BY <1>1, <1>7 DEF RegexCut, Sofar
  <2>2. after.body # <<>> /\ AllChunks(after) = Append(sofar.done, Chunk(sofar.start, Append(b, k)))
    BY <1>4, <2>1 DEF AllChunks
  <2> HIDE DEF after
  <2>3. CASE b # <<>>
    <3>1. AllChunks(sofar) = Append(sofar.done, Chunk(sofar.start, b))
      BY <2>3 DEF AllChunks
    <3>2. LinesCut(text, AllChunks(after), k)
      BY <1>1, <1>2, <1>5, <2>2, <2>3, <3>1, LineContinued
    <3>3. QED
      BY <1>3, <2>2, <3>2 DEF LinesSofar, after
  <2>4. CASE b = <<>>
    <3>1. AllChunks(sofar) = <<>> /\ sofar.done = <<>> /\ sofar.start = 1
      BY <2>4 DEF AllChunks, LinesSofar
    <3>2. Append(b, k) = <<k>>
      BY <2>4
    <3>3. text[k] = "plain"
      BY <1>5, <1>7, <2>4
    <3>4. AllChunks(after) = Append(AllChunks(sofar), Chunk(1, <<k>>))
      BY <2>2, <3>1, <3>2
    <3>5. LinesCut(text, AllChunks(after), k)
      BY <1>1, <1>5, <3>1, <3>3, <3>4, LineAdded
    <3>6. QED
      BY <1>3, <2>2, <3>5 DEF LinesSofar, after
  <2>5. QED
    BY <2>3, <2>4
<1>8. CASE text[k] # "split" /\ b = <<>> /\ text[k] = "blank"
  <2>1. after = sofar
    BY <1>1, <1>8 DEF RegexCut, Sofar
  <2>2. sofar.done = <<>> /\ sofar.start = 1 /\ \A m \in 1..k : text[m] = "blank"
    <3>1. sofar.done = <<>> /\ sofar.start = 1 /\ \A m \in 1..(k - 1) : text[m] = "blank"
      BY <1>8 DEF LinesSofar
    <3>2. QED
      BY <1>8, <3>1
  <2>3. AllChunks(sofar) = <<>>
    BY <1>8, <2>2 DEF AllChunks
  <2>4. LinesCut(text, <<>>, k)
    <3>1. ASSUME NEW m \in 1..k, NEW j \in 1..m PROVE text[j] = "blank"
      <4>1. j \in 1..k
        OBVIOUS
      <4>2. QED
        BY <2>2, <4>1
    <3>2. QED
      BY <3>1 DEF LinesCut
  <2>5. QED
    BY <1>1, <2>1, <2>2, <2>3, <2>4 DEF LinesSofar
<1>9. QED
  BY <1>6, <1>7, <1>8

\* What RegexChunks makes of any text.
LEMMA LinesLocated ==
  ASSUME NEW n \in Nat, NEW text \in [1..n -> {"blank", "plain", "split"}]
  PROVE  LinesCut(text, RegexChunks(text), n)
<1>1. Len(text) = n
  OBVIOUS
<1>2. PICK g : /\ RegexChunks(text) = AllChunks(g[1..n]) /\ g[{}] = Nothing
               /\ \A k \in 1..n : g[1..k] = RegexCut(text, g[1..(k - 1)], k)
  BY <1>1, RegexFold
<1> DEFINE S == {k \in Nat : LinesSofar(text, g[1..k], k)}
<1>3. 0 \in S
  <2>1. 1..0 = {}
    OBVIOUS
  <2>2. LinesSofar(text, Nothing, 0)
    <3>1. Nothing \in Sofar /\ AllChunks(Nothing) = <<>>
      BY DEF Nothing, Sofar, AllChunks
    <3>2. LinesCut(text, <<>>, 0)
      BY DEF LinesCut
    <3>3. QED
      BY <3>1, <3>2 DEF LinesSofar, Nothing
  <2>3. QED
    BY <1>2, <2>1, <2>2
<1>4. ASSUME NEW k \in 1..n, k - 1 \in S PROVE k \in S
  <2>1. LinesSofar(text, g[1..(k - 1)], k - 1)
    BY <1>4
  <2>2. LinesSofar(text, RegexCut(text, g[1..(k - 1)], k), k)
    BY <2>1, LinesSofarStep
  <2>3. QED
    BY <1>2, <2>2
<1> HIDE DEF S
<1>5. n \in S
  BY <1>3, <1>4, UpTo
<1>6. QED
  BY <1>2, <1>5 DEF S, LinesSofar

\* Division rounds up to the number of steps.
LEMMA StepsNeeded ==
  ASSUME NEW n \in Nat, NEW s \in Nat \ {0}
  PROVE  LET q == (n + s - 1) \div s IN
           /\ q \in Nat
           /\ \A k \in 1..q : (k - 1) * s < n
           /\ n <= q * s
<1> DEFINE a == n + s - 1
           q == a \div s
<1>1. a \in Nat
  OBVIOUS
<1> HIDE DEF a
<1>2. q \in Nat /\ q * s <= a /\ a < (q + 1) * s
  BY <1>1
<1> HIDE DEF q
<1>3. (q + 1) * s = q * s + s
  BY <1>2
<1>4. n <= q * s
  BY <1>2, <1>3 DEF a
<1>5. ASSUME NEW k \in 1..q PROVE (k - 1) * s < n
  <2>1. k * s <= q * s
    BY <1>2
  <2>2. (k - 1) * s = k * s - s
    OBVIOUS
  <2>3. QED
    BY <1>2, <2>1, <2>2 DEF a
<1>6. QED
  BY <1>2, <1>4, <1>5 DEF q, a

\* The window a character is in.
LEMMA WindowOf ==
  ASSUME NEW n \in Nat, NEW s \in Nat \ {0}, NEW m \in 1..n
  PROVE  \E k \in 1..((n + s - 1) \div s) : (k - 1) * s + 1 <= m /\ m <= (k - 1) * s + s
<1> DEFINE a == m - 1
           q == a \div s
           last == (n + s - 1) \div s
<1>1. a \in Nat
  OBVIOUS
<1> HIDE DEF a
<1>2. q \in Nat /\ q * s <= a /\ a < (q + 1) * s
  BY <1>1
<1>3. last \in Nat /\ n <= last * s
  BY StepsNeeded
<1> HIDE DEF q, last
<1>4. (q + 1) * s = q * s + s
  BY <1>2
<1>5. q + 1 \in 1..last
  <2>1. ASSUME last <= q PROVE FALSE
    <3>1. last * s <= q * s
      BY <1>2, <1>3, <2>1
    <3>2. last * s \in Nat /\ q * s \in Nat
      BY <1>2, <1>3
    <3>3. QED
      BY <1>2, <1>3, <3>1, <3>2 DEF a
  <2>2. QED
    BY <1>2, <1>3, <2>1
<1>6. ((q + 1) - 1) * s = q * s
  BY <1>2
<1>7. ((q + 1) - 1) * s + 1 <= m /\ m <= ((q + 1) - 1) * s + s
  BY <1>2, <1>4, <1>6 DEF a
<1>8. PICK k \in 1..last : k = q + 1
  BY <1>5
<1>9. (k - 1) * s + 1 <= m /\ m <= (k - 1) * s + s
  BY <1>7, <1>8
<1>10. QED
  BY <1>9 DEF last

\* A window ends at the end of the text at the latest.
LEMMA SmallerOfTwo ==
  ASSUME NEW a \in Nat, NEW b \in Nat
  PROVE  Min({a, b}) \in {a, b} /\ Min({a, b}) <= a /\ Min({a, b}) <= b
<1>1. \E x \in {a, b} : \A y \in {a, b} : x <= y
  OBVIOUS
<1>2. Min({a, b}) = CHOOSE x \in {a, b} : \A y \in {a, b} : x <= y
  BY DEF Min
<1>3. Min({a, b}) \in {a, b} /\ \A y \in {a, b} : Min({a, b}) <= y
  BY <1>1, <1>2
<1>4. QED
  BY <1>3

\* What WindowChunks makes of any text, window and overlap.
LEMMA WindowsLocated ==
  ASSUME NEW n \in Nat, NEW text, Len(text) = n
  PROVE  /\ \A m \in 1..n : \E k \in DOMAIN WindowChunks(text) : m \in UnitsOf(WindowChunks(text)[k])
         /\ \A k \in DOMAIN WindowChunks(text) :
              /\ WindowChunks(text)[k].units # <<>>
              /\ WindowChunks(text)[k].line = LineAt(text, Head(WindowChunks(text)[k].units))
         /\ \A j, k \in DOMAIN WindowChunks(text) : j < k =>
              Last(WindowChunks(text)[j].units) < Head(WindowChunks(text)[k].units) + overlap
<1> DEFINE s == window - overlap
           begin(k) == (k - 1) * s + 1
           end(k) == Min({begin(k) + window - 1, n})
           last == (n + s - 1) \div s
           cs == WindowChunks(text)
<1>1. cs = [k \in 1..last |-> Chunk(LineAt(text, begin(k)), Units(begin(k), end(k)))]
  BY DEF WindowChunks
<1>2. s \in Nat \ {0} /\ s <= window /\ window \in Nat /\ overlap \in Nat /\ window = s + overlap
  BY ChunkingAssumption
<1> HIDE DEF s
<1>3. last \in Nat /\ \A k \in 1..last : (k - 1) * s < n
  BY <1>2, StepsNeeded
<1>4. \A m \in 1..n : \E k \in 1..last : (k - 1) * s + 1 <= m /\ m <= (k - 1) * s + s
  BY <1>2, WindowOf
<1> HIDE DEF last, cs
<1>5. ASSUME NEW k \in 1..last
      PROVE  /\ begin(k) \in Nat \ {0} /\ end(k) \in Nat /\ begin(k) <= end(k)
             /\ end(k) <= begin(k) + window - 1
             /\ \A m \in 1..n : begin(k) <= m /\ m <= begin(k) + s - 1 => m <= end(k)
  <2>1. (k - 1) * s \in Nat
    BY <1>2, <1>3
  <2>2. (k - 1) * s < n
    BY <1>3
  <2>3. begin(k) \in Nat /\ begin(k) >= 1 /\ begin(k) <= n
    BY <2>1, <2>2
  <2> HIDE DEF begin
  <2>4. begin(k) + window - 1 \in Nat /\ begin(k) <= begin(k) + window - 1
    BY <1>2, <2>3
  <2>5. end(k) \in {begin(k) + window - 1, n} /\ end(k) <= begin(k) + window - 1
    BY <2>4, SmallerOfTwo
  <2> HIDE DEF end
  <2>6. QED
    BY <1>2, <2>3, <2>4, <2>5
<1>6. ASSUME NEW j \in 1..last, NEW k \in 1..last, j < k
      PROVE  end(j) < begin(k) + overlap
  <2>1. PICK i \in Nat : k - 1 = j + i
    <3>1. k - 1 - j \in Nat /\ k - 1 = j + (k - 1 - j)
      BY <1>3, <1>6
    <3> QED BY <3>1
  <2>2. j \in Nat /\ j = (j - 1) + 1 /\ j - 1 \in Nat
    BY <1>3
  <2>3. (j + i) * s = j * s + i * s /\ i * s \in Nat
    BY <1>2, <2>2
  <2>4. j * s = (j - 1) * s + s /\ (j - 1) * s \in Nat
    BY <1>2, <2>2
  <2>5. (k - 1) * s = (j - 1) * s + s + i * s
    BY <2>1, <2>3, <2>4
  <2>6. begin(j) = (j - 1) * s + 1 /\ begin(k) = (k - 1) * s + 1
    OBVIOUS
  <2>7. end(j) <= begin(j) + window - 1 /\ end(j) \in Nat
    BY <1>5
  <2> HIDE DEF begin, end
  <2>8. QED
    BY <1>2, <2>3, <2>4, <2>5, <2>6, <2>7
<1> HIDE DEF begin, end
<1>7. ASSUME NEW k \in 1..last
      PROVE  /\ k \in DOMAIN cs
             /\ cs[k].units # <<>> /\ Head(cs[k].units) = begin(k) /\ cs[k].line = LineAt(text, begin(k))
             /\ Last(cs[k].units) = end(k)
             /\ \A m \in begin(k)..end(k) : m \in UnitsOf(cs[k])
  <2> DEFINE u == Units(begin(k), end(k))
  <2>1. cs[k].units = u /\ cs[k].line = LineAt(text, begin(k)) /\ k \in DOMAIN cs
    BY <1>1 DEF Chunk
  <2>2. u = [j \in 1..(end(k) - begin(k) + 1) |-> begin(k) + j - 1]
    BY DEF Units
  <2>3. 1 \in 1..(end(k) - begin(k) + 1)
    BY <1>5
  <2>4. DOMAIN u = 1..(end(k) - begin(k) + 1) /\ u[1] = begin(k)
        /\ \A j \in 1..(end(k) - begin(k) + 1) : u[j] = begin(k) + j - 1
    BY <1>5, <2>2, <2>3
  <2>5. u \in Seq(Int) /\ u # <<>> /\ Head(u) = begin(k) /\ Last(u) = end(k)
    <3>1. end(k) - begin(k) + 1 \in Nat
      BY <1>5
    <3>2. u \in Seq(Int)
      BY <1>5, <2>2, <3>1
    <3> HIDE DEF u
    <3>3. u # <<>>
      <4>1. 1 \in DOMAIN u
        BY <2>3, <2>4
      <4>2. DOMAIN <<>> = 1..0
        OBVIOUS
      <4>3. 1 \notin 1..0
        OBVIOUS
      <4>4. QED
        BY <4>1, <4>2, <4>3, Zenon
    <3>4. Last(u) = end(k)
      <4>1. Len(u) = end(k) - begin(k) + 1
        BY <2>4, <3>1, <3>2, LenProperties
      <4>2. end(k) - begin(k) + 1 \in 1..(end(k) - begin(k) + 1)
            /\ begin(k) + (end(k) - begin(k) + 1) - 1 = end(k)
        BY <1>5
      <4>3. u[end(k) - begin(k) + 1] = begin(k) + (end(k) - begin(k) + 1) - 1
        BY <2>4, <4>2
      <4>4. QED
        BY <4>1, <4>2, <4>3 DEF Last
    <3>5. QED
      BY <2>4, <3>2, <3>3, <3>4, HeadTailProperties
  <2> HIDE DEF u
  <2>6. ASSUME NEW m \in begin(k)..end(k) PROVE m \in UnitsOf(cs[k])
    <3>1. m - begin(k) + 1 \in 1..(end(k) - begin(k) + 1) /\ begin(k) + (m - begin(k) + 1) - 1 = m
      BY <1>5
    <3>2. PICK j : j = m - begin(k) + 1
      OBVIOUS
    <3>3. j \in DOMAIN u /\ u[j] = m
      BY <2>4, <3>1, <3>2
    <3>4. QED
      BY <2>1, <3>3 DEF UnitsOf
  <2>7. QED
    BY <2>1, <2>5, <2>6
<1>8. DOMAIN cs = 1..last
  BY <1>1
<1>9. ASSUME NEW m \in 1..n PROVE \E k \in DOMAIN cs : m \in UnitsOf(cs[k])
  <2>1. PICK k \in 1..last : (k - 1) * s + 1 <= m /\ m <= (k - 1) * s + s
    BY <1>4
  <2>2. begin(k) <= m /\ m <= begin(k) + s - 1
    <3>1. (k - 1) * s \in Int
      BY <1>2, <1>3
    <3>2. QED
      BY <1>2, <2>1, <3>1 DEF begin
  <2>3. m <= end(k)
    BY <1>5, <2>2
  <2>4. m \in begin(k)..end(k)
    BY <1>5, <2>2, <2>3
  <2>5. QED
    BY <1>7, <2>4
<1>10. QED
  BY <1>7, <1>8, <1>9, <1>6 DEF cs

\* Whatever chunker a file gets.
LEMMA ChunksAreExact ==
  ASSUME CutFile
  PROVE  ChunksLocateText'
<1>1. CASE chunker' = "regex" /\ file' \in FilesOf({"blank", "plain", "split"}) /\ chunks' = RegexChunks(file')
  <2>1. PICK n \in Nat : file' \in [1..n -> {"blank", "plain", "split"}]
    BY <1>1, ChunkingAssumption DEF FilesOf
  <2>2. LinesCut(file', chunks', n) /\ DOMAIN file' = 1..n
    BY <1>1, <2>1, LinesLocated
  <2>3. Content' = {m \in 1..n : \E j \in 1..m : file'[j] # "blank"}
    BY <1>1, <2>2 DEF Content
  <2>4. \A m : LineOf(m)' = m
    BY <1>1 DEF LineOf
  <2>5. (Content \subseteq UNION {UnitsOf(chunks[k]) : k \in DOMAIN chunks})'
    BY <2>2, <2>3 DEF LinesCut
  <2>6. (\A j, k \in DOMAIN chunks : j < k => UnitsOf(chunks[j]) \cap UnitsOf(chunks[k]) = {})'
    BY <2>2 DEF LinesCut
  <2>7. \A k \in DOMAIN chunks' :
          /\ chunks'[k].units # <<>>
          /\ \/ chunks'[k].line = Head(chunks'[k].units)
             \/ k = 1 /\ chunks'[k].line = 1 /\ file'[Head(chunks'[k].units)] = "plain"
    BY <2>2 DEF LinesCut
  <2>8. QED
    BY <1>1, <2>4, <2>5, <2>6, <2>7 DEF ChunksLocateText, LineOf
<1>2. CASE chunker' = "window" /\ file' \in FilesOf({"newline", "other"}) /\ chunks' = WindowChunks(file')
  <2>1. PICK n \in Nat : file' \in [1..n -> {"newline", "other"}]
    BY <1>2, ChunkingAssumption DEF FilesOf
  <2>2. DOMAIN file' = 1..n /\ Len(file') = n
    BY <2>1
  <2>3. /\ \A m \in 1..n : \E k \in DOMAIN chunks' : m \in UnitsOf(chunks'[k])
        /\ \A k \in DOMAIN chunks' :
             /\ chunks'[k].units # <<>>
             /\ chunks'[k].line = LineAt(file', Head(chunks'[k].units))
        /\ \A j, k \in DOMAIN chunks' : j < k =>
             Last(chunks'[j].units) < Head(chunks'[k].units) + overlap
    BY <1>2, <2>2, WindowsLocated
  <2>4. Content' = 1..n
    BY <1>2, <2>2 DEF Content
  <2>5. (Content \subseteq UNION {UnitsOf(chunks[k]) : k \in DOMAIN chunks})'
    BY <2>3, <2>4
  <2>6. QED
    BY <1>2, <2>3, <2>5 DEF ChunksLocateText, LineOf
<1>3. CASE chunker' = "treesitter" /\ file' \in FilesOf({"comment", "short", "long"}) /\ chunks' = NodeChunks(file')
  <2>1. PICK n \in Nat : file' \in [1..n -> {"comment", "short", "long"}]
    BY <1>3, ChunkingAssumption DEF FilesOf
  <2>2. NodesCut(file', chunks', n) /\ DOMAIN file' = 1..n
    BY <1>3, <2>1, NodesLocated
  <2>3. \A m \in Content' : /\ m \in 1..n
                             /\ \/ file'[m] = "long"
                                \/ m < n /\ file'[m] = "comment" /\ file'[m + 1] = "long"
    <3>1. Len(file') = n
      BY <2>1
    <3>2. QED
      BY <1>3, <2>2, <3>1 DEF Content
  <2>4. (Content \subseteq UNION {UnitsOf(chunks[k]) : k \in DOMAIN chunks})'
    <3>1. ASSUME NEW m \in Content' PROVE \E k \in DOMAIN chunks' : m \in UnitsOf(chunks'[k])
      <4>1. \E x \in 1..n : file'[x] = "long" /\ m \in UnitsOf(NodeChunk(file', x))
        <5>1. CASE m \in 1..n /\ file'[m] = "long"
          BY <5>1, NodeChunkUnits
        <5>2. CASE m \in 1..n /\ m < n /\ file'[m] = "comment" /\ file'[m + 1] = "long"
          <6>1. m + 1 \in 1..n /\ m + 1 > 1 /\ (m + 1) - 1 = m
            BY <5>2
          <6>2. PICK x \in 1..n : x = m + 1
            BY <6>1
          <6>3. m \in UnitsOf(NodeChunk(file', x))
            BY <5>2, <6>1, <6>2, NodeChunkUnits
          <6>4. QED
            BY <5>2, <6>2, <6>3
        <5>3. QED
          BY <2>3, <5>1, <5>2
      <4>2. PICK x \in 1..n : file'[x] = "long" /\ m \in UnitsOf(NodeChunk(file', x))
        BY <4>1
      <4>3. PICK k \in DOMAIN chunks' : chunks'[k] = NodeChunk(file', x)
        BY <2>2, <4>2 DEF NodesCut
      <4>4. QED
        BY <4>2, <4>3
    <3>2. QED
      BY <3>1
  <2>5. ASSUME NEW j \in DOMAIN chunks', NEW k \in DOMAIN chunks', j < k
        PROVE  UnitsOf(chunks'[j]) \cap UnitsOf(chunks'[k]) = {}
    <3>1. PICK x \in 1..n : file'[x] = "long" /\ chunks'[j] = NodeChunk(file', x)
      BY <2>2 DEF NodesCut
    <3>2. PICK y \in 1..n : file'[y] = "long" /\ chunks'[k] = NodeChunk(file', y)
      BY <2>2 DEF NodesCut
    <3>3. j # k
      BY <2>2, <2>5 DEF NodesCut
    <3>4. x # y
      BY <2>2, <3>1, <3>2, <3>3 DEF NodesCut
    <3>5. QED
      BY <3>1, <3>2, <3>4, NodeChunkUnits
  <2>6. ASSUME NEW k \in DOMAIN chunks'
        PROVE  chunks'[k].units # <<>> /\ chunks'[k].line = LineOfNode(file', Last(chunks'[k].units))
    <3>1. PICK x \in 1..n : file'[x] = "long" /\ chunks'[k] = NodeChunk(file', x)
      BY <2>2 DEF NodesCut
    <3>2. QED
      BY <3>1, NodeChunkUnits
  <2>7. QED
    BY <1>3, <2>4, <2>5, <2>6 DEF ChunksLocateText, LineOf
<1>4. QED
  BY <1>1, <1>2, <1>3 DEF CutFile

\* It stays as it was cut.
LEMMA ChunkingInvariant == ChunkingSpec => []ChunksLocateText
<1>1. ChunkingInit => ChunksLocateText
  BY DEF ChunkingInit, ChunksLocateText
<1>2. ChunksLocateText /\ [CutFile]_chunkVars => ChunksLocateText'
  <2>1. ASSUME ChunksLocateText, UNCHANGED chunkVars PROVE ChunksLocateText'
    <3>1. file' = file /\ chunker' = chunker /\ chunks' = chunks
      BY <2>1 DEF chunkVars
    <3>2. Content' = Content
      BY <3>1 DEF Content
    <3>3. CASE chunker = "regex"
      BY <2>1, <3>1, <3>2, <3>3 DEF ChunksLocateText, LineOf
    <3>4. CASE chunker = "window"
      BY <2>1, <3>1, <3>2, <3>4 DEF ChunksLocateText, LineOf
    <3>5. CASE chunker # "regex" /\ chunker # "window"
      BY <2>1, <3>1, <3>2, <3>5 DEF ChunksLocateText, LineOf
    <3>6. QED
      BY <3>3, <3>4, <3>5
  <2>2. QED
    BY <2>1, ChunksAreExact
<1>3. QED
  BY <1>1, <1>2, PTL DEF ChunkingSpec

-----------------------------------------------------------------------------
(* Theorems.                                                               *)

\* Each part of GraphQueries behaves as it does alone.
LEMMA PartsAlone == Spec => CallTreeSpec /\ AffectedSpec /\ ExtractionSpec /\ ChunkingSpec
<1>1. Init => CallTreeInit /\ AffectedInit /\ ExtractionInit /\ ChunkingInit
  BY DEF Init
<1>2. [Next]_vars => [CallTreeNext]_callVars
  BY DEF Next, vars
<1>3. [Next]_vars => [AffectedNext]_affectedVars
  BY DEF Next, vars
<1>4. [Next]_vars => [ExtractionNext]_extractionVars
  BY DEF Next, vars
<1>5. [Next]_vars => [CutFile]_chunkVars
  BY DEF Next, vars
<1>6. QED
  BY <1>1, <1>2, <1>3, <1>4, <1>5, PTL DEF Spec, CallTreeSpec, AffectedSpec, ExtractionSpec, ChunkingSpec

\* For any import graph, any seeds and any depth: the breadth-first search of `affected`
\* answers with the files that lie within the depth of a seed with no hub between, and
\* with no seed.  What it leaves out when it ends early was nobody's within the depth.
THEOREM AffectedIsExact == AffectedSpec => []AffectedExact
<1>1. AffectedTypeOK /\ WithinUnfolds /\ SearchInv => AffectedExact
  BY AnswerIsExact DEF AffectedExact
<1>2. QED
  BY <1>1, SearchInvariant, PTL

\* For any tree: no call is an edge of two functions, each is one of a function it
\* stands in with no definition between.  None in the body of a function outside other
\* functions and classes is lost, unless a definition is between.  A function with an
\* edge has metrics, and together they count no more decisions than there are.
THEOREM CallsAttributedOnce == ExtractionSpec => []AttributedOnce
<1>1. ExtractionInit => ExtractionInv
  BY ExtractionInitInv
<1>2. ExtractionInv /\ [ExtractionNext]_extractionVars => ExtractionInv'
  BY ExtractionStep
<1>3. ExtractionInv => AttributedOnce
  BY AttributionIsExact
<1>4. QED
  BY <1>1, <1>2, <1>3, PTL DEF ExtractionSpec

\* For any file and any window and overlap.  Of a file cut at its splits every line from
\* the first that is not blank is in a chunk, of one cut into windows every character, of
\* one cut at its nodes each long one and the comment right above it.  No line and no node
\* is in two chunks, and a window shares at most overlap characters with an earlier one.  A chunk starts at the line it says, but for text above the first split.
THEOREM ChunksAreFound == ChunkingSpec => []ChunksLocateText
BY ChunkingInvariant

\* Of a client's questions and the indexer's extraction together.
THEOREM QueriesAreExact ==
  Spec => [](TreeHangsTogether /\ TreeComplete /\ AffectedExact /\ AttributedOnce /\ ChunksLocateText)
BY PartsAlone, ReportsHangTogether, ReportsAreComplete, AffectedIsExact, CallsAttributedOnce,
   ChunksAreFound, PTL
=============================================================================
