-------------------------- MODULE WriteQueue_proofs --------------------------
(***************************************************************************)
(* Safety of the write queue for any callers and any number of jobs.       *)
(***************************************************************************)
EXTENDS WriteQueue, SequenceTheorems, TLAPS

\* The worker exists from the owner's StartWorker on, and only then.
Born == worker = "unborn" <=> owner = "constructing"

TypeInv == TypeOK /\ Born

\* Facts about sequences, in the form the steps need.
LEMMA HeadConcatTail ==
  ASSUME NEW S, NEW s \in Seq(S), s # <<>>
  PROVE  <<Head(s)>> \o Tail(s) = s
<1>1. Head(s) \in S /\ Tail(s) \in Seq(S) /\ <<Head(s)>> \in Seq(S)
  BY HeadTailProperties
<1>2. QED
  BY <1>1, SMT

LEMMA ConsProperties ==
  ASSUME NEW S, NEW e \in S, NEW t \in Seq(S)
  PROVE  /\ Len(<<e>> \o t) = 1 + Len(t) /\ (<<e>> \o t)[1] = e
         /\ \A i \in 1 .. Len(t) : (<<e>> \o t)[i + 1] = t[i]
<1>1. <<e>> \in Seq(S) /\ Len(<<e>>) = 1 /\ <<e>>[1] = e /\ Len(t) \in Nat
  BY LenProperties
<1>2. QED
  BY <1>1, ConcatProperties

LEMMA EmptyIfLenZero ==
  ASSUME NEW S, NEW s \in Seq(S), Len(s) = 0
  PROVE  s = <<>>
BY EmptySeq

LEMMA SingletonIfLenOne ==
  ASSUME NEW S, NEW s \in Seq(S), Len(s) = 1
  PROVE  s[1] \in S /\ s = <<s[1]>>
<1>1. s[1] \in S /\ <<s[1]>> \in Seq(S)
  BY ElementOfSeq
<1>2. QED
  BY <1>1, SeqEqual

\* What every state holds: the types of queue_, stop_ and the threads' states.
LEMMA InitTypeInv == Init => TypeInv
<1> SUFFICES ASSUME Init PROVE TypeInv
  OBVIOUS
<1>1. misread \in BOOLEAN /\ stop \in BOOLEAN
  BY Zenon DEF Init
<1>2. QED
  BY <1>1 DEF Init, TypeInv, TypeOK, Born

LEMMA NextTypeInv == TypeInv /\ [Next]_vars => TypeInv'
<1> SUFFICES ASSUME TypeInv, [Next]_vars PROVE TypeInv'
  OBVIOUS
<1> USE QueueAssumption DEF TypeInv, TypeOK, Born, callers, history
<1>1. CASE Owner
  BY <1>1 DEF Owner, StartWorker, InitStop, Destroy, NotifyAll, Join, Wake
<1>2. ASSUME NEW c \in Callers, Caller(c) PROVE TypeInv'
  <2>1. CASE Push(c)
    <3>1. [by |-> c, n |-> Len(submitted)] \in Job
      BY DEF Job
    <3>2. queue' \in Seq(Job) /\ submitted' \in Seq(Job)
      BY <2>1, <3>1, AppendProperties DEF Push
    <3>3. QED
      BY <2>1, <3>2 DEF Push
  <2>2. CASE NotifyOne(c)
    BY <2>2 DEF NotifyOne, Wake
  <2>3. CASE Return(c)
    BY <2>3 DEF Return
  <2>4. QED
    BY <1>2, <2>1, <2>2, <2>3 DEF Caller
<1>3. CASE Worker
  <2>1. CASE Block \/ Exit \/ PopEmpty
    BY <2>1 DEF Block, Exit, PopEmpty
  <2>5. CASE Awake
    <3>1. misread' \in BOOLEAN
      BY <2>5, Zenon DEF Awake
    <3>2. QED
      BY <2>5, <3>1 DEF Awake
  <2>2. CASE Pop
    <3>1. Head(queue) \in Job /\ Tail(queue) \in Seq(Job)
      BY <2>2, HeadTailProperties DEF Pop
    <3>2. current' \in Seq(Job) /\ Len(current') = 1
      BY <2>2, <3>1 DEF Pop
    <3>3. QED
      BY <2>2, <3>1, <3>2 DEF Pop
  <2>3. CASE RunJob
    <3>1. current[1] \in Job
      BY <2>3, SingletonIfLenOne DEF RunJob
    <3>2. executed' \in Seq(Job)
      BY <2>3, <3>1, AppendProperties DEF RunJob
    <3>3. future' \in [Callers -> {"none", "value", "exception"}]
      BY <2>3, <3>1 DEF RunJob, Job, Callers
    <3>4. current' \in Seq(Job) /\ Len(current') = 0
      BY <2>3 DEF RunJob
    <3>5. QED
      BY <2>3, <3>2, <3>3, <3>4 DEF RunJob
  <2>4. QED
    BY <1>3, <2>1, <2>2, <2>3, <2>5 DEF Worker
<1>4. CASE SpuriousWakeup
  BY <1>4 DEF SpuriousWakeup
<1>5. CASE UNCHANGED vars
  BY <1>5 DEF vars
<1>6. QED
  BY <1>1, <1>2, <1>3, <1>4, <1>5 DEF Next

THEOREM TypeCorrect == Spec => []TypeOK
<1>1. TypeInv => TypeOK
  BY DEF TypeInv
<1>2. QED
  BY InitTypeInv, NextTypeInv, <1>1, PTL DEF Spec

-----------------------------------------------------------------------------
(* First in, first out.                                                    *)

LEMMA InitRunsInOrder == Init => RunsInOrder
BY ConcatEmptySeq, EmptySeq DEF Init, RunsInOrder, Outstanding

LEMMA NextRunsInOrder == TypeInv /\ RunsInOrder /\ [Next]_vars => RunsInOrder'
<1> SUFFICES ASSUME TypeInv, RunsInOrder, [Next]_vars PROVE RunsInOrder'
  OBVIOUS
<1>0. /\ queue \in Seq(Job) /\ current \in Seq(Job) /\ executed \in Seq(Job)
      /\ current \o queue \in Seq(Job)
  BY ConcatProperties DEF TypeInv, TypeOK
<1>1. CASE UNCHANGED <<queue, current, history>>
  BY <1>1 DEF history, RunsInOrder, Outstanding
<1>2. ASSUME NEW c \in Callers, Push(c) PROVE RunsInOrder'
  <2> DEFINE j == [by |-> c, n |-> Len(submitted)]
  <2>1. j \in Job
    BY DEF Job, TypeInv, TypeOK
  <2>2. /\ queue' = Append(queue, j) /\ submitted' = Append(submitted, j)
        /\ UNCHANGED <<current, executed>>
    BY <1>2 DEF Push
  <2> HIDE DEF j
  <2>3. Append(current \o queue, j) = current \o Append(queue, j)
    <3>1. current \in Seq(Job) /\ queue \in Seq(Job)
      BY <1>0
    <3>2. QED
      BY <2>1, <3>1
  <2>4. Append(executed \o Outstanding, j) = executed \o Append(Outstanding, j)
    <3>1. executed \in Seq(Job) /\ Outstanding \in Seq(Job)
      BY <1>0 DEF Outstanding
    <3>2. QED
      BY <2>1, <3>1
  <2>5. QED
    BY <2>2, <2>3, <2>4 DEF RunsInOrder, Outstanding
<1>3. CASE Pop
  <2>1. current = <<>>
    BY <1>3, <1>0, EmptyIfLenZero DEF Pop, TypeInv, TypeOK
  <2>2. current' \o queue' = queue
    BY <1>3, <1>0, HeadConcatTail DEF Pop
  <2>3. current \o queue = queue
    BY <2>1, <1>0, ConcatEmptySeq
  <2>4. QED
    BY <1>3, <2>2, <2>3 DEF Pop, history, RunsInOrder, Outstanding
<1>4. CASE RunJob
  <2>1. current = <<current[1]>> /\ current[1] \in Job
    BY <1>4, <1>0, SingletonIfLenOne DEF RunJob, TypeInv, TypeOK
  <2>2. executed' = Append(executed, current[1]) /\ current' = <<>>
        /\ UNCHANGED <<queue, submitted>>
    BY <1>4 DEF RunJob
  <2>3. executed' = executed \o current
    BY <2>1, <2>2, <1>0, AppendIsConcat
  <2>4. current' \o queue' = queue
    BY <2>2, <1>0, ConcatEmptySeq
  <2>5. (executed \o current) \o queue = executed \o (current \o queue)
    BY <1>0, ConcatAssociative
  <2>6. QED
    BY <2>2, <2>3, <2>4, <2>5 DEF RunsInOrder, Outstanding
<1>5. CASE Owner \/ Block \/ Awake \/ Exit \/ PopEmpty \/ SpuriousWakeup \/ UNCHANGED vars
  <2>1. UNCHANGED <<queue, current, history>>
    BY <1>5 DEF Owner, StartWorker, InitStop, Destroy, NotifyAll, Join,
                Block, Awake, Exit, PopEmpty, SpuriousWakeup, vars, history
  <2>2. QED
    BY <1>1, <2>1
<1>6. ASSUME NEW c \in Callers, NotifyOne(c) \/ Return(c) PROVE RunsInOrder'
  BY <1>1, <1>6 DEF NotifyOne, Return, history
<1>7. QED
  BY <1>2, <1>3, <1>4, <1>5, <1>6 DEF Next, Caller, Worker

\* Every job submitted is run once, in the order of submission.
THEOREM FirstInFirstOut == Spec => []RunsInOrder
<1>1. TypeInv /\ RunsInOrder /\ [Next]_vars => (TypeInv /\ RunsInOrder)'
  BY NextTypeInv, NextRunsInOrder
<1>2. QED
  BY InitTypeInv, InitRunsInOrder, <1>1, PTL DEF Spec

-----------------------------------------------------------------------------
(* No job writes to the promise of a caller that has left.                 *)

\* A waiter has one job outstanding at most; without it the answer to the
\* first would make the promise of the second look set.
OneJobEach ==
  \A i, k \in DOMAIN Outstanding :
    Outstanding[i].by = Outstanding[k].by /\ Outstanding[i].by \in Waiters => i = k

PromiseInv == TypeInv /\ PromiseAlive /\ OneJobEach

LEMMA InitPromise == Init => PromiseAlive /\ OneJobEach
<1> SUFFICES ASSUME Init PROVE PromiseAlive /\ OneJobEach
  OBVIOUS
<1>1. Outstanding = <<>>
  BY ConcatEmptySeq, EmptySeq DEF Init, Outstanding
<1>2. DOMAIN Outstanding = {}
  BY <1>1
<1>3. QED
  BY <1>2 DEF PromiseAlive, OneJobEach

LEMMA NextPromise == PromiseInv /\ [Next]_vars => (PromiseAlive /\ OneJobEach)'
<1> SUFFICES ASSUME PromiseInv, [Next]_vars PROVE (PromiseAlive /\ OneJobEach)'
  OBVIOUS
<1> DEFINE out == Outstanding
<1>0. /\ queue \in Seq(Job) /\ current \in Seq(Job) /\ out \in Seq(Job)
      /\ DOMAIN out = 1 .. Len(out) /\ Len(out) \in Nat
  BY ConcatProperties, LenProperties DEF PromiseInv, TypeInv, TypeOK, Outstanding
<1>1. ASSUME Outstanding' = out, UNCHANGED callers PROVE (PromiseAlive /\ OneJobEach)'
  BY <1>1 DEF PromiseInv, PromiseAlive, OneJobEach, callers
<1>2. ASSUME NEW c \in Callers, Push(c) PROVE (PromiseAlive /\ OneJobEach)'
  <2> DEFINE j == [by |-> c, n |-> Len(submitted)]
  <2>1. j \in Job /\ j.by = c
    BY DEF Job, PromiseInv, TypeInv, TypeOK
  <2>2. Outstanding' = Append(out, j)
    BY <1>0, <1>2, <2>1 DEF Push, Outstanding
  <2>3. /\ DOMAIN Outstanding' = 1 .. Len(out) + 1
        /\ \A i \in 1 .. Len(out) : Outstanding'[i] = out[i]
        /\ Outstanding'[Len(out) + 1] = j
    BY <1>0, <2>1, <2>2, AppendProperties, LenProperties
  <2>4. caller[c] = "idle"
    BY <1>2 DEF Push
  <2>5. \A i \in 1 .. Len(out) : out[i].by \in Waiters => out[i].by # c
    BY <1>0, <2>4 DEF PromiseInv, PromiseAlive
  <2>6. caller' = [caller EXCEPT ![c] = "notify"] /\ future' = [future EXCEPT ![c] = "none"]
    BY <1>2 DEF Push
  <2>7. caller \in [Callers -> {"idle", "notify", "wait"}]
        /\ future \in [Callers -> {"none", "value", "exception"}]
    BY DEF PromiseInv, TypeInv, TypeOK
  <2>8. PromiseAlive'
    BY <1>0, <2>1, <2>3, <2>5, <2>6, <2>7 DEF PromiseInv, PromiseAlive, Callers
  <2>9. OneJobEach'
    <3> SUFFICES ASSUME NEW i \in 1 .. Len(out) + 1, NEW k \in 1 .. Len(out) + 1,
                        Outstanding'[i].by = Outstanding'[k].by, Outstanding'[i].by \in Waiters
                 PROVE  i = k
      BY <2>3 DEF OneJobEach
    <3>1. CASE i \in 1 .. Len(out) /\ k \in 1 .. Len(out)
      BY <1>0, <2>3, <3>1 DEF PromiseInv, OneJobEach
    <3>2. CASE i = Len(out) + 1 /\ k \in 1 .. Len(out)
      BY <2>1, <2>3, <2>5, <3>2
    <3>3. CASE i \in 1 .. Len(out) /\ k = Len(out) + 1
      BY <2>1, <2>3, <2>5, <3>3
    <3>4. QED
      BY <1>0, <3>1, <3>2, <3>3
  <2>10. QED
    BY <2>8, <2>9
<1>3. ASSUME NEW c \in Callers, NotifyOne(c) PROVE (PromiseAlive /\ OneJobEach)'
  <2>1. Outstanding' = out /\ UNCHANGED future
    BY <1>3 DEF NotifyOne, Outstanding, history
  <2>2. \A w \in Waiters : caller'[w] = "idle" => caller[w] = "idle"
    BY <1>3 DEF NotifyOne, PromiseInv, TypeInv, TypeOK, Callers
  <2>3. QED
    BY <2>1, <2>2 DEF PromiseInv, PromiseAlive, OneJobEach
<1>4. ASSUME NEW c \in Callers, Return(c) PROVE (PromiseAlive /\ OneJobEach)'
  <2>1. Outstanding' = out /\ UNCHANGED future
    BY <1>4 DEF Return, Outstanding, history
  <2>2. \A w \in Callers \ {c} : caller'[w] = caller[w]
    BY <1>4 DEF Return, PromiseInv, TypeInv, TypeOK
  <2>3. future[c] # "none"
    BY <1>4 DEF Return
  <2>4. QED
    BY <2>1, <2>2, <2>3 DEF PromiseInv, PromiseAlive, OneJobEach, Callers
<1>5. CASE Pop
  <2>1. current = <<>>
    BY <1>5, <1>0, EmptyIfLenZero DEF Pop, PromiseInv, TypeInv, TypeOK
  <2>2. Outstanding' = queue
    BY <1>5, <1>0, HeadConcatTail DEF Pop, Outstanding
  <2>3. out = queue
    BY <2>1, <1>0, ConcatEmptySeq DEF Outstanding
  <2>4. QED
    BY <1>1, <1>5, <2>2, <2>3 DEF Pop
<1>6. CASE RunJob
  <2> DEFINE j == current[1]
  <2>1. current = <<j>> /\ j \in Job /\ Len(current) = 1
    BY <1>6, <1>0, SingletonIfLenOne DEF RunJob, PromiseInv, TypeInv, TypeOK
  <2>2. Outstanding' = queue
    BY <1>6, <1>0, ConcatEmptySeq DEF RunJob, Outstanding
  <2> HIDE DEF j
  <2>3. /\ Len(out) = 1 + Len(queue) /\ out[1] = j
        /\ \A i \in 1 .. Len(queue) : out[i + 1] = queue[i]
        /\ Len(queue) \in Nat /\ DOMAIN queue = 1 .. Len(queue)
    <3>1. out = <<j>> \o queue
      BY <2>1 DEF Outstanding
    <3>2. QED
      BY <1>0, <2>1, <3>1, ConsProperties, LenProperties
  <2>4. \A i \in 1 .. Len(queue) : queue[i].by \in Waiters => queue[i].by # j.by
    <3> SUFFICES ASSUME NEW i \in 1 .. Len(queue), queue[i].by \in Waiters, queue[i].by = j.by
                 PROVE FALSE
      OBVIOUS
    <3>1. 1 \in DOMAIN out /\ i + 1 \in DOMAIN out
      BY <1>0, <2>3
    <3>2. 1 = i + 1
      BY <2>3, <3>1 DEF PromiseInv, OneJobEach
    <3>3. QED
      BY <2>3, <3>2
  <2>5. UNCHANGED caller /\ \A w \in Callers \ {j.by} : future'[w] = future[w]
    BY <1>6 DEF RunJob, PromiseInv, TypeInv, TypeOK, j
  <2>6. \A i \in 1 .. Len(queue) : i + 1 \in DOMAIN out /\ out[i + 1] = queue[i]
    BY <1>0, <2>3
  <2>7. PromiseAlive'
    BY <2>2, <2>3, <2>4, <2>5, <2>6 DEF PromiseInv, PromiseAlive, Callers
  <2>8. OneJobEach'
    <3> SUFFICES ASSUME NEW i \in 1 .. Len(queue), NEW k \in 1 .. Len(queue),
                        queue[i].by = queue[k].by, queue[i].by \in Waiters
                 PROVE i = k
      BY <2>2, <2>3 DEF OneJobEach
    <3>1. i + 1 = k + 1
      BY <2>6 DEF PromiseInv, OneJobEach
    <3>2. QED
      BY <2>3, <3>1
  <2>9. QED
    BY <2>7, <2>8
<1>7. CASE Owner \/ Block \/ Awake \/ Exit \/ PopEmpty \/ SpuriousWakeup \/ UNCHANGED vars
  <2>1. Outstanding' = out /\ UNCHANGED callers
    BY <1>7 DEF Owner, StartWorker, InitStop, Destroy, NotifyAll, Join,
                Block, Awake, Exit, PopEmpty, SpuriousWakeup, vars, callers, Outstanding
  <2>2. QED
    BY <1>1, <2>1
<1>8. QED
  BY <1>2, <1>3, <1>4, <1>5, <1>6, <1>7 DEF Next, Caller, Worker

\* While a job of submit_wait exists its caller is inside the call, with its
\* promise not yet set.
THEOREM NoDanglingPromise == Spec => []PromiseAlive
<1>1. PromiseInv /\ [Next]_vars => PromiseInv'
  BY NextTypeInv, NextPromise DEF PromiseInv
<1>2. Init => PromiseInv
  BY InitTypeInv, InitPromise DEF PromiseInv
<1>3. PromiseInv => PromiseAlive
  BY DEF PromiseInv
<1>4. QED
  BY <1>1, <1>2, <1>3, PTL DEF Spec

-----------------------------------------------------------------------------
(* The destructor drains.                                                  *)

\* An initialized stop_ is true only once the owner destroys the queue, and then
\* nobody pushes.
Closed == owner \in {"stopping", "joining", "gone"}
DrainInv ==
  /\ TypeInv
  /\ stop => owner \in {"constructing", "half"} \/ Closed
  /\ ~misread =>
       /\ worker = "awake" => queue # <<>> \/ (stop /\ Closed)
       /\ worker = "exited" => queue = <<>> /\ Closed
       /\ worker # "undefined"

\* A worker that has not seen stop_ before its initialization exits only with an
\* empty queue, nothing is pushed after that, and it never takes the front of an
\* empty queue.
THEOREM DestructorDrains == Spec => []NothingStranded
<1>1. Init => DrainInv
  BY InitTypeInv DEF Init, DrainInv
<1>2. DrainInv /\ [Next]_vars => DrainInv'
  <2> SUFFICES ASSUME DrainInv, [Next]_vars PROVE DrainInv'
    OBVIOUS
  <2>1. TypeInv'
    BY NextTypeInv DEF DrainInv
  <2> USE QueueAssumption DEF DrainInv, Closed, callers, history
  <2>2. CASE Owner
    <3>1. CASE StartWorker \/ InitStop
      BY <2>1, <3>1 DEF StartWorker, InitStop, TypeInv, Born
    <3>2. CASE Destroy \/ Join
      BY <2>1, <3>2 DEF Destroy, Join, LockFree
    <3>3. CASE NotifyAll
      BY <2>1, <3>3 DEF NotifyAll, Wake
    <3>4. QED
      BY <2>2, <3>1, <3>2, <3>3 DEF Owner
  <2>3. ASSUME NEW c \in Callers, Caller(c) PROVE DrainInv'
    BY <2>1, <2>3 DEF Caller, Push, LockFree, NotifyOne, Return, Wake, TypeInv, TypeOK
  <2>4. CASE Worker
    <3>1. CASE Awake
      BY <2>1, <3>1 DEF Awake, TypeInv, Born
    <3>2. CASE Block \/ Exit \/ Pop \/ PopEmpty \/ RunJob
      BY <2>1, <3>2 DEF Block, Exit, Pop, PopEmpty, RunJob
    <3>3. QED
      BY <2>4, <3>1, <3>2 DEF Worker
  <2>5. CASE SpuriousWakeup \/ UNCHANGED vars
    BY <2>1, <2>5 DEF SpuriousWakeup, vars
  <2>6. QED
    BY <2>2, <2>3, <2>4, <2>5 DEF Next
<1>3. DrainInv => NothingStranded
  BY DEF DrainInv, NothingStranded
<1>4. QED
  BY <1>1, <1>2, <1>3, PTL DEF Spec
=============================================================================
