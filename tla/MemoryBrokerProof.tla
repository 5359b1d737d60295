-------------------------- MODULE MemoryBrokerProof ---------------------------
(***************************************************************************)
(* Theorems about MemoryBroker, for any members, events, deadlines, delays *)
(* and bounds, and its refinement of BrokerContract.                       *)
(***************************************************************************)
EXTENDS MemoryBroker, FiniteSetTheorems, SequenceTheorems, WellFoundedInduction, TLAPS

USE MemberAssumption, EventAssumption, TimeAssumption, DeliverAssumption, BoundAssumption

-----------------------------------------------------------------------------
(* The inductive invariant.                                                *)

Retries == [seq : Seqs, left : 0..RetryDelay]
Deliveries == [seq : Seqs, by : Members, left : 0..AckWait]

\* A queue of retries is sorted by due time, and has an event once.
Queue(q) ==
    /\ q \in Seq(Retries)
    /\ \A i, j \in 1..Len(q) : i <= j => q[i].left <= q[j].left
    /\ \A i, j \in 1..Len(q) : q[i].seq = q[j].seq => i = j

TypeOK ==
    /\ log \in Seq(Events) /\ Len(log) <= MaxLog
    /\ age \in [Events -> 0..Window]
    /\ created \in BOOLEAN
    /\ start \in Nat /\ cursor \in Nat /\ start <= cursor /\ cursor <= Len(log)
    /\ pending \subseteq Deliveries
    /\ Queue(retries)
    /\ counts \in [Seqs -> 0..CountCap] /\ taken \in [Seqs -> 0..CountCap]
    /\ pc \in [Members -> {"new", "idle", "handling", "waiting", "ended"}]
    /\ job \in [Members -> {0} \cup Seqs]
    /\ stopped \in [Members -> BOOLEAN]
    /\ timer \in [Members -> 0..Never]
    /\ done \subseteq Seqs /\ dropped \subseteq Seqs

Flies(s, P) == \E d \in P : d.seq = s
Waits(s, R) == \E e \in R : e.seq = s
DueIn(s, R) == \E e \in R : e.seq = s /\ e.left = 0

\* The retries N are the retries R and the events Z, put back to be due in left.
Added(R, Z, left, N) ==
    /\ R \subseteq N
    /\ \A e \in N : e \in R \/ (e.seq \in Z /\ e.left = left)
    /\ \A z \in Z : \E e \in N : e.seq = z /\ e.left = left

SpentIn(C, s) == MaxDeliver > 0 /\ C[s] >= MaxDeliver
Took == {s \in Seqs : start < s /\ s <= cursor /\ Matches(s)}

\* An event that the consumer took is in one place: in flight, among the
\* retries, settled or dropped. Its count is of all its deliveries until it is
\* settled or dropped, and one that is owed again has some left. It is said of
\* deliveries P, retries R, counts C, deliveries made T, settled D, dropped X, taken W.
Sound(s, P, R, C, T, D, X, W) ==
    /\ s \in W <=> Flies(s, P) \/ Waits(s, R) \/ s \in D \/ s \in X
    /\ ~(Flies(s, P) /\ Waits(s, R))
    /\ s \in D \/ s \in X => ~Flies(s, P) /\ ~Waits(s, R)
    /\ ~(s \in D /\ s \in X)
    /\ s \notin D /\ s \notin X => C[s] = T[s]
    /\ s \notin W => C[s] = 0
    /\ Waits(s, R) => ~SpentIn(C, s)
    /\ MaxDeliver > 0 => T[s] <= MaxDeliver

\* An event is in flight once.
Once(P) == \A d, e \in P : d.seq = e.seq => d = e

\* A delivery in flight is handled by its member.
Attended ==
    /\ \A m \in Members : job[m] # 0 <=> pc[m] = "handling"
    /\ \A d \in pending : job[d.by] = d.seq
    /\ \A m \in Members : pc[m] # "new" => created
    /\ ~created => cursor = 0

IInv ==
    /\ TypeOK /\ Attended /\ Once(pending)
    /\ \A s \in Seqs : Sound(s, pending, Range(retries), counts, taken, done, dropped, Took)

-----------------------------------------------------------------------------
(* Lemmas about the queue of retries.                                      *)

\* A set of numbers that is not empty has a smallest one.
LEMMA Smallest ==
    ASSUME NEW S, S \subseteq Nat, S # {}
    PROVE  \E i \in S : \A j \in S : i <= j
<1>1. PICK i \in S : \A j \in S : ~(<<j, i>> \in OpToRel(<, Nat))
  BY NatLessThanWellFounded, WFMin
<1>2. \A j \in S : ~(j < i)
  BY <1>1 DEF OpToRel
<1> QED
  BY <1>2

\* What a queue holds.
LEMMA QueueIs ==
    ASSUME NEW q, Queue(q)
    PROVE  /\ q \in Seq(Retries) /\ Len(q) \in Nat /\ DOMAIN q = 1..Len(q)
           /\ \A i \in 1..Len(q) : q[i] \in Retries /\ q[i].seq \in Seqs
                /\ q[i].left \in 0..RetryDelay /\ q[i].left \in Nat
<1>1. q \in Seq(Retries)
  BY DEF Queue
<1>2. Len(q) \in Nat /\ DOMAIN q = 1..Len(q) /\ \A i \in 1..Len(q) : q[i] \in Retries
  BY <1>1
<1>3. \A e \in Retries : e.seq \in Seqs /\ e.left \in 0..RetryDelay /\ e.left \in Nat
  BY DEF Retries
<1> QED
  BY <1>1, <1>2, <1>3

\* What is due no later than some time is the front of the queue.
LEMMA DueByIs ==
    ASSUME NEW q, Queue(q), NEW left \in Nat
    PROVE  /\ DueBy(q, left) \in 0..Len(q)
           /\ \A i \in 1..Len(q) : q[i].left <= left <=> i <= DueBy(q, left)
<1> DEFINE S == {i \in 1..(Len(q) + 1) : i = Len(q) + 1 \/ ~(q[i].left <= left)}
           D == {0} \cup {i \in DOMAIN q : q[i].left <= left}
<1>1. Len(q) \in Nat /\ DOMAIN q = 1..Len(q) /\ \A i \in 1..Len(q) : q[i].left \in Nat
  BY QueueIs
<1>2. S \subseteq Nat /\ Len(q) + 1 \in S
  BY <1>1
<1>3. PICK k \in S : \A j \in S : k <= j
  BY <1>2, Smallest
<1>4. k \in 1..(Len(q) + 1) /\ \A i \in 1..(k - 1) : q[i].left <= left
  BY <1>1, <1>3
<1>5. \A i \in 1..Len(q) : i >= k => ~(q[i].left <= left)
  <2> SUFFICES ASSUME NEW i \in 1..Len(q), i >= k PROVE ~(q[i].left <= left)
    OBVIOUS
  <2>1. k \in 1..Len(q) /\ ~(q[k].left <= left)
    BY <1>1, <1>3
  <2>2. q[k].left <= q[i].left
    BY <2>1 DEF Queue
  <2> QED
    BY <1>1, <2>1, <2>2
<1>6. k - 1 \in D /\ \A j \in D : k - 1 >= j
  BY <1>1, <1>4, <1>5
<1>7. \A x \in D : (\A j \in D : x >= j) => x = k - 1
  BY <1>1, <1>6
<1>8. DueBy(q, left) = k - 1
  BY <1>6, <1>7 DEF DueBy, Max
<1> QED
  BY <1>1, <1>4, <1>5, <1>8

\* Retries due together, of events that the queue has not, are inserted whole.
LEMMA InsertIs ==
    ASSUME NEW q, Queue(q), NEW left \in 0..RetryDelay, NEW seqs, NEW k \in Nat,
           seqs \in [1..k -> Seqs],
           \A i, j \in 1..k : seqs[i] = seqs[j] => i = j,
           \A i \in 1..k, j \in 1..Len(q) : q[j].seq # seqs[i]
    PROVE  /\ Queue(Insert(q, seqs, left))
           /\ Range(Insert(q, seqs, left)) =
                Range(q) \cup {[seq |-> seqs[i], left |-> left] : i \in 1..k}
<1> DEFINE n == DueBy(q, left)
           l == Len(q)
           r == Insert(q, seqs, left)
<1>1. n \in 0..l /\ \A i \in 1..l : q[i].left <= left <=> i <= n
  <2>1. left \in Nat
    OBVIOUS
  <2> QED
    BY <2>1, DueByIs
<1>2. /\ q \in Seq(Retries) /\ l \in Nat /\ DOMAIN q = 1..l
      /\ \A i \in 1..l : q[i] \in Retries /\ q[i].left \in Nat
  BY QueueIs
<1>3. /\ \A i, j \in 1..l : i <= j => q[i].left <= q[j].left
      /\ \A i, j \in 1..l : q[i].seq = q[j].seq => i = j
  BY DEF Queue
<1>4. k = Len(seqs) /\ left \in Nat
  OBVIOUS
<1>5. r = [i \in 1..(l + k) |->
            IF i <= n THEN q[i]
            ELSE IF i <= n + k THEN [seq |-> seqs[i - n], left |-> left]
            ELSE q[i - k]]
  BY <1>4 DEF Insert
<1> HIDE DEF n, l, r
<1>6. \A i \in 1..(l + k) : /\ i <= n => i \in 1..l
                            /\ ~(i <= n) /\ i <= n + k => i - n \in 1..k
                            /\ ~(i <= n + k) => i - k \in 1..l /\ ~(i - k <= n)
  BY <1>1, <1>2
<1>7. \A i \in 1..k : [seq |-> seqs[i], left |-> left] \in Retries
  BY DEF Retries
<1>8. r \in [1..(l + k) -> Retries]
  BY <1>2, <1>5, <1>6, <1>7
<1>9. r \in Seq(Retries) /\ Len(r) = l + k
  BY <1>2, <1>8
\* A place holds a retry from before, or from behind, or a new one.
<1>10. \A i \in 1..(l + k) :
         /\ i <= n => r[i] = q[i] /\ q[i].left <= left
         /\ ~(i <= n) /\ i <= n + k => r[i].seq = seqs[i - n] /\ r[i].left = left
         /\ ~(i <= n + k) => r[i] = q[i - k] /\ ~(q[i - k].left <= left)
  BY <1>1, <1>5, <1>6
<1>11. ASSUME NEW i \in 1..(l + k), NEW j \in 1..(l + k), i <= j PROVE r[i].left <= r[j].left
  <2>1. CASE j <= n
    BY <1>1, <1>2, <1>3, <1>6, <1>10, <1>11, <2>1
  <2>2. CASE i <= n /\ ~(j <= n)
    <3>1. i \in 1..l /\ r[i].left = q[i].left /\ r[i].left <= left /\ r[i].left \in Nat
      BY <1>2, <1>6, <1>10, <2>2
    <3>2. CASE j <= n + k
      BY <1>10, <2>2, <3>1, <3>2
    <3>3. CASE ~(j <= n + k)
      <4>1. j - k \in 1..l /\ r[j].left = q[j - k].left /\ ~(r[j].left <= left)
        BY <1>6, <1>10, <3>3
      <4> QED
        BY <1>2, <1>4, <3>1, <4>1
    <3> QED
      BY <3>2, <3>3
  <2>3. CASE ~(i <= n) /\ i <= n + k
    BY <1>1, <1>2, <1>4, <1>6, <1>10, <1>11, <2>3
  <2>4. CASE ~(i <= n) /\ ~(i <= n + k)
    <3>1. ~(j <= n + k) /\ i - k <= j - k
      BY <1>1, <1>2, <1>11, <2>4
    <3> QED
      BY <1>3, <1>6, <1>10, <2>4, <3>1
  <2> QED
    BY <1>1, <1>2, <1>11, <2>1, <2>2, <2>3, <2>4
<1>12. ASSUME NEW i \in 1..(l + k), NEW j \in 1..(l + k), r[i].seq = r[j].seq PROVE i = j
  <2>1. CASE i <= n /\ j <= n
    BY <1>3, <1>6, <1>10, <1>12, <2>1
  <2>2. CASE i <= n /\ ~(j <= n + k)
    BY <1>1, <1>3, <1>6, <1>10, <1>12, <2>2
  <2>3. CASE j <= n /\ ~(i <= n + k)
    BY <1>1, <1>3, <1>6, <1>10, <1>12, <2>3
  <2>4. CASE ~(i <= n + k) /\ ~(j <= n + k)
    <3>1. i - k = j - k
      BY <1>3, <1>6, <1>10, <1>12, <2>4
    <3> QED
      BY <1>2, <3>1
  <2>5. CASE ~(i <= n) /\ i <= n + k /\ ~(j <= n) /\ j <= n + k
    <3>1. i - n = j - n
      BY <1>6, <1>10, <1>12, <2>5
    <3> QED
      BY <1>1, <1>2, <3>1
  <2>6. CASE ~(i <= n) /\ i <= n + k /\ ~(~(j <= n) /\ j <= n + k)
    BY <1>6, <1>10, <1>12, <2>6 DEF l
  <2>7. CASE ~(j <= n) /\ j <= n + k /\ ~(~(i <= n) /\ i <= n + k)
    BY <1>6, <1>10, <1>12, <2>7 DEF l
  <2> QED
    BY <1>1, <1>2, <2>1, <2>2, <2>3, <2>4, <2>5, <2>6, <2>7
<1>13. Range(r) = Range(q) \cup {[seq |-> seqs[i], left |-> left] : i \in 1..k}
  <2>1. ASSUME NEW i \in 1..(l + k)
        PROVE  r[i] \in Range(q) \cup {[seq |-> seqs[j], left |-> left] : j \in 1..k}
    BY <1>2, <1>5, <1>6 DEF Range
  <2>2. ASSUME NEW i \in 1..k PROVE [seq |-> seqs[i], left |-> left] \in Range(r)
    <3>1. n + i \in 1..(l + k) /\ ~(n + i <= n) /\ n + i <= n + k /\ (n + i) - n = i
      BY <1>1, <1>2
    <3>2. r[n + i] = [seq |-> seqs[i], left |-> left]
      BY <1>5, <3>1
    <3> QED
      BY <1>8, <3>1, <3>2 DEF Range
  <2>3. ASSUME NEW i \in 1..l PROVE q[i] \in Range(r)
    <3>1. CASE i <= n
      BY <1>1, <1>2, <1>5, <1>8, <3>1 DEF Range
    <3>2. CASE ~(i <= n)
      <4>1. k + i \in 1..(l + k) /\ ~(k + i <= n) /\ ~(k + i <= n + k) /\ (k + i) - k = i
        BY <1>1, <1>2, <3>2
      <4>2. r[k + i] = q[i]
        BY <1>5, <4>1
      <4> QED
        BY <1>8, <4>1, <4>2 DEF Range
    <3> QED
      BY <3>1, <3>2
  <2> QED
    BY <1>2, <1>8, <2>1, <2>2, <2>3 DEF Range
<1>14. Queue(r)
  BY <1>9, <1>11, <1>12 DEF Queue
<1> QED
  BY <1>13, <1>14 DEF r

\* The queue without its first retry.
LEMMA TailIs ==
    ASSUME NEW q, Queue(q), q # <<>>
    PROVE  /\ Head(q) \in Range(q) /\ Queue(Tail(q))
           /\ Range(Tail(q)) = {e \in Range(q) : e.seq # Head(q).seq}
<1>1. /\ q \in Seq(Retries) /\ Len(q) \in Nat /\ DOMAIN q = 1..Len(q) /\ Len(q) > 0
  BY QueueIs, EmptySeq
<1>2. /\ \A i, j \in 1..Len(q) : i <= j => q[i].left <= q[j].left
      /\ \A i, j \in 1..Len(q) : q[i].seq = q[j].seq => i = j
  BY DEF Queue
<1>3. PICK t \in Seq(Retries) : t = Tail(q)
  BY <1>1, HeadTailProperties
<1>4. Len(t) = Len(q) - 1 /\ Len(t) \in Nat /\ DOMAIN t = 1..Len(t) /\ Head(q) = q[1]
      /\ \A i \in 1..Len(t) : t[i] = q[i + 1]
  BY <1>1, <1>3, HeadTailProperties
<1>5. \A i \in 1..Len(t) : i + 1 \in 1..Len(q) /\ i + 1 # 1
  BY <1>1, <1>4
<1>6. \A i \in 1..Len(q) : i = 1 \/ (i - 1 \in 1..Len(t) /\ (i - 1) + 1 = i)
  BY <1>1, <1>4
<1>7. 1 \in 1..Len(q)
  BY <1>1
<1>8. Queue(t)
  <2>1. ASSUME NEW i \in 1..Len(t), NEW j \in 1..Len(t), i <= j PROVE t[i].left <= t[j].left
    BY <1>2, <1>4, <1>5, <2>1
  <2>2. ASSUME NEW i \in 1..Len(t), NEW j \in 1..Len(t), t[i].seq = t[j].seq PROVE i = j
    <3>1. i + 1 = j + 1
      BY <1>2, <1>4, <1>5, <2>2
    <3> QED
      BY <1>4, <3>1
  <2> QED
    BY <2>1, <2>2 DEF Queue
<1>9. Range(t) = {e \in Range(q) : e.seq # Head(q).seq}
  <2>1. ASSUME NEW i \in 1..Len(t) PROVE t[i] \in Range(q) /\ t[i].seq # Head(q).seq
    BY <1>1, <1>2, <1>4, <1>5, <1>7 DEF Range
  <2>2. ASSUME NEW i \in 1..Len(q), q[i].seq # Head(q).seq PROVE q[i] \in Range(t)
    <3>1. i # 1
      BY <1>4, <2>2
    <3>2. i - 1 \in 1..Len(t) /\ t[i - 1] = q[i]
      BY <1>4, <1>6, <3>1
    <3> QED
      BY <1>4, <3>2 DEF Range
  <2> QED
    BY <1>1, <1>4, <2>1, <2>2 DEF Range
<1> QED
  BY <1>1, <1>3, <1>4, <1>7, <1>8, <1>9 DEF Range

\* When its first retry is not due, none is.
LEMMA NotDue ==
    ASSUME NEW q, Queue(q)
    PROVE  Due(q) <=> \E e \in Range(q) : e.left = 0
<1>1. q \in Seq(Retries) /\ Len(q) \in Nat /\ DOMAIN q = 1..Len(q) /\ \A i \in 1..Len(q) : q[i].left \in Nat
  BY QueueIs
<1>2. q # <<>> => Head(q) = q[1] /\ 1 \in 1..Len(q)
  BY <1>1, EmptySeq
<1>3. \A i \in 1..Len(q) : 1 \in 1..Len(q) /\ q[1].left <= q[i].left
  <2>1. \A i \in 1..Len(q) : 1 \in 1..Len(q) /\ 1 <= i
    BY <1>1
  <2> QED
    BY <2>1 DEF Queue
<1>4. ASSUME Due(q) PROVE \E e \in Range(q) : e.left = 0
  BY <1>1, <1>2, <1>4 DEF Due, Range
<1>5. ASSUME NEW i \in 1..Len(q), q[i].left = 0 PROVE Due(q)
  <2>1. q[1].left <= 0 /\ q[1].left \in Nat
    BY <1>1, <1>3, <1>5
  <2>2. q # <<>>
    BY <1>1, <1>5, EmptySeq
  <2> QED
    BY <1>2, <2>1, <2>2 DEF Due
<1> QED
  BY <1>1, <1>4, <1>5 DEF Range

\* Who waits once the events Z are among the retries.
LEMMA AddedIs ==
    ASSUME NEW R, NEW Z, NEW left, NEW s, NEW N, Added(R, Z, left, N)
    PROVE  /\ Waits(s, N) <=> Waits(s, R) \/ s \in Z
           /\ DueIn(s, N) <=> DueIn(s, R) \/ (s \in Z /\ left = 0)
<1>1. Waits(s, N) <=> Waits(s, R) \/ s \in Z
  BY DEF Added, Waits
<1>2. DueIn(s, N) <=> DueIn(s, R) \/ (s \in Z /\ left = 0)
  BY DEF Added, DueIn
<1> QED
  BY <1>1, <1>2

-----------------------------------------------------------------------------
(* What a sweep does.                                                      *)

\* What expired are events in flight.
LEMMA RequeuedIs ==
    ASSUME TypeOK
    PROVE  Requeued \subseteq Seqs /\ IsFiniteSet(Requeued) /\ \A s \in Requeued : Flies(s, pending) /\ ~Spent(s)
<1>1. Requeued \subseteq Seqs /\ \A s \in Requeued : Flies(s, pending) /\ ~Spent(s)
  BY DEF Requeued, SeqsOf, Expired, Flies, TypeOK, Deliveries
<1>2. IsFiniteSet(Seqs)
  BY FS_Interval DEF Seqs
<1> QED
  BY <1>1, <1>2, FS_Subset

\* What is swept is queued, due, in some order; nothing else changes place.
LEMMA SweptIs ==
    ASSUME IInv, NEW q \in Swept
    PROVE  /\ Queue(q)
           /\ Range(q) = Range(retries) \cup {[seq |-> s, left |-> 0] : s \in Requeued}
           /\ Requeued # {} => Due(q)
<1>1. Requeued \subseteq Seqs /\ IsFiniteSet(Requeued) /\ \A s \in Requeued : Flies(s, pending)
  BY RequeuedIs DEF IInv
<1> DEFINE k == Cardinality(Requeued)
<1>2. k \in Nat
  BY <1>1, FS_CardinalityType
<1>3. PICK order \in Bijection(1..k, Requeued) : q = Insert(retries, order, 0)
  BY DEF Swept
<1> HIDE DEF k
<1>4. /\ order \in [1..k -> Requeued]
      /\ \A i, j \in 1..k : order[i] = order[j] => i = j
      /\ \A s \in Requeued : \E i \in 1..k : order[i] = s
  <2>1. order \in [1..k -> Requeued] /\ IsInjective(order)
    BY <1>3 DEF Bijection, Injection
  <2>2. \A s \in Requeued : \E i \in 1..k : order[i] = s
    BY <1>3 DEF Bijection, Surjection
  <2> QED
    BY <2>1, <2>2 DEF IsInjective
<1>5. order \in [1..k -> Seqs] /\ 0 \in 0..RetryDelay /\ Queue(retries)
  BY <1>1, <1>4 DEF IInv, TypeOK
<1>6. \A i \in 1..k, j \in 1..Len(retries) : retries[j].seq # order[i]
  <2> SUFFICES ASSUME NEW i \in 1..k, NEW j \in 1..Len(retries), retries[j].seq = order[i] PROVE FALSE
    OBVIOUS
  <2>1. order[i] \in Seqs /\ Flies(order[i], pending)
    BY <1>1, <1>4
  <2>2. Waits(order[i], Range(retries))
    BY <1>5, QueueIs DEF Waits, Range
  <2> QED
    BY <2>1, <2>2 DEF IInv, Sound
<1>7. /\ Queue(q)
      /\ Range(q) = Range(retries) \cup {[seq |-> order[i], left |-> 0] : i \in 1..k}
  BY <1>2, <1>3, <1>4, <1>5, <1>6, InsertIs
<1>8. {[seq |-> order[i], left |-> 0] : i \in 1..k} = {[seq |-> s, left |-> 0] : s \in Requeued}
  BY <1>4
<1>9. Requeued # {} => Due(q)
  <2>1. ASSUME NEW s \in Requeued PROVE Due(q)
    <3>1. [seq |-> s, left |-> 0] \in Range(q) /\ [seq |-> s, left |-> 0].left = 0
      BY <1>7, <1>8
    <3> QED
      BY <1>7, <3>1, NotDue
  <2> QED
    BY <2>1
<1> QED
  BY <1>7, <1>8, <1>9

\* There is always some order.
LEMMA SomeSwept == IInv => Swept # {}
<1> SUFFICES ASSUME IInv PROVE Swept # {}
  OBVIOUS
<1>1. IsFiniteSet(Requeued)
  BY RequeuedIs DEF IInv
<1>2. ExistsBijection(1..Cardinality(Requeued), Requeued)
  BY <1>1, FS_CardinalityType
<1> QED
  BY <1>2 DEF ExistsBijection, Swept

\* A sweep of nothing leaves the retries as they are.
LEMMA NothingSwept ==
    ASSUME IInv, Requeued = {}, NEW q \in Swept
    PROVE  q = retries
<1>1. Cardinality(Requeued) = 0
  BY FS_EmptySet
<1>2. PICK order \in Bijection(1..0, Requeued) : q = Insert(retries, order, 0)
  BY <1>1 DEF Swept
<1>3. order \in [{} -> {}] /\ 1..0 = {}
  BY <1>2 DEF Bijection, Injection
<1>4. Len(order) = 0
  BY <1>3
<1>5. retries \in Seq(Retries) /\ Len(retries) \in Nat /\ DueBy(retries, 0) \in 0..Len(retries)
      /\ \A i \in 1..Len(retries) : retries[i].left <= 0 <=> i <= DueBy(retries, 0)
  BY QueueIs, DueByIs DEF IInv, TypeOK
<1>6. q = [i \in 1..Len(retries) |-> retries[i]]
  BY <1>2, <1>4, <1>5 DEF Insert
<1> QED
  BY <1>5, <1>6

\* A sweep adds what it requeues to the retries, due at once.
LEMMA SweptAdds ==
    ASSUME IInv, NEW q \in Swept
    PROVE  Added(Range(retries), Requeued, 0, Range(q))
<1>1. Range(q) = Range(retries) \cup {[seq |-> z, left |-> 0] : z \in Requeued}
  BY SweptIs
<1>2. Range(retries) \subseteq Range(q)
  BY <1>1
<1>3. ASSUME NEW e \in Range(q), e \notin Range(retries) PROVE e.seq \in Requeued /\ e.left = 0
  <2>1. PICK z \in Requeued : e = [seq |-> z, left |-> 0]
    BY <1>1, <1>3
  <2> QED
    BY <2>1
<1>4. ASSUME NEW z \in Requeued PROVE \E e \in Range(q) : e.seq = z /\ e.left = 0
  <2>1. [seq |-> z, left |-> 0] \in Range(q)
    BY <1>1
  <2> QED
    BY <2>1
<1> QED
  BY <1>2, <1>3, <1>4 DEF Added

\* What expired is swept to where it is owed again or given up.
LEMMA SweepSound ==
    ASSUME IInv, NEW q \in Swept, NEW s \in Seqs
    PROVE  Sound(s, InFlight, Range(q), CountsSwept, taken, done, dropped \cup Terminated, Took)
<1>1. Sound(s, pending, Range(retries), counts, taken, done, dropped, Took) /\ TypeOK /\ Once(pending)
  BY DEF IInv
<1>2. Waits(s, Range(q)) <=> Waits(s, Range(retries)) \/ s \in Requeued
  BY SweptAdds, AddedIs
<1>3. /\ s \in Requeued => Flies(s, pending) /\ ~SpentIn(counts, s)
      /\ s \in Terminated => Flies(s, pending) /\ SpentIn(counts, s)
      /\ Flies(s, pending) => Flies(s, InFlight) \/ s \in Requeued \/ s \in Terminated
      /\ Flies(s, InFlight) => Flies(s, pending)
  BY DEF Requeued, Terminated, SeqsOf, Expired, InFlight, Flies, Spent, SpentIn
<1>4. s \in Requeued \/ s \in Terminated => ~Flies(s, InFlight)
  BY <1>1 DEF Requeued, Terminated, SeqsOf, Expired, InFlight, Flies, Once
<1>5. CountsSwept[s] = IF s \in Terminated THEN 0 ELSE counts[s]
  BY DEF CountsSwept
<1> QED
  BY <1>1, <1>2, <1>3, <1>4, <1>5 DEF Sound, SpentIn

-----------------------------------------------------------------------------
(* The invariant holds initially, and every step preserves it.             *)

LEMMA InitInv == Init => IInv
<1> SUFFICES ASSUME Init PROVE IInv
  OBVIOUS
<1>1. <<>> \in Seq(Retries) /\ Len(<<>>) = 0 /\ <<>> \in Seq(Events)
  OBVIOUS
<1>2. TypeOK
  <2>1. Queue(retries)
    BY <1>1 DEF Init, Queue
  <2>2. log \in Seq(Events) /\ Len(log) <= MaxLog /\ cursor <= Len(log)
    BY <1>1 DEF Init
  <2>3. timer \in [Members -> 0..Never] /\ age \in [Events -> 0..Window]
    BY DEF Init, Never
  <2>4. counts \in [Seqs -> 0..CountCap] /\ taken \in [Seqs -> 0..CountCap]
    BY DEF Init
  <2>5. /\ start \in Nat /\ cursor \in Nat /\ start <= cursor
        /\ pending \subseteq Deliveries /\ done \subseteq Seqs /\ dropped \subseteq Seqs
    BY DEF Init
  <2>6. /\ created \in BOOLEAN /\ stopped \in [Members -> BOOLEAN]
        /\ pc \in [Members -> {"new", "idle", "handling", "waiting", "ended"}]
        /\ job \in [Members -> {0} \cup Seqs]
    BY Zenon DEF Init
  <2> QED
    BY <2>1, <2>2, <2>3, <2>4, <2>5, <2>6 DEF TypeOK
<1>3. Attended /\ Once(pending)
  BY DEF Init, Attended, Once
<1>4. Range(retries) = {}
  BY DEF Init, Range
<1>5. ASSUME NEW s \in Seqs
      PROVE  Sound(s, pending, Range(retries), counts, taken, done, dropped, Took)
  <2>1. s \notin Took
    BY DEF Init, Took, Seqs
  <2> QED
    BY <1>4, <2>1 DEF Init, Sound, Flies, Waits, SpentIn
<1> QED
  BY <1>2, <1>3, <1>5 DEF IInv

\* What a sweep leaves is typed.
LEMMA SweepTypes ==
    ASSUME TypeOK
    PROVE  /\ InFlight \subseteq pending /\ InFlight \subseteq Deliveries
           /\ CountsSwept \in [Seqs -> 0..CountCap]
           /\ Terminated \subseteq Seqs
           /\ \A s \in Seqs : CountsSwept[s] = IF s \in Terminated THEN 0 ELSE counts[s]
BY DEF TypeOK, InFlight, Terminated, SeqsOf, Expired, CountsSwept, Deliveries

\* m is given t, when no longer anywhere but among the retries or ahead: the
\* next retries are R, and t is the last taken unless it was a retry.
LEMMA DeliverInv ==
    ASSUME IInv, NEW m \in Members, NEW t \in Seqs, NEW q \in Swept, MayTake(m), Deliver(m, t),
           Queue(retries'), \A s \in Seqs : Waits(s, Range(retries')) <=> Waits(s, Range(q)) /\ s # t,
           ~Flies(t, InFlight), t \notin done, t \notin dropped \cup Terminated, ~SpentIn(CountsSwept, t),
           cursor' \in Nat, start <= cursor', cursor' <= Len(log),
           \A s \in Seqs : s \in Took' <=> s \in Took \/ s = t,
           UNCHANGED <<brokerVars, stopped, done>>
    PROVE  IInv'
<1> DEFINE d == [seq |-> t, by |-> m, left |-> AckWait]
<1>t. TypeOK /\ Attended
  BY DEF IInv
<1>1. pc[m] = "idle" /\ job[m] = 0
  BY <1>t DEF MayTake, Attended
<1>2. /\ pending' = InFlight \cup {d}
      /\ counts' = [CountsSwept EXCEPT ![t] = Bump(@)]
      /\ taken' = [taken EXCEPT ![t] = Bump(@)]
      /\ dropped' = dropped \cup Terminated /\ done' = done
      /\ pc' = [pc EXCEPT ![m] = "handling"] /\ job' = [job EXCEPT ![m] = t]
      /\ timer' = [timer EXCEPT ![m] = AckWait]
      /\ UNCHANGED <<log, age, created, start, stopped>>
  BY DEF Deliver, brokerVars
<1>3. d \in Deliveries /\ d.seq = t /\ d.by = m
  BY DEF Deliveries
<1>4. TypeOK'
  <2>1. pending' \subseteq Deliveries
    BY <1>t, <1>2, <1>3, SweepTypes
  <2>2. counts' \in [Seqs -> 0..CountCap] /\ taken' \in [Seqs -> 0..CountCap]
    <3>1. \A n \in 0..CountCap : Bump(n) \in 0..CountCap
      BY DEF Bump
    <3> QED
      BY <1>t, <1>2, <3>1, SweepTypes DEF TypeOK
  <2>3. dropped' \subseteq Seqs /\ done' \subseteq Seqs
    BY <1>t, <1>2, SweepTypes DEF TypeOK
  <2>4. timer' \in [Members -> 0..Never]
    BY <1>t, <1>2 DEF TypeOK, Never
  <2>5. /\ pc' \in [Members -> {"new", "idle", "handling", "waiting", "ended"}]
        /\ job' \in [Members -> {0} \cup Seqs] /\ stopped' \in [Members -> BOOLEAN]
        /\ log' \in Seq(Events) /\ Len(log') <= MaxLog /\ age' \in [Events -> 0..Window]
        /\ created' \in BOOLEAN /\ start' \in Nat /\ start' <= cursor' /\ cursor' <= Len(log')
    BY <1>t, <1>2 DEF TypeOK
  <2> QED
    BY <2>1, <2>2, <2>3, <2>4, <2>5 DEF TypeOK
<1>5. Attended'
  <2>1. \A e \in InFlight : e.by # m
    BY <1>t, <1>1, SweepTypes DEF Attended, Seqs, Deliveries
  <2>2. ASSUME NEW e \in pending' PROVE job'[e.by] = e.seq
    BY <1>t, <1>2, <1>3, <2>1, SweepTypes DEF Attended, TypeOK, Deliveries
  <2>3. \A n \in Members : job'[n] # 0 <=> pc'[n] = "handling"
    BY <1>t, <1>2 DEF Attended, TypeOK, Seqs
  <2>4. created /\ created'
    BY <1>t, <1>1, <1>2 DEF Attended
  <2> QED
    BY <2>2, <2>3, <2>4 DEF Attended
<1>6. Once(pending')
  BY <1>2, <1>3, <1>t, SweepTypes DEF IInv, Once, Flies
<1>7. ASSUME NEW s \in Seqs
      PROVE  Sound(s, pending, Range(retries), counts, taken, done, dropped, Took)'
  <2>1. Sound(s, InFlight, Range(q), CountsSwept, taken, done, dropped \cup Terminated, Took)
    BY SweepSound
  <2>2. Flies(s, pending') <=> Flies(s, InFlight) \/ s = t
    BY <1>2, <1>3 DEF Flies
  <2>3. /\ CountsSwept[t] \in Nat /\ taken[t] \in Nat
        /\ counts'[s] = IF s = t THEN Bump(CountsSwept[t]) ELSE CountsSwept[s]
        /\ taken'[s] = IF s = t THEN Bump(taken[t]) ELSE taken[s]
    BY <1>t, <1>2, SweepTypes DEF TypeOK
  <2>4. s \in Took' <=> s \in Took \/ s = t
    OBVIOUS
  <2>5. Sound(s, pending', Range(retries'), counts', taken', done', dropped', Took')
    <3>1. CASE s = t
      BY <1>2, <2>1, <2>2, <2>3, <2>4, <3>1 DEF Sound, SpentIn, Bump
    <3>2. CASE s # t
      BY <1>2, <2>1, <2>2, <2>3, <2>4, <3>2 DEF Sound, SpentIn
    <3> QED
      BY <3>1, <3>2
  <2> QED
    BY <2>5 DEF Sound, Flies, Waits, SpentIn, Range, Took
<1> QED
  BY <1>4, <1>5, <1>6, <1>7 DEF IInv

\* Events ahead are in nobody's hands yet.
LEMMA AheadIs ==
    ASSUME IInv, NEW t \in Ahead
    PROVE  /\ t \in Seqs /\ t > cursor /\ t <= Len(log) /\ t \notin Took
           /\ ~Flies(t, pending) /\ ~Waits(t, Range(retries)) /\ t \notin done /\ t \notin dropped
           /\ ~SpentIn(counts, t)
<1>1. t \in Seqs /\ t > cursor /\ t <= Len(log) /\ t \notin Took
  BY DEF Ahead, Took, Seqs, IInv, TypeOK
<1> QED
  BY <1>1 DEF IInv, Sound, SpentIn

LEMMA TakeRetryInv ==
    ASSUME IInv, NEW m \in Members, TakeRetry(m)
    PROVE  IInv'
<1>1. PICK q \in Swept : Due(q) /\ retries' = Tail(q) /\ Deliver(m, Head(q).seq)
  BY DEF TakeRetry
<1> DEFINE t == Head(q).seq
<1>2. Queue(q) /\ q # <<>> /\ Head(q).left = 0
  BY <1>1, SweptIs DEF Due
<1>3. /\ Head(q) \in Range(q) /\ Queue(retries')
      /\ Range(retries') = {e \in Range(q) : e.seq # t}
  BY <1>1, <1>2, TailIs
<1>4. t \in Seqs /\ Waits(t, Range(q))
  <2>1. Head(q) \in Retries
    BY <1>2, <1>3, QueueIs DEF Range
  <2> QED
    BY <1>3, <2>1 DEF Retries, Waits
<1> HIDE DEF t
<1>5. Sound(t, InFlight, Range(q), CountsSwept, taken, done, dropped \cup Terminated, Took)
  BY <1>4, SweepSound
<1>6. /\ ~Flies(t, InFlight) /\ t \notin done /\ t \notin dropped \cup Terminated
      /\ ~SpentIn(CountsSwept, t) /\ t \in Took
  BY <1>4, <1>5 DEF Sound
<1>7. \A s \in Seqs : Waits(s, Range(retries')) <=> Waits(s, Range(q)) /\ s # t
  BY <1>3 DEF Waits
<1>8. MayTake(m) /\ UNCHANGED <<brokerVars, cursor, stopped, done>> /\ Deliver(m, t)
  BY <1>1 DEF TakeRetry, t
<1>9. Took' = Took
  BY <1>8 DEF Took, Matches, brokerVars
<1>10. cursor' \in Nat /\ start <= cursor' /\ cursor' <= Len(log)
  BY <1>8 DEF IInv, TypeOK
<1> QED
  BY <1>3, <1>4, <1>6, <1>7, <1>8, <1>9, <1>10, DeliverInv

LEMMA TakeNextInv ==
    ASSUME IInv, NEW m \in Members, TakeNext(m)
    PROVE  IInv'
<1>1. PICK q \in Swept : ~Due(q) /\ retries' = q
  BY DEF TakeNext
<1>2. PICK t \in Ahead : (\A z \in Ahead : t <= z) /\ cursor' = t /\ Deliver(m, t)
  BY DEF TakeNext
<1>3. Requeued = {} /\ q = retries
  BY <1>1, SweptIs, NothingSwept
<1>4. /\ t \in Seqs /\ t > cursor /\ t <= Len(log) /\ t \notin Took
      /\ ~Flies(t, pending) /\ ~Waits(t, Range(retries)) /\ t \notin done /\ t \notin dropped
      /\ ~SpentIn(counts, t)
  BY AheadIs
<1>5. ~Flies(t, InFlight) /\ t \notin Terminated
  BY <1>4 DEF Flies, InFlight, Terminated, SeqsOf, Expired
<1>6. ~SpentIn(CountsSwept, t)
  BY <1>4, <1>5 DEF SpentIn, CountsSwept
<1>7. UNCHANGED <<brokerVars, stopped, done>> /\ MayTake(m)
  BY DEF TakeNext
<1>8. Queue(retries') /\ \A s \in Seqs : Waits(s, Range(retries')) <=> Waits(s, Range(q)) /\ s # t
  <2>1. \A s \in Seqs : Waits(s, Range(q)) => s # t
    BY <1>3, <1>4
  <2> QED
    BY <1>1, <2>1, SweptIs
<1>9. cursor' \in Nat /\ start <= cursor' /\ cursor' <= Len(log)
  BY <1>2, <1>4 DEF IInv, TypeOK, Seqs
<1>10. ASSUME NEW s \in Seqs PROVE s \in Took' <=> s \in Took \/ s = t
  <2>1. start' = start /\ (Matches(s)' <=> Matches(s))
    BY <1>7 DEF brokerVars, Matches
  <2>2. Matches(t) /\ start <= cursor /\ cursor \in Nat /\ start \in Nat /\ Len(log) \in Nat
    BY <1>2 DEF Ahead, IInv, TypeOK
  <2>3. s > cursor /\ s < t => ~Matches(s)
    BY <1>2, <1>4, <2>2 DEF Ahead, Seqs
  <2> QED
    BY <1>2, <1>4, <2>1, <2>2, <2>3 DEF Took, Seqs
<1> QED
  BY <1>2, <1>4, <1>5, <1>6, <1>7, <1>8, <1>9, <1>10, DeliverInv

LEMMA WaitForWorkInv ==
    ASSUME IInv, NEW m \in Members, WaitForWork(m)
    PROVE  IInv'
<1>t. TypeOK /\ Attended
  BY DEF IInv
<1>1. PICK q \in Swept : TRUE
  BY SomeSwept
<1>2. Requeued = {} /\ q = retries
  <2>1. ~Due(q)
    BY DEF WaitForWork
  <2> QED
    BY <2>1, SweptIs, NothingSwept
<1>3. /\ pc[m] = "idle" /\ cursor' = Len(log) /\ Ahead = {}
      /\ pending' = InFlight /\ counts' = CountsSwept /\ dropped' = dropped \cup Terminated
      /\ pc' = [pc EXCEPT ![m] = "waiting"] /\ timer' = [timer EXCEPT ![m] = NextDue]
      /\ UNCHANGED <<log, age, created, start, retries, job, stopped, woken, done, taken>>
  BY DEF WaitForWork, MayTake, brokerVars
<1>4. NextDue \in 0..Never
  <2> DEFINE lefts == {retries[i].left : i \in DOMAIN retries} \cup {d.left : d \in InFlight}
  <2>1. \A i \in DOMAIN retries : retries[i].left \in 0..RetryDelay
    BY <1>t, QueueIs DEF TypeOK
  <2>2. lefts \subseteq 0..Never
    <3>1. 0..RetryDelay \subseteq 0..Never /\ 0..AckWait \subseteq 0..Never
      BY DEF Never
    <3>2. \A d \in InFlight : d.left \in 0..AckWait
      BY <1>t, SweepTypes DEF Deliveries
    <3> QED
      BY <2>1, <3>1, <3>2
  <2>3. CASE lefts = {}
    BY <2>3 DEF NextDue, Never
  <2>4. CASE lefts # {}
    <3>1. lefts \subseteq Nat
      BY <2>2 DEF Never
    <3> HIDE DEF lefts
    <3>2. Min(lefts) \in lefts
      BY <2>4, <3>1, Smallest DEF Min
    <3> QED
      BY <2>2, <2>4, <3>2 DEF NextDue, lefts
  <2> QED
    BY <2>3, <2>4
<1>5. TypeOK'
  <2>1. pending' \subseteq Deliveries /\ counts' \in [Seqs -> 0..CountCap] /\ dropped' \subseteq Seqs
    BY <1>t, <1>3, SweepTypes DEF TypeOK
  <2>2. timer' \in [Members -> 0..Never]
    BY <1>t, <1>3, <1>4 DEF TypeOK
  <2>3. Queue(retries') /\ log' \in Seq(Events) /\ Len(log') <= MaxLog /\ age' \in [Events -> 0..Window]
    BY <1>t, <1>3 DEF TypeOK
  <2>4. /\ pc' \in [Members -> {"new", "idle", "handling", "waiting", "ended"}]
        /\ job' \in [Members -> {0} \cup Seqs] /\ stopped' \in [Members -> BOOLEAN]
        /\ created' \in BOOLEAN /\ start' \in Nat /\ cursor' \in Nat /\ start' <= cursor' /\ cursor' <= Len(log')
        /\ taken' \in [Seqs -> 0..CountCap] /\ done' \subseteq Seqs
    BY <1>t, <1>3 DEF TypeOK
  <2> QED
    BY <2>1, <2>2, <2>3, <2>4 DEF TypeOK
<1>6. Attended' /\ Once(pending')
  BY <1>t, <1>3, SweepTypes DEF IInv, Attended, Once, TypeOK
<1>7. ASSUME NEW s \in Seqs
      PROVE  Sound(s, pending, Range(retries), counts, taken, done, dropped, Took)'
  <2>1. Sound(s, InFlight, Range(retries), CountsSwept, taken, done, dropped \cup Terminated, Took)
    BY <1>2, SweepSound
  <2>2. s \in Took' <=> s \in Took
    <3>1. start' = start /\ (Matches(s)' <=> Matches(s)) /\ cursor' = Len(log)
      BY <1>3 DEF Matches
    <3>2. cursor \in Nat /\ start \in Nat /\ cursor <= Len(log) /\ Len(log) \in Nat
      BY <1>t DEF TypeOK
    <3>3. cursor < s /\ s <= Len(log) => ~Matches(s)
      BY <1>3 DEF Ahead
    <3> QED
      BY <3>1, <3>2, <3>3 DEF Took, Seqs
  <2>3. Sound(s, pending', Range(retries'), counts', taken', done', dropped', Took')
    BY <1>3, <2>1, <2>2 DEF Sound
  <2> QED
    BY <2>3 DEF Sound, Flies, Waits, SpentIn, Range, Took
<1> QED
  BY <1>5, <1>6, <1>7 DEF IInv

\* m's handler has returned, and with it what m had in flight has left.
LEMMA SettleInv ==
    ASSUME IInv, NEW m \in Members, pc[m] = "handling", Queue(retries'),
           pending' = InFlight \ Current(m),
           counts' \in [Seqs -> 0..CountCap], done' \subseteq Seqs, dropped' \subseteq Seqs,
           pc' = [pc EXCEPT ![m] = "idle"], job' = [job EXCEPT ![m] = 0],
           timer' = [timer EXCEPT ![m] = Never],
           UNCHANGED <<brokerVars, cursor, stopped, taken>>,
           \A s \in Seqs : Sound(s, pending', Range(retries'), counts', taken, done', dropped', Took)
    PROVE  IInv'
<1>t. TypeOK /\ Attended
  BY DEF IInv
<1>1. pending' \subseteq InFlight /\ InFlight \subseteq pending
  BY <1>t, SweepTypes
<1>2. TypeOK'
  <2>1. pending' \subseteq Deliveries /\ timer' \in [Members -> 0..Never]
    BY <1>t, SweepTypes DEF TypeOK, Never
  <2>2. log' \in Seq(Events) /\ Len(log') <= MaxLog /\ age' \in [Events -> 0..Window]
    BY <1>t DEF TypeOK, brokerVars
  <2>3. /\ pc' \in [Members -> {"new", "idle", "handling", "waiting", "ended"}]
        /\ job' \in [Members -> {0} \cup Seqs] /\ stopped' \in [Members -> BOOLEAN]
        /\ created' \in BOOLEAN /\ start' \in Nat /\ cursor' \in Nat /\ start' <= cursor' /\ cursor' <= Len(log')
        /\ taken' \in [Seqs -> 0..CountCap]
    BY <1>t DEF TypeOK, brokerVars
  <2> QED
    BY <2>1, <2>2, <2>3 DEF TypeOK
<1>3. Attended'
  <2>1. ASSUME NEW d \in pending' PROVE job'[d.by] = d.seq
    <3>1. d \in InFlight /\ d \in pending /\ d.by \in Members /\ job[d.by] = d.seq
      BY <1>t, <1>1 DEF Attended, TypeOK, Deliveries
    <3>2. d.by # m
      BY <3>1 DEF Current
    <3> QED
      BY <1>t, <3>1, <3>2 DEF TypeOK
  <2>2. \A n \in Members : job'[n] # 0 <=> pc'[n] = "handling"
    BY <1>t DEF Attended, TypeOK
  <2>3. created /\ created' = created
    BY <1>t DEF Attended, brokerVars
  <2> QED
    BY <2>1, <2>2, <2>3 DEF Attended
<1>4. Once(pending')
  BY <1>1 DEF IInv, Once
<1>5. ASSUME NEW s \in Seqs
      PROVE  Sound(s, pending, Range(retries), counts, taken, done, dropped, Took)'
  <2>1. Took' = Took
    BY DEF Took, Matches, brokerVars
  <2>2. Sound(s, pending', Range(retries'), counts', taken, done', dropped', Took)
    OBVIOUS
  <2> QED
    BY <2>1, <2>2 DEF Sound, Flies, Waits, SpentIn, Range, Took
<1> QED
  BY <1>2, <1>3, <1>4, <1>5 DEF IInv

LEMMA SettleLateInv ==
    ASSUME IInv, NEW m \in Members, SettleLate(m)
    PROVE  IInv'
<1>1. PICK q \in Swept : retries' = q
  BY DEF SettleLate
<1>2. \A s \in Seqs : Sound(s, InFlight, Range(q), CountsSwept, taken, done, dropped \cup Terminated, Took)
  BY SweepSound
<1>3. Queue(retries') /\ pending' = InFlight \ Current(m) /\ done' = done
      /\ counts' = CountsSwept /\ dropped' = dropped \cup Terminated
  BY <1>1, SweptIs DEF SettleLate
<1>4. counts' \in [Seqs -> 0..CountCap] /\ done' \subseteq Seqs /\ dropped' \subseteq Seqs
  BY <1>3, SweepTypes DEF IInv, TypeOK
<1>5. \A s \in Seqs : Sound(s, pending', Range(retries'), counts', taken, done', dropped', Took)
  BY <1>1, <1>2, <1>3 DEF SettleLate
<1> QED
  BY <1>3, <1>4, <1>5, SettleInv DEF SettleLate

\* What m settles in time is the event it handles, in flight only here.
LEMMA CurrentIs ==
    ASSUME IInv, NEW m \in Members, Current(m) # {}
    PROVE  /\ job[m] \in Seqs /\ Flies(job[m], InFlight)
           /\ \A s : Flies(s, InFlight \ Current(m)) <=> Flies(s, InFlight) /\ s # job[m]
           /\ job[m] \notin Terminated /\ job[m] \notin Requeued
<1>1. PICK d \in InFlight : d.seq = job[m] /\ d.by = m
  BY DEF Current
<1>2. InFlight \subseteq pending /\ job[m] \in Seqs /\ TypeOK /\ Once(pending)
  BY <1>1, SweepTypes DEF IInv, TypeOK, Deliveries
<1>3. Flies(job[m], InFlight)
  BY <1>1 DEF Flies
<1>4. \A e \in InFlight : e.seq = job[m] <=> e \in Current(m)
  BY <1>1, <1>2 DEF Once, Current
<1>5. job[m] \notin Terminated /\ job[m] \notin Requeued
  BY <1>1, <1>2 DEF Terminated, Requeued, SeqsOf, Expired, InFlight, Once
<1>6. \A s : Flies(s, InFlight \ Current(m)) <=> Flies(s, InFlight) /\ s # job[m]
  BY <1>4 DEF Flies
<1> QED
  BY <1>2, <1>3, <1>5, <1>6

LEMMA SettleDoneInv ==
    ASSUME IInv, NEW m \in Members, SettleDone(m)
    PROVE  IInv'
<1>1. PICK q \in Swept : retries' = q
  BY DEF SettleDone
<1>2. Queue(retries') /\ pending' = InFlight \ Current(m) /\ done' = done \cup {job[m]}
      /\ counts' = [CountsSwept EXCEPT ![job[m]] = 0] /\ dropped' = dropped \cup Terminated
  BY <1>1, SweptIs DEF SettleDone
<1>3. /\ job[m] \in Seqs /\ Flies(job[m], InFlight)
      /\ \A s : Flies(s, InFlight \ Current(m)) <=> Flies(s, InFlight) /\ s # job[m]
  BY CurrentIs DEF SettleDone
<1>4. CountsSwept \in [Seqs -> 0..CountCap]
  BY SweepTypes DEF IInv
<1>5. counts' \in [Seqs -> 0..CountCap] /\ done' \subseteq Seqs /\ dropped' \subseteq Seqs
  BY <1>2, <1>3, <1>4, SweepTypes DEF IInv, TypeOK
<1>6. ASSUME NEW s \in Seqs PROVE Sound(s, pending', Range(retries'), counts', taken, done', dropped', Took)
  <2>1. Sound(s, InFlight, Range(q), CountsSwept, taken, done, dropped \cup Terminated, Took)
    BY SweepSound
  <2>2. counts'[s] = IF s = job[m] THEN 0 ELSE CountsSwept[s]
    BY <1>2, <1>3, <1>4
  <2> QED
    BY <1>1, <1>2, <1>3, <2>1, <2>2 DEF Sound, SpentIn
<1> QED
  BY <1>2, <1>5, <1>6, SettleInv DEF SettleDone

\* What failed is put back among the retries, once.
LEMMA PutBackIs ==
    ASSUME IInv, NEW m \in Members, Current(m) # {}, NEW q \in Swept
    PROVE  /\ Queue(Insert(q, <<job[m]>>, RetryDelay))
           /\ Range(Insert(q, <<job[m]>>, RetryDelay)) =
                Range(q) \cup {[seq |-> job[m], left |-> RetryDelay]}
<1> DEFINE t == job[m]
<1>1. t \in Seqs /\ Flies(t, InFlight)
  BY CurrentIs
<1>2. Queue(q) /\ Sound(t, InFlight, Range(q), CountsSwept, taken, done, dropped \cup Terminated, Took)
  BY <1>1, SweptIs, SweepSound
<1>3. \A j \in 1..Len(q) : q[j].seq # t
  BY <1>1, <1>2, QueueIs DEF Sound, Waits, Range
<1>4. PICK w : w = <<t>>
  OBVIOUS
<1>5. PICK k \in Nat : k = 1
  OBVIOUS
<1>6. w \in [1..k -> Seqs] /\ \A i, j \in 1..k : w[i] = w[j] => i = j
  BY <1>1, <1>4, <1>5
<1>7. \A i \in 1..k, j \in 1..Len(q) : q[j].seq # w[i]
  BY <1>3, <1>4, <1>5
<1>8. RetryDelay \in 0..RetryDelay
  OBVIOUS
<1>9. /\ Queue(Insert(q, w, RetryDelay))
      /\ Range(Insert(q, w, RetryDelay)) =
           Range(q) \cup {[seq |-> w[i], left |-> RetryDelay] : i \in 1..k}
  BY <1>2, <1>6, <1>7, <1>8, InsertIs
<1>10. \A i \in 1..k : w[i] = t
  BY <1>4, <1>5
<1>11. Range(Insert(q, w, RetryDelay)) = Range(q) \cup {[seq |-> t, left |-> RetryDelay]}
  BY <1>5, <1>9, <1>10
<1> QED
  BY <1>4, <1>9, <1>11

LEMMA SettleFailedInv ==
    ASSUME IInv, NEW m \in Members, SettleFailed(m)
    PROVE  IInv'
<1> DEFINE t == job[m]
<1>1. /\ t \in Seqs /\ Flies(t, InFlight) /\ t \notin Terminated /\ t \notin Requeued
      /\ \A s : Flies(s, InFlight \ Current(m)) <=> Flies(s, InFlight) /\ s # t
  BY CurrentIs DEF SettleFailed
<1>2. CountsSwept \in [Seqs -> 0..CountCap] /\ CountsSwept[t] = counts[t]
  BY <1>1, SweepTypes DEF IInv
<1>3. pending' = InFlight \ Current(m) /\ done' = done /\ done' \subseteq Seqs
  BY DEF SettleFailed, IInv, TypeOK
<1>4. CASE Spent(t)
  <2>1. PICK q \in Swept : retries' = q
    BY <1>4 DEF SettleFailed
  <2>2. counts' = [CountsSwept EXCEPT ![t] = 0] /\ dropped' = dropped \cup Terminated \cup {t}
    BY <1>4 DEF SettleFailed
  <2>3. Queue(retries') /\ counts' \in [Seqs -> 0..CountCap] /\ dropped' \subseteq Seqs
    <3>1. Queue(retries')
      BY <2>1, SweptIs
    <3>2. counts' \in [Seqs -> 0..CountCap]
      <4>1. 0 \in 0..CountCap
        OBVIOUS
      <4> QED
        BY <1>2, <2>2, <4>1, Zenon
    <3>3. Terminated \subseteq Seqs /\ dropped \subseteq Seqs
      BY SweepTypes DEF IInv, TypeOK
    <3> QED
      BY <1>1, <2>2, <3>1, <3>2, <3>3
  <2>4. ASSUME NEW s \in Seqs PROVE Sound(s, pending', Range(retries'), counts', taken, done', dropped', Took)
    <3>1. Sound(s, InFlight, Range(q), CountsSwept, taken, done, dropped \cup Terminated, Took)
      BY SweepSound
    <3>2. counts'[s] = IF s = t THEN 0 ELSE CountsSwept[s]
      BY <1>1, <1>2, <2>2
    <3> QED
      BY <1>1, <1>3, <2>1, <2>2, <3>1, <3>2 DEF Sound, SpentIn
  <2> QED
    BY <1>3, <2>3, <2>4, SettleInv DEF SettleFailed
<1>5. CASE ~Spent(t)
  <2>1. PICK q \in Swept : retries' = Insert(q, <<t>>, RetryDelay)
    BY <1>5 DEF SettleFailed
  <2>2. counts' = CountsSwept /\ dropped' = dropped \cup Terminated
    BY <1>5 DEF SettleFailed
  <2>6. /\ Queue(retries')
        /\ Range(retries') = Range(q) \cup {[seq |-> t, left |-> RetryDelay]}
    BY <2>1, PutBackIs DEF SettleFailed
  <2>7. \A s \in Seqs : Waits(s, Range(retries')) <=> Waits(s, Range(q)) \/ s = t
    <3>1. Added(Range(q), {t}, RetryDelay, Range(retries'))
      <4>1. PICK r : r = [seq |-> t, left |-> RetryDelay]
        OBVIOUS
      <4>2. r.seq = t /\ r.left = RetryDelay
        BY <4>1
      <4>3. Range(retries') = Range(q) \cup {r}
        BY <2>6, <4>1
      <4> QED
        BY <4>2, <4>3 DEF Added
    <3> QED
      BY <3>1, AddedIs
  <2>8. counts' \in [Seqs -> 0..CountCap] /\ dropped' \subseteq Seqs
    BY <1>2, <2>2, SweepTypes DEF IInv, TypeOK
  <2>9. ASSUME NEW s \in Seqs PROVE Sound(s, pending', Range(retries'), counts', taken, done', dropped', Took)
    <3>1. Sound(s, InFlight, Range(q), CountsSwept, taken, done, dropped \cup Terminated, Took)
      BY SweepSound
    <3>2. ~SpentIn(CountsSwept, t)
      BY <1>2, <1>5 DEF Spent, SpentIn
    <3> QED
      BY <1>1, <1>3, <2>2, <2>7, <3>1, <3>2 DEF Sound, SpentIn
  <2> QED
    BY <1>3, <2>6, <2>8, <2>9, SettleInv DEF SettleFailed
<1> QED
  BY <1>4, <1>5

\* A member moves on without touching the consumer.
LEMMA MoveInv ==
    ASSUME IInv, TypeOK', Attended', Once(pending'),
           UNCHANGED <<counts, taken, done, dropped>>,
           \A s \in Seqs : /\ Flies(s, pending') <=> Flies(s, pending)
                           /\ Waits(s, Range(retries')) <=> Waits(s, Range(retries))
                           /\ s \in Took' <=> s \in Took
    PROVE  IInv'
<1>1. ASSUME NEW s \in Seqs
      PROVE  Sound(s, pending, Range(retries), counts, taken, done, dropped, Took)'
  <2>1. Sound(s, pending, Range(retries), counts, taken, done, dropped, Took)
    BY DEF IInv
  <2>2. Sound(s, pending', Range(retries'), counts', taken', done', dropped', Took')
    BY <2>1 DEF Sound, SpentIn
  <2> QED
    BY <2>2 DEF Sound, Flies, Waits, SpentIn, Range, Took
<1> QED
  BY <1>1 DEF IInv

LEMMA PublishInv ==
    ASSUME IInv, NEW e \in Events, Publish(e)
    PROVE  IInv'
<1>t. TypeOK /\ Attended
  BY DEF IInv
<1>1. /\ Len(log) < MaxLog /\ age' = [age EXCEPT ![e] = 0] /\ log' = Append(log, e)
      /\ UNCHANGED <<created, start, cursor, pending, retries, counts, pc, job, stopped, timer, done, dropped, taken>>
  BY DEF Publish, members, history
<1>2. /\ log' \in Seq(Events) /\ Len(log') = Len(log) + 1 /\ Len(log) \in Nat
      /\ \A s \in 1..Len(log) : log'[s] = log[s]
  BY <1>t, <1>1 DEF TypeOK
<1>3. TypeOK'
  <2>1. age' \in [Events -> 0..Window]
    BY <1>t, <1>1 DEF TypeOK
  <2>2. Queue(retries') /\ Len(log') <= MaxLog
    BY <1>t, <1>1, <1>2 DEF TypeOK
  <2>3. cursor' <= Len(log')
    BY <1>t, <1>1, <1>2 DEF TypeOK
  <2> QED
    BY <1>t, <1>1, <1>2, <2>1, <2>2, <2>3 DEF TypeOK
<1>4. Attended' /\ Once(pending')
  BY <1>1 DEF IInv, Attended
<1>5. \A s \in Seqs : s \in Took' <=> s \in Took
  BY <1>t, <1>1, <1>2 DEF Took, Matches, TypeOK, Seqs
<1> QED
  BY <1>1, <1>3, <1>4, <1>5, MoveInv

LEMMA SubscribeInv ==
    ASSUME IInv, NEW m \in Members, Subscribe(m)
    PROVE  IInv'
<1>t. TypeOK /\ Attended
  BY DEF IInv
<1>1. /\ pc[m] = "new" /\ pc' = [pc EXCEPT ![m] = "idle"] /\ created' = TRUE
      /\ \/ start' = start /\ cursor' = cursor
         \/ ~created /\ start' = Len(log) /\ cursor' = Len(log)
      /\ UNCHANGED <<log, age, pending, retries, counts, job, stopped, timer, done, dropped, taken>>
  BY DEF Subscribe, history
<1>2. TypeOK'
  <2>1. start' \in Nat /\ cursor' \in Nat /\ start' <= cursor' /\ cursor' <= Len(log')
    BY <1>t, <1>1 DEF TypeOK
  <2>2. pc' \in [Members -> {"new", "idle", "handling", "waiting", "ended"}]
    BY <1>t, <1>1 DEF TypeOK
  <2>3. Queue(retries')
    BY <1>t, <1>1 DEF TypeOK
  <2> QED
    BY <1>t, <1>1, <2>1, <2>2, <2>3 DEF TypeOK
<1>3. Attended' /\ Once(pending')
  BY <1>t, <1>1 DEF IInv, Attended, TypeOK
<1>4. \A s \in Seqs : s \in Took' <=> s \in Took
  <2>1. CASE start' = start /\ cursor' = cursor
    BY <1>1, <2>1 DEF Took, Matches
  <2>2. CASE ~created /\ start' = Len(log) /\ cursor' = Len(log)
    <3>1. start \in Nat /\ cursor = 0 /\ Len(log) \in Nat
      BY <1>t, <2>2 DEF TypeOK, Attended
    <3>2. Took = {} /\ Took' = {}
      BY <1>1, <2>2, <3>1 DEF Took, Seqs
    <3> QED
      BY <3>2
  <2> QED
    BY <1>1, <2>1, <2>2
<1> QED
  BY <1>1, <1>2, <1>3, <1>4, MoveInv

LEMMA MemberInv ==
    ASSUME IInv, NEW m \in Members, Awake(m) \/ Stop(m) \/ End(m)
    PROVE  IInv'
<1>t. TypeOK /\ Attended
  BY DEF IInv
<1>1. UNCHANGED <<log, age, created, start, cursor, pending, retries, counts, job, done, dropped, taken>>
  BY DEF Awake, Stop, End, brokerVars, history
<1>2. /\ \A n \in Members : pc'[n] = pc[n] \/ (pc[n] \in {"waiting", "idle"} /\ pc'[n] \in {"idle", "ended"})
      /\ pc' \in [Members -> {"new", "idle", "handling", "waiting", "ended"}]
  BY <1>t DEF Awake, Stop, End, TypeOK
<1>3. stopped' \in [Members -> BOOLEAN] /\ timer' \in [Members -> 0..Never]
  <2>1. CASE Stop(m)
    BY <1>t, <2>1 DEF Stop, TypeOK
  <2>2. CASE Awake(m)
    <3>1. Never \in 0..Never
      BY DEF Never
    <3> QED
      BY <1>t, <2>2, <3>1 DEF Awake, TypeOK
  <2>3. CASE End(m)
    BY <1>t, <2>3 DEF End, TypeOK
  <2> QED
    BY <2>1, <2>2, <2>3
<1>4. TypeOK'
  <2>1. Queue(retries')
    BY <1>t, <1>1 DEF TypeOK
  <2> QED
    BY <1>t, <1>1, <1>2, <1>3, <2>1 DEF TypeOK
<1>5. Attended' /\ Once(pending')
  BY <1>t, <1>1, <1>2 DEF IInv, Attended
<1>6. Took' = Took
  BY <1>1 DEF Took, Matches
<1> QED
  BY <1>1, <1>4, <1>5, <1>6, MoveInv

\* Time passes for the deliveries and the retries, in place.
LEMMA TickIs ==
    ASSUME TypeOK, Tick
    PROVE  /\ \A e \in pending' : \E d \in pending : e.seq = d.seq /\ e.by = d.by /\ e.left = Less(d.left)
           /\ \A d \in pending : \E e \in pending' : e.seq = d.seq /\ e.by = d.by /\ e.left = Less(d.left)
           /\ \A d \in Deliveries : [d EXCEPT !.left = Less(@)] \in Deliveries
           /\ \A r \in Range(retries') : \E q \in Range(retries) : r.seq = q.seq /\ r.left = Less(q.left)
           /\ \A q \in Range(retries) : \E r \in Range(retries') : r.seq = q.seq /\ r.left = Less(q.left)
           /\ Queue(retries')
<1>1. \A d \in Deliveries : /\ [d EXCEPT !.left = Less(@)] \in Deliveries
                            /\ [d EXCEPT !.left = Less(@)].seq = d.seq
                            /\ [d EXCEPT !.left = Less(@)].by = d.by
                            /\ [d EXCEPT !.left = Less(@)].left = Less(d.left)
  BY DEF Deliveries, Less
<1>2. pending' = {[d EXCEPT !.left = Less(@)] : d \in pending} /\ pending \subseteq Deliveries
  BY DEF Tick, TypeOK
<1>3. retries' = [i \in DOMAIN retries |-> [retries[i] EXCEPT !.left = Less(@)]]
  BY DEF Tick
<1>4. /\ retries \in Seq(Retries) /\ Len(retries) \in Nat /\ DOMAIN retries = 1..Len(retries)
      /\ \A i \in 1..Len(retries) : retries[i] \in Retries /\ retries[i].left \in Nat
  BY QueueIs DEF TypeOK
<1>5. \A r \in Retries : /\ [r EXCEPT !.left = Less(@)] \in Retries
                         /\ [r EXCEPT !.left = Less(@)].seq = r.seq
                         /\ [r EXCEPT !.left = Less(@)].left = Less(r.left)
  BY DEF Retries, Less
<1>6. /\ retries' \in Seq(Retries) /\ Len(retries') = Len(retries)
      /\ DOMAIN retries' = 1..Len(retries)
      /\ \A i \in 1..Len(retries) : retries'[i].seq = retries[i].seq /\ retries'[i].left = Less(retries[i].left)
  <2>1. retries' \in [1..Len(retries) -> Retries]
    BY <1>3, <1>4, <1>5
  <2>2. retries' \in Seq(Retries) /\ Len(retries') = Len(retries)
    BY <1>4, <2>1
  <2> QED
    BY <1>3, <1>4, <1>5, <2>1, <2>2
<1>7. Queue(retries')
  <2>1. \A a, b \in Nat : a <= b => Less(a) <= Less(b)
    BY DEF Less
  <2>2. /\ \A i, j \in 1..Len(retries) : i <= j => retries[i].left <= retries[j].left
        /\ \A i, j \in 1..Len(retries) : retries[i].seq = retries[j].seq => i = j
    BY DEF TypeOK, Queue
  <2>3. \A i, j \in 1..Len(retries') : i <= j => retries'[i].left <= retries'[j].left
    BY <1>4, <1>6, <2>1, <2>2
  <2>4. \A i, j \in 1..Len(retries') : retries'[i].seq = retries'[j].seq => i = j
    BY <1>6, <2>2
  <2> QED
    BY <1>6, <2>3, <2>4 DEF Queue
<1>8. /\ \A r \in Range(retries') : \E q \in Range(retries) : r.seq = q.seq /\ r.left = Less(q.left)
      /\ \A q \in Range(retries) : \E r \in Range(retries') : r.seq = q.seq /\ r.left = Less(q.left)
  BY <1>4, <1>6 DEF Range
<1>9. ASSUME NEW e \in pending' PROVE \E d \in pending : e.seq = d.seq /\ e.by = d.by /\ e.left = Less(d.left)
  <2>1. PICK d \in pending : e = [d EXCEPT !.left = Less(@)]
    BY <1>2
  <2> QED
    BY <1>1, <1>2, <2>1
<1>10. ASSUME NEW d \in pending PROVE \E e \in pending' : e.seq = d.seq /\ e.by = d.by /\ e.left = Less(d.left)
  <2>1. [d EXCEPT !.left = Less(@)] \in pending' /\ d \in Deliveries
    BY <1>2
  <2> QED
    BY <1>1, <2>1
<1> QED
  BY <1>1, <1>7, <1>8, <1>9, <1>10

LEMMA TickInv ==
    ASSUME IInv, Tick
    PROVE  IInv'
<1>t. TypeOK /\ Attended
  BY DEF IInv
<1>1. /\ age' = [e \in Events |-> IF age[e] < Window THEN age[e] + 1 ELSE Window]
      /\ pending' = {[d EXCEPT !.left = Less(@)] : d \in pending}
      /\ timer' = [m \in Members |-> IF timer[m] = Never THEN Never ELSE Less(timer[m])]
      /\ UNCHANGED <<log, created, start, cursor, counts, pc, job, stopped, done, dropped, taken>>
  BY DEF Tick, history
<1>2. TypeOK'
  <2>1. pending' \subseteq Deliveries /\ Queue(retries')
    BY <1>t, <1>1, TickIs DEF TypeOK
  <2>2. age' \in [Events -> 0..Window]
    BY <1>t, <1>1 DEF TypeOK
  <2>3. timer' \in [Members -> 0..Never]
    BY <1>t, <1>1 DEF TypeOK, Less, Never
  <2> QED
    BY <1>t, <1>1, <2>1, <2>2, <2>3 DEF TypeOK
<1>3. Attended'
  <2>1. ASSUME NEW e \in pending' PROVE job'[e.by] = e.seq
    <3>1. PICK d \in pending : e.seq = d.seq /\ e.by = d.by
      BY <1>t, TickIs
    <3> QED
      BY <1>t, <1>1, <3>1 DEF Attended
  <2> QED
    BY <1>t, <1>1, <2>1 DEF Attended
<1>4. Once(pending')
  <2> SUFFICES ASSUME NEW e \in pending', NEW f \in pending', e.seq = f.seq PROVE e = f
    BY DEF Once
  <2>1. PICK d \in pending : e = [d EXCEPT !.left = Less(@)]
    BY <1>1
  <2>2. PICK c \in pending : f = [c EXCEPT !.left = Less(@)]
    BY <1>1
  <2>3. d.seq = e.seq /\ c.seq = f.seq
    BY <1>t, <2>1, <2>2 DEF TypeOK, Deliveries
  <2> QED
    BY <2>1, <2>2, <2>3 DEF IInv, Once
<1>5. \A s \in Seqs : /\ Flies(s, pending') <=> Flies(s, pending)
                      /\ Waits(s, Range(retries')) <=> Waits(s, Range(retries))
  BY <1>t, TickIs DEF Flies, Waits
<1>6. Took' = Took
  BY <1>1 DEF Took, Matches
<1> QED
  BY <1>1, <1>2, <1>3, <1>4, <1>5, <1>6, MoveInv

LEMMA InvStep == IInv /\ [Next]_vars => IInv'
<1> SUFFICES ASSUME IInv, [Next]_vars PROVE IInv'
  OBVIOUS
<1>1. ASSUME NEW e \in Events, Publish(e) PROVE IInv'
  BY <1>1, PublishInv
<1>2. ASSUME NEW m \in Members, Subscribe(m) \/ Loop(m) \/ Handle(m) \/ Stop(m) PROVE IInv'
  BY <1>2, SubscribeInv, TakeRetryInv, TakeNextInv, WaitForWorkInv, MemberInv, SettleLateInv,
     SettleDoneInv, SettleFailedInv DEF Loop, Handle
<1>3. CASE Tick
  BY <1>3, TickInv
<1>4. CASE UNCHANGED vars
  <2>1. /\ TypeOK' /\ Attended' /\ Once(pending') /\ UNCHANGED <<counts, taken, done, dropped>>
    BY <1>4 DEF IInv, TypeOK, Attended, vars, brokerVars, members, history
  <2>2. Took' = Took /\ retries' = retries /\ pending' = pending
    BY <1>4 DEF Took, Matches, vars, brokerVars
  <2> QED
    BY <2>1, <2>2, MoveInv
<1> QED
  BY <1>1, <1>2, <1>3, <1>4 DEF Next

LEMMA Invariance == Spec => []IInv
BY InitInv, InvStep, PTL DEF Spec

-----------------------------------------------------------------------------
(* No wakeup is lost.                                                      *)

Scheduled == Range(retries) \cup pending

\* n has taken all there was, and wakes before anything scheduled comes due.
Rested(n) == Ahead = {} /\ \A e \in Scheduled : timer[n] # Never /\ timer[n] <= e.left

WakeInv == \A n \in Waiting \ woken : Rested(n)

LEMMA WakeInvIs == NoLostWakeup <=> WakeInv
<1> DEFINE lefts == {retries[i].left : i \in DOMAIN retries} \cup {d.left : d \in pending}
<1>1. lefts = {e.left : e \in Scheduled}
  BY DEF Scheduled, Range
<1>2. NoLostWakeup <=> \A n \in Waiting \ woken :
                          Ahead = {} /\ \A left \in lefts : timer[n] # Never /\ timer[n] <= left
  BY DEF NoLostWakeup
<1> QED
  BY <1>1, <1>2 DEF WakeInv, Rested

\* A member asleep stays rested while nothing is added.
LEMMA StaysRested ==
    ASSUME WakeInv, NEW n \in Waiting \ woken, timer'[n] = timer[n], Ahead' = {},
           Range(retries') \subseteq Range(retries), pending' \subseteq pending
    PROVE  Rested(n)'
<1>1. Scheduled' \subseteq Scheduled /\ Rested(n)
  BY DEF Scheduled, WakeInv, Range
<1> QED
  BY <1>1 DEF Rested

\* A sweep that requeues nothing adds nothing, and one that does wakes all.
LEMMA SettleWakes ==
    ASSUME IInv, WakeInv, NEW m \in Members, Handle(m)
    PROVE  WakeInv'
<1>1. /\ Waiting' = Waiting
      /\ UNCHANGED <<log, cursor>>
      /\ pending' \subseteq pending
      /\ \A n \in Waiting : timer'[n] = timer[n]
  <2>1. /\ pc[m] = "handling" /\ pc' = [pc EXCEPT ![m] = "idle"]
        /\ timer' = [timer EXCEPT ![m] = Never]
        /\ UNCHANGED <<log, cursor>> /\ pending' \subseteq InFlight
    BY DEF Handle, SettleLate, SettleDone, SettleFailed, brokerVars
  <2> QED
    BY <2>1, SweepTypes DEF IInv, TypeOK, Waiting
<1>2. Ahead' = Ahead
  BY <1>1 DEF Ahead, Matches
<1>3. woken' = Waiting \/ (retries' \in Swept /\ Requeued = {} /\ woken' = woken)
  BY DEF Handle, SettleLate, SettleDone, SettleFailed, Waken
<1>4. CASE woken' = Waiting
  BY <1>1, <1>4 DEF WakeInv
<1>5. CASE retries' \in Swept /\ Requeued = {} /\ woken' = woken
  <2>1. retries' = retries
    BY <1>5, NothingSwept
  <2>2. ASSUME NEW n \in Waiting \ woken PROVE Rested(n)'
    <3>1. Ahead = {}
      BY DEF WakeInv, Rested
    <3> QED
      BY <1>1, <1>2, <2>1, <3>1, StaysRested
  <2> QED
    BY <1>1, <1>5, <2>2 DEF WakeInv
<1> QED
  BY <1>3, <1>4, <1>5

\* A due retry is taken: whoever sleeps wakes now.
LEMMA TakeRetryWakes ==
    ASSUME IInv, WakeInv, NEW m \in Members, TakeRetry(m)
    PROVE  WakeInv'
<1>t. TypeOK
  BY DEF IInv
<1>1. PICK q \in Swept : Due(q) /\ retries' = Tail(q) /\ Deliver(m, Head(q).seq)
  BY DEF TakeRetry
<1>2. /\ pc[m] = "idle" /\ pc' = [pc EXCEPT ![m] = "handling"]
      /\ timer' = [timer EXCEPT ![m] = AckWait]
      /\ woken' = IF Requeued # {} THEN Waiting ELSE woken
      /\ UNCHANGED <<log, cursor>>
  BY <1>1 DEF TakeRetry, MayTake, Deliver, Waken, brokerVars
<1>3. Waiting' = Waiting /\ \A n \in Waiting : timer'[n] = timer[n]
  BY <1>t, <1>2 DEF Waiting, TypeOK
<1>4. CASE Requeued # {}
  BY <1>2, <1>3, <1>4 DEF WakeInv
<1>5. CASE Requeued = {}
  <2>1. q = retries
    BY <1>5, NothingSwept
  <2>2. PICK e \in Range(retries) : e.left = 0
    BY <1>1, <1>t, <2>1, NotDue DEF TypeOK
  <2>3. ASSUME NEW n \in Waiting \ woken PROVE Rested(n)'
    <3>1. Rested(n) /\ e \in Scheduled
      BY <2>2 DEF WakeInv, Scheduled
    <3>2. timer[n] \in 0..Never /\ timer[n] # Never /\ timer[n] <= 0
      BY <1>t, <2>2, <3>1 DEF Rested, TypeOK, Waiting
    <3>3. timer'[n] = 0 /\ 0 # Never /\ timer'[n] # Never
      BY <1>3, <3>2 DEF Never
    <3>4. Ahead' = {}
      BY <1>2, <3>1 DEF Rested, Ahead, Matches
    <3>5. \A f \in Scheduled' : f.left \in Nat
      <4>1. IInv'
        BY TakeRetryInv
      <4>2. \A f \in pending' : f.left \in Nat
        BY <4>1 DEF IInv, TypeOK, Deliveries
      <4>3. Queue(retries')
        BY <4>1 DEF IInv, TypeOK
      <4>4. \A f \in Range(retries') : f.left \in Nat
        BY <4>3, QueueIs DEF Range
      <4> QED
        BY <4>2, <4>4 DEF Scheduled, Range
    <3> QED
      BY <3>3, <3>4, <3>5 DEF Rested
  <2> QED
    BY <1>2, <1>3, <1>5, <2>3 DEF WakeInv
<1> QED
  BY <1>4, <1>5

\* An event is ahead only while nobody sleeps.
LEMMA TakeNextWakes ==
    ASSUME IInv, WakeInv, NEW m \in Members, TakeNext(m)
    PROVE  WakeInv'
<1>1. PICK t \in Ahead : Deliver(m, t)
  BY DEF TakeNext
<1>2. Waiting' \subseteq Waiting /\ (woken' = Waiting \/ woken' = woken)
  BY <1>1 DEF Deliver, Waken, Waiting, IInv, TypeOK
<1>3. Waiting \ woken = {}
  BY DEF WakeInv, Rested
<1> QED
  BY <1>2, <1>3 DEF WakeInv

LEMMA WaitForWorkWakes ==
    ASSUME IInv, WakeInv, NEW m \in Members, WaitForWork(m)
    PROVE  WakeInv'
<1>t. TypeOK
  BY DEF IInv
<1>1. /\ pc[m] = "idle" /\ cursor' = Len(log) /\ Ahead = {} /\ pending' = InFlight
      /\ pc' = [pc EXCEPT ![m] = "waiting"] /\ timer' = [timer EXCEPT ![m] = NextDue]
      /\ UNCHANGED <<log, retries, woken>>
  BY DEF WaitForWork, MayTake, brokerVars
<1>2. Ahead' = {}
  BY <1>t, <1>1 DEF Ahead, TypeOK, Seqs
<1>3. pending' \subseteq pending
  BY <1>t, <1>1, SweepTypes
<1>4. ASSUME NEW n \in Waiting \ woken, n # m PROVE Rested(n)'
  <2>1. timer'[n] = timer[n]
    BY <1>t, <1>1, <1>4 DEF TypeOK, Waiting
  <2> QED
    BY <1>1, <1>2, <1>3, <2>1, StaysRested
<1>5. Rested(m)'
  <2> DEFINE lefts == {retries[i].left : i \in DOMAIN retries} \cup {d.left : d \in InFlight}
  <2>1. lefts = {e.left : e \in Scheduled'}
    BY <1>1 DEF Scheduled, Range
  <2>2. lefts \subseteq Nat /\ Never \notin lefts
    <3>1. \A i \in DOMAIN retries : retries[i].left \in 0..RetryDelay
      BY <1>t, QueueIs DEF TypeOK
    <3>2. \A d \in InFlight : d.left \in 0..AckWait
      BY <1>t, SweepTypes DEF Deliveries
    <3> QED
      BY <3>1, <3>2 DEF Never
  <2>3. timer'[m] = IF lefts = {} THEN Never ELSE Min(lefts)
    BY <1>t, <1>1 DEF TypeOK, NextDue
  <2> HIDE DEF lefts
  <2>4. ASSUME NEW left \in lefts PROVE timer'[m] # Never /\ timer'[m] <= left
    <3>1. Min(lefts) \in lefts /\ Min(lefts) <= left
      BY <2>2, Smallest DEF Min
    <3> QED
      BY <2>2, <2>3, <3>1
  <2> QED
    BY <1>2, <2>1, <2>4 DEF Rested
<1>6. Waiting' = Waiting \cup {m}
  BY <1>t, <1>1 DEF Waiting, TypeOK
<1> QED
  BY <1>1, <1>4, <1>5, <1>6 DEF WakeInv

LEMMA MemberWakes ==
    ASSUME IInv, WakeInv, NEW m \in Members, Awake(m) \/ Stop(m) \/ End(m)
    PROVE  WakeInv'
<1>t. TypeOK
  BY DEF IInv
<1>1. UNCHANGED <<log, cursor, pending, retries>>
  BY DEF Awake, Stop, End, brokerVars
<1>2. /\ Waiting' \ woken' \subseteq Waiting \ woken
      /\ \A n \in Waiting' \ woken' : timer'[n] = timer[n]
  <2>1. CASE Awake(m)
    <3>1. Waiting' = Waiting \ {m}
      BY <1>t, <2>1 DEF Awake, Waiting, TypeOK
    <3>2. woken' = woken \ {m} /\ timer' = [timer EXCEPT ![m] = Never]
      BY <2>1 DEF Awake
    <3> QED
      BY <1>t, <3>1, <3>2 DEF TypeOK, Waiting
  <2>2. CASE Stop(m) \/ End(m)
    <3>1. Waiting' \subseteq Waiting
      BY <1>t, <2>2 DEF Stop, End, Waiting, TypeOK
    <3>2. timer' = timer /\ woken' = woken
      BY <2>2 DEF Stop, End
    <3> QED
      BY <3>1, <3>2
  <2> QED
    BY <2>1, <2>2
<1>3. Ahead' = Ahead
  BY <1>1 DEF Ahead, Matches
<1>4. ASSUME NEW n \in Waiting' \ woken' PROVE Rested(n)'
  <2>1. n \in Waiting \ woken /\ Ahead = {}
    BY <1>2 DEF WakeInv, Rested
  <2> QED
    BY <1>1, <1>2, <1>3, <2>1, StaysRested
<1> QED
  BY <1>4 DEF WakeInv

LEMMA TickWakes ==
    ASSUME IInv, WakeInv, Tick
    PROVE  WakeInv'
<1>t. TypeOK
  BY DEF IInv
<1>1. /\ timer' = [m \in Members |-> IF timer[m] = Never THEN Never ELSE Less(timer[m])]
      /\ UNCHANGED <<log, cursor, pc, woken>>
  BY DEF Tick
<1>2. Ahead' = Ahead /\ Waiting' = Waiting
  BY <1>1 DEF Ahead, Matches, Waiting
<1>3. ASSUME NEW f \in Scheduled' PROVE \E e \in Scheduled : e.left \in Nat /\ f.left = Less(e.left)
  <2>1. CASE f \in pending'
    <3>1. PICK d \in pending : f.left = Less(d.left)
      BY <1>t, <2>1, TickIs
    <3> QED
      BY <1>t, <3>1 DEF Scheduled, TypeOK, Deliveries
  <2>2. CASE f \in Range(retries')
    <3>1. PICK e \in Range(retries) : f.left = Less(e.left)
      BY <1>t, <2>2, TickIs
    <3>2. e.left \in Nat
      BY <1>t, <3>1, QueueIs DEF TypeOK, Range
    <3> QED
      BY <3>1, <3>2 DEF Scheduled
  <2> QED
    BY <2>1, <2>2 DEF Scheduled, Range
<1>4. ASSUME NEW n \in Waiting \ woken PROVE Rested(n)'
  <2>1. Rested(n) /\ timer[n] \in 0..Never
    BY <1>t DEF WakeInv, Waiting, TypeOK
  <2>2. ASSUME NEW f \in Scheduled' PROVE timer'[n] # Never /\ timer'[n] <= f.left
    <3>1. PICK e \in Scheduled : e.left \in Nat /\ f.left = Less(e.left)
      BY <1>3
    <3>2. timer[n] # Never /\ timer[n] <= e.left /\ timer'[n] = Less(timer[n])
      BY <1>1, <2>1, <3>1 DEF Rested, Waiting
    <3> QED
      BY <2>1, <3>1, <3>2 DEF Less, Never
  <2> QED
    BY <1>2, <2>1, <2>2 DEF Rested
<1> QED
  BY <1>1, <1>2, <1>4 DEF WakeInv

LEMMA WakeStep == IInv /\ WakeInv /\ [Next]_vars => WakeInv'
<1> SUFFICES ASSUME IInv, WakeInv, [Next]_vars PROVE WakeInv'
  OBVIOUS
<1>t. TypeOK /\ Attended
  BY DEF IInv
<1>1. ASSUME NEW e \in Events, Publish(e) PROVE WakeInv'
  <2>1. Waiting' = Waiting /\ woken' = Waiting
    BY <1>1 DEF Publish, Waiting, members
  <2> QED
    BY <2>1 DEF WakeInv
<1>2. ASSUME NEW m \in Members, Subscribe(m) PROVE WakeInv'
  <2>1. /\ pc[m] = "new" /\ pc' = [pc EXCEPT ![m] = "idle"]
        /\ created => cursor' = cursor
        /\ UNCHANGED <<log, pending, retries, timer, woken>>
    BY <1>2 DEF Subscribe
  <2>2. Waiting' = Waiting
    BY <1>t, <2>1 DEF Waiting, TypeOK
  <2>3. ASSUME NEW n \in Waiting \ woken PROVE Rested(n)'
    <3>1. created /\ Ahead = {}
      BY <1>t DEF WakeInv, Rested, Attended, Waiting
    <3>2. Ahead' = Ahead
      BY <2>1, <3>1 DEF Ahead, Matches
    <3> QED
      BY <2>1, <3>1, <3>2, StaysRested
  <2> QED
    BY <2>1, <2>2, <2>3 DEF WakeInv
<1>3. ASSUME NEW m \in Members, Loop(m) \/ Handle(m) \/ Stop(m) PROVE WakeInv'
  BY <1>3, TakeRetryWakes, TakeNextWakes, WaitForWorkWakes, MemberWakes, SettleWakes DEF Loop
<1>4. CASE Tick
  BY <1>4, TickWakes
<1>5. CASE UNCHANGED vars
  BY <1>5 DEF WakeInv, Rested, Scheduled, Ahead, Matches, Waiting, Range, vars, brokerVars, members
<1> QED
  BY <1>1, <1>2, <1>3, <1>4, <1>5 DEF Next

\* A member that waits on a channel nobody closed has missed nothing: no event
\* it wants is ahead, and its timer ends no later than anything scheduled comes
\* due. It is what take's wait, publish and redeliver keep under the mutex.
THEOREM WakeupsAreKept == Spec => []NoLostWakeup
<1>1. Init => WakeInv
  BY DEF Init, WakeInv, Waiting
<1>2. WakeInv => NoLostWakeup
  BY WakeInvIs
<1> QED
  BY <1>1, <1>2, InitInv, InvStep, WakeStep, PTL DEF Spec

-----------------------------------------------------------------------------
(* The broker keeps the contract.                                          *)

\* The contract's variables.
St == [s \in Seqs |-> Fate(s)]
Ow == [s \in Seqs |-> IF Holders(s) = {} THEN Nobody ELSE CHOOSE m \in Holders(s) : TRUE]
Md == [s \in Seqs |-> IF MaxDeliver = 0 THEN 0 ELSE taken[s]]
Recent == {e \in Events : age[e] < Window}
Begin == IF created THEN start ELSE -1

\* What became of s, and who has it, with deliveries P, retries R, counts C,
\* settled D and dropped X: Fate and Holders, of any of these.
Out(s, P) == \E d \in P : d.seq = s /\ d.left > 0
Stage(s, P, R, C, D, X) ==
    IF s \in D THEN "settled"
    ELSE IF s \in X THEN "given up"
    ELSE IF Out(s, P) THEN "out"
    ELSE IF Flies(s, P) THEN (IF SpentIn(C, s) THEN "given up" ELSE "owed")
    ELSE IF DueIn(s, R) THEN "owed"
    ELSE IF Waits(s, R) THEN "waiting" ELSE "new"
HoldersIn(s, P) == {m \in Members : \E d \in P : d.seq = s /\ d.by = m /\ d.left > 0}
Chosen(H) == IF H = {} THEN Nobody ELSE CHOOSE m \in H : TRUE
Keeper(s, P) == Chosen(HoldersIn(s, P))

Stages == [s \in Seqs |-> Stage(s, pending, Range(retries), counts, done, dropped)]
Keepers == [s \in Seqs |-> Keeper(s, pending)]

LEMMA StateIs == IInv => St = Stages
<1> SUFFICES ASSUME IInv, NEW s \in Seqs
             PROVE  Fate(s) = Stage(s, pending, Range(retries), counts, done, dropped)
  BY DEF St, Stages
<1> DEFINE flying == {d \in pending : d.seq = s}
           queued == {e \in Range(retries) : e.seq = s}
<1>1. /\ Sound(s, pending, Range(retries), counts, taken, done, dropped, Took)
      /\ flying # {} <=> Flies(s, pending)
      /\ (\E d \in flying : d.left > 0) <=> Out(s, pending)
      /\ queued # {} <=> Waits(s, Range(retries))
      /\ (\E e \in queued : e.left = 0) <=> DueIn(s, Range(retries))
      /\ Out(s, pending) => Flies(s, pending)
      /\ DueIn(s, Range(retries)) => Waits(s, Range(retries))
      /\ Spent(s) <=> SpentIn(counts, s)
  BY DEF IInv, Flies, Out, Waits, DueIn, Spent, SpentIn
<1>2. Fate(s) = CASE s \in done -> "settled"
                  [] s \in dropped -> "given up"
                  [] flying # {} ->
                       IF \E d \in flying : d.left > 0 THEN "out" ELSE IF Spent(s) THEN "given up" ELSE "owed"
                  [] queued # {} -> IF \E e \in queued : e.left = 0 THEN "owed" ELSE "waiting"
                  [] OTHER -> "new"
  BY DEF Fate
<1> HIDE DEF flying, queued
<1>3. CASE s \in done
  BY <1>1, <1>2, <1>3 DEF Sound, Stage
<1>4. CASE s \in dropped
  BY <1>1, <1>2, <1>4 DEF Sound, Stage
<1>5. CASE Flies(s, pending)
  BY <1>1, <1>2, <1>5 DEF Sound, Stage
<1>6. CASE Waits(s, Range(retries))
  BY <1>1, <1>2, <1>6 DEF Sound, Stage
<1>7. CASE s \notin done /\ s \notin dropped /\ ~Flies(s, pending) /\ ~Waits(s, Range(retries))
  BY <1>1, <1>2, <1>7 DEF Sound, Stage
<1> QED
  BY <1>3, <1>4, <1>5, <1>6, <1>7

LEMMA OwnerIs == Ow = Keepers
BY DEF Ow, Keepers, Keeper, Chosen, HoldersIn, Holders

LEMMA NextIs == IInv' => St' = Stages' /\ Ow' = Keepers'
<1>1. IInv' => (St = Stages)'
  BY StateIs, PTL
<1>2. (Ow = Keepers)'
  BY OwnerIs, PTL
<1> QED
  BY <1>1, <1>2

LEMMA NextAre ==
    ASSUME NEW x \in Seqs
    PROVE  /\ Stages'[x] = Stage(x, pending', Range(retries'), counts', done', dropped')
           /\ Keepers'[x] = Keeper(x, pending')
<1>1. Stages' = [z \in Seqs |-> Stage(z, pending', Range(retries'), counts', done', dropped')]
  BY DEF Stages, Stage, Out, Flies, SpentIn, DueIn, Waits, Range
<1>2. Keepers' = [z \in Seqs |-> Keeper(z, pending')]
  BY DEF Keepers, Keeper, Chosen, HoldersIn
<1> QED
  BY <1>1, <1>2

\* A delivery out is its member's.
LEMMA KeeperIs ==
    ASSUME NEW P, P \subseteq Deliveries, Once(P), NEW s
    PROVE  /\ \A d \in P : d.seq = s /\ d.left > 0 => Keeper(s, P) = d.by
           /\ ~Out(s, P) => Keeper(s, P) = Nobody
           /\ \A m \in Members : (\A d \in P : ~(d.seq = s /\ d.by = m /\ d.left > 0)) => Keeper(s, P) # m
<1>1. ASSUME NEW d \in P, d.seq = s, d.left > 0 PROVE Keeper(s, P) = d.by
  <2>1. d.by \in Members
    BY DEF Deliveries
  <2>2. HoldersIn(s, P) = {d.by}
    BY <1>1, <2>1 DEF Once, HoldersIn
  <2> QED
    BY <2>2 DEF Keeper, Chosen
<1>2. ASSUME ~Out(s, P) PROVE Keeper(s, P) = Nobody
  <2>1. HoldersIn(s, P) = {}
    BY <1>2 DEF Out, HoldersIn
  <2> QED
    BY <2>1 DEF Keeper, Chosen
<1>3. ASSUME NEW m \in Members, \A d \in P : ~(d.seq = s /\ d.by = m /\ d.left > 0)
      PROVE  Keeper(s, P) # m
  <2>1. m \notin HoldersIn(s, P)
    BY <1>3 DEF HoldersIn
  <2>2. HoldersIn(s, P) # {} => Keeper(s, P) \in HoldersIn(s, P)
    BY DEF Keeper, Chosen
  <2>3. HoldersIn(s, P) = {} => Keeper(s, P) = Nobody
    BY DEF Keeper, Chosen
  <2> QED
    BY <2>1, <2>2, <2>3, NobodyAssumption
<1> QED
  BY <1>1, <1>2, <1>3

\* To the contract a sweep is nothing: what expired was owed, or given up, before.
LEMMA SweepStage ==
    ASSUME IInv, NEW q \in Swept, NEW s \in Seqs
    PROVE  /\ Stage(s, InFlight, Range(q), CountsSwept, done, dropped \cup Terminated) = Stages[s]
           /\ Out(s, InFlight) <=> Out(s, pending)
           /\ Keeper(s, InFlight) = Keepers[s]
<1>1. Sound(s, pending, Range(retries), counts, taken, done, dropped, Took) /\ TypeOK /\ Once(pending)
  BY DEF IInv
<1>2. \A d : d.left > 0 => (d \in InFlight <=> d \in pending)
  BY DEF InFlight, Expired
<1>3. Out(s, InFlight) <=> Out(s, pending)
  BY <1>2 DEF Out
<1>4. HoldersIn(s, InFlight) = HoldersIn(s, pending)
  BY <1>2 DEF HoldersIn
<1>5. Added(Range(retries), Requeued, 0, Range(q))
  BY SweptAdds
<1>6. /\ Waits(s, Range(q)) <=> Waits(s, Range(retries)) \/ s \in Requeued
      /\ DueIn(s, Range(q)) <=> DueIn(s, Range(retries)) \/ s \in Requeued
  BY <1>5, AddedIs
<1>7. /\ s \in Requeued <=> Flies(s, pending) /\ ~Out(s, pending) /\ ~SpentIn(counts, s)
      /\ s \in Terminated <=> Flies(s, pending) /\ ~Out(s, pending) /\ SpentIn(counts, s)
      /\ Flies(s, InFlight) <=> Out(s, pending)
  <2>1. s \in SeqsOf(Expired) <=> \E d \in pending : d.seq = s /\ d.left = 0
    BY DEF SeqsOf, Expired
  <2>2. \A d \in pending : d.left \in Nat
    BY <1>1 DEF TypeOK, Deliveries
  <2>3. (\E d \in pending : d.seq = s /\ d.left = 0) <=> Flies(s, pending) /\ ~Out(s, pending)
    BY <1>1, <2>2 DEF Flies, Out, Once
  <2>4. Flies(s, InFlight) <=> Out(s, pending)
    BY <2>2 DEF Flies, InFlight, Expired, Out
  <2> QED
    BY <2>1, <2>3, <2>4 DEF Requeued, Terminated, Spent, SpentIn
<1>8. s \notin Terminated => (SpentIn(CountsSwept, s) <=> SpentIn(counts, s))
  BY DEF CountsSwept, SpentIn
<1>9. Stage(s, InFlight, Range(q), CountsSwept, done, dropped \cup Terminated) =
      Stage(s, pending, Range(retries), counts, done, dropped)
  BY <1>1, <1>3, <1>6, <1>7, <1>8 DEF Stage, Sound
<1> QED
  BY <1>3, <1>4, <1>9 DEF Stages, Keepers, Keeper

\* m's delivery is settled one way, and nothing else but the sweep is done.
LEMMA SettleMaps ==
    ASSUME IInv, IInv', NEW m \in Members, Current(m) # {}, NEW q \in Swept, NEW next,
           pending' = InFlight \ Current(m), job' = [job EXCEPT ![m] = 0],
           UNCHANGED <<brokerVars, taken>>,
           \A x \in Seqs : x # job[m] =>
               /\ x \in done' <=> x \in done
               /\ x \in dropped' <=> x \in dropped \cup Terminated
               /\ counts'[x] = CountsSwept[x]
               /\ Waits(x, Range(retries')) <=> Waits(x, Range(q))
               /\ DueIn(x, Range(retries')) <=> DueIn(x, Range(q)),
           Stage(job[m], pending', Range(retries'), counts', done', dropped') = next
    PROVE  Contract!Settle(m, next)
<1> DEFINE t == job[m]
<1>t. TypeOK /\ Once(pending) /\ InFlight \subseteq pending /\ pending \subseteq Deliveries
  BY SweepTypes DEF IInv, TypeOK
<1>1. /\ t \in Seqs /\ Flies(t, InFlight)
      /\ \A x : Flies(x, InFlight \ Current(m)) <=> Flies(x, InFlight) /\ x # t
  BY CurrentIs
<1>2. PICK d \in InFlight : d.seq = t /\ d.by = m
  BY DEF Current
<1>3. d.left > 0 /\ d \in pending
  BY <1>t, <1>2 DEF InFlight, Expired, Deliveries
<1>4. Stages[t] = "out" /\ Keepers[t] = m
  <2>1. Out(t, pending) /\ Flies(t, pending)
    BY <1>2, <1>3 DEF Out, Flies
  <2>2. t \notin done /\ t \notin dropped
    BY <1>1, <2>1 DEF IInv, Sound
  <2>3. Keeper(t, pending) = m
    BY <1>t, <1>2, <1>3, KeeperIs
  <2> QED
    BY <1>1, <2>1, <2>2, <2>3 DEF Stages, Stage, Keepers
<1>5. ASSUME NEW x \in Seqs, x # t PROVE Stages'[x] = Stages[x] /\ Keepers'[x] = Keepers[x]
  <2>1. \A e : e.seq = x => (e \in InFlight \ Current(m) <=> e \in InFlight)
    BY <1>5 DEF Current
  <2>2. Out(x, pending') <=> Out(x, InFlight)
    BY <2>1 DEF Out
  <2>3. Keeper(x, pending') = Keeper(x, InFlight)
    <3>1. HoldersIn(x, InFlight \ Current(m)) = HoldersIn(x, InFlight)
      BY <2>1 DEF HoldersIn
    <3> QED
      BY <3>1 DEF Keeper
  <2>4. Flies(x, pending') <=> Flies(x, InFlight)
    BY <1>1, <1>5
  <2>5. Stage(x, pending', Range(retries'), counts', done', dropped') =
        Stage(x, InFlight, Range(q), CountsSwept, done, dropped \cup Terminated)
    BY <1>5, <2>2, <2>4 DEF Stage, SpentIn
  <2> QED
    BY <2>3, <2>5, SweepStage, NextAre
<1>6. Stages'[t] = next /\ Keepers'[t] = Nobody
  <2>2. ~Out(t, pending')
    BY <1>1 DEF Out, Flies
  <2>3. Keeper(t, pending') = Nobody
    <3>1. pending' \subseteq Deliveries /\ Once(pending')
      BY <1>t DEF Once
    <3> QED
      BY <2>2, <3>1, KeeperIs
  <2> QED
    BY <1>1, <2>3, NextAre
<1>7. St = Stages /\ Ow = Keepers /\ St' = Stages' /\ Ow' = Keepers'
  BY StateIs, OwnerIs, NextIs
<1>8. St' = [St EXCEPT ![t] = next]
  <2>1. Stages' = [Stages EXCEPT ![t] = next]
    BY <1>1, <1>5, <1>6 DEF Stages
  <2> QED
    BY <1>7, <2>1
<1>9. Ow' = [Ow EXCEPT ![t] = Nobody]
  <2>1. Keepers' = [Keepers EXCEPT ![t] = Nobody]
    BY <1>1, <1>5, <1>6 DEF Keepers
  <2> QED
    BY <1>7, <2>1
<1>10. Md' = Md /\ Recent' = Recent /\ Begin' = Begin /\ log' = log
  BY DEF Md, Recent, Begin, brokerVars
<1>11. t # 0 /\ Ow[t] = m /\ St[t] = "out"
  BY <1>1, <1>4, <1>7 DEF Seqs
<1> QED
  BY <1>8, <1>9, <1>10, <1>11 DEF Contract!Settle, Contract!Nobody, Nobody, St, Ow, Md, Recent, Begin, Contract!Seqs, Seqs

LEMMA SettleDoneMaps ==
    ASSUME IInv, IInv', NEW m \in Members, SettleDone(m)
    PROVE  Contract!Done(m)
<1> DEFINE t == job[m]
<1>1. /\ Current(m) # {} /\ pending' = InFlight \ Current(m) /\ job' = [job EXCEPT ![m] = 0]
      /\ retries' \in Swept /\ UNCHANGED <<brokerVars, taken>>
      /\ done' = done \cup {t} /\ dropped' = dropped \cup Terminated
      /\ counts' = [CountsSwept EXCEPT ![t] = 0]
  BY DEF SettleDone
<1>2. CountsSwept \in [Seqs -> 0..CountCap] /\ t \in Seqs
  BY <1>1, SweepTypes, CurrentIs DEF IInv
<1>3. \A x \in Seqs : x # t => (x \in done' <=> x \in done) /\ counts'[x] = CountsSwept[x]
  BY <1>1, <1>2
<1>4. Stage(t, pending', Range(retries'), counts', done', dropped') = "settled"
  BY <1>1 DEF Stage
<1>5. PICK q \in Swept : retries' = q
  BY <1>1
<1>6. Contract!Settle(m, "settled")
  BY <1>1, <1>3, <1>4, <1>5, SettleMaps
<1> QED
  BY <1>6 DEF Contract!Done

LEMMA SettleFailedMaps ==
    ASSUME IInv, IInv', NEW m \in Members, SettleFailed(m)
    PROVE  Contract!Fail(m)
<1> DEFINE t == job[m]
           made == IF MaxDeliver = 0 THEN 0 ELSE taken[t]
<1>1. /\ Current(m) # {} /\ pending' = InFlight \ Current(m) /\ job' = [job EXCEPT ![m] = 0]
      /\ UNCHANGED <<brokerVars, taken>> /\ done' = done
  BY DEF SettleFailed
<1>2. /\ CountsSwept \in [Seqs -> 0..CountCap]
      /\ t \in Seqs /\ Flies(t, InFlight) /\ t \notin Terminated
      /\ \A x : Flies(x, InFlight \ Current(m)) <=> Flies(x, InFlight) /\ x # t
  BY <1>1, SweepTypes, CurrentIs DEF IInv
<1>3. t \notin done /\ t \notin dropped /\ counts[t] = taken[t] /\ (MaxDeliver > 0 => taken[t] <= MaxDeliver)
  <2>1. Flies(t, pending)
    BY <1>2, SweepTypes DEF Flies, IInv
  <2> QED
    BY <1>2, <2>1 DEF IInv, Sound
<1>4. Spent(t) <=> MaxDeliver > 0 /\ Md[t] = MaxDeliver
  BY <1>2, <1>3 DEF Spent, Md, IInv, TypeOK
<1>5. ASSUME NEW next \in {"waiting", "owed"},
             Contract!Settle(m, IF Spent(t) THEN "given up" ELSE next)
      PROVE  Contract!Fail(m)
  BY <1>4, <1>5 DEF Contract!Fail, Contract!Unless, Md
<1>6. ~Flies(t, pending') /\ ~Out(t, pending')
  BY <1>1, <1>2 DEF Flies, Out
<1>7. CASE Spent(t)
  <2>1. /\ retries' \in Swept /\ dropped' = dropped \cup Terminated \cup {t}
        /\ counts' = [CountsSwept EXCEPT ![t] = 0]
    BY <1>7 DEF SettleFailed
  <2>2. PICK q \in Swept : retries' = q
    BY <2>1
  <2>3. \A x \in Seqs : x # t => counts'[x] = CountsSwept[x]
                                 /\ (x \in dropped' <=> x \in dropped \cup Terminated)
    BY <1>2, <2>1
  <2>4. Stage(t, pending', Range(retries'), counts', done', dropped') = "given up"
    BY <1>1, <1>3, <2>1 DEF Stage
  <2>5. Contract!Settle(m, "given up")
    BY <1>1, <2>2, <2>3, <2>4, SettleMaps
  <2> QED
    BY <1>5, <1>7, <2>5
<1>8. CASE ~Spent(t)
  <2>1. PICK q \in Swept : retries' = Insert(q, <<t>>, RetryDelay)
    BY <1>8 DEF SettleFailed
  <2>2. counts' = CountsSwept /\ dropped' = dropped \cup Terminated
    BY <1>8 DEF SettleFailed
  <2> DEFINE put == [seq |-> t, left |-> RetryDelay]
             next == IF RetryDelay = 0 THEN "owed" ELSE "waiting"
  <2>3. Range(retries') = Range(q) \cup {put}
    BY <1>1, <2>1, PutBackIs
  <2>4. put.seq = t /\ put.left = RetryDelay
    OBVIOUS
  <2> HIDE DEF put
  <2>5. \A x \in Seqs : x # t => /\ Waits(x, Range(retries')) <=> Waits(x, Range(q))
                                 /\ DueIn(x, Range(retries')) <=> DueIn(x, Range(q))
    BY <2>3, <2>4 DEF Waits, DueIn
  <2>6. Waits(t, Range(retries'))
    BY <2>3, <2>4 DEF Waits
  <2>7. DueIn(t, Range(retries')) <=> RetryDelay = 0
    <3>1. Sound(t, InFlight, Range(q), CountsSwept, taken, done, dropped \cup Terminated, Took)
      BY <1>2, SweepSound
    <3>2. ~DueIn(t, Range(q))
      BY <1>2, <3>1 DEF Sound, Waits, DueIn
    <3> QED
      BY <2>3, <2>4, <3>2 DEF DueIn
  <2>8. Stage(t, pending', Range(retries'), counts', done', dropped') = next
    BY <1>1, <1>2, <1>3, <1>6, <2>2, <2>6, <2>7 DEF Stage
  <2>9. Contract!Settle(m, next)
    BY <1>1, <2>2, <2>5, <2>8, SettleMaps
  <2> QED
    BY <1>5, <1>8, <2>9
<1> QED
  BY <1>7, <1>8

LEMMA SettleLateMaps ==
    ASSUME IInv, IInv', NEW m \in Members, SettleLate(m)
    PROVE  Contract!Ignore(m)
<1> DEFINE t == job[m]
<1>t. TypeOK /\ Attended /\ Once(pending) /\ InFlight \subseteq pending /\ pending \subseteq Deliveries
  BY SweepTypes DEF IInv, TypeOK
<1>1. /\ pc[m] = "handling" /\ Current(m) = {} /\ pending' = InFlight /\ job' = [job EXCEPT ![m] = 0]
      /\ counts' = CountsSwept /\ dropped' = dropped \cup Terminated /\ done' = done
      /\ UNCHANGED <<brokerVars, taken>>
  BY DEF SettleLate
<1>2. PICK q \in Swept : retries' = q
  BY DEF SettleLate
<1>3. t \in Seqs
  BY <1>t, <1>1 DEF Attended, TypeOK
<1>4. St' = St /\ Ow' = Ow
  <2>1. \A x \in Seqs : Stages'[x] = Stages[x] /\ Keepers'[x] = Keepers[x]
    BY <1>1, <1>2, SweepStage, NextAre
  <2>2. Stages' = Stages /\ Keepers' = Keepers
    BY <2>1 DEF Stages, Keepers
  <2> QED
    BY <2>2, StateIs, OwnerIs, NextIs
<1>5. Ow[t] # m
  <2>1. \A d \in pending : ~(d.seq = t /\ d.by = m /\ d.left > 0)
    BY <1>1 DEF Current, InFlight, Expired
  <2>2. Keeper(t, pending) # m
    BY <1>t, <2>1, KeeperIs
  <2> QED
    BY <1>3, <2>2, OwnerIs DEF Keepers
<1>6. Md' = Md /\ Recent' = Recent /\ Begin' = Begin /\ log' = log
  BY <1>1 DEF Md, Recent, Begin, brokerVars
<1>7. t # 0
  BY <1>3 DEF Seqs
<1> QED
  BY <1>1, <1>4, <1>5, <1>6, <1>7 DEF Contract!Ignore, St, Ow, Md, Recent, Begin

\* t is delivered to m, and nothing else but the sweep is done.
LEMMA DeliverMaps ==
    ASSUME IInv, IInv', NEW m \in Members, NEW t \in Seqs, NEW q \in Swept,
           MayTake(m), Deliver(m, t), UNCHANGED <<brokerVars, done>>,
           \A x \in Seqs : x # t => /\ Waits(x, Range(retries')) <=> Waits(x, Range(q))
                                    /\ DueIn(x, Range(retries')) <=> DueIn(x, Range(q)),
           t \notin done, t \notin dropped \cup Terminated, ~SpentIn(CountsSwept, t),
           Stages[t] = "owed" \/ (Stages[t] = "new" /\ Contract!IsNext(t))
    PROVE  Contract!Deliver(m, t)
<1> DEFINE d == [seq |-> t, by |-> m, left |-> AckWait]
<1>t. TypeOK /\ Attended /\ Once(pending') /\ pending' \subseteq Deliveries
  BY DEF IInv, TypeOK
<1>1. /\ pc[m] = "idle" /\ job[m] = 0
      /\ pending' = InFlight \cup {d}
      /\ counts' = [CountsSwept EXCEPT ![t] = Bump(@)]
      /\ job' = [job EXCEPT ![m] = t]
      /\ taken' = [taken EXCEPT ![t] = Bump(@)]
      /\ dropped' = dropped \cup Terminated /\ done' = done
      /\ UNCHANGED <<log, age, created, start>>
  BY <1>t DEF Deliver, MayTake, Attended, brokerVars
<1>2. d.seq = t /\ d.by = m /\ d.left > 0
  OBVIOUS
<1> HIDE DEF d
<1>3. CountsSwept \in [Seqs -> 0..CountCap] /\ taken \in [Seqs -> 0..CountCap]
  BY <1>t, SweepTypes DEF TypeOK
<1>4. ASSUME NEW x \in Seqs, x # t PROVE Stages'[x] = Stages[x] /\ Keepers'[x] = Keepers[x]
  <2>1. /\ Out(x, pending') <=> Out(x, InFlight)
        /\ Flies(x, pending') <=> Flies(x, InFlight)
    BY <1>1, <1>2, <1>4 DEF Out, Flies
  <2>2. Keeper(x, pending') = Keeper(x, InFlight)
    <3>1. HoldersIn(x, pending') = HoldersIn(x, InFlight)
      BY <1>1, <1>2, <1>4 DEF HoldersIn
    <3> QED
      BY <3>1 DEF Keeper
  <2>3. counts'[x] = CountsSwept[x]
    BY <1>1, <1>3, <1>4
  <2>4. Stage(x, pending', Range(retries'), counts', done', dropped') =
        Stage(x, InFlight, Range(q), CountsSwept, done, dropped \cup Terminated)
    BY <1>1, <1>4, <2>1, <2>3 DEF Stage, SpentIn
  <2> QED
    BY <2>2, <2>4, SweepStage, NextAre
<1>5. Stages'[t] = "out" /\ Keepers'[t] = m
  <2>1. d \in pending'
    BY <1>1
  <2>2. Out(t, pending') /\ Keeper(t, pending') = m
    BY <1>t, <1>2, <2>1, KeeperIs DEF Out
  <2>3. Stage(t, pending', Range(retries'), counts', done', dropped') = "out"
    BY <1>1, <2>2 DEF Stage
  <2> QED
    BY <2>2, <2>3, NextAre
<1>6. St = Stages /\ Ow = Keepers /\ St' = Stages' /\ Ow' = Keepers'
  BY StateIs, OwnerIs, NextIs
<1>7. St' = [St EXCEPT ![t] = "out"]
  <2>1. Stages' = [Stages EXCEPT ![t] = "out"]
    BY <1>4, <1>5 DEF Stages
  <2> QED
    BY <1>6, <2>1
<1>8. Ow' = [Ow EXCEPT ![t] = m]
  <2>1. Keepers' = [Keepers EXCEPT ![t] = m]
    BY <1>4, <1>5 DEF Keepers
  <2> QED
    BY <1>6, <2>1
\* The count is not at its cap, for it is below the bound on deliveries.
<1>9. Md' = [Md EXCEPT ![t] = IF MaxDeliver = 0 THEN 0 ELSE @ + 1]
  <2>1. MaxDeliver # 0 => Bump(taken[t]) = taken[t] + 1
    <3>1. Sound(t, InFlight, Range(q), CountsSwept, taken, done, dropped \cup Terminated, Took)
      BY SweepSound
    <3>2. CountsSwept[t] = taken[t] /\ taken[t] \in Nat
      BY <1>3, <3>1 DEF Sound
    <3> QED
      BY <3>2 DEF SpentIn, Bump
  <2>2. \A x \in Seqs : taken'[x] = IF x = t THEN Bump(taken[t]) ELSE taken[x]
    BY <1>1, <1>3
  <2> QED
    BY <2>1, <2>2 DEF Md
<1>10. Recent' = Recent /\ Begin' = Begin /\ log' = log
  BY <1>1 DEF Recent, Begin
<1>11. St[t] = "owed" \/ (St[t] = "new" /\ Contract!IsNext(t))
  BY <1>6
<1> QED
  BY <1>1, <1>7, <1>8, <1>9, <1>10, <1>11 DEF Contract!Deliver, St, Ow, Md, Recent, Begin, Contract!Seqs, Seqs

LEMMA TakeRetryMaps ==
    ASSUME IInv, IInv', NEW m \in Members, TakeRetry(m)
    PROVE  \E t \in Seqs : Contract!Deliver(m, t)
<1>1. PICK q \in Swept : Due(q) /\ retries' = Tail(q) /\ Deliver(m, Head(q).seq)
  BY DEF TakeRetry
<1> DEFINE t == Head(q).seq
<1>2. Queue(q) /\ q # <<>> /\ Head(q).left = 0
  BY <1>1, SweptIs DEF Due
<1>3. Head(q) \in Range(q) /\ Range(retries') = {e \in Range(q) : e.seq # t}
  BY <1>1, <1>2, TailIs
<1>4. t \in Seqs /\ Waits(t, Range(q)) /\ DueIn(t, Range(q))
  <2>1. Head(q) \in Retries
    BY <1>2, <1>3, QueueIs DEF Range
  <2> QED
    BY <1>2, <1>3, <2>1 DEF Retries, Waits, DueIn
<1>5. Deliver(m, t) /\ MayTake(m) /\ UNCHANGED <<brokerVars, done>>
  BY <1>1 DEF TakeRetry
<1> HIDE DEF t
<1>6. Sound(t, InFlight, Range(q), CountsSwept, taken, done, dropped \cup Terminated, Took)
  BY <1>4, SweepSound
<1>7. /\ ~Flies(t, InFlight) /\ t \notin done /\ t \notin dropped \cup Terminated
      /\ ~SpentIn(CountsSwept, t)
  BY <1>4, <1>6 DEF Sound
<1>8. Stages[t] = "owed"
  <2>1. ~Out(t, InFlight)
    BY <1>7 DEF Out, Flies
  <2>2. Stage(t, InFlight, Range(q), CountsSwept, done, dropped \cup Terminated) = "owed"
    BY <1>4, <1>7, <2>1 DEF Stage
  <2> QED
    BY <1>4, <2>2, SweepStage
<1>9. \A x \in Seqs : x # t => /\ Waits(x, Range(retries')) <=> Waits(x, Range(q))
                               /\ DueIn(x, Range(retries')) <=> DueIn(x, Range(q))
  BY <1>3 DEF Waits, DueIn
<1>10. Contract!Deliver(m, t)
  BY <1>4, <1>5, <1>7, <1>8, <1>9, DeliverMaps
<1> QED
  BY <1>4, <1>10

\* What is ahead is new, and what comes before it is not.
LEMMA TakeNextMaps ==
    ASSUME IInv, IInv', NEW m \in Members, TakeNext(m)
    PROVE  \E t \in Seqs : Contract!Deliver(m, t)
<1>t. TypeOK /\ Attended
  BY DEF IInv
<1>1. PICK q \in Swept : ~Due(q) /\ retries' = q
  BY DEF TakeNext
<1>2. PICK t \in Ahead : (\A z \in Ahead : t <= z) /\ Deliver(m, t)
  BY DEF TakeNext
<1>3. /\ t \in Seqs /\ t > cursor /\ t <= Len(log) /\ t \notin Took /\ Matches(t)
      /\ ~Flies(t, pending) /\ ~Waits(t, Range(retries)) /\ t \notin done /\ t \notin dropped
      /\ ~SpentIn(counts, t)
  BY AheadIs DEF Ahead
<1>4. ~Flies(t, InFlight) /\ t \notin Terminated
  BY <1>3 DEF Flies, InFlight, Terminated, SeqsOf, Expired
<1>5. ~SpentIn(CountsSwept, t)
  BY <1>3, <1>4 DEF SpentIn, CountsSwept
<1>6. MayTake(m) /\ UNCHANGED <<brokerVars, done>> /\ created
  BY <1>t DEF TakeNext, MayTake, Attended
<1>7. Stages[t] = "new"
  <2>1. ~Out(t, pending) /\ ~DueIn(t, Range(retries))
    BY <1>3 DEF Out, DueIn, Flies, Waits
  <2> QED
    BY <1>3, <2>1 DEF Stages, Stage
<1>8. ASSUME NEW z \in Seqs, start < z, z < t, Matches(z) PROVE Stages[z] # "new"
  <2>1. z <= cursor
    <3>1. z \notin Ahead
      BY <1>2, <1>3, <1>8 DEF Seqs
    <3>2. z <= Len(log) /\ cursor \in Nat
      BY <1>t, <1>3, <1>8 DEF TypeOK, Seqs
    <3> QED
      BY <1>8, <3>1, <3>2 DEF Ahead, Seqs
  <2>2. z \in Took
    BY <1>8, <2>1 DEF Took
  <2>3. Flies(z, pending) \/ Waits(z, Range(retries)) \/ z \in done \/ z \in dropped
    BY <2>2 DEF IInv, Sound
  <2>4. Stages[z] = Stage(z, pending, Range(retries), counts, done, dropped)
    BY DEF Stages
  <2> QED
    BY <2>3, <2>4 DEF Stage
<1>9. Contract!IsNext(t)
  <2>1. Begin = start /\ Begin # -1 /\ start < t
    <3>1. start \in Nat /\ cursor \in Nat /\ t \in Nat /\ start <= cursor
      BY <1>t, <1>3 DEF TypeOK, Seqs
    <3>2. Begin = start
      BY <1>6 DEF Begin
    <3> QED
      BY <1>3, <3>1, <3>2
  <2>2. Contract!Ours = {z \in Seqs : Begin # -1 /\ z > Begin /\ z <= Len(log) /\ log[z] \in Wanted}
    BY DEF Contract!Ours, Contract!Unborn, Contract!Seqs, Seqs, Begin
  <2>3. St = Stages
    BY StateIs
  <2>4. t \in Contract!Ours
    BY <1>3, <2>1, <2>2 DEF Matches
  <2>5. \A z \in Contract!Ours : z < t => St[z] # "new"
    BY <1>8, <2>1, <2>2, <2>3 DEF Matches
  <2> QED
    BY <2>4, <2>5 DEF Contract!IsNext, St, Contract!Seqs, Seqs
<1>10. Contract!Deliver(m, t)
  BY <1>1, <1>2, <1>3, <1>4, <1>5, <1>6, <1>7, <1>9, DeliverMaps
<1> QED
  BY <1>3, <1>10

LEMMA TickMaps ==
    ASSUME IInv, IInv', Tick
    PROVE  Contract!Pass
<1>t. /\ TypeOK /\ TypeOK' /\ Once(pending) /\ Once(pending')
      /\ pending \subseteq Deliveries /\ pending' \subseteq Deliveries
  BY DEF IInv, TypeOK
<1>1. /\ age' = [e \in Events |-> IF age[e] < Window THEN age[e] + 1 ELSE Window]
      /\ UNCHANGED <<log, created, start, counts, job, done, dropped, taken>>
  BY DEF Tick, history
<1>2. \A n \in Nat : (Less(n) = 0 => n = 0 \/ n = 1) /\ (n = 0 => Less(n) = 0) /\ (Less(n) > 0 => n > 0)
                     /\ Less(n) \in Nat
  BY DEF Less
<1>3. \A d \in Deliveries : d.left \in Nat /\ d.by \in Members
  BY DEF Deliveries
<1>4. \A r \in Range(retries) : r.left \in Nat
  BY <1>t, QueueIs DEF TypeOK, Range
<1>5. ASSUME NEW s \in Seqs
      PROVE  \/ Stages'[s] = Stages[s] /\ Keepers'[s] = Keepers[s]
             \/ Stages[s] = "waiting" /\ Stages'[s] = "owed" /\ Keepers'[s] = Keepers[s]
             \/ /\ Stages[s] = "out" /\ Keepers'[s] = Nobody
                /\ Stages'[s] = IF MaxDeliver > 0 /\ Md[s] = MaxDeliver THEN "given up" ELSE "owed"
  <2>1. /\ Sound(s, pending, Range(retries), counts, taken, done, dropped, Took)
        /\ Stages[s] = Stage(s, pending, Range(retries), counts, done, dropped)
        /\ Stages'[s] = Stage(s, pending', Range(retries'), counts, done, dropped)
        /\ Keepers[s] = Keeper(s, pending) /\ Keepers'[s] = Keeper(s, pending')
    BY <1>1, NextAre DEF IInv, Stages, Keepers
  <2>2. /\ Flies(s, pending') <=> Flies(s, pending)
        /\ Waits(s, Range(retries')) <=> Waits(s, Range(retries))
    BY <1>t, TickIs DEF Flies, Waits
  <2>3. Out(s, pending') => Out(s, pending)
    <3>1. ASSUME NEW e \in pending', e.seq = s, e.left > 0 PROVE Out(s, pending)
      <4>1. PICK d \in pending : e.seq = d.seq /\ e.left = Less(d.left)
        BY <1>t, TickIs
      <4>2. d.left > 0
        BY <1>t, <1>2, <1>3, <3>1, <4>1
      <4> QED
        BY <3>1, <4>1, <4>2 DEF Out
    <3> QED
      BY <3>1 DEF Out
  <2>4. DueIn(s, Range(retries)) => DueIn(s, Range(retries'))
    <3>1. ASSUME NEW e \in Range(retries), e.seq = s, e.left = 0 PROVE DueIn(s, Range(retries'))
      <4>1. PICK r \in Range(retries') : r.seq = e.seq /\ r.left = Less(e.left)
        BY <1>t, TickIs
      <4> QED
        BY <1>2, <3>1, <4>1 DEF DueIn
    <3> QED
      BY <3>1 DEF DueIn
  <2>5. Out(s, pending) => Flies(s, pending)
    BY DEF Out, Flies
  <2>6. CASE ~Out(s, pending)
    <3>1. Keepers'[s] = Nobody /\ Keepers[s] = Nobody
      BY <1>t, <2>1, <2>3, <2>6, KeeperIs
    <3>2. DueIn(s, Range(retries')) => Waits(s, Range(retries'))
      BY DEF DueIn, Waits
    <3> QED
      BY <2>1, <2>2, <2>3, <2>4, <2>6, <3>1, <3>2 DEF Stage
  <2>7. CASE Out(s, pending) /\ Out(s, pending')
    <3>1. PICK e \in pending' : e.seq = s /\ e.left > 0
      BY <2>7 DEF Out
    <3>2. PICK d \in pending : e.seq = d.seq /\ e.by = d.by /\ e.left = Less(d.left)
      BY <1>t, TickIs
    <3>3. d.seq = s /\ d.left > 0
      BY <1>t, <1>2, <1>3, <3>1, <3>2
    <3>4. Keepers'[s] = e.by /\ Keepers[s] = d.by
      BY <1>t, <2>1, <3>1, <3>3, KeeperIs
    <3> QED
      BY <2>1, <2>5, <2>7, <3>2, <3>4 DEF Stage, Sound
  <2>8. CASE Out(s, pending) /\ ~Out(s, pending')
    <3>1. Keepers'[s] = Nobody
      BY <1>t, <2>1, <2>8, KeeperIs
    <3>2. SpentIn(counts, s) <=> MaxDeliver > 0 /\ Md[s] = MaxDeliver
      BY <1>t, <2>1, <2>5, <2>8 DEF SpentIn, Md, Sound, TypeOK
    <3> QED
      BY <2>1, <2>2, <2>5, <2>8, <3>1, <3>2 DEF Stage, Sound
  <2> QED
    BY <2>6, <2>7, <2>8
<1>6. St = Stages /\ Ow = Keepers /\ St' = Stages' /\ Ow' = Keepers'
  BY StateIs, OwnerIs, NextIs
<1>7. St' \in [Seqs -> Contract!States]
  <2>1. \A s \in Seqs : Stages'[s] \in Contract!States
    BY NextAre DEF Stage, Contract!States
  <2>2. Stages' = [s \in Seqs |-> Stages'[s]]
    BY DEF Stages
  <2> QED
    BY <1>6, <2>1, <2>2
<1>8. \A s \in Seqs :
        \/ St'[s] = St[s] /\ Ow'[s] = Ow[s]
        \/ St[s] = "waiting" /\ St'[s] = "owed" /\ Ow'[s] = Ow[s]
        \/ St[s] = "out" /\ St'[s] = (IF MaxDeliver > 0 /\ Md[s] = MaxDeliver THEN "given up" ELSE "owed")
           /\ Ow'[s] = Nobody
  BY <1>5, <1>6
<1>9. Recent' \subseteq Recent
  BY <1>t, <1>1 DEF Recent, TypeOK
<1>10. Md' = Md /\ Begin' = Begin
  BY <1>1 DEF Md, Begin
<1> QED
  BY <1>1, <1>7, <1>8, <1>9, <1>10
     DEF Contract!Pass, Contract!Unless, Contract!Nobody, Nobody, Contract!Seqs, Seqs, St, Ow, Md, Recent, Begin

LEMMA PublishMaps ==
    ASSUME IInv, IInv', NEW e \in Events, Publish(e)
    PROVE  Contract!Publish(e)
<1>t. TypeOK
  BY DEF IInv
<1>1. /\ age[e] = Window /\ age' = [age EXCEPT ![e] = 0] /\ log' = Append(log, e)
      /\ UNCHANGED <<created, start, pending, retries, counts, job, done, dropped, taken>>
  BY DEF Publish, members, history
<1>2. e \notin Recent /\ Recent' = Recent \cup {e}
  BY <1>t, <1>1 DEF Recent, TypeOK
<1>3. Stages' = Stages /\ Keepers' = Keepers
  BY <1>1 DEF Stages, Stage, Out, Flies, SpentIn, DueIn, Waits, Range, Keepers, Keeper, Chosen, HoldersIn
<1>4. St' = St /\ Ow' = Ow
  BY <1>3, StateIs, OwnerIs, NextIs
<1>5. Md' = Md /\ Begin' = Begin
  BY <1>1 DEF Md, Begin
<1> QED
  BY <1>1, <1>2, <1>4, <1>5 DEF Contract!Publish, St, Ow, Md, Recent, Begin

\* What a member does with nothing delivered or settled leaves the contract's
\* variables alone.
LEMMA Stutters ==
    ASSUME IInv, IInv',
           \A s \in Seqs : Stages'[s] = Stages[s] /\ Keepers'[s] = Keepers[s],
           UNCHANGED <<log, age, job, taken, Begin>>
    PROVE  UNCHANGED Contract!vars
<1>1. Stages' = Stages /\ Keepers' = Keepers
  BY DEF Stages, Keepers
<1>2. St' = St /\ Ow' = Ow
  BY <1>1, StateIs, OwnerIs, NextIs
<1>3. Md' = Md /\ Recent' = Recent
  BY DEF Md, Recent
<1> QED
  BY <1>2, <1>3 DEF Contract!vars, St, Ow, Md, Recent, Begin

LEMMA SubscribeMaps ==
    ASSUME IInv, IInv', NEW m \in Members, Subscribe(m)
    PROVE  Contract!Create \/ UNCHANGED Contract!vars
<1>t. TypeOK /\ Attended
  BY DEF IInv
<1>1. /\ created' = TRUE
      /\ start' = IF ~created /\ StartNew THEN Len(log) ELSE start
      /\ UNCHANGED <<log, age, pending, retries, counts, job, done, dropped, taken>>
  BY DEF Subscribe, history
<1>2. Stages' = Stages /\ Keepers' = Keepers
  BY <1>1 DEF Stages, Stage, Out, Flies, SpentIn, DueIn, Waits, Range, Keepers, Keeper, Chosen, HoldersIn
<1>3. CASE created
  <2>1. Begin' = Begin
    BY <1>1, <1>3 DEF Begin
  <2> QED
    BY <1>1, <1>2, <2>1, Stutters
<1>4. CASE ~created
  <2>1. start = 0
    BY <1>t, <1>4 DEF TypeOK, Attended
  <2>2. Begin = -1 /\ Begin' = IF StartNew THEN Len(log) ELSE 0
    BY <1>1, <1>4, <2>1 DEF Begin
  <2>3. St' = St /\ Ow' = Ow
    BY <1>2, StateIs, OwnerIs, NextIs
  <2>4. Md' = Md /\ Recent' = Recent
    BY <1>1 DEF Md, Recent
  <2> QED
    BY <1>1, <2>2, <2>3, <2>4 DEF Contract!Create, Contract!Unborn, St, Ow, Md, Recent, Begin
<1> QED
  BY <1>3, <1>4

LEMMA WaitForWorkMaps ==
    ASSUME IInv, IInv', NEW m \in Members, WaitForWork(m)
    PROVE  UNCHANGED Contract!vars
<1>1. /\ pending' = InFlight /\ counts' = CountsSwept /\ dropped' = dropped \cup Terminated
      /\ UNCHANGED <<log, age, created, start, retries, job, done, taken>>
      /\ \A q \in Swept : ~Due(q)
  BY DEF WaitForWork, brokerVars
<1>2. PICK q \in Swept : TRUE
  BY SomeSwept
<1>3. q = retries
  BY <1>1, SweptIs, NothingSwept
<1>4. \A s \in Seqs : Stages'[s] = Stages[s] /\ Keepers'[s] = Keepers[s]
  BY <1>1, <1>3, SweepStage, NextAre
<1>5. Begin' = Begin
  BY <1>1 DEF Begin
<1> QED
  BY <1>1, <1>4, <1>5, Stutters

LEMMA MemberMaps ==
    ASSUME IInv, IInv', NEW m \in Members, Awake(m) \/ Stop(m) \/ End(m)
    PROVE  UNCHANGED Contract!vars
<1>1. UNCHANGED <<log, age, created, start, pending, retries, counts, job, done, dropped, taken>>
  BY DEF Awake, Stop, End, brokerVars, history
<1>2. \A s \in Seqs : Stages'[s] = Stages[s] /\ Keepers'[s] = Keepers[s]
  BY <1>1, NextAre DEF Stages, Keepers
<1>3. Begin' = Begin
  BY <1>1 DEF Begin
<1> QED
  BY <1>1, <1>2, <1>3, Stutters

LEMMA StepMaps == IInv /\ IInv' /\ [Next]_vars => [Contract!Next]_(Contract!vars)
<1> SUFFICES ASSUME IInv, IInv', [Next]_vars PROVE Contract!Next \/ UNCHANGED Contract!vars
  OBVIOUS
<1>1. ASSUME NEW e \in Events, Publish(e) PROVE Contract!Next
  BY <1>1, PublishMaps DEF Contract!Next
<1>2. ASSUME NEW m \in Members, TakeRetry(m) \/ TakeNext(m) PROVE Contract!Next
  BY <1>2, TakeRetryMaps, TakeNextMaps DEF Contract!Next, Contract!Seqs, Seqs
<1>3. ASSUME NEW m \in Members, Handle(m) PROVE Contract!Next
  BY <1>3, SettleDoneMaps, SettleFailedMaps, SettleLateMaps DEF Contract!Next, Handle
<1>4. ASSUME NEW m \in Members, Subscribe(m) PROVE Contract!Next \/ UNCHANGED Contract!vars
  BY <1>4, SubscribeMaps DEF Contract!Next
<1>5. ASSUME NEW m \in Members, WaitForWork(m) \/ Awake(m) \/ Stop(m) \/ End(m)
      PROVE  UNCHANGED Contract!vars
  BY <1>5, WaitForWorkMaps, MemberMaps
<1>6. CASE Tick
  BY <1>6, TickMaps DEF Contract!Next
<1>7. CASE UNCHANGED vars
  <2>1. UNCHANGED <<log, age, created, start, pending, retries, counts, job, done, dropped, taken>>
    BY <1>7 DEF vars, brokerVars, members, history
  <2>2. \A s \in Seqs : Stages'[s] = Stages[s] /\ Keepers'[s] = Keepers[s]
    BY <2>1, NextAre DEF Stages, Keepers
  <2>3. Begin' = Begin
    BY <2>1 DEF Begin
  <2> QED
    BY <2>1, <2>2, <2>3, Stutters
<1> QED
  BY <1>1, <1>2, <1>3, <1>4, <1>5, <1>6, <1>7 DEF Next, Loop

LEMMA InitMaps == Init => Contract!Init
<1> SUFFICES ASSUME Init PROVE Contract!Init
  OBVIOUS
<1>1. IInv
  BY InitInv
<1>2. pending = {} /\ retries = <<>> /\ done = {} /\ dropped = {} /\ log = <<>> /\ created = FALSE
      /\ age = [e \in Events |-> Window] /\ job = [m \in Members |-> 0] /\ taken = [s \in Seqs |-> 0]
  BY DEF Init
<1>3. Range(retries) = {}
  BY <1>2 DEF Range
<1>4. St = [s \in Seqs |-> "new"]
  <2>1. Stages = [s \in Seqs |-> "new"]
    BY <1>2, <1>3 DEF Stages, Stage, Out, Flies, DueIn, Waits
  <2> QED
    BY <1>1, <2>1, StateIs
<1>5. Ow = [s \in Seqs |-> Nobody]
  BY <1>2, OwnerIs DEF Keepers, Keeper, Chosen, HoldersIn
<1>6. Md = [s \in Seqs |-> 0] /\ Recent = {} /\ Begin = -1
  BY <1>2 DEF Md, Recent, Begin
<1> QED
  BY <1>2, <1>4, <1>5, <1>6
     DEF Contract!Init, Contract!Unborn, Contract!Nobody, Nobody, Contract!Seqs, Seqs, St, Ow, Md, Recent, Begin

\* The in-memory broker keeps messaging.Broker's contract, whatever the members,
\* the deadlines, the delays and the bound on deliveries: an event is with one
\* member until it settles or its deadline passes, comes back only then or
\* after its delay and MaxDeliver times at most, a late outcome settles
\* nothing, and first deliveries are in the stream's order.
THEOREM BrokerImplementsContract == Spec => KeepsContract
BY InitInv, InvStep, InitMaps, StepMaps, PTL DEF Spec, KeepsContract, Contract!Spec

=============================================================================
