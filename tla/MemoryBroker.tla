---------------------------- MODULE MemoryBroker ----------------------------
(***************************************************************************)
(* The in-memory broker with one durable consumer and the members that     *)
(* share it. A member's take, settle and wait for work each run under the  *)
(* broker's mutex and are one action; its handler runs between them and    *)
(* may outlive its deadline.                                               *)
(*                                                                         *)
(* Every instant is kept as the time left until it, 0 once it has come, so *)
(* the clock needs no bound. Retries are kept sorted by due time, those    *)
(* due together in the order they were appended: the order take picks.     *)
(* A token is told by the member it was given to, for a member handles one *)
(* delivery at a time.                                                     *)
(***************************************************************************)
EXTENDS Integers, Sequences, FiniteSets, SequencesExt

CONSTANTS
    Members,      \* the sources subscribed under the consumer's Name
    Events,       \* identities (source and id) that are published
    Wanted,       \* the events whose type the subscription matches
    StartNew,     \* whether the consumer begins at the log's end
    AckWait,      \* ticks a delivery has
    RetryDelay,   \* ticks a failed delivery waits
    MaxDeliver,   \* deliveries of one event at most; 0 is unlimited
    Window,       \* ticks the deduplication window lasts
    MaxLog,       \* bound: events stored
    CountCap,     \* bound: where the delivery counts saturate
    MaxStops      \* bound: members stopped

ASSUME MemberAssumption == Members # {} /\ IsFiniteSet(Members)
ASSUME EventAssumption == Wanted \subseteq Events
ASSUME TimeAssumption ==
    /\ AckWait \in Nat \ {0}
    /\ RetryDelay \in Nat
    /\ Window \in Nat \ {0}
ASSUME DeliverAssumption == MaxDeliver \in Nat /\ StartNew \in BOOLEAN
ASSUME BoundAssumption ==
    /\ MaxLog \in Nat \ {0}
    /\ CountCap \in Nat \ {0}
    /\ CountCap >= MaxDeliver
    /\ MaxStops \in Nat

Nobody == "nobody"
ASSUME NobodyAssumption == Nobody \notin Members

Seqs == 1..MaxLog
Never == AckWait + RetryDelay + 1      \* a timer that is not set

VARIABLES
    log,        \* the events stored, in order
    age,        \* event -> ticks since it was first published; Window when outside
    created,    \* whether the consumer exists
    start,      \* the position the consumer was created at
    cursor,     \* the last seq taken or passed over
    pending,    \* the deliveries in flight: [seq, by, left]
    retries,    \* the redeliveries waiting, by due time: [seq, left]
    counts,     \* seq -> deliveries made while unsettled, 0 when it has none
    pc,         \* member -> "new", "idle", "handling", "waiting", "ended"
    job,        \* member -> the seq it handles, 0 when none
    stopped,    \* member -> whether its ctx has ended
    woken,      \* waiting members whose captured wake channel was closed
    timer,      \* member -> ticks until its wait or its handler's deadline, or Never
    done,       \* history: seqs settled by success or a permanent error
    dropped,    \* history: seqs terminated at MaxDeliver
    taken       \* history: seq -> deliveries made in all, saturating

brokerVars == <<log, age, created, start>>
members == <<pc, job, stopped, timer>>
history == <<done, dropped, taken>>
vars == <<brokerVars, cursor, pending, retries, counts, members, woken, history>>

Bump(n) == IF n < CountCap THEN n + 1 ELSE n
Matches(s) == log[s] \in Wanted
Waiting == {m \in Members : pc[m] = "waiting"}

-----------------------------------------------------------------------------
Init ==
    /\ log = <<>>
    /\ age = [e \in Events |-> Window]
    /\ created = FALSE
    /\ start = 0
    /\ cursor = 0
    /\ pending = {}
    /\ retries = <<>>
    /\ counts = [s \in Seqs |-> 0]
    /\ pc = [m \in Members |-> "new"]
    /\ job = [m \in Members |-> 0]
    /\ stopped = [m \in Members |-> FALSE]
    /\ woken = {}
    /\ timer = [m \in Members |-> Never]
    /\ done = {}
    /\ dropped = {}
    /\ taken = [s \in Seqs |-> 0]

-----------------------------------------------------------------------------
(* The broker.                                                             *)

\* Mistake: a stored event wakes nobody.
PublishQuietly(e) ==
    /\ Len(log) < MaxLog
    /\ age[e] = Window
    /\ age' = [age EXCEPT ![e] = 0]
    /\ log' = Append(log, e)
    /\ UNCHANGED <<created, start, cursor, pending, retries, counts, members, woken, history>>

\* The broker stores an event it has not seen within the window, and wakes
\* the consumer's members; it drops any other.
Publish(e) ==
    /\ Len(log) < MaxLog
    /\ age[e] = Window
    /\ age' = [age EXCEPT ![e] = 0]
    /\ log' = Append(log, e)
    /\ woken' = Waiting
    /\ UNCHANGED <<created, start, cursor, pending, retries, counts, members, history>>

\* The first member to subscribe creates the consumer.
Subscribe(m) ==
    /\ pc[m] = "new"
    /\ pc' = [pc EXCEPT ![m] = "idle"]
    /\ created' = TRUE
    /\ start' = IF ~created /\ StartNew THEN Len(log) ELSE start
    /\ cursor' = IF ~created /\ StartNew THEN Len(log) ELSE cursor
    /\ UNCHANGED <<log, age, pending, retries, counts, job, stopped, timer, woken, history>>

-----------------------------------------------------------------------------
(* expire and redeliver: what every take and settle does first.            *)

Expired == {d \in pending : d.left = 0}

\* The bound on deliveries is reached.
Spent(s) == MaxDeliver > 0 /\ counts[s] >= MaxDeliver

SeqsOf(D) == {d.seq : d \in D}
Requeued == {s \in SeqsOf(Expired) : ~Spent(s)}
Terminated == {s \in SeqsOf(Expired) : Spent(s)}

\* How many of the retries q are due no later than left, being sorted.
DueBy(q, left) == Max({0} \cup {i \in DOMAIN q : q[i].left <= left})

\* Redeliveries take their place behind the retries due no later.
Insert(q, seqs, left) ==
    LET n == DueBy(q, left)
        k == Len(seqs)
    IN  [i \in 1..(Len(q) + k) |->
            IF i <= n THEN q[i]
            ELSE IF i <= n + k THEN [seq |-> seqs[i - n], left |-> left]
            ELSE q[i - k]]

\* The retries once the expired deliveries have joined them, due now, in
\* whatever order the pending map yields them.
Swept == {Insert(retries, order, 0) : order \in Bijection(1..Cardinality(Requeued), Requeued)}

InFlight == pending \ Expired
CountsSwept == [s \in Seqs |-> IF s \in Terminated THEN 0 ELSE counts[s]]

\* A requeued event wakes every waiting member.
Waken(requeues) == IF requeues THEN Waiting ELSE woken

-----------------------------------------------------------------------------
(* The member's loop: take, handle, settle, or wait for work.              *)

Due(q) == q # <<>> /\ Head(q).left = 0

\* m is given an event: its delivery is counted and has AckWait.
Deliver(m, s) ==
    /\ counts' = [CountsSwept EXCEPT ![s] = Bump(@)]
    /\ pending' = InFlight \cup {[seq |-> s, by |-> m, left |-> AckWait]}
    /\ pc' = [pc EXCEPT ![m] = "handling"]
    /\ job' = [job EXCEPT ![m] = s]
    /\ timer' = [timer EXCEPT ![m] = AckWait]
    /\ taken' = [taken EXCEPT ![s] = Bump(@)]
    /\ dropped' = dropped \cup Terminated
    /\ woken' = Waken(Requeued # {})

MayTake(m) == pc[m] = "idle" /\ ~stopped[m]

\* Mistake: the retry that is taken stays in the retries.
TakeRetryKept(m) ==
    /\ MayTake(m)
    /\ \E q \in Swept :
         /\ Due(q)
         /\ retries' = q
         /\ Deliver(m, Head(q).seq)
    /\ UNCHANGED <<brokerVars, cursor, stopped, done>>

\* A due retry comes first.
TakeRetry(m) ==
    /\ MayTake(m)
    /\ \E q \in Swept :
         /\ Due(q)
         /\ retries' = Tail(q)
         /\ Deliver(m, Head(q).seq)
    /\ UNCHANGED <<brokerVars, cursor, stopped, done>>

Ahead == {s \in Seqs : cursor < s /\ s <= Len(log) /\ Matches(s)}

\* Else the next matching event past the cursor, passing over the others.
TakeNext(m) ==
    /\ MayTake(m)
    /\ \E q \in Swept :
         /\ ~Due(q)
         /\ retries' = q
    /\ \E s \in Ahead :
         /\ \A z \in Ahead : s <= z
         /\ cursor' = s
         /\ Deliver(m, s)
    /\ UNCHANGED <<brokerVars, stopped, done>>

\* Mistake: the wait looks at the retries only.
NextRetryDue ==
    LET lefts == {retries[i].left : i \in DOMAIN retries}
    IN  IF lefts = {} THEN Never ELSE Min(lefts)

\* When the earliest retry comes due or delivery in flight expires.
NextDue ==
    LET lefts == {retries[i].left : i \in DOMAIN retries} \cup {d.left : d \in InFlight}
    IN  IF lefts = {} THEN Never ELSE Min(lefts)

\* With nothing to take, m waits on the wake channel it saw under the lock.
\* The sweep requeued nothing, or there would be a retry due.
WaitForWork(m) ==
    /\ MayTake(m)
    /\ \A q \in Swept : ~Due(q)
    /\ Ahead = {}
    /\ cursor' = Len(log)
    /\ pending' = InFlight
    /\ counts' = CountsSwept
    /\ dropped' = dropped \cup Terminated
    /\ pc' = [pc EXCEPT ![m] = "waiting"]
    /\ timer' = [timer EXCEPT ![m] = NextDue]
    /\ UNCHANGED <<brokerVars, retries, job, stopped, woken, done, taken>>

\* The wait ends on a wake, on its timer, or on ctx.
Awake(m) ==
    /\ pc[m] = "waiting"
    /\ m \in woken \/ timer[m] = 0 \/ stopped[m]
    /\ pc' = [pc EXCEPT ![m] = "idle"]
    /\ woken' = woken \ {m}
    /\ timer' = [timer EXCEPT ![m] = Never]
    /\ UNCHANGED <<brokerVars, cursor, pending, retries, counts, job, stopped, history>>

\* The delivery the member's outcome is for, unless it expired.
Current(m) == {d \in InFlight : d.seq = job[m] /\ d.by = m}

\* The outcome of a delivery that expired is ignored.
SettleLate(m) ==
    /\ pc[m] = "handling"
    /\ Current(m) = {}
    /\ retries' \in Swept
    /\ pending' = InFlight
    /\ counts' = CountsSwept
    /\ dropped' = dropped \cup Terminated
    /\ woken' = Waken(Requeued # {})
    /\ pc' = [pc EXCEPT ![m] = "idle"]
    /\ job' = [job EXCEPT ![m] = 0]
    /\ timer' = [timer EXCEPT ![m] = Never]
    /\ UNCHANGED <<brokerVars, cursor, stopped, done, taken>>

\* Success, a permanent refusal, or an event that does not decode.
SettleDone(m) ==
    /\ pc[m] = "handling"
    /\ Current(m) # {}
    /\ retries' \in Swept
    /\ pending' = InFlight \ Current(m)
    /\ counts' = [CountsSwept EXCEPT ![job[m]] = 0]
    /\ done' = done \cup {job[m]}
    /\ dropped' = dropped \cup Terminated
    /\ woken' = Waken(Requeued # {})
    /\ pc' = [pc EXCEPT ![m] = "idle"]
    /\ job' = [job EXCEPT ![m] = 0]
    /\ timer' = [timer EXCEPT ![m] = Never]
    /\ UNCHANGED <<brokerVars, cursor, stopped, taken>>

\* An error: the event waits RetryDelay, or is terminated at the bound.
SettleFailed(m) ==
    /\ pc[m] = "handling"
    /\ Current(m) # {}
    /\ pending' = InFlight \ Current(m)
    /\ pc' = [pc EXCEPT ![m] = "idle"]
    /\ job' = [job EXCEPT ![m] = 0]
    /\ timer' = [timer EXCEPT ![m] = Never]
    /\ IF Spent(job[m])
         THEN /\ retries' \in Swept
              /\ counts' = [CountsSwept EXCEPT ![job[m]] = 0]
              /\ dropped' = dropped \cup Terminated \cup {job[m]}
              /\ woken' = Waken(Requeued # {})
         ELSE /\ \E q \in Swept : retries' = Insert(q, <<job[m]>>, RetryDelay)
              /\ counts' = CountsSwept
              /\ dropped' = dropped \cup Terminated
              /\ woken' = Waken(TRUE)
    /\ UNCHANGED <<brokerVars, cursor, stopped, done, taken>>

\* The reactor stops the source; it settles what it handles before it ends.
Stop(m) ==
    /\ pc[m] \in {"idle", "handling", "waiting"}
    /\ ~stopped[m]
    /\ Cardinality({n \in Members : stopped[n]}) < MaxStops
    /\ stopped' = [stopped EXCEPT ![m] = TRUE]
    /\ UNCHANGED <<brokerVars, cursor, pending, retries, counts, pc, job, timer, woken, history>>

End(m) ==
    /\ pc[m] = "idle"
    /\ stopped[m]
    /\ pc' = [pc EXCEPT ![m] = "ended"]
    /\ UNCHANGED <<brokerVars, cursor, pending, retries, counts, job, stopped, timer, woken,
                   history>>

-----------------------------------------------------------------------------
Less(n) == IF n = 0 THEN 0 ELSE n - 1

Tick ==
    /\ age' = [e \in Events |-> IF age[e] < Window THEN age[e] + 1 ELSE Window]
    /\ pending' = {[d EXCEPT !.left = Less(@)] : d \in pending}
    /\ retries' = [i \in DOMAIN retries |-> [retries[i] EXCEPT !.left = Less(@)]]
    /\ timer' = [m \in Members |-> IF timer[m] = Never THEN Never ELSE Less(timer[m])]
    /\ UNCHANGED <<log, created, start, cursor, counts, pc, job, stopped, woken, history>>

Handle(m) == SettleLate(m) \/ SettleDone(m) \/ SettleFailed(m)
Loop(m) == TakeRetry(m) \/ TakeNext(m) \/ WaitForWork(m) \/ Awake(m) \/ End(m)

Next ==
    \/ \E e \in Events : Publish(e)
    \/ \E m \in Members : Subscribe(m) \/ Loop(m) \/ Handle(m) \/ Stop(m)
    \/ Tick

Spec == Init /\ [][Next]_vars

(* Members subscribe and keep running, handlers return, time passes; and   *)
(* without a bound on deliveries a handler that is called again and again  *)
(* succeeds in time once.                                                  *)
Fairness ==
    /\ WF_vars(Tick)
    /\ \A m \in Members :
         /\ WF_vars(Subscribe(m))
         /\ WF_vars(Loop(m))
         /\ WF_vars(Handle(m))
         /\ MaxDeliver = 0 => \A s \in Seqs : SF_vars(SettleDone(m) /\ job[m] = s)

FairSpec == Spec /\ Fairness

-----------------------------------------------------------------------------
(* Properties.                                                             *)

\* What became of event s, a delivery that expired counted as such before
\* anybody sweeps it, and the member that it is delivered to.
Fate(s) ==
    LET flying == {d \in pending : d.seq = s}
        queued == {e \in Range(retries) : e.seq = s}
    IN  CASE s \in done -> "settled"
          [] s \in dropped -> "given up"
          [] flying # {} ->
               IF \E d \in flying : d.left > 0 THEN "out" ELSE IF Spent(s) THEN "given up" ELSE "owed"
          [] queued # {} -> IF \E e \in queued : e.left = 0 THEN "owed" ELSE "waiting"
          [] OTHER -> "new"
Holders(s) == {m \in Members : \E d \in pending : d.seq = s /\ d.by = m /\ d.left > 0}

Contract == INSTANCE BrokerContract WITH
    stored <- log,
    recent <- {e \in Events : age[e] < Window},
    begin <- IF created THEN start ELSE -1,
    state <- [s \in Seqs |-> Fate(s)],
    owner <- [s \in Seqs |-> IF Holders(s) = {} THEN Nobody ELSE CHOOSE m \in Holders(s) : TRUE],
    working <- job,
    made <- [s \in Seqs |-> IF MaxDeliver = 0 THEN 0 ELSE taken[s]]

\* The broker keeps the contract of messaging.Broker: each event that the
\* consumer takes is with one member until it is settled or its deadline
\* passes, is given again only then or after its delay, and MaxDeliver times
\* at most; an outcome that comes late settles nothing, the delivery of
\* another member included; the first deliveries are in the stream's order.
KeepsContract == Contract!Spec

\* A member asleep on an open channel misses nothing: all it could take was
\* taken, and its timer ends no later than anything scheduled comes due.
NoLostWakeup ==
    \A m \in Waiting \ woken :
        /\ Ahead = {}
        /\ \A left \in {retries[i].left : i \in DOMAIN retries} \cup {d.left : d \in pending} :
               timer[m] # Never /\ timer[m] <= left

\* Every event stored for the consumer is settled or given up in the end.
EventuallyFinished ==
    \A s \in Seqs :
        (created /\ start < s /\ s <= Len(log) /\ Matches(s)) ~> (s \in done \cup dropped)

=============================================================================
