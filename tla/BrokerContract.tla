--------------------------- MODULE BrokerContract ----------------------------
(***************************************************************************)
(* What a broker promises the members of a durable consumer, whichever     *)
(* provider it is: the terms of messaging.Broker, which the conformance    *)
(* suite has a case for each of.                                           *)
(***************************************************************************)
EXTENDS Integers, Sequences, FiniteSets

CONSTANTS
    Members, Events,
    Wanted,        \* the events whose type the subscription admits
    StartNew,      \* whether the consumer starts at its creation
    MaxDeliver,    \* deliveries of one event at most; 0 is unlimited
    MaxLog         \* bound: events stored

Seqs == 1..MaxLog
Nobody == "nobody"
Unborn == -1

VARIABLES
    stored,      \* the stream
    recent,      \* the events within the deduplication window
    begin,       \* where the consumer started, Unborn before it exists
    state,       \* seq -> what became of it for the consumer
    owner,       \* seq -> the member it is delivered to
    working,     \* member -> the seq its handler runs for, 0 for none
    made         \* seq -> the deliveries made, where MaxDeliver bounds them

vars == <<stored, recent, begin, state, owner, working, made>>

States == {"new", "out", "waiting", "owed", "settled", "given up"}

Init ==
    /\ stored = <<>> /\ recent = {} /\ begin = Unborn
    /\ state = [s \in Seqs |-> "new"]
    /\ owner = [s \in Seqs |-> Nobody]
    /\ working = [m \in Members |-> 0]
    /\ made = [s \in Seqs |-> 0]

\* A repeat within the window is accepted and dropped.
Publish(e) ==
    /\ e \notin recent
    /\ stored' = Append(stored, e) /\ recent' = recent \cup {e}
    /\ UNCHANGED <<begin, state, owner, working, made>>

\* A new Name starts where its subscription says, and then keeps its position.
Create ==
    /\ begin = Unborn
    /\ begin' = IF StartNew THEN Len(stored) ELSE 0
    /\ UNCHANGED <<stored, recent, state, owner, working, made>>

\* What the consumer is to be given, in the stream's order.
Ours == {s \in Seqs : begin # Unborn /\ s > begin /\ s <= Len(stored) /\ stored[s] \in Wanted}
IsNext(s) == s \in Ours /\ \A t \in Ours : t < s => state[t] # "new"

\* A member is given one delivery at a time, nobody else the same one.
Deliver(m, s) ==
    /\ working[m] = 0
    /\ state[s] = "owed" \/ (state[s] = "new" /\ IsNext(s))
    /\ working' = [working EXCEPT ![m] = s]
    /\ state' = [state EXCEPT ![s] = "out"] /\ owner' = [owner EXCEPT ![s] = m]
    /\ made' = [made EXCEPT ![s] = IF MaxDeliver = 0 THEN 0 ELSE @ + 1]
    /\ UNCHANGED <<stored, recent, begin>>

\* Deliveries that fail and that expire count alike.
Unless(s, next) == IF MaxDeliver > 0 /\ made[s] = MaxDeliver THEN "given up" ELSE next

Settle(m, next) ==
    LET s == working[m]
    IN  /\ s # 0 /\ owner[s] = m /\ state[s] = "out"
        /\ state' = [state EXCEPT ![s] = next]
        /\ owner' = [owner EXCEPT ![s] = Nobody]
        /\ working' = [working EXCEPT ![m] = 0]
        /\ UNCHANGED <<stored, recent, begin, made>>

Done(m) == Settle(m, "settled")
Fail(m) == \E next \in {"waiting", "owed"} : Settle(m, Unless(working[m], next))

\* A late outcome is ignored.
Ignore(m) ==
    /\ working[m] # 0 /\ owner[working[m]] # m
    /\ working' = [working EXCEPT ![m] = 0]
    /\ UNCHANGED <<stored, recent, begin, state, owner, made>>

\* Deliveries expire, delays end, and the window passes, in any number.
Pass ==
    /\ state' \in [Seqs -> States]
    /\ \A s \in Seqs :
         \/ state'[s] = state[s] /\ owner'[s] = owner[s]
         \/ state[s] = "waiting" /\ state'[s] = "owed" /\ owner'[s] = owner[s]
         \/ state[s] = "out" /\ state'[s] = Unless(s, "owed") /\ owner'[s] = Nobody
    /\ recent' \subseteq recent
    /\ UNCHANGED <<stored, begin, working, made>>

Next ==
    \/ \E e \in Events : Publish(e)
    \/ Create \/ Pass
    \/ \E m \in Members : Done(m) \/ Fail(m) \/ Ignore(m) \/ \E s \in Seqs : Deliver(m, s)

Spec == Init /\ [][Next]_vars
=============================================================================
