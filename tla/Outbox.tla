------------------------------- MODULE Outbox -------------------------------
(***************************************************************************)
(* The transactional outbox: command transactions insert event rows, and   *)
(* relays claim the committed rows one at a time, publish each to the      *)
(* broker while its row is locked, and mark it published.                  *)
(*                                                                         *)
(* An event is named by the seq of its row: the recorder mints a fresh id  *)
(* for every event, so the row and the event determine each other.         *)
(***************************************************************************)
EXTENDS Naturals, Sequences, FiniteSets

CONSTANTS
    Txs,          \* the command transactions
    Relays,       \* the relays that share the outbox, one per replica
    Corrupt,      \* the seqs whose row cannot be decoded
    Drain,        \* whether a relay makes a last pass (drain > 0)
    MaxSeq,       \* bound: rows inserted
    MaxCrashes,   \* bound: relay processes that die without shutting down
    MaxStops,     \* bound: relays cancelled by their reactor
    MaxForgets    \* bound: ids that fall out of the deduplication window

ASSUME BoundsAssumption ==
    /\ MaxSeq \in Nat \ {0}
    /\ MaxCrashes \in Nat
    /\ MaxStops \in Nat
    /\ MaxForgets \in Nat
ASSUME CorruptAssumption == Corrupt \subseteq 1..MaxSeq
ASSUME DrainAssumption == Drain \in BOOLEAN

NoRelay == "nobody"
ASSUME RelaysAssumption == NoRelay \notin Relays

Seqs == 1..MaxSeq

VARIABLES
    tx,         \* command transaction -> "open", "committed", "aborted"
    rows,       \* messaging_outbox: rows[s] is the transaction that inserted seq s
    published,  \* the seqs whose published_at is set by a committed transaction
    pc,         \* relay -> where its Receive is
    row,        \* relay -> the seq it claimed last, 0 before the first
    live,       \* relay -> whether its settle transaction is still open
    stopped,    \* relay -> whether Receive's ctx has ended
    last,       \* relay -> whether it is in its last pass
    ready,      \* relay -> what Ready reports
    lingering,  \* seqs the database still holds locked for a dead session
    wire,       \* publish requests under way to the broker
    acks,       \* relays whose current request the broker has acknowledged
    stream,     \* the broker's stream: the seqs it stored, in order
    seen,       \* the ids within the broker's deduplication window
    forgotten,  \* the ids that have left the window
    crashes, stops,
    ahead,      \* history: <<e, f>>, e < f, where f may go out before e
    owed,       \* history: relay -> rows committed and unpublished when it was stopped
    left        \* history: relay -> rows its last pass skipped as locked elsewhere

tables    == <<tx, rows>>
relayVars == <<pc, row, live, stopped, last, ready>>
broker    == <<stream, seen, forgotten>>
faults    == <<crashes, stops>>
history   == <<ahead, owed, left>>
vars == <<tables, published, relayVars, lingering, wire, acks, broker, faults, history>>

Request == [seq : Seqs, from : Relays \cup {NoRelay}]

-----------------------------------------------------------------------------
(* What a statement sees and locks.                                        *)

Committed(s) == s \in DOMAIN rows /\ tx[rows[s]] = "committed"
Visible == {s \in Seqs : Committed(s)}
Pending == Visible \ published
RowsOf(t) == {s \in DOMAIN rows : rows[s] = t}

\* Mistake: the claim takes no lock.
NothingLocked(r) == {}

\* The rows another session holds FOR UPDATE, as r's claim finds them.
LockedElsewhere(r) == lingering \cup {row[q] : q \in {p \in Relays \ {r} : live[p]}}

\* Mistake: the claim reads rows whose transaction has not committed.
ClaimableDirty(r) == (DOMAIN rows \ published) \ LockedElsewhere(r)

\* The rows SKIP LOCKED leaves to r's claim.
Claimable(r) == Pending \ LockedElsewhere(r)

\* Mistake: newest first.
IsNewest(s, S) == \A z \in S : z <= s

IsOldest(s, S) == \A z \in S : s <= z

Stored == {stream[i] : i \in DOMAIN stream}

\* Rows whose event the broker holds, or may get from a relay at any moment.
Handling(r) == pc[r] \in {"handling", "sent", "acked"}
Out == Stored \cup {m.seq : m \in wire} \cup {row[r] : r \in {q \in Relays : Handling(q)}}

-----------------------------------------------------------------------------
Init ==
    /\ tx = [t \in Txs |-> "open"]
    /\ rows = <<>>
    /\ published = {}
    /\ pc = [r \in Relays |-> "down"]
    /\ row = [r \in Relays |-> 0]
    /\ live = [r \in Relays |-> FALSE]
    /\ stopped = [r \in Relays |-> FALSE]
    /\ last = [r \in Relays |-> FALSE]
    /\ ready = [r \in Relays |-> FALSE]
    /\ lingering = {}
    /\ wire = {}
    /\ acks = {}
    /\ stream = <<>>
    /\ seen = {}
    /\ forgotten = {}
    /\ crashes = 0
    /\ stops = 0
    /\ ahead = {}
    /\ owed = [r \in Relays |-> {}]
    /\ left = [r \in Relays |-> {}]

-----------------------------------------------------------------------------
(* The commands. The recorder writes a transaction's events last, in the   *)
(* order they were raised; seq is allocated at the insert, so the rows of  *)
(* concurrent transactions interleave and commit in any order.             *)

Emit(t) ==
    /\ tx[t] = "open"
    /\ Len(rows) < MaxSeq
    /\ rows' = Append(rows, t)
    /\ UNCHANGED <<tx, published, relayVars, lingering, wire, acks, broker, faults, history>>

\* What is out when t commits goes ahead of t's rows, whatever their seqs.
CommitTx(t) ==
    /\ tx[t] = "open"
    /\ tx' = [tx EXCEPT ![t] = "committed"]
    /\ ahead' = ahead \cup {p \in RowsOf(t) \X Out : p[1] < p[2]}
    /\ UNCHANGED <<rows, published, relayVars, lingering, wire, acks, broker, faults, owed, left>>

\* A rollback discards the rows and leaves their seqs unused.
AbortTx(t) ==
    /\ tx[t] = "open"
    /\ tx' = [tx EXCEPT ![t] = "aborted"]
    /\ UNCHANGED <<rows, published, relayVars, lingering, wire, acks, broker, faults, history>>

-----------------------------------------------------------------------------
(* The relay's loop: Receive, pass and next.                               *)
(*                                                                         *)
(*   down ---> pass ---> handling ---> sent ---> acked ---> pass           *)
(*              | ^         |            |         |                       *)
(*              v |         v            v         v                       *)
(*             waiting <------- the pass ends on a failure                 *)
(*                                                                         *)
(* and from the last pass to "ended", or from a corrupt row to "failed".   *)

\* A process starts, or starts again, and Receive begins its first pass.
Start(r) ==
    /\ pc[r] \in {"down", "ended", "failed"}
    /\ pc' = [pc EXCEPT ![r] = "pass"]
    /\ stopped' = [stopped EXCEPT ![r] = FALSE]
    /\ last' = [last EXCEPT ![r] = FALSE]
    /\ ready' = [ready EXCEPT ![r] = TRUE]
    /\ owed' = [owed EXCEPT ![r] = {}]
    /\ left' = [left EXCEPT ![r] = {}]
    /\ UNCHANGED <<tables, published, row, live, lingering, wire, acks, broker, faults, ahead>>

Receiving(r) == pc[r] \in {"pass", "handling", "sent", "acked", "waiting"}

\* The reactor's Shutdown ends Receive's ctx, wherever the relay is.
Stop(r) ==
    /\ Receiving(r)
    /\ ~stopped[r]
    /\ stops < MaxStops
    /\ stops' = stops + 1
    /\ stopped' = [stopped EXCEPT ![r] = TRUE]
    /\ owed' = [owed EXCEPT ![r] = Pending]
    /\ UNCHANGED <<tables, published, pc, row, live, last, ready, lingering, wire, acks,
                   broker, crashes, ahead, left>>

\* The context a pass runs on: Receive's own until it ends, then the drain's.
MayClaim(r) == pc[r] = "pass" /\ (~stopped[r] \/ last[r])

\* Where a pass that is over leaves the loop: to the poll wait, or out of Receive.
PassOver(r) ==
    pc' = [pc EXCEPT ![r] = IF last[r] THEN "ended" ELSE "waiting"]

\* next locks the oldest unpublished row nobody holds, and calls the handler.
Claim(r) ==
    /\ MayClaim(r)
    /\ \E s \in Claimable(r) \ Corrupt :
         /\ IsOldest(s, Claimable(r))
         /\ row' = [row EXCEPT ![r] = s]
         /\ ahead' = ahead \cup {p \in (Pending \cap LockedElsewhere(r)) \X {s} : p[1] < p[2]}
    /\ pc' = [pc EXCEPT ![r] = "handling"]
    /\ live' = [live EXCEPT ![r] = TRUE]
    /\ UNCHANGED <<tables, published, stopped, last, ready, lingering, wire, acks, broker,
                   faults, owed, left>>

\* A row that can never become an event rolls back and ends Receive, unless
\* it met the last pass, whose failure is not Receive's.
ClaimCorrupt(r) ==
    /\ MayClaim(r)
    /\ \E s \in Claimable(r) \cap Corrupt : IsOldest(s, Claimable(r))
    /\ pc' = [pc EXCEPT ![r] = IF last[r] THEN "ended" ELSE "failed"]
    /\ ready' = [ready EXCEPT ![r] = FALSE]
    /\ owed' = [owed EXCEPT ![r] = {}]
    /\ UNCHANGED <<tables, published, row, live, stopped, last, lingering, wire, acks,
                   broker, faults, ahead, left>>

\* No row is left: the pass ends without error.
FindNone(r) ==
    /\ MayClaim(r)
    /\ Claimable(r) = {}
    /\ PassOver(r)
    /\ ready' = [ready EXCEPT ![r] = ~last[r]]
    /\ left' = [left EXCEPT ![r] = LockedElsewhere(r)]
    /\ UNCHANGED <<tables, published, row, live, stopped, last, lingering, wire, acks,
                   broker, faults, ahead, owed>>

\* The pass's context ended before the next claim: no error. In the last
\* pass this is the drain's bound running out.
PassCut(r) ==
    /\ pc[r] = "pass"
    /\ stopped[r]
    /\ PassOver(r)
    /\ ready' = [ready EXCEPT ![r] = ~last[r]]
    /\ owed' = [owed EXCEPT ![r] = IF last[r] THEN {} ELSE @]
    /\ UNCHANGED <<tables, published, row, live, stopped, last, lingering, wire, acks,
                   broker, faults, ahead, left>>

\* A pass that ends on an error. Receive turns not ready when the error is
\* the database's, unless its ctx has ended. What the last pass owed waits
\* for the next start.
PassFails(r, database) ==
    /\ PassOver(r)
    /\ live' = [live EXCEPT ![r] = FALSE]
    /\ ready' = [ready EXCEPT ![r] = ~last[r] /\ (~database \/ stopped[r])]
    /\ owed' = [owed EXCEPT ![r] = IF last[r] THEN {} ELSE @]

\* The begin or the claim fails.
DatabaseFails(r) ==
    /\ pc[r] = "pass"
    /\ PassFails(r, TRUE)
    /\ UNCHANGED <<tables, published, row, stopped, last, lingering, wire, acks, broker,
                   faults, ahead, left>>

\* The poll timer fires, or ctx ends the wait and Receive's loop.
Poll(r) ==
    /\ pc[r] = "waiting"
    /\ ~stopped[r]
    /\ pc' = [pc EXCEPT ![r] = "pass"]
    /\ UNCHANGED <<tables, published, row, live, stopped, last, ready, lingering, wire, acks,
                   broker, faults, history>>

LastPass(r) ==
    /\ pc[r] = "waiting"
    /\ stopped[r]
    /\ pc' = [pc EXCEPT ![r] = IF Drain THEN "pass" ELSE "ended"]
    /\ last' = [last EXCEPT ![r] = Drain]
    /\ ready' = [ready EXCEPT ![r] = Drain]
    /\ UNCHANGED <<tables, published, row, live, stopped, lingering, wire, acks, broker,
                   faults, history>>

-----------------------------------------------------------------------------
(* The handler publishes the row's event and waits for the broker to say   *)
(* it holds it. A request outlives the handler that gave up on it.         *)

Publish(r) ==
    /\ pc[r] = "handling"
    /\ wire' = wire \cup {[seq |-> row[r], from |-> r]}
    /\ pc' = [pc EXCEPT ![r] = "sent"]
    /\ UNCHANGED <<tables, published, row, live, stopped, last, ready, lingering, acks, broker,
                   faults, history>>

\* Mistake: the publish is not acknowledged before it counts.
HandlerFireAndForget(r) ==
    /\ pc[r] = "sent"
    /\ acks' = acks \ {r}
    /\ pc' = [pc EXCEPT ![r] = "acked"]
    /\ UNCHANGED <<tables, published, row, live, stopped, last, ready, lingering, wire, broker,
                   faults, history>>

HandlerOk(r) ==
    /\ pc[r] = "sent"
    /\ r \in acks
    /\ acks' = acks \ {r}
    /\ pc' = [pc EXCEPT ![r] = "acked"]
    /\ UNCHANGED <<tables, published, row, live, stopped, last, ready, lingering, wire, broker,
                   faults, history>>

\* Nobody waits for what r has under way any more.
Abandoned(r) ==
    {m \in wire : m.from # r}
        \cup {[seq |-> m.seq, from |-> NoRelay] : m \in {n \in wire : n.from = r}}

\* The broker is down or refuses, the timeout passes, or the reactor's grace
\* cancels the handler: the transaction rolls back and the pass ends.
HandlerFails(r) ==
    /\ pc[r] \in {"handling", "sent"}
    /\ wire' = Abandoned(r)
    /\ acks' = acks \ {r}
    /\ PassFails(r, FALSE)
    /\ UNCHANGED <<tables, published, row, stopped, last, lingering, broker, faults, ahead, left>>

\* The settle deadline rolls the transaction back under a handler that
\* outlives it; the row is unlocked while its publish goes on.
SettleExpires(r) ==
    /\ live[r]
    /\ live' = [live EXCEPT ![r] = FALSE]
    /\ UNCHANGED <<tables, published, pc, row, stopped, last, ready, lingering, wire, acks,
                   broker, faults, history>>

MarkNothing(r) ==
    /\ pc[r] = "acked"
    /\ live[r]
    /\ live' = [live EXCEPT ![r] = FALSE]
    /\ pc' = [pc EXCEPT ![r] = "pass"]
    /\ UNCHANGED <<tables, published, row, stopped, last, ready, lingering, wire, acks, broker,
                   faults, history>>

MarkAndEndPass(r) ==
    /\ pc[r] = "acked"
    /\ live[r]
    /\ published' = published \cup {row[r]}
    /\ live' = [live EXCEPT ![r] = FALSE]
    /\ PassOver(r)
    /\ UNCHANGED <<tables, row, stopped, last, ready, lingering, wire, acks, broker, faults,
                   history>>

\* The mark changed one row and the commit succeeded.
MarkPublished(r) ==
    /\ pc[r] = "acked"
    /\ live[r]
    /\ published' = published \cup {row[r]}
    /\ live' = [live EXCEPT ![r] = FALSE]
    /\ pc' = [pc EXCEPT ![r] = "pass"]
    /\ UNCHANGED <<tables, row, stopped, last, ready, lingering, wire, acks, broker, faults,
                   history>>

\* The mark or the commit fails; a commit whose answer is lost may have happened.
MarkFails(r) ==
    /\ pc[r] = "acked"
    /\ published' \in {published} \cup {published \cup {row[q]} : q \in {p \in {r} : live[p]}}
    /\ PassFails(r, TRUE)
    /\ UNCHANGED <<tables, row, stopped, last, lingering, wire, acks, broker, faults, ahead, left>>

\* The process dies; the database finds out later that its session is gone.
Crash(r) ==
    /\ Receiving(r)
    /\ crashes < MaxCrashes
    /\ crashes' = crashes + 1
    /\ pc' = [pc EXCEPT ![r] = "down"]
    /\ lingering' = lingering \cup {row[q] : q \in {p \in {r} : live[p]}}
    /\ live' = [live EXCEPT ![r] = FALSE]
    /\ ready' = [ready EXCEPT ![r] = FALSE]
    /\ wire' = Abandoned(r)
    /\ acks' = acks \ {r}
    /\ UNCHANGED <<tables, published, row, stopped, last, broker, stops, history>>

\* The database rolls a dead session back.
Release(s) ==
    /\ s \in lingering
    /\ lingering' = lingering \ {s}
    /\ UNCHANGED <<tables, published, relayVars, wire, acks, broker, faults, history>>

-----------------------------------------------------------------------------
(* The broker.                                                             *)

\* Mistake: the broker does not deduplicate.
NeverRepeat(m) == FALSE

\* A publish of a source and id the stream stored within its window.
Repeat(m) == m.seq \in seen

\* The stream stores an event, or drops a repeat within its window, and
\* acknowledges either to whoever still waits. A request it never accepts is
\* a lost one.
Accept(m) ==
    /\ m \in wire
    /\ wire' = wire \ {m}
    /\ IF Repeat(m)
         THEN UNCHANGED <<stream, seen>>
         ELSE /\ stream' = Append(stream, m.seq)
              /\ seen' = seen \cup {m.seq}
    /\ acks' = acks \cup ({m.from} \ {NoRelay})
    /\ UNCHANGED <<tables, published, relayVars, lingering, forgotten, faults, history>>

\* An id leaves the deduplication window.
Forget(s) ==
    /\ s \in seen
    /\ Cardinality(forgotten) < MaxForgets
    /\ s \notin forgotten
    /\ seen' = seen \ {s}
    /\ forgotten' = forgotten \cup {s}
    /\ UNCHANGED <<tables, published, relayVars, lingering, wire, acks, stream, faults, history>>

-----------------------------------------------------------------------------
Command(t) == Emit(t) \/ CommitTx(t) \/ AbortTx(t)

Relay(r) ==
    \/ Start(r) \/ Claim(r) \/ ClaimCorrupt(r) \/ FindNone(r) \/ PassCut(r)
    \/ DatabaseFails(r) \/ Poll(r) \/ LastPass(r) \/ Publish(r) \/ HandlerOk(r)
    \/ HandlerFails(r) \/ SettleExpires(r) \/ MarkPublished(r) \/ MarkFails(r)

Environment ==
    \/ \E r \in Relays : Stop(r) \/ Crash(r)
    \/ \E s \in lingering : Release(s)
    \/ \E m \in wire : Accept(m)
    \/ \E s \in seen : Forget(s)

Next ==
    \/ \E t \in Txs : Command(t)
    \/ \E r \in Relays : Relay(r)
    \/ Environment

Spec == Init /\ [][Next]_vars

(* A supervisor starts a relay again, commands end, dead sessions are      *)
(* found, the loop keeps running; and the broker and the database answer   *)
(* again and again, however often they fail in between. Handlers keep      *)
(* their deadline, half the settle deadline, from some time on.            *)
Fairness ==
    /\ \A t \in Txs : WF_vars(CommitTx(t) \/ AbortTx(t))
    /\ \A s \in Seqs : WF_vars(Release(s))
    /\ \A r \in Relays :
         /\ WF_vars(Start(r))
         /\ WF_vars(Poll(r) \/ LastPass(r) \/ PassCut(r) \/ FindNone(r) \/ ClaimCorrupt(r))
         /\ SF_vars(Claim(r))
         /\ SF_vars(Publish(r))
         /\ \A s \in Seqs : SF_vars(Accept([seq |-> s, from |-> r]))
         /\ SF_vars(HandlerOk(r))
         /\ SF_vars(MarkPublished(r))
         /\ WF_vars(HandlerFails(r))
         /\ WF_vars(MarkFails(r))
    /\ <>[][\A r \in Relays : ~SettleExpires(r)]_vars

FairSpec == Spec /\ Fairness

-----------------------------------------------------------------------------
(* Properties.                                                             *)

TypeOK ==
    /\ tx \in [Txs -> {"open", "committed", "aborted"}]
    /\ rows \in Seq(Txs) /\ Len(rows) <= MaxSeq
    /\ published \subseteq Seqs
    /\ pc \in [Relays -> {"down", "pass", "handling", "sent", "acked", "waiting", "ended", "failed"}]
    /\ row \in [Relays -> Seqs \cup {0}]
    /\ \A r \in Relays : (Handling(r) \/ live[r]) => row[r] \in Seqs
    /\ live \in [Relays -> BOOLEAN]
    /\ stopped \in [Relays -> BOOLEAN]
    /\ last \in [Relays -> BOOLEAN]
    /\ ready \in [Relays -> BOOLEAN]
    /\ lingering \subseteq Seqs
    /\ wire \subseteq Request
    /\ acks \subseteq Relays
    /\ stream \in Seq(Seqs)
    /\ seen \subseteq Seqs
    /\ forgotten \subseteq Seqs
    /\ crashes \in Nat
    /\ stops \in Nat
    /\ ahead \subseteq Seqs \X Seqs
    /\ owed \in [Relays -> SUBSET Seqs]
    /\ left \in [Relays -> SUBSET Seqs]

\* The atomicity the outbox exists for: nothing a command rolled back, or has
\* not committed yet, is ever stored by the broker or on its way there.
OnlyCommittedLeave ==
    Stored \cup {m.seq : m \in wire} \subseteq Visible

\* A row is marked published only once the broker holds its event, so no crash,
\* lost answer or failed commit loses one.
PublishedIsStored == published \subseteq Stored

\* While a relay's transaction is open, the row it claimed is its own: no
\* other transaction, live or dying, holds it, and it is still unpublished.
ExclusiveClaim ==
    \A r \in Relays : live[r] =>
        /\ row[r] \in Pending
        /\ row[r] \notin LockedElsewhere(r)

\* The stream repeats an event only when the event's id had left the
\* deduplication window between the two publishes.
RepeatsOutsideWindow ==
    \A i, j \in DOMAIN stream : (i # j /\ stream[i] = stream[j]) => stream[i] \in forgotten

First(s) == CHOOSE i \in DOMAIN stream : stream[i] = s /\ \A j \in 1..(i - 1) : stream[j] # s

\* Events first reach the stream in seq order, except where the later row was
\* out before the earlier one committed, or was claimed while another session
\* held the earlier one.
SeqOrder ==
    \A f \in Stored : \A e \in Visible :
        (e < f /\ (e \in Stored => First(f) < First(e))) => <<e, f>> \in ahead

\* A relay with a drain that is stopped, and whose last pass ends by finding
\* nothing to claim, has left no row committed before the stop unpublished,
\* save those another session held.
DrainPublishesOwed ==
    Drain => \A r \in Relays : pc[r] = "ended" => owed[r] \subseteq published \cup left[r]

\* The outbox keeps the promise of Delivery, in which a command's rows are the
\* events it raised: nothing but a committed command's event reaches the stream
\* (PromiseSafety), and each such event is marked published in the end, rather
\* than published again and again (KeepsPromise; PublishedIsStored says that
\* what is marked is in the stream).
Promise == INSTANCE Delivery WITH
    Commands <- Txs, Events <- Seqs,
    outcome <- tx, raised <- [t \in Txs |-> RowsOf(t)], delivered <- Stored
PromiseSafety == Promise!SafeSpec

Marked == INSTANCE Delivery WITH
    Commands <- Txs, Events <- Seqs,
    outcome <- tx, raised <- [t \in Txs |-> RowsOf(t)], delivered <- published
KeepsPromise == Marked!FairSpec

=============================================================================
