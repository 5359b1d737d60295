------------------------------- MODULE Inbox --------------------------------
(***************************************************************************)
(* Consuming through the inbox: the members of durable JetStream consumers *)
(* take deliveries one at a time, and handle each in one transaction that  *)
(* claims the event, works, and commits both together; the outcome is      *)
(* settled with the server afterwards, and any message to it may be lost.  *)
(*                                                                         *)
(* An event may be stored in the stream more than once, for a relay that   *)
(* publishes it again after the deduplication window: the messages are the *)
(* copies, and the inbox knows them by the event they carry.               *)
(***************************************************************************)
EXTENDS Naturals, FiniteSets

CONSTANTS
    Consumers,    \* the names of subscriptions
    Members,      \* the sources, each a member of one consumer
    ConsumerOf,   \* member -> its subscription's Name
    Msgs,         \* the messages in the stream
    Events,       \* the identities (source and id) they carry
    EventOf,      \* message -> the event it carries
    Malformed,    \* the events whose data no handler accepts
    MaxDeliver,   \* deliveries of one message at most; 0 is unlimited
    MaxCrashes    \* bound: processes that die, and connections cut at a commit

ASSUME ConsumerAssumption == ConsumerOf \in [Members -> Consumers]
ASSUME EventAssumption == EventOf \in [Msgs -> Events] /\ Malformed \subseteq Events
ASSUME BoundAssumption == MaxDeliver \in Nat /\ MaxCrashes \in Nat

Keys == Consumers \X Events
Slots == Consumers \X Msgs
SlotOf(m, d) == <<ConsumerOf[m], d>>

None == "none"
ASSUME MsgAssumption == None \notin Msgs

VARIABLES
    slot,       \* <<consumer, message>> -> what the server has it as
    count,      \* <<consumer, message>> -> its deliveries, where MaxDeliver bounds them
    wire,       \* outcomes under way to the server: [slot, kind]
    pc,         \* member -> "pull", "received", "claimed", "repeat", "returned"
    job,        \* member -> the message it handles
    out,        \* member -> the handler's outcome: "ok", "retry", "refuse"
    overdue,    \* member -> whether its delivery's deadline has passed
    inbox,      \* messaging_inbox: the committed claims
    severed,    \* claims of open transactions whose client is gone
    effects,    \* history: claim -> how often the work under it committed
    crashes

\* What m's claim keys on, while it handles a message.
Key(m) == <<ConsumerOf[m], EventOf[job[m]]>>

deliveries == <<slot, count, wire>>
member == <<pc, job, out, overdue>>
database == <<inbox, severed, effects>>
inboxVars == <<deliveries, member, database, crashes>>

Kinds == {"ack", "nak", "term"}
Answers == {"ok", "retry", "refuse"}

InboxInit ==
    /\ slot = [k \in Slots |-> "ready"]
    /\ count = [k \in Slots |-> 0]
    /\ wire = {}
    /\ pc = [m \in Members |-> "pull"]
    /\ job = [m \in Members |-> None]
    /\ out = [m \in Members |-> "ok"]
    /\ overdue = [m \in Members |-> FALSE]
    /\ inbox = {}
    /\ severed = {}
    /\ effects = [k \in Keys |-> 0]
    /\ crashes = 0

-----------------------------------------------------------------------------
(* The server's side of a durable consumer.                                *)

Counted(k) == IF MaxDeliver = 0 THEN count ELSE [count EXCEPT ![k] = @ + 1]

\* The server sends d to a member that pulls; the deadline starts.
Deliver(m, d) ==
    /\ pc[m] = "pull"
    /\ slot[SlotOf(m, d)] = "ready"
    /\ slot' = [slot EXCEPT ![SlotOf(m, d)] = "flight"]
    /\ count' = Counted(SlotOf(m, d))
    /\ pc' = [pc EXCEPT ![m] = "received"]
    /\ job' = [job EXCEPT ![m] = d]
    /\ overdue' = [overdue EXCEPT ![m] = FALSE]
    /\ UNCHANGED <<wire, out, database, crashes>>

\* A delivery that reaches no member.
DeliverLost(k) ==
    /\ slot[k] = "ready"
    /\ slot' = [slot EXCEPT ![k] = "flight"]
    /\ count' = Counted(k)
    /\ UNCHANGED <<wire, member, database, crashes>>

\* A message that was not handled is delivered again, within MaxDeliver.
Again(k) == IF MaxDeliver > 0 /\ count[k] >= MaxDeliver THEN "spent" ELSE "ready"

\* The server's AckWait passes.
Lapse(k) ==
    /\ slot[k] = "flight"
    /\ slot' = [slot EXCEPT ![k] = Again(k)]
    /\ UNCHANGED <<count, wire, member, database, crashes>>

\* An outcome arrives. An acknowledgement and a termination settle the message
\* whichever delivery they answer.
Arrive(o) ==
    /\ o \in wire
    /\ wire' = wire \ {o}
    /\ slot' = [slot EXCEPT ![o.slot] =
          CASE @ \notin {"ready", "flight"} -> @
            [] o.kind = "ack" -> "acked"
            [] o.kind = "term" -> "termed"
            [] o.kind = "nak" /\ @ = "flight" -> Again(o.slot)
            [] OTHER -> @]
    /\ UNCHANGED <<count, member, database, crashes>>

Lose(o) ==
    /\ o \in wire
    /\ wire' = wire \ {o}
    /\ UNCHANGED <<slot, count, member, database, crashes>>

-----------------------------------------------------------------------------
(* The member: deliver, and the handler's transaction.                     *)

\* The claims other open transactions have inserted.
Held(m) ==
    severed \cup {Key(n) : n \in {p \in Members \ {m} : pc[p] = "claimed"}}

\* The data decodes and validates, and the handler's context has not ended.
MayClaim(m) ==
    /\ pc[m] = "received"
    /\ EventOf[job[m]] \notin Malformed
    /\ ~overdue[m]

\* Mistake: a claim that another transaction has inserted is not waited for.
ClaimUnlocked(m) ==
    /\ MayClaim(m)
    /\ pc' = [pc EXCEPT ![m] = IF Key(m) \in inbox THEN "repeat" ELSE "claimed"]
    /\ UNCHANGED <<deliveries, job, out, overdue, database, crashes>>

\* Mistake: a claim that another transaction has inserted is a repeat.
ClaimHeldIsRepeat(m) ==
    /\ MayClaim(m)
    /\ pc' = [pc EXCEPT ![m] =
          IF Key(m) \in inbox \cup Held(m) THEN "repeat" ELSE "claimed"]
    /\ UNCHANGED <<deliveries, job, out, overdue, database, crashes>>

\* The insert waits for another transaction's insert of the same key to end;
\* it then changes no row if that one committed, and one if it rolled back.
Claim(m) ==
    /\ MayClaim(m)
    /\ Key(m) \notin Held(m)
    /\ pc' = [pc EXCEPT ![m] = IF Key(m) \in inbox THEN "repeat" ELSE "claimed"]
    /\ UNCHANGED <<deliveries, job, out, overdue, database, crashes>>

Answer(m, how) ==
    /\ pc' = [pc EXCEPT ![m] = "returned"]
    /\ out' = [out EXCEPT ![m] = how]
    /\ UNCHANGED <<job, overdue>>

\* The command's work and its claim commit together.
Commit(m) ==
    /\ pc[m] = "claimed"
    /\ inbox' = inbox \cup {Key(m)}
    /\ effects' = [effects EXCEPT ![Key(m)] = @ + 1]
    /\ Answer(m, "ok")
    /\ UNCHANGED <<deliveries, severed, crashes>>

\* Mistake: a repeat is an error.
SkipFails(m) ==
    /\ pc[m] = "repeat"
    /\ Answer(m, "retry")
    /\ UNCHANGED <<deliveries, database, crashes>>

\* A repeat does no work and succeeds.
Skip(m) ==
    /\ pc[m] = "repeat"
    /\ Answer(m, "ok")
    /\ UNCHANGED <<deliveries, database, crashes>>

\* The work fails, the database does, or the handler's context ends on its
\* deadline or on the reactor's grace: the claim rolls back with the work.
Fail(m) ==
    /\ pc[m] \in {"received", "claimed", "repeat"}
    /\ Answer(m, "retry")
    /\ UNCHANGED <<deliveries, database, crashes>>

\* A permanent refusal: malformed data, or a command its domain refuses, whose
\* transaction rolls back.
Refuse(m) ==
    /\ \/ pc[m] = "received" /\ EventOf[job[m]] \in Malformed
       \/ pc[m] = "claimed"
    /\ Answer(m, "refuse")
    /\ UNCHANGED <<deliveries, database, crashes>>

\* The deadline is on the handler's context, before the server's AckWait.
Deadline(m) ==
    /\ pc[m] # "pull"
    /\ ~overdue[m]
    /\ overdue' = [overdue EXCEPT ![m] = TRUE]
    /\ UNCHANGED <<deliveries, pc, job, out, database, crashes>>

Kind(how) == [ok |-> "ack", retry |-> "nak", refuse |-> "term"][how]

\* The outcome is sent, unless it is late; then it is dropped.
Settle(m) ==
    /\ pc[m] = "returned"
    /\ wire' = IF overdue[m]
                 THEN wire
                 ELSE wire \cup {[slot |-> SlotOf(m, job[m]), kind |-> Kind(out[m])]}
    /\ pc' = [pc EXCEPT ![m] = "pull"]
    /\ job' = [job EXCEPT ![m] = None]
    /\ UNCHANGED <<slot, count, out, overdue, database, crashes>>

-----------------------------------------------------------------------------
(* Faults at the transaction.                                              *)

\* The process dies, and starts again without what it had.
Crash(m) ==
    /\ pc[m] # "pull"
    /\ crashes < MaxCrashes
    /\ crashes' = crashes + 1
    /\ severed' = severed \cup {Key(p) : p \in {q \in {m} : pc[q] = "claimed"}}
    /\ pc' = [pc EXCEPT ![m] = "pull"]
    /\ job' = [job EXCEPT ![m] = None]
    /\ UNCHANGED <<deliveries, out, overdue, inbox, effects>>

\* The answer to a commit is lost: the handler sees an error.
Sever(m) ==
    /\ pc[m] = "claimed"
    /\ crashes < MaxCrashes
    /\ crashes' = crashes + 1
    /\ severed' = severed \cup {Key(m)}
    /\ Answer(m, "retry")
    /\ UNCHANGED <<deliveries, inbox, effects>>

\* The database rolls a transaction without a client back, or completes the
\* commit that was on its way.
RollBackSevered(k) ==
    /\ k \in severed
    /\ severed' = severed \ {k}
    /\ UNCHANGED <<deliveries, member, inbox, effects, crashes>>

CommitSevered(k) ==
    /\ k \in severed
    /\ severed' = severed \ {k}
    /\ inbox' = inbox \cup {k}
    /\ effects' = [effects EXCEPT ![k] = @ + 1]
    /\ UNCHANGED <<deliveries, member, crashes>>

-----------------------------------------------------------------------------
Server ==
    \/ \E m \in Members, d \in Msgs : Deliver(m, d)
    \/ \E k \in Slots : DeliverLost(k) \/ Lapse(k)
    \/ \E o \in wire : Arrive(o) \/ Lose(o)

Member(m) ==
    \/ Claim(m) \/ Commit(m) \/ Skip(m) \/ Fail(m) \/ Refuse(m)
    \/ Deadline(m) \/ Settle(m) \/ Crash(m) \/ Sever(m)

Database == \E k \in severed : RollBackSevered(k) \/ CommitSevered(k)

InboxNext == Server \/ Database \/ \E m \in Members : Member(m)

InboxSpec == InboxInit /\ [][InboxNext]_inboxVars

(* The server delivers and expires, handlers return, the database finds    *)
(* dead clients out; and a handler that is called again and again claims,  *)
(* succeeds or refuses, and has its outcome arrive, once. Handlers keep    *)
(* their deadline from some time on.                                       *)
InboxFairness ==
    /\ \A k \in Slots :
         /\ SF_inboxVars(\E m \in Members, d \in Msgs : SlotOf(m, d) = k /\ Deliver(m, d))
         /\ WF_inboxVars(Lapse(k))
         /\ SF_inboxVars(Arrive([slot |-> k, kind |-> "ack"]))
         /\ SF_inboxVars(Arrive([slot |-> k, kind |-> "term"]))
    /\ \A k \in Keys : WF_inboxVars(RollBackSevered(k) \/ CommitSevered(k))
    /\ \A m \in Members :
         /\ WF_inboxVars(Fail(m))
         /\ WF_inboxVars(Settle(m))
         /\ \A d \in Msgs :
              /\ SF_inboxVars(job[m] = d /\ (Claim(m) \/ (pc[m] = "received" /\ Refuse(m))))
              /\ SF_inboxVars(job[m] = d /\ (Commit(m) \/ Skip(m)))
    /\ <>[][\A m \in Members : ~Deadline(m)]_inboxVars

InboxFairSpec == InboxSpec /\ InboxFairness

-----------------------------------------------------------------------------
(* Properties.                                                             *)

InboxTypeOK ==
    /\ slot \in [Slots -> {"ready", "flight", "acked", "termed", "spent"}]
    /\ count \in [Slots -> 0..MaxDeliver]
    /\ wire \subseteq [slot : Slots, kind : Kinds]
    /\ pc \in [Members -> {"pull", "received", "claimed", "repeat", "returned"}]
    /\ job \in [Members -> Msgs \cup {None}]
    /\ \A m \in Members : pc[m] # "pull" => job[m] \in Msgs
    /\ out \in [Members -> Answers]
    /\ overdue \in [Members -> BOOLEAN]
    /\ inbox \subseteq Keys
    /\ severed \subseteq Keys
    /\ effects \in [Keys -> Nat]
    /\ crashes \in Nat

\* A consumer's work for an event commits once at most, and exactly when its
\* claim does: whatever is redelivered, published again, overrun, lost or
\* answered late, and whichever members handle it side by side.
HandledOnce ==
    \A k \in Keys : effects[k] = IF k \in inbox THEN 1 ELSE 0

\* A message is acknowledged only once its consumer's work for the event has
\* committed: a repeat is never acknowledged on the strength of a claim that
\* may still roll back.
AckedIsHandled ==
    \A c \in Consumers, d \in Msgs :
        slot[<<c, d>>] = "acked" => <<c, EventOf[d]>> \in inbox

\* Without a bound on deliveries every message of every consumer is settled
\* in the end, handled or refused.
EventuallySettled == \A k \in Slots : <>(slot[k] \in {"acked", "termed"})

=============================================================================
