---------------------------- MODULE ConsumerProof ----------------------------
(***************************************************************************)
(* Theorems about the two halves of consuming. About Inbox, for any        *)
(* consumers, members, messages and events; about Reactor, with a grace or *)
(* without; and about the reactor that runs a NATS source, which is one of *)
(* the reactors Reactor describes.                                         *)
(***************************************************************************)
EXTENDS Inbox, NatsSource, FiniteSetTheorems, TLAPS

USE ConsumerAssumption, EventAssumption, BoundAssumption, MsgAssumption

-----------------------------------------------------------------------------
(* Inbox: the inductive invariant.                                         *)

\* A claim that is inserted and not committed is one transaction's alone, and
\* no committed claim has its key: the primary key of messaging_inbox.
OneHolder ==
    /\ severed \cap inbox = {}
    /\ \A m \in Members : pc[m] = "claimed" =>
         /\ Key(m) \notin inbox \cup severed
         /\ \A n \in Members \ {m} : pc[n] = "claimed" => Key(n) # Key(m)

\* A repeat, a handler that returned success, and an acknowledgement under way
\* each stand on a committed claim.
SuccessIsCommitted ==
    /\ \A m \in Members :
         (pc[m] = "repeat" \/ (pc[m] = "returned" /\ out[m] = "ok")) => Key(m) \in inbox
    /\ \A c \in Consumers, d \in Msgs :
         [slot |-> <<c, d>>, kind |-> "ack"] \in wire => <<c, EventOf[d]>> \in inbox

\* The server delivers a message again only below its bound.
WithinBound == \A k \in Slots : (slot[k] = "ready" /\ MaxDeliver > 0) => count[k] < MaxDeliver

InboxInv == InboxTypeOK /\ WithinBound /\ OneHolder /\ SuccessIsCommitted
                /\ HandledOnce /\ AckedIsHandled

-----------------------------------------------------------------------------
(* The type invariant.                                                     *)

\* A member that handles a message has a key to claim.
LEMMA KeyType ==
    ASSUME InboxTypeOK, NEW m \in Members, pc[m] # "pull"
    PROVE  Key(m) \in Keys /\ SlotOf(m, job[m]) \in Slots
BY DEF InboxTypeOK, Key, Keys, SlotOf, Slots

\* What the server may deliver again is below the bound.
LEMMA AgainIsBelow ==
    ASSUME InboxTypeOK, NEW k \in Slots, Again(k) = "ready", MaxDeliver > 0
    PROVE  count[k] < MaxDeliver
BY DEF Again, InboxTypeOK

\* A delivery of a message below the bound keeps the counts within it.
LEMMA CountedType ==
    ASSUME InboxTypeOK, WithinBound, NEW k \in Slots, slot[k] = "ready"
    PROVE  Counted(k) \in [Slots -> 0..MaxDeliver]
BY DEF InboxTypeOK, WithinBound, Counted

\* Every step of the server, the members and the database keeps every variable
\* in its type.
LEMMA InboxTypeStep == InboxTypeOK /\ WithinBound /\ [InboxNext]_inboxVars => InboxTypeOK'
<1> SUFFICES ASSUME InboxTypeOK, WithinBound, [InboxNext]_inboxVars PROVE InboxTypeOK'
  OBVIOUS
<1> USE DEF InboxTypeOK
<1>1. ASSUME NEW m \in Members, NEW d \in Msgs, Deliver(m, d) PROVE InboxTypeOK'
  <2>1. SlotOf(m, d) \in Slots
    BY DEF SlotOf, Slots
  <2> QED
    BY <1>1, <2>1, CountedType DEF Deliver, database
<1>2. ASSUME NEW k \in Slots, DeliverLost(k) \/ Lapse(k) PROVE InboxTypeOK'
  BY <1>2, CountedType DEF DeliverLost, Lapse, Again, member, database
<1>3. ASSUME NEW o \in wire, Arrive(o) \/ Lose(o) PROVE InboxTypeOK'
  <2>1. o.slot \in Slots /\ Again(o.slot) \in {"ready", "spent"}
    BY DEF Again
  <2> QED
    BY <1>3, <2>1 DEF Arrive, Lose, member, database
<1>4. ASSUME NEW m \in Members, Member(m) PROVE InboxTypeOK'
  <2>1. CASE Claim(m) \/ Skip(m) \/ Fail(m) \/ Refuse(m) \/ Deadline(m)
    BY <2>1
    DEF Claim, MayClaim, Skip, Fail, Refuse, Deadline, Answer, Answers, deliveries, database
  <2>2. CASE Commit(m) \/ Sever(m)
    BY <2>2, KeyType DEF Commit, Sever, Answer, Answers, deliveries
  <2>3. CASE Settle(m)
    <3>1. Kind(out[m]) \in Kinds
      BY DEF Kind, Kinds, Answers
    <3> QED
      BY <2>3, <3>1, KeyType DEF Settle, database
  <2>4. CASE Crash(m)
    BY <2>4, KeyType DEF Crash, deliveries
  <2> QED
    BY <1>4, <2>1, <2>2, <2>3, <2>4 DEF Member
<1>5. ASSUME NEW k \in severed, RollBackSevered(k) \/ CommitSevered(k) PROVE InboxTypeOK'
  BY <1>5 DEF RollBackSevered, CommitSevered, deliveries, member
<1>6. CASE UNCHANGED inboxVars
  BY <1>6 DEF inboxVars, deliveries, member, database
<1> QED
  BY <1>1, <1>2, <1>3, <1>4, <1>5, <1>6 DEF InboxNext, Server, Database

\* The server's bookkeeping never offers a message past its bound.
LEMMA BoundStep == InboxTypeOK /\ WithinBound /\ [InboxNext]_inboxVars => WithinBound'
<1> SUFFICES ASSUME InboxTypeOK, WithinBound, [InboxNext]_inboxVars PROVE WithinBound'
  OBVIOUS
<1> USE DEF InboxTypeOK, WithinBound
<1>1. ASSUME NEW m \in Members, NEW d \in Msgs, Deliver(m, d) PROVE WithinBound'
  <2>1. SlotOf(m, d) \in Slots
    BY DEF SlotOf, Slots
  <2> QED
    BY <1>1, <2>1 DEF Deliver, Counted
<1>2. ASSUME NEW k \in Slots, DeliverLost(k) PROVE WithinBound'
  BY <1>2 DEF DeliverLost, Counted
<1>3. ASSUME NEW k \in Slots, Lapse(k) PROVE WithinBound'
  BY <1>3, AgainIsBelow DEF Lapse
<1>4. ASSUME NEW o \in wire, Arrive(o) PROVE WithinBound'
  <2>1. o.slot \in Slots
    OBVIOUS
  <2> QED
    BY <1>4, <2>1, AgainIsBelow DEF Arrive
<1>5. ASSUME UNCHANGED <<slot, count>> PROVE WithinBound'
  BY <1>5
<1> QED
  BY <1>1, <1>2, <1>3, <1>4, <1>5
  DEF InboxNext, Server, Database, Member, Lose, Claim, Commit, Skip, Fail, Refuse, Deadline, Settle,
      Crash, Sever, RollBackSevered, CommitSevered, inboxVars, deliveries, member

-----------------------------------------------------------------------------
(* Claims and effects.                                                     *)

\* What the claims and the effects depend on.
transactions == <<pc, job, inbox, severed, effects>>

\* A claim stays one transaction's, and its work is committed once.
LEMMA ClaimsStep == InboxInv /\ [InboxNext]_inboxVars => OneHolder' /\ HandledOnce'
<1> SUFFICES ASSUME InboxInv, [InboxNext]_inboxVars PROVE OneHolder' /\ HandledOnce'
  OBVIOUS
<1> USE DEF InboxInv, InboxTypeOK, OneHolder, HandledOnce, Key
<1>1. ASSUME UNCHANGED transactions PROVE OneHolder' /\ HandledOnce'
  BY <1>1 DEF transactions
<1>2. ASSUME NEW m \in Members, NEW d \in Msgs, Deliver(m, d) PROVE OneHolder' /\ HandledOnce'
  BY <1>2 DEF Deliver, database
<1>3. ASSUME NEW m \in Members, Claim(m) PROVE OneHolder' /\ HandledOnce'
  <2>1. /\ Key(m) \notin severed
        /\ \A n \in Members \ {m} : pc[n] = "claimed" => Key(n) # Key(m)
    BY <1>3 DEF Claim, Held
  <2>2. pc' = [pc EXCEPT ![m] = IF Key(m) \in inbox THEN "repeat" ELSE "claimed"]
    BY <1>3 DEF Claim
  <2>3. UNCHANGED <<job, inbox, severed, effects>>
    BY <1>3 DEF Claim, database
  <2>4. \A n \in Members : Key(n)' = Key(n)
    BY <2>3
  <2>5. \A n \in Members : pc'[n] = "claimed" =>
            pc[n] = "claimed" \/ (n = m /\ Key(m) \notin inbox)
    BY <2>2
  <2> QED
    BY <2>1, <2>3, <2>4, <2>5 DEF Keys
<1>4. ASSUME NEW m \in Members, Commit(m) PROVE OneHolder' /\ HandledOnce'
  <2>1. Key(m) \in Keys /\ Key(m) \notin inbox
    BY <1>4, KeyType DEF Commit
  <2> QED
    BY <1>4, <2>1 DEF Commit, Answer
<1>5. ASSUME NEW m \in Members, Crash(m) \/ Sever(m) PROVE OneHolder' /\ HandledOnce'
  <2>1. /\ pc[m] # "claimed" => severed' = severed
        /\ pc[m] = "claimed" => severed' = severed \cup {Key(m)}
        /\ UNCHANGED <<inbox, effects>>
    <3>1. CASE Sever(m)
      BY <3>1 DEF Sever
    <3>2. CASE Crash(m)
      <4> DEFINE lost == {Key(p) : p \in {q \in {m} : pc[q] = "claimed"}}
      <4>1. severed' = severed \cup lost /\ UNCHANGED <<inbox, effects>>
        BY <3>2 DEF Crash
      <4>2. pc[m] # "claimed" => lost = {}
        OBVIOUS
      <4>3. pc[m] = "claimed" => lost = {Key(m)}
        BY DEF Key
      <4> QED
        BY <4>1, <4>2, <4>3
    <3> QED
      BY <1>5, <3>1, <3>2
  <2>2. /\ pc'[m] # "claimed"
        /\ \A n \in Members \ {m} : pc'[n] = pc[n] /\ job'[n] = job[n]
    BY <1>5 DEF Crash, Sever, Answer
  <2> QED
    BY <2>1, <2>2
<1>6. ASSUME NEW m \in Members, Skip(m) \/ Fail(m) \/ Refuse(m) \/ Settle(m)
      PROVE  OneHolder' /\ HandledOnce'
  <2>1. /\ pc'[m] # "claimed"
        /\ \A n \in Members \ {m} : pc'[n] = pc[n] /\ job'[n] = job[n]
        /\ UNCHANGED database
    BY <1>6 DEF Skip, Fail, Refuse, Settle, Answer
  <2> QED
    BY <2>1 DEF database
<1>7. ASSUME NEW k \in severed, RollBackSevered(k) \/ CommitSevered(k)
      PROVE  OneHolder' /\ HandledOnce'
  <2>1. k \in Keys
    OBVIOUS
  <2> QED
    BY <1>7, <2>1 DEF RollBackSevered, CommitSevered, member
<1> QED
  BY <1>1, <1>2, <1>3, <1>4, <1>5, <1>6, <1>7
  DEF InboxNext, Server, Database, Member, DeliverLost, Lapse, Arrive, Lose, Deadline, transactions,
      inboxVars, deliveries, member, database

\* A committed claim stays committed.
LEMMA InboxGrows == [InboxNext]_inboxVars => inbox \subseteq inbox'
BY DEF InboxNext, Server, Database, Member, Deliver, DeliverLost, Lapse, Arrive, Lose, Claim, Commit,
       Skip, Fail, Refuse, Deadline, Settle, Crash, Sever, RollBackSevered, CommitSevered,
       inboxVars, database

\* Whatever counts as handled stands on a committed claim.
LEMMA SuccessStep == InboxInv /\ [InboxNext]_inboxVars => SuccessIsCommitted' /\ AckedIsHandled'
<1> SUFFICES ASSUME InboxInv, [InboxNext]_inboxVars PROVE SuccessIsCommitted' /\ AckedIsHandled'
  OBVIOUS
<1>t. InboxTypeOK /\ SuccessIsCommitted /\ AckedIsHandled
  BY DEF InboxInv
<1>g. inbox \subseteq inbox'
  BY InboxGrows
<1> USE DEF InboxTypeOK, SuccessIsCommitted, AckedIsHandled, Key
<1>1. ASSUME NEW m \in Members, NEW d \in Msgs, Deliver(m, d)
      PROVE  SuccessIsCommitted' /\ AckedIsHandled'
  BY <1>1, <1>t, <1>g DEF Deliver, SlotOf, database
<1>2. ASSUME NEW k \in Slots, DeliverLost(k) \/ Lapse(k)
      PROVE  SuccessIsCommitted' /\ AckedIsHandled'
  <2>1. /\ UNCHANGED <<wire, pc, job, out>>
        /\ \A l \in Slots : slot'[l] = "acked" => slot[l] = "acked"
    BY <1>2, <1>t DEF DeliverLost, Lapse, Again, member
  <2> QED
    BY <2>1, <1>t, <1>g DEF Slots
<1>3. ASSUME NEW o \in wire, Arrive(o) \/ Lose(o) PROVE SuccessIsCommitted' /\ AckedIsHandled'
  <2>1. o \in [slot : Slots, kind : Kinds]
    BY <1>t
  <2>2. UNCHANGED <<pc, job, out>> /\ wire' \subseteq wire
    BY <1>3 DEF Arrive, Lose, member
  <2>3. \A k \in Slots : slot'[k] = "acked" => slot[k] = "acked" \/ (k = o.slot /\ o.kind = "ack")
    BY <1>3, <1>t, <2>1 DEF Arrive, Lose, Again
  <2>4. o.kind = "ack" => o = [slot |-> o.slot, kind |-> "ack"]
    BY <2>1
  <2> QED
    BY <1>t, <1>g, <2>1, <2>2, <2>3, <2>4 DEF Slots
<1>4. ASSUME NEW m \in Members, Member(m) PROVE SuccessIsCommitted' /\ AckedIsHandled'
  <2>1. CASE Claim(m)
    BY <2>1, <1>t, <1>g DEF Claim, deliveries, database
  <2>2. CASE Commit(m) \/ Skip(m)
    BY <2>2, <1>t, <1>g DEF Commit, Skip, Answer, deliveries
  <2>3. CASE Fail(m) \/ Refuse(m) \/ Sever(m)
    BY <2>3, <1>t, <1>g DEF Fail, Refuse, Sever, Answer, deliveries
  <2>4. CASE Deadline(m) \/ Crash(m)
    BY <2>4, <1>t, <1>g DEF Deadline, Crash, deliveries
  <2>5. CASE Settle(m)
    <3>1. wire' \subseteq wire \cup {[slot |-> SlotOf(m, job[m]), kind |-> Kind(out[m])]}
      BY <2>5 DEF Settle
    <3>2. Kind(out[m]) = "ack" => Key(m) \in inbox
      BY <2>5, <1>t DEF Settle, Kind, Answers
    <3>3. ASSUME NEW c \in Consumers, NEW d \in Msgs,
                 [slot |-> <<c, d>>, kind |-> "ack"] \in wire'
          PROVE  <<c, EventOf[d]>> \in inbox
      BY <3>1, <3>2, <3>3, <1>t DEF SlotOf
    <3> QED
      BY <2>5, <3>3, <1>t, <1>g DEF Settle
  <2> QED
    BY <1>4, <2>1, <2>2, <2>3, <2>4, <2>5 DEF Member
<1>5. ASSUME UNCHANGED <<slot, wire, pc, job, out>> PROVE SuccessIsCommitted' /\ AckedIsHandled'
  BY <1>5, <1>t, <1>g
<1> QED
  BY <1>1, <1>2, <1>3, <1>4, <1>5
  DEF InboxNext, Server, Database, RollBackSevered, CommitSevered, inboxVars, deliveries, member

-----------------------------------------------------------------------------
\* The strengthened invariant holds of every state.
LEMMA InboxSafe == InboxSpec => []InboxInv
<1>1. InboxInit => InboxInv
  <2> SUFFICES ASSUME InboxInit PROVE InboxInv
    OBVIOUS
  <2>1. InboxTypeOK /\ WithinBound
    BY DEF InboxInit, InboxTypeOK, WithinBound, Answers
  <2>2. OneHolder /\ SuccessIsCommitted
    BY DEF InboxInit, OneHolder, SuccessIsCommitted
  <2>3. HandledOnce
    BY DEF InboxInit, HandledOnce
  <2>4. AckedIsHandled
    BY DEF InboxInit, AckedIsHandled, Slots
  <2> QED
    BY <2>1, <2>2, <2>3, <2>4 DEF InboxInv
<1>2. InboxInv /\ [InboxNext]_inboxVars => InboxInv'
  BY InboxTypeStep, BoundStep, ClaimsStep, SuccessStep DEF InboxInv
<1> QED
  BY <1>1, <1>2, PTL DEF InboxSpec

\* Every variable keeps its type.
THEOREM InboxTypeCorrect == InboxSpec => []InboxTypeOK
BY InboxSafe, PTL DEF InboxInv

\* A consumer does an event's work once, whatever its deliveries go through.
THEOREM WorkIsDoneOnce == InboxSpec => []HandledOnce
BY InboxSafe, PTL DEF InboxInv

\* An acknowledged message's work is committed.
THEOREM AcknowledgedIsHandled == InboxSpec => []AckedIsHandled
BY InboxSafe, PTL DEF InboxInv

-----------------------------------------------------------------------------
USE GraceAssumption

-----------------------------------------------------------------------------
(* Reactor: the inductive invariant.                                       *)

\* The goroutine runs Receive, which has not been accounted for.
Running == recv \in {"receiving", "handling", "returned"}

\* Receive's result has been recorded.
Recorded == recv \in {"recorded", "errsClosed", "over"}

\* The reactor's state says where its goroutine is.
StateIsWhere ==
    /\ state \in {"running", "stopping"} <=> Running
    /\ state = "idle" => recv = "none" /\ shut = "no"
    /\ state = "running" => shut = "no"
    /\ state = "stopping" => shut # "no"
    /\ state = "stopped" /\ recv = "none" => shut = "returned" /\ ~aborted
    /\ ret = "none" <=> recv \in {"none", "receiving", "handling"}

\* A channel has been closed exactly when the goroutine, or Shutdown in its
\* place, is past the line that closes it.
ClosedOnce ==
    /\ errsCloses = IF recv \in {"errsClosed", "over"} \/ (recv = "none" /\ state = "stopped") THEN 1 ELSE 0
    /\ doneCloses = IF recv = "over" \/ (recv = "none" /\ state = "stopped") THEN 1 ELSE 0

\* The coordinator monitors until it shuts the reactor down, the grace timer
\* runs while the drain does, and only a grace that ran out cancels handlers.
PhaseIsWhere ==
    /\ monitoring <=> shut = "no"
    /\ shut # "returned" => result = {} /\ (aborted <=> cancelled)
    /\ shut \in {"no", "entered"} => ~cancelled /\ grace = "off"
    /\ grace = "running" => ~cancelled
    /\ ret = "cancelled" => aborted

\* Until Shutdown has returned, what Receive returned is in one place: on Err,
\* read from it, or kept for Shutdown.
InOnePlace ==
    /\ ~Recorded => err = "nil" /\ errs = 0 /\ heard = 0
    /\ Recorded /\ shut # "returned" =>
         \/ err = ret /\ errs + heard = 0
         \/ err = "nil" /\ ret = "fail" /\ errs + heard = 1

IInv == TypeOK /\ StateIsWhere /\ ClosedOnce /\ PhaseIsWhere /\ InOnePlace
            /\ ReportedOnce /\ DrainedBeforeReturn

-----------------------------------------------------------------------------
(* The lemmas.                                                             *)

\* Shutdown's error names the source's failure once, or not at all.
LEMMA Named ==
    ASSUME NEW S PROVE Cardinality(S \cap {"fail"}) = IF "fail" \in S THEN 1 ELSE 0
<1>1. CASE "fail" \in S
  <2>1. S \cap {"fail"} = {"fail"}
    BY <1>1
  <2> QED
    BY <1>1, <2>1, FS_Singleton
<1>2. CASE "fail" \notin S
  <2>1. S \cap {"fail"} = {}
    BY <1>2
  <2> QED
    BY <1>2, <2>1, FS_EmptySet
<1> QED
  BY <1>1, <1>2

\* A reactor that has not been started.
LEMMA InitInv == Init => IInv
<1> SUFFICES ASSUME Init PROVE IInv
  OBVIOUS
<1> USE DEF Init
<1>1. errs \in 0..1 /\ errsCloses \in 0..1 /\ doneCloses \in 0..1 /\ heard \in 0..1
  OBVIOUS
<1>2. result \subseteq {"deadline", "grace", "fail", "cancelled"}
  OBVIOUS
<1>3. TypeOK
  BY <1>1, <1>2 DEF TypeOK, Outcomes
<1>4. StateIsWhere /\ ClosedOnce /\ PhaseIsWhere /\ InOnePlace
  BY DEF StateIsWhere, ClosedOnce, PhaseIsWhere, InOnePlace, Running, Recorded
<1>5. ReportedOnce /\ DrainedBeforeReturn
  BY <1>3, Named DEF ReportedOnce, DrainedBeforeReturn
<1> QED
  BY <1>3, <1>4, <1>5 DEF IInv

\* Every step keeps the invariant.
LEMMA InvStep == IInv /\ [Next]_vars => IInv'
<1> SUFFICES ASSUME IInv, [Next]_vars PROVE IInv'
  OBVIOUS
<1>0. /\ Cardinality(result \cap {"fail"}) = IF "fail" \in result THEN 1 ELSE 0
      /\ Cardinality(result' \cap {"fail"}) = IF "fail" \in result' THEN 1 ELSE 0
  BY Named
<1> USE DEF IInv, TypeOK, StateIsWhere, ClosedOnce, PhaseIsWhere, InOnePlace, ReportedOnce,
            DrainedBeforeReturn, Running, Recorded, Outcomes, goroutine, channels, contexts,
            shutdown, monitor
<1>1. CASE Start
  BY <1>0, <1>1 DEF Start
<1>2. CASE Handle
  BY <1>0, <1>2 DEF Handle
<1>3. ASSUME NEW how \in Outcomes, HandlerReturns(how) PROVE IInv'
  BY <1>0, <1>3 DEF HandlerReturns
<1>4. ASSUME NEW how \in Outcomes \ {"cancelled"}, ReceiveReturns(how) PROVE IInv'
  BY <1>0, <1>4 DEF ReceiveReturns
<1>5. CASE Record
  BY <1>0, <1>5 DEF Record
<1>6. CASE CloseErrs
  BY <1>0, <1>6 DEF CloseErrs
<1>7. CASE CloseDone
  BY <1>0, <1>7 DEF CloseDone
<1>8. CASE Retire
  <2>1. recv = "none" /\ recv' = "none" /\ ret' = "none" /\ errs' = 0 /\ heard' = 0 /\ ~aborted' /\ result' = {}
    BY <1>8 DEF Retire
  <2>2. errsCloses' = 1 /\ doneCloses' = 1
    BY <1>8, <2>1 DEF Retire
  <2>3. TypeOK'
    <3>1. errs' \in 0..1 /\ errsCloses' \in 0..1 /\ doneCloses' \in 0..1 /\ heard' \in 0..1
      BY <2>1, <2>2
    <3>2. result' \subseteq {"deadline", "grace", "fail", "cancelled"}
      BY <2>1
    <3> QED
      BY <1>8, <3>1, <3>2 DEF Retire
  <2>4. StateIsWhere' /\ ClosedOnce' /\ PhaseIsWhere' /\ InOnePlace'
    BY <1>8, <2>1, <2>2 DEF Retire
  <2>5. ReportedOnce' /\ DrainedBeforeReturn'
    BY <1>0, <1>8, <2>1, <2>3
  <2> QED
    BY <2>3, <2>4, <2>5
<1>9. CASE Enter
  BY <1>0, <1>9 DEF Enter
<1>10. CASE Stop
  BY <1>0, <1>10 DEF Stop
<1>11. CASE GraceEnds
  BY <1>0, <1>11 DEF GraceEnds, Done
<1>12. CASE Expire
  BY <1>0, <1>12 DEF Expire
<1>13. CASE GiveUp
  BY <1>0, <1>13 DEF GiveUp
<1>14. CASE Finish
  BY <1>0, <1>14 DEF Finish, Done, ErrsClosed
<1>15. CASE Hear
  BY <1>0, <1>15 DEF Hear
<1>16. CASE UNCHANGED vars
  BY <1>0, <1>16 DEF vars
<1> HIDE DEF IInv
<1> QED
  BY <1>1, <1>2, <1>3, <1>4, <1>5, <1>6, <1>7, <1>8, <1>9, <1>10, <1>11, <1>12, <1>13, <1>14,
     <1>15, <1>16 DEF Next, Goroutine, Shutdown

-----------------------------------------------------------------------------
(* The theorems.                                                           *)

LEMMA Invariance == Spec => []IInv
BY InitInv, InvStep, PTL DEF Spec

\* Every variable keeps its type: Err and done are each closed once at most,
\* and Err's buffer never holds a second error.
THEOREM TypeCorrect == Spec => []TypeOK
<1>1. IInv => TypeOK
  BY DEF IInv
<1> QED
  BY Invariance, <1>1, PTL

\* The failure that ended a source is reported exactly once, on Err or by
\* Shutdown, whichever of the two comes first, unless Shutdown gave up.
THEOREM OnceReported == Spec => []ReportedOnce
<1>1. IInv => ReportedOnce
  BY DEF IInv
<1> QED
  BY Invariance, <1>1, PTL

\* Shutdown returns before its deadline only with the source returned and no
\* handler running, and its result says whether handlers were cancelled.
THEOREM DrainedFirst == Spec => []DrainedBeforeReturn
<1>1. IInv => DrainedBeforeReturn
  BY DEF IInv
<1> QED
  BY Invariance, <1>1, PTL

\* A reactor's step, under the source's own variables or beside them.
LEMMA SourceStep == [SourceNext]_sourceVars => [Next]_vars
<1> SUFFICES ASSUME [SourceNext]_sourceVars PROVE [Next]_vars
  OBVIOUS
<1>1. ASSUME NEW how \in Outcomes \ {"cancelled"}, Receiving, how = "nil" => stopped, Return(how)
      PROVE  Next
  <2>1. ReceiveReturns(how)
    BY <1>1 DEF Receiving, Return, ReceiveReturns
  <2> QED
    BY <2>1 DEF Next, Goroutine
<1>2. "fail" \in Outcomes \ {"cancelled"} /\ "nil" \in Outcomes \ {"cancelled"}
  BY DEF Outcomes
<1>3. CASE Bind
  BY <1>1, <1>2, <1>3 DEF Bind
<1>4. CASE Pull
  <2>1. Handle => Next
    BY DEF Next, Goroutine
  <2> QED
    BY <1>1, <1>2, <1>4, <2>1 DEF Pull
<1>5. CASE Check
  BY <1>1, <1>2, <1>5 DEF Check
<1>6. CASE Leave
  BY <1>1, <1>2, <1>6 DEF Leave
<1>7. CASE Handled
  BY <1>7 DEF Handled, Next, Goroutine
<1>8. CASE Connection
  BY <1>8 DEF Connection
<1>9. CASE (Others \/ (kind = "other" /\ Goroutine)) /\ UNCHANGED <<kind, server, source>>
  BY <1>9 DEF Others, Next, Goroutine
<1>10. CASE UNCHANGED sourceVars
  BY <1>10 DEF sourceVars
<1> QED
  BY <1>3, <1>4, <1>5, <1>6, <1>7, <1>8, <1>9, <1>10 DEF SourceNext

\* A reactor that runs a NATS source is one of the reactors Reactor describes:
\* what is proved of any source holds of it.
THEOREM SourceIsAReactor == SourceSpec => Spec
<1>1. SourceInit => Init
  BY DEF SourceInit
<1> QED
  BY <1>1, SourceStep, PTL DEF SourceSpec, Spec

\* What the server and the connection may be.
ServerTypeOK == link \in {"up", "down", "closed"} /\ consumer \in {"exists", "deleted", "gone"}

\* A pull is told of a closed connection, and of a deleted consumer, only when
\* it is so.
LEMMA FatalPull ==
    ASSUME ServerTypeOK, NEW how \in Pulls, how \in Fatal
    PROVE  link = "closed" \/ consumer # "exists"
BY DEF ServerTypeOK, Pulls, Fatal

LEMMA SourceInvStep ==
    IInv /\ ServerTypeOK /\ EndedForGood /\ [SourceNext]_sourceVars => ServerTypeOK' /\ EndedForGood'
<1> SUFFICES ASSUME IInv, ServerTypeOK, EndedForGood, [SourceNext]_sourceVars
             PROVE  ServerTypeOK' /\ EndedForGood'
  OBVIOUS
<1> USE DEF ServerTypeOK, EndedForGood, server, source
<1>1. recv = "receiving" \/ recv = "handling" => ret = "none"
  BY DEF IInv, StateIsWhere
<1>2. CASE Bind
  BY <1>1, <1>2 DEF Bind, Return, Receiving, vars, goroutine
<1>3. CASE Pull
  <2> USE DEF Pull, Receiving
  <2>1. PICK how \in Pulls :
         \/ /\ how \in Healthy
            /\ IF how = "message" THEN Handle ELSE UNCHANGED vars
            /\ UNCHANGED <<kind, server, step>>
         \/ how \in Fatal /\ Return("fail")
         \/ UNCHANGED <<vars, kind, server>>
    BY <1>3
  <2>2. CASE Return("fail") /\ how \in Fatal
    BY <1>3, <2>2, FatalPull DEF Return
  <2>3. CASE UNCHANGED <<kind, server>> /\ ret' = ret
    BY <1>1, <1>3, <2>3
  <2> QED
    BY <2>1, <2>2, <2>3 DEF Handle, vars, goroutine
<1>4. CASE Check
  BY <1>1, <1>4 DEF Check, Return, Receiving, Gone, vars, goroutine
<1>5. CASE Leave
  BY <1>5 DEF Leave, Return
<1>6. CASE Handled
  BY <1>1, <1>6 DEF Handled, HandlerReturns
<1>7. CASE Connection
  BY <1>7 DEF Connection, vars, goroutine
<1>8. CASE Others /\ UNCHANGED <<kind, server, source>>
  <2>1. ret' = ret
    BY <1>8 DEF Others, Start, Record, CloseErrs, CloseDone, Shutdown, Retire, Enter, Stop, GraceEnds,
                Expire, GiveUp, Finish, Hear, goroutine
  <2> QED
    BY <1>8, <2>1
<1>9. CASE kind = "other" /\ UNCHANGED <<kind, server, source>>
  BY <1>9
<1>10. CASE UNCHANGED sourceVars
  BY <1>10 DEF sourceVars, vars, goroutine
<1> QED
  BY <1>2, <1>3, <1>4, <1>5, <1>6, <1>7, <1>8, <1>9, <1>10 DEF SourceNext

\* A NATS source ends by itself only when it never bound, or for good: no
\* empty pull, failed pull or lost connection that comes back ends it. This is
\* the safety half of EndsWhenGone.
THEOREM EndsForGood == SourceSpec => []EndedForGood
<1>1. SourceInit => ServerTypeOK /\ EndedForGood
  BY DEF SourceInit, Init, ServerTypeOK, EndedForGood
<1>2. SourceSpec => []IInv
  BY SourceIsAReactor, Invariance, PTL
<1> QED
  BY <1>1, <1>2, SourceInvStep, PTL DEF SourceSpec
==============================================================================
