---------------------------- MODULE OutboxProof ----------------------------
(***************************************************************************)
(* Theorems about Outbox, for any number of commands, relays and rows.     *)
(***************************************************************************)
EXTENDS Outbox, WellFoundedInduction, TLAPS

USE BoundsAssumption, CorruptAssumption, DrainAssumption, RelaysAssumption

-----------------------------------------------------------------------------
(* The type invariant.                                                     *)

\* Abandoning a relay's requests keeps them requests.
LEMMA AbandonedType ==
    ASSUME NEW r \in Relays, wire \subseteq Request
    PROVE  Abandoned(r) \subseteq Request
BY DEF Abandoned, Request

\* The pending rows are seqs.
LEMMA PendingType == Pending \subseteq Seqs
BY DEF Pending, Visible

\* A pair of an earlier and a later number of a table's rows is a pair of seqs.
LEMMA PairType ==
    ASSUME NEW A, A \subseteq Seqs, NEW B, B \subseteq Seqs
    PROVE  {p \in A \X B : p[1] < p[2]} \subseteq Seqs \X Seqs
<1> SUFFICES ASSUME NEW p \in A \X B, p[1] < p[2] PROVE p \in Seqs \X Seqs
  OBVIOUS
<1>1. PICK a \in A, b \in B : p = <<a, b>>
  OBVIOUS
<1> QED
  BY <1>1

\* What is out are seqs.
LEMMA OutType == TypeOK => Out \subseteq Seqs
<1> SUFFICES ASSUME TypeOK PROVE Out \subseteq Seqs
  OBVIOUS
<1>1. Stored \subseteq Seqs
  BY DEF TypeOK, Stored
<1>2. {m.seq : m \in wire} \subseteq Seqs
  BY DEF TypeOK, Request
<1>3. {row[r] : r \in {q \in Relays : Handling(q)}} \subseteq Seqs
  BY DEF TypeOK
<1> QED
  BY <1>1, <1>2, <1>3 DEF Out

\* A pass that ends on an error leaves the relay's own state well typed.
LEMMA PassFailsType ==
    ASSUME TypeOK, NEW r \in Relays, NEW database \in BOOLEAN, PassFails(r, database)
    PROVE  /\ pc' = [pc EXCEPT ![r] = IF last[r] THEN "ended" ELSE "waiting"]
           /\ live' = [live EXCEPT ![r] = FALSE]
           /\ pc' \in [Relays -> {"down", "pass", "handling", "sent", "acked", "waiting",
                                  "ended", "failed"}]
           /\ live' \in [Relays -> BOOLEAN]
           /\ ready' \in [Relays -> BOOLEAN]
           /\ owed' \in [Relays -> SUBSET Seqs]
<1>1. (~last[r] /\ (~database \/ stopped[r])) \in BOOLEAN
  BY Zenon
<1>2. ready' \in [Relays -> BOOLEAN]
  BY <1>1, Zenon DEF PassFails, TypeOK
<1>3. owed' \in [Relays -> SUBSET Seqs]
  BY DEF PassFails, TypeOK
<1> QED
  BY <1>2, <1>3 DEF PassFails, PassOver, TypeOK

\* Every step of the commands, the relays, the broker and the faults keeps
\* every variable in its type.
LEMMA TypeStep == TypeOK /\ [Next]_vars => TypeOK'
<1> SUFFICES ASSUME TypeOK, [Next]_vars PROVE TypeOK'
  OBVIOUS
<1> USE DEF TypeOK, Handling
<1>1. ASSUME NEW t \in Txs, Emit(t) PROVE TypeOK'
  BY <1>1 DEF Emit, relayVars, broker, faults, history
<1>2. ASSUME NEW t \in Txs, CommitTx(t) PROVE TypeOK'
  <2>1. RowsOf(t) \subseteq Seqs
    BY DEF RowsOf, Seqs
  <2>2. ahead' \subseteq Seqs \X Seqs
    BY <1>2, <2>1, OutType, PairType DEF CommitTx
  <2> QED
    BY <1>2, <2>2 DEF CommitTx, relayVars, broker, faults
<1>3. ASSUME NEW t \in Txs, AbortTx(t) PROVE TypeOK'
  BY <1>3 DEF AbortTx, relayVars, broker, faults, history
<1>4. ASSUME NEW r \in Relays, Relay(r) PROVE TypeOK'
  <2>1. CASE Start(r)
    BY <2>1 DEF Start, tables, broker, faults
  <2>2. CASE Claim(r)
    <3>1. PICK s \in Claimable(r) \ Corrupt :
             /\ row' = [row EXCEPT ![r] = s]
             /\ ahead' = ahead \cup {p \in (Pending \cap LockedElsewhere(r)) \X {s} : p[1] < p[2]}
      BY <2>2 DEF Claim
    <3>2. s \in Seqs /\ Pending \cap LockedElsewhere(r) \subseteq Seqs
      BY PendingType DEF Claimable
    <3>3. ahead' \subseteq Seqs \X Seqs
      BY <3>1, <3>2, PairType
    <3> QED
      BY <2>2, <3>1, <3>2, <3>3 DEF Claim, tables, broker, faults
  <2>3. CASE ClaimCorrupt(r)
    BY <2>3 DEF ClaimCorrupt, tables, broker, faults
  <2>4. CASE FindNone(r)
    <3>1. LockedElsewhere(r) \subseteq Seqs
      BY DEF LockedElsewhere
    <3> QED
      BY <2>4, <3>1 DEF FindNone, PassOver, tables, broker, faults
  <2>5. CASE PassCut(r)
    BY <2>5 DEF PassCut, PassOver, tables, broker, faults
  <2>6. CASE DatabaseFails(r)
    <3>1. PassFails(r, TRUE) /\ row' = row
      BY <2>6 DEF DatabaseFails
    <3>2. \A q \in Relays : (Handling(q) \/ live[q])' => row'[q] \in Seqs
      <4>1. /\ pc' = [pc EXCEPT ![r] = IF last[r] THEN "ended" ELSE "waiting"]
            /\ live' = [live EXCEPT ![r] = FALSE]
        BY <3>1 DEF PassFails, PassOver
      <4> QED
        BY <4>1, <3>1
    <3> QED
      BY <2>6, <3>1, <3>2, PassFailsType DEF DatabaseFails, tables, broker, faults
  <2>7. CASE Poll(r)
    BY <2>7 DEF Poll, tables, broker, faults, history
  <2>8. CASE LastPass(r)
    BY <2>8 DEF LastPass, tables, broker, faults, history
  <2>9. CASE Publish(r)
    BY <2>9 DEF Publish, Request, tables, broker, faults, history
  <2>10. CASE HandlerOk(r)
    BY <2>10 DEF HandlerOk, tables, broker, faults, history
  <2>11. CASE HandlerFails(r)
    <3>1. PassFails(r, FALSE) /\ row' = row
      BY <2>11 DEF HandlerFails
    <3>2. \A q \in Relays : (Handling(q) \/ live[q])' => row'[q] \in Seqs
      <4>1. /\ pc' = [pc EXCEPT ![r] = IF last[r] THEN "ended" ELSE "waiting"]
            /\ live' = [live EXCEPT ![r] = FALSE]
        BY <3>1 DEF PassFails, PassOver
      <4> QED
        BY <4>1, <3>1
    <3> QED
      BY <2>11, AbandonedType, <3>1, <3>2, PassFailsType DEF HandlerFails, tables, broker, faults
  <2>12. CASE SettleExpires(r)
    BY <2>12 DEF SettleExpires, tables, broker, faults, history
  <2>13. CASE MarkPublished(r)
    BY <2>13 DEF MarkPublished, tables, broker, faults, history
  <2>14. CASE MarkFails(r)
    <3>1. published' \subseteq Seqs
      BY <2>14 DEF MarkFails
    <3>2. PassFails(r, TRUE) /\ row' = row
      BY <2>14 DEF MarkFails
    <3>3. \A q \in Relays : (Handling(q) \/ live[q])' => row'[q] \in Seqs
      <4>1. /\ pc' = [pc EXCEPT ![r] = IF last[r] THEN "ended" ELSE "waiting"]
            /\ live' = [live EXCEPT ![r] = FALSE]
        BY <3>2 DEF PassFails, PassOver
      <4> QED
        BY <4>1, <3>2
    <3> QED
      BY <2>14, <3>1, <3>2, <3>3, PassFailsType DEF MarkFails, tables, broker, faults
  <2> QED
    BY <1>4, <2>1, <2>2, <2>3, <2>4, <2>5, <2>6, <2>7, <2>8, <2>9, <2>10, <2>11, <2>12,
       <2>13, <2>14 DEF Relay
<1>5. ASSUME NEW r \in Relays, Stop(r) PROVE TypeOK'
  BY <1>5, PendingType DEF Stop, tables, broker
<1>6. ASSUME NEW r \in Relays, Crash(r) PROVE TypeOK'
  BY <1>6, AbandonedType DEF Crash, tables, broker, history
<1>7. ASSUME NEW s \in lingering, Release(s) PROVE TypeOK'
  BY <1>7 DEF Release, tables, relayVars, broker, faults, history
<1>8. ASSUME NEW m \in wire, Accept(m) PROVE TypeOK'
  <2>1. m.seq \in Seqs /\ m.from \in Relays \cup {NoRelay}
    BY DEF Request
  <2>2. stream' \in Seq(Seqs) /\ seen' \subseteq Seqs
    <3>1. CASE Repeat(m)
      BY <1>8, <3>1 DEF Accept
    <3>2. CASE ~Repeat(m)
      <4>1. Append(stream, m.seq) \in Seq(Seqs)
        BY <2>1
      <4> QED
        BY <1>8, <2>1, <3>2, <4>1 DEF Accept
    <3> QED
      BY <3>1, <3>2
  <2>3. wire' \subseteq Request /\ acks' \subseteq Relays
    BY <1>8, <2>1 DEF Accept
  <2> QED
    BY <1>8, <2>2, <2>3 DEF Accept, tables, relayVars, faults, history
<1>9. ASSUME NEW s \in seen, Forget(s) PROVE TypeOK'
  BY <1>9 DEF Forget, tables, relayVars, faults, history
<1>10. CASE UNCHANGED vars
  BY <1>10 DEF vars, tables, relayVars, broker, faults, history
<1> QED
  BY <1>1, <1>2, <1>3, <1>4, <1>5, <1>6, <1>7, <1>8, <1>9, <1>10
  DEF Next, Command, Environment

\* The empty outbox, with every relay down, is well typed.
LEMMA TypeInit == Init => TypeOK
<1> SUFFICES ASSUME Init PROVE TypeOK
  OBVIOUS
<1>1. rows \in Seq(Txs) /\ Len(rows) <= MaxSeq /\ stream \in Seq(Seqs)
  BY DEF Init
<1>2. \A r \in Relays : ~Handling(r) /\ ~live[r]
  BY DEF Init, Handling
<1> QED
  BY <1>1, <1>2 DEF Init, TypeOK

\* Every variable of the outbox keeps its type in every behaviour.
THEOREM TypeCorrect == Spec => []TypeOK
BY TypeInit, TypeStep, PTL DEF Spec

-----------------------------------------------------------------------------
(* The inductive invariant behind the outbox's safety.                     *)

\* A relay's transaction is open only while the relay handles its row.
LiveHandles == \A r \in Relays : live[r] => Handling(r)

\* The row a relay handles is committed.
ClaimedVisible == \A r \in Relays : Handling(r) => row[r] \in Visible

\* The relay a request names still waits for it, unanswered.
RequestOwned ==
    \A m \in wire : m.from \in Relays =>
        (pc[m.from] = "sent" /\ row[m.from] = m.seq /\ m.from \notin acks)

\* An acknowledgement, delivered or not, is for a row the broker has stored.
AckedIsStored ==
    \A r \in Relays :
        /\ r \in acks => (pc[r] = "sent" /\ row[r] \in Stored)
        /\ pc[r] = "acked" => row[r] \in Stored

\* The deduplication window holds only events the stream stored.
SeenIsStored == seen \subseteq Stored

IInv ==
    /\ TypeOK
    /\ LiveHandles
    /\ ClaimedVisible
    /\ RequestOwned
    /\ AckedIsStored
    /\ SeenIsStored
    /\ OnlyCommittedLeave
    /\ PublishedIsStored
    /\ ExclusiveClaim

\* What the commands see of the tables changes only when one of them commits,
\* and then only grows; a row inserted by an open transaction is not seen.
LEMMA TablesFrame == UNCHANGED tables => Visible' = Visible
BY DEF tables, Visible, Committed

LEMMA StreamFrame == UNCHANGED stream => Stored' = Stored
BY DEF Stored

LEMMA EmitInvisible ==
    ASSUME TypeOK, NEW t \in Txs, Emit(t)
    PROVE  Visible' = Visible
<1>1. DOMAIN rows = 1..Len(rows) /\ Len(rows) \in Nat /\ \A i \in 1..Len(rows) : rows[i] \in Txs
  BY DEF TypeOK
<1>2. /\ tx' = tx
      /\ DOMAIN rows' = 1..(Len(rows) + 1)
      /\ \A i \in 1..Len(rows) : rows'[i] = rows[i]
      /\ rows'[Len(rows) + 1] = t
  BY <1>1 DEF Emit, TypeOK
<1> QED
  BY <1>1, <1>2 DEF Emit, Visible, Committed, Seqs

LEMMA CommitVisible ==
    ASSUME TypeOK, NEW t \in Txs, CommitTx(t)
    PROVE  Visible \subseteq Visible'
<1>1. \A i \in DOMAIN rows : rows[i] \in Txs
  BY DEF TypeOK
<1> QED
  BY <1>1 DEF CommitTx, Visible, Committed, TypeOK

LEMMA AbortInvisible ==
    ASSUME TypeOK, NEW t \in Txs, AbortTx(t)
    PROVE  Visible' = Visible
<1>1. \A i \in DOMAIN rows : rows[i] \in Txs
  BY DEF TypeOK
<1> QED
  BY <1>1 DEF AbortTx, Visible, Committed, TypeOK

\* The stream stores one more event, or none.
LEMMA AcceptStores ==
    ASSUME TypeOK, NEW m \in wire, Accept(m)
    PROVE  Stored' = (IF Repeat(m) THEN Stored ELSE Stored \cup {m.seq})
<1>1. CASE Repeat(m)
  BY <1>1 DEF Accept, Stored
<1>2. CASE ~Repeat(m)
  <2>1. stream' = Append(stream, m.seq)
    BY <1>2 DEF Accept
  <2>2. stream \in Seq(Seqs) /\ m.seq \in Seqs
    BY DEF TypeOK, Request
  <2>3. /\ DOMAIN stream = 1..Len(stream)
        /\ DOMAIN stream' = 1..(Len(stream) + 1)
        /\ Len(stream) \in Nat
        /\ \A i \in 1..Len(stream) : stream'[i] = stream[i]
        /\ stream'[Len(stream) + 1] = m.seq
    BY <2>1, <2>2
  <2>4. \A i \in DOMAIN stream' : stream'[i] \in Stored \cup {m.seq}
    BY <2>3 DEF Stored
  <2>5. Stored \cup {m.seq} \subseteq Stored'
    BY <2>3 DEF Stored
  <2> QED
    BY <1>2, <2>4, <2>5 DEF Stored
<1> QED
  BY <1>1, <1>2

\* Commands never take back what a relay claimed, sent or got acknowledged.
LEMMA CommandStep ==
    ASSUME IInv, Visible \subseteq Visible',
           UNCHANGED <<published, relayVars, lingering, wire, acks, broker>>
    PROVE  /\ LiveHandles' /\ ClaimedVisible' /\ RequestOwned' /\ AckedIsStored' /\ SeenIsStored'
           /\ OnlyCommittedLeave' /\ PublishedIsStored' /\ ExclusiveClaim'
BY StreamFrame
DEF IInv, LiveHandles, ClaimedVisible, RequestOwned, AckedIsStored, SeenIsStored,
    OnlyCommittedLeave, PublishedIsStored, ExclusiveClaim, Handling, Pending, LockedElsewhere, relayVars, broker

\* The inductive invariant holds after every step.
LEMMA SafetyStep == IInv /\ [Next]_vars => IInv'
<1> SUFFICES ASSUME IInv, [Next]_vars PROVE IInv'
  OBVIOUS
<1>t. TypeOK /\ TypeOK'
  BY TypeStep DEF IInv
<1>1. ASSUME NEW t \in Txs, Command(t) PROVE IInv'
  <2>1. Visible \subseteq Visible'
    BY <1>1, <1>t, EmitInvisible, CommitVisible, AbortInvisible DEF Command
  <2>2. UNCHANGED <<published, relayVars, lingering, wire, acks, broker>>
    BY <1>1 DEF Command, Emit, CommitTx, AbortTx
  <2> QED
    BY <2>1, <2>2, <1>t, CommandStep DEF IInv
<1> USE DEF IInv, LiveHandles, ClaimedVisible, RequestOwned, AckedIsStored, SeenIsStored,
            OnlyCommittedLeave, PublishedIsStored, ExclusiveClaim, Handling, Pending, LockedElsewhere, broker
<1>2. ASSUME NEW r \in Relays, Start(r) PROVE IInv'
  BY <1>2, <1>t, TablesFrame, StreamFrame DEF Start, TypeOK
<1>3. ASSUME NEW r \in Relays, Claim(r) PROVE IInv'
  BY <1>3, <1>t, TablesFrame, StreamFrame DEF Claim, MayClaim, Claimable, TypeOK
<1>4. ASSUME NEW r \in Relays, ClaimCorrupt(r) PROVE IInv'
  BY <1>4, <1>t, TablesFrame, StreamFrame DEF ClaimCorrupt, MayClaim, TypeOK
<1>5. ASSUME NEW r \in Relays, FindNone(r) PROVE IInv'
  BY <1>5, <1>t, TablesFrame, StreamFrame DEF FindNone, PassOver, MayClaim, TypeOK
<1>6. ASSUME NEW r \in Relays, PassCut(r) PROVE IInv'
  BY <1>6, <1>t, TablesFrame, StreamFrame DEF PassCut, PassOver, TypeOK
<1>7. ASSUME NEW r \in Relays, DatabaseFails(r) PROVE IInv'
  BY <1>7, <1>t, TablesFrame, StreamFrame DEF DatabaseFails, PassFails, PassOver, TypeOK
<1>8. ASSUME NEW r \in Relays, Poll(r) PROVE IInv'
  BY <1>8, <1>t, TablesFrame, StreamFrame DEF Poll, TypeOK
<1>9. ASSUME NEW r \in Relays, LastPass(r) PROVE IInv'
  BY <1>9, <1>t, TablesFrame, StreamFrame DEF LastPass, TypeOK
<1>10. ASSUME NEW r \in Relays, Publish(r) PROVE IInv'
  BY <1>10, <1>t, TablesFrame, StreamFrame DEF Publish, TypeOK
<1>11. ASSUME NEW r \in Relays, HandlerOk(r) PROVE IInv'
  <2>1. Visible' = Visible /\ Stored' = Stored
    BY <1>11, TablesFrame, StreamFrame DEF HandlerOk
  <2>2. row[r] \in Stored
    BY <1>11 DEF HandlerOk
  <2>3. RequestOwned' /\ OnlyCommittedLeave' /\ PublishedIsStored' /\ SeenIsStored'
    BY <1>11, <2>1 DEF HandlerOk, TypeOK
  <2>4. LiveHandles' /\ ClaimedVisible' /\ AckedIsStored'
    BY <1>11, <2>1, <2>2 DEF HandlerOk, TypeOK
  <2>5. ExclusiveClaim'
    BY <1>11, <2>1 DEF HandlerOk, TypeOK
  <2> QED
    BY <1>t, <2>3, <2>4, <2>5
<1>12. ASSUME NEW r \in Relays, HandlerFails(r) PROVE IInv'
  BY <1>12, <1>t, TablesFrame, StreamFrame DEF HandlerFails, PassFails, PassOver, Abandoned, TypeOK
<1>13. ASSUME NEW r \in Relays, SettleExpires(r) PROVE IInv'
  BY <1>13, <1>t, TablesFrame, StreamFrame DEF SettleExpires, relayVars, TypeOK
<1>14. ASSUME NEW r \in Relays, MarkPublished(r) PROVE IInv'
  BY <1>14, <1>t, TablesFrame, StreamFrame DEF MarkPublished, TypeOK
<1>15. ASSUME NEW r \in Relays, MarkFails(r) PROVE IInv'
  BY <1>15, <1>t, TablesFrame, StreamFrame DEF MarkFails, PassFails, PassOver, TypeOK
<1>16. ASSUME NEW r \in Relays, Stop(r) PROVE IInv'
  BY <1>16, <1>t, TablesFrame, StreamFrame DEF Stop, TypeOK
<1>17. ASSUME NEW r \in Relays, Crash(r) PROVE IInv'
  BY <1>17, <1>t, TablesFrame, StreamFrame DEF Crash, Abandoned, TypeOK
<1>18. ASSUME NEW s \in lingering, Release(s) PROVE IInv'
  BY <1>18, <1>t, TablesFrame, StreamFrame DEF Release, relayVars, TypeOK
<1>19. ASSUME NEW m \in wire, Accept(m) PROVE IInv'
  <2>1. Visible' = Visible /\ Stored \subseteq Stored' /\ m.seq \in Visible
        /\ Stored' \subseteq Stored \cup {m.seq}
    BY <1>19, <1>t, TablesFrame, AcceptStores DEF Accept
  <2>2. m.seq \in Stored'
    BY <1>19, <1>t, AcceptStores, <2>1 DEF Repeat
  <2>3. RequestOwned'
    <3> SUFFICES ASSUME NEW n \in wire', n.from \in Relays
                 PROVE  pc'[n.from] = "sent" /\ row'[n.from] = n.seq /\ n.from \notin acks'
      OBVIOUS
    <3>1. n \in wire /\ n # m /\ n \in Request /\ m \in Request
      BY <1>19 DEF Accept, TypeOK
    <3>2. pc[n.from] = "sent" /\ row[n.from] = n.seq /\ n.from \notin acks
      BY <3>1
    <3>3. n.from # m.from
      <4>1. SUFFICES ASSUME n.from = m.from PROVE FALSE
        OBVIOUS
      <4>2. n.seq = m.seq
        BY <3>2, <4>1
      <4> QED
        BY <3>1, <4>1, <4>2 DEF Request
    <3> QED
      BY <1>19, <3>2, <3>3 DEF Accept, relayVars
  <2>6. OnlyCommittedLeave' /\ PublishedIsStored' /\ SeenIsStored'
    BY <1>19, <2>1, <2>2 DEF Accept, relayVars
  <2>4. LiveHandles' /\ ClaimedVisible' /\ AckedIsStored'
    BY <1>19, <2>1, <2>2 DEF Accept, relayVars
  <2>5. ExclusiveClaim'
    BY <1>19, <2>1 DEF Accept, relayVars
  <2> QED
    BY <1>t, <2>3, <2>4, <2>5, <2>6
<1>20. ASSUME NEW s \in seen, Forget(s) PROVE IInv'
  BY <1>20, <1>t, TablesFrame, StreamFrame DEF Forget, relayVars, TypeOK
<1>21. CASE UNCHANGED vars
  BY <1>21, <1>t, TablesFrame, StreamFrame DEF vars, relayVars, TypeOK
<1> QED
  BY <1>1, <1>2, <1>3, <1>4, <1>5, <1>6, <1>7, <1>8, <1>9, <1>10, <1>11, <1>12, <1>13, <1>14,
     <1>15, <1>16, <1>17, <1>18, <1>19, <1>20, <1>21
  DEF Next, Relay, Environment

\* The outbox is safe in every behaviour.
LEMMA SafetyInvariant == Spec => []IInv
<1>1. Init => IInv
  <2> SUFFICES ASSUME Init PROVE IInv
    OBVIOUS
  <2>1. Stored = {}
    BY DEF Init, Stored
  <2>2. TypeOK
    BY TypeInit
  <2> QED
    BY <2>1, <2>2
    DEF Init, IInv, LiveHandles, ClaimedVisible, RequestOwned, AckedIsStored, SeenIsStored,
        OnlyCommittedLeave, PublishedIsStored, ExclusiveClaim, Handling
<1> QED
  BY <1>1, SafetyStep, PTL DEF Spec

\* No event of a command that has not committed is stored or under way.
THEOREM OnlyCommittedLeaves == Spec => []OnlyCommittedLeave
BY SafetyInvariant, PTL DEF IInv

\* A row is marked published only when the broker holds its event.
THEOREM PublishedRowsAreStored == Spec => []PublishedIsStored
BY SafetyInvariant, PTL DEF IInv

\* A row under an open claim is unpublished and nobody else's.
THEOREM ClaimsAreExclusive == Spec => []ExclusiveClaim
BY SafetyInvariant, PTL DEF IInv

-----------------------------------------------------------------------------
(* Repeats in the stream.                                                  *)

\* Every stored event is in the deduplication window or has left it.
WindowInv == Stored \subseteq seen \cup forgotten /\ RepeatsOutsideWindow

\* A step that stores an event outside the window repeats only what left it.
LEMMA WindowStep == TypeOK /\ WindowInv /\ [Next]_vars => WindowInv'
<1> SUFFICES ASSUME TypeOK, WindowInv, [Next]_vars PROVE WindowInv'
  OBVIOUS
<1>1. CASE UNCHANGED broker
  BY <1>1 DEF WindowInv, RepeatsOutsideWindow, Stored, broker
<1>2. ASSUME NEW m \in wire, Accept(m) PROVE WindowInv'
  <2>1. CASE Repeat(m)
    BY <1>2, <2>1 DEF Accept, WindowInv, RepeatsOutsideWindow, Stored
  <2>2. CASE ~Repeat(m)
    <3>1. /\ stream' = Append(stream, m.seq)
          /\ seen' = seen \cup {m.seq}
          /\ forgotten' = forgotten
      BY <1>2, <2>2 DEF Accept, broker
    <3>2. stream \in Seq(Seqs) /\ m.seq \in Seqs
      BY DEF TypeOK, Request
    <3>3. /\ DOMAIN stream = 1..Len(stream)
          /\ DOMAIN stream' = 1..(Len(stream) + 1)
          /\ Len(stream) \in Nat
          /\ \A i \in 1..Len(stream) : stream'[i] = stream[i]
          /\ stream'[Len(stream) + 1] = m.seq
      BY <3>1, <3>2
    <3>4. m.seq \in Stored => m.seq \in forgotten
      BY <2>2 DEF WindowInv, Repeat
    <3>5. \A i \in DOMAIN stream : stream[i] \in Stored
      BY DEF Stored
    <3>6. RepeatsOutsideWindow'
      <4> SUFFICES ASSUME NEW i \in DOMAIN stream', NEW j \in DOMAIN stream',
                          i # j, stream'[i] = stream'[j]
                   PROVE  stream'[i] \in forgotten
        BY <3>1 DEF RepeatsOutsideWindow
      <4>1. CASE i \in DOMAIN stream /\ j \in DOMAIN stream
        BY <3>3, <4>1 DEF WindowInv, RepeatsOutsideWindow
      <4>2. CASE i = Len(stream) + 1 \/ j = Len(stream) + 1
        BY <3>3, <3>4, <3>5, <4>2
      <4> QED
        BY <3>3, <4>1, <4>2
    <3>7. Stored' \subseteq Stored \cup {m.seq}
      BY <3>3 DEF Stored
    <3> QED
      BY <3>1, <3>6, <3>7 DEF WindowInv
  <2> QED
    BY <2>1, <2>2
<1>3. ASSUME NEW s \in seen, Forget(s) PROVE WindowInv'
  BY <1>3 DEF Forget, WindowInv, RepeatsOutsideWindow, Stored
<1>4. ASSUME NEW r \in Relays, Relay(r) \/ Stop(r) \/ Crash(r) PROVE UNCHANGED broker
  BY <1>4
  DEF Relay, Start, Claim, ClaimCorrupt, FindNone, PassCut, DatabaseFails, Poll, LastPass,
      Publish, HandlerOk, HandlerFails, SettleExpires, MarkPublished, MarkFails, Stop, Crash,
      broker
<1>5. ASSUME NEW t \in Txs, Command(t) PROVE UNCHANGED broker
  BY <1>5 DEF Command, Emit, CommitTx, AbortTx, broker
<1>6. ASSUME NEW s \in lingering, Release(s) PROVE UNCHANGED broker
  BY <1>6 DEF Release, broker
<1> QED
  BY <1>1, <1>2, <1>3, <1>4, <1>5, <1>6 DEF Next, Environment, vars

\* The stream holds an event twice only if its id left the window in between.
THEOREM RepeatsNeedTheWindow == Spec => []RepeatsOutsideWindow
<1>1. Init => WindowInv
  BY DEF Init, WindowInv, RepeatsOutsideWindow, Stored
<1> QED
  BY <1>1, WindowStep, TypeCorrect, PTL DEF Spec, WindowInv

-----------------------------------------------------------------------------
(* The outbox implements Delivery, its liveness apart.                     *)

\* A row is one transaction's.
LEMMA EmitRaises ==
    ASSUME TypeOK, NEW t \in Txs, Emit(t)
    PROVE  Promise!Raise(t, Len(rows) + 1)
<1> DEFINE e == Len(rows) + 1
<1>1. /\ Len(rows) \in Nat
      /\ DOMAIN rows = 1..Len(rows)
      /\ \A i \in DOMAIN rows : rows[i] \in Txs
  BY DEF TypeOK
<1>2. rows' = Append(rows, t) /\ rows \in Seq(Txs)
  BY DEF Emit, TypeOK
<1>3. /\ DOMAIN rows' = 1..e
      /\ \A i \in 1..Len(rows) : rows'[i] = rows[i]
      /\ rows'[e] = t
  BY <1>2
<1>4. \A c \in Txs : RowsOf(c)' = IF c = t THEN RowsOf(c) \cup {e} ELSE RowsOf(c)
  <2> SUFFICES ASSUME NEW c \in Txs
               PROVE  RowsOf(c)' = IF c = t THEN RowsOf(c) \cup {e} ELSE RowsOf(c)
    OBVIOUS
  <2>1. RowsOf(c)' = {s \in 1..e : rows'[s] = c}
    BY <1>3 DEF RowsOf
  <2> QED
    BY <1>1, <1>3, <2>1 DEF RowsOf
<1>5. \A c \in Txs : e \notin RowsOf(c)
  BY <1>1 DEF RowsOf
<1>6. UNCHANGED stream /\ tx[t] = "open" /\ tx' = tx
  BY DEF Emit, broker
<1> HIDE DEF e
<1>7. [c \in Txs |-> RowsOf(c)]' = [[c \in Txs |-> RowsOf(c)] EXCEPT ![t] = @ \cup {e}]
  BY <1>4
<1> QED
  BY <1>5, <1>6, <1>7, StreamFrame DEF Promise!Raise, e

\* The rows of a transaction are those it inserted, whoever commits.
LEMMA RowsFrame == UNCHANGED rows => [c \in Txs |-> RowsOf(c)]' = [c \in Txs |-> RowsOf(c)]
BY DEF RowsOf

\* What the outbox promises is what is visible.
LEMMA PromisedIsVisible == TypeOK => Visible \subseteq Promise!Promised
<1> SUFFICES ASSUME TypeOK, NEW s \in Visible PROVE s \in Promise!Promised
  OBVIOUS
<1>1. s \in DOMAIN rows /\ tx[rows[s]] = "committed" /\ rows[s] \in Txs
  BY DEF Visible, Committed, TypeOK
<1>2. s \in RowsOf(rows[s])
  BY <1>1 DEF RowsOf
<1> QED
  BY <1>1, <1>2 DEF Promise!Promised

\* Every step of the outbox is a step of Delivery or leaves it unchanged.
LEMMA PromiseStep == IInv /\ [Next]_vars => [Promise!Next]_(Promise!vars)
<1> SUFFICES ASSUME IInv, [Next]_vars PROVE [Promise!Next]_(Promise!vars)
  OBVIOUS
<1>t. TypeOK
  BY DEF IInv
<1>1. ASSUME UNCHANGED <<tx, rows, stream>> PROVE UNCHANGED Promise!vars
  BY <1>1, RowsFrame, StreamFrame DEF Promise!vars
<1>2. ASSUME NEW t \in Txs, Emit(t) PROVE Promise!Next
  <2>1. Len(rows) + 1 \in Seqs
    BY <1>2, <1>t DEF Emit, TypeOK, Seqs
  <2> QED
    BY <1>2, <1>t, <2>1, EmitRaises DEF Promise!Next
<1>3. ASSUME NEW t \in Txs, CommitTx(t) PROVE Promise!Next
  BY <1>3, RowsFrame, StreamFrame DEF CommitTx, broker, Promise!Next, Promise!Settle
<1>4. ASSUME NEW t \in Txs, AbortTx(t) PROVE Promise!Next
  BY <1>4, RowsFrame, StreamFrame DEF AbortTx, broker, Promise!Next, Promise!Settle
<1>5. ASSUME NEW m \in wire, Accept(m) PROVE [Promise!Next]_(Promise!vars)
  <2>1. UNCHANGED <<tx, rows>>
    BY <1>5 DEF Accept, tables
  <2>2. CASE Stored' = Stored
    BY <2>1, <2>2, RowsFrame DEF Promise!vars
  <2>3. CASE Stored' # Stored
    <3>1. Stored' = Stored \cup {m.seq} /\ m.seq \notin Stored
      BY <1>5, <1>t, <2>3, AcceptStores
    <3>2. m.seq \in Promise!Promised /\ m.seq \in Seqs
      BY <1>t, PromisedIsVisible DEF IInv, OnlyCommittedLeave, TypeOK, Request
    <3>3. Promise!Deliver(m.seq)
      BY <2>1, <3>1, <3>2, RowsFrame DEF Promise!Deliver
    <3> QED
      BY <3>2, <3>3 DEF Promise!Next
  <2> QED
    BY <2>2, <2>3
<1>6. ASSUME NEW r \in Relays, Relay(r) \/ Stop(r) \/ Crash(r)
      PROVE  UNCHANGED <<tx, rows, stream>>
  BY <1>6
  DEF Relay, Start, Claim, ClaimCorrupt, FindNone, PassCut, DatabaseFails, Poll, LastPass,
      Publish, HandlerOk, HandlerFails, SettleExpires, MarkPublished, MarkFails, Stop, Crash,
      broker, tables
<1>7. ASSUME NEW s \in Seqs, Release(s) \/ Forget(s) PROVE UNCHANGED <<tx, rows, stream>>
  BY <1>7 DEF Release, Forget, broker, tables
<1>8. lingering \subseteq Seqs /\ seen \subseteq Seqs
  BY <1>t DEF TypeOK
<1> QED
  BY <1>1, <1>2, <1>3, <1>4, <1>5, <1>6, <1>7, <1>8
  DEF Next, Command, Environment, vars, tables, broker

\* The outbox never breaks the promise of Delivery: it stores the events of
\* committed commands, each a single time as far as Delivery counts, and no other.
THEOREM OutboxImplementsDelivery == Spec => PromiseSafety
<1>1. Init => Promise!Init
  <2> SUFFICES ASSUME Init PROVE Promise!Init
    OBVIOUS
  <2>1. Stored = {} /\ \A t \in Txs : RowsOf(t) = {}
    BY DEF Init, Stored, RowsOf
  <2> QED
    BY <2>1 DEF Init, Promise!Init
<1> QED
  BY <1>1, PromiseStep, SafetyInvariant, PTL DEF Spec, PromiseSafety, Promise!SafeSpec

-----------------------------------------------------------------------------
(* Marking implements Delivery too, its liveness apart.                    *)

\* A row that is marked is committed, and was not marked before.
LEMMA MarkDelivers ==
    ASSUME IInv, NEW r \in Relays, MarkPublished(r) \/ MarkFails(r), published' # published
    PROVE  row[r] \in Seqs /\ Marked!Deliver(row[r])
<1>1. live[r] /\ published' = published \cup {row[r]} /\ UNCHANGED tables
  BY DEF MarkPublished, MarkFails
<1>2. row[r] \in Pending /\ row[r] \in Seqs
  BY <1>1 DEF IInv, ExclusiveClaim, Pending, Visible
<1>3. row[r] \in Promise!Promised
  BY <1>2, PromisedIsVisible DEF IInv, Pending
<1>4. row[r] \in Marked!Promised \ published
  BY <1>2, <1>3 DEF Promise!Promised, Marked!Promised, Pending
<1> QED
  BY <1>1, <1>2, <1>4, RowsFrame DEF Marked!Deliver, tables

LEMMA MarkedStep == IInv /\ [Next]_vars => [Marked!Next]_(Marked!vars)
<1> SUFFICES ASSUME IInv, [Next]_vars PROVE [Marked!Next]_(Marked!vars)
  OBVIOUS
<1>t. TypeOK
  BY DEF IInv
<1>1. ASSUME UNCHANGED <<tx, rows, published>> PROVE UNCHANGED Marked!vars
  BY <1>1, RowsFrame DEF Marked!vars
<1>2. ASSUME NEW t \in Txs, Emit(t) PROVE Marked!Next
  <2>1. Len(rows) + 1 \in Seqs
    BY <1>2, <1>t DEF Emit, TypeOK, Seqs
  <2>2. Promise!Raise(t, Len(rows) + 1)
    BY <1>2, <1>t, EmitRaises
  <2>3. Marked!Raise(t, Len(rows) + 1)
    BY <1>2, <2>2 DEF Emit, Promise!Raise, Marked!Raise
  <2> QED
    BY <2>1, <2>3 DEF Marked!Next
<1>3. ASSUME NEW t \in Txs, CommitTx(t) PROVE Marked!Next
  BY <1>3, RowsFrame DEF CommitTx, Marked!Next, Marked!Settle
<1>4. ASSUME NEW t \in Txs, AbortTx(t) PROVE Marked!Next
  BY <1>4, RowsFrame DEF AbortTx, Marked!Next, Marked!Settle
<1>5. ASSUME NEW r \in Relays, MarkPublished(r) \/ MarkFails(r) PROVE [Marked!Next]_(Marked!vars)
  <2>1. CASE published' = published
    BY <1>1, <1>5, <2>1 DEF MarkPublished, MarkFails, tables
  <2>2. CASE published' # published
    BY <1>5, <2>2, MarkDelivers DEF Marked!Next
  <2> QED
    BY <2>1, <2>2
<1>6. ASSUME NEW r \in Relays, Relay(r) \/ Stop(r) \/ Crash(r), ~MarkPublished(r), ~MarkFails(r)
      PROVE  UNCHANGED <<tx, rows, published>>
  BY <1>6
  DEF Relay, Start, Claim, ClaimCorrupt, FindNone, PassCut, DatabaseFails, Poll, LastPass,
      Publish, HandlerOk, HandlerFails, SettleExpires, Stop, Crash, tables
<1>7. ASSUME NEW s, Release(s) \/ Forget(s) \/ Accept(s) PROVE UNCHANGED <<tx, rows, published>>
  BY <1>7 DEF Release, Forget, Accept, tables
<1> QED
  BY <1>1, <1>2, <1>3, <1>4, <1>5, <1>6, <1>7
  DEF Next, Command, Environment, vars, tables

\* What the relays mark keeps Delivery's promise as what the broker stores does:
\* only rows of committed commands, each once. It is the safety of KeepsPromise.
THEOREM MarkingImplementsDelivery == Spec => Marked!SafeSpec
<1>1. Init => Marked!Init
  BY DEF Init, Marked!Init, RowsOf
<1> QED
  BY <1>1, MarkedStep, SafetyInvariant, PTL DEF Spec, Marked!SafeSpec

-----------------------------------------------------------------------------
(* The order of the stream.                                                *)

\* A set of numbers that is not empty has a smallest one.
LEMMA Smallest ==
    ASSUME NEW S, S \subseteq Nat, S # {}
    PROVE  \E i \in S : \A j \in S : i <= j
<1>1. PICK i \in S : \A j \in S : ~(<<j, i>> \in OpToRel(<, Nat))
  BY NatLessThanWellFounded, WFMin
<1>2. \A j \in S : ~(j < i)
  BY <1>1 DEF OpToRel
<1> QED
  BY <1>2

\* An event in the stream is there for a first time.
LEMMA FirstIs ==
    ASSUME TypeOK, NEW s \in Stored
    PROVE  /\ First(s) \in DOMAIN stream /\ stream[First(s)] = s
           /\ \A j \in 1..(First(s) - 1) : stream[j] # s
<1> DEFINE S == {i \in DOMAIN stream : stream[i] = s}
<1>1. DOMAIN stream = 1..Len(stream) /\ Len(stream) \in Nat
  BY DEF TypeOK
<1>2. S # {} /\ S \subseteq Nat
  BY <1>1 DEF Stored
<1>3. PICK i \in S : \A j \in S : i <= j
  BY <1>2, Smallest
<1>4. \A j \in 1..(i - 1) : stream[j] # s
  BY <1>1, <1>3
<1> QED
  BY <1>3, <1>4 DEF First

\* e is in the stream, before f is there for any time.
Before(e, f) ==
    /\ e \in Stored
    /\ \A j \in DOMAIN stream : stream[j] = f => \E i \in 1..(j - 1) : stream[i] = e

\* Of two rows that commands see, the later goes out behind the earlier, which
\* the broker then holds, unless it may go ahead of it. It is said of what is out
\* already, not of what is stored: once an event is out nothing more holds it back.
OutInOrder == \A f \in Out : \A e \in Visible : e < f => <<e, f>> \in ahead \/ Before(e, f)

\* What keeps the stream, and lets no more out, keeps the order.
LEMMA OrderKept ==
    ASSUME OutInOrder, Visible' \subseteq Visible, Out' \subseteq Out,
           ahead \subseteq ahead', UNCHANGED stream
    PROVE  OutInOrder'
BY DEF OutInOrder, Before, Stored

LEMMA OrderStep == IInv /\ OutInOrder /\ [Next]_vars => OutInOrder'
<1> SUFFICES ASSUME IInv, OutInOrder, [Next]_vars PROVE OutInOrder'
  OBVIOUS
<1>t. TypeOK
  BY DEF IInv
<1>1. ASSUME NEW t \in Txs, Emit(t) \/ AbortTx(t) PROVE OutInOrder'
  <2>1. Visible' = Visible
    BY <1>1, <1>t, EmitInvisible, AbortInvisible
  <2>2. Out' = Out /\ ahead' = ahead /\ stream' = stream
    BY <1>1, StreamFrame DEF Emit, AbortTx, Out, Handling, relayVars, broker, history
  <2> QED
    BY <2>1, <2>2, OrderKept
<1>2. ASSUME NEW t \in Txs, CommitTx(t) PROVE OutInOrder'
  <2>1. Out' = Out /\ stream' = stream
    BY <1>2, StreamFrame DEF CommitTx, Out, Handling, relayVars, broker
  <2>2. ahead' = ahead \cup {p \in RowsOf(t) \X Out : p[1] < p[2]}
    BY <1>2 DEF CommitTx
  <2>3. Visible' \subseteq Visible \cup RowsOf(t)
    BY <1>2, <1>t DEF CommitTx, Visible, Committed, RowsOf, TypeOK
  <2> SUFFICES ASSUME NEW f \in Out, NEW e \in Visible', e < f
               PROVE  <<e, f>> \in ahead' \/ Before(e, f)'
    BY <2>1 DEF OutInOrder
  <2>4. CASE e \in Visible
    BY <2>1, <2>2, <2>4 DEF OutInOrder, Before, Stored
  <2>5. CASE e \in RowsOf(t)
    BY <2>2, <2>5
  <2> QED
    BY <2>3, <2>4, <2>5
<1>3. ASSUME NEW r \in Relays, Claim(r) PROVE OutInOrder'
  <2>1. PICK s \in Claimable(r) \ Corrupt :
           /\ IsOldest(s, Claimable(r))
           /\ row' = [row EXCEPT ![r] = s]
           /\ ahead' = ahead \cup {p \in (Pending \cap LockedElsewhere(r)) \X {s} : p[1] < p[2]}
    BY <1>3 DEF Claim
  <2>2. Visible' = Visible /\ Stored' = Stored /\ stream' = stream /\ wire' = wire
    BY <1>3, TablesFrame, StreamFrame DEF Claim, broker
  <2>3. Out' \subseteq Out \cup {s}
    BY <1>3, <1>t, <2>1, <2>2 DEF Claim, Out, Handling, TypeOK
  <2>4. s \in Seqs /\ Visible \subseteq Seqs
    BY <2>1 DEF Claimable, Pending, Visible
  <2> SUFFICES ASSUME NEW f \in Out \cup {s}, NEW e \in Visible, e < f
               PROVE  <<e, f>> \in ahead' \/ Before(e, f)
    BY <2>2, <2>3 DEF OutInOrder, Before
  <2>5. CASE f \in Out
    BY <2>1, <2>5 DEF OutInOrder
  <2>6. CASE f = s /\ s \notin Out
    <3>1. e \notin Claimable(r)
      BY <2>1, <2>4, <2>6 DEF IsOldest, Seqs
    <3>2. CASE e \in published
      BY <2>6, <3>2 DEF IInv, PublishedIsStored, Before, Out, Stored
    <3>3. CASE e \in Pending \cap LockedElsewhere(r)
      BY <2>1, <2>6, <3>3
    <3> QED
      BY <3>1, <3>2, <3>3 DEF Claimable, Pending
  <2> QED
    BY <2>5, <2>6
<1>4. ASSUME NEW r \in Relays, Relay(r), ~Claim(r) PROVE OutInOrder'
  <2>1. Visible' = Visible /\ stream' = stream /\ ahead' = ahead
    BY <1>4, TablesFrame
    DEF Relay, Start, ClaimCorrupt, FindNone, PassCut, DatabaseFails, Poll, LastPass, Publish,
        HandlerOk, HandlerFails, SettleExpires, MarkPublished, MarkFails, broker, history, tables
  <2>2. Stored' = Stored
    BY <2>1, StreamFrame
  <2>3. row' = row
    BY <1>4
    DEF Relay, Start, ClaimCorrupt, FindNone, PassCut, DatabaseFails, Poll, LastPass, Publish,
        HandlerOk, HandlerFails, SettleExpires, MarkPublished, MarkFails, relayVars
  <2>4. \A q \in Relays : Handling(q)' => Handling(q)
    BY <1>4, <1>t
    DEF Relay, Start, ClaimCorrupt, FindNone, PassCut, DatabaseFails, Poll, LastPass, Publish,
        HandlerOk, HandlerFails, SettleExpires, MarkPublished, MarkFails, PassFails, PassOver,
        relayVars, Handling, TypeOK
  <2>5. {m.seq : m \in wire'} \subseteq {m.seq : m \in wire} \cup {row[q] : q \in {p \in Relays : Handling(p)}}
    <3>1. CASE wire' = wire
      BY <3>1
    <3>2. CASE Publish(r)
      BY <3>2 DEF Publish, Handling
    <3>3. CASE HandlerFails(r)
      BY <3>3 DEF HandlerFails, Abandoned
    <3> QED
      BY <1>4, <3>1, <3>2, <3>3
      DEF Relay, Start, ClaimCorrupt, FindNone, PassCut, DatabaseFails, Poll, LastPass,
          HandlerOk, SettleExpires, MarkPublished, MarkFails
  <2>6. Out' \subseteq Out
    BY <2>2, <2>3, <2>4, <2>5 DEF Out
  <2> QED
    BY <2>1, <2>6, OrderKept
<1>5. ASSUME NEW r \in Relays, Stop(r) \/ Crash(r) PROVE OutInOrder'
  <2>1. Visible' = Visible /\ stream' = stream /\ ahead' = ahead /\ row' = row
    BY <1>5, TablesFrame DEF Stop, Crash, broker, history, tables
  <2>2. Stored' = Stored
    BY <2>1, StreamFrame
  <2>3. \A q \in Relays : Handling(q)' => Handling(q)
    BY <1>5, <1>t DEF Stop, Crash, Handling, TypeOK
  <2>4. {m.seq : m \in wire'} \subseteq {m.seq : m \in wire}
    BY <1>5 DEF Stop, Crash, Abandoned
  <2>5. Out' \subseteq Out
    BY <2>1, <2>2, <2>3, <2>4 DEF Out
  <2> QED
    BY <2>1, <2>5, OrderKept
<1>6. ASSUME NEW m \in wire, Accept(m) PROVE OutInOrder'
  <2>1. Visible' = Visible /\ ahead' = ahead
    BY <1>6, TablesFrame DEF Accept, history, relayVars, Handling
  <2>2. Out' \subseteq Out
    BY <1>6, <1>t, AcceptStores DEF Accept, relayVars, Out, Handling
  <2>3. CASE Repeat(m)
    BY <1>6, <2>1, <2>2, <2>3, OrderKept DEF Accept
  <2>4. CASE ~Repeat(m)
    <3>1. stream' = Append(stream, m.seq) /\ stream \in Seq(Seqs) /\ m.seq \in Seqs
      BY <1>6, <1>t, <2>4 DEF Accept, TypeOK, Request
    <3>2. /\ DOMAIN stream = 1..Len(stream)
          /\ DOMAIN stream' = 1..(Len(stream) + 1)
          /\ Len(stream) \in Nat
          /\ \A i \in 1..Len(stream) : stream'[i] = stream[i]
          /\ stream'[Len(stream) + 1] = m.seq
      BY <3>1
    <3>3. \A e, f : Before(e, f) => Before(e, f)'
      <4> SUFFICES ASSUME NEW e, NEW f, Before(e, f) PROVE Before(e, f)'
        OBVIOUS
      <4>1. PICK k \in 1..Len(stream) : stream[k] = e
        BY <3>2 DEF Before, Stored
      <4>2. e \in Stored'
        BY <3>2, <4>1 DEF Stored
      <4>3. ASSUME NEW j \in DOMAIN stream', stream'[j] = f PROVE \E i \in 1..(j - 1) : stream'[i] = e
        <5>1. CASE j \in DOMAIN stream
          <6>1. PICK i \in 1..(j - 1) : stream[i] = e
            BY <3>2, <4>3, <5>1 DEF Before
          <6> QED
            BY <3>2, <5>1, <6>1
        <5>2. CASE j = Len(stream) + 1
          BY <3>2, <4>1, <5>2
        <5> QED
          BY <3>2, <5>1, <5>2
      <4> QED
        BY <4>2, <4>3 DEF Before
    <3> QED
      BY <2>1, <2>2, <3>3 DEF OutInOrder
  <2> QED
    BY <2>3, <2>4
<1>7. ASSUME NEW s \in Seqs, Release(s) \/ Forget(s) PROVE OutInOrder'
  <2>1. Visible' = Visible /\ Out' = Out /\ stream' = stream /\ ahead' = ahead
    BY <1>7, TablesFrame, StreamFrame DEF Release, Forget, Out, Handling, relayVars, broker, history
  <2> QED
    BY <2>1, OrderKept
<1>8. CASE UNCHANGED vars
  <2>1. Visible' = Visible /\ Out' = Out /\ stream' = stream /\ ahead' = ahead
    BY <1>8, TablesFrame, StreamFrame DEF vars, Out, Handling, relayVars, broker, history
  <2> QED
    BY <2>1, OrderKept
<1>9. lingering \subseteq Seqs /\ seen \subseteq Seqs
  BY <1>t DEF TypeOK
<1> QED
  BY <1>1, <1>2, <1>3, <1>4, <1>5, <1>6, <1>7, <1>8, <1>9 DEF Next, Command, Environment

\* Events first reach the stream in the order of their seqs, but for those that
\* went ahead of a row that was not yet committed or that another session held.
THEOREM StreamInOrder == Spec => []SeqOrder
<1>1. Init => OutInOrder
  BY DEF Init, OutInOrder, Out, Stored, Handling
<1>2. IInv /\ OutInOrder => SeqOrder
  <2> SUFFICES ASSUME IInv, OutInOrder, NEW f \in Stored, NEW e \in Visible, e < f,
                      e \in Stored => First(f) < First(e), <<e, f>> \notin ahead
               PROVE  FALSE
    BY DEF SeqOrder
  <2>1. TypeOK /\ DOMAIN stream = 1..Len(stream) /\ Len(stream) \in Nat
    BY DEF IInv, TypeOK
  <2>2. Before(e, f)
    BY DEF OutInOrder, Out
  <2>3. /\ First(f) \in DOMAIN stream /\ stream[First(f)] = f
        /\ First(e) \in DOMAIN stream /\ \A j \in 1..(First(e) - 1) : stream[j] # e
    BY <2>1, <2>2, FirstIs DEF Before
  <2>4. PICK i \in 1..(First(f) - 1) : stream[i] = e
    BY <2>2, <2>3 DEF Before
  <2>5. First(f) < First(e)
    BY <2>2 DEF Before
  <2> HIDE DEF First
  <2> QED
    BY <2>1, <2>3, <2>4, <2>5
<1> QED
  BY <1>1, <1>2, OrderStep, SafetyInvariant, PTL DEF Spec

-----------------------------------------------------------------------------
(* The last pass.                                                          *)

\* What a stopped relay owes is committed, and a relay that has ended has left
\* of it what others held.
OwedIsVisible == \A r \in Relays : owed[r] \subseteq Visible

DrainInv == OwedIsVisible /\ DrainPublishesOwed

LEMMA DrainStep == IInv /\ DrainInv /\ [Next]_vars => DrainInv'
<1> SUFFICES ASSUME IInv, DrainInv, [Next]_vars PROVE DrainInv'
  OBVIOUS
<1>t. TypeOK
  BY DEF IInv
<1> USE DEF DrainInv, OwedIsVisible, DrainPublishesOwed, TypeOK
<1>1. ASSUME NEW t \in Txs, Command(t) PROVE DrainInv'
  <2>1. Visible \subseteq Visible'
    BY <1>1, <1>t, EmitInvisible, CommitVisible, AbortInvisible DEF Command
  <2> QED
    BY <1>1, <2>1 DEF Command, Emit, CommitTx, AbortTx, relayVars, history
<1>2. ASSUME NEW r \in Relays, FindNone(r) PROVE DrainInv'
  <2>1. Visible' = Visible
    BY <1>2, TablesFrame DEF FindNone
  <2>2. Visible \subseteq published \cup LockedElsewhere(r)
    BY <1>2 DEF FindNone, Claimable, Pending
  <2> QED
    BY <1>2, <1>t, <2>1, <2>2 DEF FindNone, PassOver
<1>3. ASSUME NEW r \in Relays, Stop(r) PROVE DrainInv'
  <2>1. Visible' = Visible
    BY <1>3, TablesFrame DEF Stop
  <2> QED
    BY <1>3, <1>t, <2>1 DEF Stop, Receiving, Pending
<1>4. ASSUME NEW r \in Relays, Start(r) \/ ClaimCorrupt(r) \/ PassCut(r) PROVE DrainInv'
  <2>1. Visible' = Visible
    BY <1>4, TablesFrame DEF Start, ClaimCorrupt, PassCut
  <2> QED
    BY <1>4, <1>t, <2>1 DEF Start, ClaimCorrupt, PassCut, PassOver
<1>5. ASSUME NEW r \in Relays, DatabaseFails(r) \/ HandlerFails(r) \/ MarkFails(r) PROVE DrainInv'
  <2>1. Visible' = Visible /\ published \subseteq published' /\ left' = left
    BY <1>5, TablesFrame DEF DatabaseFails, HandlerFails, MarkFails
  <2> QED
    BY <1>5, <1>t, <2>1 DEF DatabaseFails, HandlerFails, MarkFails, PassFails, PassOver
<1>6. ASSUME NEW r \in Relays,
             \/ Claim(r) \/ Poll(r) \/ LastPass(r) \/ Publish(r) \/ HandlerOk(r)
             \/ SettleExpires(r) \/ MarkPublished(r) \/ Crash(r)
      PROVE  DrainInv'
  <2>1. Visible' = Visible /\ published \subseteq published' /\ owed' = owed /\ left' = left
    BY <1>6, TablesFrame
    DEF Claim, Poll, LastPass, Publish, HandlerOk, SettleExpires, MarkPublished, Crash, history, tables
  <2>2. \A q \in Relays : Drain /\ pc'[q] = "ended" => pc[q] = "ended"
    BY <1>6, <1>t
    DEF Claim, Poll, LastPass, Publish, HandlerOk, SettleExpires, MarkPublished, Crash, relayVars
  <2> QED
    BY <2>1, <2>2
<1>7. ASSUME UNCHANGED <<tables, published, relayVars, history>> PROVE DrainInv'
  BY <1>7, TablesFrame DEF relayVars, history
<1> QED
  BY <1>1, <1>2, <1>3, <1>4, <1>5, <1>6, <1>7
  DEF Next, Relay, Environment, Release, Accept, Forget, vars

\* A relay that was stopped, and whose last pass found nothing more to claim, has
\* published all that was committed when it was stopped, but for what others held.
THEOREM LastPassPublishesOwed == Spec => []DrainPublishesOwed
<1>1. Init => DrainInv
  BY DEF Init, DrainInv, OwedIsVisible, DrainPublishesOwed
<1> QED
  BY <1>1, DrainStep, SafetyInvariant, PTL DEF Spec, DrainInv

=============================================================================
