---------------------------- MODULE ExerciseProof ----------------------------
(***************************************************************************)
(* Theorems about Exercise, for any finite set of exercises and any         *)
(* umpires, members, resolvers and orders.                                 *)
(***************************************************************************)
EXTENDS Exercise, SequenceTheorems, FiniteSetTheorems, TLAPS

USE LimitAssumption, OrdersAssumption, NoneAssumption

-----------------------------------------------------------------------------
(* The inductive invariant.                                                *)

\* An exercise that has not ended has rounds left.
Unfinished ==
    \A x \in Exercises :
        status[x] \in {"absent", "created", "running", "paused"} => round[x] < Limit

\* A row that a command or a resolver has locked is nobody else's.
Alone ==
    /\ \A u, v \in Umpires : u # v /\ umpire[u] # Idle => umpire[v].at # umpire[u].at
    /\ \A r, q \in Resolvers : r # q /\ held[r] # Idle => held[q].at # held[r].at
    /\ \A u \in Umpires, r \in Resolvers : held[r] # Idle => umpire[u].at # held[r].at
    /\ \A u \in Umpires, o \in Members : member[o] # Idle => umpire[u].at # member[o].at
    /\ \A r \in Resolvers, o \in Members : member[o] # Idle => held[r].at # member[o].at

\* What a session read under its lock is still so.
ReadIsCurrent ==
    /\ \A u \in Umpires : umpire[u] # Idle =>
         /\ umpire[u].status = status[umpire[u].at] /\ umpire[u].status # "absent"
         /\ umpire[u].round = round[umpire[u].at]
    /\ \A o \in Members : member[o] # Idle =>
         /\ member[o].status = status[member[o].at] /\ member[o].status # "absent"
         /\ member[o].round = round[member[o].at]
         /\ member[o].at = For[member[o].order].exercise
    /\ \A r \in Resolvers : held[r] # Idle =>
         /\ Due(held[r].at)
         /\ held[r].round = round[held[r].at]
         /\ held[r].orders = orders[held[r].at][round[held[r].at] + 1]

IInv == TypeOK /\ Unfinished /\ Alone /\ ReadIsCurrent /\ RecordedIsApplied

-----------------------------------------------------------------------------
(* The type invariant.                                                     *)

Reported == [kind : Kinds, round : 0..Limit]

\* What an umpire, a member and a resolver work on, when they do.
LEMMA WorkType ==
    ASSUME TypeOK
    PROVE  /\ \A u \in Umpires :
                /\ umpire[u] # Idle => umpire[u].at \in Exercises /\ umpire[u].round \in 0..Limit
                /\ umpire[u] = Idle <=> umpire[u].at = None
           /\ \A o \in Members :
                /\ member[o] # Idle =>
                     member[o].at \in Exercises /\ member[o].order \in Orders /\ member[o].round \in 0..Limit
                /\ member[o] = Idle <=> member[o].at = None
           /\ \A r \in Resolvers :
                /\ held[r] # Idle =>
                     /\ held[r].at \in Exercises /\ held[r].round \in 0..Limit
                     /\ held[r].orders \in [Factions -> Orders \cup {None}]
                /\ held[r] = Idle <=> held[r].at = None
BY DEF TypeOK, Idle

\* Raising events about an exercise keeps the outbox's types.
LEMMA RaiseType ==
    ASSUME TypeOK, NEW x \in Exercises, NEW events \in Seq(Reported), Raise(x, events)
    PROVE  \A y \in Exercises : outbox'[y] \in Seq(Reported)
<1>1. outbox[x] \o events \in Seq(Reported)
  BY ConcatProperties DEF TypeOK, Reported
<1> QED
  BY <1>1 DEF Raise, TypeOK, Reported

\* The events that a round or a command raises.
LEMMA EventsType ==
    ASSUME NEW n \in 0..Limit, NEW over \in BOOLEAN, NEW lost \in BOOLEAN
    PROVE  /\ <<Event("started", 0), Event("observed", 0)>>
                \o (IF over THEN <<Event("concluded", 0)>> ELSE <<>>) \in Seq(Reported)
           /\ <<Event("resolved", n)>> \o (IF lost THEN <<Event("lost", n)>> ELSE <<>>)
                \o <<Event("observed", n)>>
                \o (IF over THEN <<Event("concluded", n)>> ELSE <<>>) \in Seq(Reported)
           /\ <<>> \in Seq(Reported) /\ <<Event("concluded", n)>> \in Seq(Reported)
<1>1. 0 \in 0..Limit
  OBVIOUS
<1>2. \A k \in Kinds, m \in 0..Limit : Event(k, m) \in Reported
  BY DEF Event, Reported
<1>3. \A e \in Reported : <<e>> \in Seq(Reported)
  OBVIOUS
<1>4. \A e, d \in Reported : <<e, d>> \in Seq(Reported)
  OBVIOUS
<1>5. <<>> \in Seq(Reported)
  OBVIOUS
<1>6. \A s, t \in Seq(Reported) : s \o t \in Seq(Reported)
  BY ConcatProperties
<1>7. /\ Event("started", 0) \in Reported /\ Event("observed", 0) \in Reported
      /\ Event("concluded", 0) \in Reported /\ Event("resolved", n) \in Reported
      /\ Event("lost", n) \in Reported /\ Event("observed", n) \in Reported
      /\ Event("concluded", n) \in Reported
  BY <1>1, <1>2 DEF Kinds
<1> DEFINE last(m) == IF over THEN <<Event("concluded", m)>> ELSE <<>>
           loss == IF lost THEN <<Event("lost", n)>> ELSE <<>>
<1>8. last(0) \in Seq(Reported) /\ last(n) \in Seq(Reported) /\ loss \in Seq(Reported)
  BY <1>3, <1>5, <1>7
<1>9. <<Event("resolved", n)>> \o loss \in Seq(Reported)
  BY <1>3, <1>6, <1>7, <1>8
<1>10. (<<Event("resolved", n)>> \o loss) \o <<Event("observed", n)>> \in Seq(Reported)
  BY <1>3, <1>6, <1>7, <1>9
<1>11. <<Event("started", 0), Event("observed", 0)>> \o last(0) \in Seq(Reported)
  BY <1>4, <1>6, <1>7, <1>8
<1>12. ((<<Event("resolved", n)>> \o loss) \o <<Event("observed", n)>>) \o last(n) \in Seq(Reported)
  BY <1>6, <1>8, <1>10
<1> QED
  BY <1>3, <1>5, <1>7, <1>11, <1>12

\* A pass's list is of exercises.
LEMMA FoundType ==
    ASSUME NEW found \in SUBSET Exercises, NEW ids \in SetToSeqs(found)
    PROVE  ids \in Seq(Exercises)
<1>1. IsFiniteSet(found)
  BY ExercisesAssumption, FS_Subset
<1>2. Cardinality(found) \in Nat
  BY <1>1, FS_CardinalityType
<1>3. ids \in [1..Cardinality(found) -> found]
  BY DEF SetToSeqs
<1>4. ids \in [1..Cardinality(found) -> Exercises]
  BY <1>3
<1> QED
  BY <1>2, <1>4

\* What an umpire's command may write, and where.
LEMMA CommandType ==
    ASSUME IInv, NEW u \in Umpires, umpire[u] # Idle
    PROVE  umpire[u].at \in Exercises /\ umpire[u].round \in 0..Limit
BY WorkType DEF IInv

\* Every step keeps every variable in its type.
LEMMA TypeStep == IInv /\ [Next]_vars => TypeOK'
<1> SUFFICES ASSUME IInv, [Next]_vars PROVE TypeOK'
  OBVIOUS
<1> USE DEF TypeOK, exercise
<1>0. TypeOK
  BY DEF IInv
<1>1. ASSUME NEW x \in Exercises, Create(x) \/ Elapse(x) PROVE TypeOK'
  BY <1>0, <1>1 DEF Create, Elapse, Statuses
<1>2. ASSUME NEW u \in Umpires, NEW x \in Exercises, NEW verb \in Verbs, Lock(u, x, verb) PROVE TypeOK'
  BY <1>0, <1>2 DEF Lock
<1>3. ASSUME NEW u \in Umpires, Start(u) PROVE TypeOK'
  <2> DEFINE x == umpire[u].at
  <2>1. umpire[u] # Idle /\ x \in Exercises
    BY <1>3, CommandType DEF Start, May
  <2>2. PICK over \in BOOLEAN :
          /\ status' = [status EXCEPT ![x] = IF over THEN "concluded" ELSE "running"]
          /\ nextAt' = [nextAt EXCEPT ![x] = IF over THEN "none" ELSE "future"]
          /\ Raise(x, <<Event("started", 0), Event("observed", 0)>>
                        \o (IF over THEN <<Event("concluded", 0)>> ELSE <<>>))
    BY <1>3 DEF Start
  <2>3. outbox' \in [Exercises -> Seq(Reported)]
    BY <1>0, <2>1, <2>2, EventsType, RaiseType DEF Raise
  <2> QED
    BY <1>0, <1>3, <2>1, <2>2, <2>3 DEF Start, End, Statuses, Reported
<1>4. ASSUME NEW u \in Umpires, Pause(u) \/ Resume(u) PROVE TypeOK'
  <2>1. umpire[u].at \in Exercises /\ status[umpire[u].at] \in {"running", "paused"}
    BY <1>4, CommandType DEF Pause, Resume, May
  <2> QED
    <3>1. CASE Pause(u)
      BY <1>0, <2>1, <3>1 DEF Pause, End, Statuses
    <3>2. CASE Resume(u)
      BY <1>0, <2>1, <3>2 DEF Resume, End, Statuses
    <3> QED
      BY <1>4, <3>1, <3>2
<1>5. ASSUME NEW u \in Umpires, Stop(u) PROVE TypeOK'
  <2> DEFINE x == umpire[u].at
  <2>1. x \in Exercises /\ umpire[u].round \in 0..Limit
    BY <1>5, CommandType DEF Stop, May
  <2>2. outbox' \in [Exercises -> Seq(Reported)]
    BY <1>0, <1>5, <2>1, EventsType, RaiseType DEF Stop, Raise
  <2> QED
    BY <1>0, <1>5, <2>1, <2>2 DEF Stop, End, Statuses, Reported
<1>6. ASSUME NEW u \in Umpires, RollBack(u) PROVE TypeOK'
  BY <1>0, <1>6 DEF RollBack, End
<1>7. ASSUME NEW o \in Members, NEW e \in Orders, Share(o, e) PROVE TypeOK'
  <2>1. For[e].exercise \in Exercises
    OBVIOUS
  <2> QED
    BY <1>0, <1>7, <2>1 DEF Share
<1>8. ASSUME NEW o \in Members, RecordOrders(o) PROVE TypeOK'
  <2> DEFINE e == member[o].order
  <2>1. e \in Orders
    BY <1>0, <1>8, WorkType DEF RecordOrders
  <2>2. orders' \in [Exercises -> [Rounds -> [Factions -> Orders \cup {None}]]]
    <3>1. /\ For[e].exercise \in Exercises /\ For[e].faction \in Factions
      BY <2>1
    <3>2. CASE orders' = orders
      BY <1>0, <3>2
    <3>3. CASE ~Invalid(o) /\ orders' = [orders EXCEPT ![For[e].exercise][For[e].round][For[e].faction] = e]
      <4> DEFINE x == For[e].exercise
                 k == For[e].round
      <4>1. k \in Rounds
        BY <3>3 DEF Invalid
      <4>2. [orders[x][k] EXCEPT ![For[e].faction] = e] \in [Factions -> Orders \cup {None}]
        BY <1>0, <2>1, <3>1, <4>1
      <4>3. [orders[x] EXCEPT ![k] = [orders[x][k] EXCEPT ![For[e].faction] = e]]
              \in [Rounds -> [Factions -> Orders \cup {None}]]
        BY <1>0, <3>1, <4>1, <4>2
      <4> QED
        BY <1>0, <3>1, <3>3, <4>3
    <3> QED
      BY <1>8, <3>2, <3>3 DEF RecordOrders
  <2> QED
    BY <1>0, <1>8, <2>1, <2>2 DEF RecordOrders
<1>9. ASSUME NEW o \in Members, RefuseOrders(o) PROVE TypeOK'
  BY <1>0, <1>9 DEF RefuseOrders
<1>10. ASSUME NEW r \in Resolvers, FindDue(r) PROVE TypeOK'
  <2>1. PICK ids \in SetToSeqs({x \in Exercises : Due(x)}) : due' = [due EXCEPT ![r] = ids]
    BY <1>10 DEF FindDue
  <2>2. ids \in Seq(Exercises)
    BY FoundType
  <2> QED
    BY <1>0, <1>10, <2>1, <2>2 DEF FindDue
<1>11. ASSUME NEW r \in Resolvers, MayTry(r)
       PROVE  Head(due[r]) \in Exercises /\ Tail(due[r]) \in Seq(Exercises)
  BY <1>0, <1>11, HeadTailProperties DEF MayTry
<1>12. ASSUME NEW r \in Resolvers, LockIfDue(r) PROVE TypeOK'
  <2> DEFINE x == Head(due[r])
  <2>1. x \in Exercises /\ Tail(due[r]) \in Seq(Exercises)
    BY <1>11, <1>12 DEF LockIfDue
  <2>2. round[x] \in 0..Limit /\ round[x] < Limit
    BY <1>0, <1>12, <2>1 DEF LockIfDue, Due, IInv, Unfinished
  <2>3. OrdersFor(x, round[x] + 1) \in [Factions -> Orders \cup {None}]
    <3>1. round[x] + 1 \in Rounds
      BY <2>2 DEF Rounds
    <3> QED
      BY <1>0, <2>1, <3>1 DEF OrdersFor
  <2> QED
    BY <1>0, <1>12, <2>1, <2>2, <2>3 DEF LockIfDue, Try
<1>13. ASSUME NEW r \in Resolvers, Skip(r) \/ Fail(r) \/ Cut(r) PROVE TypeOK'
  <2>1. CASE Skip(r)
    BY <1>0, <1>11, <2>1 DEF Skip, Try
  <2>2. CASE Fail(r)
    BY <1>0, <2>2 DEF Fail
  <2>3. CASE Cut(r)
    <3>1. <<>> \in Seq(Exercises)
      OBVIOUS
    <3> QED
      BY <1>0, <2>3, <3>1 DEF Cut
  <2> QED
    BY <1>13, <2>1, <2>2, <2>3
<1>14. ASSUME NEW r \in Resolvers, Resolve(r) PROVE TypeOK'
  <2> DEFINE x == held[r].at
             n == held[r].round + 1
  <2>1. /\ held[r] # Idle /\ x \in Exercises /\ held[r].round \in 0..Limit
        /\ held[r].orders \in [Factions -> Orders \cup {None}]
    BY <1>0, <1>14, WorkType DEF Resolve
  <2>2. n \in 0..Limit
    BY <1>0, <2>1 DEF IInv, Unfinished, ReadIsCurrent, Due
  <2>3. PICK over \in BOOLEAN, lost \in BOOLEAN :
          /\ status' = [status EXCEPT ![x] = IF over THEN "concluded" ELSE "running"]
          /\ round' = [round EXCEPT ![x] = n]
          /\ nextAt' = [nextAt EXCEPT ![x] = IF over THEN "none" ELSE "future"]
          /\ history' = [history EXCEPT ![x] = Append(@, held[r].orders)]
          /\ Raise(x, <<Event("resolved", n)>>
                 \o (IF lost THEN <<Event("lost", n)>> ELSE <<>>)
                 \o <<Event("observed", n)>>
                 \o (IF over THEN <<Event("concluded", n)>> ELSE <<>>))
    BY <1>14 DEF Resolve
  <2>4. outbox' \in [Exercises -> Seq(Reported)]
    <3> HIDE DEF n
    <3> DEFINE events == <<Event("resolved", n)>>
                 \o (IF lost THEN <<Event("lost", n)>> ELSE <<>>)
                 \o <<Event("observed", n)>>
                 \o (IF over THEN <<Event("concluded", n)>> ELSE <<>>)
    <3>1. events \in Seq(Reported)
      BY <2>2, EventsType
    <3> HIDE DEF events
    <3>2. \A y \in Exercises : outbox'[y] \in Seq(Reported)
      BY <1>0, <2>1, <2>3, <3>1, RaiseType DEF events
    <3> QED
      BY <1>0, <2>3, <3>2 DEF Raise
  <2>5. history' \in [Exercises -> Seq([Factions -> Orders \cup {None}])]
    BY <1>0, <2>1, <2>3, AppendProperties
  <2> QED
    BY <1>0, <1>14, <2>1, <2>2, <2>3, <2>4, <2>5 DEF Resolve, Statuses, Reported
<1>15. CASE UNCHANGED vars
  BY <1>0, <1>15 DEF vars
<1> QED
  BY <1>1, <1>2, <1>3, <1>4, <1>5, <1>6, <1>7, <1>8, <1>9, <1>10, <1>12, <1>13, <1>14, <1>15
  DEF Next, Command, Record, ResolveDue

-----------------------------------------------------------------------------
(* The sessions and what they read.                                        *)

\* An exercise goes on after a round only below its limit.
LEMMA UnfinishedStep == IInv /\ [Next]_vars => Unfinished'
<1> SUFFICES ASSUME IInv, [Next]_vars PROVE Unfinished'
  OBVIOUS
<1> USE DEF Unfinished, TypeOK
<1>0. TypeOK /\ Unfinished /\ ReadIsCurrent
  BY DEF IInv
<1>1. ASSUME NEW x \in Exercises, Create(x) PROVE Unfinished'
  BY <1>0, <1>1 DEF Create
<1>2. ASSUME NEW u \in Umpires, Start(u) \/ Pause(u) \/ Resume(u) \/ Stop(u) PROVE Unfinished'
  <2>1. /\ umpire[u].at \in Exercises /\ round' = round
        /\ status[umpire[u].at] \in {"created", "running", "paused"}
    BY <1>2, CommandType DEF Start, Pause, Resume, Stop, May
  <2>2. \A y \in Exercises \ {umpire[u].at} : status'[y] = status[y]
    BY <1>0, <1>2, <2>1 DEF Start, Pause, Resume, Stop
  <2> QED
    BY <1>0, <2>1, <2>2
<1>3. ASSUME NEW r \in Resolvers, Resolve(r) PROVE Unfinished'
  <2> DEFINE x == held[r].at
             n == held[r].round + 1
  <2>1. x \in Exercises /\ round[x] < Limit /\ n = round[x] + 1 /\ round[x] \in 0..Limit
    BY <1>0, <1>3, WorkType DEF Resolve, ReadIsCurrent, Due
  <2>2. PICK over \in BOOLEAN :
          /\ n = Limit => over
          /\ status' = [status EXCEPT ![x] = IF over THEN "concluded" ELSE "running"]
          /\ round' = [round EXCEPT ![x] = n]
    BY <1>3 DEF Resolve
  <2>3. status'[x] \in {"absent", "created", "running", "paused"} => round'[x] < Limit
    <3>1. ~over => n < Limit
      BY <2>1, <2>2
    <3>2. round'[x] = n /\ status'[x] = IF over THEN "concluded" ELSE "running"
      BY <1>0, <2>1, <2>2
    <3> QED
      BY <3>1, <3>2
  <2>4. \A y \in Exercises \ {x} : status'[y] = status[y] /\ round'[y] = round[y]
    BY <1>0, <2>1, <2>2
  <2> QED
    BY <1>0, <2>3, <2>4
<1>4. ASSUME UNCHANGED <<status, round>> PROVE Unfinished'
  BY <1>0, <1>4
<1> QED
  BY <1>1, <1>2, <1>3, <1>4
  DEF Next, Command, Record, ResolveDue, Elapse, Lock, RollBack, Share, RecordOrders, RefuseOrders,
      FindDue, LockIfDue, Skip, Fail, Cut, vars, exercise

\* A lock is taken only when nobody holds the row, and a shared one only when
\* nobody holds it alone.
LEMMA AloneStep == IInv /\ [Next]_vars => Alone'
<1> SUFFICES ASSUME IInv, [Next]_vars PROVE Alone'
  OBVIOUS
<1> USE DEF Alone
<1>0. TypeOK /\ Alone
  BY DEF IInv
<1>1. Idle.at = None /\ None \notin Exercises
  BY DEF Idle
<1>2. ASSUME NEW u \in Umpires, NEW x \in Exercises, NEW verb \in Verbs, Lock(u, x, verb) PROVE Alone'
  <2>1. /\ \A v \in Umpires : umpire[v].at # x
        /\ \A r \in Resolvers : held[r].at # x
        /\ \A o \in Members : member[o].at # x
    BY <1>2 DEF Lock, Free, Exclusive, Commanding, Resolving, Sharers
  <2>2. /\ umpire'[u].at = x
        /\ \A v \in Umpires \ {u} : umpire'[v] = umpire[v]
        /\ held' = held /\ member' = member
    BY <1>0, <1>2 DEF Lock, TypeOK
  <2> QED
    BY <1>0, <2>1, <2>2
<1>3. ASSUME NEW u \in Umpires, umpire' = [umpire EXCEPT ![u] = Idle], held' = held, member' = member
      PROVE  Alone'
  BY <1>0, <1>1, <1>3, WorkType DEF TypeOK
<1>4. ASSUME NEW o \in Members, NEW e \in Orders, Share(o, e) PROVE Alone'
  <2> DEFINE x == For[e].exercise
  <2>1. /\ x \in Exercises
        /\ \A v \in Umpires : umpire[v].at # x
        /\ \A r \in Resolvers : held[r].at # x
    BY <1>4 DEF Share, Exclusive, Commanding, Resolving
  <2>2. /\ member'[o].at = x
        /\ \A q \in Members \ {o} : member'[q] = member[q]
        /\ held' = held /\ umpire' = umpire
    BY <1>0, <1>4 DEF Share, TypeOK
  <2> QED
    BY <1>0, <2>1, <2>2
<1>5. ASSUME NEW o \in Members, member' = [member EXCEPT ![o] = Idle], held' = held, umpire' = umpire
      PROVE  Alone'
  BY <1>0, <1>1, <1>5, WorkType DEF TypeOK
<1>6. ASSUME NEW r \in Resolvers, LockIfDue(r) PROVE Alone'
  <2> DEFINE x == Head(due[r])
  <2>1. /\ x \in Exercises
        /\ \A v \in Umpires : umpire[v].at # x
        /\ \A q \in Resolvers : held[q].at # x
        /\ \A o \in Members : member[o].at # x
    BY <1>0, <1>6, HeadTailProperties
    DEF LockIfDue, MayTry, TypeOK, Free, Exclusive, Commanding, Resolving, Sharers
  <2>2. /\ held'[r].at = x
        /\ \A q \in Resolvers \ {r} : held'[q] = held[q]
        /\ umpire' = umpire /\ member' = member
    BY <1>0, <1>6 DEF LockIfDue, TypeOK
  <2> QED
    BY <1>0, <2>1, <2>2
<1>7. ASSUME NEW r \in Resolvers, held' = [held EXCEPT ![r] = Idle], umpire' = umpire, member' = member
      PROVE  Alone'
  BY <1>0, <1>1, <1>7, WorkType DEF TypeOK
<1>8. ASSUME UNCHANGED <<umpire, member, held>> PROVE Alone'
  BY <1>0, <1>8
<1> QED
  BY <1>2, <1>3, <1>4, <1>5, <1>6, <1>7, <1>8
  DEF Next, Command, Record, ResolveDue, Create, Elapse, Start, Pause, Resume, Stop, RollBack, End,
      RecordOrders, RefuseOrders, FindDue, Skip, Resolve, Fail, Cut, vars

\* What a session that goes on has read.
UmpireReads(u) ==
    /\ umpire[u].status = status[umpire[u].at] /\ umpire[u].status # "absent"
    /\ umpire[u].round = round[umpire[u].at]
MemberReads(o) ==
    /\ member[o].status = status[member[o].at] /\ member[o].status # "absent"
    /\ member[o].round = round[member[o].at]
    /\ member[o].at = For[member[o].order].exercise
ResolverReads(r) ==
    /\ Due(held[r].at)
    /\ held[r].round = round[held[r].at]
    /\ held[r].orders = orders[held[r].at][round[held[r].at] + 1]

\* A step that leaves alone what the sessions have read keeps it current for
\* each that goes on.
LEMMA ReadsKept ==
    ASSUME IInv,
           \A u \in Umpires : umpire'[u] # Idle =>
              UmpireReads(u)' \/ (umpire'[u] = umpire[u] /\ status'[umpire[u].at] = status[umpire[u].at]
                                    /\ round'[umpire[u].at] = round[umpire[u].at]),
           \A o \in Members : member'[o] # Idle =>
              MemberReads(o)' \/ (member'[o] = member[o] /\ status'[member[o].at] = status[member[o].at]
                                    /\ round'[member[o].at] = round[member[o].at]),
           \A r \in Resolvers : held'[r] # Idle =>
              ResolverReads(r)' \/ (held'[r] = held[r] /\ status'[held[r].at] = status[held[r].at]
                                      /\ round'[held[r].at] = round[held[r].at]
                                      /\ nextAt'[held[r].at] = nextAt[held[r].at]
                                      /\ orders'[held[r].at] = orders[held[r].at])
    PROVE  ReadIsCurrent'
<1> USE DEF ReadIsCurrent
<1>0. ReadIsCurrent
  BY DEF IInv
<1>1. ASSUME NEW u \in Umpires, umpire'[u] # Idle PROVE UmpireReads(u)'
  BY <1>0, <1>1 DEF UmpireReads
<1>2. ASSUME NEW o \in Members, member'[o] # Idle PROVE MemberReads(o)'
  BY <1>0, <1>2 DEF MemberReads
<1>3. ASSUME NEW r \in Resolvers, held'[r] # Idle PROVE ResolverReads(r)'
  BY <1>0, <1>3 DEF ResolverReads, Due
<1> QED
  BY <1>1, <1>2, <1>3 DEF UmpireReads, MemberReads, ResolverReads

\* A command or a resolution writes the row it has locked, and ends.
LEMMA OwnRowStep ==
    ASSUME IInv, NEW x \in Exercises, orders' = orders, member' = member,
           \A y \in Exercises \ {x} :
              status'[y] = status[y] /\ round'[y] = round[y] /\ nextAt'[y] = nextAt[y],
           \A u \in Umpires : umpire'[u] = Idle \/ (umpire'[u] = umpire[u] /\ umpire[u].at # x),
           \A r \in Resolvers : held'[r] = Idle \/ (held'[r] = held[r] /\ held[r].at # x),
           \A o \in Members : member[o].at # x
    PROVE  ReadIsCurrent'
BY ReadsKept, WorkType DEF IInv

\* What a session read under its lock stays so while it has the lock.
LEMMA ReadStep == IInv /\ [Next]_vars => ReadIsCurrent'
<1> SUFFICES ASSUME IInv, [Next]_vars PROVE ReadIsCurrent'
  OBVIOUS
<1>0. TypeOK /\ Alone /\ ReadIsCurrent
  BY DEF IInv
<1>1. ASSUME NEW x \in Exercises, Create(x) \/ Elapse(x) PROVE ReadIsCurrent'
  <2>1. CASE Create(x)
    <3>1. \A y \in Exercises : status[y] # "absent" => status'[y] = status[y]
      BY <1>0, <2>1 DEF Create, TypeOK
    <3> QED
      BY <1>0, <2>1, <3>1, ReadsKept, WorkType DEF Create, ReadIsCurrent, Due
  <2>2. CASE Elapse(x)
    <3>1. \A y \in Exercises : nextAt[y] = "past" => nextAt'[y] = nextAt[y]
      BY <1>0, <2>2 DEF Elapse, TypeOK
    <3> QED
      BY <1>0, <2>2, <3>1, ReadsKept, WorkType DEF Elapse, ReadIsCurrent, Due
  <2> QED
    BY <1>1, <2>1, <2>2
<1>2. ASSUME NEW u \in Umpires, NEW x \in Exercises, NEW verb \in Verbs, Lock(u, x, verb)
      PROVE  ReadIsCurrent'
  <2>1. UmpireReads(u)' /\ \A v \in Umpires \ {u} : umpire'[v] = umpire[v]
    BY <1>0, <1>2 DEF Lock, TypeOK, UmpireReads, exercise
  <2> QED
    BY <1>2, <2>1, ReadsKept DEF Lock, exercise
<1>3. ASSUME NEW u \in Umpires, Start(u) \/ Pause(u) \/ Resume(u) \/ Stop(u) PROVE ReadIsCurrent'
  <2> DEFINE x == umpire[u].at
  <2>1. umpire[u] # Idle /\ x \in Exercises
    BY <1>3, CommandType DEF Start, Pause, Resume, Stop, May
  <2>2. /\ round' = round /\ orders' = orders /\ member' = member /\ held' = held
        /\ umpire' = [umpire EXCEPT ![u] = Idle]
        /\ \A y \in Exercises \ {x} : status'[y] = status[y] /\ nextAt'[y] = nextAt[y]
    BY <1>0, <1>3, <2>1 DEF Start, Pause, Resume, Stop, End, TypeOK
  <2>3. /\ \A v \in Umpires \ {u} : umpire'[v] = umpire[v] /\ umpire[v].at # x
        /\ umpire'[u] = Idle
    BY <1>0, <2>1, <2>2 DEF Alone, TypeOK
  <2>4. /\ \A r \in Resolvers : held[r] = Idle \/ held[r].at # x
        /\ \A o \in Members : member[o].at # x
    BY <1>0, <2>1, WorkType DEF Alone
  <2> QED
    BY <2>1, <2>2, <2>3, <2>4, OwnRowStep
<1>4. ASSUME NEW u \in Umpires, RollBack(u) PROVE ReadIsCurrent'
  BY <1>0, <1>4, ReadsKept DEF RollBack, End, TypeOK, exercise
<1>5. ASSUME NEW o \in Members, NEW e \in Orders, Share(o, e) PROVE ReadIsCurrent'
  <2>1. MemberReads(o)' /\ \A q \in Members \ {o} : member'[q] = member[q]
    BY <1>0, <1>5 DEF Share, TypeOK, MemberReads, exercise
  <2> QED
    BY <1>5, <2>1, ReadsKept DEF Share, exercise
<1>6. ASSUME NEW o \in Members, RecordOrders(o) PROVE ReadIsCurrent'
  <2> DEFINE x == For[member[o].order].exercise
  <2>1. /\ member[o] # Idle /\ x = member[o].at /\ x \in Exercises
    BY <1>0, <1>6, WorkType DEF RecordOrders, ReadIsCurrent
  <2>2. \A y \in Exercises \ {x} : orders'[y] = orders[y]
    BY <1>0, <1>6, <2>1 DEF RecordOrders, TypeOK
  <2>3. \A r \in Resolvers : held[r] # Idle => held[r].at \in Exercises \ {x}
    BY <1>0, <2>1, WorkType DEF Alone
  <2>4. \A q \in Members : member'[q] # Idle => member'[q] = member[q]
    BY <1>0, <1>6 DEF RecordOrders, TypeOK
  <2> QED
    BY <1>6, <2>2, <2>3, <2>4, ReadsKept DEF RecordOrders, exercise
<1>7. ASSUME NEW o \in Members, RefuseOrders(o) PROVE ReadIsCurrent'
  BY <1>0, <1>7, ReadsKept DEF RefuseOrders, TypeOK, exercise
<1>8. ASSUME NEW r \in Resolvers, LockIfDue(r) PROVE ReadIsCurrent'
  <2>1. ResolverReads(r)' /\ \A q \in Resolvers \ {r} : held'[q] = held[q]
    BY <1>0, <1>8 DEF LockIfDue, TypeOK, ResolverReads, OrdersFor, Due, exercise
  <2> QED
    BY <1>8, <2>1, ReadsKept DEF LockIfDue, exercise
<1>9. ASSUME NEW r \in Resolvers, Resolve(r) PROVE ReadIsCurrent'
  <2> DEFINE x == held[r].at
  <2>1. held[r] # Idle /\ x \in Exercises
    BY <1>0, <1>9, WorkType DEF Resolve
  <2>2. /\ orders' = orders /\ member' = member /\ umpire' = umpire
        /\ held' = [held EXCEPT ![r] = Idle]
        /\ \A y \in Exercises \ {x} :
              status'[y] = status[y] /\ round'[y] = round[y] /\ nextAt'[y] = nextAt[y]
    BY <1>0, <1>9, <2>1 DEF Resolve, TypeOK
  <2>3. /\ \A q \in Resolvers \ {r} : held'[q] = held[q] /\ held[q].at # x
        /\ held'[r] = Idle
    BY <1>0, <2>1, <2>2 DEF Alone, TypeOK
  <2>4. /\ \A u \in Umpires : umpire[u].at # x
        /\ \A o \in Members : member[o].at # x
    BY <1>0, <2>1, WorkType DEF Alone
  <2> QED
    BY <2>1, <2>2, <2>3, <2>4, OwnRowStep
<1>10. ASSUME NEW r \in Resolvers, Fail(r) PROVE ReadIsCurrent'
  BY <1>0, <1>10, ReadsKept DEF Fail, TypeOK, exercise
<1>11. ASSUME UNCHANGED <<exercise, orders, umpire, member, held>> PROVE ReadIsCurrent'
  BY <1>11, ReadsKept DEF exercise
<1> QED
  BY <1>1, <1>2, <1>3, <1>4, <1>5, <1>6, <1>7, <1>8, <1>9, <1>10, <1>11
  DEF Next, Command, Record, ResolveDue, FindDue, Skip, Cut, vars

-----------------------------------------------------------------------------
(* Orders and rounds.                                                      *)

\* An order is put only in a round still to come, and a round is applied with
\* the orders that stand.
LEMMA RecordedStep == IInv /\ [Next]_vars => RecordedIsApplied'
<1> SUFFICES ASSUME IInv, [Next]_vars PROVE RecordedIsApplied'
  OBVIOUS
<1>0. TypeOK /\ ReadIsCurrent /\ RecordedIsApplied /\ TypeOK'
  BY TypeStep DEF IInv
<1> DEFINE Applied ==
      \A x \in Exercises : /\ Len(history[x]) = round[x]
                           /\ \A n \in 1..Len(history[x]) : history[x][n] = orders[x][n]
<1>1. ASSUME NEW o \in Members, RecordOrders(o) PROVE Applied'
  <2> DEFINE e == member[o].order
             x == For[e].exercise
  <2>1. /\ e \in Orders /\ x \in Exercises /\ member[o].round = round[x] /\ round[x] \in 0..Limit
        /\ For[e].round \in Nat /\ For[e].faction \in Factions
    <3>1. member[o] # Idle /\ e \in Orders
      BY <1>0, <1>1, WorkType DEF RecordOrders
    <3>2. x = member[o].at /\ member[o].round = round[member[o].at]
      BY <1>0, <3>1 DEF ReadIsCurrent
    <3>3. x \in Exercises /\ For[e].round \in Nat /\ For[e].faction \in Factions
      BY <3>1
    <3> QED
      BY <1>0, <3>1, <3>2, <3>3 DEF TypeOK
  <2>2. ASSUME NEW y \in Exercises, NEW n \in 1..round[y] PROVE orders'[y][n] = orders[y][n]
    <3>1. CASE orders' = orders
      BY <3>1
    <3>2. CASE /\ ~Late(o) /\ ~Invalid(o)
               /\ orders' = [orders EXCEPT ![x][For[e].round][For[e].faction] = e]
      <4>1. y = x => n # For[e].round
        <5>1. ~(For[e].round <= round[x])
          BY <2>1, <3>2 DEF Late
        <5> HIDE DEF e, x
        <5> QED
          BY <2>1, <2>2, <5>1
      <4>2. n \in Rounds
        BY <1>0 DEF TypeOK, Rounds
      <4> QED
        BY <1>0, <2>1, <3>2, <4>1, <4>2 DEF TypeOK
    <3> QED
      BY <1>1, <3>1, <3>2 DEF RecordOrders
  <2> QED
    <3>1. history' = history /\ round' = round
      BY <1>1 DEF RecordOrders, exercise
    <3>2. Applied
      BY <1>0 DEF RecordedIsApplied
    <3> QED
      BY <2>2, <3>1, <3>2
<1>2. ASSUME NEW r \in Resolvers, Resolve(r) PROVE Applied'
  <2> DEFINE x == held[r].at
  <2>1. /\ x \in Exercises /\ held[r].round = round[x] /\ round[x] \in 0..Limit
        /\ held[r].orders = orders[x][round[x] + 1]
        /\ held[r].orders \in [Factions -> Orders \cup {None}]
    BY <1>0, <1>2, WorkType DEF Resolve, ReadIsCurrent
  <2>2. /\ history' = [history EXCEPT ![x] = Append(@, held[r].orders)]
        /\ round' = [round EXCEPT ![x] = held[r].round + 1]
        /\ orders' = orders
    BY <1>2 DEF Resolve
  <2>3. /\ history[x] \in Seq([Factions -> Orders \cup {None}]) /\ Len(history[x]) = round[x]
        /\ \A n \in 1..round[x] : history[x][n] = orders[x][n]
    BY <1>0, <2>1 DEF TypeOK, RecordedIsApplied
  <2>4. /\ history'[x] = Append(history[x], held[r].orders) /\ round'[x] = round[x] + 1
        /\ \A y \in Exercises \ {x} : history'[y] = history[y] /\ round'[y] = round[y]
    BY <1>0, <2>1, <2>2 DEF TypeOK
  <2>5. /\ Len(history'[x]) = round'[x]
        /\ \A n \in 1..round'[x] : history'[x][n] = orders'[x][n]
    <3> DEFINE S == [Factions -> Orders \cup {None}]
    <3>1. history[x] \in Seq(S) /\ held[r].orders \in S
      BY <2>1, <2>3
    <3> HIDE DEF S, x
    <3>2. /\ Len(history'[x]) = Len(history[x]) + 1
          /\ \A n \in 1..Len(history[x]) : history'[x][n] = history[x][n]
          /\ history'[x][Len(history[x]) + 1] = held[r].orders
      BY <2>4, <3>1, AppendProperties
    <3> QED
      BY <2>1, <2>2, <2>3, <2>4, <3>2
  <2> QED
    BY <1>0, <2>2, <2>4, <2>5 DEF RecordedIsApplied
<1>3. ASSUME UNCHANGED <<round, history, orders>> PROVE Applied'
  BY <1>0, <1>3 DEF RecordedIsApplied
<1> HIDE DEF Applied
<1> DEFINE same == UNCHANGED <<round, history, orders>>
<1>4. ASSUME NEW x \in Exercises, Create(x) \/ Elapse(x) PROVE same
  BY <1>4 DEF Create, Elapse
<1>5. ASSUME NEW u \in Umpires, Command(u) PROVE same
  BY <1>5 DEF Command, Lock, Start, Pause, Resume, Stop, RollBack, End, exercise
<1>6. ASSUME NEW o \in Members, Record(o), ~RecordOrders(o) PROVE same
  BY <1>6 DEF Record, Share, RefuseOrders, exercise
<1>7. ASSUME NEW r \in Resolvers, ResolveDue(r), ~Resolve(r) PROVE same
  BY <1>7 DEF ResolveDue, FindDue, LockIfDue, Skip, Fail, Cut, exercise
<1>8. UNCHANGED vars => same
  BY DEF vars, exercise
<1>9. Applied'
  BY <1>1, <1>2, <1>3, <1>4, <1>5, <1>6, <1>7, <1>8 DEF Next
<1> QED
  BY <1>0, <1>9 DEF Applied, RecordedIsApplied

LEMMA InitIInv == Init => IInv
<1> SUFFICES ASSUME Init PROVE IInv
  OBVIOUS
<1> USE DEF Init
<1>1. TypeOK
  <2>1. <<>> \in Seq(Exercises) /\ <<>> \in Seq([Factions -> Orders \cup {None}])
        /\ <<>> \in Seq([kind : Kinds, round : 0..Limit])
    OBVIOUS
  <2> QED
    BY <2>1 DEF TypeOK, Statuses
<1>2. Unfinished
  BY DEF Unfinished
<1>3. Alone /\ ReadIsCurrent
  BY DEF Alone, ReadIsCurrent
<1>4. RecordedIsApplied
  <2>1. Len(<<>>) = 0
    OBVIOUS
  <2> QED
    BY <1>1, <2>1 DEF RecordedIsApplied
<1> QED
  BY <1>1, <1>2, <1>3, <1>4 DEF IInv

LEMMA IInvStep == IInv /\ [Next]_vars => IInv'
BY TypeStep, UnfinishedStep, AloneStep, ReadStep, RecordedStep DEF IInv

-----------------------------------------------------------------------------
(* The theorems.                                                           *)

\* The inductive invariant holds: types, exclusive locks, reads that stay true
\* under them (repository's locking statements), rounds below the limit.
THEOREM Inductive == Spec => []IInv
<1> QED
  BY InitIInv, IInvStep, PTL DEF Spec

\* No order that was recorded is passed over by its round's resolution, for any
\* number of umpires, recording members and resolving replicas (RecordOrders,
\* ResolveDue).
THEOREM RecordedOrdersApply == Spec => []RecordedIsApplied
<1>1. IInv => RecordedIsApplied
  BY DEF IInv
<1> QED
  BY <1>1, Inductive, PTL

\* Only Resolve adds a round, and what it resolves is still due.
LEMMA RoundStep == IInv /\ [Next]_vars => \A x \in Exercises : round'[x] # round[x] => Due(x)
<1> SUFFICES ASSUME IInv, [Next]_vars PROVE \A x \in Exercises : round'[x] # round[x] => Due(x)
  OBVIOUS
<1>1. ASSUME NEW r \in Resolvers, Resolve(r) PROVE \A x \in Exercises : round'[x] # round[x] => Due(x)
  <2>1. Due(held[r].at) /\ \A x \in Exercises : x # held[r].at => round'[x] = round[x]
    BY <1>1 DEF IInv, ReadIsCurrent, Resolve, TypeOK
  <2> QED
    BY <2>1
<1> QED
  BY <1>1
  DEF Next, Command, Record, ResolveDue, Create, Elapse, Lock, Start, Pause, Resume, Stop, RollBack,
      Share, RecordOrders, RefuseOrders, FindDue, LockIfDue, Skip, Fail, Cut, vars, exercise

\* A round is resolved only while it is due, however many replicas' passes
\* found it due before (LockDue asks again under the lock).
THEOREM RoundsOnlyWhenDue == Spec => RoundsAreDue
<1>1. IInv /\ [Next]_vars => [\A x \in Exercises : round'[x] # round[x] => Due(x)]_vars
  BY RoundStep
<1> QED
  BY <1>1, Inductive, PTL DEF Spec, RoundsAreDue

-----------------------------------------------------------------------------
(* What is reported.                                                       *)

\* The events es tell an exercise from its start to e.
Tells(es, e) ==
    /\ es \in Seq(Reported) /\ Len(es) > 0
    /\ es[1] = Event("started", 0) /\ es[Len(es)] = e
    /\ \A i \in 2..Len(es) : Follows(es[i - 1], es[i])

Standing(x) ==
    \/ outbox[x] = <<>> /\ round[x] = 0 /\ status[x] \in {"absent", "created", "stopped"}
    \/ Tells(outbox[x], Event("observed", round[x])) /\ status[x] \in {"running", "paused"}
    \/ Tells(outbox[x], Event("concluded", round[x])) /\ Ended(x)

LEMMA ReportsStand == TypeOK => (ReportedInOrder <=> \A x \in Exercises : Standing(x))
<1> SUFFICES ASSUME TypeOK, NEW x \in Exercises
             PROVE  LET es == outbox[x]
                    IN  Standing(x) <=>
                          /\ es # <<>> => Head(es) = Event("started", 0)
                          /\ \A i \in 2..Len(es) : Follows(es[i - 1], es[i])
                          /\ \/ es = <<>> /\ round[x] = 0 /\ status[x] \in {"absent", "created", "stopped"}
                             \/ es # <<>> /\ Last(es) = Event("observed", round[x]) /\ status[x] \in {"running", "paused"}
                             \/ es # <<>> /\ Last(es) = Event("concluded", round[x]) /\ Ended(x)
  BY DEF ReportedInOrder
<1> DEFINE es == outbox[x]
<1>1. es \in Seq(Reported)
  BY DEF TypeOK, Reported
<1> HIDE DEF es
<1>2. CASE es = <<>>
  BY <1>2 DEF Standing, Tells, es
<1>3. CASE es # <<>>
  <2>1. Len(es) > 0 /\ Head(es) = es[1] /\ Last(es) = es[Len(es)]
    BY <1>1, <1>3 DEF Last
  <2> QED
    BY <1>1, <1>3, <2>1 DEF Standing, Tells, es
<1> QED
  BY <1>2, <1>3

\* One more event tells on, if it may come after the last.
LEMMA TellsOn ==
    ASSUME NEW es, NEW d, NEW e \in Reported, Tells(es, d), Follows(d, e)
    PROVE  Tells(es \o <<e>>, e)
<1> DEFINE s == es \o <<e>>
<1>1. es \in Seq(Reported) /\ <<e>> \in Seq(Reported) /\ Len(<<e>>) = 1 /\ <<e>>[1] = e
  BY DEF Tells
<1>2. /\ s \in Seq(Reported) /\ Len(s) = Len(es) + 1 /\ Len(es) \in Nat
      /\ \A i \in 1..Len(es) : s[i] = es[i]
      /\ s[Len(es) + 1] = e
  BY <1>1, ConcatProperties
<1> HIDE DEF s
<1>3. ASSUME NEW i \in 2..Len(s) PROVE Follows(s[i - 1], s[i])
  <2>1. CASE i \in 2..Len(es)
    BY <1>2, <2>1 DEF Tells
  <2>2. CASE i = Len(es) + 1
    BY <1>2, <2>2 DEF Tells
  <2> QED
    BY <1>2, <2>1, <2>2
<1>4. Tells(s, e)
  BY <1>2, <1>3 DEF Tells
<1> QED
  BY <1>4 DEF s

\* What a start tells.
LEMMA StartTells ==
    ASSUME NEW over \in BOOLEAN
    PROVE  LET es == <<>> \o (<<Event("started", 0), Event("observed", 0)>>
                                \o (IF over THEN <<Event("concluded", 0)>> ELSE <<>>))
           IN  Tells(es, IF over THEN Event("concluded", 0) ELSE Event("observed", 0))
<1> DEFINE two == <<Event("started", 0), Event("observed", 0)>>
           last == IF over THEN <<Event("concluded", 0)>> ELSE <<>>
<1>1. /\ Event("started", 0) \in Reported /\ Event("observed", 0) \in Reported
      /\ Event("concluded", 0) \in Reported
  BY DEF Event, Reported, Kinds
<1>2. Follows(Event("started", 0), Event("observed", 0)) /\ Follows(Event("observed", 0), Event("concluded", 0))
  BY DEF Follows, Event
<1>3. Tells(two, Event("observed", 0))
  <2>1. two \in Seq(Reported) /\ Len(two) = 2 /\ two[1] = Event("started", 0) /\ two[2] = Event("observed", 0)
    BY <1>1
  <2> HIDE DEF two
  <2> QED
    BY <1>2, <2>1 DEF Tells
<1>4. two \in Seq(Reported) /\ last \in Seq(Reported)
  BY <1>1
<1>5. <<>> \o (two \o last) = two \o last
  BY <1>4, ConcatProperties, ConcatEmptySeq
<1>6. CASE over
  BY <1>1, <1>2, <1>3, <1>5, <1>6, TellsOn
<1>7. CASE ~over
  BY <1>3, <1>4, <1>5, <1>7, ConcatEmptySeq
<1> QED
  BY <1>6, <1>7

\* What a round tells, after the round before.
LEMMA RoundTells ==
    ASSUME NEW es, NEW n \in 1..Limit, NEW over \in BOOLEAN, NEW lost \in BOOLEAN,
           Tells(es, Event("observed", n - 1))
    PROVE  Tells(es \o (<<Event("resolved", n)>>
                          \o (IF lost THEN <<Event("lost", n)>> ELSE <<>>)
                          \o <<Event("observed", n)>>
                          \o (IF over THEN <<Event("concluded", n)>> ELSE <<>>)),
                 IF over THEN Event("concluded", n) ELSE Event("observed", n))
<1> DEFINE a == <<Event("resolved", n)>>
           b == IF lost THEN <<Event("lost", n)>> ELSE <<>>
           c == <<Event("observed", n)>>
           d == IF over THEN <<Event("concluded", n)>> ELSE <<>>
<1>1. /\ Event("resolved", n) \in Reported /\ Event("lost", n) \in Reported
      /\ Event("observed", n) \in Reported /\ Event("concluded", n) \in Reported
  BY DEF Event, Reported, Kinds
<1>2. /\ Follows(Event("observed", n - 1), Event("resolved", n))
      /\ Follows(Event("resolved", n), Event("lost", n))
      /\ Follows(Event("resolved", n), Event("observed", n))
      /\ Follows(Event("lost", n), Event("observed", n))
      /\ Follows(Event("observed", n), Event("concluded", n))
  BY DEF Follows, Event
<1>3. /\ es \in Seq(Reported) /\ a \in Seq(Reported) /\ b \in Seq(Reported)
      /\ c \in Seq(Reported) /\ d \in Seq(Reported)
  BY <1>1 DEF Tells
<1>4. Tells(es \o a, Event("resolved", n))
  BY <1>1, <1>2, TellsOn
<1>5. Tells((es \o a) \o b, IF lost THEN Event("lost", n) ELSE Event("resolved", n))
  <2>1. CASE lost
    BY <1>1, <1>2, <1>4, <2>1, TellsOn
  <2>2. CASE ~lost
    <3>1. es \o a \in Seq(Reported)
      BY <1>3, ConcatProperties
    <3> QED
      BY <1>4, <2>2, <3>1, ConcatEmptySeq
  <2> QED
    BY <2>1, <2>2
<1>6. Tells(((es \o a) \o b) \o c, Event("observed", n))
  BY <1>1, <1>2, <1>5, TellsOn
<1>7. Tells((((es \o a) \o b) \o c) \o d, IF over THEN Event("concluded", n) ELSE Event("observed", n))
  <2>1. CASE over
    BY <1>1, <1>2, <1>6, <2>1, TellsOn
  <2>2. CASE ~over
    <3>1. ((es \o a) \o b) \o c \in Seq(Reported)
      BY <1>6 DEF Tells
    <3> QED
      BY <1>6, <2>2, <3>1, ConcatEmptySeq
  <2> QED
    BY <2>1, <2>2
<1>8. (((es \o a) \o b) \o c) \o d = es \o (((a \o b) \o c) \o d)
  <2> DEFINE Join(s, t) == s \o t
  <2>1. \A s \in Seq(Reported), t \in Seq(Reported) : Join(s, t) \in Seq(Reported)
    BY ConcatProperties
  <2>2. ASSUME NEW s \in Seq(Reported), NEW t \in Seq(Reported), NEW u \in Seq(Reported)
        PROVE  Join(Join(s, t), u) = Join(s, Join(t, u))
    <3>1. PICK l \in Seq(Reported) : l = Join(Join(s, t), u)
      BY ConcatProperties
    <3>2. PICK r \in Seq(Reported) : r = Join(s, Join(t, u))
      BY ConcatProperties
    <3>3. Len(l) = Len(r)
      BY <3>1, <3>2, ConcatProperties
    <3>4. \A i \in 1..Len(l) : l[i] = r[i]
      BY <3>1, <3>2, ConcatProperties
    <3> QED
      BY <3>1, <3>2, <3>3, <3>4, SeqEqual
  <2>3. Join(Join(Join(Join(es, a), b), c), d) = Join(es, Join(Join(Join(a, b), c), d))
    <3> HIDE DEF Join, a, b, c, d
    <3>1. Join(a, b) \in Seq(Reported) /\ Join(Join(a, b), c) \in Seq(Reported)
      BY <1>3, <2>1
    <3>2. Join(Join(es, a), b) = Join(es, Join(a, b))
      BY <1>3, <2>2
    <3>3. Join(Join(es, Join(a, b)), c) = Join(es, Join(Join(a, b), c))
      BY <1>3, <2>2, <3>1
    <3>4. Join(Join(es, Join(Join(a, b), c)), d) = Join(es, Join(Join(Join(a, b), c), d))
      BY <1>3, <2>2, <3>1
    <3> QED
      BY <3>2, <3>3, <3>4
  <2> QED
    BY <2>3
<1> QED
  BY <1>7, <1>8

\* A row that a step leaves alone still stands.
LEMMA StandsOn ==
    ASSUME NEW x \in Exercises, Standing(x),
           outbox'[x] = outbox[x], round'[x] = round[x],
           \/ status'[x] = status[x]
           \/ status[x] \in {"running", "paused"} /\ status'[x] \in {"running", "paused"}
           \/ status[x] \in {"absent", "created"} /\ status'[x] \in {"absent", "created"}
    PROVE  Standing(x)'
BY DEF Standing, Ended

\* Each command's and each round's events follow on those before them.
LEMMA StandingStep ==
    IInv /\ (\A x \in Exercises : Standing(x)) /\ [Next]_vars => \A x \in Exercises : Standing(x)'
<1> SUFFICES ASSUME IInv, \A x \in Exercises : Standing(x), [Next]_vars
             PROVE  \A x \in Exercises : Standing(x)'
  OBVIOUS
<1>0. TypeOK /\ ReadIsCurrent
  BY DEF IInv
<1> DEFINE Stands == \A x \in Exercises : Standing(x)'
<1>1. ASSUME NEW u \in Umpires, Start(u) PROVE Stands
  <2>1. PICK x \in Exercises : x = umpire[u].at /\ status[x] = "created"
    BY <1>1, CommandType DEF Start, May
  <2>2. outbox[x] = <<>> /\ round[x] = 0
    BY <2>1 DEF Standing, Ended
  <2>3. PICK over \in BOOLEAN :
          /\ status' = [status EXCEPT ![x] = IF over THEN "concluded" ELSE "running"]
          /\ outbox' = [outbox EXCEPT ![x] = @ \o (<<Event("started", 0), Event("observed", 0)>>
                           \o (IF over THEN <<Event("concluded", 0)>> ELSE <<>>))]
    BY <1>1, <2>1 DEF Start, Raise
  <2>4. round' = round
    BY <1>1 DEF Start
  <2>5. Standing(x)'
    <3>1. Tells(outbox'[x], IF over THEN Event("concluded", 0) ELSE Event("observed", 0))
      BY <1>0, <2>1, <2>2, <2>3, StartTells DEF TypeOK
    <3> QED
      BY <1>0, <2>1, <2>2, <2>3, <2>4, <3>1 DEF Standing, Ended, TypeOK
  <2> QED
    BY <1>0, <2>1, <2>3, <2>4, <2>5, StandsOn DEF TypeOK
<1>2. ASSUME NEW u \in Umpires, Stop(u) PROVE Stands
  <2>0. umpire[u] # Idle /\ umpire[u].at \in Exercises /\ round[umpire[u].at] \in 0..Limit
    BY <1>0, <1>2, CommandType DEF Stop, May, TypeOK
  <2>1. PICK x \in Exercises, n \in 0..Limit :
          /\ x = umpire[u].at /\ n = round[x] /\ umpire[u].round = n
          /\ status[x] \in {"created", "running", "paused"} /\ umpire[u].status = status[x]
    BY <1>0, <1>2, <2>0 DEF Stop, May, ReadIsCurrent
  <2>2. /\ status' = [status EXCEPT ![x] = "stopped"] /\ round' = round
        /\ outbox' = [outbox EXCEPT ![x] = @ \o (IF status[x] = "created"
                                                  THEN <<>> ELSE <<Event("concluded", n)>>)]
    BY <1>2, <2>1 DEF Stop, Raise
  <2>3. Standing(x)'
    <3>1. CASE status[x] = "created"
      <4>1. outbox[x] = <<>> /\ n = 0
        BY <2>1, <3>1 DEF Standing, Ended
      <4>2. outbox'[x] = <<>> \o <<>>
        BY <1>0, <2>1, <2>2, <3>1, <4>1 DEF TypeOK
      <4>3. outbox'[x] = <<>>
        BY <4>2
      <4> QED
        BY <1>0, <2>1, <2>2, <4>1, <4>3 DEF Standing, TypeOK
    <3>2. CASE status[x] # "created"
      <4>1. Tells(outbox[x], Event("observed", n))
        BY <2>1, <3>2 DEF Standing, Ended
      <4>2. Event("concluded", n) \in Reported /\ Follows(Event("observed", n), Event("concluded", n))
        BY <2>1 DEF Event, Reported, Kinds, Follows
      <4>3. Tells(outbox[x] \o <<Event("concluded", n)>>, Event("concluded", n))
        BY <4>1, <4>2, TellsOn
      <4>4. outbox'[x] = outbox[x] \o <<Event("concluded", n)>> /\ status'[x] = "stopped" /\ round'[x] = n
        BY <1>0, <2>1, <2>2, <3>2 DEF TypeOK
      <4> QED
        BY <4>3, <4>4 DEF Standing, Ended
    <3> QED
      BY <3>1, <3>2
  <2> QED
    BY <1>0, <2>1, <2>2, <2>3, StandsOn DEF TypeOK
<1>3. ASSUME NEW r \in Resolvers, Resolve(r) PROVE Stands
  <2>1. PICK x \in Exercises : x = held[r].at /\ status[x] = "running" /\ held[r].round = round[x]
    BY <1>0, <1>3, WorkType DEF Resolve, ReadIsCurrent, Due
  <2>2. PICK n \in 1..Limit : n = round[x] + 1
    BY <1>0, <2>1 DEF IInv, Unfinished, TypeOK
  <2>3. PICK over \in BOOLEAN, lost \in BOOLEAN :
          /\ status' = [status EXCEPT ![x] = IF over THEN "concluded" ELSE "running"]
          /\ round' = [round EXCEPT ![x] = n]
          /\ outbox' = [outbox EXCEPT ![x] = @ \o (<<Event("resolved", n)>>
                    \o (IF lost THEN <<Event("lost", n)>> ELSE <<>>)
                    \o <<Event("observed", n)>>
                    \o (IF over THEN <<Event("concluded", n)>> ELSE <<>>))]
    BY <1>3, <2>1, <2>2 DEF Resolve, Raise
  <2>4. Tells(outbox[x], Event("observed", n - 1))
    <3>1. n - 1 = round[x]
      BY <1>0, <2>1, <2>2 DEF TypeOK
    <3> QED
      BY <2>1, <3>1 DEF Standing, Ended
  <2>5. Standing(x)'
    <3>1. Tells(outbox'[x], IF over THEN Event("concluded", n) ELSE Event("observed", n))
      BY <1>0, <2>1, <2>2, <2>3, <2>4, RoundTells DEF TypeOK
    <3> QED
      BY <1>0, <2>1, <2>3, <3>1 DEF Standing, Ended, TypeOK
  <2> QED
    BY <1>0, <2>1, <2>3, <2>5, StandsOn DEF TypeOK
<1>4. ASSUME NEW u \in Umpires, Pause(u) \/ Resume(u) PROVE Stands
  <2>1. umpire[u].at \in Exercises /\ status[umpire[u].at] \in {"running", "paused"}
    BY <1>4, CommandType DEF Pause, Resume, May
  <2>2. /\ outbox' = outbox /\ round' = round
        /\ \A y \in Exercises : status'[y] = status[y] \/
              (y = umpire[u].at /\ status'[y] \in {"running", "paused"})
    BY <1>0, <1>4, <2>1 DEF Pause, Resume, TypeOK
  <2> QED
    BY <2>1, <2>2, StandsOn
<1>5. ASSUME NEW x \in Exercises, Create(x) PROVE Stands
  <2>1. /\ outbox' = outbox /\ round' = round /\ status[x] = "absent" /\ status'[x] = "created"
        /\ \A y \in Exercises \ {x} : status'[y] = status[y]
    BY <1>0, <1>5 DEF Create, TypeOK
  <2> QED
    BY <2>1, StandsOn
<1>6. ASSUME UNCHANGED <<status, round, outbox>> PROVE Stands
  BY <1>6, StandsOn
<1> HIDE DEF Stands
<1>7. Stands
  BY <1>1, <1>2, <1>3, <1>4, <1>5, <1>6
  DEF Next, Command, Record, ResolveDue, Elapse, Lock, RollBack, Share, RecordOrders, RefuseOrders,
      FindDue, LockIfDue, Skip, Fail, Cut, vars, exercise
<1> QED
  BY <1>7 DEF Stands

\* The events of an exercise tell its rounds in order and its end once, as its
\* commands and its resolutions commit, whoever runs them (Emit, raise).
THEOREM ReportsAreInOrder == Spec => []ReportedInOrder
<1> DEFINE Stands == \A x \in Exercises : Standing(x)
<1>1. Init => Stands
  BY DEF Init, Standing
<1>2. IInv /\ Stands /\ [Next]_vars => Stands'
  BY StandingStep
<1>3. IInv /\ Stands => ReportedInOrder
  BY ReportsStand DEF IInv
<1> QED
  BY <1>1, <1>2, <1>3, Inductive, PTL DEF Spec

=============================================================================
