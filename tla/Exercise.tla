------------------------------ MODULE Exercise ------------------------------
(***************************************************************************)
(* The exercise domain: umpires' commands, the orders that operations      *)
(* issues and the resolvers of several replicas, each command one          *)
(* transaction that locks the exercise's row first and emits its events    *)
(* last. What a session reads under its lock it decides and writes by.     *)
(***************************************************************************)
EXTENDS Naturals, Sequences, FiniteSets, SequencesExt

CONSTANTS
    Exercises, Factions,
    Umpires,      \* the sessions that run status commands
    Members,      \* the sessions that record orders
    Resolvers,    \* the replicas' resolve reactors
    Orders,       \* the orders events that are delivered
    For,          \* order -> [exercise, faction, round]
    Limit,        \* the exercises' round limit
    Healthy       \* the exercises whose resolution does not fail forever

ASSUME ExercisesAssumption == IsFiniteSet(Exercises)
ASSUME LimitAssumption == Limit \in Nat \ {0}
ASSUME OrdersAssumption == For \in [Orders -> [exercise : Exercises, faction : Factions, round : Nat]]
ASSUME HealthyAssumption == Healthy \subseteq Exercises

None == "none"
ASSUME NoneAssumption == None \notin Orders \cup Exercises

Rounds == 1..Limit
Statuses == {"absent", "created", "running", "paused", "concluded", "stopped"}
Verbs == {"start", "pause", "resume", "stop"}

VARIABLES
    status,    \* exercise -> its status, "absent" before it is created
    round,     \* exercise -> the last round resolved
    nextAt,    \* exercise -> next_round_at: "none", "future", "past"
    orders,    \* exercise -> round -> faction -> the order recorded, or None
    history,   \* exercise -> its rounds after 0: the orders each was resolved under
    outbox,    \* exercise -> the events raised about it, in seq order
    claimed,   \* the orders whose inbox claim is committed
    umpire,    \* umpire -> the command it runs, with what it read
    member,    \* member -> the order it records, with the round and status it read
    due,       \* resolver -> the exercises it found due and has yet to try
    held       \* resolver -> the exercise it resolves, with what it read

exercise == <<status, round, nextAt, history, outbox>>
vars == <<exercise, orders, claimed, umpire, member, due, held>>

Idle == [at |-> None]

-----------------------------------------------------------------------------
(* Row locks: a lock lasts from the read to the end of the transaction.    *)

Commanding(x) == {u \in Umpires : umpire[u].at = x}
Resolving(x) == {r \in Resolvers : held[r].at = x}

\* Mistake: orders read the exercise without a lock.
NoSharers(x) == {}

Sharers(x) == {o \in Members : member[o].at = x}

Exclusive(x) == Commanding(x) # {} \/ Resolving(x) # {}
Free(x) == ~Exclusive(x) /\ Sharers(x) = {}

Init ==
    /\ status = [x \in Exercises |-> "absent"]
    /\ round = [x \in Exercises |-> 0]
    /\ nextAt = [x \in Exercises |-> "none"]
    /\ orders = [x \in Exercises |-> [n \in Rounds |-> [f \in Factions |-> None]]]
    /\ history = [x \in Exercises |-> <<>>]
    /\ outbox = [x \in Exercises |-> <<>>]
    /\ claimed = {}
    /\ umpire = [u \in Umpires |-> Idle]
    /\ member = [o \in Members |-> Idle]
    /\ due = [r \in Resolvers |-> <<>>]
    /\ held = [r \in Resolvers |-> Idle]

Kinds == {"started", "observed", "resolved", "lost", "concluded"}
Event(kind, n) == [kind |-> kind, round |-> n]
Raise(x, events) == outbox' = [outbox EXCEPT ![x] = @ \o events]

-----------------------------------------------------------------------------
(* The umpire's commands.                                                  *)

Create(x) ==
    /\ status[x] = "absent"
    /\ status' = [status EXCEPT ![x] = "created"]
    /\ UNCHANGED <<round, nextAt, history, outbox, orders, claimed, umpire, member, due, held>>

\* Mistake: a command reads the exercise without waiting for its lock.
ReadUnlocked(u, x, verb) ==
    /\ umpire[u] = Idle
    /\ status[x] # "absent"
    /\ umpire' = [umpire EXCEPT ![u] = 
         [at |-> x, verb |-> verb, status |-> status[x], round |-> round[x]]]
    /\ UNCHANGED <<exercise, orders, claimed, member, due, held>>

\* A command locks the row, waiting for whoever holds it, and reads it.
Lock(u, x, verb) ==
    /\ umpire[u] = Idle
    /\ status[x] # "absent"
    /\ Free(x)
    /\ umpire' = [umpire EXCEPT ![u] = 
         [at |-> x, verb |-> verb, status |-> status[x], round |-> round[x]]]
    /\ UNCHANGED <<exercise, orders, claimed, member, due, held>>

\* The command ends: a conflict, a failure, or, after its writes, the commit.
End(u) ==
    /\ umpire' = [umpire EXCEPT ![u] = Idle]
    /\ UNCHANGED <<orders, claimed, member, due, held>>

\* u's command is verb, which the status it read allows and the row still has.
May(u, verb, from) ==
    /\ umpire[u] # Idle
    /\ umpire[u].verb = verb
    /\ umpire[u].status \in from
    /\ status[umpire[u].at] = umpire[u].status

\* The first round is due one interval on, unless round 0's verdict is over.
Start(u) ==
    /\ May(u, "start", {"created"})
    /\ LET x == umpire[u].at
       IN  \E over \in BOOLEAN :
             /\ status' = [status EXCEPT ![x] = IF over THEN "concluded" ELSE "running"]
             /\ nextAt' = [nextAt EXCEPT ![x] = IF over THEN "none" ELSE "future"]
             /\ Raise(x, <<Event("started", 0), Event("observed", 0)>>
                           \o (IF over THEN <<Event("concluded", 0)>> ELSE <<>>))
    /\ UNCHANGED <<round, history>>
    /\ End(u)

Pause(u) ==
    /\ May(u, "pause", {"running"})
    /\ status' = [status EXCEPT ![umpire[u].at] = "paused"]
    /\ nextAt' = [nextAt EXCEPT ![umpire[u].at] = "none"]
    /\ UNCHANGED <<round, history, outbox>>
    /\ End(u)

Resume(u) ==
    /\ May(u, "resume", {"paused"})
    /\ status' = [status EXCEPT ![umpire[u].at] = "running"]
    /\ nextAt' = [nextAt EXCEPT ![umpire[u].at] = "future"]
    /\ UNCHANGED <<round, history, outbox>>
    /\ End(u)

\* Only an exercise that had started is announced as concluded.
Stop(u) ==
    /\ May(u, "stop", {"created", "running", "paused"})
    /\ LET x == umpire[u].at
       IN  /\ status' = [status EXCEPT ![x] = "stopped"]
           /\ nextAt' = [nextAt EXCEPT ![x] = "none"]
           /\ Raise(x, IF umpire[u].status = "created"
                         THEN <<>> ELSE <<Event("concluded", umpire[u].round)>>)
    /\ UNCHANGED <<round, history>>
    /\ End(u)

\* The status does not allow the command, or the transaction fails.
RollBack(u) ==
    /\ umpire[u] # Idle
    /\ UNCHANGED exercise
    /\ End(u)

-----------------------------------------------------------------------------
(* RecordOrders: claim the event, share the row, then put, skip or refuse. *)

\* A redelivery waits on the claim of the delivery before it.
Share(o, e) ==
    /\ member[o] = Idle
    /\ e \notin claimed
    /\ \A p \in Members : member[p] # Idle => member[p].order # e
    /\ status[For[e].exercise] # "absent"
    /\ ~Exclusive(For[e].exercise)
    /\ LET x == For[e].exercise
       IN  member' = [member EXCEPT ![o] =
               [at |-> x, order |-> e, status |-> status[x], round |-> round[x]]]
    /\ UNCHANGED <<exercise, orders, claimed, umpire, due, held>>

\* The exercise has ended, or the round was resolved.
Late(o) ==
    \/ member[o].status \in {"concluded", "stopped"}
    \/ For[member[o].order].round <= member[o].round

Invalid(o) == For[member[o].order].round \notin Rounds

\* The claim commits with the orders, or alone when they are late; the
\* order that is late is so before it is past the limit.
RecordOrders(o) ==
    /\ member[o] # Idle
    /\ LET e == member[o].order
       IN  /\ \/ /\ Late(o) /\ For[e].round >= 1
                 /\ orders' = orders
              \/ /\ ~Late(o) /\ ~Invalid(o)
                 /\ orders' = [orders EXCEPT ![For[e].exercise][For[e].round][For[e].faction] = e]
           /\ claimed' = claimed \cup {e}
    /\ member' = [member EXCEPT ![o] = Idle]
    /\ UNCHANGED <<exercise, umpire, due, held>>

\* A permanent refusal or a failure: the claim rolls back with the rest.
RefuseOrders(o) ==
    /\ member[o] # Idle
    /\ member' = [member EXCEPT ![o] = Idle]
    /\ UNCHANGED <<exercise, orders, claimed, umpire, due, held>>

-----------------------------------------------------------------------------
(* The resolvers.                                                          *)

Elapse(x) ==
    /\ nextAt[x] = "future"
    /\ nextAt' = [nextAt EXCEPT ![x] = "past"]
    /\ UNCHANGED <<status, round, history, outbox, orders, claimed, umpire, member, due, held>>

Due(x) == status[x] = "running" /\ nextAt[x] = "past"

\* A tick's pass finds the due exercises without locking them.
FindDue(r) ==
    /\ due[r] = <<>>
    /\ held[r] = Idle
    /\ LET found == {x \in Exercises : Due(x)}
       IN  /\ found # {}
           /\ \E ids \in SetToSeqs(found) : due' = [due EXCEPT ![r] = ids]
    /\ UNCHANGED <<exercise, orders, claimed, umpire, member, held>>

MayTry(r) == held[r] = Idle /\ due[r] # <<>>
Tries(r, x) == MayTry(r) /\ Head(due[r]) = x
Try(r) == due' = [due EXCEPT ![r] = Tail(@)]

OrdersFor(x, n) == orders[x][n]

\* Mistake: whether the exercise is still due is not asked under the lock.
LockFound(r) ==
    /\ MayTry(r)
    /\ LET x == Head(due[r])
       IN  /\ Free(x)
           /\ status[x] = "running"
           /\ held' = [held EXCEPT ![r] =
                  [at |-> x, round |-> round[x], orders |-> OrdersFor(x, round[x] + 1)]]
    /\ Try(r)
    /\ UNCHANGED <<exercise, orders, claimed, umpire, member>>

\* The row is locked if it is free and still due, and the round's orders read.
LockIfDue(r) ==
    /\ MayTry(r)
    /\ LET x == Head(due[r])
       IN  /\ Free(x)
           /\ Due(x)
           /\ held' = [held EXCEPT ![r] =
                  [at |-> x, round |-> round[x], orders |-> OrdersFor(x, round[x] + 1)]]
    /\ Try(r)
    /\ UNCHANGED <<exercise, orders, claimed, umpire, member>>

\* An exercise that another transaction holds, or that is no longer due.
Skip(r) ==
    /\ MayTry(r)
    /\ ~(Free(Head(due[r])) /\ Due(Head(due[r])))
    /\ Try(r)
    /\ UNCHANGED <<exercise, orders, claimed, umpire, member, held>>

\* The round is applied. The verdict at the limit is over.
Resolve(r) ==
    /\ held[r] # Idle
    /\ LET x == held[r].at
           n == held[r].round + 1
       IN  \E over \in BOOLEAN, lost \in BOOLEAN :
             /\ n = Limit => over
             /\ status[x] = "running"
             /\ status' = [status EXCEPT ![x] = IF over THEN "concluded" ELSE "running"]
             /\ round' = [round EXCEPT ![x] = n]
             /\ nextAt' = [nextAt EXCEPT ![x] = IF over THEN "none" ELSE "future"]
             /\ history' = [history EXCEPT ![x] = Append(@, held[r].orders)]
             /\ Raise(x, <<Event("resolved", n)>>
                    \o (IF lost THEN <<Event("lost", n)>> ELSE <<>>)
                    \o <<Event("observed", n)>>
                    \o (IF over THEN <<Event("concluded", n)>> ELSE <<>>))
    /\ held' = [held EXCEPT ![r] = Idle]
    /\ UNCHANGED <<orders, claimed, umpire, member, due>>

\* Mistake: a failure ends the pass.
FailEndsPass(r) ==
    /\ held[r] # Idle
    /\ held' = [held EXCEPT ![r] = Idle]
    /\ due' = [due EXCEPT ![r] = <<>>]
    /\ UNCHANGED <<exercise, orders, claimed, umpire, member>>

\* A resolution that fails rolls back, and the pass goes on.
Fail(r) ==
    /\ held[r] # Idle
    /\ held' = [held EXCEPT ![r] = Idle]
    /\ UNCHANGED <<exercise, orders, claimed, umpire, member, due>>

\* The reactor's grace ends the pass's context: what is left is not tried.
Cut(r) ==
    /\ MayTry(r)
    /\ due' = [due EXCEPT ![r] = <<>>]
    /\ UNCHANGED <<exercise, orders, claimed, umpire, member, held>>

-----------------------------------------------------------------------------
Command(u) ==
    \/ \E x \in Exercises, verb \in Verbs : Lock(u, x, verb)
    \/ Start(u) \/ Pause(u) \/ Resume(u) \/ Stop(u) \/ RollBack(u)

Record(o) == (\E e \in Orders : Share(o, e)) \/ RecordOrders(o) \/ RefuseOrders(o)

ResolveDue(r) == FindDue(r) \/ LockIfDue(r) \/ Skip(r) \/ Resolve(r) \/ Fail(r) \/ Cut(r)

Next ==
    \/ \E x \in Exercises : Create(x) \/ Elapse(x)
    \/ \E u \in Umpires : Command(u)
    \/ \E o \in Members : Record(o)
    \/ \E r \in Resolvers : ResolveDue(r)

Spec == Init /\ [][Next]_vars

(* Transactions end, the clock runs, a pass walks its list; a due exercise *)
(* whose row a pass finds held, tick after tick, is free on some tick; and *)
(* a healthy exercise's resolution, tried again and again, succeeds once.  *)
Fairness ==
    /\ \A x \in Exercises : WF_vars(Elapse(x))
    /\ \A u \in Umpires : WF_vars(RollBack(u))
    /\ \A o \in Members : WF_vars(RefuseOrders(o))
    /\ \A r \in Resolvers :
         /\ WF_vars(FindDue(r))
         /\ WF_vars(Skip(r))
         /\ WF_vars(Fail(r))
         /\ \A x \in Exercises :
              /\ SF_vars(Tries(r, x) /\ LockIfDue(r))
              /\ []<><<Tries(r, x) /\ Due(x) /\ Skip(r)>>_vars
                    => []<><<Tries(r, x) /\ LockIfDue(r)>>_vars
         /\ \A x \in Healthy : SF_vars(held[r].at = x /\ Resolve(r))
         /\ <>[][~Cut(r)]_vars

FairSpec == Spec /\ Fairness

-----------------------------------------------------------------------------
(* Properties.                                                             *)

\* The types; next_round_at is set exactly while the exercise runs.
TypeOK ==
    /\ status \in [Exercises -> Statuses]
    /\ round \in [Exercises -> 0..Limit]
    /\ nextAt \in [Exercises -> {"none", "future", "past"}]
    /\ \A x \in Exercises : nextAt[x] # "none" <=> status[x] = "running"
    /\ orders \in [Exercises -> [Rounds -> [Factions -> Orders \cup {None}]]]
    /\ history \in [Exercises -> Seq([Factions -> Orders \cup {None}])]
    /\ outbox \in [Exercises -> Seq([kind : Kinds, round : 0..Limit])]
    /\ claimed \subseteq Orders
    /\ umpire \in [Umpires -> {Idle} \cup
         [at : Exercises, verb : Verbs, status : Statuses, round : 0..Limit]]
    /\ member \in [Members -> {Idle} \cup
         [at : Exercises, order : Orders, status : Statuses, round : 0..Limit]]
    /\ due \in [Resolvers -> Seq(Exercises)]
    /\ held \in [Resolvers -> {Idle} \cup
         [at : Exercises, round : 0..Limit, orders : [Factions -> Orders \cup {None}]]]

\* An order is recorded for a round only if the round is resolved under it: an
\* acknowledged order is late or in force, never recorded and passed over.
RecordedIsApplied ==
    TypeOK /\ \A x \in Exercises :
        /\ Len(history[x]) = round[x]
        /\ \A n \in 1..Len(history[x]) : history[x][n] = orders[x][n]

Ended(x) == status[x] \in {"concluded", "stopped"}

\* What may come right after an event: a round is told as resolved, with its
\* loss if any, and then observed, and the next round or the end comes after.
Follows(d, e) ==
    \/ e.kind = "lost" /\ e.round = d.round /\ d.kind = "resolved"
    \/ e.kind = "observed" /\ e.round = d.round /\ d.kind \in {"started", "resolved", "lost"}
    \/ e.kind = "resolved" /\ e.round = d.round + 1 /\ d.kind = "observed"
    \/ e.kind = "concluded" /\ e.round = d.round /\ d.kind = "observed"

\* An exercise's events, in the order they are published, tell its rounds one
\* by one and, once it has ended, end with its one conclusion, at its last
\* round; an exercise stopped before its start is never mentioned.
ReportedInOrder ==
    \A x \in Exercises :
        LET es == outbox[x]
        IN  /\ es # <<>> => Head(es) = Event("started", 0)
            /\ \A i \in 2..Len(es) : Follows(es[i - 1], es[i])
            /\ \/ es = <<>> /\ round[x] = 0 /\ status[x] \in {"absent", "created", "stopped"}
               \/ es # <<>> /\ Last(es) = Event("observed", round[x]) /\ status[x] \in {"running", "paused"}
               \/ es # <<>> /\ Last(es) = Event("concluded", round[x]) /\ Ended(x)

\* A round is resolved only when it is due, however old the list it was found
\* in: not while paused, not twice in an interval, not after the end.
RoundsAreDue == [][\A x \in Exercises : round'[x] # round[x] => Due(x)]_vars

\* A round that is due is resolved, unless the exercise is paused or stopped
\* first, whatever becomes of other exercises' resolutions.
RoundsContinue ==
    \A x \in Healthy, n \in 0..Limit :
        (Due(x) /\ round[x] = n) ~> (~Due(x) \/ round[x] # n)

=============================================================================
