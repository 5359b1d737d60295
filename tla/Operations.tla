----------------------------- MODULE Operations -----------------------------
(***************************************************************************)
(* The operations domain, with the two services it stands between: it      *)
(* applies command's directives to the elements that exercise observes,    *)
(* and issues the orders that exercise records. What is handled, in which  *)
(* order, is as in Command: a handler is one step, an input is handled in  *)
(* any order with the others, at most once, and may never be.              *)
(***************************************************************************)
EXTENDS Command

VARIABLES
    operation,   \* the faction's row, Absent before it is open
    orders,      \* the orders raised, in the outbox's order
    assigned,    \* the directives handled, by their place in directives
    maneuvered,  \* the rounds whose observation is handled
    offbeat,     \* history: since the last observation was acted on, a
                 \* directive of another round changed the plan
    round,       \* exercise: the last round resolved
    recorded,    \* exercise: round -> the orders recorded, by their place in orders
    received     \* exercise: the orders handled

operations == <<operation, orders, assigned, maneuvered, offbeat>>
exercise == <<round, recorded, received>>
vars == <<command, operations, exercise>>

Init ==
    /\ CommandInit
    /\ operation = Absent
    /\ orders = <<>>
    /\ assigned = {}
    /\ maneuvered = {}
    /\ offbeat = FALSE
    /\ round = 0
    /\ recorded = [n \in 1..Limit |-> 0]
    /\ received = {}

-----------------------------------------------------------------------------
(* Package route: what an element is ordered. Its way there (a retreat's     *)
(* target is one step away) and its giving way to others that would end in  *)
(* its cell are left out.                                                   *)

Goal(e, st) ==
    CASE e.status = "engaged" /\ st.rule = "pursue"  -> "pursue"
      [] e.status = "engaged" /\ st.rule = "retreat" -> st.target
      [] e.status = "ready" /\ st.target # e.at      -> st.target
      [] OTHER                                       -> None

Plan(own, standing) ==
    LET goal == [e \in DOMAIN own \cap DOMAIN standing |-> Goal(own[e], standing[e])]
    IN  Restrict(goal, {e \in DOMAIN goal : goal[e] # None})

-----------------------------------------------------------------------------
(* The commands.                                                           *)

OpenOperation ==
    /\ operation = Absent
    /\ operation' = [status |-> "open", last |-> -1, seq |-> 0, own |-> <<>>, standing |-> <<>>]
    /\ UNCHANGED <<orders, assigned, maneuvered, offbeat>>

CloseOperation ==
    /\ operation.status = "open"
    /\ operation' = [operation EXCEPT !.status = "closed"]
    /\ UNCHANGED <<orders, assigned, maneuvered, offbeat>>

\* Mistake: orders are issued for the round past the limit too.
IssuedAlways(last, plan) == <<[round |-> last + 1, plan |-> plan]>>

Issued(last, plan) ==
    IF last + 1 > Limit THEN <<>> ELSE <<[round |-> last + 1, plan |-> plan]>>

\* A directive's targets over those standing; no target ends an element's.
Directed(standing, decisions) ==
    [e \in {d \in DOMAIN standing \cup DOMAIN decisions :
              d \in DOMAIN decisions => decisions[d] # Hold}
        |-> IF e \in DOMAIN decisions THEN decisions[e] ELSE standing[e]]

\* Mistake: a directive waits for the next observation to take effect.
ReissuesNever(op, d, standing) == FALSE

\* A directive on the round last acted on that changes the plan.
Reissues(op, d, standing) ==
    d.round = op.last /\ Plan(op.own, standing) # Plan(op.own, op.standing)

Assign(k) ==
    /\ operation # Absent
    /\ k \notin assigned
    /\ assigned' = assigned \cup {k}
    /\ LET op == operation
           d == directives[k]
           standing == Directed(op.standing, d.decisions)
       IN  IF op.status = "closed" \/ d.sequence <= op.seq
             THEN UNCHANGED <<operation, orders, offbeat>>
             ELSE /\ operation' = [op EXCEPT !.seq = d.sequence, !.standing = standing]
                  /\ orders' = orders \o IF Reissues(op, d, standing)
                                           THEN Issued(op.last, Plan(op.own, standing)) ELSE <<>>
                  /\ offbeat' = (offbeat \/
                        (d.round # op.last /\ Plan(op.own, standing) # Plan(op.own, op.standing)))
    /\ UNCHANGED maneuvered

\* The dead stand no more, and the living are ordered for the next round.
Maneuver(n) ==
    /\ operation # Absent
    /\ n \notin maneuvered
    /\ maneuvered' = maneuvered \cup {n}
    /\ LET op == operation
           standing == Restrict(op.standing, DOMAIN op.standing \cap DOMAIN Own[n])
       IN  IF op.status = "closed" \/ n <= op.last
             THEN UNCHANGED <<operation, orders, offbeat>>
             ELSE /\ operation' = [op EXCEPT !.last = n, !.own = Own[n], !.standing = standing]
                  /\ orders' = orders \o Issued(n, Plan(Own[n], standing))
                  /\ offbeat' = FALSE
    /\ UNCHANGED assigned

-----------------------------------------------------------------------------
(* Exercise, as far as the orders go.                                      *)

Resolve ==
    /\ round < Limit
    /\ round' = round + 1
    /\ UNCHANGED <<recorded, received>>

\* RecordOrders: late orders are skipped, others replace those recorded.
RecordOrders(j) ==
    /\ j \notin received
    /\ received' = received \cup {j}
    /\ recorded' = IF orders[j].round <= round
                     THEN recorded ELSE [recorded EXCEPT ![orders[j].round] = j]
    /\ UNCHANGED round

-----------------------------------------------------------------------------
\* Assessments and observations are of rounds that are resolved; the
\* conclusion comes with the last. It and the start are handled by each
\* service when it comes to it.
CommandStep ==
    \/ OpenDirection
    \/ round = Limit /\ CloseDirection
    \/ \E i \in Revisions : Assessed[i] <= round /\ Decide(i)

OperationsStep ==
    \/ OpenOperation
    \/ round = Limit /\ CloseOperation
    \/ \E k \in DOMAIN directives : Assign(k)
    \/ \E n \in 0..round : Maneuver(n)

Next ==
    \/ CommandStep /\ UNCHANGED <<operations, exercise>>
    \/ OperationsStep /\ UNCHANGED <<command, exercise>>
    \/ (Resolve \/ \E j \in DOMAIN orders : RecordOrders(j)) /\ UNCHANGED <<command, operations>>

Spec == Init /\ [][Next]_vars

-----------------------------------------------------------------------------
(* Properties.                                                             *)

TypeOK ==
    /\ direction # Absent =>
         direction \in [status : {"open", "closed"}, closed : Rounds, round : -1..Limit,
                        revision : 0..Len(Assessed), sequence : 0..Len(Assessed),
                        decisions : UNION {[S -> Decisions] : S \in SUBSET Elements}]
    /\ operation # Absent =>
         /\ operation.status \in {"open", "closed"}
         /\ operation.last \in -1..Limit
         /\ operation.seq \in 0..Len(directives)
         /\ operation.standing \in UNION {[S -> Decisions \ {Hold}] : S \in SUBSET Elements}
         /\ operation.own = IF operation.last = -1 THEN <<>> ELSE Own[operation.last]
    /\ decided \subseteq Revisions
    /\ assigned \subseteq DOMAIN directives
    /\ maneuvered \subseteq Rounds
    /\ recorded \in [1..Limit -> 0..Len(orders)]
    /\ received \subseteq DOMAIN orders

\* No event is one that its consumer refuses for good, in whatever order the
\* rest is handled: operations accepts each directive that command raises, and
\* exercise the orders of operations, also those that a late directive raises
\* once the last round is observed. The types are as declared.
Accepted ==
    /\ TypeOK
    /\ OpenAccepted(Limit) /\ \A n \in 0..round : ManeuverAccepted(n)
    /\ \A i \in DOMAIN directives : AssignAccepted(directives[i].round, directives[i].sequence)
    /\ \A j \in DOMAIN orders : OrdersAccepted(orders[j].round, round, Limit)

\* A directive skipped loses nothing: command decides on the latest assessment
\* it handled, in whatever order, and once operations has applied the last
\* directive raised, whatever came before it in whatever order, each live
\* element stands under command's decision, its target and its rule.
StandingIsDecided ==
    /\ LatestDecided
    /\ (operation # Absent /\ direction # Absent /\ operation.seq = direction.sequence) =>
         \A e \in DOMAIN operation.own \cap DOMAIN direction.decisions :
             DecisionIn(operation.standing, e) = direction.decisions[e]

\* The orders last issued are the plan of what the elements stand under, unless
\* a directive of a round other than the one last acted on changed the plan
\* since: directives take effect without waiting a round.
OrdersAreThePlan ==
    (operation # Absent /\ operation.last \in 0..Limit - 1 /\ ~offbeat) =>
        /\ orders # <<>>
        /\ Last(orders) = [round |-> operation.last + 1,
                           plan |-> Plan(operation.own, operation.standing)]

\* What the exercise's schema says of the orders it has recorded for a round
\* to come: they are those that operations last issued, of those received.
RecordedAreLastIssued ==
    \A j \in received :
        orders[j].round > round => recorded[orders[j].round] >= j

=============================================================================
