------------------------------ MODULE Contracts ------------------------------
(***************************************************************************)
(* What the services accept of each other's events: the Validate of each   *)
(* command's input, and what exercise checks of orders. An input that is   *)
(* refused is refused for good, and its event lost to the service. That an *)
(* exercise is named by its UUID and an element by its ID is left out.     *)
(***************************************************************************)
EXTENDS Integers

\* A round, and a producer's counter, which counts from 1.
IsRound(n) == n >= 0
IsCounter(n) == n >= 1

\* exercise.started, to operations: that the factions differ is left out.
OpenAccepted(limit) == limit >= 1

\* exercise.round.observed, exercise.objective.lost and exercise.concluded.
ObserveAccepted(n) == IsRound(n)
ManeuverAccepted(n) == IsRound(n)
AlertAccepted(n, holder, nobody) == IsRound(n) /\ holder # nobody
CloseAccepted(n) == IsRound(n)

\* intelligence.assessment.issued.
DecideAccepted(n, revision) == IsRound(n) /\ IsCounter(revision)

\* command.directive.issued.
AssignAccepted(n, sequence) == IsRound(n) /\ IsCounter(sequence)

\* operations.orders.issued: a round that exercise has, or one already resolved.
OrdersAccepted(n, resolved, limit) == n >= 1 /\ (n <= resolved \/ n <= limit)
=============================================================================
