------------------------------ MODULE Delivery ------------------------------
(***************************************************************************)
(* What the outbox promises a producer: the events of a command that       *)
(* commits are all delivered to the broker in the end, and those of a      *)
(* command that does not are never delivered.                              *)
(***************************************************************************)
CONSTANTS Commands, Events

VARIABLES
    outcome,    \* command -> "open", "committed", "aborted"
    raised,     \* command -> the events it has raised
    delivered   \* the events the broker has stored

vars == <<outcome, raised, delivered>>

Promised == UNION {raised[c] : c \in {d \in Commands : outcome[d] = "committed"}}

Init ==
    /\ outcome = [c \in Commands |-> "open"]
    /\ raised = [c \in Commands |-> {}]
    /\ delivered = {}

\* Every event is raised once, by one command.
Raise(c, e) ==
    /\ outcome[c] = "open"
    /\ \A d \in Commands : e \notin raised[d]
    /\ raised' = [raised EXCEPT ![c] = @ \cup {e}]
    /\ UNCHANGED <<outcome, delivered>>

Settle(c, how) ==
    /\ outcome[c] = "open"
    /\ outcome' = [outcome EXCEPT ![c] = how]
    /\ UNCHANGED <<raised, delivered>>

Deliver(e) ==
    /\ e \in Promised \ delivered
    /\ delivered' = delivered \cup {e}
    /\ UNCHANGED <<outcome, raised>>

Next ==
    \/ \E c \in Commands, e \in Events : Raise(c, e)
    \/ \E c \in Commands : Settle(c, "committed") \/ Settle(c, "aborted")
    \/ \E e \in Events : Deliver(e)

SafeSpec == Init /\ [][Next]_vars

FairSpec == SafeSpec /\ \A e \in Events : WF_vars(Deliver(e))
=============================================================================
