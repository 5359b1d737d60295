----------------------------- MODULE NatsSource ------------------------------
(***************************************************************************)
(* The source of a NATS consumer, as its reactor runs it: it binds the     *)
(* durable consumer, then pulls one message at a time, and sorts out what  *)
(* a failed pull means. Other sources of a reactor are Reactor's own: any. *)
(* The connection comes and goes, closes, and the consumer may be deleted. *)
(***************************************************************************)
EXTENDS Reactor

CONSTANT MaxDrops     \* bounds the times the connection drops
ASSUME DropsAssumption == MaxDrops \in Nat

VARIABLES
    kind,        \* the reactor's source: "nats" or "other"
    link,        \* the connection: "up", "down" or "closed"
    consumer,    \* the durable consumer: it "exists", is "deleted" under a pull,
                 \* which is told, or is "gone"
    step,        \* Receive: "bind", "pull" or "check"
    failures,    \* the pulls in a row that failed, up to FailuresBeforeCheck
    ready,       \* whether the source says it receives
    drops

server == <<link, consumer, drops>>
source == <<step, failures, ready>>
sourceVars == <<vars, kind, server, source>>

FailuresBeforeCheck == 3

SourceInit ==
    /\ Init
    /\ kind \in {"nats", "other"}
    /\ link = "up" /\ consumer = "exists" /\ drops = 0
    /\ step = "bind" /\ failures = 0 /\ ready = FALSE

Receiving == kind = "nats" /\ recv = "receiving"

Return(how) ==
    /\ recv' = "returned" /\ ret' = how /\ ready' = FALSE
    /\ UNCHANGED <<state, err, channels, contexts, shutdown, monitor, kind, server, step, failures>>

\* Binding creates the consumer unless it exists; a failure ends Receive.
Bind ==
    /\ Receiving /\ step = "bind"
    /\ \/ /\ link = "up" /\ ~stopped
          /\ consumer' = "exists" /\ step' = "pull" /\ ready' = TRUE
          /\ UNCHANGED <<vars, kind, link, drops, failures>>
       \/ Return(IF stopped THEN "nil" ELSE "fail")

\* How a pull may end.
Pulls ==
    (IF stopped THEN {"stopped"} ELSE {}) \cup
    CASE link = "closed" -> {"closed"}
      [] link = "down" -> {"timeout", "error"}
      [] link = "up" /\ consumer = "exists" -> {"message", "timeout", "error"}
      [] link = "up" /\ consumer = "deleted" -> {"deleted"}
      [] link = "up" /\ consumer = "gone" -> {"no responders"}

\* Mistake: a pull that nobody responds to counts as an empty one.
HealthyUnanswered == {"message", "timeout", "stopped", "no responders"}

\* An empty pull is a healthy one.
Healthy == {"message", "timeout", "stopped"}
Fatal == {"closed", "deleted"}

\* After a pull that nobody responds to, or several failures, the server is asked.
MustCheck(n, how) == how = "no responders" \/ n >= FailuresBeforeCheck

Pull ==
    /\ Receiving /\ step = "pull" /\ ~stopped
    /\ \E how \in Pulls :
         \/ /\ how \in Healthy
            /\ failures' = 0 /\ ready' = TRUE
            /\ IF how = "message" THEN Handle ELSE UNCHANGED vars
            /\ UNCHANGED <<kind, server, step>>
         \/ how \in Fatal /\ Return("fail")
         \/ /\ how \notin Healthy \cup Fatal
            /\ ready' = FALSE
            /\ LET n == IF failures < FailuresBeforeCheck THEN failures + 1 ELSE failures
               IN  failures' = n /\ step' = IF MustCheck(n, how) THEN "check" ELSE "pull"
            /\ UNCHANGED <<vars, kind, server>>

\* The server says that the consumer is gone, when it can be asked.
Gone == link = "up" /\ consumer # "exists"

Check ==
    /\ Receiving /\ step = "check"
    /\ IF Gone THEN Return("fail")
       ELSE step' = "pull" /\ UNCHANGED <<vars, kind, server, failures, ready>>

\* Receive's context has ended.
Leave == Receiving /\ step = "pull" /\ stopped /\ Return("nil")

\* Whatever the handler returns, the source goes on.
Handled ==
    /\ kind = "nats" /\ \E how \in Outcomes : HandlerReturns(how)
    /\ recv' = "receiving"
    /\ UNCHANGED <<kind, server, source>>

\* The pull that a connection drops under is told nothing.
Connection ==
    /\ kind = "nats" /\ link # "closed"
    /\ \/ /\ link = "up" /\ drops < MaxDrops
          /\ link' = "down" /\ drops' = drops + 1
          /\ consumer' = IF consumer = "deleted" THEN "gone" ELSE consumer
       \/ link = "down" /\ link' = "up" /\ UNCHANGED <<consumer, drops>>
       \/ link' = "closed" /\ UNCHANGED <<consumer, drops>>
       \/ /\ link = "up" /\ step # "bind" /\ consumer = "exists"
          /\ consumer' \in (IF Receiving /\ step = "pull" THEN {"deleted", "gone"} ELSE {"gone"})
          /\ UNCHANGED <<link, drops>>
    /\ UNCHANGED <<vars, kind, source>>

Others == Start \/ Record \/ CloseErrs \/ CloseDone \/ Shutdown \/ Hear

SourceNext ==
    \/ Bind \/ Pull \/ Check \/ Leave \/ Handled \/ Connection
    \/ (Others \/ (kind = "other" /\ Goroutine)) /\ UNCHANGED <<kind, server, source>>

SourceSpec == SourceInit /\ [][SourceNext]_sourceVars

(* As in Reactor; and the source's calls to the server end, in time, and   *)
(* the connection reconnects, without a limit.                             *)
SourceFairness ==
    /\ WF_sourceVars((Record \/ CloseErrs \/ CloseDone) /\ UNCHANGED <<kind, server, source>>)
    /\ SF_sourceVars(kind = "other" /\ stopped /\ ReceiveReturns("nil") /\ UNCHANGED <<kind, server, source>>)
    /\ WF_sourceVars(kind = "other" /\ aborted /\ (\E how \in Outcomes : HandlerReturns(how))
                        /\ UNCHANGED <<kind, server, source>>)
    /\ WF_sourceVars(aborted /\ Handled)
    /\ WF_sourceVars((Stop \/ GraceEnds) /\ UNCHANGED <<kind, server, source>>)
    /\ WF_sourceVars(Finish /\ UNCHANGED <<kind, server, source>>)
    /\ WF_sourceVars(Bind \/ Pull \/ Check \/ Leave)
    /\ WF_sourceVars(Connection /\ link' = "up" /\ link = "down")

SourceFairSpec == SourceSpec /\ SourceFairness

-----------------------------------------------------------------------------
(* Properties.                                                             *)

\* A source that has ended by itself never bound, or has lost its connection
\* or its consumer for good.
EndedForGood == kind = "nats" /\ ret = "fail" => step = "bind" \/ link = "closed" \/ consumer # "exists"

\* A source goes on through whatever passes, such as a reconnect, and ends by
\* itself only once its consumer is gone, its connection closed, or it never
\* bound; and one whose consumer is gone does end, whatever its connection
\* does, rather than pull on for ever while its service looks healthy.
EndsWhenGone ==
    /\ []EndedForGood
    /\ (Receiving /\ step # "bind" /\ consumer # "exists") ~> recv \in {"returned", "recorded", "errsClosed", "over"}
=============================================================================
