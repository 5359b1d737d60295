------------------------------- MODULE Courier -------------------------------
(***************************************************************************)
(* A run of one of courier's scenarios: its steps, the coordinator that    *)
(* the steps start and stop, what the run creates on the servers, and the  *)
(* cleanup that follows however the steps end.                             *)
(***************************************************************************)
EXTENDS Naturals, Sequences, FiniteSets

CONSTANTS
    Scenarios,     \* the scenarios that may be run, of those below
    Brokers,       \* the brokers that the command line may name
    Interrupts     \* whether the run may be interrupted

ASSUME CourierAssumption ==
    /\ Scenarios \subseteq {"every", "group", "retry", "permanent", "drain", "outbox",
                            "request", "directives", "assessments", "theater", "theater-check"}
    /\ Brokers \subseteq {"memory", "nats"}
    /\ Interrupts \in BOOLEAN

VARIABLES
    scenario, broker,  \* what the command line names
    run,          \* "new", "steps", "cleanup" or "over"
    step,         \* the steps done
    at,           \* where the step is, "between" steps before it begins
    interrupted,  \* whether the command's ctx has ended
    lc,           \* the coordinator: "new", "starting", "ready", "draining" or "ended"
    cancelled,    \* whether its run context was cancelled
    lcErr,        \* what its Run returns: "none", "failure" or "timeout"
    live,         \* the reactors started and not yet shut down
    broken,       \* the reactors that failed
    leases,       \* what the cleanup has to release: "broker", "store"
    left,         \* what of the run's is on the servers: "stream", "database", "consumer"
    cutShort,     \* the creates cut short, which can still finish on the server
    errors        \* the errors of the run, by what they tell of

target == <<scenario, broker>>
coordinator == <<lc, cancelled, lcErr, live, broken>>
servers == <<leases, left, cutShort>>
courierVars == <<target, run, step, at, interrupted, coordinator, servers, errors>>

-----------------------------------------------------------------------------
(* The scenarios: the broker each asks for, what its start step waits for  *)
(* once the coordinator is ready, its reactors by stage, and its steps.    *)
(* "await" watches the coordinator while it waits, "wait" does not.        *)

StageRoot == 9

EveryScenario ==
    [asks |-> "none", opens |-> "none", reactors |-> [ticker |-> StageRoot],
     steps |-> <<"start", "await", "stop">>]
GroupScenario ==
    [asks |-> "scratch", opens |-> "none",
     reactors |-> [publisher |-> StageRoot, worker_a |-> 0, worker_b |-> 0],
     steps |-> <<"start", "await", "stop", "check">>]
RetryScenario ==
    [asks |-> "scratch", opens |-> "none", reactors |-> [worker |-> 0],
     steps |-> <<"start", "await", "stop", "check">>]
PermanentScenario ==
    [asks |-> "scratch", opens |-> "none", reactors |-> [worker |-> 0],
     steps |-> <<"start", "await", "check", "stop">>]
DrainScenario ==
    [asks |-> "scratch", opens |-> "none", reactors |-> [worker |-> 0],
     steps |-> <<"start", "await", "stop", "member">>]
OutboxScenario ==
    [asks |-> "scratch", opens |-> "await", reactors |-> [relay |-> StageRoot, worker |-> 0],
     steps |-> <<"store", "check", "start", "stop", "check">>]
RequestScenario ==
    [asks |-> "exchange", opens |-> "await", reactors |-> [responder |-> 0],
     steps |-> <<"start", "check", "check", "stop">>]
DirectivesScenario ==
    [asks |-> "join", opens |-> "await", reactors |-> [watch |-> 0],
     steps |-> <<"start", "check", "wait", "stop">>]
AssessmentsScenario ==
    [asks |-> "join", opens |-> "await", reactors |-> [watch |-> 0],
     steps |-> <<"start", "wait", "check", "stop">>]
TheaterScenario ==
    [asks |-> "join", opens |-> "wait", reactors |-> [watch |-> 0],
     steps |-> <<"start", "wait", "check", "stop">>]
TheaterCheckScenario ==
    [asks |-> "join", opens |-> "wait", reactors |-> [watch |-> 0],
     steps |-> <<"start", "stop", "check", "check">>]

Scenario ==
    CASE scenario = "every" -> EveryScenario
      [] scenario = "group" -> GroupScenario
      [] scenario = "retry" -> RetryScenario
      [] scenario = "permanent" -> PermanentScenario
      [] scenario = "drain" -> DrainScenario
      [] scenario = "outbox" -> OutboxScenario
      [] scenario = "request" -> RequestScenario
      [] scenario = "directives" -> DirectivesScenario
      [] scenario = "assessments" -> AssessmentsScenario
      [] scenario = "theater" -> TheaterScenario
      [] scenario = "theater-check" -> TheaterCheckScenario

ScenarioReactors == DOMAIN Scenario.reactors
Steps == Scenario.steps
Step == Steps[step + 1]

\* What needs the services' stream, or native request and reply, needs nats.
Needs == Scenario.asks \in {"join", "exchange"} => broker = "nats"

CourierInit ==
    /\ scenario \in Scenarios /\ broker \in Brokers
    /\ run = "new" /\ step = 0 /\ at = "between" /\ interrupted = FALSE
    /\ lc = "new" /\ cancelled = FALSE /\ lcErr = "none" /\ live = {} /\ broken = {}
    /\ leases = {} /\ left = {} /\ cutShort = {} /\ errors = {}

-----------------------------------------------------------------------------
(* Run.                                                                    *)

\* A usage error, or a need that does not check: nothing has been built.
Refuse ==
    /\ run = "new"
    /\ run' = "over" /\ errors' = {"refused"}
    /\ UNCHANGED <<target, step, at, interrupted, coordinator, servers>>

BeginSteps ==
    /\ run = "new" /\ Needs
    /\ run' = "steps"
    /\ UNCHANGED <<target, step, at, interrupted, coordinator, servers, errors>>

Interrupt ==
    /\ Interrupts /\ run = "steps" /\ ~interrupted
    /\ interrupted' = TRUE
    /\ UNCHANGED <<target, run, step, at, coordinator, servers, errors>>

Enter ==
    /\ run = "steps" /\ at = "between" /\ step < Len(Steps) /\ ~interrupted
    /\ at' = Step
    /\ UNCHANGED <<target, run, step, interrupted, coordinator, servers, errors>>

\* In a step: at is what it does first, or a point within.
In(point) == run = "steps" /\ at = point

Done == step' = step + 1 /\ at' = "between" /\ UNCHANGED <<run, errors>>
FailsWith(what) == run' = "cleanup" /\ errors' = errors \cup what /\ at' = "drain" /\ UNCHANGED step

\* The ctx ends between two steps, or the last step is done.
LeaveSteps ==
    /\ In("between")
    /\ \/ step = Len(Steps) /\ FailsWith({})
       \/ step < Len(Steps) /\ interrupted /\ FailsWith({"interrupt"})
    /\ UNCHANGED <<target, interrupted, coordinator, servers>>

\* A step's own work, that ends well or not: publishes, requests, reads,
\* comparisons.
Check ==
    /\ In("check")
    /\ Done \/ FailsWith({"step"})
    /\ UNCHANGED <<target, interrupted, coordinator, servers>>

\* The coordinator's end, as the step that waits on it says it.
Ending == {"step"} \cup IF lcErr = "none" THEN {} ELSE {"coordinator"}

\* What is awaited comes; or the coordinator ends, or the ctx, or patience.
Await ==
    /\ In("await")
    /\ \/ Done
       \/ lc = "ended" /\ FailsWith(Ending)
       \/ FailsWith({"step"})
    /\ UNCHANGED <<target, interrupted, coordinator, servers>>

WaitDone ==
    /\ In("wait")
    /\ Done
    /\ UNCHANGED <<target, interrupted, coordinator, servers>>

\* Mistake: the wait has no time of its own.
WaitFailsWhenEnded ==
    /\ In("wait") /\ lc = "ended"
    /\ FailsWith({"step"})
    /\ UNCHANGED <<target, interrupted, coordinator, servers>>

\* The wait's own time passes, or its ctx ends.
WaitFails ==
    /\ In("wait")
    /\ FailsWith({"step"})
    /\ UNCHANGED <<target, interrupted, coordinator, servers>>

-----------------------------------------------------------------------------
(* What a run creates.                                                     *)

\* The scratch broker's start fails after a server was reached: the stream is
\* deleted if it exists, though its creation may still finish afterwards.
ScratchFails ==
    \/ UNCHANGED left /\ cutShort' = cutShort \cup {"stream"} /\ FailsWith({"step"})
    \/ left' = left \cup {"stream"} /\ UNCHANGED cutShort /\ FailsWith({"step", "stream"})

\* The broker for the run. A memory broker needs no release, nor does one
\* that failed.
Acquire ==
    /\ In("start")
    /\ \/ /\ \/ Scenario.asks \in {"scratch", "exchange"} /\ broker = "nats"
                /\ left' = left \cup {"stream"} /\ leases' = leases \cup {"broker"}
             \/ Scenario.asks = "join" /\ leases' = leases \cup {"broker"} /\ UNCHANGED left
             \/ Scenario.asks = "none" /\ UNCHANGED <<leases, left>>
             \/ Scenario.asks = "scratch" /\ broker = "memory" /\ UNCHANGED <<leases, left>>
          /\ at' = "acquired" /\ UNCHANGED <<run, step, cutShort, errors>>
       \/ Scenario.asks # "none" /\ broker = "nats" /\ FailsWith({"step"}) /\ UNCHANGED servers
       \/ Scenario.asks \in {"scratch", "exchange"} /\ broker = "nats" /\ ScratchFails /\ UNCHANGED leases
    /\ UNCHANGED <<target, interrupted, coordinator>>

\* The outbox scenario's database: made, or not, or its making is cut short;
\* or made and then not migrated or verified, and so dropped again.
Store ==
    /\ In("store")
    /\ \/ left' = left \cup {"database"} /\ leases' = leases \cup {"store"} /\ Done /\ UNCHANGED cutShort
       \/ FailsWith({"step"}) /\ UNCHANGED servers
       \/ interrupted /\ cutShort' = cutShort \cup {"database"} /\ FailsWith({"step"}) /\ UNCHANGED <<leases, left>>
       \/ left' = left \cup {"database"} /\ FailsWith({"step", "database"}) /\ UNCHANGED <<leases, cutShort>>
    /\ UNCHANGED <<target, interrupted, coordinator>>

Land(what) ==
    /\ what \in cutShort \ left
    /\ left' = left \cup {what}
    /\ UNCHANGED <<target, run, step, at, interrupted, coordinator, leases, cutShort, errors>>

-----------------------------------------------------------------------------
(* The coordinator.                                                        *)

\* The reactors are registered and Run begins; or the subscription fails.
Launch ==
    /\ In("acquired")
    /\ \/ lc' = "starting" /\ at' = "launched" /\ UNCHANGED <<run, step, errors>>
       \/ Scenario.asks # "none" /\ FailsWith({"step"}) /\ UNCHANGED lc
    /\ UNCHANGED <<target, interrupted, cancelled, lcErr, live, broken, servers>>

\* The step that starts the coordinator waits until it is ready, and some for
\* the first event besides.
Launched ==
    /\ In("launched")
    /\ \/ lc = "ready" /\ Scenario.opens = "none" /\ Done
       \/ lc = "ready" /\ Scenario.opens # "none" /\ at' = Scenario.opens /\ UNCHANGED <<run, step, errors>>
       \/ lc = "ended" /\ FailsWith(Ending)
       \/ FailsWith({"step"})
    /\ UNCHANGED <<target, interrupted, coordinator, servers>>

Stage(r) == Scenario.reactors[r]

StartReactor(r) ==
    /\ lc = "starting" /\ r \in ScenarioReactors \ live
    /\ \A q \in ScenarioReactors \ live : Stage(r) <= Stage(q)
    /\ live' = live \cup {r}
    /\ UNCHANGED <<target, run, step, at, interrupted, lc, cancelled, lcErr, broken, servers, errors>>

BecomeReady ==
    /\ lc = "starting" /\ live = ScenarioReactors
    /\ lc' = "ready"
    /\ UNCHANGED <<target, run, step, at, interrupted, cancelled, lcErr, live, broken, servers, errors>>

\* A durable consumer on the services' stream is created by the watch's first
\* pull, which the release then knows by name.
BindWatch ==
    /\ "watch" \in live \ broken /\ lc \in {"starting", "ready"} /\ "consumer" \notin left
    /\ left' = left \cup {"consumer"}
    /\ UNCHANGED <<target, run, step, at, interrupted, coordinator, leases, cutShort, errors>>

Break(r) ==
    /\ r \in live /\ lc \in {"starting", "ready"} /\ broken = {}
    /\ broken' = {r}
    /\ UNCHANGED <<target, run, step, at, interrupted, lc, cancelled, lcErr, live, servers, errors>>

\* The run context ends, by the command's ctx or by a cancel; or the
\* coordinator is told of a failure, which may come second and go unsaid.
BeginDrain ==
    /\ lc \in {"starting", "ready"} /\ (interrupted \/ cancelled \/ broken # {})
    /\ lc' = "draining"
    /\ lcErr' \in (IF broken = {} THEN {"none"} ELSE {"failure"})
                    \cup (IF interrupted \/ cancelled THEN {"none"} ELSE {})
    /\ UNCHANGED <<target, run, step, at, interrupted, cancelled, live, broken, servers, errors>>

\* A reactor shuts down with its handling whole, or cut by its grace.
StopReactor(r, whole) ==
    /\ lc = "draining" /\ r \in live
    /\ \A q \in live : Stage(r) >= Stage(q)
    /\ live' = live \ {r}
    /\ lcErr' = IF whole THEN lcErr ELSE "failure"
    /\ UNCHANGED <<target, run, step, at, interrupted, lc, cancelled, broken, servers, errors>>

\* Run returns, with every reactor down or with its own time run out.
EndCoordinator ==
    /\ lc = "draining"
    /\ lc' = "ended"
    /\ lcErr' = IF live = {} THEN lcErr ELSE "timeout"
    /\ UNCHANGED <<target, run, step, at, interrupted, cancelled, live, broken, servers, errors>>

StopStep ==
    /\ In("stop")
    /\ cancelled' = TRUE /\ at' = "stopping"
    /\ UNCHANGED <<target, run, step, interrupted, lc, lcErr, live, broken, servers, errors>>

Stopped ==
    /\ In("stopping") /\ lc = "ended"
    /\ IF lcErr = "none" THEN Done ELSE FailsWith(Ending)
    /\ UNCHANGED <<target, interrupted, coordinator, servers>>

\* The drain scenario's new member, outside the coordinator, is shut down
\* before its step ends.
StartMember ==
    /\ In("member")
    /\ \/ live' = live \cup {"member"} /\ at' = "joined" /\ UNCHANGED <<run, step, errors>>
       \/ FailsWith({"step"}) /\ UNCHANGED live
    /\ UNCHANGED <<target, interrupted, lc, cancelled, lcErr, broken, servers>>

StopMember ==
    /\ In("joined")
    /\ live' = live \ {"member"}
    /\ Done \/ FailsWith({"step"})
    /\ UNCHANGED <<target, interrupted, lc, cancelled, lcErr, broken, servers>>

-----------------------------------------------------------------------------
(* The cleanup: the coordinator is drained, then what was leased released. *)

Cleaning(point) == run = "cleanup" /\ at = point

\* Mistake: the cleanup does not wait for the drain.
CancelAndGo ==
    /\ Cleaning("drain")
    /\ cancelled' = (lc \notin {"new", "ended"}) /\ at' = "release"
    /\ UNCHANGED <<target, run, step, interrupted, lc, lcErr, live, broken, servers, errors>>

\* A coordinator that runs is drained; one that never started, or that has
\* ended, was reported by the step that saw it.
CancelLeft ==
    /\ Cleaning("drain")
    /\ IF lc \in {"new", "ended"}
         THEN at' = "release" /\ UNCHANGED cancelled
         ELSE at' = "draining" /\ cancelled' = TRUE
    /\ UNCHANGED <<target, run, step, interrupted, lc, lcErr, live, broken, servers, errors>>

Drained ==
    /\ Cleaning("draining") /\ lc = "ended"
    /\ at' = "release"
    /\ errors' = errors \cup (Ending \ {"step"})
    /\ UNCHANGED <<target, run, step, interrupted, coordinator, servers>>

\* What a release removes: a scratch broker's stream, or a joined broker's
\* consumers.
Leased(what) == IF what = "store" THEN {"database"} ELSE {"stream", "consumer"}

\* A removal that fails is said, and not tried again.
Release(what) ==
    /\ what \in leases
    /\ leases' = leases \ {what}
    /\ \/ left' = left \ Leased(what) /\ UNCHANGED errors
       \/ errors' = errors \cup (Leased(what) \cap left) /\ UNCHANGED left
    /\ UNCHANGED <<target, step, interrupted, coordinator, cutShort>>

ReleaseBroker ==
    /\ Cleaning("release")
    /\ at' = "close" /\ UNCHANGED run
    /\ \/ Release("broker")
       \/ "broker" \notin leases /\ UNCHANGED <<target, step, interrupted, coordinator, servers, errors>>

\* Mistake: the store is not closed.
CloseNothing ==
    /\ Cleaning("close")
    /\ run' = "over" /\ at' = "between"
    /\ UNCHANGED <<target, step, interrupted, coordinator, servers, errors>>

CloseStore ==
    /\ Cleaning("close")
    /\ run' = "over" /\ at' = "between"
    /\ \/ Release("store")
       \/ "store" \notin leases /\ UNCHANGED <<target, step, interrupted, coordinator, servers, errors>>

-----------------------------------------------------------------------------
\* What the run's own steps do, but for the end of a wait.
RunSteps ==
    \/ Refuse \/ BeginSteps \/ Enter \/ LeaveSteps
    \/ Check \/ Await \/ WaitFails
    \/ Acquire \/ Store \/ Launch \/ Launched
    \/ StopStep \/ Stopped \/ StartMember \/ StopMember
    \/ CancelLeft \/ Drained \/ ReleaseBroker \/ CloseStore

CoordinatorSteps ==
    \/ BecomeReady \/ BeginDrain \/ EndCoordinator
    \/ \E r \in ScenarioReactors : StartReactor(r) \/ \E whole \in BOOLEAN : StopReactor(r, whole)

CourierFaults ==
    \/ Interrupt \/ BindWatch
    \/ \E r \in ScenarioReactors : Break(r)
    \/ \E what \in cutShort : Land(what)

CourierNext == RunSteps \/ WaitDone \/ CoordinatorSteps \/ CourierFaults

-----------------------------------------------------------------------------
(* Properties.                                                             *)

\* A run that is over has none of its own on the servers, save what an error
\* of the run names and what a create that was cut short made afterwards; and
\* without an error it had all its steps, and its coordinator drained whole: a
\* wait that does not watch the coordinator, and a cleanup that passes over one
\* that has ended, never make a failed run end well.
NothingLeft ==
    run = "over" =>
        /\ left \subseteq errors \cup cutShort
        /\ errors = {} => step = Len(Steps) /\ lc = "ended" /\ lcErr = "none"

\* Nothing is released while a reactor of the run still runs on it, however its
\* steps end, unless the drain ran out of its time.
ReleasedAfterDrain ==
    run \in {"cleanup", "over"} /\ at \in {"close", "between"} => live = {} \/ lcErr = "timeout"

\* Every run ends, whatever it waits for.
RunEnds == run = "steps" ~> run = "over"
=============================================================================
