------------------------------- MODULE Process -------------------------------
(***************************************************************************)
(* A service's process, from its boot to its end: the parts its            *)
(* composition root registers, each at a stage, which the coordinator      *)
(* starts upwards and drains downwards. The outbox's rows and the durable  *)
(* consumers outlive the process, which may be booted again. The events    *)
(* of one exercise come by while it boots, runs, drains or is down.        *)
(***************************************************************************)
EXTENDS Naturals, FiniteSets

CONSTANTS
    Services,    \* the services that may run, of those below
    MaxRows,     \* bounds the rows committed and not yet published
    MaxBoots     \* bounds the boots

ASSUME ProcessAssumption ==
    /\ Services \subseteq {"exercise", "intelligence", "command", "operations"}
    /\ MaxRows \in Nat /\ MaxBoots \in Nat

VARIABLES
    service,    \* the service that runs
    phase,      \* the coordinator: "down", "starting", "running" or "draining"
    up,         \* the parts started and not shut down yet
    bound,      \* durable consumer -> the events already past at its creation
    receiving,  \* the consumers whose source is bound in this process
    failed,     \* the parts that failed after their start
    cut,        \* whether the last process never served, or died
    rows,       \* the outbox's rows not published yet
    tick,       \* whether a tick of the resolver's ticker is due
    pass,       \* whether a pass of the resolver runs
    past,       \* the exercise's events published so far
    boots

vars == <<service, phase, up, bound, receiving, failed, cut, rows, tick, pass, past, boots>>

-----------------------------------------------------------------------------
(* What each composition root registers, and where.                        *)

SchemaStage == 1
VerifyStage == SchemaStage + 1
Root == 9

Infrastructure == [database |-> 0, broker |-> 0, messaging |-> VerifyStage]
Admin == [schema |-> SchemaStage]
Domain == [domain |-> VerifyStage]
Server == [server |-> Root]

ExerciseReactors == [orders |-> VerifyStage + 1, relay |-> VerifyStage + 2, resolve |-> Root]

\* Mistake: the relay is drained before the consumers that commit events.
IntelligenceRelayAbove ==
    [relay |-> VerifyStage + 2, started |-> VerifyStage + 1, observed |-> VerifyStage + 1,
     alerts |-> VerifyStage + 1, concluded |-> VerifyStage + 1]

\* Mistake: the consumers start while the statements are verified.
IntelligenceUnverified ==
    [relay |-> VerifyStage, started |-> VerifyStage, observed |-> VerifyStage,
     alerts |-> VerifyStage, concluded |-> VerifyStage]

IntelligenceReactors ==
    [relay |-> VerifyStage + 1, started |-> VerifyStage + 2, observed |-> VerifyStage + 2,
     alerts |-> VerifyStage + 2, concluded |-> VerifyStage + 2]

CommandReactors ==
    [relay |-> VerifyStage + 1, started |-> VerifyStage + 2, assessed |-> VerifyStage + 2,
     concluded |-> VerifyStage + 2]

OperationsReactors ==
    [relay |-> VerifyStage + 1, started |-> VerifyStage + 2, directives |-> VerifyStage + 2,
     observed |-> VerifyStage + 2, concluded |-> VerifyStage + 2]

\* f, and g where f is not defined.
With(f, g) == [x \in DOMAIN f \cup DOMAIN g |-> IF x \in DOMAIN f THEN f[x] ELSE g[x]]

Base == With(With(Infrastructure, Admin), Domain)
Registered(reactors) == With(With(Base, reactors), Server)

ExerciseApp == Registered(ExerciseReactors)
IntelligenceApp == Registered(IntelligenceReactors)
CommandApp == Registered(CommandReactors)
OperationsApp == Registered(OperationsReactors)

App == CASE service = "exercise" -> ExerciseApp
         [] service = "intelligence" -> IntelligenceApp
         [] service = "command" -> CommandApp
         [] service = "operations" -> OperationsApp

Parts == DOMAIN App
Consumers == Parts \ (DOMAIN With(Base, Server) \cup {"relay", "resolve"})
Reactors == Consumers \cup (Parts \cap {"relay", "resolve"})

\* What a commit of theirs raises events in; exercise's orders raise none.
Producers == IF service = "exercise" THEN {"server", "resolve"} ELSE Consumers

\* What reports a failure after its start to the coordinator.
Monitored == Reactors \cup {"server"}

\* Of the exercise's events the first is its start, the last its conclusion,
\* and all that the other consumers take come between the two.
Events == 3
Position(c) == CASE c = "started" -> 1 [] c = "concluded" -> Events [] OTHER -> 2

Init ==
    /\ service \in Services
    /\ phase = "down" /\ up = {} /\ receiving = {} /\ failed = {} /\ cut = FALSE
    /\ bound = <<>> /\ rows = 0 /\ tick = FALSE /\ pass = FALSE
    /\ past = 0 /\ boots = 0

process == <<service, phase, up, failed, cut, boots>>
work == <<rows, tick, pass>>
stream == <<bound, receiving, past>>

-----------------------------------------------------------------------------
(* The coordinator.                                                        *)

Lowest(S) == {p \in S : \A q \in S : App[p] <= App[q]}
Highest(S) == {p \in S : \A q \in S : App[p] >= App[q]}

Boot ==
    /\ phase = "down" /\ boots < MaxBoots
    /\ phase' = "starting" /\ boots' = boots + 1 /\ failed' = {} /\ cut' = FALSE
    /\ UNCHANGED <<service, up, work, stream>>

\* The parts of a stage start in any order, once all below it have started.
Start(p) ==
    /\ phase = "starting" /\ p \in Lowest(Parts \ up)
    /\ up' = up \cup {p}
    /\ UNCHANGED <<service, phase, failed, cut, boots, work, stream>>

StartFails ==
    /\ phase = "starting" /\ Parts \ up # {}
    /\ phase' = "draining" /\ cut' = TRUE
    /\ UNCHANGED <<service, up, failed, boots, work, stream>>

Serve ==
    /\ phase = "starting" /\ up = Parts
    /\ phase' = "running"
    /\ UNCHANGED <<service, up, failed, cut, boots, work, stream>>

\* A signal, or a failure that the coordinator is told of.
Drain(signalled) ==
    /\ phase = "running" /\ (signalled \/ failed \cap Monitored # {})
    /\ phase' = "draining"
    /\ UNCHANGED <<service, up, failed, cut, boots, work, stream>>

\* What holds a part's shutdown: the pass that the resolver runs, and the rows
\* of the relay's last pass.
Holds(p) ==
    \/ p = "resolve" /\ pass
    \/ p = "relay" /\ rows > 0 /\ p \notin failed

Stop(p) ==
    /\ phase = "draining" /\ p \in Highest(up) /\ ~Holds(p)
    /\ up' = up \ {p} /\ receiving' = receiving \ {p}
    /\ tick' = (tick /\ p # "resolve")
    /\ UNCHANGED <<service, phase, failed, cut, boots, rows, pass, bound, past>>

End ==
    /\ phase = "draining" /\ up = {}
    /\ phase' = "down"
    /\ UNCHANGED <<service, up, failed, cut, boots, work, stream>>

\* The drain's deadline passes, or the process dies.
Die ==
    /\ phase # "down"
    /\ phase' = "down" /\ up' = {} /\ receiving' = {} /\ cut' = TRUE
    /\ tick' = FALSE /\ pass' = FALSE
    /\ UNCHANGED <<service, failed, boots, rows, bound, past>>

-----------------------------------------------------------------------------
(* The parts.                                                              *)

\* A source that ends with an error, or the server: not the resolver, whose
\* handler returns none. One part fails at most.
Fail(p) ==
    /\ p \in up \cap (Consumers \cup {"relay", "server"})
    /\ phase \in {"starting", "running"} /\ failed = {}
    /\ failed' = {p} /\ receiving' = receiving \ {p}
    /\ UNCHANGED <<service, phase, up, cut, boots, work, bound, past>>

Works(p) ==
    /\ p \in up \ failed
    /\ p \in Consumers => p \in receiving
    /\ p = "resolve" => pass

Commit(p) ==
    /\ p \in Producers /\ Works(p) /\ rows < MaxRows
    /\ rows' = rows + 1
    /\ UNCHANGED <<process, tick, pass, stream>>

Publish ==
    /\ Works("relay") /\ rows > 0
    /\ rows' = rows - 1
    /\ UNCHANGED <<process, tick, pass, stream>>

\* Mistake: a consumer is made anew, after what is past, at every boot.
BindAnew(c) ==
    /\ c \in (up \cap Consumers) \ (receiving \cup failed)
    /\ receiving' = receiving \cup {c}
    /\ bound' = With([x \in {c} |-> past], bound)
    /\ UNCHANGED <<process, work, past>>

\* A consumer's source binds its durable, which the first to bind creates
\* after all that is past.
Bind(c) ==
    /\ c \in (up \cap Consumers) \ (receiving \cup failed)
    /\ receiving' = receiving \cup {c}
    /\ bound' = With(bound, [x \in {c} |-> past])
    /\ UNCHANGED <<process, work, past>>

Resolving == "resolve" \in up

Tick ==
    /\ Resolving /\ ~tick
    /\ tick' = TRUE
    /\ UNCHANGED <<process, rows, pass, stream>>

PassBegins ==
    /\ Resolving /\ phase # "draining" /\ ~pass /\ tick
    /\ pass' = TRUE /\ tick' = FALSE
    /\ UNCHANGED <<process, rows, stream>>

\* A tick that came due while the pass ran is dropped.
PassEnds ==
    /\ Resolving /\ pass
    /\ pass' = FALSE /\ tick' = FALSE
    /\ UNCHANGED <<process, rows, stream>>

\* Mistake: the service is ready once its parts have started.
ReadyOnceStarted == phase = "running" /\ up = Parts

\* Readiness: every part's check, and a consumer's is that its source is bound.
Ready == phase = "running" /\ up = Parts /\ failed = {} /\ Consumers \subseteq receiving

\* The exercise is started once the service is ready, and then goes on
\* whatever becomes of the service.
NextEvent ==
    /\ past < Events /\ (past = 0 => Ready)
    /\ past' = past + 1
    /\ UNCHANGED <<process, work, bound, receiving>>

Coordinate == Boot \/ StartFails \/ Serve \/ End \/ Die \/ \E s \in BOOLEAN : Drain(s)

Next ==
    \/ Coordinate
    \/ \E p \in Parts : Start(p) \/ Stop(p) \/ Fail(p) \/ Commit(p)
    \/ \E c \in Consumers : Bind(c)
    \/ Publish \/ Tick \/ PassBegins \/ PassEnds \/ NextEvent

Spec == Init /\ [][Next]_vars

-----------------------------------------------------------------------------
(* Properties.                                                             *)

\* A process that drained to its end, its relay whole, leaves nothing that was
\* committed unpublished, while it drained included.
DrainLeavesNothing == phase = "down" /\ ~cut /\ "relay" \notin failed => rows = 0

\* No part above the verified statements runs without them and what they
\* stand on: neither before they are verified nor when the drain is past them.
StandsOnVerified ==
    \A p \in up \cap (Reactors \cup {"server"}) :
        DOMAIN Base \subseteq up

\* An exercise that starts while the service is ready is played whole: each
\* consumer is given all its events, also those that come by while the service
\* is down or boots.
NothingSkipped ==
    past > 0 => \A c \in Consumers : c \in DOMAIN bound /\ bound[c] < Position(c)
=============================================================================
