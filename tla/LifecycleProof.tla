---------------------------- MODULE LifecycleProof ---------------------------
(***************************************************************************)
(* Theorems about what the lifecycle coordinator starts and drains: the    *)
(* process of any of the services, without a bound on its boots, its rows  *)
(* or the times it fails; and a run of any of courier's scenarios, on any  *)
(* broker, interrupted or not, and what Theater's narrator tells in one.   *)
(***************************************************************************)
EXTENDS Process, Theater, TLAPS

-----------------------------------------------------------------------------
(* A service's process: the inductive invariant.                           *)

\* The parts started are those of the lower stages, and all of them while the
\* process serves.
Layered ==
    /\ service \in Services
    /\ up \subseteq Parts
    /\ \A p \in up, q \in Parts : App[q] < App[p] => q \in up
    /\ phase \in {"down", "starting", "running", "draining"}
    /\ phase = "running" => up = Parts
    /\ phase = "down" => up = {}

\* Once the relay is drained, nothing is left, and nothing commits any more.
NothingOwed ==
    /\ rows \in Nat
    /\ phase \in {"draining", "down"} /\ "relay" \notin up /\ ~cut /\ "relay" \notin failed => rows = 0

\* A consumer that receives is bound, to no later than what is past, and once
\* an event has come by all are bound ahead of what they take.
BoundAhead ==
    /\ past \in Nat
    /\ receiving \subseteq DOMAIN bound
    /\ past = 0 => \A c \in DOMAIN bound : bound[c] = 0
    /\ NothingSkipped

ProcessInv == Layered /\ NothingOwed /\ BoundAhead

-----------------------------------------------------------------------------
(* Lemmas about what the composition roots register.                       *)

Verified == {"database", "broker", "messaging", "schema", "domain"}

\* What every service has below its reactors.
LEMMA BaseIs ==
    /\ DOMAIN Base = Verified
    /\ \A p \in Verified : Base[p] \in 0..VerifyStage
<1> DEFINE two == With(Infrastructure, Admin)
<1>1. /\ DOMAIN Infrastructure = {"database", "broker", "messaging"}
      /\ Infrastructure["database"] = 0 /\ Infrastructure["broker"] = 0
      /\ Infrastructure["messaging"] = VerifyStage
      /\ DOMAIN Admin = {"schema"} /\ Admin["schema"] = SchemaStage
      /\ DOMAIN Domain = {"domain"} /\ Domain["domain"] = VerifyStage
  BY DEF Infrastructure, Admin, Domain
<1>2. /\ DOMAIN two = {"database", "broker", "messaging", "schema"}
      /\ two["database"] = 0 /\ two["broker"] = 0 /\ two["messaging"] = VerifyStage
      /\ two["schema"] = SchemaStage
  BY <1>1 DEF With
<1> HIDE DEF two
<1>3. Base = With(two, Domain)
  BY DEF Base, two
<1>4. DOMAIN Base = Verified
  <2>1. DOMAIN Base = DOMAIN two \cup DOMAIN Domain
    BY <1>3 DEF With
  <2>2. DOMAIN two \cup DOMAIN Domain = Verified
    BY <1>1, <1>2 DEF Verified
  <2> QED
    BY <2>1, <2>2
<1>5. /\ Base["database"] = 0 /\ Base["broker"] = 0 /\ Base["messaging"] = VerifyStage
      /\ Base["schema"] = SchemaStage /\ Base["domain"] = VerifyStage
  BY <1>1, <1>2, <1>3 DEF With
<1> QED
  BY <1>4, <1>5 DEF Verified, SchemaStage, VerifyStage

\* A service: what is below its reactors, its reactors, and its server.
LEMMA RegisteredIs ==
    ASSUME NEW reactors, DOMAIN reactors \cap (Verified \cup {"server"}) = {}
    PROVE  /\ DOMAIN Registered(reactors) = Verified \cup DOMAIN reactors \cup {"server"}
           /\ \A p \in Verified : Registered(reactors)[p] \in 0..VerifyStage
           /\ \A p \in DOMAIN reactors : Registered(reactors)[p] = reactors[p]
           /\ Registered(reactors)["server"] = Root
<1> DEFINE below == With(Base, reactors)
<1>1. DOMAIN Server = {"server"} /\ Server["server"] = Root
  BY DEF Server
<1>2. /\ DOMAIN below = Verified \cup DOMAIN reactors
      /\ \A p \in Verified : below[p] \in 0..VerifyStage
      /\ \A p \in DOMAIN reactors : below[p] = reactors[p]
  BY BaseIs DEF With
<1> HIDE DEF below
<1>3. Registered(reactors) = With(below, Server)
  BY DEF Registered, below
<1>4. "server" \notin DOMAIN below
  BY <1>2 DEF Verified
<1> QED
  BY <1>1, <1>2, <1>3, <1>4 DEF With

\* In a service's stages, the relay is below what raises events, and all the
\* reactors and the server are above the verified statements.
StagesAre ==
    /\ \A p \in Parts : App[p] \in Nat
    /\ "relay" \in Parts /\ Consumers \subseteq Parts
    /\ \A p \in Producers : p \in Parts /\ App["relay"] < App[p]
    /\ Verified \subseteq Parts
    /\ \A p \in Reactors \cup {"server"} : p \in Parts /\ \A q \in Verified : App[q] < App[p]

\* So it is when what the service registers has the relay above the verified
\* statements, its consumers too, and what raises events above the relay.
LEMMA StagesFrom ==
    ASSUME NEW reactors, App = Registered(reactors),
           DOMAIN reactors \cap (Verified \cup {"server"}) = {}, "relay" \in DOMAIN reactors,
           \A p \in DOMAIN reactors : reactors[p] \in (VerifyStage + 1)..Root,
           \A p \in Producers : (p \in DOMAIN reactors \/ p = "server") /\ App["relay"] < App[p]
    PROVE  StagesAre
<1>1. /\ Parts = Verified \cup DOMAIN reactors \cup {"server"}
      /\ \A p \in Verified : App[p] \in 0..VerifyStage
      /\ \A p \in DOMAIN reactors : App[p] = reactors[p]
      /\ App["server"] = Root
  BY RegisteredIs DEF Parts
<1>2. VerifyStage = 2 /\ Root = 9
  BY DEF VerifyStage, SchemaStage, Root
<1>3. DOMAIN With(Base, Server) = Verified \cup {"server"}
  BY BaseIs DEF With, Server
<1>4. Consumers \subseteq DOMAIN reactors /\ Reactors \subseteq DOMAIN reactors
  <2>1. Consumers \subseteq DOMAIN reactors
    BY <1>1, <1>3 DEF Consumers
  <2> QED
    BY <1>1, <2>1 DEF Reactors, Verified
<1>5. \A p \in Parts : App[p] \in Nat
  BY <1>1, <1>2
<1>6. \A p \in Reactors \cup {"server"} : \A q \in Verified : App[q] < App[p]
  BY <1>1, <1>2, <1>4
<1> QED
  BY <1>1, <1>4, <1>5, <1>6 DEF StagesAre

LEMMA Stages == service \in Services => StagesAre
<1> SUFFICES ASSUME service \in Services PROVE StagesAre
  OBVIOUS
<1>1. service \in {"exercise", "intelligence", "command", "operations"}
  BY ProcessAssumption
<1>2. VerifyStage = 2 /\ Root = 9
  BY DEF VerifyStage, SchemaStage, Root
<1>3. DOMAIN With(Base, Server) = Verified \cup {"server"}
  BY BaseIs DEF With, Server
<1>4. CASE service = "exercise"
  <2>1. DOMAIN ExerciseReactors = {"orders", "relay", "resolve"}
    BY DEF ExerciseReactors
  <2>2. \A p \in DOMAIN ExerciseReactors : ExerciseReactors[p] \in (VerifyStage + 1)..Root
    BY <1>2, <2>1 DEF ExerciseReactors
  <2>3. App = Registered(ExerciseReactors)
    BY <1>4 DEF App, ExerciseApp
  <2>4. DOMAIN ExerciseReactors \cap (Verified \cup {"server"}) = {}
    BY <2>1 DEF Verified
  <2>5. /\ Parts = Verified \cup DOMAIN ExerciseReactors \cup {"server"} /\ App["server"] = Root
        /\ \A p \in DOMAIN ExerciseReactors : App[p] = ExerciseReactors[p]
    BY <2>3, <2>4, RegisteredIs DEF Parts
  <2>6. \A p \in Producers : p \in {"server", "resolve"}
    BY <1>4 DEF Producers
  <2>7. App["relay"] = 4 /\ App["resolve"] = 9
    BY <1>2, <2>1, <2>5 DEF ExerciseReactors
  <2>8. \A p \in Producers : (p \in DOMAIN ExerciseReactors \/ p = "server") /\ App["relay"] < App[p]
    BY <1>2, <2>1, <2>5, <2>6, <2>7
  <2> QED
    BY <2>1, <2>2, <2>3, <2>4, <2>8, StagesFrom
<1>5. CASE service = "intelligence"
  <2>1. DOMAIN IntelligenceReactors = {"relay", "started", "observed", "alerts", "concluded"}
    BY DEF IntelligenceReactors
  <2>2. \A p \in DOMAIN IntelligenceReactors : IntelligenceReactors[p] \in (VerifyStage + 1)..Root
    BY <1>2, <2>1 DEF IntelligenceReactors
  <2>3. App = Registered(IntelligenceReactors)
    BY <1>5 DEF App, IntelligenceApp
  <2>4. DOMAIN IntelligenceReactors \cap (Verified \cup {"server"}) = {}
    BY <2>1 DEF Verified
  <2>5. /\ Parts = Verified \cup DOMAIN IntelligenceReactors \cup {"server"} /\ App["server"] = Root
        /\ \A p \in DOMAIN IntelligenceReactors : App[p] = IntelligenceReactors[p]
    BY <2>3, <2>4, RegisteredIs DEF Parts
  <2>6. \A p \in Producers : p \in {"started", "observed", "alerts", "concluded"}
    BY <1>3, <1>5, <2>1, <2>5 DEF Producers, Consumers
  <2>7. App["relay"] = 3 /\ \A p \in {"started", "observed", "alerts", "concluded"} : App[p] = 4
    BY <1>2, <2>1, <2>5 DEF IntelligenceReactors
  <2>8. \A p \in Producers : (p \in DOMAIN IntelligenceReactors \/ p = "server") /\ App["relay"] < App[p]
    BY <2>1, <2>6, <2>7
  <2> QED
    BY <2>1, <2>2, <2>3, <2>4, <2>8, StagesFrom
<1>6. CASE service = "command"
  <2>1. DOMAIN CommandReactors = {"relay", "started", "assessed", "concluded"}
    BY DEF CommandReactors
  <2>2. \A p \in DOMAIN CommandReactors : CommandReactors[p] \in (VerifyStage + 1)..Root
    BY <1>2, <2>1 DEF CommandReactors
  <2>3. App = Registered(CommandReactors)
    BY <1>6 DEF App, CommandApp
  <2>4. DOMAIN CommandReactors \cap (Verified \cup {"server"}) = {}
    BY <2>1 DEF Verified
  <2>5. /\ Parts = Verified \cup DOMAIN CommandReactors \cup {"server"} /\ App["server"] = Root
        /\ \A p \in DOMAIN CommandReactors : App[p] = CommandReactors[p]
    BY <2>3, <2>4, RegisteredIs DEF Parts
  <2>6. \A p \in Producers : p \in {"started", "assessed", "concluded"}
    BY <1>3, <1>6, <2>1, <2>5 DEF Producers, Consumers
  <2>7. App["relay"] = 3 /\ \A p \in {"started", "assessed", "concluded"} : App[p] = 4
    BY <1>2, <2>1, <2>5 DEF CommandReactors
  <2>8. \A p \in Producers : (p \in DOMAIN CommandReactors \/ p = "server") /\ App["relay"] < App[p]
    BY <2>1, <2>6, <2>7
  <2> QED
    BY <2>1, <2>2, <2>3, <2>4, <2>8, StagesFrom
<1>7. CASE service = "operations"
  <2>1. DOMAIN OperationsReactors = {"relay", "started", "directives", "observed", "concluded"}
    BY DEF OperationsReactors
  <2>2. \A p \in DOMAIN OperationsReactors : OperationsReactors[p] \in (VerifyStage + 1)..Root
    BY <1>2, <2>1 DEF OperationsReactors
  <2>3. App = Registered(OperationsReactors)
    BY <1>7 DEF App, OperationsApp
  <2>4. DOMAIN OperationsReactors \cap (Verified \cup {"server"}) = {}
    BY <2>1 DEF Verified
  <2>5. /\ Parts = Verified \cup DOMAIN OperationsReactors \cup {"server"} /\ App["server"] = Root
        /\ \A p \in DOMAIN OperationsReactors : App[p] = OperationsReactors[p]
    BY <2>3, <2>4, RegisteredIs DEF Parts
  <2>6. \A p \in Producers : p \in {"started", "directives", "observed", "concluded"}
    BY <1>3, <1>7, <2>1, <2>5 DEF Producers, Consumers
  <2>7. App["relay"] = 3 /\ \A p \in {"started", "directives", "observed", "concluded"} : App[p] = 4
    BY <1>2, <2>1, <2>5 DEF OperationsReactors
  <2>8. \A p \in Producers : (p \in DOMAIN OperationsReactors \/ p = "server") /\ App["relay"] < App[p]
    BY <2>1, <2>6, <2>7
  <2> QED
    BY <2>1, <2>2, <2>3, <2>4, <2>8, StagesFrom
<1> QED
  BY <1>1, <1>4, <1>5, <1>6, <1>7

-----------------------------------------------------------------------------
(* A process's steps.                                                      *)

USE DEF process, work, stream

\* What is registered does not change.
LEMMA SameParts ==
    ASSUME service' = service
    PROVE  App' = App /\ Parts' = Parts /\ Consumers' = Consumers /\ Reactors' = Reactors
BY DEF App, Parts, Consumers, Reactors

LEMMA ProcessInitInv == Init => ProcessInv
<1> SUFFICES ASSUME Init PROVE ProcessInv
  OBVIOUS
<1>1. DOMAIN bound = {}
  BY DEF Init
<1>2. Layered
  BY Stages DEF Init, Layered
<1>3. NothingOwed /\ BoundAhead
  BY <1>1 DEF Init, NothingOwed, BoundAhead, NothingSkipped
<1> QED
  BY <1>2, <1>3 DEF ProcessInv

\* Starting the lowest part, or stopping the highest, keeps the layers.
LEMMA LayeredStep == Layered /\ [Next]_vars => Layered'
<1> SUFFICES ASSUME Layered, [Next]_vars PROVE Layered'
  OBVIOUS
<1>0. StagesAre /\ App' = App /\ Parts' = Parts
  <2>1. service' = service
    BY DEF Next, Coordinate, Boot, Start, StartFails, Serve, Drain, Stop, End, Die, Fail, Commit,
           Publish, Bind, Tick, PassBegins, PassEnds, NextEvent, vars
  <2> QED
    BY <2>1, SameParts, Stages DEF Layered
<1> USE DEF Layered
<1>1. ASSUME NEW p \in Parts, Start(p) PROVE Layered'
  <2>1. p \in Parts \ up /\ \A q \in Parts \ up : App[p] <= App[q]
    BY <1>1 DEF Start, Lowest
  <2>2. \A q \in Parts : App[q] < App[p] => q \in up
    BY <1>0, <2>1 DEF StagesAre
  <2> QED
    BY <1>0, <1>1, <2>1, <2>2 DEF Start
<1>2. ASSUME NEW p \in Parts, Stop(p) PROVE Layered'
  <2>1. p \in up /\ \A q \in up : App[p] >= App[q]
    BY <1>2 DEF Stop, Highest
  <2>2. \A q \in up : ~(App[p] < App[q])
    BY <1>0, <2>1 DEF StagesAre
  <2> QED
    BY <1>0, <1>2, <2>1, <2>2 DEF Stop
<1>3. CASE Coordinate
  BY <1>0, <1>3 DEF Coordinate, Boot, StartFails, Serve, End, Die, Drain
<1>4. CASE UNCHANGED <<service, phase, up>>
  BY <1>0, <1>4
<1> QED
  BY <1>1, <1>2, <1>3, <1>4
     DEF Next, Fail, Commit, Bind, Publish, Tick, PassBegins, PassEnds, NextEvent, vars

\* Once the relay is drained, what raises events has been drained before it.
LEMMA OwedStep == Layered /\ NothingOwed /\ [Next]_vars => NothingOwed'
<1> SUFFICES ASSUME Layered, NothingOwed, [Next]_vars PROVE NothingOwed'
  OBVIOUS
<1>0. StagesAre
  BY Stages DEF Layered
<1> USE DEF NothingOwed
<1>1. CASE Coordinate
  <2>1. CASE \E s \in BOOLEAN : Drain(s)
    <3>1. "relay" \in up'
      BY <1>0, <2>1 DEF Drain, Layered, StagesAre
    <3> QED
      BY <2>1, <3>1 DEF Drain
  <2> QED
    BY <1>1, <2>1 DEF Coordinate, Boot, StartFails, Serve, End, Die
<1>2. ASSUME NEW p \in Parts, Start(p) PROVE NothingOwed'
  BY <1>2 DEF Start
<1>3. ASSUME NEW p \in Parts, Stop(p) PROVE NothingOwed'
  BY <1>3 DEF Stop, Holds
<1>4. ASSUME NEW p \in Parts, Fail(p) PROVE NothingOwed'
  BY <1>4 DEF Fail
<1>5. ASSUME NEW p \in Parts, Commit(p) PROVE NothingOwed'
  <2>1. p \in up /\ p \in Producers
    BY <1>5 DEF Commit, Works
  <2>2. "relay" \in up
    BY <1>0, <2>1 DEF StagesAre, Layered
  <2> QED
    BY <1>5, <2>2 DEF Commit
<1>6. CASE Publish
  BY <1>6 DEF Publish, Works
<1>7. CASE UNCHANGED <<phase, up, rows, cut, failed>>
  BY <1>7
<1> QED
  BY <1>1, <1>2, <1>3, <1>4, <1>5, <1>6, <1>7
     DEF Next, Bind, Tick, PassBegins, PassEnds, NextEvent, vars

\* The first event comes by once every consumer is bound; none is bound anew.
LEMMA BoundStep == Layered /\ BoundAhead /\ [Next]_vars => BoundAhead'
<1> SUFFICES ASSUME Layered, BoundAhead, [Next]_vars PROVE BoundAhead'
  OBVIOUS
<1>0. Consumers' = Consumers
  <2>1. service' = service
    BY DEF Next, Coordinate, Boot, Start, StartFails, Serve, Drain, Stop, End, Die, Fail, Commit,
           Publish, Bind, Tick, PassBegins, PassEnds, NextEvent, vars
  <2> QED
    BY <2>1, SameParts
<1> USE DEF BoundAhead, NothingSkipped
<1>1. ASSUME NEW c \in Consumers, Bind(c) PROVE BoundAhead'
  <2> DEFINE added == [x \in {c} |-> past]
  <2>1. /\ bound' = With(bound, added) /\ past' = past /\ receiving' = receiving \cup {c}
    BY <1>1 DEF Bind
  <2>2. DOMAIN added = {c} /\ added[c] = past
    OBVIOUS
  <2> HIDE DEF added
  <2>3. /\ DOMAIN bound' = DOMAIN bound \cup {c}
        /\ \A x \in DOMAIN bound : bound'[x] = bound[x]
        /\ c \notin DOMAIN bound => bound'[c] = past
    BY <2>1, <2>2 DEF With
  <2>4. past = 0 => \A x \in DOMAIN bound' : bound'[x] = 0
    BY <2>3
  <2>5. past > 0 => \A x \in Consumers : x \in DOMAIN bound' /\ bound'[x] < Position(x)
    BY <2>3
  <2> QED
    BY <1>0, <2>1, <2>3, <2>4, <2>5 DEF Position
<1>2. CASE NextEvent
  <2>1. past' = past + 1 /\ bound' = bound /\ receiving' = receiving
    BY <1>2 DEF NextEvent
  <2>2. \A c \in Consumers : c \in DOMAIN bound /\ bound[c] < Position(c)
    <3>1. CASE past = 0
      <4>1. \A c \in Consumers : c \in DOMAIN bound /\ bound[c] = 0
        BY <1>2, <3>1 DEF NextEvent, Ready
      <4> QED
        BY <4>1 DEF Position, Events
    <3>2. CASE past > 0
      BY <3>2
    <3> QED
      BY <3>1, <3>2
  <2> QED
    BY <1>0, <2>1, <2>2 DEF Position
<1>3. CASE UNCHANGED <<bound, past>> /\ receiving' \subseteq receiving
  BY <1>0, <1>3 DEF Position
<1> QED
  BY <1>1, <1>2, <1>3 DEF Next, Coordinate, Boot, Start, StartFails, Serve, Drain, Stop, End, Die, Fail,
     Commit, Publish, Tick, PassBegins, PassEnds, vars

LEMMA ProcessInvariance == Spec => []ProcessInv
<1>1. ProcessInv /\ [Next]_vars => ProcessInv'
  BY LayeredStep, OwedStep, BoundStep DEF ProcessInv
<1> QED
  BY ProcessInitInv, <1>1, PTL DEF Spec

-----------------------------------------------------------------------------
(* Its theorems.                                                           *)

\* No consumer, relay, resolver or server runs but on a database whose schema
\* is applied and statements verified, booting and draining included.
THEOREM RunsVerified == Spec => []StandsOnVerified
<1>1. ProcessInv => StandsOnVerified
  <2> SUFFICES ASSUME ProcessInv, NEW p \in up \cap (Reactors \cup {"server"}) PROVE DOMAIN Base \subseteq up
    BY DEF StandsOnVerified
  <2>1. StagesAre
    BY Stages DEF ProcessInv, Layered
  <2> QED
    BY <2>1, BaseIs DEF ProcessInv, Layered, StagesAre
<1> QED
  BY ProcessInvariance, <1>1, PTL

\* A process that drained to its end has published all that was committed: the
\* relay is drained after whatever raises events.
THEOREM DrainedIsPublished == Spec => []DrainLeavesNothing
<1>1. ProcessInv => DrainLeavesNothing
  BY DEF ProcessInv, Layered, NothingOwed, DrainLeavesNothing
<1> QED
  BY ProcessInvariance, <1>1, PTL

\* An exercise started while the service is ready reaches each consumer whole,
\* through whatever restarts: a durable consumer keeps its place.
THEOREM PlayedWhole == Spec => []NothingSkipped
<1>1. ProcessInv => NothingSkipped
  BY DEF ProcessInv, BoundAhead
<1> QED
  BY ProcessInvariance, <1>1, PTL

CourierSpec == CourierInit /\ [][CourierNext]_courierVars

-----------------------------------------------------------------------------
(* A run of a scenario: the inductive invariant.                           *)

\* Where a run may be, and what it starts from.
Placed ==
    /\ scenario \in Scenarios
    /\ run \in {"new", "steps", "cleanup", "over"}
    /\ step \in Nat /\ step <= Len(Steps)
    /\ lc \in {"new", "starting", "ready", "draining", "ended"}
    /\ leases \subseteq {"broker", "store"}
    /\ run = "new" => /\ at = "between" /\ lc = "new"
                   /\ live = {} /\ leases = {} /\ left = {} /\ cutShort = {}
    /\ run = "steps" /\ at # "between" =>
         /\ step < Len(Steps)
         /\ Step = "stop" <=> at \in {"stop", "stopping"}
         /\ at \in {"start", "acquired"} => Step = "start"
    /\ run = "cleanup" => at \in {"drain", "draining", "release", "close"}
    /\ run = "over" => at = "between"

\* The step that stops the coordinator has seen it end whole, and only a run
\* with all its steps done has no error.
StopIsSeen ==
    /\ \A i \in 1..step : Steps[i] = "stop" => lc = "ended" /\ lcErr = "none"
    /\ run \in {"cleanup", "over"} /\ errors = {} => step = Len(Steps)

\* Reactors run only while the coordinator does, but for the drain scenario's
\* member, which its step shuts down.
OnlyDriven ==
    /\ live \subseteq ScenarioReactors \cup {"member"}
    /\ "member" \in live => In("joined")
    /\ lc = "new" => live \subseteq {"member"}
    /\ lc = "ended" => live \subseteq {"member"} \/ lcErr = "timeout"
    /\ run \in {"cleanup", "over"} /\ at \in {"release", "close", "between"} => lc \in {"new", "ended"}

\* What of the run's is on the servers is leased, until it is released, or an
\* error names it, or its create was cut short.
Accounted ==
    /\ left \subseteq errors \cup cutShort \cup UNION {Leased(w) : w \in leases}
    /\ run \in {"cleanup", "over"} /\ at \in {"close", "between"} => "broker" \notin leases
    /\ run = "over" => leases = {}
    /\ Scenario.asks = "join" /\ (lc \in {"starting", "ready", "draining"} \/ In("acquired")) =>
         "broker" \in leases

CourierInv == Placed /\ StopIsSeen /\ OnlyDriven /\ Accounted

-----------------------------------------------------------------------------
(* The scenarios.                                                          *)

\* The stages of a scenario's steps that the proofs need: it starts the
\* coordinator before it stops it, once; its watch is on a joined broker.
WellFormed(s) ==
    /\ Len(s.steps) \in Nat
    /\ \E i \in 1..Len(s.steps) : s.steps[i] = "stop"
    /\ \A i \in 1..Len(s.steps) : s.steps[i] \in {"start", "await", "wait", "check", "store", "stop", "member"}
    /\ \A i, j \in 1..Len(s.steps) : s.steps[i] = "stop" /\ i < j => s.steps[j] # "start"
    /\ s.opens \in {"none", "await", "wait"}
    /\ "watch" \in DOMAIN s.reactors => s.asks = "join"
    /\ "member" \notin DOMAIN s.reactors

LEMMA ScenariosAre ==
    /\ WellFormed(EveryScenario)
    /\ WellFormed(GroupScenario)
    /\ WellFormed(RetryScenario)
    /\ WellFormed(PermanentScenario)
    /\ WellFormed(DrainScenario)
    /\ WellFormed(OutboxScenario)
    /\ WellFormed(RequestScenario)
    /\ WellFormed(DirectivesScenario)
    /\ WellFormed(AssessmentsScenario)
    /\ WellFormed(TheaterScenario)
    /\ WellFormed(TheaterCheckScenario)
<1>1. WellFormed(EveryScenario)
  BY DEF WellFormed, EveryScenario
<1>2. WellFormed(GroupScenario)
  BY DEF WellFormed, GroupScenario
<1>3. WellFormed(RetryScenario)
  BY DEF WellFormed, RetryScenario
<1>4. WellFormed(PermanentScenario)
  BY DEF WellFormed, PermanentScenario
<1>5. WellFormed(DrainScenario)
  BY DEF WellFormed, DrainScenario
<1>6. WellFormed(OutboxScenario)
  BY DEF WellFormed, OutboxScenario
<1>7. WellFormed(RequestScenario)
  BY DEF WellFormed, RequestScenario
<1>8. WellFormed(DirectivesScenario)
  BY DEF WellFormed, DirectivesScenario
<1>9. WellFormed(AssessmentsScenario)
  BY DEF WellFormed, AssessmentsScenario
<1>10. WellFormed(TheaterScenario)
  BY DEF WellFormed, TheaterScenario
<1>11. WellFormed(TheaterCheckScenario)
  BY DEF WellFormed, TheaterCheckScenario
<1> QED
  BY <1>1, <1>2, <1>3, <1>4, <1>5, <1>6, <1>7, <1>8, <1>9, <1>10, <1>11

LEMMA ScenarioIs == scenario \in Scenarios => WellFormed(Scenario)
<1> SUFFICES ASSUME scenario \in Scenarios PROVE WellFormed(Scenario)
  OBVIOUS
<1>1. CASE scenario = "every"
  BY <1>1, ScenariosAre DEF Scenario
<1>2. CASE scenario = "group"
  BY <1>2, ScenariosAre DEF Scenario
<1>3. CASE scenario = "retry"
  BY <1>3, ScenariosAre DEF Scenario
<1>4. CASE scenario = "permanent"
  BY <1>4, ScenariosAre DEF Scenario
<1>5. CASE scenario = "drain"
  BY <1>5, ScenariosAre DEF Scenario
<1>6. CASE scenario = "outbox"
  BY <1>6, ScenariosAre DEF Scenario
<1>7. CASE scenario = "request"
  BY <1>7, ScenariosAre DEF Scenario
<1>8. CASE scenario = "directives"
  BY <1>8, ScenariosAre DEF Scenario
<1>9. CASE scenario = "assessments"
  BY <1>9, ScenariosAre DEF Scenario
<1>10. CASE scenario = "theater"
  BY <1>10, ScenariosAre DEF Scenario
<1>11. CASE scenario = "theater-check"
  BY <1>11, ScenariosAre DEF Scenario
<1> QED
  BY <1>1, <1>2, <1>3, <1>4, <1>5, <1>6, <1>7, <1>8, <1>9, <1>10, <1>11, CourierAssumption

LEMMA SameScenario ==
    ASSUME scenario' = scenario
    PROVE  Scenario' = Scenario /\ Steps' = Steps /\ ScenarioReactors' = ScenarioReactors
BY DEF Scenario, Steps, ScenarioReactors

-----------------------------------------------------------------------------
(* A run's steps.                                                          *)

USE DEF target, coordinator, servers, Done, FailsWith, In, Cleaning, Ending, Step

LEMMA CourierInitInv == CourierInit => CourierInv
<1> SUFFICES ASSUME CourierInit PROVE CourierInv
  OBVIOUS
<1>1. WellFormed(Scenario)
  BY ScenarioIs DEF CourierInit
<1>2. Placed
  BY <1>1 DEF CourierInit, Placed, WellFormed, Steps
<1> QED
  BY <1>2 DEF CourierInit, CourierInv, StopIsSeen, OnlyDriven, Accounted

\* The program's steps that leave the parts of the invariant as they are: the
\* scenario is the command line's, and its steps are as they are written.
LEMMA SameTarget ==
    ASSUME [CourierNext]_courierVars
    PROVE  Scenario' = Scenario /\ Steps' = Steps /\ ScenarioReactors' = ScenarioReactors /\ scenario' = scenario
<1>1. scenario' = scenario
  BY DEF CourierNext, RunSteps, CoordinatorSteps, CourierFaults, Refuse, BeginSteps, Enter, LeaveSteps,
         Check, Await, WaitFails, WaitDone, Acquire, Store, Launch, Launched, StopStep, Stopped,
         StartMember, StopMember, CancelLeft, Drained, ReleaseBroker, CloseStore, Release, BecomeReady,
         BeginDrain, EndCoordinator, Interrupt, BindWatch, StartReactor, StopReactor, Break, Land,
         courierVars
<1> QED
  BY <1>1, SameScenario

\* A step of the run is begun, and left, where its kind says.
LEMMA PlacedStep == CourierInv /\ [CourierNext]_courierVars => Placed'
<1> SUFFICES ASSUME CourierInv, [CourierNext]_courierVars PROVE Placed'
  OBVIOUS
<1>0. Scenario' = Scenario /\ Steps' = Steps /\ ScenarioReactors' = ScenarioReactors /\ scenario' = scenario
  BY SameTarget
<1>w. WellFormed(Scenario)
  BY ScenarioIs DEF CourierInv, Placed
<1> USE DEF CourierInv, Placed, StopIsSeen, OnlyDriven, Accounted
<1>1. CASE Refuse \/ BeginSteps
  BY <1>0, <1>1 DEF Refuse, BeginSteps
<1>2. CASE Enter
  BY <1>0, <1>w, <1>2 DEF Enter, WellFormed, Steps
<1>3. CASE LeaveSteps
  BY <1>0, <1>3 DEF LeaveSteps
<1>4. CASE Check
  BY <1>0, <1>w, <1>4 DEF Check, WellFormed, Steps
<1>5. CASE Await
  BY <1>0, <1>w, <1>5 DEF Await, WellFormed, Steps
<1>6. CASE WaitFails
  BY <1>0, <1>6 DEF WaitFails
<1>7. CASE WaitDone
  BY <1>0, <1>w, <1>7 DEF WaitDone, WellFormed, Steps
<1>8. CASE Acquire
  BY <1>0, <1>8 DEF Acquire, ScratchFails
<1>9. CASE Store
  <2>1. leases' \subseteq {"broker", "store"} /\ run = "steps" /\ UNCHANGED lc
    BY <1>9 DEF Store
  <2>2. CASE Done
    BY <1>0, <1>w, <1>9, <2>1, <2>2 DEF Store, WellFormed, Steps
  <2>3. CASE run' = "cleanup" /\ at' = "drain" /\ UNCHANGED step
    BY <1>0, <2>1, <2>3
  <2> QED
    BY <1>9, <2>2, <2>3 DEF Store
<1>10. CASE Launch
  BY <1>0, <1>10 DEF Launch
<1>11. CASE Launched
  BY <1>0, <1>w, <1>11 DEF Launched, WellFormed, Steps
<1>12. CASE StopStep
  BY <1>0, <1>12 DEF StopStep
<1>13. CASE Stopped
  BY <1>0, <1>w, <1>13 DEF Stopped, WellFormed, Steps
<1>14. CASE StartMember
  BY <1>0, <1>w, <1>14 DEF StartMember, WellFormed, Steps
<1>15. CASE StopMember
  BY <1>0, <1>w, <1>15 DEF StopMember, WellFormed, Steps
<1>16. CASE CancelLeft \/ Drained
  BY <1>0, <1>16 DEF CancelLeft, Drained
<1>17. CASE ReleaseBroker \/ CloseStore
  BY <1>0, <1>17 DEF ReleaseBroker, CloseStore, Release
<1>18. CASE BecomeReady \/ BeginDrain \/ EndCoordinator
  BY <1>0, <1>18 DEF BecomeReady, BeginDrain, EndCoordinator
<1>19. CASE Interrupt
  BY <1>0, <1>19 DEF Interrupt
<1>20. CASE BindWatch
  BY <1>0, <1>20 DEF BindWatch
<1>21. ASSUME NEW r \in ScenarioReactors, StartReactor(r) PROVE Placed'
  BY <1>0, <1>21 DEF StartReactor
<1>22. ASSUME NEW r \in ScenarioReactors, NEW whole \in BOOLEAN, StopReactor(r, whole) PROVE Placed'
  BY <1>0, <1>22 DEF StopReactor
<1>23. ASSUME NEW r \in ScenarioReactors, Break(r) PROVE Placed'
  BY <1>0, <1>23 DEF Break
<1>24. ASSUME NEW what \in cutShort, Land(what) PROVE Placed'
  BY <1>0, <1>24 DEF Land
<1>25. CASE UNCHANGED courierVars
  BY <1>0, <1>25 DEF courierVars
<1> HIDE DEF CourierInv, Placed
<1> QED
  BY <1>1, <1>2, <1>3, <1>4, <1>5, <1>6, <1>7, <1>8, <1>9, <1>10, <1>11, <1>12, <1>13, <1>14, <1>15, <1>16, <1>17, <1>18, <1>19, <1>20, <1>21, <1>22, <1>23, <1>24, <1>25 DEF CourierNext, RunSteps, CoordinatorSteps, CourierFaults

\* The steps that are done included the one that stops the coordinator.
LEMMA StopIsSeenStep == CourierInv /\ [CourierNext]_courierVars => StopIsSeen'
<1> SUFFICES ASSUME CourierInv, [CourierNext]_courierVars PROVE StopIsSeen'
  OBVIOUS
<1>0. Scenario' = Scenario /\ Steps' = Steps /\ ScenarioReactors' = ScenarioReactors /\ scenario' = scenario
  BY SameTarget
<1>w. WellFormed(Scenario)
  BY ScenarioIs DEF CourierInv, Placed
<1> USE DEF CourierInv, Placed, StopIsSeen, OnlyDriven, Accounted
<1>f. ASSUME UNCHANGED <<step, lc, lcErr>>,
             run' \in {"cleanup", "over"} /\ errors' = {} => run \in {"cleanup", "over"} /\ errors = {}
      PROVE  StopIsSeen'
  BY <1>0, <1>f
<1>d. ASSUME run = "steps", step < Len(Steps), Step # "stop", Done, UNCHANGED <<lc, lcErr>>
      PROVE  StopIsSeen'
  BY <1>0, <1>d
<1>1. CASE Refuse \/ BeginSteps
  BY <1>f, <1>1 DEF Refuse, BeginSteps
<1>2. CASE Enter
  BY <1>f, <1>2 DEF Enter
<1>3. CASE LeaveSteps
  BY <1>0, <1>w, <1>3 DEF LeaveSteps, WellFormed, Steps
<1>4. CASE Check
  BY <1>f, <1>d, <1>4 DEF Check
<1>5. CASE Await
  BY <1>f, <1>d, <1>5 DEF Await
<1>6. CASE WaitFails
  BY <1>f, <1>6 DEF WaitFails
<1>7. CASE WaitDone
  BY <1>d, <1>7 DEF WaitDone
<1>8. CASE Acquire
  BY <1>f, <1>8 DEF Acquire, ScratchFails
<1>9. CASE Store
  BY <1>f, <1>d, <1>9 DEF Store
<1>10. CASE Launch
  <2>1. CASE lc' = "starting" /\ Step = "start" /\ UNCHANGED <<run, step, errors>>
    <3>1. \A i \in 1..step : Steps[i] # "stop"
      BY <1>w, <1>10, <2>1 DEF Launch, WellFormed, Steps
    <3> QED
      BY <1>0, <1>10, <2>1, <3>1 DEF Launch
  <2> QED
    BY <1>f, <1>10, <2>1 DEF Launch
<1>11. CASE Launched
  BY <1>f, <1>d, <1>11 DEF Launched
<1>12. CASE StopStep
  BY <1>f, <1>12 DEF StopStep
<1>13. CASE Stopped
  <2>1. CASE lcErr = "none"
    BY <1>0, <1>13, <2>1 DEF Stopped
  <2> QED
    BY <1>f, <1>13, <2>1 DEF Stopped
<1>14. CASE StartMember
  BY <1>f, <1>14 DEF StartMember
<1>15. CASE StopMember
  BY <1>f, <1>d, <1>15 DEF StopMember
<1>16. CASE CancelLeft \/ Drained
  BY <1>f, <1>16 DEF CancelLeft, Drained
<1>17. CASE ReleaseBroker \/ CloseStore
  BY <1>f, <1>17 DEF ReleaseBroker, CloseStore, Release
<1>18. CASE BecomeReady \/ BeginDrain \/ EndCoordinator
  BY <1>0, <1>18 DEF BecomeReady, BeginDrain, EndCoordinator
<1>19. CASE Interrupt \/ BindWatch
  BY <1>f, <1>19 DEF Interrupt, BindWatch
<1>20. ASSUME NEW r \in ScenarioReactors, StartReactor(r) PROVE StopIsSeen'
  BY <1>f, <1>20 DEF StartReactor
<1>21. ASSUME NEW r \in ScenarioReactors, NEW whole \in BOOLEAN, StopReactor(r, whole) PROVE StopIsSeen'
  BY <1>0, <1>21 DEF StopReactor
<1>22. ASSUME NEW r \in ScenarioReactors, Break(r) PROVE StopIsSeen'
  BY <1>f, <1>22 DEF Break
<1>23. ASSUME NEW what \in cutShort, Land(what) PROVE StopIsSeen'
  BY <1>f, <1>23 DEF Land
<1>24. CASE UNCHANGED courierVars
  BY <1>0, <1>24 DEF courierVars
<1> HIDE DEF CourierInv, StopIsSeen
<1> QED
  BY <1>1, <1>2, <1>3, <1>4, <1>5, <1>6, <1>7, <1>8, <1>9, <1>10, <1>11, <1>12, <1>13, <1>14, <1>15, <1>16, <1>17, <1>18, <1>19, <1>20, <1>21, <1>22, <1>23, <1>24 DEF CourierNext, RunSteps, CoordinatorSteps, CourierFaults

\* Reactors come and go with the coordinator.
LEMMA OnlyDrivenStep == CourierInv /\ [CourierNext]_courierVars => OnlyDriven'
<1> SUFFICES ASSUME CourierInv, [CourierNext]_courierVars PROVE OnlyDriven'
  OBVIOUS
<1>0. Scenario' = Scenario /\ Steps' = Steps /\ ScenarioReactors' = ScenarioReactors /\ scenario' = scenario
  BY SameTarget
<1>w. WellFormed(Scenario)
  BY ScenarioIs DEF CourierInv, Placed
<1> USE DEF CourierInv, Placed, StopIsSeen, OnlyDriven, Accounted
<1>1. CASE Refuse \/ BeginSteps
  BY <1>0, <1>1 DEF Refuse, BeginSteps
<1>2. CASE Enter
  BY <1>0, <1>2 DEF Enter
<1>3. CASE LeaveSteps
  BY <1>0, <1>3 DEF LeaveSteps
<1>4. CASE Check \/ Await \/ WaitFails \/ WaitDone
  BY <1>0, <1>4 DEF Check, Await, WaitFails, WaitDone
<1>5. CASE Acquire
  BY <1>0, <1>5 DEF Acquire, ScratchFails
<1>6. CASE Store
  BY <1>0, <1>6 DEF Store
<1>7. CASE Launch
  BY <1>0, <1>7 DEF Launch
<1>8. CASE Launched
  BY <1>0, <1>8 DEF Launched
<1>9. CASE StopStep \/ Stopped
  BY <1>0, <1>9 DEF StopStep, Stopped
<1>10. CASE StartMember \/ StopMember
  BY <1>0, <1>10 DEF StartMember, StopMember
<1>11. CASE CancelLeft \/ Drained
  BY <1>0, <1>11 DEF CancelLeft, Drained
<1>12. CASE ReleaseBroker \/ CloseStore
  BY <1>0, <1>12 DEF ReleaseBroker, CloseStore, Release
<1>13. CASE BecomeReady
  BY <1>0, <1>13 DEF BecomeReady
<1>14. CASE BeginDrain
  BY <1>0, <1>14 DEF BeginDrain
<1>15. CASE EndCoordinator
  BY <1>0, <1>15 DEF EndCoordinator
<1>16. CASE Interrupt
  BY <1>0, <1>16 DEF Interrupt
<1>17. CASE BindWatch
  BY <1>0, <1>17 DEF BindWatch
<1>18. ASSUME NEW r \in ScenarioReactors, StartReactor(r) PROVE OnlyDriven'
  BY <1>0, <1>w, <1>18 DEF StartReactor, WellFormed, ScenarioReactors
<1>19. ASSUME NEW r \in ScenarioReactors, NEW whole \in BOOLEAN, StopReactor(r, whole) PROVE OnlyDriven'
  BY <1>0, <1>19 DEF StopReactor
<1>20. ASSUME NEW r \in ScenarioReactors, Break(r) PROVE OnlyDriven'
  BY <1>0, <1>20 DEF Break
<1>21. ASSUME NEW what \in cutShort, Land(what) PROVE OnlyDriven'
  BY <1>0, <1>21 DEF Land
<1>22. CASE UNCHANGED courierVars
  BY <1>0, <1>22 DEF courierVars
<1> HIDE DEF CourierInv, OnlyDriven
<1> QED
  BY <1>1, <1>2, <1>3, <1>4, <1>5, <1>6, <1>7, <1>8, <1>9, <1>10, <1>11, <1>12, <1>13, <1>14, <1>15, <1>16, <1>17, <1>18, <1>19, <1>20, <1>21, <1>22 DEF CourierNext, RunSteps, CoordinatorSteps, CourierFaults

\* What is created is leased at once, named by an error, or cut short.
LEMMA AccountedStep == CourierInv /\ [CourierNext]_courierVars => Accounted'
<1> SUFFICES ASSUME CourierInv, [CourierNext]_courierVars PROVE Accounted'
  OBVIOUS
<1>0. Scenario' = Scenario /\ Steps' = Steps /\ ScenarioReactors' = ScenarioReactors /\ scenario' = scenario
  BY SameTarget
<1>w. WellFormed(Scenario)
  BY ScenarioIs DEF CourierInv, Placed
<1> USE DEF CourierInv, Placed, StopIsSeen, OnlyDriven, Accounted
<1>g. UNION {Leased(w) : w \in leases} =
        (IF "broker" \in leases THEN {"stream", "consumer"} ELSE {})
          \cup (IF "store" \in leases THEN {"database"} ELSE {})
  BY DEF Leased
<1>h. leases' \subseteq {"broker", "store"} =>
        UNION {Leased(w) : w \in leases'} =
          (IF "broker" \in leases' THEN {"stream", "consumer"} ELSE {})
            \cup (IF "store" \in leases' THEN {"database"} ELSE {})
  BY DEF Leased
<1>1. CASE Refuse \/ BeginSteps
  BY <1>0, <1>1 DEF Refuse, BeginSteps
<1>2. CASE Enter
  BY <1>0, <1>w, <1>2 DEF Enter, WellFormed, Steps
<1>3. CASE LeaveSteps
  BY <1>0, <1>3 DEF LeaveSteps
<1>4. CASE Check \/ Await \/ WaitFails \/ WaitDone
  BY <1>0, <1>4 DEF Check, Await, WaitFails, WaitDone
<1>5. CASE Acquire
  BY <1>0, <1>g, <1>h, <1>5 DEF Acquire, ScratchFails
<1>6. CASE Store
  BY <1>0, <1>g, <1>h, <1>6 DEF Store
<1>7. CASE Launch
  BY <1>0, <1>7 DEF Launch
<1>8. CASE Launched
  BY <1>0, <1>w, <1>8 DEF Launched, WellFormed, Steps
<1>9. CASE StopStep \/ Stopped
  BY <1>0, <1>9 DEF StopStep, Stopped
<1>10. CASE StartMember \/ StopMember
  BY <1>0, <1>10 DEF StartMember, StopMember
<1>11. CASE CancelLeft \/ Drained
  BY <1>0, <1>11 DEF CancelLeft, Drained
<1>12. CASE ReleaseBroker
  <2>1. CASE "broker" \in leases /\ left' = left \ {"stream", "consumer"}
    BY <1>0, <1>g, <1>h, <1>12, <2>1 DEF ReleaseBroker, Release
  <2>2. CASE "broker" \in leases /\ errors' = errors \cup ({"stream", "consumer"} \cap left) /\ left' = left
    BY <1>0, <1>g, <1>h, <1>12, <2>2 DEF ReleaseBroker, Release
  <2>3. CASE "broker" \notin leases
    BY <1>0, <1>g, <1>h, <1>12, <2>3 DEF ReleaseBroker, Release
  <2> QED
    BY <1>12, <2>1, <2>2, <2>3 DEF ReleaseBroker, Release, Leased
<1>13. CASE CloseStore
  <2>0. leases' = {} /\ lc \in {"new", "ended"} /\ run' = "over" /\ UNCHANGED lc
    BY <1>13 DEF CloseStore, Release
  <2>1. CASE "store" \in leases /\ left' = left \ {"database"}
    BY <1>0, <1>g, <1>h, <1>13, <2>0, <2>1 DEF CloseStore, Release
  <2>2. CASE "store" \in leases /\ errors' = errors \cup ({"database"} \cap left) /\ left' = left
    BY <1>0, <1>g, <1>h, <1>13, <2>0, <2>2 DEF CloseStore, Release
  <2>3. CASE "store" \notin leases
    BY <1>0, <1>g, <1>h, <1>13, <2>0, <2>3 DEF CloseStore, Release
  <2> QED
    BY <1>13, <2>1, <2>2, <2>3 DEF CloseStore, Release, Leased
<1>14. CASE BecomeReady \/ BeginDrain \/ EndCoordinator
  BY <1>0, <1>14 DEF BecomeReady, BeginDrain, EndCoordinator
<1>15. CASE Interrupt
  BY <1>0, <1>15 DEF Interrupt
<1>16. CASE BindWatch
  <2>1. "broker" \in leases
    BY <1>w, <1>16 DEF BindWatch, WellFormed, ScenarioReactors
  <2> QED
    BY <1>0, <1>g, <1>16, <2>1 DEF BindWatch, Leased
<1>17. ASSUME NEW r \in ScenarioReactors, StartReactor(r) PROVE Accounted'
  BY <1>0, <1>17 DEF StartReactor
<1>18. ASSUME NEW r \in ScenarioReactors, NEW whole \in BOOLEAN, StopReactor(r, whole) PROVE Accounted'
  BY <1>0, <1>18 DEF StopReactor
<1>19. ASSUME NEW r \in ScenarioReactors, Break(r) PROVE Accounted'
  BY <1>0, <1>19 DEF Break
<1>20. ASSUME NEW what \in cutShort, Land(what) PROVE Accounted'
  BY <1>0, <1>20 DEF Land
<1>21. CASE UNCHANGED courierVars
  BY <1>0, <1>21 DEF courierVars
<1> HIDE DEF CourierInv, Accounted
<1> QED
  BY <1>1, <1>2, <1>3, <1>4, <1>5, <1>6, <1>7, <1>8, <1>9, <1>10, <1>11, <1>12, <1>13, <1>14, <1>15, <1>16, <1>17, <1>18, <1>19, <1>20, <1>21 DEF CourierNext, RunSteps, CoordinatorSteps, CourierFaults

-----------------------------------------------------------------------------
(* Its theorems.                                                           *)

LEMMA CourierInvariance == CourierSpec => []CourierInv
<1>1. CourierInv /\ [CourierNext]_courierVars => CourierInv'
  BY PlacedStep, StopIsSeenStep, OnlyDrivenStep, AccountedStep DEF CourierInv
<1> QED
  BY CourierInitInv, <1>1, PTL DEF CourierSpec

\* However a run ends, what it leaves on the servers is what its errors name or
\* what a create that was cut short made afterwards; and a run without an error
\* had all its steps and its coordinator drained whole.
THEOREM LeavesNothing == CourierSpec => []NothingLeft
<1>1. CourierInv => NothingLeft
  <2> SUFFICES ASSUME CourierInv, run = "over" PROVE NothingLeft
    BY DEF NothingLeft
  <2>1. WellFormed(Scenario)
    BY ScenarioIs DEF CourierInv, Placed
  <2>2. leases = {}
    BY DEF CourierInv, Accounted
  <2>3. left \subseteq errors \cup cutShort
    BY <2>2 DEF CourierInv, Accounted
  <2>4. ASSUME errors = {} PROVE step = Len(Steps) /\ lc = "ended" /\ lcErr = "none"
    <3>1. step = Len(Steps)
      BY <2>4 DEF CourierInv, StopIsSeen
    <3>2. PICK i \in 1..step : Steps[i] = "stop"
      BY <2>1, <3>1 DEF WellFormed, Steps
    <3> QED
      BY <3>1, <3>2 DEF CourierInv, StopIsSeen
  <2> QED
    BY <2>3, <2>4 DEF NothingLeft
<1> QED
  BY CourierInvariance, <1>1, PTL

\* What the run holds is released only with its reactors down, unless the drain
\* ran out of its time.
THEOREM ReleasesAfterDrain == CourierSpec => []ReleasedAfterDrain
<1>1. CourierInv => ReleasedAfterDrain
  BY DEF CourierInv, Placed, OnlyDriven, ReleasedAfterDrain
<1> QED
  BY CourierInvariance, <1>1, PTL

\* Every step of Theater is one of Courier's, or leaves the run of the scenario
\* as it is: what holds of Courier holds with the narrator, and of every other
\* scenario that Theater runs.
THEOREM TheaterIsARun == TheaterSpec => CourierSpec
<1>1. TheaterInit => CourierInit
  BY DEF TheaterInit
<1>2. [TheaterNext]_theaterVars => [CourierNext]_courierVars
  <2> SUFFICES ASSUME [TheaterNext]_theaterVars PROVE [CourierNext]_courierVars
    OBVIOUS
  <2>1. ASSUME NEW e, Bring(e) PROVE UNCHANGED courierVars
    BY <2>1 DEF Bring
  <2>2. CASE Stream
    <3>1. CASE BringAgain
      BY <2>1, <3>1 DEF BringAgain
    <3>2. CASE Exercise
      BY <2>1, <3>2 DEF Exercise
    <3>3. ASSUME NEW f \in Served, Observe(f) \/ Alert(f) PROVE UNCHANGED courierVars
      BY <2>1, <3>3 DEF Observe, Alert, Assess
    <3>4. ASSUME NEW f \in Served, Direct(f) \/ Order(f) PROVE UNCHANGED courierVars
      BY <2>1, <3>4 DEF Direct, Order
    <3> QED
      BY <2>2, <3>1, <3>2, <3>3, <3>4 DEF Stream
  <2>3. CASE Narrate
    BY <2>3 DEF Narrate
  <2>4. CASE NarratorWaits \/ OtherWaits
    BY <2>4 DEF NarratorWaits, OtherWaits, CourierNext
  <2>5. CASE Results
    BY <2>5 DEF Results, Check, CourierNext, RunSteps
  <2>6. CASE TheaterRunSteps
    BY <2>6 DEF TheaterRunSteps, CourierNext
  <2>7. CASE CoordinatorSteps
    BY <2>7 DEF CourierNext
  <2>8. CASE RunFaults
    BY <2>8 DEF RunFaults, CourierNext
  <2>9. CASE UNCHANGED theaterVars
    BY <2>9 DEF theaterVars
  <2> QED
    BY <2>2, <2>3, <2>4, <2>5, <2>6, <2>7, <2>8, <2>9 DEF TheaterNext
<1> QED
  BY <1>1, <1>2, PTL DEF TheaterSpec, CourierSpec

\* So it is of the scenarios as they are run with the narrator.
COROLLARY TheaterLeavesNothing == TheaterSpec => []NothingLeft /\ []ReleasedAfterDrain
BY LeavesNothing, ReleasesAfterDrain, TheaterIsARun

HIDE DEF target, coordinator, servers, Done, FailsWith, In, Cleaning, Ending, Step

-----------------------------------------------------------------------------
(* Bags of changes and of what is told of them.                            *)

Known == {Holder[r] : r \in Rounds} \cup {Nobody}
ChangeSet == [round : Rounds, side : Factions \cup {"observer"},
              what : {"captures", "loses", "orders", "knows", "decides"},
              came : {"timely", "late", "after"}]
SayingSet == [change : ChangeSet, told : {"timely", "late"}]

BagsOver(S) == UNION {[D -> Nat \ {0}] : D \in SUBSET S}

\* The rounds are those up to the last.
LEMMA RoundsAre == FinalRound \in Nat /\ Rounds = 0..FinalRound
BY TheaterAssumption DEF FinalRound, Rounds

\* A bag is a function from a set of what it holds to how often it does.
LEMMA BagIs ==
    ASSUME NEW S, NEW B \in BagsOver(S)
    PROVE  /\ BagToSet(B) \in SUBSET S
           /\ \A c \in BagToSet(B) : c \in S /\ B[c] \in Nat \ {0}
           /\ B = [c \in BagToSet(B) |-> B[c]]
           /\ \A c : CountOf(c, B) \in Nat /\ (CountOf(c, B) > 0 <=> c \in BagToSet(B))
<1>1. PICK D \in SUBSET S : B \in [D -> Nat \ {0}]
  BY DEF BagsOver
<1>2. DOMAIN B = D
  BY <1>1
<1> QED
  BY <1>1, <1>2 DEF BagToSet, CountOf

\* Any such function is a bag.
LEMMA BagMade ==
    ASSUME NEW S, NEW D \in SUBSET S, NEW B \in [D -> Nat \ {0}]
    PROVE  B \in BagsOver(S)
BY DEF BagsOver

\* Bags with the same counts are the same.
LEMMA SameBags ==
    ASSUME NEW S, NEW A \in BagsOver(S), NEW B \in BagsOver(S),
           \A c \in S : CountOf(c, A) = CountOf(c, B)
    PROVE  A = B
<1>1. BagToSet(A) = BagToSet(B)
  BY BagIs
<1>2. \A c \in BagToSet(A) : A[c] = B[c]
  BY <1>1, BagIs DEF CountOf
<1> QED
  BY <1>1, <1>2, BagIs

\* The counts of two bags add up in their sum.
LEMMA Joined ==
    ASSUME NEW S, NEW A \in BagsOver(S), NEW B \in BagsOver(S)
    PROVE  /\ A (+) B \in BagsOver(S)
           /\ \A c : CountOf(c, A (+) B) = CountOf(c, A) + CountOf(c, B)
<1> DEFINE D == BagToSet(A) \cup BagToSet(B)
<1>1. A (+) B = [c \in D |-> CountOf(c, A) + CountOf(c, B)]
  BY DEF (+), BagToSet, CountOf
<1>2. D \in SUBSET S /\ \A c \in D : CountOf(c, A) + CountOf(c, B) \in Nat \ {0}
  BY BagIs
<1>3. A (+) B \in [D -> Nat \ {0}]
  BY <1>1, <1>2
<1>4. \A c : CountOf(c, A (+) B) = CountOf(c, A) + CountOf(c, B)
  <2> TAKE c
  <2>1. CASE c \in D
    BY <1>1, <2>1 DEF CountOf, BagToSet
  <2>2. CASE c \notin D
    BY <1>1, <2>2 DEF CountOf, BagToSet
  <2> QED
    BY <2>1, <2>2
<1> QED
  BY <1>2, <1>3, <1>4, BagMade

\* What a bag has more of than another is left of it.
LEMMA Lifted ==
    ASSUME NEW S, NEW A \in BagsOver(S), NEW B \in BagsOver(S)
    PROVE  /\ A (-) B \in BagsOver(S)
           /\ \A c : CountOf(c, A (-) B) =
                       IF CountOf(c, A) > CountOf(c, B) THEN CountOf(c, A) - CountOf(c, B) ELSE 0
<1> DEFINE E == [c \in DOMAIN A |-> IF c \in DOMAIN B THEN A[c] - B[c] ELSE A[c]]
           D == {d \in DOMAIN A : E[d] > 0}
<1>1. A (-) B = [c \in D |-> E[c]]
  BY DEF (-)
<1>2. \A c \in DOMAIN A : E[c] = CountOf(c, A) - CountOf(c, B)
  BY BagIs DEF CountOf, BagToSet
<1>3. D \in SUBSET S /\ \A c \in D : E[c] \in Nat \ {0}
  BY <1>2, BagIs DEF BagToSet
<1>4. A (-) B \in [D -> Nat \ {0}]
  BY <1>1, <1>3
<1>5. \A c : CountOf(c, A (-) B) =
               IF CountOf(c, A) > CountOf(c, B) THEN CountOf(c, A) - CountOf(c, B) ELSE 0
  <2> TAKE c
  <2>1. CASE c \in D
    BY <1>1, <1>2, <2>1, BagIs DEF CountOf, BagToSet
  <2>2. CASE c \in DOMAIN A /\ c \notin D
    BY <1>1, <1>2, <2>2, BagIs DEF CountOf, BagToSet
  <2>3. CASE c \notin DOMAIN A
    BY <1>1, <2>3, BagIs DEF CountOf, BagToSet
  <2> QED
    BY <2>1, <2>2, <2>3
<1> QED
  BY <1>3, <1>4, <1>5, BagMade

\* A set has one of each.
LEMMA OneEach ==
    ASSUME NEW S, NEW D \in SUBSET S
    PROVE  /\ SetToBag(D) \in BagsOver(S)
           /\ \A c : CountOf(c, SetToBag(D)) = IF c \in D THEN 1 ELSE 0
<1>1. SetToBag(D) = [c \in D |-> 1]
  BY DEF SetToBag
<1>2. SetToBag(D) \in [D -> Nat \ {0}]
  BY <1>1
<1> QED
  BY <1>1, <1>2, BagMade DEF CountOf, BagToSet

\* The blocks of some rounds have all that is collected for those.
LEMMA BlocksAre ==
    ASSUME NEW B \in BagsOver(ChangeSet), NEW R
    PROVE  /\ BlocksOf(B, R) \in BagsOver(ChangeSet)
           /\ \A c \in ChangeSet : CountOf(c, BlocksOf(B, R)) = IF c.round \in R THEN CountOf(c, B) ELSE 0
<1> DEFINE D == {d \in BagToSet(B) : d.round \in R}
<1>1. BlocksOf(B, R) = [c \in D |-> B[c]]
  BY DEF BlocksOf
<1>2. D \in SUBSET ChangeSet /\ \A c \in D : B[c] \in Nat \ {0}
  BY BagIs
<1>3. BlocksOf(B, R) \in [D -> Nat \ {0}]
  BY <1>1, <1>2
<1>4. DOMAIN BlocksOf(B, R) = D /\ \A c \in D : BlocksOf(B, R)[c] = B[c]
  BY <1>1
<1>5. BlocksOf(B, R) \in BagsOver(ChangeSet)
  BY <1>2, <1>3, BagMade
<1> HIDE DEF D
<1>6. \A c \in ChangeSet : c \in D <=> c \in DOMAIN B /\ c.round \in R
  BY DEF D, BagToSet
<1> QED
  BY <1>4, <1>5, <1>6 DEF CountOf, BagToSet

\* A telling has each change as often as the block.
LEMMA TellingIs ==
    ASSUME NEW B \in BagsOver(ChangeSet), NEW how \in {"timely", "late"}
    PROVE  /\ Telling(B, how) \in BagsOver(SayingSet)
           /\ \A s \in SayingSet :
                CountOf(s, Telling(B, how)) = IF s.told = how THEN CountOf(s.change, B) ELSE 0
<1> DEFINE D == [change : BagToSet(B), told : {how}]
<1>1. Telling(B, how) = [s \in D |-> B[s.change]]
  BY DEF Telling
<1>2. D \in SUBSET SayingSet /\ \A s \in D : B[s.change] \in Nat \ {0}
  BY BagIs DEF SayingSet
<1>3. Telling(B, how) \in [D -> Nat \ {0}]
  BY <1>1, <1>2
<1>4. DOMAIN Telling(B, how) = D /\ \A s \in D : Telling(B, how)[s] = B[s.change]
  BY <1>1
<1>5. Telling(B, how) \in BagsOver(SayingSet)
  BY <1>2, <1>3, BagMade
<1>6. \A s \in SayingSet : s \in D <=> s.change \in DOMAIN B /\ s.told = how
  BY DEF SayingSet, BagToSet
<1> HIDE DEF D
<1> QED
  BY <1>4, <1>5, <1>6 DEF CountOf, BagToSet

-----------------------------------------------------------------------------
(* What the narrator's functions do to what it has collected.              *)

Rules == {"none", "hold", "secure"}
Moves == {"none", "hold", "move"}
FactionStates == [ready : BOOLEAN, knows : Known, directive : Rules, moving : Moves,
                  orders : [1..FinalRound -> Moves]]
Narrators == [setup : BOOLEAN, resolves : Int, end : Int, open : BOOLEAN, told : BOOLEAN,
              seen : Rounds, printed : Int, results : BOOLEAN,
              blocks : BagsOver(ChangeSet), faction : [Factions -> FactionStates],
              said : BagsOver(SayingSet), given : BagsOver(ChangeSet)]

\* A change as it should be told.
Due(c) == [change |-> c, told |-> c.came]

\* Each change is told or waits in its block, which is that of a round seen;
\* what waits behind what is told is late.
Kept(m) ==
    /\ m \in Narrators
    /\ -1 <= m.printed /\ m.printed <= m.seen
    /\ \A c \in ChangeSet : CountOf(c, m.given) = CountOf(Due(c), m.said) + CountOf(c, m.blocks)
    /\ \A s \in BagToSet(m.said) : s.told = s.change.came
    /\ \A c \in BagToSet(m.blocks) : c.came = When(m, c.round) /\ c.round <= m.seen

\* Two states of the narrator that differ at most in what is collected and told.
Alike(m, k) ==
    /\ k.setup = m.setup /\ k.resolves = m.resolves /\ k.end = m.end /\ k.faction = m.faction
    /\ k.open = m.open /\ k.told = m.told /\ k.results = m.results

Carried(m, k) == Kept(k) /\ Alike(m, k) /\ k.seen = m.seen /\ k.printed = m.printed

\* The types of the narrator's fields.
LEMMA NarratorIs ==
    ASSUME NEW m \in Narrators
    PROVE  /\ m.setup \in BOOLEAN /\ m.resolves \in Int /\ m.end \in Int /\ m.open \in BOOLEAN
           /\ m.told \in BOOLEAN /\ m.seen \in Rounds /\ m.seen \in Int /\ m.seen <= FinalRound
           /\ m.printed \in Int /\ m.results \in BOOLEAN
           /\ m.blocks \in BagsOver(ChangeSet) /\ m.faction \in [Factions -> FactionStates]
           /\ m.said \in BagsOver(SayingSet) /\ m.given \in BagsOver(ChangeSet)
           /\ \A c \in BagToSet(m.blocks) : c \in ChangeSet /\ c.round \in Rounds /\ c.round \in Int
<1>1. m.blocks \in BagsOver(ChangeSet)
  BY DEF Narrators
<1>2. \A c \in BagToSet(m.blocks) : c \in ChangeSet
  BY <1>1, BagIs
<1>3. \A c \in ChangeSet : c.round \in Rounds /\ c.round \in Int
  BY RoundsAre DEF ChangeSet
<1> QED
  BY <1>1, <1>2, <1>3, RoundsAre DEF Narrators

\* What is not the concern of Kept.
LEMMA KeptToo ==
    ASSUME NEW m, Kept(m), NEW k \in Narrators,
           k.given = m.given, k.said = m.said, k.blocks = m.blocks,
           k.printed = m.printed, k.results = m.results, m.seen <= k.seen
    PROVE  Kept(k)
<1>1. m \in Narrators
  BY DEF Kept
<1>2. m.seen \in Int /\ k.seen \in Int /\ \A c \in BagToSet(m.blocks) : c.round \in Int
  BY <1>1, NarratorIs
<1>3. m.printed \in Int /\ -1 <= k.printed /\ k.printed <= k.seen
  BY <1>1, <1>2, NarratorIs DEF Kept
<1>4. \A c \in BagToSet(k.blocks) : c.came = When(k, c.round) /\ c.round <= k.seen
  BY <1>2 DEF Kept, When
<1> QED
  BY <1>3, <1>4 DEF Kept

\* Changes of now, in rounds seen, are collected.
LEMMA CollectKeeps ==
    ASSUME NEW m, Kept(m), NEW D \in SUBSET ChangeSet,
           \A c \in D : c.came = When(m, c.round) /\ c.round <= m.seen
    PROVE  Carried(m, collect(m, D))
<1> DEFINE X == SetToBag(D)
           k == [m EXCEPT !.blocks = m.blocks (+) X, !.given = m.given (+) X]
<1>0. k = collect(m, D)
  BY DEF collect
<1>1. X \in BagsOver(ChangeSet) /\ \A c : CountOf(c, X) = IF c \in D THEN 1 ELSE 0
  BY OneEach
<1>2. /\ m \in Narrators /\ m.blocks \in BagsOver(ChangeSet) /\ m.given \in BagsOver(ChangeSet)
      /\ m.said \in BagsOver(SayingSet)
  BY DEF Kept, Narrators
<1> HIDE DEF X
<1>3. /\ m.blocks (+) X \in BagsOver(ChangeSet)
      /\ \A c : CountOf(c, m.blocks (+) X) = CountOf(c, m.blocks) + CountOf(c, X)
  BY <1>1, <1>2, Joined
<1>4. /\ m.given (+) X \in BagsOver(ChangeSet)
      /\ \A c : CountOf(c, m.given (+) X) = CountOf(c, m.given) + CountOf(c, X)
  BY <1>1, <1>2, Joined
<1>6. k \in Narrators
  BY <1>2, <1>3, <1>4 DEF Narrators
<1>7. /\ k.blocks = m.blocks (+) X /\ k.given = m.given (+) X
      /\ k.printed = m.printed /\ k.seen = m.seen /\ k.said = m.said /\ Alike(m, k)
  BY <1>2 DEF Narrators, Alike
<1> HIDE DEF k
<1>8. \A c \in ChangeSet : CountOf(c, k.given) = CountOf(Due(c), k.said) + CountOf(c, k.blocks)
  <2> TAKE c \in ChangeSet
  <2>1. CountOf(c, m.given) = CountOf(Due(c), m.said) + CountOf(c, m.blocks)
    BY DEF Kept
  <2>2. CountOf(Due(c), m.said) \in Nat /\ CountOf(c, m.blocks) \in Nat /\ CountOf(c, X) \in Nat
    BY <1>1, <1>2, BagIs
  <2> QED
    BY <1>3, <1>4, <1>7, <2>1, <2>2
<1>9. \A c \in BagToSet(k.blocks) : c.came = When(k, c.round) /\ c.round <= k.seen
  <2> TAKE c \in BagToSet(k.blocks)
  <2>1. c \in BagToSet(m.blocks) \/ c \in D
    <3>1. CountOf(c, m.blocks (+) X) > 0
      BY <1>3, <1>7, BagIs
    <3>2. CASE c \notin D
      <4>1. CountOf(c, m.blocks) > 0
        BY <1>1, <1>2, <1>3, <3>1, <3>2, BagIs
      <4> QED
        BY <1>2, <4>1, BagIs
    <3> QED
      BY <3>2
  <2>2. When(k, c.round) = When(m, c.round)
    BY <1>7 DEF When, Alike
  <2> QED
    BY <1>7, <2>1, <2>2 DEF Kept
<1> QED
  BY <1>0, <1>6, <1>7, <1>8, <1>9 DEF Kept, Carried

\* Blocks whose changes all came at the time they are told for are told.
LEMMA PrintKeeps ==
    ASSUME NEW m, Kept(m), NEW R \in SUBSET Rounds, NEW how \in {"timely", "late"},
           \A c \in BagToSet(m.blocks) : c.round \in R => c.came = how
    PROVE  /\ Carried(m, print(m, R, how))
           /\ \A c \in BagToSet(print(m, R, how).blocks) : c \in BagToSet(m.blocks) /\ c.round \notin R
<1> DEFINE B == BlocksOf(m.blocks, R)
           C == BlocksOf(m.blocks, Rounds \ R)
           T == Telling(B, how)
           k == [m EXCEPT !.said = m.said (+) T, !.blocks = C]
<1>0. k = print(m, R, how)
  BY DEF print
<1>1. /\ m \in Narrators /\ m.blocks \in BagsOver(ChangeSet) /\ m.given \in BagsOver(ChangeSet)
      /\ m.said \in BagsOver(SayingSet)
  BY DEF Kept, Narrators
<1>2. /\ B \in BagsOver(ChangeSet)
      /\ \A c \in ChangeSet : CountOf(c, B) = IF c.round \in R THEN CountOf(c, m.blocks) ELSE 0
  BY <1>1, BlocksAre
<1>3. /\ C \in BagsOver(ChangeSet)
      /\ \A c \in ChangeSet : CountOf(c, C) = IF c.round \in Rounds \ R THEN CountOf(c, m.blocks) ELSE 0
  BY <1>1, BlocksAre
<1> HIDE DEF B, C
<1>5. /\ T \in BagsOver(SayingSet)
      /\ \A s \in SayingSet : CountOf(s, T) = IF s.told = how THEN CountOf(s.change, B) ELSE 0
  BY <1>2, TellingIs
<1> HIDE DEF T
<1>6. /\ m.said (+) T \in BagsOver(SayingSet)
      /\ \A s : CountOf(s, m.said (+) T) = CountOf(s, m.said) + CountOf(s, T)
  BY <1>1, <1>5, Joined
<1>7. k \in Narrators
  BY <1>1, <1>3, <1>6 DEF Narrators
<1>8. /\ k.said = m.said (+) T /\ k.blocks = C
      /\ k.given = m.given /\ k.printed = m.printed /\ k.seen = m.seen /\ Alike(m, k)
  BY <1>1 DEF Narrators, Alike
<1> HIDE DEF k
<1>9. \A c \in BagToSet(k.blocks) : c \in BagToSet(m.blocks) /\ c.round \notin R
  <2> TAKE c \in BagToSet(k.blocks)
  <2>1. c \in ChangeSet /\ CountOf(c, C) > 0
    BY <1>3, <1>8, BagIs
  <2>2. c.round \in Rounds \ R /\ CountOf(c, m.blocks) > 0
    BY <1>3, <2>1
  <2> QED
    BY <1>1, <2>2, BagIs
<1>10. \A c \in ChangeSet : CountOf(c, k.given) = CountOf(Due(c), k.said) + CountOf(c, k.blocks)
  <2> TAKE c \in ChangeSet
  <2>1. CountOf(c, m.given) = CountOf(Due(c), m.said) + CountOf(c, m.blocks)
    BY DEF Kept
  <2>2. CountOf(Due(c), m.said) \in Nat /\ CountOf(c, m.blocks) \in Nat
    BY <1>1, BagIs
  <2>3. c.round \in Rounds
    BY DEF ChangeSet
  <2>4. CountOf(Due(c), T) = IF c.round \in R THEN CountOf(c, m.blocks) ELSE 0
    <3>1. CASE CountOf(c, B) = 0
      <4>1. CountOf(Due(c), T) = 0
        <5>1. CASE Due(c) \in SayingSet
          <6>1. Due(c).change = c
            BY DEF Due
          <6> QED
            BY <1>5, <3>1, <5>1, <6>1
        <5>2. CASE Due(c) \notin SayingSet
          <6>1. Due(c) \notin BagToSet(T)
            BY <1>5, <5>2, BagIs
          <6> QED
            BY <6>1 DEF CountOf
        <5> QED
          BY <5>1, <5>2
      <4> QED
        BY <1>2, <3>1, <4>1
    <3>2. CASE CountOf(c, B) # 0
      <4>1. c.round \in R /\ CountOf(c, m.blocks) > 0
        BY <1>2, <2>2, <3>2
      <4>2. c \in BagToSet(m.blocks)
        BY <1>1, <4>1, BagIs
      <4>3. c.came = how
        BY <4>1, <4>2
      <4>4. Due(c) \in SayingSet /\ Due(c).change = c /\ Due(c).told = how
        BY <4>3 DEF Due, SayingSet
      <4>5. CountOf(Due(c), T) = CountOf(c, B)
        BY <1>5, <4>4
      <4> QED
        BY <1>2, <4>1, <4>5
    <3> QED
      BY <3>1, <3>2
  <2>5. CountOf(c, C) = IF c.round \in R THEN 0 ELSE CountOf(c, m.blocks)
    BY <1>3, <2>3
  <2>6. CountOf(Due(c), k.said) = CountOf(Due(c), m.said) + CountOf(Due(c), T)
    BY <1>6, <1>8
  <2> QED
    BY <1>8, <2>1, <2>2, <2>4, <2>5, <2>6
<1>11. \A s \in BagToSet(k.said) : s.told = s.change.came
  <2> TAKE s \in BagToSet(k.said)
  <2>1. s \in SayingSet /\ CountOf(s, m.said (+) T) > 0
    BY <1>6, <1>8, BagIs
  <2>2. CASE CountOf(s, m.said) > 0
    <3>1. s \in BagToSet(m.said)
      BY <1>1, <2>2, BagIs
    <3> QED
      BY <3>1 DEF Kept
  <2>3. CASE ~(CountOf(s, m.said) > 0)
    <3>1. CountOf(s, T) > 0
      BY <1>1, <1>5, <1>6, <2>1, <2>3, BagIs
    <3>2. s.told = how /\ CountOf(s.change, B) > 0 /\ s.change \in ChangeSet
      BY <1>5, <2>1, <3>1 DEF SayingSet
    <3>3. s.change.round \in R /\ CountOf(s.change, m.blocks) > 0
      BY <1>2, <3>2
    <3>4. s.change \in BagToSet(m.blocks)
      BY <1>1, <3>3, BagIs
    <3> QED
      BY <3>2, <3>3, <3>4
  <2> QED
    BY <2>2, <2>3
<1>12. \A c \in BagToSet(k.blocks) : c.came = When(k, c.round) /\ c.round <= k.seen
  <2> TAKE c \in BagToSet(k.blocks)
  <2>1. When(k, c.round) = When(m, c.round)
    BY <1>8 DEF When, Alike
  <2> QED
    BY <1>8, <1>9, <2>1 DEF Kept
<1>13. Carried(m, k)
  BY <1>7, <1>8, <1>10, <1>11, <1>12 DEF Kept, Carried
<1> QED
  BY <1>0, <1>9, <1>13

\* What is behind is late while the final conditions are not given.
LEMMA LateKeeps ==
    ASSUME NEW m, Kept(m), ~m.results
    PROVE  /\ Carried(m, late(m))
           /\ \A c \in BagToSet(late(m).blocks) : c \in BagToSet(m.blocks) /\ c.round > m.printed
<1>0. m \in Narrators
  BY DEF Kept
<1>1. \A c \in BagToSet(m.blocks) : c.round \in Behind(m) => c.came = "late"
  BY DEF Kept, When, Behind
<1>2. Behind(m) \in SUBSET Rounds
  BY DEF Behind
<1>3. /\ Carried(m, print(m, Behind(m), "late"))
      /\ \A c \in BagToSet(print(m, Behind(m), "late").blocks) : c \in BagToSet(m.blocks) /\ c.round \notin Behind(m)
  BY <1>1, <1>2, PrintKeeps
<1>4. \A c \in BagToSet(m.blocks) : c.round \notin Behind(m) => c.round > m.printed
  BY <1>0, NarratorIs DEF Behind
<1> QED
  BY <1>3, <1>4 DEF late

\* All before a round is told: the late, then each block.
LEMMA AdvanceKeeps ==
    ASSUME NEW m, Kept(m), NEW r \in Int, r <= m.seen + 1, m.results => r <= m.printed + 1
    PROVE  /\ Kept(advance(m, r)) /\ Alike(m, advance(m, r)) /\ advance(m, r).seen = m.seen
           /\ advance(m, r).printed = IF m.told /\ m.printed + 1 < r THEN r - 1 ELSE m.printed
<1> DEFINE a == late(m)
           R == m.printed + 1..r - 1
           b == print(a, R, "timely")
           k == [b EXCEPT !.printed = r - 1]
<1>0. m \in Narrators /\ m.printed \in Int /\ m.seen \in Int /\ -1 <= m.printed /\ m.printed <= m.seen
  BY NarratorIs DEF Kept
<1>1. CASE m.told /\ m.printed + 1 < r
  <2>0. advance(m, r) = k
    BY <1>1 DEF advance
  <2>1. ~m.results
    BY <1>0, <1>1
  <2>2. /\ Carried(m, a)
        /\ \A c \in BagToSet(a.blocks) : c \in BagToSet(m.blocks) /\ c.round > m.printed
    BY <2>1, LateKeeps
  <2> HIDE DEF a
  <2>3. Kept(a) /\ a \in Narrators
    BY <2>2 DEF Carried, Kept
  <2>4. \A c \in BagToSet(a.blocks) : c.round \in Rounds /\ c.round \in Int
    BY <2>3, NarratorIs
  <2>5. \A c \in BagToSet(a.blocks) : c.came = "timely"
    <3> TAKE c \in BagToSet(a.blocks)
    <3>1. c.came = When(m, c.round) /\ c.round > m.printed
      BY <2>2 DEF Kept
    <3> QED
      BY <1>0, <2>1, <2>4, <3>1 DEF When
  <2>6. R \in SUBSET Rounds
    BY <1>0, NarratorIs, RoundsAre
  <2> HIDE DEF R
  <2>7. /\ Carried(a, b)
        /\ \A c \in BagToSet(b.blocks) : c \in BagToSet(a.blocks) /\ c.round \notin R
    BY <2>3, <2>5, <2>6, PrintKeeps
  <2> HIDE DEF b
  <2>8. Kept(b) /\ b \in Narrators
    BY <2>7 DEF Carried, Kept
  <2>9. /\ k \in Narrators /\ k.printed = r - 1 /\ k.seen = b.seen
        /\ k.blocks = b.blocks /\ k.said = b.said /\ k.given = b.given /\ Alike(b, k)
    BY <2>8 DEF Narrators, Alike
  <2> HIDE DEF k
  <2>10. b.seen = m.seen /\ Alike(m, b) /\ Alike(m, k) /\ k.results = m.results
    BY <2>2, <2>7, <2>9 DEF Carried, Alike
  <2>11. \A c \in BagToSet(k.blocks) : c.came = When(k, c.round) /\ c.round <= k.seen
    <3> TAKE c \in BagToSet(k.blocks)
    <3>1. c \in BagToSet(a.blocks) /\ c.round \notin R
      BY <2>7, <2>9
    <3>2. c.round \in Int /\ c.came = "timely" /\ c.round > m.printed /\ c.round <= m.seen
      BY <2>2, <2>4, <2>5, <3>1 DEF Kept
    <3> QED
      BY <1>0, <2>1, <2>9, <2>10, <3>1, <3>2 DEF When, R
  <2>12. Kept(k)
    BY <1>0, <1>1, <2>8, <2>9, <2>10, <2>11 DEF Kept
  <2> QED
    BY <1>1, <2>0, <2>9, <2>10, <2>12
<1>2. CASE ~(m.told /\ m.printed + 1 < r)
  <2>1. advance(m, r) = m
    BY <1>2 DEF advance
  <2> QED
    BY <1>2, <2>1 DEF Alike
<1> QED
  BY <1>1, <1>2

\* Everything seen is told, and nothing waits.
LEMMA FlushKeeps ==
    ASSUME NEW m, Kept(m), ~m.results
    PROVE  /\ Kept(flush(m)) /\ Alike(m, flush(m)) /\ flush(m).seen = m.seen
           /\ flush(m).printed = IF m.told THEN m.seen ELSE m.printed
           /\ m.told => BagToSet(flush(m).blocks) = {}
<1> DEFINE a == advance(m, m.seen + 1)
           k == late(a)
<1>0. m \in Narrators /\ m.seen \in Int /\ m.printed \in Int /\ m.printed <= m.seen
  BY NarratorIs DEF Kept
<1>1. CASE m.told
  <2>1. flush(m) = k
    BY <1>1 DEF flush
  <2>2. /\ Kept(a) /\ Alike(m, a) /\ a.seen = m.seen
        /\ a.printed = IF m.told /\ m.printed + 1 < m.seen + 1 THEN m.seen + 1 - 1 ELSE m.printed
    BY <1>0, AdvanceKeeps
  <2> HIDE DEF a
  <2>3. ~a.results /\ a.printed = m.seen
    BY <1>0, <1>1, <2>2 DEF Alike
  <2>4. /\ Carried(a, k)
        /\ \A c \in BagToSet(k.blocks) : c \in BagToSet(a.blocks) /\ c.round > a.printed
    BY <2>2, <2>3, LateKeeps
  <2> HIDE DEF k
  <2>5. ASSUME NEW c \in BagToSet(k.blocks) PROVE FALSE
    <3>1. k \in Narrators
      BY <2>4 DEF Carried, Kept
    <3>2. c.round \in Int
      BY <2>5, <3>1, NarratorIs
    <3> QED
      BY <1>0, <2>2, <2>3, <2>4, <2>5, <3>2 DEF Kept
  <2>6. Kept(k) /\ k.printed = m.seen /\ k.seen = m.seen /\ Alike(m, k)
    BY <2>2, <2>3, <2>4 DEF Carried, Alike
  <2> QED
    BY <1>1, <2>1, <2>5, <2>6
<1>2. CASE ~m.told
  <2>1. flush(m) = m
    BY <1>2 DEF flush
  <2> QED
    BY <1>2, <2>1 DEF Alike
<1> QED
  BY <1>1, <1>2

-----------------------------------------------------------------------------
(* What each event does to the narrator.                                   *)

Proper(e) ==
    /\ e.type \in {"started", "resolved", "lost", "observed", "assessment", "directives", "orders", "concluded"}
    /\ e.type \in {"resolved", "lost", "orders"} => e.round \in 1..FinalRound
    /\ e.type \in {"observed", "assessment", "directives"} => e.round \in Rounds
    /\ e.type \in {"observed", "assessment", "directives", "orders"} => e.faction \in Factions
    /\ e.type = "assessment" => e.knows \in Known
    /\ e.type = "directives" => e.rule \in Rules
    /\ e.type = "orders" => e.moves \in Moves
    /\ e.type = "concluded" => e.round = FinalRound

\* Whose initial conditions are in.
IsReady(m, f) == m.faction[f].ready

\* What an event may change of the narrator, and what it never does.
Applied(m, a, e) ==
    /\ Kept(a)
    /\ a.open = m.open /\ a.told = m.told /\ a.printed = m.printed /\ a.results = m.results
    /\ m.seen <= a.seen
    /\ e.type = "resolved" => e.round <= a.seen
    /\ m.setup => a.setup
    /\ \A f \in Factions : IsReady(m, f) => IsReady(a, f)
    /\ e.type = "observed" /\ e.round = 0 => IsReady(a, e.faction)
    /\ a.end = IF e.type = "concluded" THEN FinalRound ELSE m.end

\* A round is seen.
LEMMA BelongsKeeps ==
    ASSUME NEW m, Kept(m), NEW r \in Rounds
    PROVE  /\ Kept(belongs(m, r)) /\ Alike(m, belongs(m, r)) /\ belongs(m, r).printed = m.printed
           /\ belongs(m, r).blocks = m.blocks
           /\ m.seen <= belongs(m, r).seen /\ r <= belongs(m, r).seen
<1> DEFINE s == IF r > m.seen THEN r ELSE m.seen
           a == [m EXCEPT !.seen = s]
<1>0. a = belongs(m, r)
  BY DEF belongs
<1>1. m \in Narrators /\ m.seen \in Rounds /\ m.seen \in Int /\ r \in Int
  BY NarratorIs, RoundsAre DEF Kept
<1>2. s \in Rounds /\ m.seen <= s /\ r <= s
  BY <1>1
<1> HIDE DEF s
<1>3. a \in Narrators
  BY <1>1, <1>2 DEF Narrators
<1>4. /\ a.seen = s /\ Alike(m, a) /\ a.results = m.results
      /\ a.given = m.given /\ a.said = m.said /\ a.blocks = m.blocks /\ a.printed = m.printed
  BY <1>1 DEF Narrators, Alike
<1> HIDE DEF a
<1>5. Kept(a)
  BY <1>2, <1>3, <1>4, KeptToo
<1> QED
  BY <1>0, <1>2, <1>4, <1>5

\* A change made now is one of ChangeSet, and of its time.
LEMMA ChangeIs ==
    ASSUME NEW m, NEW r \in Rounds, NEW side \in Factions \cup {"observer"},
           NEW what \in {"captures", "loses", "orders", "knows", "decides"}
    PROVE  /\ Change(m, r, side, what) \in ChangeSet
           /\ Change(m, r, side, what).round = r
           /\ Change(m, r, side, what).came = When(m, r)
<1>1. When(m, r) \in {"timely", "late", "after"}
  BY DEF When
<1> QED
  BY <1>1 DEF Change, ChangeSet

\* The change of one side in a round seen is collected.
LEMMA OneCollected ==
    ASSUME NEW m, Kept(m), NEW r \in Rounds, r <= m.seen, NEW side \in Factions \cup {"observer"},
           NEW what \in {"captures", "loses", "orders", "knows", "decides"}
    PROVE  Carried(m, collect(m, {Change(m, r, side, what)}))
<1> DEFINE D == {Change(m, r, side, what)}
<1> DEFINE c1 == Change(m, r, side, what)
<1>a. c1 \in ChangeSet /\ c1.round = r /\ c1.came = When(m, r)
  BY ChangeIs
<1>b. D = {c1}
  OBVIOUS
<1> HIDE DEF c1, D
<1>1. D \in SUBSET ChangeSet /\ \A c \in D : c.came = When(m, c.round) /\ c.round <= m.seen
  BY <1>a, <1>b
<1>2. Carried(m, collect(m, D))
  BY <1>1, CollectKeeps
<1> QED
  BY <1>2 DEF D

\* What a faction is said to be is not the concern of Kept.
LEMMA FactionsChange ==
    ASSUME NEW m, Kept(m), NEW F \in [Factions -> FactionStates]
    PROVE  LET k == [m EXCEPT !.faction = F] IN
           /\ Kept(k)
           /\ k.setup = m.setup /\ k.end = m.end /\ k.open = m.open /\ k.told = m.told
           /\ k.results = m.results /\ k.seen = m.seen /\ k.printed = m.printed
           /\ k.faction = F /\ k.blocks = m.blocks
<1> DEFINE k == [m EXCEPT !.faction = F]
<1>1. m \in Narrators /\ m.seen \in Int
  BY NarratorIs DEF Kept
<1>2. k \in Narrators
  BY <1>1 DEF Narrators
<1>3. /\ k.given = m.given /\ k.said = m.said /\ k.blocks = m.blocks /\ k.printed = m.printed
      /\ k.results = m.results /\ k.seen = m.seen /\ k.open = m.open /\ k.told = m.told
      /\ k.setup = m.setup /\ k.end = m.end /\ k.faction = F
  BY <1>1 DEF Narrators
<1> HIDE DEF k
<1>4. Kept(k)
  BY <1>1, <1>2, <1>3, KeptToo
<1> QED
  BY <1>3, <1>4 DEF k

\* The same, for what is changed of one faction.
LEMMA FactionChanges ==
    ASSUME NEW m, Kept(m), NEW f \in Factions, NEW g \in FactionStates
    PROVE  LET k == [m EXCEPT !.faction[f] = g] IN
           /\ Kept(k)
           /\ k.setup = m.setup /\ k.end = m.end /\ k.open = m.open /\ k.told = m.told
           /\ k.results = m.results /\ k.seen = m.seen /\ k.printed = m.printed /\ k.blocks = m.blocks
           /\ \A q \in Factions : IsReady(k, q) = IF q = f THEN g.ready ELSE IsReady(m, q)
<1> DEFINE F == [m.faction EXCEPT ![f] = g]
           k == [m EXCEPT !.faction = F]
<1>1. m.faction \in [Factions -> FactionStates]
  BY NarratorIs DEF Kept
<1>2. F \in [Factions -> FactionStates] /\ \A q \in Factions : F[q] = IF q = f THEN g ELSE m.faction[q]
  BY <1>1
<1>3. k = [m EXCEPT !.faction[f] = g]
  OBVIOUS
<1> HIDE DEF F
<1>4. /\ Kept(k)
      /\ k.setup = m.setup /\ k.end = m.end /\ k.open = m.open /\ k.told = m.told
      /\ k.results = m.results /\ k.seen = m.seen /\ k.printed = m.printed
      /\ k.faction = F /\ k.blocks = m.blocks
  BY <1>2, FactionsChange
<1>5. \A q \in Factions : IsReady(k, q) = IF q = f THEN g.ready ELSE IsReady(m, q)
  BY <1>2, <1>4 DEF IsReady
<1> HIDE DEF k
<1> QED
  BY <1>3, <1>4, <1>5

\* The record of a round, with the orders that were in effect for it.
LEMMA ResolvedApplied ==
    ASSUME NEW m, Kept(m), NEW e, Proper(e), e.type = "resolved"
    PROVE  Applied(m, applyResolved(m, e), e)
<1> DEFINE r == e.round
           s == belongs(m, r)
           a == [s EXCEPT !.resolves = r]
           i == inEffect(a, r)
           D == {Change(a, r - 1, f, "orders") : f \in moved(a, r)}
           b == IF a.setup THEN collect(i, D) ELSE a
           k == IF Captured(r) THEN collect(b, {Change(b, r, "observer", "captures")}) ELSE b
<1>0. applyResolved(m, e) = k
  BY DEF applyResolved
<1>1. r \in 1..FinalRound /\ r \in Rounds /\ r - 1 \in Rounds /\ r \in Int
  BY RoundsAre DEF Proper
<1> HIDE DEF r
<1>2. m \in Narrators
  BY DEF Kept
<1>3. Kept(s) /\ Alike(m, s) /\ s.printed = m.printed /\ m.seen <= s.seen /\ r <= s.seen
  BY <1>1, BelongsKeeps
<1> HIDE DEF s
<1>4. s \in Narrators /\ s.seen \in Int
  BY <1>3, NarratorIs DEF Kept
<1>5. a \in Narrators
  BY <1>1, <1>4 DEF Narrators
<1>6. /\ a.given = s.given /\ a.said = s.said /\ a.blocks = s.blocks /\ a.printed = s.printed
      /\ a.results = s.results /\ a.seen = s.seen /\ a.open = s.open /\ a.told = s.told
      /\ a.setup = s.setup /\ a.end = s.end /\ a.faction = s.faction
  BY <1>4 DEF Narrators
<1> HIDE DEF a
<1>7. Kept(a)
  BY <1>3, <1>4, <1>5, <1>6, KeptToo
<1>8. /\ a.open = m.open /\ a.told = m.told /\ a.printed = m.printed /\ a.results = m.results
      /\ a.setup = m.setup /\ a.end = m.end /\ a.faction = m.faction
  BY <1>3, <1>6 DEF Alike
<1> DEFINE F == [f \in Factions |->
                   [a.faction[f] EXCEPT !.orders = [q \in DOMAIN a.faction[f].orders |->
                                                      IF q <= r THEN "none" ELSE a.faction[f].orders[q]],
                                        !.moving = IF f \in moved(a, r) THEN a.faction[f].orders[r]
                                                   ELSE a.faction[f].moving]]
<1>9. i = [a EXCEPT !.faction = F]
  BY DEF inEffect
<1>10. F \in [Factions -> FactionStates] /\ \A f \in Factions : F[f].ready = a.faction[f].ready
  <2> SUFFICES ASSUME NEW f \in Factions
               PROVE  F[f] \in FactionStates /\ F[f].ready = a.faction[f].ready
    BY DEF F
  <2>1. a.faction[f] \in FactionStates
    BY <1>5, NarratorIs
  <2> DEFINE o == a.faction[f].orders
             p == [q \in DOMAIN o |-> IF q <= r THEN "none" ELSE o[q]]
             g == IF f \in moved(a, r) THEN o[r] ELSE a.faction[f].moving
  <2>2. o \in [1..FinalRound -> Moves]
    BY <2>1 DEF FactionStates
  <2>3. p \in [1..FinalRound -> Moves]
    <3> HIDE DEF o
    <3>0. "none" \in Moves /\ \A q \in 1..FinalRound : o[q] \in Moves
      BY <2>2 DEF Moves
    <3>1. \A q \in 1..FinalRound : (IF q <= r THEN "none" ELSE o[q]) \in Moves
      BY <3>0
    <3>2. DOMAIN o = 1..FinalRound
      BY <2>2
    <3>3. p = [q \in 1..FinalRound |-> IF q <= r THEN "none" ELSE o[q]]
      BY <3>2
    <3> HIDE DEF p
    <3> QED
      BY <3>1, <3>3
  <2>4. g \in Moves
    BY <1>1, <2>1, <2>2 DEF FactionStates
  <2>5. F[f] = [a.faction[f] EXCEPT !.orders = p, !.moving = g]
    BY DEF F, o, p, g
  <2> HIDE DEF o, p, g, F
  <2> QED
    BY <2>1, <2>3, <2>4, <2>5 DEF FactionStates
<1> HIDE DEF F, i
<1>11. /\ Kept(i)
       /\ i.setup = a.setup /\ i.end = a.end /\ i.open = a.open /\ i.told = a.told
       /\ i.results = a.results /\ i.seen = a.seen /\ i.printed = a.printed /\ i.faction = F
  BY <1>7, <1>9, <1>10, FactionsChange
<1>12. D \in SUBSET ChangeSet /\ \A c \in D : c.came = When(i, c.round) /\ c.round <= i.seen
  <2>1. moved(a, r) \in SUBSET Factions
    BY DEF moved
  <2>2. \A f \in moved(a, r) :
          /\ Change(a, r - 1, f, "orders") \in ChangeSet
          /\ Change(a, r - 1, f, "orders").round = r - 1
          /\ Change(a, r - 1, f, "orders").came = When(a, r - 1)
    <3> TAKE f \in moved(a, r)
    <3>1. f \in Factions \cup {"observer"}
      BY <2>1
    <3> QED
      BY <1>1, <3>1, ChangeIs
  <2>3. When(i, r - 1) = When(a, r - 1)
    BY <1>11 DEF When
  <2>4. r - 1 <= i.seen
    BY <1>1, <1>3, <1>4, <1>6, <1>11
  <2> QED
    BY <2>2, <2>3, <2>4 DEF D
<1> HIDE DEF D
<1>13. /\ Kept(b)
       /\ b.open = m.open /\ b.told = m.told /\ b.printed = m.printed /\ b.results = m.results
       /\ b.seen = s.seen /\ b.setup = m.setup /\ b.end = m.end
       /\ \A f \in Factions : IsReady(b, f) = IsReady(m, f)
  <2>1. CASE a.setup
    <3>1. b = collect(i, D)
      BY <2>1
    <3>2. Carried(i, b)
      BY <1>11, <1>12, <3>1, CollectKeeps
    <3> HIDE DEF b
    <3> QED
      BY <1>6, <1>8, <1>10, <1>11, <3>2 DEF Carried, Alike, IsReady
  <2>2. CASE ~a.setup
    <3>1. b = a
      BY <2>2
    <3> HIDE DEF b
    <3> QED
      BY <1>6, <1>7, <1>8, <3>1 DEF IsReady
  <2> QED
    BY <2>1, <2>2
<1> HIDE DEF b
<1>14. /\ Kept(k)
       /\ k.open = m.open /\ k.told = m.told /\ k.printed = m.printed /\ k.results = m.results
       /\ k.seen = s.seen /\ k.setup = m.setup /\ k.end = m.end
       /\ \A f \in Factions : IsReady(k, f) = IsReady(m, f)
  <2>1. CASE Captured(r)
    <3>1. k = collect(b, {Change(b, r, "observer", "captures")})
      BY <2>1
    <3> HIDE DEF k
    <3>2. Carried(b, k)
      BY <1>1, <1>3, <1>13, <3>1, OneCollected
    <3> QED
      BY <1>13, <3>2 DEF Carried, Alike, IsReady
  <2>2. CASE ~Captured(r)
    BY <1>13, <2>2
  <2> QED
    BY <2>1, <2>2
<1> HIDE DEF k
<1> QED
  BY <1>0, <1>3, <1>14 DEF Applied, r

\* An alert.
LEMMA LostApplied ==
    ASSUME NEW m, Kept(m), NEW e, Proper(e), e.type = "lost"
    PROVE  Applied(m, applyLost(m, e), e)
<1> DEFINE a == belongs(m, e.round)
           k == collect(a, {Change(a, e.round, "observer", "loses")})
<1>0. k = applyLost(m, e)
  BY DEF applyLost
<1>1. e.round \in Rounds
  BY RoundsAre DEF Proper
<1>2. Kept(a) /\ Alike(m, a) /\ a.printed = m.printed /\ m.seen <= a.seen /\ e.round <= a.seen
  BY <1>1, BelongsKeeps
<1> HIDE DEF a
<1>3. Carried(a, k)
  BY <1>1, <1>2, OneCollected
<1> HIDE DEF k
<1> QED
  BY <1>0, <1>2, <1>3 DEF Applied, Carried, Alike, IsReady

\* An observation, the first of which makes a faction ready.
LEMMA ObservedApplied ==
    ASSUME NEW m, Kept(m), NEW e, Proper(e), e.type = "observed"
    PROVE  Applied(m, applyObserved(m, e), e)
<1> DEFINE a == belongs(m, e.round)
           f == e.faction
           g == [a.faction[f] EXCEPT !.ready = a.faction[f].ready \/ e.round = 0]
           k == [a EXCEPT !.faction[f] = g]
<1>0. k = applyObserved(m, e)
  BY DEF applyObserved
<1>1. e.round \in Rounds /\ f \in Factions
  BY DEF Proper
<1>2. Kept(a) /\ Alike(m, a) /\ a.printed = m.printed /\ m.seen <= a.seen
  BY <1>1, BelongsKeeps
<1> HIDE DEF a
<1>3. a.faction[f] \in FactionStates
  BY <1>1, <1>2, NarratorIs DEF Kept
<1>4. g \in FactionStates /\ g.ready = (a.faction[f].ready \/ e.round = 0)
  BY <1>3 DEF FactionStates
<1> HIDE DEF f, g
<1>5. /\ Kept(k)
      /\ k.setup = a.setup /\ k.end = a.end /\ k.open = a.open /\ k.told = a.told
      /\ k.results = a.results /\ k.seen = a.seen /\ k.printed = a.printed /\ k.blocks = a.blocks
      /\ \A q \in Factions : IsReady(k, q) = IF q = f THEN g.ready ELSE IsReady(a, q)
  BY <1>1, <1>2, <1>4, FactionChanges
<1> HIDE DEF k
<1>6. \A q \in Factions : IsReady(a, q) = IsReady(m, q)
  BY <1>2 DEF Alike, IsReady
<1>7. /\ \A q \in Factions : IsReady(m, q) => IsReady(k, q)
      /\ e.round = 0 => IsReady(k, f)
  BY <1>1, <1>4, <1>5, <1>6 DEF IsReady
<1> QED
  BY <1>0, <1>2, <1>5, <1>7 DEF Applied, Alike, f

\* What a faction knows.
LEMMA AssessmentApplied ==
    ASSUME NEW m, Kept(m), NEW e, Proper(e), e.type = "assessment"
    PROVE  Applied(m, applyAssessment(m, e), e)
<1> DEFINE s == belongs(m, e.round)
           f == e.faction
           g == [s.faction[f] EXCEPT !.knows = e.knows]
           a == [s EXCEPT !.faction[f] = g]
           k == IF e.knows = m.faction[f].knows THEN a
                ELSE collect(a, {Change(a, e.round, f, "knows")})
<1>0. k = applyAssessment(m, e)
  BY DEF applyAssessment
<1>1. e.round \in Rounds /\ f \in Factions /\ e.knows \in Known
  BY DEF Proper
<1>2. Kept(s) /\ Alike(m, s) /\ s.printed = m.printed /\ m.seen <= s.seen /\ e.round <= s.seen
  BY <1>1, BelongsKeeps
<1> HIDE DEF s
<1>3. s.faction[f] \in FactionStates
  BY <1>1, <1>2, NarratorIs DEF Kept
<1>4. g \in FactionStates /\ g.ready = s.faction[f].ready
  BY <1>1, <1>3 DEF FactionStates
<1> HIDE DEF f, g
<1>5. /\ Kept(a)
      /\ a.setup = s.setup /\ a.end = s.end /\ a.open = s.open /\ a.told = s.told
      /\ a.results = s.results /\ a.seen = s.seen /\ a.printed = s.printed /\ a.blocks = s.blocks
      /\ \A q \in Factions : IsReady(a, q) = IF q = f THEN g.ready ELSE IsReady(s, q)
  BY <1>1, <1>2, <1>4, FactionChanges
<1> HIDE DEF a
<1>6. \A q \in Factions : IsReady(a, q) = IsReady(m, q)
  BY <1>2, <1>4, <1>5 DEF Alike, IsReady
<1>7. Carried(a, k)
  <2>1. CASE e.knows = m.faction[f].knows
    BY <1>5, <2>1 DEF Carried, Alike
  <2>2. CASE e.knows # m.faction[f].knows
    <3>1. k = collect(a, {Change(a, e.round, f, "knows")})
      BY <2>2
    <3> HIDE DEF k
    <3> QED
      BY <1>1, <1>2, <1>5, <3>1, OneCollected
  <2> QED
    BY <2>1, <2>2
<1> HIDE DEF k
<1>8. \A q \in Factions : IsReady(k, q) = IsReady(m, q)
  BY <1>6, <1>7 DEF Carried, Alike, IsReady
<1> QED
  BY <1>0, <1>2, <1>5, <1>7, <1>8 DEF Applied, Carried, Alike

\* A change of mind takes its predecessor from its block and from what is owed.
without(m, D) == [m EXCEPT !.blocks = m.blocks (-) SetToBag(D), !.given = m.given (-) SetToBag(D)]

\* A change that waits may be taken back before it is told.
LEMMA DropKeeps ==
    ASSUME NEW m, Kept(m), NEW D \in SUBSET BagToSet(m.blocks)
    PROVE  Carried(m, without(m, D))
<1> DEFINE X == SetToBag(D)
           k == [m EXCEPT !.blocks = m.blocks (-) X, !.given = m.given (-) X]
<1>0. k = without(m, D)
  BY DEF without
<1>1. /\ m \in Narrators /\ m.blocks \in BagsOver(ChangeSet) /\ m.given \in BagsOver(ChangeSet)
      /\ m.said \in BagsOver(SayingSet)
  BY DEF Kept, Narrators
<1>2. D \in SUBSET ChangeSet /\ \A c \in D : CountOf(c, m.blocks) > 0
  BY <1>1, BagIs
<1>3. X \in BagsOver(ChangeSet) /\ \A c : CountOf(c, X) = IF c \in D THEN 1 ELSE 0
  BY <1>2, OneEach
<1> HIDE DEF X
<1>4. /\ m.blocks (-) X \in BagsOver(ChangeSet)
      /\ \A c : CountOf(c, m.blocks (-) X) =
                  IF CountOf(c, m.blocks) > CountOf(c, X) THEN CountOf(c, m.blocks) - CountOf(c, X) ELSE 0
  BY <1>1, <1>3, Lifted
<1>5. /\ m.given (-) X \in BagsOver(ChangeSet)
      /\ \A c : CountOf(c, m.given (-) X) =
                  IF CountOf(c, m.given) > CountOf(c, X) THEN CountOf(c, m.given) - CountOf(c, X) ELSE 0
  BY <1>1, <1>3, Lifted
<1>6. k \in Narrators
  BY <1>1, <1>4, <1>5 DEF Narrators
<1>7. /\ k.blocks = m.blocks (-) X /\ k.given = m.given (-) X
      /\ k.printed = m.printed /\ k.seen = m.seen /\ k.said = m.said /\ Alike(m, k)
  BY <1>1 DEF Narrators, Alike
<1> HIDE DEF k
<1>8. \A c \in ChangeSet : CountOf(c, k.given) = CountOf(Due(c), k.said) + CountOf(c, k.blocks)
  <2> TAKE c \in ChangeSet
  <2>1. CountOf(c, m.given) = CountOf(Due(c), m.said) + CountOf(c, m.blocks)
    BY DEF Kept
  <2>2. CountOf(Due(c), m.said) \in Nat /\ CountOf(c, m.blocks) \in Nat
    BY <1>1, BagIs
  <2>3. CASE c \in D
    <3>1. CountOf(c, X) = 1 /\ CountOf(c, m.blocks) > 0
      BY <1>2, <1>3, <2>3
    <3>2. CountOf(c, m.blocks (-) X) = CountOf(c, m.blocks) - 1
      BY <1>4, <2>2, <3>1
    <3>3. CountOf(c, m.given (-) X) = CountOf(c, m.given) - 1
      BY <1>5, <2>1, <2>2, <3>1
    <3> QED
      BY <1>7, <2>1, <2>2, <3>2, <3>3
  <2>4. CASE c \notin D
    <3>1. CountOf(c, X) = 0
      BY <1>3, <2>4
    <3>2. CountOf(c, m.blocks (-) X) = CountOf(c, m.blocks)
      BY <1>4, <2>2, <3>1
    <3>3. CountOf(c, m.given (-) X) = CountOf(c, m.given)
      BY <1>5, <2>1, <2>2, <3>1
    <3> QED
      BY <1>7, <2>1, <2>2, <3>2, <3>3
  <2> QED
    BY <2>3, <2>4
<1>9. \A c \in BagToSet(k.blocks) : c \in BagToSet(m.blocks)
  <2> TAKE c \in BagToSet(k.blocks)
  <2>1. CountOf(c, m.blocks (-) X) > 0
    BY <1>4, <1>7, BagIs
  <2>2. CountOf(c, m.blocks) \in Nat /\ CountOf(c, X) \in Nat
    BY <1>1, <1>3, BagIs
  <2>3. CountOf(c, m.blocks) > 0
    BY <1>4, <2>1, <2>2
  <2> QED
    BY <1>1, <2>3, BagIs
<1>10. \A c \in BagToSet(k.blocks) : c.came = When(k, c.round) /\ c.round <= k.seen
  <2> TAKE c \in BagToSet(k.blocks)
  <2>1. When(k, c.round) = When(m, c.round)
    BY <1>7 DEF When, Alike
  <2> QED
    BY <1>7, <1>9, <2>1 DEF Kept
<1>11. Carried(m, k)
  BY <1>6, <1>7, <1>8, <1>10 DEF Kept, Carried
<1> QED
  BY <1>0, <1>11

\* What a faction decides.
LEMMA DirectivesApplied ==
    ASSUME NEW m, Kept(m), NEW e, Proper(e), e.type = "directives"
    PROVE  Applied(m, applyDirectives(m, e), e)
<1> DEFINE s == belongs(m, e.round)
           f == e.faction
           g == [s.faction[f] EXCEPT !.directive = e.rule]
           a == [s EXCEPT !.faction[f] = g]
           old == {c \in BagToSet(m.blocks) : c.round = e.round /\ c.side = f /\ c.what = "decides"}
           b == without(a, old)
           k == IF e.rule = m.faction[f].directive THEN a
                ELSE collect(b, {Change(b, e.round, f, "decides")})
<1>0. k = applyDirectives(m, e)
  BY DEF applyDirectives, without
<1>1. e.round \in Rounds /\ f \in Factions /\ e.rule \in Rules
  BY DEF Proper
<1>2. Kept(s) /\ Alike(m, s) /\ s.printed = m.printed /\ s.blocks = m.blocks /\ m.seen <= s.seen /\ e.round <= s.seen
  BY <1>1, BelongsKeeps
<1> HIDE DEF s
<1>3. s.faction[f] \in FactionStates
  BY <1>1, <1>2, NarratorIs DEF Kept
<1>4. g \in FactionStates /\ g.ready = s.faction[f].ready
  BY <1>1, <1>3 DEF FactionStates
<1> HIDE DEF f, g
<1>5. /\ Kept(a)
      /\ a.setup = s.setup /\ a.end = s.end /\ a.open = s.open /\ a.told = s.told
      /\ a.results = s.results /\ a.seen = s.seen /\ a.printed = s.printed /\ a.blocks = s.blocks
      /\ \A q \in Factions : IsReady(a, q) = IF q = f THEN g.ready ELSE IsReady(s, q)
  BY <1>1, <1>2, <1>4, FactionChanges
<1> HIDE DEF a
<1>6. \A q \in Factions : IsReady(a, q) = IsReady(m, q)
  BY <1>2, <1>4, <1>5 DEF Alike, IsReady
<1>7. old \in SUBSET BagToSet(a.blocks)
  BY <1>2, <1>5
<1> HIDE DEF old
<1>8. Carried(a, b)
  BY <1>5, <1>7, DropKeeps
<1> HIDE DEF b
<1>9. Kept(k) /\ Alike(a, k) /\ k.seen = a.seen /\ k.printed = a.printed
  <2>1. CASE e.rule = m.faction[f].directive
    BY <1>5, <2>1 DEF Alike
  <2>2. CASE e.rule # m.faction[f].directive
    <3>1. k = collect(b, {Change(b, e.round, f, "decides")})
      BY <2>2
    <3> HIDE DEF k
    <3>2. Kept(b) /\ e.round <= b.seen
      BY <1>2, <1>5, <1>8 DEF Carried
    <3>3. Carried(b, k)
      BY <1>1, <3>1, <3>2, OneCollected
    <3> QED
      BY <1>8, <3>3 DEF Carried, Alike
  <2> QED
    BY <2>1, <2>2
<1> HIDE DEF k
<1>10. \A q \in Factions : IsReady(k, q) = IsReady(m, q)
  BY <1>6, <1>9 DEF Alike, IsReady
<1> QED
  BY <1>0, <1>2, <1>5, <1>9, <1>10 DEF Applied, Alike

\* Orders wait for their round.
LEMMA OrdersApplied ==
    ASSUME NEW m, Kept(m), NEW e, Proper(e), e.type = "orders"
    PROVE  Applied(m, applyOrders(m, e), e)
<1> DEFINE s == belongs(m, e.round - 1)
           f == e.faction
           o == [s.faction[f].orders EXCEPT ![e.round] = e.moves]
           g == [s.faction[f] EXCEPT !.orders = o]
           a == [s EXCEPT !.faction[f] = g]
           k == IF e.round <= m.resolves THEN s ELSE a
<1>0. k = applyOrders(m, e)
  BY DEF applyOrders
<1>1. e.round \in 1..FinalRound /\ e.round - 1 \in Rounds /\ f \in Factions /\ e.moves \in Moves
  BY RoundsAre DEF Proper
<1>2. Kept(s) /\ Alike(m, s) /\ s.printed = m.printed /\ m.seen <= s.seen
  BY <1>1, BelongsKeeps
<1> HIDE DEF s
<1>3. s.faction[f] \in FactionStates
  BY <1>1, <1>2, NarratorIs DEF Kept
<1>o. o \in [1..FinalRound -> Moves]
  <2>1. s.faction[f].orders \in [1..FinalRound -> Moves]
    BY <1>3 DEF FactionStates
  <2> QED
    BY <1>1, <2>1
<1> HIDE DEF o
<1>4. g \in FactionStates /\ g.ready = s.faction[f].ready
  BY <1>3, <1>o DEF FactionStates
<1> HIDE DEF f, g
<1>5. /\ Kept(a)
      /\ a.setup = s.setup /\ a.end = s.end /\ a.open = s.open /\ a.told = s.told
      /\ a.results = s.results /\ a.seen = s.seen /\ a.printed = s.printed /\ a.blocks = s.blocks
      /\ \A q \in Factions : IsReady(a, q) = IF q = f THEN g.ready ELSE IsReady(s, q)
  BY <1>1, <1>2, <1>4, FactionChanges
<1> HIDE DEF a
<1>6. \A q \in Factions : IsReady(a, q) = IsReady(m, q) /\ IsReady(s, q) = IsReady(m, q)
  BY <1>2, <1>4, <1>5 DEF Alike, IsReady
<1> QED
  BY <1>0, <1>2, <1>5, <1>6 DEF Applied, Alike

\* Any event.
LEMMA EventApplied ==
    ASSUME NEW m, Kept(m), NEW e, Proper(e)
    PROVE  Applied(m, apply(m, e), e)
<1>0. m \in Narrators /\ m.seen \in Int
  BY NarratorIs DEF Kept
<1>1. CASE e.type = "started"
  <2> DEFINE k == [m EXCEPT !.setup = TRUE]
  <2>1. apply(m, e) = k
    BY <1>1 DEF apply, applyStarted
  <2>2. k \in Narrators
    BY <1>0 DEF Narrators
  <2>3. /\ k.given = m.given /\ k.said = m.said /\ k.blocks = m.blocks /\ k.printed = m.printed
        /\ k.results = m.results /\ k.seen = m.seen /\ k.open = m.open /\ k.told = m.told
        /\ k.setup /\ k.end = m.end /\ k.faction = m.faction
    BY <1>0 DEF Narrators
  <2> HIDE DEF k
  <2>4. Kept(k)
    BY <1>0, <2>2, <2>3, KeptToo
  <2> QED
    BY <1>0, <1>1, <2>1, <2>3, <2>4 DEF Applied, IsReady
<1>2. CASE e.type = "resolved"
  BY <1>2, ResolvedApplied DEF apply
<1>3. CASE e.type = "lost"
  BY <1>3, LostApplied DEF apply
<1>4. CASE e.type = "observed"
  BY <1>4, ObservedApplied DEF apply
<1>5. CASE e.type = "assessment"
  BY <1>5, AssessmentApplied DEF apply
<1>6. CASE e.type = "directives"
  BY <1>6, DirectivesApplied DEF apply
<1>7. CASE e.type = "orders"
  BY <1>7, OrdersApplied DEF apply
<1>8. CASE e.type = "concluded"
  <2> DEFINE k == [m EXCEPT !.end = e.round]
  <2>0. e.round = FinalRound /\ FinalRound \in Int
    BY <1>8, RoundsAre DEF Proper
  <2>1. apply(m, e) = k
    BY <1>8 DEF apply, applyConcluded
  <2>2. k \in Narrators
    BY <1>0, <2>0 DEF Narrators
  <2>3. /\ k.given = m.given /\ k.said = m.said /\ k.blocks = m.blocks /\ k.printed = m.printed
        /\ k.results = m.results /\ k.seen = m.seen /\ k.open = m.open /\ k.told = m.told
        /\ k.setup = m.setup /\ k.end = FinalRound /\ k.faction = m.faction
    BY <1>0, <2>0 DEF Narrators
  <2> HIDE DEF k
  <2>4. Kept(k)
    BY <1>0, <2>2, <2>3, KeptToo
  <2> QED
    BY <1>0, <1>8, <2>1, <2>3, <2>4 DEF Applied, IsReady
<1> QED
  BY <1>1, <1>2, <1>3, <1>4, <1>5, <1>6, <1>7, <1>8 DEF Proper

\* What tell changes is whether the initial conditions are told.
LEMMA TellKeeps ==
    ASSUME NEW m, Kept(m)
    PROVE  /\ Kept(tell(m))
           /\ tell(m).told = (m.told \/ (m.open /\ AllReady(m)))
           /\ tell(m).setup = m.setup /\ tell(m).end = m.end /\ tell(m).faction = m.faction
           /\ tell(m).open = m.open /\ tell(m).results = m.results
           /\ tell(m).seen = m.seen /\ tell(m).printed = m.printed
<1> DEFINE told == m.told \/ (m.open /\ AllReady(m))
           t == [m EXCEPT !.told = told]
<1>0. t = tell(m)
  BY DEF tell
<1>1. m \in Narrators /\ m.seen \in Int
  BY NarratorIs DEF Kept
<1>2. told \in BOOLEAN
  OBVIOUS
<1>3. told = (m.told \/ (m.open /\ AllReady(m)))
  OBVIOUS
<1> HIDE DEF told
<1>4. t \in Narrators
  BY <1>1, <1>2 DEF Narrators
<1>5. /\ t.given = m.given /\ t.said = m.said /\ t.blocks = m.blocks /\ t.printed = m.printed
      /\ t.results = m.results /\ t.seen = m.seen /\ t.told = told /\ t.open = m.open
      /\ t.setup = m.setup /\ t.end = m.end /\ t.faction = m.faction
  BY <1>1 DEF Narrators
<1> HIDE DEF t
<1>6. Kept(t)
  BY <1>1, <1>4, <1>5, KeptToo
<1> QED
  BY <1>0, <1>3, <1>5, <1>6

\* The narrator's handling of an event: what was told stays told, and what is to
\* be told for all to be ready is told once they are.
Handled(m, k, e) ==
    /\ Kept(k)
    /\ k.open = m.open /\ k.results = m.results
    /\ k.told = (m.told \/ (k.open /\ AllReady(k)))
    /\ m.seen <= k.seen /\ m.printed <= k.printed
    /\ e.type = "resolved" => e.round <= k.seen
    /\ m.setup => k.setup
    /\ \A f \in Factions : IsReady(m, f) => IsReady(k, f)
    /\ e.type = "observed" /\ e.round = 0 => IsReady(k, e.faction)
    /\ k.end = IF e.type = "concluded" THEN FinalRound ELSE m.end

\* An event is applied, and what it completes is told.
LEMMA EventHandled ==
    ASSUME NEW m, Kept(m), NEW e, Proper(e), m.results => m.printed = FinalRound
    PROVE  Handled(m, afterEvent(m, e), e)
<1> DEFINE a == apply(m, e)
           t == tell(a)
           k == advance(t, t.seen)
<1>0. k = afterEvent(m, e)
  BY DEF afterEvent
<1>1. Applied(m, a, e)
  BY EventApplied
<1> HIDE DEF a
<1>2. /\ Kept(t)
      /\ t.told = (a.told \/ (a.open /\ AllReady(a)))
      /\ t.setup = a.setup /\ t.end = a.end /\ t.faction = a.faction
      /\ t.open = a.open /\ t.results = a.results /\ t.seen = a.seen /\ t.printed = a.printed
  BY <1>1, TellKeeps DEF Applied
<1> HIDE DEF t
<1>3. t.seen \in Int /\ t.printed \in Int /\ t.seen <= FinalRound
  BY <1>2, NarratorIs DEF Kept
<1>4. t.results => t.seen <= t.printed + 1
  BY <1>1, <1>2, <1>3, RoundsAre DEF Applied
<1>5. /\ Kept(k) /\ Alike(t, k) /\ k.seen = t.seen
      /\ k.printed = IF t.told /\ t.printed + 1 < t.seen THEN t.seen - 1 ELSE t.printed
  BY <1>2, <1>3, <1>4, AdvanceKeeps
<1> HIDE DEF k
<1>6. t.printed <= k.printed
  BY <1>3, <1>5
<1>7. AllReady(k) = AllReady(a)
  BY <1>2, <1>5 DEF AllReady, Alike
<1>8. \A f \in Factions : IsReady(k, f) = IsReady(a, f)
  BY <1>2, <1>5 DEF IsReady, Alike
<1>9. Kept(k) /\ k.open = a.open /\ k.results = a.results /\ k.setup = a.setup /\ k.end = a.end /\ k.seen = a.seen
      /\ k.told = t.told /\ a.printed <= k.printed
  BY <1>2, <1>5, <1>6 DEF Alike
<1>10. e.type = "observed" => e.faction \in Factions
  BY DEF Proper
<1> QED
  BY <1>0, <1>1, <1>2, <1>7, <1>8, <1>9, <1>10 DEF Applied, Handled

-----------------------------------------------------------------------------
(* The narration within its run: the inductive invariant.                  *)

\* Where the scenario's run may be.
AtStep ==
    /\ scenario = "theater" /\ run = "new" => step = 0 /\ at = "between"
    /\ scenario = "theater" /\ run = "steps" =>
         \/ step = 0 /\ at \in {"between", "start", "acquired", "launched", "wait"}
         \/ step = 1 /\ at \in {"between", "wait"}
         \/ step = 2 /\ at \in {"between", "check"}
         \/ step = 3 /\ at \in {"between", "stop", "stopping"}
         \/ step = 4 /\ at = "between"

\* The events that are published are so in their order, and each that a service
\* answers or the broker brings again is one that can be.
ChainStates == [assessed : -1..FinalRound, knows : Known, since : Int, undecided : BOOLEAN,
                plans : [1..FinalRound -> {"none", "hold", "move", "directed"}]]
Chains == [Served -> ChainStates]
InOrder ==
    /\ out \subseteq Published
    /\ \A e \in out : \A d \in Published : Precedes(d, e) => d \in out
Chained ==
    /\ chain \in Chains
    /\ \A f \in Served : chain[f].undecided => chain[f].assessed \in Rounds
Streamed ==
    /\ InOrder /\ Chained
    /\ \A e \in again : Proper(e) /\ (e.type = "concluded" => Conclusion \in out)

\* The narrator is followed while nothing has ended its run.
Following == scenario = "theater" /\ run = "steps" /\ ~interrupted /\ broken = {}

\* What is published has been brought, but for the start.
Heard ==
    /\ \A e \in out : e.type = "observed" /\ e.round = 0 => IsReady(n, e.faction)
    /\ \A e \in out : e.type = "resolved" => e.round <= n.seen
    /\ n.end >= 0 => Conclusion \in out

\* The narration is open from its step on, and the final conditions are given
\* after it.
Opened ==
    /\ n.told => n.open
    /\ n.open => step >= 1
    /\ n.results => step >= 3

\* Once the initial conditions are in and the narration is open they are told;
\* each step begins with what the step before it waited for.
Followed ==
    /\ Heard
    /\ n.open /\ AllReady(n) => n.told
    /\ step >= 1 => n.setup
    /\ step >= 2 => n.told /\ n.printed = FinalRound

\* Nothing is heard, collected or told when nobody follows.
Blank == out = {} /\ again = {} /\ ~n.told /\ ~n.setup /\ n.end = -1 /\ BagToSet(n.blocks) = {}

TheaterInv ==
    /\ AtStep /\ Streamed /\ Kept(n)
    /\ scenario = "theater" => Opened
    /\ Following => Followed
    /\ ~Following => Blank

-----------------------------------------------------------------------------
(* Exercise's events.                                                      *)

\* Each event is one that the narrator can be brought.
LEMMA PublishedAre ==
    /\ \A e \in Published : Proper(e)
    /\ \A e \in Published : e.type = "concluded" => e = Conclusion
    /\ Conclusion \in Published
    /\ \A f \in Factions : [type |-> "observed", round |-> 0, faction |-> f] \in Published
    /\ FinalRound > 0 => [type |-> "resolved", round |-> FinalRound] \in Published
<1>1. FinalRound \in Nat /\ Rounds = 0..FinalRound /\ 0 \in Rounds /\ FinalRound \in Rounds
  BY RoundsAre
<1>2. ASSUME NEW r \in Rounds, NEW e \in ExerciseOf(r)
      PROVE  Proper(e) /\ e.type # "concluded"
  <2>1. r \in Int /\ r >= 0 /\ (r # 0 => r \in 1..FinalRound)
    BY <1>1
  <2>2. CASE e = [type |-> "started", round |-> 0]
    BY <2>2 DEF Proper
  <2>3. CASE r # 0 /\ e = [type |-> "resolved", round |-> r]
    BY <2>1, <2>3 DEF Proper
  <2>4. CASE Captured(r) /\ e = [type |-> "lost", round |-> r, faction |-> Holder[r - 1]]
    BY <2>1, <2>4 DEF Proper, Captured
  <2>5. CASE \E f \in Factions : e = [type |-> "observed", round |-> r, faction |-> f]
    BY <2>1, <2>5 DEF Proper
  <2> QED
    BY <1>2, <2>2, <2>3, <2>4, <2>5 DEF ExerciseOf
<1>3. Proper(Conclusion) /\ Conclusion.type = "concluded"
  BY DEF Proper, Conclusion
<1>4. \A e \in Published : Proper(e) /\ (e.type = "concluded" => e = Conclusion)
  <2>1. ASSUME NEW e \in Published PROVE Proper(e) /\ (e.type = "concluded" => e = Conclusion)
    <3>1. CASE e = Conclusion
      BY <1>3, <3>1
    <3>2. CASE e # Conclusion
      <4>1. PICK r \in Rounds : e \in ExerciseOf(r)
        BY <2>1, <3>2 DEF Published
      <4> QED
        BY <1>2, <4>1
    <3> QED
      BY <3>1, <3>2
  <2> QED
    BY <2>1
<1>5. ASSUME NEW f \in Factions
      PROVE  [type |-> "observed", round |-> 0, faction |-> f] \in Published
  <2> DEFINE o == [type |-> "observed", round |-> 0, faction |-> f]
  <2>1. o \in ExerciseOf(0)
    BY DEF ExerciseOf
  <2> HIDE DEF o
  <2>2. o \in Published
    BY <1>1, <2>1 DEF Published
  <2> QED
    BY <2>2 DEF o
<1>6. FinalRound > 0 => [type |-> "resolved", round |-> FinalRound] \in Published
  <2> SUFFICES ASSUME FinalRound > 0 PROVE [type |-> "resolved", round |-> FinalRound] \in Published
    OBVIOUS
  <2>1. [type |-> "resolved", round |-> FinalRound] \in ExerciseOf(FinalRound)
    BY <1>1 DEF ExerciseOf
  <2> QED
    BY <1>1, <2>1 DEF Published
<1>7. Conclusion \in Published
  <2> DEFINE earlier == UNION {ExerciseOf(r) : r \in Rounds}
  <2>1. Published = earlier \cup {Conclusion}
    BY DEF Published
  <2> HIDE DEF earlier
  <2> QED
    BY <2>1
<1> QED
  BY <1>4, <1>5, <1>6, <1>7

\* The conclusion comes behind every start and record.
LEMMA ConcludedIsHeard ==
    ASSUME Streamed, Heard, Kept(n), n.end >= 0
    PROVE  (\A f \in Factions : IsReady(n, f)) /\ n.seen = FinalRound
<1>1. Conclusion \in out
  BY DEF Heard
<1>2. FinalRound \in Nat /\ n.seen \in 0..FinalRound
  BY RoundsAre, NarratorIs DEF Kept
<1>3. ASSUME NEW f \in Factions PROVE IsReady(n, f)
  <2> DEFINE o == [type |-> "observed", round |-> 0, faction |-> f]
  <2>1. Precedes(o, Conclusion)
    BY <1>2 DEF Precedes, Place, Conclusion
  <2>2. o \in Published
    BY PublishedAre
  <2>3. o.type = "observed" /\ o.round = 0 /\ o.faction = f
    OBVIOUS
  <2> HIDE DEF o
  <2>4. o \in out
    BY <1>1, <2>1, <2>2 DEF Streamed, InOrder
  <2> QED
    BY <2>3, <2>4 DEF Heard
<1>4. n.seen = FinalRound
  <2>1. CASE FinalRound = 0
    BY <1>2, <2>1
  <2>2. CASE FinalRound > 0
    <3> DEFINE o == [type |-> "resolved", round |-> FinalRound]
    <3>1. Precedes(o, Conclusion)
      BY <1>2 DEF Precedes, Place, Conclusion
    <3>2. o \in Published
      BY <2>2, PublishedAre
    <3>3. o.type = "resolved" /\ o.round = FinalRound
      OBVIOUS
    <3> HIDE DEF o
    <3>4. o \in out
      BY <1>1, <3>1, <3>2 DEF Streamed, InOrder
    <3>5. FinalRound <= n.seen
      BY <3>3, <3>4 DEF Heard
    <3> QED
      BY <1>2, <3>5
  <2> QED
    BY <1>2, <2>1, <2>2
<1> QED
  BY <1>3, <1>4

-----------------------------------------------------------------------------
(* Where a run begins, and where it is left.                               *)

\* A new narrator has told nothing.
LEMMA NewIsKept ==
    /\ Kept(newNarrator) /\ BagToSet(newNarrator.blocks) = {}
    /\ ~newNarrator.told /\ ~newNarrator.open /\ ~newNarrator.results
    /\ ~newNarrator.setup /\ newNarrator.end = -1
<1> DEFINE b == SetToBag({})
<1>1. EmptyBag = b
  BY DEF EmptyBag
<1>2. b \in BagsOver(ChangeSet) /\ b \in BagsOver(SayingSet) /\ \A c : CountOf(c, b) = 0
  BY OneEach
<1>3. BagToSet(b) = {}
  BY DEF SetToBag, BagToSet
<1> HIDE DEF b
<1>4. newFactionState \in FactionStates
  BY DEF newFactionState, FactionStates, Known, Rules, Moves
<1>5. newNarrator \in Narrators
  BY <1>1, <1>2, <1>4, RoundsAre DEF newNarrator, Narrators
<1>6. /\ newNarrator.blocks = b /\ newNarrator.said = b /\ newNarrator.given = b
      /\ newNarrator.seen = 0 /\ newNarrator.printed = -1
      /\ ~newNarrator.told /\ ~newNarrator.open /\ ~newNarrator.results
      /\ ~newNarrator.setup /\ newNarrator.end = -1
  BY <1>1 DEF newNarrator
<1>7. \A c \in ChangeSet :
        CountOf(c, newNarrator.given) = CountOf(Due(c), newNarrator.said) + CountOf(c, newNarrator.blocks)
  BY <1>2, <1>6
<1> QED
  BY <1>3, <1>5, <1>6, <1>7 DEF Kept

\* The services before the exercise starts.
LEMMA NewChains == ChainInit \in Chains /\ \A f \in Served : ~ChainInit[f].undecided
BY RoundsAre DEF ChainInit, Chains, ChainStates, Known

\* What a run is reset to, once nobody follows it.
LEMMA LeftBehind ==
    ASSUME out' = {}, chain' = ChainInit, again' = {}, n' = newNarrator
    PROVE  Streamed' /\ Kept(n') /\ Opened' /\ Blank'
<1>1. Streamed'
  BY NewChains DEF Streamed, InOrder, Chained
<1>2. Kept(n') /\ Opened' /\ Blank'
  BY NewIsKept DEF Opened, Blank
<1> QED
  BY <1>1, <1>2

\* The invariant holds at first.
LEMMA TheaterInitInv == TheaterInit => TheaterInv
<1> SUFFICES ASSUME TheaterInit PROVE TheaterInv
  OBVIOUS
<1>1. run = "new" /\ step = 0 /\ at = "between" /\ out = {} /\ chain = ChainInit /\ again = {} /\ n = newNarrator
  BY DEF TheaterInit, CourierInit
<1>2. AtStep /\ ~Following
  BY <1>1 DEF AtStep, Following
<1>3. Streamed
  BY <1>1, NewChains DEF Streamed, InOrder, Chained
<1>4. Kept(n) /\ Opened /\ Blank
  BY <1>1, NewIsKept DEF Opened, Blank
<1> QED
  BY <1>2, <1>3, <1>4 DEF TheaterInv

-----------------------------------------------------------------------------
(* The run's own steps, of the theater scenario.                           *)

\* The theater scenario's record.
LEMMA TheaterIs ==
    ASSUME scenario = "theater"
    PROVE  /\ Len(Steps) = 4 /\ Scenario.opens = "wait"
           /\ Steps[1] = "start" /\ Steps[2] = "wait" /\ Steps[3] = "check" /\ Steps[4] = "stop"
<1>1. Scenario = TheaterScenario
  BY DEF Scenario
<1> QED
  BY <1>1 DEF TheaterScenario, Steps

\* A step of the run, but for the end of a wait and for the results, is where it should be.
LEMMA RunStepsAt ==
    ASSUME AtStep, scenario = "theater", RunSteps, ~In("check")
    PROVE  /\ AtStep' /\ run' # "new"
           /\ run = "steps" /\ run' = "steps" => step' = step \/ (step = 3 /\ step' = 4)
           /\ run # "steps" => step' = step
           /\ UNCHANGED <<scenario, interrupted, broken>>
<1> USE DEF Done, FailsWith, In, target, coordinator, servers
<1>0. /\ Len(Steps) = 4 /\ Scenario.opens = "wait"
      /\ Steps[1] = "start" /\ Steps[2] = "wait" /\ Steps[3] = "check" /\ Steps[4] = "stop"
  BY TheaterIs
<1>1. CASE Refuse \/ BeginSteps
  BY <1>1 DEF Refuse, BeginSteps, AtStep
<1>2. CASE Enter
  <2>1. run = "steps" /\ at = "between" /\ step < 4 /\ at' = Steps[step + 1]
        /\ UNCHANGED <<scenario, run, step, interrupted, broken>>
    BY <1>0, <1>2 DEF Enter, Step
  <2>2. step \in {0, 1, 2, 3}
    BY <2>1 DEF AtStep
  <2>3. \/ step = 0 /\ at' = "start"
        \/ step = 1 /\ at' = "wait"
        \/ step = 2 /\ at' = "check"
        \/ step = 3 /\ at' = "stop"
    BY <1>0, <2>1, <2>2
  <2> QED
    BY <2>1, <2>3 DEF AtStep
<1>3. CASE LeaveSteps
  BY <1>3 DEF LeaveSteps, AtStep
<1>4. CASE Check \/ Await \/ WaitFails
  BY <1>4 DEF Check, Await, WaitFails, AtStep
<1>5. CASE Acquire
  BY <1>5 DEF Acquire, ScratchFails, AtStep
<1>6. CASE Store
  BY <1>6 DEF Store, AtStep
<1>7. CASE Launch
  BY <1>7 DEF Launch, AtStep
<1>8. CASE Launched
  BY <1>0, <1>8 DEF Launched, AtStep
<1>9. CASE StopStep
  BY <1>9 DEF StopStep, AtStep
<1>10. CASE Stopped
  BY <1>10 DEF Stopped, AtStep
<1>11. CASE StartMember \/ StopMember
  BY <1>11 DEF StartMember, StopMember, AtStep
<1>12. CASE CancelLeft \/ Drained
  BY <1>12 DEF CancelLeft, Drained, Cleaning, AtStep
<1>13. CASE ReleaseBroker
  BY <1>13 DEF ReleaseBroker, Release, Cleaning, AtStep
<1>14. CASE CloseStore
  BY <1>14 DEF CloseStore, Release, Cleaning, AtStep
<1> QED
  BY <1>1, <1>2, <1>3, <1>4, <1>5, <1>6, <1>7, <1>8, <1>9, <1>10, <1>11, <1>12, <1>13, <1>14 DEF RunSteps

\* The coordinator and what befalls a run move no step.
LEMMA OthersAt ==
    /\ CoordinatorSteps => UNCHANGED <<scenario, run, step, at, interrupted, broken>>
    /\ CourierFaults => UNCHANGED <<scenario, run, step, at>>
<1> USE DEF target, coordinator, servers
<1>1. ASSUME CoordinatorSteps PROVE UNCHANGED <<scenario, run, step, at, interrupted, broken>>
  BY <1>1 DEF CoordinatorSteps, BecomeReady, BeginDrain, EndCoordinator, StartReactor, StopReactor
<1>2. ASSUME CourierFaults PROVE UNCHANGED <<scenario, run, step, at>>
  BY <1>2 DEF CourierFaults, Interrupt, BindWatch, Break, Land
<1> QED
  BY <1>1, <1>2

-----------------------------------------------------------------------------
(* An event is brought.                                                    *)

\* The watch brings events only to a run that goes on.
LEMMA WatchedIsFollowed == Watching => Following
BY DEF Watching, Following

\* Whatever is brought, the narrator stays kept and followed.
LEMMA BroughtKeeps ==
    ASSUME Streamed, Kept(n), Followed, Opened, step \in Int, NEW e, Proper(e), Bring(e),
           out \subseteq out', \A d \in out' : d \in out \/ d = e,
           e.type = "concluded" => Conclusion \in out'
    PROVE  Kept(n') /\ Followed' /\ Opened'
<1>1. step' = step
  BY DEF Bring, courierVars
<1>2. n.printed \in Int /\ n.seen \in Int /\ FinalRound \in Int
  BY NarratorIs, RoundsAre DEF Kept
<1>3. CASE e.type = "started" /\ n' = n
  <2>1. Heard'
    BY <1>3 DEF Followed, Heard
  <2> QED
    BY <1>1, <1>3, <2>1 DEF Followed, Opened
<1>4. CASE n' = afterEvent(n, e)
  <2> DEFINE k == afterEvent(n, e)
  <2>1. n.results => n.printed = FinalRound
    <3> SUFFICES ASSUME n.results PROVE n.printed = FinalRound
      OBVIOUS
    <3>1. step >= 3
      BY DEF Opened
    <3>2. step >= 2
      BY <3>1
    <3> QED
      BY <3>2 DEF Followed
  <2>2. Handled(n, k, e)
    BY <2>1, EventHandled
  <2>3. n' = k
    BY <1>4
  <2> HIDE DEF k
  <2>4. k.seen \in Int /\ k.printed \in Int /\ k.seen <= FinalRound /\ k.printed <= k.seen
    BY <2>2, NarratorIs DEF Handled, Kept
  <2>5. Heard'
    <3>1. \A d \in out' : d.type = "observed" /\ d.round = 0 => IsReady(n', d.faction)
      <4> TAKE d \in out'
      <4>1. CASE d = e
        BY <2>2, <2>3, <4>1 DEF Handled
      <4>2. CASE d \in out
        <5>1. d.type = "observed" => d.faction \in Factions
          BY <4>2, PublishedAre DEF Streamed, InOrder, Proper
        <5>2. d.type = "observed" /\ d.round = 0 => IsReady(n, d.faction)
          BY <4>2 DEF Followed, Heard
        <5> QED
          BY <2>2, <2>3, <5>1, <5>2 DEF Handled
      <4> QED
        BY <4>1, <4>2
    <3>2. \A d \in out' : d.type = "resolved" => d.round <= n'.seen
      <4> TAKE d \in out'
      <4>1. CASE d = e
        BY <2>2, <2>3, <4>1 DEF Handled
      <4>2. CASE d \in out
        <5>1. d.type = "resolved" => d.round \in Int
          BY <4>2, PublishedAre DEF Streamed, InOrder, Proper
        <5>2. d.type = "resolved" => d.round <= n.seen
          BY <4>2 DEF Followed, Heard
        <5>3. n.seen \in Int /\ n.seen <= k.seen
          BY <2>2, NarratorIs DEF Handled, Kept
        <5> QED
          BY <2>3, <2>4, <5>1, <5>2, <5>3
      <4> QED
        BY <4>1, <4>2
    <3>3. n'.end >= 0 => Conclusion \in out'
      BY <2>2, <2>3 DEF Followed, Heard, Handled
    <3> QED
      BY <3>1, <3>2, <3>3 DEF Heard
  <2>6. Opened'
    BY <1>1, <2>2, <2>3 DEF Opened, Handled
  <2>7. n'.open /\ AllReady(n') => n'.told
    BY <2>2, <2>3 DEF Handled
  <2>8. step >= 1 => n'.setup
    BY <2>2, <2>3 DEF Followed, Handled
  <2>9. step >= 2 => n'.told /\ n'.printed = FinalRound
    <3>1. n.told => n'.told
      BY <2>2, <2>3 DEF Handled
    <3>2. n.printed <= k.printed
      BY <2>2 DEF Handled
    <3>3. n.printed = FinalRound => k.printed = FinalRound
      BY <1>2, <2>4, <3>2
    <3> QED
      BY <2>3, <3>1, <3>3 DEF Followed
  <2> QED
    BY <1>1, <2>2, <2>3, <2>5, <2>6, <2>7, <2>8, <2>9 DEF Followed, Handled
<1> QED
  BY <1>3, <1>4 DEF Bring

\* So it is with the rest of the invariant, when what is published and what the
\* services have answered stay as they should be.
LEMMA BroughtStep ==
    ASSUME TheaterInv, NEW e, Proper(e), Bring(e), InOrder', Chained',
           out \subseteq out', \A d \in out' : d \in out \/ d = e,
           e.type = "concluded" => Conclusion \in out'
    PROVE  TheaterInv'
<1>1. UNCHANGED <<scenario, run, step, at, interrupted, broken>> /\ Watching
  BY DEF Bring, courierVars, target, coordinator
<1>2. Following /\ Following' /\ scenario = "theater"
  BY <1>1, WatchedIsFollowed DEF Following
<1>3. AtStep' /\ step \in Int
  BY <1>1, <1>2 DEF TheaterInv, AtStep, Following
<1>4. Streamed'
  <2>1. \A d \in again' : d \in again \/ d = e
    BY DEF Bring
  <2> QED
    BY <2>1 DEF TheaterInv, Streamed
<1>5. Kept(n') /\ Followed' /\ Opened'
  BY <1>2, <1>3, BroughtKeeps DEF TheaterInv
<1> QED
  BY <1>2, <1>3, <1>4, <1>5 DEF TheaterInv

\* Exercise publishes in its order.
LEMMA ExerciseStep == TheaterInv /\ Exercise => TheaterInv'
<1> SUFFICES ASSUME TheaterInv, Exercise PROVE TheaterInv'
  OBVIOUS
<1>1. PICK e \in Published \ out :
        /\ \A d \in Published : Precedes(d, e) => d \in out
        /\ out' = out \cup {e}
        /\ Bring(e)
  BY DEF Exercise
<1>2. InOrder'
  BY <1>1 DEF TheaterInv, Streamed, InOrder
<1>3. Chained'
  BY DEF Exercise, TheaterInv, Streamed, Chained
<1>4. Proper(e) /\ (e.type = "concluded" => Conclusion \in out')
  BY <1>1, PublishedAre
<1> QED
  BY <1>1, <1>2, <1>3, <1>4, BroughtStep

\* The broker repeats itself.
LEMMA BringAgainStep == TheaterInv /\ BringAgain => TheaterInv'
<1> SUFFICES ASSUME TheaterInv, BringAgain PROVE TheaterInv'
  OBVIOUS
<1>1. PICK e \in again : Bring(e) /\ UNCHANGED <<out, chain>>
  BY DEF BringAgain
<1>2. InOrder' /\ Chained'
  BY <1>1 DEF TheaterInv, Streamed, InOrder, Chained
<1>3. Proper(e) /\ (e.type = "concluded" => Conclusion \in out')
  BY <1>1 DEF TheaterInv, Streamed
<1> QED
  BY <1>1, <1>2, <1>3, BroughtStep

\* Nothing of the narration happens.
LEMMA StaysInv ==
    ASSUME TheaterInv, UNCHANGED <<scenario, run, step, at, interrupted, broken, out, again, n>>, Chained'
    PROVE  TheaterInv'
<1>1. AtStep' /\ Following' = Following
  BY DEF TheaterInv, AtStep, Following
<1>2. Streamed'
  BY DEF TheaterInv, Streamed, InOrder
<1>3. Kept(n') /\ Opened' = Opened /\ scenario' = scenario
  BY DEF TheaterInv, Opened
<1>4. Followed' = Followed /\ Blank' = Blank
  BY DEF Followed, Heard, Blank
<1> QED
  BY <1>1, <1>2, <1>3, <1>4 DEF TheaterInv

\* The services' answers.
LEMMA LearnsKeeps ==
    ASSUME NEW c \in ChainStates, NEW r \in Rounds
    PROVE  /\ Learns(c, r, Holder[r]) \in ChainStates
           /\ Learns(c, r, Holder[r]).assessed = c.assessed
<1> DEFINE h == Holder[r]
           d == [c EXCEPT !.knows = h, !.since = r]
<1>1. h \in Known /\ r \in Int
  BY RoundsAre DEF Known
<1>2. Learns(c, r, h) = IF r > c.since THEN d ELSE c
  BY DEF Learns
<1> HIDE DEF h
<1>3. d \in ChainStates /\ d.assessed = c.assessed
  BY <1>1 DEF ChainStates
<1> QED
  BY <1>2, <1>3 DEF h

\* intelligence issues an assessment of a round seen.
LEMMA AssessStep ==
    ASSUME TheaterInv, NEW f \in Served, NEW c \in ChainStates, c.assessed \in Rounds,
           Assess(f, c), UNCHANGED out
    PROVE  TheaterInv'
<1> DEFINE e == [type |-> "assessment", faction |-> f, round |-> c.assessed, knows |-> c.knows]
           d == [c EXCEPT !.undecided = TRUE]
<1>1. Bring(e) /\ chain' = [chain EXCEPT ![f] = d]
  BY DEF Assess
<1>2. e.type = "assessment" /\ e.faction = f /\ e.round = c.assessed /\ e.knows = c.knows
  OBVIOUS
<1>3. d \in ChainStates /\ d.assessed \in Rounds
  BY DEF ChainStates
<1>4. f \in Factions /\ c.knows \in Known
  BY TheaterAssumption DEF ChainStates
<1> HIDE DEF e, d
<1>5. Proper(e)
  BY <1>2, <1>4 DEF Proper
<1>6. InOrder'
  BY DEF TheaterInv, Streamed, InOrder
<1>7. Chained'
  BY <1>1, <1>3 DEF TheaterInv, Streamed, Chained, Chains
<1> QED
  BY <1>1, <1>2, <1>5, <1>6, <1>7, BroughtStep

\* It does so for an observation.
LEMMA ObserveStep ==
    ASSUME TheaterInv, NEW f \in Served, Observe(f)
    PROVE  TheaterInv'
<1> DEFINE r == chain[f].assessed + 1
           o == [type |-> "observed", round |-> r, faction |-> f]
           c == IF Holder[r] = f THEN Learns(chain[f], r, f) ELSE chain[f]
           d == [c EXCEPT !.assessed = r]
<1>1. o \in out /\ Assess(f, d) /\ UNCHANGED out
  BY DEF Observe, Assess, IsPublished
<1>2. chain[f] \in ChainStates
  BY DEF TheaterInv, Streamed, Chained, Chains
<1>3. o.type = "observed" /\ o.round = r
  OBVIOUS
<1> HIDE DEF o
<1>4. r \in Rounds
  BY <1>1, <1>3, PublishedAre DEF TheaterInv, Streamed, InOrder, Proper
<1>5. c \in ChainStates
  BY <1>2, <1>4, LearnsKeeps
<1> HIDE DEF c
<1>6. d \in ChainStates /\ d.assessed \in Rounds
  BY <1>4, <1>5, RoundsAre DEF ChainStates
<1> HIDE DEF d
<1> QED
  BY <1>1, <1>6, AssessStep

\* It does so for an alert, unless that came first.
LEMMA AlertStep ==
    ASSUME TheaterInv, NEW f \in Served, Alert(f)
    PROVE  TheaterInv'
<1>1. PICK r \in 1..FinalRound :
        LET c == Learns(chain[f], r, Holder[r])
        IN  /\ IsPublished([type |-> "lost", round |-> r, faction |-> f])
            /\ c # chain[f]
            /\ IF chain[f].assessed >= r THEN Assess(f, c)
               ELSE chain' = [chain EXCEPT ![f] = c] /\ UNCHANGED <<courierVars, out, again, faults, n>>
  BY DEF Alert
<1> DEFINE c == Learns(chain[f], r, Holder[r])
           o == [type |-> "lost", round |-> r, faction |-> f]
<1>2. chain[f] \in ChainStates /\ chain \in Chains
  BY DEF TheaterInv, Streamed, Chained, Chains
<1>3. r \in Rounds
  BY RoundsAre
<1>4. c \in ChainStates /\ c.assessed = chain[f].assessed
  BY <1>2, <1>3, LearnsKeeps
<1>5. CASE chain[f].assessed >= r
  <2>1. Assess(f, c)
    BY <1>1, <1>5
  <2>2. UNCHANGED out
    BY <2>1 DEF Assess
  <2>3. c.assessed \in Rounds
    BY <1>4, <1>5, RoundsAre DEF ChainStates
  <2> HIDE DEF c
  <2> QED
    BY <1>4, <2>1, <2>2, <2>3, AssessStep
<1>6. CASE ~(chain[f].assessed >= r)
  <2>1. chain' = [chain EXCEPT ![f] = c] /\ UNCHANGED <<courierVars, out, again, n>> /\ o \in out
    BY <1>1, <1>6 DEF IsPublished
  <2>3. c.undecided = chain[f].undecided
    BY <1>2 DEF Learns, ChainStates
  <2> HIDE DEF c, o
  <2>2. Chained'
    <3>1. c.undecided => c.assessed \in Rounds
      BY <1>4, <2>3 DEF TheaterInv, Streamed, Chained
    <3> QED
      BY <1>2, <1>4, <2>1, <3>1 DEF TheaterInv, Streamed, Chained, Chains
  <2>4. UNCHANGED <<scenario, run, step, at, interrupted, broken>>
    BY <2>1 DEF courierVars, target, coordinator
  <2> QED
    BY <2>1, <2>2, <2>4, StaysInv
<1> QED
  BY <1>5, <1>6

\* command decides on an assessment.
LEMMA DirectStep ==
    ASSUME TheaterInv, NEW f \in Served, Direct(f)
    PROVE  TheaterInv'
<1> DEFINE c == chain[f]
           p == [r \in DOMAIN c.plans |-> IF r = c.assessed + 1 /\ c.plans[r] = "hold"
                                             THEN "directed" ELSE c.plans[r]]
           d == [c EXCEPT !.undecided = FALSE, !.plans = p]
           rule == IF c.knows = f THEN "hold" ELSE "secure"
           e == [type |-> "directives", faction |-> f, round |-> c.assessed, rule |-> rule]
<1>1. c \in ChainStates /\ chain \in Chains
  BY DEF TheaterInv, Streamed, Chained, Chains
<1>2. c.undecided /\ Bring(e) /\ UNCHANGED out
  BY DEF Direct
<1>3. chain' = [chain EXCEPT ![f] = d]
  BY <1>1 DEF Direct, Chains, ChainStates
<1>4. c.assessed \in Rounds
  BY <1>2 DEF TheaterInv, Streamed, Chained
<1>5. p \in [1..FinalRound -> {"none", "hold", "move", "directed"}]
  BY <1>1 DEF ChainStates
<1>6. rule \in Rules
  BY DEF Rules
<1>7. e.type = "directives" /\ e.faction = f /\ e.round = c.assessed /\ e.rule = rule
  OBVIOUS
<1> HIDE DEF p, rule
<1>8. d \in ChainStates /\ ~d.undecided
  BY <1>1, <1>5 DEF ChainStates
<1>9. f \in Factions
  BY TheaterAssumption
<1> HIDE DEF e, d, c
<1>10. Proper(e)
  BY <1>4, <1>6, <1>7, <1>9 DEF Proper
<1>11. InOrder'
  BY <1>2 DEF TheaterInv, Streamed, InOrder
<1>12. Chained'
  BY <1>1, <1>3, <1>8 DEF TheaterInv, Streamed, Chained, Chains
<1> QED
  BY <1>2, <1>7, <1>10, <1>11, <1>12, BroughtStep

\* operations orders a round's moves.
LEMMA OrderStep ==
    ASSUME TheaterInv, NEW f \in Served, Order(f)
    PROVE  TheaterInv'
<1>1. PICK r \in 1..FinalRound :
        LET p == chain[f].plans[r]
            moves == IF p = "none" THEN "hold" ELSE "move"
        IN  /\ p \in {"none", "directed"}
            /\ IsPublished([type |-> "observed", round |-> r - 1, faction |-> f])
            /\ chain' = [chain EXCEPT ![f].plans[r] = moves]
            /\ Bring([type |-> "orders", faction |-> f, round |-> r, moves |-> moves])
            /\ UNCHANGED out
  BY DEF Order
<1> DEFINE c == chain[f]
           moves == IF c.plans[r] = "none" THEN "hold" ELSE "move"
           p == [c.plans EXCEPT ![r] = moves]
           d == [c EXCEPT !.plans = p]
           e == [type |-> "orders", faction |-> f, round |-> r, moves |-> moves]
<1>2. c \in ChainStates /\ chain \in Chains
  BY DEF TheaterInv, Streamed, Chained, Chains
<1>3. Bring(e) /\ UNCHANGED out
  BY <1>1
<1>4. chain' = [chain EXCEPT ![f] = d]
  BY <1>1, <1>2 DEF Chains, ChainStates
<1>5. moves \in Moves /\ moves \in {"hold", "move"}
  BY DEF Moves
<1>6. e.type = "orders" /\ e.faction = f /\ e.round = r /\ e.moves = moves
  OBVIOUS
<1> HIDE DEF moves
<1>7. p \in [1..FinalRound -> {"none", "hold", "move", "directed"}]
  BY <1>2, <1>5 DEF ChainStates
<1> HIDE DEF p
<1>8. d \in ChainStates /\ d.undecided = c.undecided /\ d.assessed = c.assessed
  BY <1>2, <1>7 DEF ChainStates
<1>9. c.undecided => c.assessed \in Rounds
  BY DEF TheaterInv, Streamed, Chained
<1>10. f \in Factions
  BY TheaterAssumption
<1> HIDE DEF e, d, c
<1>11. Proper(e)
  BY <1>5, <1>6, <1>10 DEF Proper
<1>12. InOrder'
  BY <1>3 DEF TheaterInv, Streamed, InOrder
<1>13. Chained'
  BY <1>2, <1>4, <1>8, <1>9 DEF TheaterInv, Streamed, Chained, Chains
<1> QED
  BY <1>3, <1>6, <1>11, <1>12, <1>13, BroughtStep

\* Whatever the services publish.
LEMMA StreamStep == TheaterInv /\ Stream => TheaterInv'
BY ExerciseStep, BringAgainStep, ObserveStep, AlertStep, DirectStep, OrderStep DEF Stream

-----------------------------------------------------------------------------
(* The scenario's own steps.                                               *)

\* The narration opens.
LEMMA BeginKeeps ==
    ASSUME NEW m, Kept(m), ~m.results
    PROVE  /\ Kept(begin(m)) /\ begin(m).open
           /\ begin(m).told = (m.told \/ AllReady(begin(m)))
           /\ begin(m).setup = m.setup /\ begin(m).end = m.end /\ begin(m).faction = m.faction
           /\ begin(m).results = m.results /\ begin(m).seen = m.seen
           /\ ~m.told /\ ~m.setup => begin(m).blocks = m.blocks
<1> DEFINE a == [m EXCEPT !.open = TRUE]
           t == tell(a)
           k == advance(t, t.seen)
<1>0. k = begin(m)
  BY DEF begin
<1>1. m \in Narrators /\ m.seen \in Int
  BY NarratorIs DEF Kept
<1>2. a \in Narrators
  BY <1>1 DEF Narrators
<1>3. /\ a.given = m.given /\ a.said = m.said /\ a.blocks = m.blocks /\ a.printed = m.printed
      /\ a.results = m.results /\ a.seen = m.seen /\ a.told = m.told /\ a.open
      /\ a.setup = m.setup /\ a.end = m.end /\ a.faction = m.faction
  BY <1>1 DEF Narrators
<1> HIDE DEF a
<1>4. Kept(a)
  BY <1>1, <1>2, <1>3, KeptToo
<1>5. /\ Kept(t) /\ t.told = (a.told \/ (a.open /\ AllReady(a)))
      /\ t.setup = a.setup /\ t.end = a.end /\ t.faction = a.faction
      /\ t.open = a.open /\ t.results = a.results /\ t.seen = a.seen /\ t.printed = a.printed
  BY <1>4, TellKeeps
<1>6. t.blocks = a.blocks
  BY <1>2 DEF tell, Narrators
<1> HIDE DEF t
<1>7. t.seen \in Int
  BY <1>1, <1>3, <1>5
<1>8. /\ Kept(k) /\ Alike(t, k) /\ k.seen = t.seen
  BY <1>3, <1>5, <1>7, AdvanceKeeps
<1>9. ~t.told => k = t
  BY DEF advance
<1>10. AllReady(a) = AllReady(k)
  BY <1>5, <1>8 DEF AllReady, Alike
<1>11. ~a.setup => ~AllReady(a)
  BY DEF AllReady
<1>12. k.told = (m.told \/ AllReady(k))
  BY <1>3, <1>5, <1>8, <1>10 DEF Alike
<1>13. ~m.told /\ ~m.setup => k.blocks = m.blocks
  BY <1>3, <1>5, <1>6, <1>9, <1>11
<1> HIDE DEF k
<1> QED
  BY <1>0, <1>3, <1>5, <1>8, <1>12, <1>13 DEF Alike

\* The final conditions, when what is seen is told.
LEMMA ResultsKeep ==
    ASSUME NEW m, Kept(m), BagToSet(m.blocks) = {}
    PROVE  LET k == [m EXCEPT !.results = TRUE]
           IN  /\ Kept(k) /\ k.results /\ k.told = m.told /\ k.open = m.open /\ k.setup = m.setup
               /\ k.end = m.end /\ k.faction = m.faction /\ k.seen = m.seen /\ k.printed = m.printed
               /\ BagToSet(k.blocks) = {}
<1> DEFINE k == [m EXCEPT !.results = TRUE]
<1>1. m \in Narrators
  BY DEF Kept
<1>2. k \in Narrators
  BY <1>1 DEF Narrators
<1>3. /\ k.given = m.given /\ k.said = m.said /\ k.blocks = m.blocks /\ k.printed = m.printed
      /\ k.results /\ k.seen = m.seen /\ k.told = m.told /\ k.open = m.open
      /\ k.setup = m.setup /\ k.end = m.end /\ k.faction = m.faction
  BY <1>1 DEF Narrators
<1> HIDE DEF k
<1>4. Kept(k)
  BY <1>2, <1>3 DEF Kept
<1> QED
  BY <1>3, <1>4 DEF k

\* The narration opens.
LEMMA NarrateStep == TheaterInv /\ Narrate => TheaterInv'
<1> SUFFICES ASSUME TheaterInv, Narrate PROVE TheaterInv'
  OBVIOUS
<1> DEFINE k == begin(n)
<1>1. /\ UNCHANGED <<scenario, run, step, at, interrupted, broken, out, chain, again>>
      /\ scenario = "theater" /\ step = 1 /\ ~n.open /\ n' = k
  BY DEF Narrate, courierVars, target, coordinator
<1>2. Opened /\ ~n.results /\ ~n.told
  BY <1>1 DEF TheaterInv, Opened
<1>3. /\ Kept(k) /\ k.open /\ k.told = (n.told \/ AllReady(k))
      /\ k.setup = n.setup /\ k.end = n.end /\ k.faction = n.faction
      /\ k.results = n.results /\ k.seen = n.seen
      /\ ~n.told /\ ~n.setup => k.blocks = n.blocks
  BY <1>2, BeginKeeps DEF TheaterInv
<1> HIDE DEF k
<1>4. AtStep' /\ Streamed' /\ Following' = Following
  BY <1>1 DEF TheaterInv, AtStep, Streamed, InOrder, Chained, Following
<1>5. Opened'
  BY <1>1, <1>2, <1>3 DEF Opened
<1>6. Following => Followed'
  <2> SUFFICES ASSUME Following PROVE Followed'
    OBVIOUS
  <2>1. Followed
    BY DEF TheaterInv
  <2>2. Heard'
    BY <1>1, <1>3, <2>1 DEF Followed, Heard, IsReady
  <2>3. n'.open /\ AllReady(n') => n'.told
    BY <1>1, <1>3
  <2> QED
    BY <1>1, <1>3, <2>1, <2>2, <2>3 DEF Followed
<1>7. ~Following => Blank'
  <2> SUFFICES ASSUME ~Following PROVE Blank'
    OBVIOUS
  <2>1. Blank
    BY DEF TheaterInv
  <2>2. ~AllReady(k)
    BY <1>3, <2>1 DEF Blank, AllReady
  <2> QED
    BY <1>1, <1>2, <1>3, <2>1, <2>2 DEF Blank
<1> QED
  BY <1>1, <1>3, <1>4, <1>5, <1>6, <1>7 DEF TheaterInv

\* What the exercise's conclusion leaves to tell is told before the step ends.
LEMMA NarratorWaitsStep == TheaterInv /\ NarratorWaits => TheaterInv'
<1> SUFFICES ASSUME TheaterInv, NarratorWaits PROVE TheaterInv'
  OBVIOUS
<1>1. /\ UNCHANGED <<scenario, run, interrupted, broken, out, chain, again>>
      /\ scenario = "theater" /\ run = "steps" /\ at = "wait" /\ step' = step + 1 /\ at' = "between"
  BY DEF NarratorWaits, WaitDone, Done, In, target, coordinator
<1>2. step \in {0, 1}
  BY <1>1 DEF TheaterInv, AtStep
<1>3. AtStep' /\ Streamed' /\ Following' = Following
  BY <1>1, <1>2 DEF TheaterInv, AtStep, Streamed, InOrder, Chained, Following
<1>4. Kept(n) /\ Opened /\ ~n.results
  BY <1>1, <1>2 DEF TheaterInv, Opened
<1>5. CASE step = 0
  <2>1. n.setup /\ n' = n /\ step' = 1
    BY <1>1, <1>5 DEF NarratorWaits
  <2>2. Following /\ Followed
    BY <2>1 DEF TheaterInv, Blank
  <2>3. Heard' /\ Opened'
    BY <1>1, <1>4, <1>5, <2>1, <2>2 DEF Followed, Heard, Opened
  <2>4. Followed'
    BY <2>1, <2>2, <2>3 DEF Followed
  <2> QED
    BY <1>3, <1>4, <2>1, <2>2, <2>3, <2>4 DEF TheaterInv
<1>6. CASE step = 1
  <2> DEFINE k == flush(n)
  <2>1. n.open /\ n.end >= 0 /\ n' = k /\ step' = 2
    BY <1>1, <1>6 DEF NarratorWaits
  <2>2. Following /\ Followed
    BY <2>1 DEF TheaterInv, Blank
  <2>3. (\A f \in Factions : IsReady(n, f)) /\ n.seen = FinalRound
    BY <1>4, <2>1, <2>2, ConcludedIsHeard DEF TheaterInv, Followed
  <2>4. n.told /\ n.setup
    BY <1>6, <2>1, <2>2, <2>3 DEF Followed, AllReady, IsReady
  <2>5. /\ Kept(k) /\ Alike(n, k) /\ k.seen = n.seen /\ k.printed = n.seen
    BY <1>4, <2>4, FlushKeeps
  <2> HIDE DEF k
  <2>6. k.told /\ k.setup /\ k.open /\ ~k.results /\ k.end = n.end /\ k.faction = n.faction /\ k.printed = FinalRound
    BY <1>4, <2>1, <2>3, <2>4, <2>5 DEF Alike
  <2>7. Heard'
    BY <1>1, <2>1, <2>2, <2>5, <2>6 DEF Followed, Heard, IsReady
  <2>8. Opened' /\ Followed'
    BY <2>1, <2>6, <2>7 DEF Opened, Followed
  <2> QED
    BY <1>3, <2>1, <2>2, <2>5, <2>8 DEF TheaterInv
<1> QED
  BY <1>2, <1>5, <1>6

\* Nothing is owed when the final conditions are given.
LEMMA ResultsStep == TheaterInv /\ Results => TheaterInv'
<1> SUFFICES ASSUME TheaterInv, Results PROVE TheaterInv'
  OBVIOUS
<1> DEFINE a == flush(n)
           k == [a EXCEPT !.results = TRUE]
<1>1. /\ UNCHANGED <<scenario, run, interrupted, broken, out, chain, again>>
      /\ scenario = "theater" /\ run = "steps" /\ at = "check" /\ step' = step + 1 /\ at' = "between"
      /\ n' = k
  BY DEF Results, Done, In, target, coordinator
<1>2. step = 2 /\ step' = 3
  BY <1>1 DEF TheaterInv, AtStep
<1>3. AtStep' /\ Streamed' /\ Following' = Following
  BY <1>1, <1>2 DEF TheaterInv, AtStep, Streamed, InOrder, Chained, Following
<1>4. Kept(n) /\ Opened /\ ~n.results
  BY <1>1, <1>2 DEF TheaterInv, Opened
<1>5. /\ Kept(a) /\ Alike(n, a) /\ a.seen = n.seen
      /\ a.printed = IF n.told THEN n.seen ELSE n.printed
      /\ n.told => BagToSet(a.blocks) = {}
  BY <1>4, FlushKeeps
<1>6. ~n.told => a = n
  BY DEF flush
<1>7. Following => n.told /\ n.printed = FinalRound /\ Followed
  BY <1>2 DEF TheaterInv, Followed
<1>8. ~Following => Blank
  BY DEF TheaterInv
<1>9. BagToSet(a.blocks) = {}
  BY <1>5, <1>6, <1>7, <1>8 DEF Blank
<1> HIDE DEF a
<1>10. /\ Kept(k) /\ k.results /\ k.told = a.told /\ k.open = a.open /\ k.setup = a.setup
       /\ k.end = a.end /\ k.faction = a.faction /\ k.seen = a.seen /\ k.printed = a.printed
       /\ BagToSet(k.blocks) = {}
  BY <1>5, <1>9, ResultsKeep
<1> HIDE DEF k
<1>11. /\ k.told = n.told /\ k.open = n.open /\ k.setup = n.setup /\ k.end = n.end
       /\ k.faction = n.faction /\ k.seen = n.seen
  BY <1>5, <1>10 DEF Alike
<1>12. Opened'
  BY <1>1, <1>2, <1>4, <1>11 DEF Opened
<1>13. Following => Followed'
  <2> SUFFICES ASSUME Following PROVE Followed'
    OBVIOUS
  <2>1. n.seen \in Int /\ n.seen <= FinalRound /\ n.printed <= n.seen /\ FinalRound \in Int
    BY <1>4, NarratorIs, RoundsAre DEF Kept
  <2>2. k.printed = FinalRound
    BY <1>5, <1>7, <1>10, <2>1
  <2>3. Heard'
    BY <1>1, <1>7, <1>11 DEF Followed, Heard, IsReady
  <2>4. k.told /\ k.setup
    BY <1>2, <1>7, <1>11 DEF Followed
  <2> QED
    BY <1>1, <2>2, <2>3, <2>4 DEF Followed
<1>14. ~Following => Blank'
  BY <1>1, <1>8, <1>10, <1>11 DEF Blank
<1> QED
  BY <1>1, <1>3, <1>10, <1>12, <1>13, <1>14 DEF TheaterInv

\* A run of any other scenario.
LEMMA OtherInv ==
    ASSUME TheaterInv, scenario # "theater", UNCHANGED <<scenario, out, chain, again, faults, n>>
    PROVE  TheaterInv'
<1>1. ~Following /\ ~Following' /\ AtStep' /\ scenario' # "theater"
  BY DEF Following, AtStep
<1>2. Streamed' /\ Kept(n')
  BY DEF TheaterInv, Streamed, InOrder, Chained
<1>3. Blank'
  BY <1>1 DEF TheaterInv, Blank
<1> QED
  BY <1>1, <1>2, <1>3 DEF TheaterInv

\* A run has its steps from its beginning on.
LEMMA StartsNew ==
    ASSUME RunSteps, run # "steps", run' = "steps"
    PROVE  run = "new"
BY DEF RunSteps, Refuse, BeginSteps, Enter, LeaveSteps, Check, Await, WaitFails, Acquire, Store,
       Launch, Launched, StopStep, Stopped, StartMember, StopMember, CancelLeft, Drained,
       ReleaseBroker, CloseStore, Cleaning, In

\* What ends a run early ends what is followed of it.
LEMMA TheaterRunStep == TheaterInv /\ TheaterRunSteps => TheaterInv'
<1> SUFFICES ASSUME TheaterInv, TheaterRunSteps PROVE TheaterInv'
  OBVIOUS
<1>1. RunSteps /\ (scenario = "theater" => ~In("check")) /\ FollowWhile(run = "steps" => run' = "steps")
  BY DEF TheaterRunSteps
<1>2. CASE scenario # "theater"
  <2>1. UNCHANGED <<scenario, out, chain, again, faults, n>>
    BY <1>1, <1>2, SameTarget DEF FollowWhile, NarratorUnchanged, CourierNext
  <2> QED
    BY <1>2, <2>1, OtherInv
<1>3. CASE scenario = "theater"
  <2>1. /\ AtStep' /\ run' # "new"
        /\ run = "steps" /\ run' = "steps" => step' = step \/ (step = 3 /\ step' = 4)
        /\ run # "steps" => step' = step
        /\ UNCHANGED <<scenario, interrupted, broken>>
    BY <1>1, <1>3, RunStepsAt DEF TheaterInv
  <2>2. CASE run = "steps" /\ run' # "steps"
    <3>1. out' = {} /\ chain' = ChainInit /\ again' = {} /\ n' = newNarrator
      BY <1>1, <1>3, <2>2 DEF FollowWhile
    <3>2. ~Following'
      BY <2>2 DEF Following
    <3> QED
      BY <2>1, <3>1, <3>2, LeftBehind DEF TheaterInv
  <2>3. CASE run = "steps" => run' = "steps"
    <3>1. UNCHANGED <<out, chain, again, n>>
      BY <1>1, <2>3 DEF FollowWhile, NarratorUnchanged
    <3>2. Streamed' /\ Kept(n') /\ Blank' = Blank
      BY <3>1 DEF TheaterInv, Streamed, InOrder, Chained, Blank
    <3>3. step' = step \/ (step = 3 /\ step' = 4)
      BY <2>1, <2>3
    <3>4. Opened'
      BY <1>3, <3>1, <3>3 DEF TheaterInv, Opened
    <3>5. CASE run = "steps"
      <4>1. Following' = Following
        BY <2>1, <2>3, <3>5 DEF Following
      <4>2. Following => Followed'
        BY <3>1, <3>3 DEF TheaterInv, Followed, Heard
      <4> QED
        BY <2>1, <3>2, <3>4, <4>1, <4>2 DEF TheaterInv
    <3>6. CASE run # "steps"
      <4>1. step' = step /\ ~Following /\ Blank
        BY <2>1, <3>6 DEF TheaterInv, Following
      <4>2. Following' => Followed'
        <5> SUFFICES ASSUME Following' PROVE Followed'
          OBVIOUS
        <5>1. run = "new" /\ step = 0
          BY <1>1, <1>3, <3>6, StartsNew DEF TheaterInv, AtStep, Following
        <5>2. Heard'
          BY <3>1, <4>1 DEF Blank, Heard
        <5>3. ~n.open
          BY <1>3, <5>1 DEF TheaterInv, Opened
        <5> QED
          BY <3>1, <4>1, <5>1, <5>2, <5>3 DEF Followed
      <4> QED
        BY <2>1, <3>2, <3>4, <4>1, <4>2 DEF TheaterInv
    <3> QED
      BY <3>5, <3>6
  <2> QED
    BY <2>2, <2>3
<1> QED
  BY <1>2, <1>3

\* What befalls the run may end it.
LEMMA RunFaultsStep == TheaterInv /\ RunFaults => TheaterInv'
<1> SUFFICES ASSUME TheaterInv, RunFaults PROVE TheaterInv'
  OBVIOUS
<1>1. CourierFaults /\ FollowWhile(broken' = broken /\ interrupted' = interrupted)
  BY DEF RunFaults
<1>2. UNCHANGED <<scenario, run, step, at>>
  BY <1>1, OthersAt
<1>3. CASE broken' = broken /\ interrupted' = interrupted
  <2>1. UNCHANGED <<out, chain, again, n>>
    BY <1>1, <1>3 DEF FollowWhile, NarratorUnchanged
  <2> QED
    BY <1>2, <1>3, <2>1, StaysInv DEF TheaterInv, Streamed, Chained
<1>4. CASE ~(broken' = broken /\ interrupted' = interrupted)
  <2>1. interrupted' \/ broken' # {}
    BY <1>1, <1>4 DEF CourierFaults, Interrupt, BindWatch, Break, Land, coordinator, servers
  <2>2. ~Following' /\ AtStep'
    BY <1>2, <2>1 DEF Following, TheaterInv, AtStep
  <2>3. CASE scenario = "theater"
    <3>1. out' = {} /\ chain' = ChainInit /\ again' = {} /\ n' = newNarrator
      BY <1>1, <1>4, <2>3 DEF FollowWhile
    <3> QED
      BY <2>2, <3>1, LeftBehind DEF TheaterInv
  <2>4. CASE scenario # "theater"
    <3>1. UNCHANGED <<out, chain, again, faults, n>>
      BY <1>1, <2>4 DEF FollowWhile, NarratorUnchanged
    <3> QED
      BY <1>2, <2>4, <3>1, OtherInv
  <2> QED
    BY <2>3, <2>4
<1> QED
  BY <1>3, <1>4

\* Every step keeps the invariant.
LEMMA TheaterStep == TheaterInv /\ [TheaterNext]_theaterVars => TheaterInv'
<1> SUFFICES ASSUME TheaterInv, [TheaterNext]_theaterVars PROVE TheaterInv'
  OBVIOUS
<1>1. CASE Stream
  BY <1>1, StreamStep
<1>2. CASE Narrate
  BY <1>2, NarrateStep
<1>3. CASE NarratorWaits
  BY <1>3, NarratorWaitsStep
<1>4. CASE Results
  BY <1>4, ResultsStep
<1>5. CASE TheaterRunSteps
  BY <1>5, TheaterRunStep
<1>6. CASE OtherWaits
  <2>1. scenario # "theater" /\ UNCHANGED <<scenario, out, chain, again, faults, n>>
    BY <1>6 DEF OtherWaits, WaitDone, NarratorUnchanged, target
  <2> QED
    BY <2>1, OtherInv
<1>7. CASE CoordinatorSteps /\ NarratorUnchanged
  <2>1. UNCHANGED <<scenario, run, step, at, interrupted, broken, out, chain, again, n>>
    BY <1>7, OthersAt DEF NarratorUnchanged
  <2> QED
    BY <2>1, StaysInv DEF TheaterInv, Streamed, Chained
<1>8. CASE RunFaults
  BY <1>8, RunFaultsStep
<1>9. CASE UNCHANGED theaterVars
  <2>1. UNCHANGED <<scenario, run, step, at, interrupted, broken, out, chain, again, n>>
    BY <1>9 DEF theaterVars, courierVars, target, coordinator
  <2> QED
    BY <2>1, StaysInv DEF TheaterInv, Streamed, Chained
<1> QED
  BY <1>1, <1>2, <1>3, <1>4, <1>5, <1>6, <1>7, <1>8, <1>9 DEF TheaterNext

-----------------------------------------------------------------------------
(* Its theorem.                                                            *)

\* What is given is what is told and what waits.
LEMMA GivenIs ==
    ASSUME Kept(n)
    PROVE  n.given = Told (+) n.blocks
<1> DEFINE D == {s.change : s \in BagToSet(n.said)}
<1>1. /\ n.given \in BagsOver(ChangeSet) /\ n.blocks \in BagsOver(ChangeSet)
      /\ n.said \in BagsOver(SayingSet)
  BY NarratorIs DEF Kept
<1>2. /\ \A c : CountOf(c, n.said) \in Nat /\ (CountOf(c, n.said) > 0 <=> c \in BagToSet(n.said))
      /\ BagToSet(n.said) \in SUBSET SayingSet
  BY <1>1, BagIs
<1>3. Told = [c \in D |-> CountOf(Due(c), n.said)]
  BY DEF Told, Due
<1>4. \A s \in BagToSet(n.said) : s.change \in ChangeSet /\ s = Due(s.change)
  <2> TAKE s \in BagToSet(n.said)
  <2>1. s \in SayingSet /\ s.told = s.change.came
    BY <1>2 DEF Kept
  <2>2. s.change \in ChangeSet /\ s = [change |-> s.change, told |-> s.told]
    BY <2>1 DEF SayingSet
  <2> QED
    BY <2>1, <2>2 DEF Due
<1>5. D \in SUBSET ChangeSet
  BY <1>4
<1>6. \A c : c \in D <=> Due(c) \in BagToSet(n.said)
  <2> TAKE c
  <2>1. ASSUME c \in D PROVE Due(c) \in BagToSet(n.said)
    BY <1>4, <2>1
  <2>2. ASSUME Due(c) \in BagToSet(n.said) PROVE c \in D
    <3>1. Due(c).change = c
      BY DEF Due
    <3> QED
      BY <2>2, <3>1
  <2> QED
    BY <2>1, <2>2
<1> HIDE DEF D
<1>7. Told \in [D -> Nat \ {0}]
  <2>1. \A c \in D : CountOf(Due(c), n.said) \in Nat \ {0}
    BY <1>2, <1>6
  <2> QED
    BY <1>3, <2>1
<1>8. Told \in BagsOver(ChangeSet)
  BY <1>5, <1>7, BagMade
<1>9. \A c : CountOf(c, Told) = CountOf(Due(c), n.said)
  <2> TAKE c
  <2>1. CASE c \in D
    BY <1>3, <2>1 DEF CountOf, BagToSet
  <2>2. CASE c \notin D
    <3>1. CountOf(Due(c), n.said) = 0
      BY <1>2, <1>6, <2>2
    <3>2. CountOf(c, Told) = 0
      BY <1>3, <2>2 DEF CountOf, BagToSet
    <3> QED
      BY <3>1, <3>2
  <2> QED
    BY <2>1, <2>2
<1>10. /\ Told (+) n.blocks \in BagsOver(ChangeSet)
       /\ \A c : CountOf(c, Told (+) n.blocks) = CountOf(c, Told) + CountOf(c, n.blocks)
  BY <1>1, <1>8, Joined
<1>11. \A c \in ChangeSet : CountOf(c, n.given) = CountOf(c, Told (+) n.blocks)
  BY <1>9, <1>10 DEF Kept
<1> QED
  BY <1>1, <1>10, <1>11, SameBags

\* Each change that the narrator collects it tells once, in its round's block or
\* as late when it came behind it, none before the narration's step, and owes
\* none once the final conditions are told: for any number of rounds and
\* factions, whatever the order in which the services answer, and however often
\* the broker brings an event again.
THEOREM NarrationToldOnce == TheaterSpec => []ToldOnce
<1>1. TheaterInv => ToldOnce
  <2> SUFFICES ASSUME TheaterInv PROVE ToldOnce
    OBVIOUS
  <2>1. Kept(n) /\ n.given = Told (+) n.blocks
    BY GivenIs DEF TheaterInv
  <2>2. n.told => step >= 1
    <3>1. CASE scenario = "theater"
      BY <3>1 DEF TheaterInv, Opened
    <3>2. CASE scenario # "theater"
      BY <3>2 DEF TheaterInv, Following, Blank
    <3> QED
      BY <3>1, <3>2
  <2>3. n.results => \A c \in BagToSet(n.blocks) : c.came = "after"
    BY <2>1 DEF Kept, When
  <2> QED
    BY <2>1, <2>2, <2>3 DEF Kept, ToldOnce
<1> QED
  BY TheaterInitInv, TheaterStep, <1>1, PTL DEF TheaterSpec
=============================================================================
