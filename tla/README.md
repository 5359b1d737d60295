# A formal model of spike-messaging

The repository is a messaging layer for event-driven services in Go — a
transactional outbox, a consumer inbox, two brokers, reactors — and four
services that use it to play exercises between two factions. This directory
holds TLA+ models of them, the TLC configurations that check them on small
instances, and theorems that TLAPS proves for every instance. `PROJECT.json`
maps each definition to the lines it models.

To repeat the checks, from this directory:

    tlc -config MCOutbox.cfg MCOutbox            # each run: its .cfg and its module
    tlc -config MCOutboxOne.cfg MCOutbox
    tlc -config MCReactor.cfg NatsSource
    tlc -config MCProcess.cfg Process
    tlc -config MCOperationsRecorded.cfg MCOperations
    for m in *Proof.tla ; do tlapm $m ; done     # each of the eight proof modules

The other runs have the module of their own name. `MCTheater` takes three
minutes, the others less than one or two; the proofs take about twenty together, of
which `GameProof` takes six.

## The system

    command transaction --(rows)--> outbox table --relay--> broker
                                                              |  durable consumer
    handler transaction <-(claim)-- inbox table  <---source---+
           |                                      (one delivery at a time)
           +--(rows)--> the handling service's own outbox ...

| Component | State it keeps | Operations | What makes it correct |
|---|---|---|---|
| Event recorder, `core/event` | a queue per command | `Emit` runs the command's body and inserts its events last, in its transaction | events exist if and only if the command commits |
| Outbox, `messaging/outbox` | table `messaging_outbox`; the relay's row, transaction and readiness | `sink.Write`; the relay's `Receive`, `pass`, `next` | every committed event reaches the broker, no other does; claims exclude each other; order by `seq` but for named exceptions; a drain leaves nothing behind |
| Brokers, `messaging/memory`, `messaging/nats` | the stored events, the deduplication window, each durable consumer's position, deliveries, retries and counts | `Publish`, `Subscribe`, the members' loops | at least once within `MaxDeliver`; one member at a time; late outcomes are void |
| Inbox, `messaging/inbox` | table `messaging_inbox` | `Claim`, in the handler's transaction | the work for an event is done once per consumer |
| Reactor, `core/reactor` | four states, two contexts, two channels | `Start`, `Shutdown`, `Err`; the goroutine | failures are reported once; the drain is real and bounded |
| Lifecycle, `core/lifecycle` and each service's composition root | registrations by stage | `Register`; the coordinator's start and drain | no part runs without what it stands on; what producers commit while they drain is published; a ready service misses nothing |
| Interval source and throttle, `core/reactor/every.go`, `core/logging` | a ticker; the last report | `Receive`; `Report` | the first error ends the source; one log line a period |
| Exercise service | tables `exercise`, `exercise_round`, `exercise_orders` | `Create`, `Start`, `Pause`, `Resume`, `Stop`, `RecordOrders`, `ResolveDue` | rounds are resolved when due, once, under the orders recorded; the events tell it in order |
| Exercise rules | none (pure); the exercise's state is their input | `Resolve`, `Observe`, `Judge`, `Validate`, `Skirmish` | every state they make is valid; fights cost rounds; captures take two; a verdict at the limit is over |
| Intelligence service | assessments per faction and exercise | `Open`, `Observe`, `Alert`, `Close`; fusion | right whatever order its inputs arrive in |
| Command service | directives per faction and exercise | `Open`, `Decide`, `Close`; package `decide` | likewise; targets differ and can be reached |
| Operations service | plans per faction and exercise | `Open`, `Assign`, `Maneuver`, `Close`; package `route` | likewise; orders are never refused |
| Courier | a run's steps, coordinator and leases; the narrator's blocks | eleven scenarios; their cleanup; `apply`, `advance`, `flush`; the theater check | nothing of a run stays on the servers unsaid; each change of an exercise is told once |
| Compose files, scripts | none of their own | deployment | — |

Components interact through the database (a command's rows and its claim are
in one transaction), through messages (every event one service raises is an
input of others, redelivered until settled), through callbacks (a reactor's
handler is called by its source, a consumer's claim by its domain), and, in
one process, through the mutex and the channels of the reactor and the
in-memory broker.

What is hard to test is the interleaving of several relays, members, umpires
and resolvers; deadlines that pass while the work they bound goes on; answers
that are lost after the work was done; processes that die in between and
whose sessions the database finds out about later; and drains that race
failures. `PROJECT.json` lists each such hazard at its line with the
properties that watch it.

## The modules

| Module | What it models |
|---|---|
| `Delivery` | what the outbox promises a producer: committed events are delivered in the end, others never |
| `Outbox` | commands, relays, the broker's stream, as far as the outbox depends on them; implements `Delivery` |
| `BrokerContract` | what `messaging.Broker` promises the members of a durable consumer |
| `MemoryBroker` | the in-memory broker with one durable consumer and its members; implements `BrokerContract` |
| `Inbox` | members of a durable JetStream consumer that handle through the inbox |
| `Reactor` | one reactor with its source, its handler, its `Shutdown` and the coordinator that reads `Err` |
| `NatsSource` | extends `Reactor` with the NATS source's bind and pull loop, and its server |
| `Process` | a service's process: what is registered at which stage, the start, the drain, the boots that follow |
| `Exercise` | the exercise domain: umpires, sessions that record orders, resolvers |
| `Contracts` | what each service accepts of the others' events |
| `Intelligence` | the intelligence domain: its inputs in every order on several replicas, and the fusion of pictures |
| `TheaterCheck` | extends `Intelligence` with courier's judgement of the assessments it issues |
| `Command` | the command domain: which assessments are decided on, and which decisions are announced |
| `Operations` | extends `Command` with the operations domain, and the orders exercise records from it |
| `World` | the map, its cells and gates, the elements and what they are |
| `Rules` | extends `World` with package `rules`: a round's resolution, observations, the verdict |
| `Decide` | extends `World` with package `decide`: the rules by which command directs elements |
| `Route` | extends `Decide` with package `route`: paths, giving way, orders |
| `Game` | composes `Rules`, `Decide` and `Route` with the fusion of pictures into exercises that the services play |
| `Courier` | a run of any of courier's scenarios: steps, coordinator, leases, cleanup |
| `Theater` | extends `Courier` with the theater scenario's narrator and the events it is brought |
| `OutboxProof`, `MemoryBrokerProof`, `ExerciseProof`, `GameProof` | the theorems about the modules they are named for, `GameProof` with the lemmas about `World`, `Rules`, `Decide` and `Route` |
| `ConsumerProof` | those about `Inbox`, `Reactor` and `NatsSource`, and that the last is an instance of `Reactor` |
| `IntelligenceProof` | those about `Intelligence` and `TheaterCheck` |
| `OperationsProof` | those about `Command` and `Operations` |
| `LifecycleProof` | those about `Process`, `Courier` and `Theater` |
| `MC...` | the instances TLC checks |

Operators whose comment begins with *Mistake* are not part of the model. Each
is a plausible bug in the operator after it, and each property is shown to
fail when its mistake takes that operator's place.

### Outbox

A transaction's rows are inserted (`Emit`) and become visible when it commits
(`CommitTx`). `rows[s]` is the transaction that inserted `seq` s, so `seq`s of
concurrent transactions interleave and their commits come in any order. A
relay is at one of the places of `Relay.Receive`: `"pass"` is the head of
`pass`'s loop, `"handling"`, `"sent"` and `"acked"` are the inside of `next`
before, during and after the publish, `"waiting"` is the poll timer.
`live` is the settle transaction, which may end before the handler does
(`SettleExpires`). A publish request is in `wire` until the broker accepts it,
and may be accepted after the handler gave it up. A dead relay's locks stay in
`lingering` until the database releases them.

*Abstracted:* an event is its `seq`, for the recorder mints a fresh id each
time; encoding is left out but for the rows that cannot be decoded
(`Corrupt`). The broker is one stream with a window: the in-memory broker and
the JetStream stream behave alike here. A request that is lost for good is one
that is never accepted.

*History variables:* `ahead` records the pairs whose order the design gives
up; `owed` and `left` what a stopped relay's last pass should publish and what
it found locked.

### MemoryBroker

Each section under the broker's mutex — `Publish`, `Subscribe`, `take`,
`settle` — is one action, including the expiry of overrun deliveries that
`take` and `settle` do first (`Swept`, `Requeued`, `Terminated`). Instants are
the ticks left until them, so that the clock needs no bound. A member that
finds nothing waits on the wake channel it captured under the mutex: `woken`
is the set of waiting members whose channel was closed. The map of pending
deliveries is iterated in any order, which is the choice of `q \in Swept`: one
queue for each order in which those overrun may be appended. The code appends
and picks the first of the earliest due; the model inserts where that would
pick it (`DueBy`), and takes the head.

### BrokerContract

The terms that `messaging.Broker` states and `messagingtest` has a case for
each of, without a clock: `Publish` drops a repeat of what is `recent`, `Create`
fixes where a consumer starts, `Deliver` gives a member the next event or one
that is owed again, `Done`, `Fail` and `Ignore` are outcomes in time and late,
and `Pass` is all that time does. `Contract` in `MemoryBroker` is the refinement
mapping: an overrun delivery is owed again from the instant its deadline
passes, although the code only finds out at the next `take` or `settle`. The
deliveries made are counted only where `MaxDeliver` bounds them, for the
contract says nothing of them otherwise.

### Inbox

The server's side of a consumer is external and modelled from what
`source.deliver` and `consumerConfig` ask of it: a message is ready, in
flight, or settled; deliveries may be lost, expire, and are counted where
`MaxDeliver` bounds them; outcomes travel in `wire` and may be lost or
late. A delivery that reaches nobody and one whose member died look alike to
the server. The member's side is `Claim`, then the work and `Commit`, or
`Skip` for a repeat, `Fail`, `Refuse`, and `Settle`, which drops an
outcome past the deadline. A delivery whose `AckWait` passes is `Lapse`.
An insert into `messaging_inbox` waits for another
open transaction's insert of the same key (`Held`), as PostgreSQL's unique
index makes it. `Sever` loses the answer to a commit; a transaction without a
client ends either way.

### Reactor

One action per section under the reactor's mutex and per channel or context
operation outside it. The source is any that obeys `Source`: it may go on
delivering until it has seen its context end, and may fail at any time. The
grace timer and `Shutdown`'s context may fire at any time after they are set;
where several cases of the `select` are ready, any is taken.

### NatsSource

`Bind`, `Pull` and `Check` are the three places where `Receive` waits for the
server. A pull ends as the connection and the consumer let it (`Pulls`): with a
message, empty, told that the consumer is deleted, without responders, with
another error, or because the connection is closed. `failures` is the count
that makes the source ask the server for the consumer (`Check`), as it does at
once when nobody responds. A handler's outcome never ends the source. `kind`
is fixed at the start: a reactor with any other source behaves as in `Reactor`.

### Process

The parts and stages are those that the four services' composition roots
register; `App` is their union for the service chosen at the start. The
coordinator starts the lowest stage not yet up and drains the highest. What a
part's `Shutdown` waits for is `Holds`: the relay's last pass, the resolver's
pass. `bound` outlives the process and says what was past when each durable
consumer was made; `NextEvent` lets an exercise start only while the service
is ready, and go on whatever becomes of it. The pass of a ticker that is due
while one runs is dropped (`PassEnds`), as `time.Ticker` drops it.

### Exercise

A command locks the row (`Lock`, `Share`, `LockIfDue`), works on what it read
under the lock, and commits its writes and its events in one step.
Status commands wait for the lock; resolvers skip a row that is held
(`SKIP LOCKED`); sessions that record orders share it. `nextAt` is
`next_round_at` seen from the database's clock. A round's resolution is
abstract: its verdict may be over or not, and at the limit is; it may lose an
objective or not. The two factions' observations are one event.

### Intelligence

`game` is a whole course of an exercise, chosen at the start: who holds each
objective after each round, which cells each faction sees, where each element
is. It determines every event that exercise raises. The model handles these
events in every order, each at most once, and any of them possibly never.
`Observe` and `Alert` lock the faction's row
(`Lock`), compute from what they read, and commit the row, the claim and the
assessment together; `Open` and `Close` write both factions' rows in one step.
A row that does not exist yet makes them fail and release the claim, so these
steps are guarded by it. The picture is abstract in its geometry only: a cell
is seen by a faction or is not. A faction's own elements are those of the
picture's round, and are left out. `fused` is a history variable.

`TheaterCheck` states what courier's `theater-check` demands of an assessment,
item by item, from the game, which is the history that the check reads from
exercise, and from the last assessment of each round.

### Command and Operations

In these modules a handler is one step: its transaction holds the faction's
row from its read to its commit, which `Intelligence` models in detail.
`Assessed` is the sequence of assessments that intelligence
issues, as `IssuedIsCurrent` says they are: revisions one by one, rounds that do
not go back. What package `decide` decides is any decision for each live
element. `Plan` is what route orders without the paths. `offbeat` is a history
variable. Inputs are of rounds that are resolved, and a conclusion comes with
the last; the guard on rounds past the conclusion (`PastEnd`) thus skips
nothing, as it does in the code while exercise raises nothing past it
(`ReportedInOrder`).

`Accepted` holds the events raised against `Contracts`, which is the `Validate`
of each consumer's command: a refusal there is permanent, and the event lost.

### World, Rules, Decide, Route and Game

`World` is the map as `rules` builds it: open cells, gates (`Link`), and a
faction, kind and number of operators for each element. In `Rules` the parts of
`Resolve` follow each other as in the code: the orders obeyed and the elements
sent back until no two of a faction end in one cell (`Ends`), the fire that
retreats draw from pursuers (`Volleys`), then the fire in every
contested cell at once, the statuses, and the captures. What the code draws from
a seed — hits, targets, damage — may be anything that it can draw
(`Resolutions`), so each property holds for every seed. `Decide` gives each
rule the elements that the rules before it left, in the order of the code, with
its tie-breaks by ID and by cell; `Route` finds the path that the code's search
finds, and has movers give way pass by pass.
Who is sent back (`SentBack`) and which steps are given up (`GivenUp`) only grow
from pass to pass, so that the code's loops, which end when a pass changes
nothing, are as many passes as there is something to add.

In `Game` exercise resolves a
round (`Resolved`) and the services follow one another, both factions' at once:
the picture (`Observed`), the decisions (`Directed`), the orders (`Ordered`). A
slip lets a faction's directive come a round behind, or its orders not come. A
faction may be played by `"anyone"`, who gives any orders, refused ones too.

### Courier and Theater

A scenario's record lists its steps in order, its reactors by stage, and the
broker it asks for. `at` is the place within a step: `"await"` is a wait that
watches the coordinator, `"wait"` one that does not. `leases` is what the
run's cleanup releases, in order; `left` is what is on the servers by then.
`cutShort` is a create whose answer never came: it may still be made
afterwards (`Land`). `errors` names what a run's errors tell of, because the
cleanup's own failures are only said.

In `Theater` the services publish what an exercise with the captures `Takes`
has them publish, each in its own order, interleaved with one another: `out` is
what exercise has published, and `Precedes` its order. The broker brings an event again when its acknowledgement is lost or the view that
the start's needs cannot be read. The narrator's functions are named as in the code.
The blocks are one bag of changes, each with the round of its block and the time
it `came`: timely, late or after the final conditions (`When`). `print` tells a set
of blocks and `advance` uses it once for all it tells: behind the first, nothing
is late. `said` and `given` are history variables.
A change of a contact is handled as that of an objective, regroups, fights and
what the observer alone is told are collected like captures, and orders for the
round after the last are never in effect: these are left out. When something
ends the run early, the narrator and the stream are set back to their start
(`FollowWhile`): nobody reads them any more, and `Courier` says the rest.

## The runs

Safety and liveness of an instance are checked in one run. Types are part of
the properties named here wherever no property is named for them.

| Run | Instance | Shows |
|---|---|---|
| `MCOutbox` | 2 commands, 2 relays, 3 rows of which one is corrupt, 1 crash | only committed events leave; published rows are stored; claims are exclusive; the order of the stream |
| `MCOutboxOne` | 2 commands, 1 relay, 2 rows, 1 stop, 1 id forgotten | repeats need the window; a drain leaves nothing; the refinement of `Delivery` with its fairness |
| `MCMemoryBroker` | 2 members, a consumer from new events, a log of 2, `AckWait` 2, `RetryDelay` 3, `MaxDeliver` 2, `Window` 2, 1 stop | the refinement of `BrokerContract`; no lost wake-up; every event is settled or given up |
| `MCReactor` | one reactor with a grace, over any source or the NATS one, 2 drops of the connection | failures are reported once; drains are real and end; a pull loop ends for a deleted consumer and goes on through a reconnect |
| `MCInbox` | 2 members of one consumer, 1 message, no `MaxDeliver`, 1 crash | the work is done once; acknowledged is handled; every message is settled |
| `MCExercise` | 2 exercises of 2 rounds of which one may fail forever, 1 umpire, 1 session, 1 resolver, orders for both rounds | recorded is applied; the events' order; rounds are due; the healthy exercise's rounds go on |
| `MCIntelligence` | 2 replicas, 2 factions, 3 rounds, 2 cells of which one is an objective, 1 enemy element, contacts that last 1 round; 24 games | the picture is the history's; what is issued is the picture; the theater check explains it |
| `MCOperations` | 1 faction, 2 elements, 3 rounds, 3 assessments of which two are of one round, 4 decisions | no event is refused for good; what stands is what was decided; orders are the plan |
| `MCGame` | 2 sectors of 3 by 2 and 2 by 1 cells with a gate, an obstacle, 2 objectives; 3 elements against 2 that the services play, and 3 against 1 of which anyone plays one side, and enemies that start ready in one cell; 1 slip | states are valid; orders are obeyed; targets differ; the verdict; fights; captures |
| `MCProcess` | each service, 2 boots, 1 row at a time | a drain leaves nothing; nothing runs without what it stands on; nothing is skipped |
| `MCTheater` | all 11 scenarios on both brokers, interrupted or not; a theater of 2 rounds in which the objective is taken twice, one faction served, 1 repeat or failed read of the start | nothing is left unsaid; nothing is released under a reactor; every run ends; changes are told once |
| `MCOperationsRecorded` | as `MCOperations` | a counterexample: see *Findings* |

**The bounds.** Every exception to the outbox's order takes two rows (one that
overtakes another) and two relays (one that claims what the other lost), so
`MCOutbox` has two of each, and a third row so that the corrupt one has a row
on either side; the drain and the window are about one relay and two rows.
In `MemoryBroker`, two members suffice for a late outcome to meet its
redelivery, and a log of two for an unwanted event to precede a wanted one and
for two wanted ones to be in flight at once; `AckWait` and `RetryDelay` differ
so that an expiry and a retry come due in both orders. `MaxDeliver` 2 makes a
delivery the last one or not; an unbounded consumer (0), which differs in
`Spent` alone, is not run. In `Inbox` an overrun delivery or a lost
acknowledgement puts two members to work on one event side by side; that no
number of members, copies or deliveries makes a difference to safety is proved.
In `NatsSource` two drops let a consumer vanish while the connection is down
and the count of failures be reset in between. In `Exercise` two rounds give
orders that are early, in time and late, and the last round is the limit; one
resolver and one umpire already interleave between a pass's list and its locks,
and the theorems hold for any number. In `Intelligence` three rounds let an
alert fall before, on and after the round of the picture it meets, and let a
contact be renewed, kept and dropped; the games have an objective held, lost,
and taken from nobody. Factions share no row but in a start and a conclusion. In
`Operations` two assessments of one round give two directives on it, as after
an alert; in round 1 one element is engaged and the other dead, so that a rule
alone can change the orders, and a dead element's target must go. In `Game` an
operator dies of a hit and a squad has two, so that a fight ends in retreats, losses
and eliminations within the limit; a gate and an obstacle make
elements meet and give way; six rounds leave time to take an objective after a
fight. In `Process` two boots make a durable consumer older than the
process; the events of an exercise are its start, its end and one for all in
between. In `Theater` the two takes give a capture from nobody, a capture from
the faction served, and thus a loss with its alert; one faction's services
already interleave freely with exercise, which is all that the narrator sees of
a second. `CountCap` and the history counters saturate above every value the
properties tell apart.

Deadlock is not checked: every one of these systems may stop, at its bounds
or because everything was shut down.

## Fairness

* `Outbox`: a supervisor restarts relays, commands end, dead sessions are
  found; the relay's loop runs (weak fairness); the broker and the database
  answer again and again (strong fairness on the claim, the publish, its
  acceptance and the mark), for the loop retries on every poll. From some time
  on no handler outlives the settle deadline, which is twice its own:
  the code bounds the handler by its context, and a handler that ignores it
  for ever would publish the same row for ever.
* `MemoryBroker`: members run, handlers return, time passes. Where there is no
  `MaxDeliver`, a handler called again and again succeeds once.
* `Inbox`: as above, with outcomes that arrive once if sent again and again,
  and from some time on no handler that misses its deadline.
* `Theater`: a run's steps and its coordinator go on (weak fairness on each):
  every wait of a step has its own time, and so has every drain. What a wait waits
  for may never come, no event need be published, and nothing need fail.
* `NatsSource`: calls to the server end, since each has a timeout, and a
  connection that dropped reconnects, as the client is told to without a limit.
  With the reactor's own fairness below.
* `Intelligence`, `Command`, `Operations`, `Game` and `Process` state no liveness.
* `Reactor`: the goroutine and `Shutdown` run, a source whose context ended
  returns, a handler returns once *its* context is cancelled. `Shutdown`'s own
  context need not end.
* `Exercise`: transactions end, the clock runs, a resolver ticks and walks its
  list; a healthy exercise's resolution succeeds once when tried again and
  again; from some time on no pass is cut by its reactor's grace. A row that
  is found held on tick after tick is free on some tick: the code does not
  guarantee this, since a resolver never queues for the lock, and without it
  a stream of commands could starve the rounds.

## Findings

**A round's older orders can replace the newer.** The schema says that
`exercise_orders` holds a faction's orders for a round "as operations last
issued them" (`services/exercise/data/migrations/0001_exercise.up.sql:40`), and
`RecordOrders` replaces what it recorded before, whatever it was. Operations
issues a round's orders twice when a directive follows the observation; the
events are separate and carry no sequence, as directives and assessments do. If
they are handled out of order — by two replicas of exercise, or because the
first one's delivery failed and came again — the older orders stand and are
applied. `MCOperationsRecorded` shows it in seven steps.

**A first round's orders can be illegal.** `route` says of the one case in which
it and exercise take different cells for fights that it is "a lost move and never
an illegal order" (`services/operations/domain/operations/route/route.go`, lines
196-199). There is another. `Plan` goes by status, `move` by who is in the cell;
`CreateExercise` accepts elements of any status anywhere, for `State.Validate` asks
only that the status is known. Two enemies that start ready in one cell are
planned as if they were free, and their orders are refused. It has no run of its
own; with `NeverIllegal` for an invariant in `MCGame.cfg`, TLC shows it in four steps,
from the start `Unfaced`. After a round the two agree (`Faced`), so `OrdersObeyed` is
`NeverIllegal` from the second round on, and from every start that is `Faced`,
`Skirmish`'s among them. The proof of `OrdersObeyed` found it: without
`Faced` it does not go through.

**A directive may take effect a round late.** This one has no run of its own,
but is why `OrdersAreThePlan` has its exception. `Assign` issues orders again
only if the directive is on the round last acted on and changes the plan *from
the one before it*. A late directive on an earlier round that changes the plan
issues nothing; if a directive on the last round then leaves the plan as that
one made it, it issues nothing either, although the orders out now are those of
neither. "So the new directives take effect without waiting a round"
(`services/operations/domain/operations/service.go`, lines 81-83) does not hold
then. `offbeat` marks these states.

**What a run's error may not say.** Also without a run of its own. The cleanup
says nothing of a coordinator that ended before it, because "the step that saw
it" reported it (`courier/scenario/coordinator.go:112`). A step of the theater
that waits for an event does not watch the coordinator (`theater.go:65` and
`:80`), a step that only checks does not either, and an interrupt between two
steps ends them all: then the coordinator's own error goes unsaid. `NothingLeft`
shows what does hold, that such a run never ends without an error.

**Rounds without an assessment.** Intelligence passes an observation over when a
later one was handled first. Such a round has no assessment, so that courier's
check of the coverage can fail for a sound run on several replicas:
`TheaterConsistent` states coverage of the last round only.

## What is proved

Each theorem holds for every value of the constants that the modules' named
`ASSUME`s allow: any number of relays, members, replicas, factions, elements
and rounds, and no bound on what the runs bound. The proofs use no fairness.
Each goes by an inductive invariant, `IInv` in most modules (`InboxInv`,
`GameInv`), that says what an
actor knows at each place it may be at; TLC has checked the invariant on the
run's instance first. Below is what it adds to the properties, and why they
are not inductive without it.

**Outbox.** `TypeOK`, `OnlyCommittedLeave`, `PublishedIsStored`,
`ExclusiveClaim` and `RepeatsOutsideWindow` are invariants. A relay that handles
has claimed a committed row; one whose publish is acknowledged has it stored;
what is on the wire is committed; an id outside the window is forgotten. They
are needed because `PublishedIsStored` says nothing of the relay that is about
to mark, nor `ExclusiveClaim` of rows that were claimed by a session that
died. From these it follows, action by action, that a mark keeps
`PublishedIsStored` and a claim keeps `ExclusiveClaim`.

`OutboxImplementsDelivery` takes an event as delivered when the broker stores
it, `MarkingImplementsDelivery` when its row is marked: each step of the outbox
is a step of `Delivery` or leaves its state alone. Settling and marking once
follow from the claim.

`StreamInOrder` proves `SeqOrder`. It speaks of what the broker has stored, but
what decides the order is on its way by then, so `OutInOrder` says it of all
that is *out* (stored, under way, or in a relay's hands): an earlier row that
commands can see is stored before a later one goes out, or the pair is one that
the design gives up (`ahead`). A claim takes the lowest row that is not held;
what it goes past is recorded in `ahead` at that very step, and a row that
becomes visible late is recorded by its commit.
`LastPassPublishesOwed` proves `DrainPublishesOwed`: what is owed was visible
when the relay was stopped, so that a last pass that finds nothing has found it
published or held.

**MemoryBroker.** `NoLostWakeup` and `KeepsContract`. `Sound` says of each event
that the consumer took that it is in one place: in flight, among the retries,
settled or dropped; that its count is of all its deliveries until then; and
that one that waits to be delivered again has deliveries left. What is in
flight is handled by its member (`Attended`), once (`Once`), and the retries are
sorted by due time with no event twice (`Queue`), which `InsertIs` and `TailIs`
prove of the queue's operators. The property alone is not inductive: a retry
that is also in flight would be delivered to two members.

`WakeupsAreKept` is `NoLostWakeup`. A sweep that requeues anything wakes all; one
that requeues nothing leaves the retries as they are (`NothingSwept`), so that
a retry which is taken was due before, and whoever sleeps then has a timer that
has run out. `BrokerImplementsContract` is `KeepsContract`, which has no fairness:
each step maps to a step of `BrokerContract` or to none. The
lemma it turns on is `SweepStage`: what became of each event, and who has it, is
the same before a sweep as after it, so that `take` and `settle` are one step
of the contract each although they sweep first, and time alone makes a delivery
owed again (`TickMaps`).

**Inbox.** `TypeOK`, `HandledOnce` and `AckedIsHandled` are invariants. At most
one open transaction holds a claim (`OneHolder`), none holds a claim that is
committed, a success is only returned, or under way, for committed work
(`SuccessIsCommitted`), and deliveries stay within the bound.

**Reactor.** `ReportedOnce` and `DrainedBeforeReturn` are about what `Shutdown`
returned. `StateIsWhere`, `ClosedOnce` and `PhaseIsWhere` say what the state,
the two channels, the grace and the contexts are at each place of the goroutine
and of `Shutdown`; `InOnePlace`, that an error not yet returned is in `Err`'s
channel, or read from it, or kept for `Shutdown`, and nowhere else.
`SourceIsAReactor` proves that each step of the NATS source and its server is
one that `Reactor` allows a source, or a stutter, so that the same holds of it;
`EndsForGood`, that such a source ends by itself only where it never bound or
lost its consumer or its connection for good (`EndedForGood`, the invariant
that `EndsWhenGone` begins with).

**Process.** `StandsOnVerified`, `DrainLeavesNothing` and `NothingSkipped`. The
parts that are up are those of the lowest stages (`Layered`), from which the
first follows by what the composition roots register. For the second,
`NothingOwed`: from the moment the relay is drained, nothing commits, for the
parts that do are of later stages, and are down. For the third, `BoundAhead`:
no consumer takes anything without being bound, and none is bound past the
start of an exercise that it takes.

**Exercise.** `TypeOK`, `RecordedIsApplied`, `RoundsAreDue` and
`ReportedInOrder`. What a session read is right only under its lock, so the
invariant says of each what its lock keeps true: the transactions that hold a
row exclusively are alone on it (`Alone`); what an umpire, a session that
records orders or a resolver read is what the row still says (`ReadIsCurrent`),
a resolver's orders included; and an exercise that goes on has a round to go
(`Unfinished`). `Resolve` then writes the orders recorded for the round under
the exclusive lock, and `RecordOrders` under its shared one writes only
rounds that are still to come; hence `RecordedIsApplied`. A resolver's exercise
is due when it is locked and stays so until it is resolved; hence
`RoundsAreDue`, although a pass's list is older. For `ReportedInOrder`,
`Standing` ties what an exercise's events have told last to its status and
round; each transaction's events follow on that (`StartTells`, `RoundTells`),
which is where `ReadIsCurrent` is needed again: a transaction that had read an
older round would tell it twice.

**Intelligence.** `PictureIsHistory`, `IssuedIsCurrent` and, of
`TheaterCheck`, `TheaterConsistent`, for every game. The invariant says of each
faction (`Known`), of the game and of the set of inputs handled, in whatever
order: the picture's round is the latest fused and no observation handled is
past it (`RoundIsFused`); each objective is as the latest of what was learned of
it has it, and its age is that (`Newest`); the contacts are those last
seen in a fused round that nothing since contradicts, and all of them
(`Lasting`); the assessments issued are numbered, their rounds do not go back,
each fused round is among them, and the last is the picture, unless an alert is
ahead of its round's observation (`InOrder`). The lemmas about `Fuse` and
`Learn` (`FuseKnows`, `AlertKnows`) prove that these are kept by an observation
of *any* round and by an alert that comes early or late. `ReadIsCurrent`, as in
`Exercise`, carries them from the read of a row to its commit by another
step. `TheaterConsistent` looks at each assessment that stands, not at the last
one, so `Explained` keeps what was true of an assessment when it was issued.

**Command and Operations.** `TypeOK`, `Accepted`, `StandingIsDecided` and
`OrdersAreThePlan`. What command keeps is its decision on the latest assessment
handled, whatever was skipped (`DecidedOnLatest`); directives are numbered as
they are raised, each covers all the elements live on its round, and the last
says what command has decided, although it raises none when a decision changes
nothing (`LastIsDecided`); what stands in operations is the last directive
applied, but for the dead (`StandingIsDirected`). `OrdersAreThePlan` then needs that
elements only ever die, which `OwnAssumption` says, as the exercise's rules have
it (an eliminated element stays so).

**Courier and Theater.** `NothingLeft` and `ReleasedAfterDrain`, for all eleven
scenarios. `Placed` says where a run may be and what its coordinator is by
then; `StopIsSeen`, that the step which stops the coordinator has seen it end;
`OnlyDriven`, that reactors run only while the coordinator does, but for the
drain scenario's member; `Accounted`, that what is on the servers is leased, or
released, or named by an error, or its create was cut short. What the scenarios
have in common that this needs is stated once (`WellFormed`) and proved of each
record. `TheaterIsARun` proves that every behaviour with the narrator
and the services is one of `Courier`'s.

`NarrationToldOnce` proves `ToldOnce` for any number of rounds and factions, any
captures, and any order and repetition of the events. `Kept` holds of the
narrator after each of its functions: the count of each change given is that of
its tellings as `came` says plus that in its block, and a change that waits
behind what is printed is late. The rest of the invariant is needed for one
step, `Results`, behind which nothing is told any more. No change may wait by
then, so every round must have been told, although the step before it waits for
the conclusion only. `Streamed`: exercise's events are published in their order.
`Heard`: each was brought when it was published, but for the start. So a
conclusion that has come has every faction's first observation and the last
round's record behind it (`ConcludedIsHeard`), and the start was awaited by
the first step. By `Followed` the initial conditions are then told, and the flush
prints up to the last round. When a run is not followed to its end the narrator
has nothing to tell (`Blank`).

**Game.** All six properties that `MCGame` checks: `TypeOK`, `VerdictStands`,
`TargetsApart`, `OrdersObeyed`, `FightsHold` and `CapturesEarned`, for every map,
any number of elements and of operators, any hits, and whoever plays. They
rest on what the algorithms do to any input, which is most of `GameProof`:

* *Recursion.* The library's induction rules take operators, so the module
  states its own for sets and functions: `Induction`, `SubsetInduction`, that what
  is defined by recursion over the numbers or by a fold over a finite set exists
  (`Recursion`, `SetRecursion`) and what then holds at its end (`FoldInduction`).
  `GrowthEnds` is what makes the code's loops end: a set that grows from pass to
  pass within a finite one is closed after as many passes as that has elements.
* *A round.* `SentBackEnds`: when nobody is left to send back, no two of a
  faction end in one cell where no fight was, or one of them did not move.
  `FightsHurt` and `VolleysHurt`: fire, of however many shots and in whatever
  order, moves nobody and adds no health. `RoundEnds` puts these together with
  the burial, the statuses and the captures.
* *Distances and paths.* `DistancesAre`: every cell but the start has a step
  before it that is strictly nearer, so that `NextStep` always finds one, and each
  path is walked step by step over open ground (`PathTrodden`).
* *Giving way.* `GivenUpEnds` is for `route` what `SentBackEnds` is for `rules`.
* *Choosing.* `FirstIs`: cells are in the order of their keys, as written, so
  that the nearest of several is one of them (`NearestIs`); each rule that adds
  its decisions to those made before adds none for a target that is claimed, and
  only ones in reach (`TakenMade`, `GiveMade`), down to `DecideMade`.

The invariant `GameInv` adds to the properties what each service's state says of
the exercise it has heard of. `Faced`: after a round, who is ready is in no fight,
and who is engaged is in one. It holds because statuses are set after the moves
and the burial, and `OrdersObeyed` needs it because `rules` holds an element for a
fight in its *cell*, while `route` goes by its *status*.
`Counted`: the counts toward captures are of those alone on an objective now;
`CapturesEarned` needs it to know that a count of one is a round ago, and of the
same faction. `Sighting`: the picture has what the faction sees now, as it is;
otherwise a retreat might be into a cell somebody is in. `Directs`: the targets
decided are apart and in reach, whatever stood before. And orders, where there
are any, are the plan for the standings operations has.

`OrdersObeyed` then compares two fixpoints. What `route` plans ends apart by its
own test, in which a cell is a fight's only if an own element is engaged there;
`rules` sends back by its own, in which any contested cell is one. By `Faced` the
first are among the second, so that no plan is sent back (`PlanObeyed`).

One assumption on the map is worth knowing: coordinates are below a hundred
(`NamesAssumption`). The order of keys compares numbers as they are written, and
`Numeral` is that order for two digits. `Map.Validate` sets no bound; on a larger
map only which of two cells equally near is taken would need a longer `Numeral`.

**Only model-checked:**

* Liveness, and with it the fairness of `Delivery`, `EndsWhenGone`'s second
  half and `EventuallyFinished`: out of the prover's reach.

## Not modelled

* The provisioning of the NATS stream and of databases, migrations,
  configuration, encoding, HTTP handlers and clients: input and output.
* The log throttle: only the log depends on it.
* The random layout that `Skirmish` draws: an instance's games are given.
* What courier's other scenarios check of their events, and its rendering.
* The narrator that reads the start after the assessments it is about has the
  objectives' holders set back (`courier/scenario/narrator.go:87`); in `Theater`
  the start only opens the narration.
* How long the server keeps the rows locked of a session that died, beyond
  that it ends; clocks that jump.
* Test servers, compose files and scripts.

## The plan

*Done:* every module above; the four services, the brokers, the outbox, the
inbox, the reactor with the NATS source, the process, the pure packages played
against each other, and courier; the proofs of every safety property of
`Outbox`, `MemoryBroker`, `Inbox`, `Reactor`, `NatsSource`, `Process`, `Exercise`,
`Intelligence`, `TheaterCheck`, `Command`, `Operations`, `Game`, `Courier` and
`Theater`.

What is left: a narrator whose start is read late, in `Theater`.
