------------------------------- MODULE Theater -------------------------------
(***************************************************************************)
(* Courier's theater scenario: the narrator, which collects what each      *)
(* event of an exercise changes in the block of its round and tells the    *)
(* blocks in order, within a run of the scenario. The services publish the *)
(* events; the broker brings each at least once.                           *)
(***************************************************************************)
EXTENDS Courier, Integers, Bags

CONSTANTS
    Factions,
    Served,       \* the factions whose services beyond exercise run
    Takes,        \* round -> the faction that takes the one objective, or Nobody
    Nobody,
    Troubled,     \* the types of the events that may be brought again
    MaxFaults     \* bounds the reads that fail and the events brought again, together

FinalRound == Len(Takes)
Rounds == 0..FinalRound

ASSUME TheaterAssumption ==
    /\ Served \subseteq Factions
    /\ Takes \in Seq(Factions \cup {Nobody}) /\ Nobody \notin Factions
    /\ MaxFaults \in Nat

VARIABLES
    out,      \* those of exercise's events that are published
    chain,    \* faction -> how far intelligence, command and operations are
    again,    \* the events to be brought again
    faults,   \* the reads that failed and the repeats so far
    n         \* the narrator

theaterVars == <<courierVars, out, chain, again, faults, n>>

-----------------------------------------------------------------------------
(* The services.                                                           *)

Holder[r \in Rounds] ==
    IF r = 0 THEN Nobody ELSE IF Takes[r] = Nobody THEN Holder[r - 1] ELSE Takes[r]

Captured(r) == r > 0 /\ Holder[r] # Holder[r - 1]

\* What exercise publishes: the start or a round's record, the alert to who lost
\* the objective, each faction's observation, and at last the conclusion.
ExerciseOf(r) ==
    (IF r = 0 THEN {[type |-> "started", round |-> 0]} ELSE {[type |-> "resolved", round |-> r]})
    \cup (IF Captured(r) /\ Holder[r - 1] # Nobody
            THEN {[type |-> "lost", round |-> r, faction |-> Holder[r - 1]]} ELSE {})
    \cup {[type |-> "observed", round |-> r, faction |-> f] : f \in Factions}

Conclusion == [type |-> "concluded", round |-> FinalRound]
Published == (UNION {ExerciseOf(r) : r \in Rounds}) \cup {Conclusion}

Place(e) == CASE e.type \in {"started", "resolved"} -> 1 [] e.type = "lost" -> 2
              [] e.type = "observed" -> 3 [] e.type = "concluded" -> 4

\* A round's events go out in their order, behind those of the rounds before;
\* the order of a round's observations, that of the factions, is left open.
Precedes(d, e) ==
    \/ d.round < e.round
    \/ d.round = e.round /\ Place(d) < Place(e)

IsPublished(e) == e \in out

\* assessed is the round of the faction's picture, knows who holds the objective
\* in it, as of the round since; undecided, whether command has yet to decide on
\* it; plans says for each round whether orders were issued, and again after a
\* directive.
ChainInit ==
    [f \in Served |-> [assessed |-> -1, knows |-> Nobody, since |-> -1, undecided |-> FALSE,
                         plans |-> [r \in 1..FinalRound |-> "none"]]]

Learns(c, r, h) == IF r > c.since THEN [c EXCEPT !.knows = h, !.since = r] ELSE c

-----------------------------------------------------------------------------
(* The narrator.                                                           *)

newFactionState == [ready |-> FALSE, knows |-> Nobody, directive |-> "none", moving |-> "none",
                    orders |-> [r \in 1..FinalRound |-> "none"]]

\* blocks is what is collected and not told; each change has the round of its
\* block. said is what has been told and given what has been collected; results
\* is whether the final conditions have been given.
newNarrator ==
    [setup |-> FALSE, resolves |-> 0, end |-> -1,
     open |-> FALSE, told |-> FALSE, seen |-> 0, printed |-> -1, results |-> FALSE,
     blocks |-> EmptyBag,
     faction |-> [f \in Factions |-> newFactionState],
     said |-> EmptyBag, given |-> EmptyBag]

belongs(m, r) == [m EXCEPT !.seen = IF r > @ THEN r ELSE @]

When(m, r) == IF m.results THEN "after" ELSE IF r <= m.printed THEN "late" ELSE "timely"

Change(m, r, side, what) == [round |-> r, side |-> side, what |-> what, came |-> When(m, r)]

collect(m, changes) == [m EXCEPT !.blocks = @ (+) SetToBag(changes), !.given = @ (+) SetToBag(changes)]

BlocksOf(b, rounds) == [c \in {d \in BagToSet(b) : d.round \in rounds} |-> b[c]]
Telling(b, how) == [s \in [change : BagToSet(b), told : {how}] |-> b[s.change]]

Behind(m) == {r \in Rounds : r <= m.printed}

\* Mistake: what is told is not forgotten.
printKept(m, rounds, how) == [m EXCEPT !.said = @ (+) Telling(BlocksOf(m.blocks, rounds), how)]

\* Tells, and forgets, the blocks of some rounds.
print(m, rounds, how) ==
    [m EXCEPT !.said = @ (+) Telling(BlocksOf(m.blocks, rounds), how),
              !.blocks = BlocksOf(@, Rounds \ rounds)]

\* Tells the changes collected for rounds already told.
late(m) == print(m, Behind(m), "late")

\* Tells each block before that of a round, and with the first what is late, once
\* the initial conditions are told.
advance(m, r) ==
    IF m.told /\ m.printed + 1 < r
      THEN [print(late(m), m.printed + 1..r - 1, "timely") EXCEPT !.printed = r - 1]
      ELSE m

AllReady(m) == m.setup /\ \A f \in Factions : m.faction[f].ready

\* Mistake: the initial conditions do not wait for their step.
tellEarly(m) == [m EXCEPT !.told = @ \/ AllReady(m)]

\* The initial conditions, once the step has begun and they are in.
tell(m) == [m EXCEPT !.told = @ \/ (m.open /\ AllReady(m))]

begin(m) == LET t == tell([m EXCEPT !.open = TRUE]) IN advance(t, t.seen)

flush(m) == IF m.told THEN late(advance(m, m.seen + 1)) ELSE m

-----------------------------------------------------------------------------
(* What each event changes.                                                *)

applyStarted(m, e) == [m EXCEPT !.setup = TRUE]

\* The orders in effect for a round are told in the block before, if they move
\* otherwise than those last told; those for it and earlier are forgotten.
moved(m, r) == {f \in Factions : m.faction[f].orders[r] \notin {"none", m.faction[f].moving}}

inEffect(m, r) ==
    [m EXCEPT !.faction =
        [f \in Factions |->
            [m.faction[f] EXCEPT !.orders = [q \in DOMAIN @ |-> IF q <= r THEN "none" ELSE @[q]],
                         !.moving = IF f \in moved(m, r) THEN m.faction[f].orders[r] ELSE @]]]

applyResolved(m, e) ==
    LET r == e.round
        a == [belongs(m, r) EXCEPT !.resolves = r]
        b == IF a.setup
               THEN collect(inEffect(a, r), {Change(a, r - 1, f, "orders") : f \in moved(a, r)})
               ELSE a
    IN  IF Captured(r) THEN collect(b, {Change(b, r, "observer", "captures")}) ELSE b

applyLost(m, e) == LET a == belongs(m, e.round) IN collect(a, {Change(a, e.round, "observer", "loses")})

applyObserved(m, e) ==
    [belongs(m, e.round) EXCEPT !.faction[e.faction].ready = @ \/ e.round = 0]

\* What the faction knows of the objective, when it is not what it knew;
\* contacts are told alike, and left out.
applyAssessment(m, e) ==
    LET a == [belongs(m, e.round) EXCEPT !.faction[e.faction].knows = e.knows]
    IN  IF e.knows = m.faction[e.faction].knows THEN a
        ELSE collect(a, {Change(a, e.round, e.faction, "knows")})

\* A directive that continues the squad's last one is not told. One that is told
\* takes the place of another of its round that waits to be told.
applyDirectives(m, e) ==
    LET a == [belongs(m, e.round) EXCEPT !.faction[e.faction].directive = e.rule]
        old == {c \in BagToSet(m.blocks) : c.round = e.round /\ c.side = e.faction /\ c.what = "decides"}
        b == [a EXCEPT !.blocks = @ (-) SetToBag(old), !.given = @ (-) SetToBag(old)]
    IN  IF e.rule = m.faction[e.faction].directive THEN a
        ELSE collect(b, {Change(b, e.round, e.faction, "decides")})

\* Orders for a round already resolved are ignored.
applyOrders(m, e) ==
    LET a == belongs(m, e.round - 1)
    IN  IF e.round <= m.resolves THEN a
        ELSE [a EXCEPT !.faction[e.faction].orders[e.round] = e.moves]

applyConcluded(m, e) == [m EXCEPT !.end = e.round]

apply(m, e) ==
    CASE e.type = "started" -> applyStarted(m, e)
      [] e.type = "resolved" -> applyResolved(m, e)
      [] e.type = "lost" -> applyLost(m, e)
      [] e.type = "observed" -> applyObserved(m, e)
      [] e.type = "assessment" -> applyAssessment(m, e)
      [] e.type = "directives" -> applyDirectives(m, e)
      [] e.type = "orders" -> applyOrders(m, e)
      [] e.type = "concluded" -> applyConcluded(m, e)

afterEvent(m, e) == LET t == tell(apply(m, e)) IN advance(t, t.seen)

-----------------------------------------------------------------------------
TheaterInit ==
    /\ CourierInit
    /\ out = {} /\ chain = ChainInit /\ again = {} /\ faults = 0 /\ n = newNarrator

Watching ==
    /\ scenario = "theater" /\ run = "steps" /\ ~interrupted
    /\ "watch" \in live /\ "consumer" \in left /\ lc \in {"starting", "ready"} /\ broken = {}

\* The watch is brought an event. The start's needs the exercise's view, and
\* without it is brought again; so is one whose acknowledgement is lost.
Bring(e) ==
    /\ Watching
    /\ \/ n' = afterEvent(n, e) /\ again' = again \ {e} /\ UNCHANGED faults
       \/ /\ faults < MaxFaults /\ e.type \in Troubled
          /\ faults' = faults + 1 /\ again' = again \cup {e}
          /\ n' = IF e.type = "started" THEN n ELSE afterEvent(n, e)
    /\ UNCHANGED courierVars

BringAgain == \E e \in again : Bring(e) /\ UNCHANGED <<out, chain>>

Exercise ==
    /\ \E e \in Published \ out :
         /\ \A d \in Published : Precedes(d, e) => d \in out
         /\ out' = out \cup {e}
         /\ Bring(e)
    /\ UNCHANGED chain

Assess(f, c) ==
    /\ chain' = [chain EXCEPT ![f] = [c EXCEPT !.undecided = TRUE]]
    /\ Bring([type |-> "assessment", faction |-> f, round |-> c.assessed, knows |-> c.knows])
    /\ UNCHANGED out

\* intelligence handles an observation, in which a faction sees the objective
\* that it holds; or an alert, which may come behind it, and revises it then.
Observe(f) ==
    LET r == chain[f].assessed + 1
        c == IF Holder[r] = f THEN Learns(chain[f], r, f) ELSE chain[f]
    IN  /\ IsPublished([type |-> "observed", round |-> r, faction |-> f])
        /\ Assess(f, [c EXCEPT !.assessed = r])

Alert(f) ==
    \E r \in 1..FinalRound :
        LET c == Learns(chain[f], r, Holder[r])
        IN  /\ IsPublished([type |-> "lost", round |-> r, faction |-> f])
            /\ c # chain[f]
            /\ IF chain[f].assessed >= r THEN Assess(f, c)
               ELSE chain' = [chain EXCEPT ![f] = c] /\ UNCHANGED <<courierVars, out, again, faults, n>>

\* command decides on a picture.
Direct(f) ==
    LET c == chain[f]
    IN  /\ c.undecided
        /\ chain' = [chain EXCEPT ![f].undecided = FALSE,
                         ![f].plans = [r \in DOMAIN @ |-> IF r = c.assessed + 1 /\ @[r] = "hold"
                                                             THEN "directed" ELSE @[r]]]
        /\ Bring([type |-> "directives", faction |-> f, round |-> c.assessed,
                  rule |-> IF c.knows = f THEN "hold" ELSE "secure"])
        /\ UNCHANGED out

\* operations issues a round's orders once it has seen the round before, and
\* again when a directive changes them. Those for the round after the last,
\* which is never resolved, are left out.
Order(f) ==
    \E r \in 1..FinalRound :
        LET p == chain[f].plans[r]
            moves == IF p = "none" THEN "hold" ELSE "move"
        IN  /\ p \in {"none", "directed"}
            /\ IsPublished([type |-> "observed", round |-> r - 1, faction |-> f])
            /\ chain' = [chain EXCEPT ![f].plans[r] = moves]
            /\ Bring([type |-> "orders", faction |-> f, round |-> r, moves |-> moves])
            /\ UNCHANGED out

Stream == BringAgain \/ Exercise \/ \E f \in Served : Observe(f) \/ Alert(f) \/ Direct(f) \/ Order(f)

-----------------------------------------------------------------------------
(* The scenario's own steps.                                               *)

NarratorUnchanged == UNCHANGED <<out, chain, again, faults, n>>

\* The narration opens as its step begins.
Narrate ==
    /\ scenario = "theater" /\ In("wait") /\ step = 1 /\ ~n.open
    /\ n' = begin(n)
    /\ UNCHANGED <<courierVars, out, chain, again, faults>>

\* The exercise starts; later it concludes, and what follows its conclusion has
\* come or the wait for it has passed: the narrator finishes.
NarratorWaits ==
    /\ scenario = "theater" /\ WaitDone
    /\ IF step = 0
         THEN n.setup /\ UNCHANGED n
         ELSE n.open /\ n.end >= 0 /\ n' = flush(n)
    /\ UNCHANGED <<out, chain, again, faults>>

\* The final conditions, after the blocks completed since.
Results ==
    /\ scenario = "theater" /\ In("check") /\ Done
    /\ n' = [flush(n) EXCEPT !.results = TRUE]
    /\ UNCHANGED <<target, interrupted, coordinator, servers, out, chain, again, faults>>

\* The model follows a narration up to what ends its run early: of that, Courier
\* says the rest.
FollowWhile(goesOn) ==
    IF scenario = "theater" /\ ~goesOn
      THEN out' = {} /\ chain' = ChainInit /\ again' = {} /\ faults' = 0 /\ n' = newNarrator
      ELSE NarratorUnchanged

\* The steps of a run that the narrator has no part in.
TheaterRunSteps ==
    /\ RunSteps
    /\ scenario = "theater" => ~In("check")
    /\ FollowWhile(run = "steps" => run' = "steps")

OtherWaits == scenario # "theater" /\ WaitDone /\ NarratorUnchanged

RunFaults == CourierFaults /\ FollowWhile(broken' = broken /\ interrupted' = interrupted)

TheaterNext ==
    \/ Stream \/ Narrate \/ NarratorWaits \/ Results
    \/ TheaterRunSteps \/ OtherWaits
    \/ CoordinatorSteps /\ NarratorUnchanged
    \/ RunFaults

\* The scenario and the coordinator go on: each step's waits have their time,
\* and each drain. What a wait waits for may never come.
TheaterSpec ==
    /\ TheaterInit /\ [][TheaterNext]_theaterVars
    /\ WF_theaterVars(TheaterRunSteps \/ Narrate \/ Results)
    /\ WF_theaterVars(CoordinatorSteps /\ NarratorUnchanged)

-----------------------------------------------------------------------------
(* Properties.                                                             *)

CountOf(c, b) == IF c \in BagToSet(b) THEN b[c] ELSE 0
Told == [c \in {s.change : s \in BagToSet(n.said)} |-> CountOf([change |-> c, told |-> c.came], n.said)]

\* Each change collected is told once: in its round's block, or as late when it
\* came behind it, and never after the final conditions; nothing is told before
\* the narration's step, and once the final conditions are told nothing is owed.
ToldOnce ==
    /\ n.given = Told (+) n.blocks
    /\ \A s \in BagToSet(n.said) : s.told = s.change.came
    /\ n.told => step >= 1
    /\ n.results => \A c \in BagToSet(n.blocks) : c.came = "after"
=============================================================================
