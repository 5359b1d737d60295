-------------------------------- MODULE Rules --------------------------------
(***************************************************************************)
(* Package rules: how a round of an exercise resolves. A state has its     *)
(* live elements by ID, the factions that hold objectives, and the counts  *)
(* toward their capture. A shot's hit, target and damage, which the code   *)
(* draws from the seed and the round, may be any.                          *)
(***************************************************************************)
EXTENDS World

CONSTANT Damages   \* the health a hit may take

ASSUME DamagesAssumption == Damages \subseteq Nat \ {0}

CaptureRounds == 2
Statuses == {"ready", "engaged", "recovering"}

\* State.Validate: every element stands on open ground with one operator or
\* more in health, and what is held and counted is an objective.
Valid(s) ==
    /\ DOMAIN s.elements \subseteq Elements
    /\ \A i \in DOMAIN s.elements :
         LET e == s.elements[i]
         IN  /\ e \in [at : Open, status : Statuses, health : Seq(1..FullHealth)]
             /\ Len(e.health) \in 1..Operators(KindOf[i])
    /\ DOMAIN s.holders \subseteq Objectives /\ Range(s.holders) \subseteq Factions
    /\ DOMAIN s.progress \subseteq Objectives
    /\ Range(s.progress) \subseteq [faction : Factions, rounds : 1..CaptureRounds - 1]

-----------------------------------------------------------------------------
(* Moving. Orders are a function of the elements ordered.                  *)

At(es, l) == {i \in DOMAIN es : es[i].at = l}
FactionsAt(es, l) == {Of[i] : i \in At(es, l)}
Contested(es, l) == Cardinality(FactionsAt(es, l)) > 1

\* One step, from a gate's cell through the gate too.
IsStep(l, m) ==
    /\ \/ l \in DOMAIN Link /\ m = Link[l]
       \/ m.sector = l.sector /\ Abs(m.x - l.x) + Abs(m.y - l.y) = 1
    /\ m \in Open

Walks(i, at, steps) ==
    /\ Len(steps) <= Moves(KindOf[i])
    /\ \A k \in DOMAIN steps : IsStep(IF k = 1 THEN at ELSE steps[k - 1], steps[k])

\* The element's order is not refused for what the element alone is.
Obeys(es, i, o) ==
    /\ es[i].status # "recovering"
    /\ Contested(es, es[i].at) => o.retreat /\ Len(o.steps) = 1
    /\ Walks(i, es[i].at, o.steps)

EndOf(es, orders, i) ==
    IF i \in DOMAIN orders /\ Obeys(es, i, orders[i]) /\ orders[i].steps # <<>>
      THEN Last(orders[i].steps) ELSE es[i].at

\* Where i ends when some are sent back, and whether it would share a cell there
\* with another of its faction, where no fight was.
EndIn(es, orders, back, i) == IF i \in back THEN es[i].at ELSE EndOf(es, orders, i)
Shares(es, orders, back, i) ==
    LET end == EndIn(es, orders, back, i)
    IN  /\ ~Contested(es, end)
        /\ \E j \in DOMAIN es \ {i} : Of[j] = Of[i] /\ EndIn(es, orders, back, j) = end

\* Those sent back, pass after pass. After as many as there are elements none is
\* left to send.
SentBack(es, orders) ==
    LET after[k \in Nat] ==
            IF k = 0 THEN {}
            ELSE LET back == after[k - 1]
                 IN  back \cup {i \in DOMAIN es : Shares(es, orders, back, i)}
    IN  after[Cardinality(DOMAIN es)]

\* Where every element ends.
Ends(es, orders) ==
    LET back == SentBack(es, orders)
    IN  [i \in DOMAIN es |-> EndIn(es, orders, back, i)]

\* The elements after the move, and those that left a fight by it.
Moved(es, orders) ==
    LET end == Ends(es, orders) IN [i \in DOMAIN es |-> [es[i] EXCEPT !.at = end[i]]]
Retreats(es, moved) ==
    {i \in DOMAIN es : moved[i].at # es[i].at /\ Contested(es, es[i].at)}

-----------------------------------------------------------------------------
(* Fire.                                                                   *)

\* The operators of a set of elements that live.
Living(es, S) == {o \in UNION {{i} \X DOMAIN es[i].health : i \in S} : es[o[1]].health[o[2]] > 0}

\* Every way that n shots leave the health of their targets, all fired at once.
Tolls(n, health) ==
    LET after[k \in Nat] ==
            IF k = 0 THEN {health}
            ELSE LET S == after[k - 1]
                 IN  S \cup {[h EXCEPT ![t] = Max({0, @ - d})] :
                                h \in S, t \in DOMAIN health, d \in Damages}
    IN  after[n]

\* The elements with the health that shots left.
Struck(es, toll) ==
    [i \in DOMAIN es |-> [es[i] EXCEPT !.health =
        [k \in DOMAIN @ |-> IF <<i, k>> \in DOMAIN toll THEN toll[<<i, k>>] ELSE @[k]]]]

\* The elements after two sides fire at each other at once, in every way.
Exchanges(es, us, them) ==
    LET health(S) == [o \in Living(es, S) |-> es[o[1]].health[o[2]]]
    IN  {Struck(es, Over(a, b)) : a \in Tolls(Cardinality(Living(es, them)), health(us)),
                                  b \in Tolls(Cardinality(Living(es, us)), health(them))}

\* The enemies that stay in the cell i retreats from, under a pursuit's order.
Pursuers(es, moved, orders, i) ==
    {j \in DOMAIN es : /\ Of[j] # Of[i] /\ es[j].at = es[i].at /\ moved[j].at = es[i].at
                       /\ es[j].status # "recovering"
                       /\ j \in DOMAIN orders /\ orders[j].pursue}

\* Each retreat draws its pursuers' fire, in the order of the IDs; then each
\* contested cell fights.
Volleys(es, moved, orders) ==
    InOrder(LAMBDA i, S : UNION {Exchanges(m, Pursuers(es, moved, orders, i), {i}) : m \in S},
            {moved}, Retreats(es, moved))

Fights(S, moved) ==
    LET f == CHOOSE g \in Factions : TRUE
        fought == {l \in {moved[i].at : i \in DOMAIN moved} : Contested(moved, l)}
        Side(l, g) == {i \in At(moved, l) : Of[i] = g}
    IN  FoldSet(LAMBDA l, T : UNION {Exchanges(m, Side(l, f), Side(l, Rival(f))) : m \in T}, S, fought)

\* The operators that have not fallen.
Unfallen(health) ==
    LET among[k \in Nat] ==
            IF k = 0 THEN <<>>
            ELSE IF health[k] > 0 THEN Append(among[k - 1], health[k]) ELSE among[k - 1]
    IN  among[Len(health)]

\* Mistake: an element stays when all its operators have fallen.
BuriesOperators(es) ==
    [i \in DOMAIN es |-> [es[i] EXCEPT !.health = Unfallen(es[i].health)]]

\* The fallen are removed, and the elements that have nobody left.
Buried(es) ==
    [i \in {j \in DOMAIN es : Unfallen(es[j].health) # <<>>} |->
        [es[i] EXCEPT !.health = Unfallen(es[i].health)]]

\* Mistake: an element that retreats from its fight is ready for the next round.
SettledReady(es, retreats) ==
    [i \in DOMAIN es |-> [es[i] EXCEPT !.status = IF Contested(es, es[i].at) THEN "engaged" ELSE "ready"]]

Settled(es, retreats) ==
    [i \in DOMAIN es |-> [es[i] EXCEPT !.status =
        CASE i \in retreats -> "recovering"
          [] i \notin retreats /\ Contested(es, es[i].at) -> "engaged"
          [] OTHER -> "ready"]]

-----------------------------------------------------------------------------
(* Capture, observation, and judgment.                                     *)

\* The factions that end alone on an objective they do not hold, and the
\* rounds in a row they then have.
Holder(s, o) == IF o \in DOMAIN s.holders THEN s.holders[o] ELSE Nobody
Taking(s, es) ==
    {o \in Objectives : Cardinality(FactionsAt(es, o)) = 1 /\ FactionsAt(es, o) # {Holder(s, o)}}
Taker(es, o) == CHOOSE f \in FactionsAt(es, o) : TRUE

\* Mistake: a count goes on whoever is alone on the objective.
CountAnyone(s, es, o) == 1 + IF o \in DOMAIN s.progress THEN s.progress[o].rounds ELSE 0

Count(s, es, o) ==
    1 + IF o \in DOMAIN s.progress /\ s.progress[o].faction = Taker(es, o)
          THEN s.progress[o].rounds ELSE 0

Captures(s, es) == {o \in Taking(s, es) : Count(s, es, o) >= CaptureRounds}

Capture(s, es) ==
    [elements |-> es,
     holders |-> [o \in DOMAIN s.holders \cup Captures(s, es) |->
                    IF o \in Captures(s, es) THEN Taker(es, o) ELSE s.holders[o]],
     progress |-> [o \in Taking(s, es) \ Captures(s, es) |->
                    [faction |-> Taker(es, o), rounds |-> Count(s, es, o)]]]

\* Every state a round's resolution may end in.
Resolutions(s, orders) ==
    LET es == s.elements
        moved == Moved(es, orders)
    IN  {Capture(s, Settled(Buried(m), Retreats(es, moved))) :
            m \in Fights(Volleys(es, moved, orders), moved)}

\* What faction f sees of a state: its own elements, the enemies and the
\* objectives in their sight.
Sees(es, f, l) == \E i \in DOMAIN es : Of[i] = f /\ SeesFrom(i, es[i].at, l)
Observe(s, f) ==
    LET es == s.elements
    IN  [own |-> Restrict(es, {i \in DOMAIN es : Of[i] = f}),
         contacts |-> Restrict(es, {i \in DOMAIN es : Of[i] # f /\ Sees(es, f, es[i].at)}),
         objectives |-> [o \in {p \in Objectives : Sees(es, f, p)} |-> Holder(s, o)]]

Alive(s, f) == {i \in DOMAIN s.elements : Of[i] = f}
Held(s, f) == {o \in DOMAIN s.holders : s.holders[o] = f}

NotOver == [over |-> FALSE]
Won(f, reason) == [over |-> TRUE, winner |-> f, reason |-> reason]

\* Mistake: a round at the limit is not over.
UnfinishedAtLimit(round, limit) == round <= limit

Unfinished(round, limit) == round < limit

Judge(s, round, limit) ==
    LET dead == {f \in Factions : Alive(s, f) = {}}
        whole == {f \in Factions : Held(s, f) = Objectives}
        richer == {f \in Factions : Cardinality(Held(s, f)) > Cardinality(Held(s, Rival(f)))}
        TheOne(S) == IF Cardinality(S) = 1 THEN CHOOSE f \in S : TRUE ELSE Nobody
    IN  CASE dead # {} -> Won(TheOne(Factions \ dead), "elimination")
          [] dead = {} /\ whole # {} -> Won(TheOne(whole), "objectives")
          [] dead = {} /\ whole = {} /\ Unfinished(round, limit) -> NotOver
          [] OTHER -> Won(TheOne(richer), "limit")
=============================================================================
