------------------------------- MODULE Decide --------------------------------
(***************************************************************************)
(* Package decide: what command directs a faction's elements to do. An     *)
(* assessment a has the round, the faction's own elements, the contacts    *)
(* and the objectives it knows with the round each was seen in, and the    *)
(* cells explored. Decisions are a function of the elements decided, and   *)
(* each rule adds its own to those made before. The contact a decision     *)
(* names is left out: nothing but narration reads it.                      *)
(***************************************************************************)
EXTENDS World

EngageRange == 3
ReinforceRange == 4
SpreadRange == 2

Hold == [rule |-> "hold"]
Decision(rule, target) == [rule |-> rule, target |-> target]

\* up, right, down, left
Directions == <<<<0, -1>>, <<1, 0>>, <<0, 1>>, <<-1, 0>>>>
Neighbor(l, d) == Cell(l.sector, l.x + d[1], l.y + d[2])

StepsFrom(l) ==
    ({Neighbor(l, d) : d \in Range(Directions)} \cup (IF l \in DOMAIN Link THEN {Link[l]} ELSE {}))
        \cap Open

\* The path distance to every cell that can be reached from a cell.
DistancesFrom(from) ==
    LET within[n \in Nat] ==
            IF n = 0 THEN {from}
            ELSE LET S == within[n - 1] IN S \cup UNION {StepsFrom(l) : l \in S}
        all == within[Cardinality(Open)]
    IN  [l \in all |-> Min({n \in 0..Cardinality(Open) : l \in within[n]})]

Distances == [l \in Open |-> DistancesFrom(l)]

Within(from, S, n) == {l \in S : l \in DOMAIN Distances[from] /\ Distances[from][l] <= n}
Reached(from, S) == S \cap DOMAIN Distances[from]

\* The nearest of the cells of S, all in reach.
Nearest(from, S) ==
    LET d == Distances[from]
    IN  FirstOf({l \in S : \A m \in S : d[l] <= d[m]})

-----------------------------------------------------------------------------
(* An assessment.                                                          *)

Fresh(a, l) == {c \in DOMAIN a.contacts : a.contacts[c].at = l /\ a.contacts[c].seen = a.round}
Ours(a, l) == MapThenSumSet(LAMBDA i : Strength(a.own[i]), {i \in DOMAIN a.own : a.own[i].at = l})
Theirs(a, l) == MapThenSumSet(LAMBDA c : Strength(a.contacts[c]), Fresh(a, l))
Occupied(a) == {a.own[i].at : i \in DOMAIN a.own}
Explored(a) == a.explored \cup Occupied(a)
ToTake(f, a) == {o \in DOMAIN a.objectives : a.objectives[o].holder # f}

\* Undecided elements, and the targets that those decided by a rule have.
Undecided(a, d) == DOMAIN a.own \ DOMAIN d
Claimed(d, rule) == {d[i].target : i \in {j \in DOMAIN d : d[j].rule = rule}}

\* Mistake: a target is taken though another element has claimed it.
FreeTwice(a, d, rule, i, S) == Reached(a.own[i].at, S)

\* Those of the cells S that i can reach and no element has claimed by the rule.
Free(a, d, rule, i, S) == Reached(a.own[i].at, S \ Claimed(d, rule))

Apart(l, S) == \A m \in S : m.sector = l.sector => Far(l, m) > SpreadRange

\* The cells of S that a rule prefers: to search, those apart from what others
\* search, if there are any; to rescout, the objectives seen longest ago.
Preferred(a, d, rule, S) ==
    LET clear == {l \in S : Apart(l, Claimed(d, rule))}
        stalest == {o \in S : \A p \in S : a.objectives[o].seen <= a.objectives[p].seen}
    IN  CASE rule = "search" -> IF clear = {} THEN S ELSE clear
          [] rule = "rescout" -> stalest
          [] OTHER -> S

\* The decisions d, and i's by rule for one of the cells S if it has none yet.
Taken(a, d, rule, i, S) ==
    LET free == Free(a, d, rule, i, S)
        choice == Decision(rule, Nearest(a.own[i].at, Preferred(a, d, rule, free)))
    IN  IF i \in DOMAIN d \/ free = {} THEN d
        ELSE [j \in DOMAIN d \cup {i} |-> IF j = i THEN choice ELSE d[j]]

\* In ID order, each element i for which options are given takes one of them.
Give(a, d, rule, options) ==
    InOrder(LAMBDA i, made : Taken(a, made, rule, i, options[i]), d, DOMAIN options)

\* The target of i's standing decision by a rule, when it is still one of S.
Kept(was, rule, i, S) ==
    IF i \in DOMAIN was /\ was[i].rule = rule THEN {was[i].target} \cap S ELSE {}

-----------------------------------------------------------------------------
(* The rules, in the order they are tried.                                 *)

\* The neighboring cells that an element may step out of its fight into.
RetreatCells(a, at) ==
    {l \in {Neighbor(at, d) : d \in Range(Directions)} \cap Open : l \notin Occupied(a) /\ Fresh(a, l) = {}}

\* How far a cell is from the contacts known outside the fight at at.
Gap(a, at, l) ==
    LET others == {a.contacts[c].at : c \in DOMAIN a.contacts} \ {at}
    IN  Min({Far(m, l) : m \in {n \in others : n.sector = at.sector}} \cup {Cardinality(Cells)})

RetreatTo(a, at) ==
    LET best == {l \in RetreatCells(a, at) : \A m \in RetreatCells(a, at) : Gap(a, at, m) <= Gap(a, at, l)}
        k == Min({j \in DOMAIN Directions : Neighbor(at, Directions[j]) \in best})
    IN  Neighbor(at, Directions[k])

Outmatched(a, at) == 3 * Ours(a, at) < 2 * Theirs(a, at)

Fight(a) ==
    [i \in {j \in DOMAIN a.own : a.own[j].status = "engaged" /\ Fresh(a, a.own[j].at) # {}} |->
        LET at == a.own[i].at
        IN  IF (KindOf[i] = "scout" \/ Outmatched(a, at)) /\ RetreatCells(a, at) # {}
              THEN Decision("retreat", RetreatTo(a, at))
              ELSE Decision(IF Ours(a, at) >= Theirs(a, at) THEN "pursue" ELSE "engage", at)]

\* A free squad joins a fight that is held near it, or else seeks a weaker
\* contact near it, the lowest ID of the nearest.
Join(a, d) ==
    LET fights == Claimed(d, "pursue") \cup Claimed(d, "engage")
        squads == {i \in Undecided(a, d) : KindOf[i] = "squad"}
        near(i) == Within(a.own[i].at, fights, ReinforceRange)
        joins == {i \in squads : a.own[i].status \in {"ready", "recovering"} /\ near(i) # {}}
        weak(i) == {c \in DOMAIN a.contacts :
                      /\ Within(a.own[i].at, {a.contacts[c].at}, EngageRange) # {}
                      /\ Strength(a.contacts[c]) < Strength(a.own[i])}
        dist(i, c) == Distances[a.own[i].at][a.contacts[c].at]
        prey(i) == Min({c \in weak(i) : \A e \in weak(i) : dist(i, c) <= dist(i, e)})
        joined == [i \in joins |-> Decision("reinforce", Nearest(a.own[i].at, near(i)))]
        sent == [i \in {j \in squads \ joins : weak(j) # {}} |-> Decision("engage", a.contacts[prey(i)].at)]
    IN  Over(d, Over(joined, sent))

\* A scout secures only when nothing unexplored is in its reach.
Searches(a, i) == KindOf[i] = "scout" /\ Reached(a.own[i].at, Open \ Explored(a)) # {}

Secure(f, a, was, d) ==
    LET able == {i \in Undecided(a, d) : ~Searches(a, i)}
        open == ToTake(f, a)
        here == Give(a, d, "secure", [i \in able |-> {a.own[i].at} \cap open])
        kept == Give(a, here, "secure", [i \in able |-> Kept(was, "secure", i, open)])
    IN  Give(a, kept, "secure", [i \in able |-> open])

\* The scouts search before the squads.
SearchBy(a, was, d, kind) ==
    LET able == {i \in Undecided(a, d) : KindOf[i] = kind}
        unseen == Open \ Explored(a)
        kept == Give(a, d, "search", [i \in able |-> Kept(was, "search", i, unseen)])
    IN  Give(a, kept, "search", [i \in able |-> unseen])

\* None rescouts the objective it stands on.
Rescout(f, a, was, d) ==
    LET able == Undecided(a, d)
        others(i) == ToTake(f, a) \ {a.own[i].at}
        kept == Give(a, d, "rescout", [i \in able |-> Kept(was, "rescout", i, others(i))])
    IN  Give(a, kept, "rescout", [i \in able |-> others(i)])

\* The decision for each of the faction's own elements.
Decide(f, a, was) ==
    LET standing == Restrict(was, {i \in DOMAIN was : was[i].rule # "hold"})
        d == Rescout(f, a, standing,
                SearchBy(a, standing,
                   SearchBy(a, standing, Secure(f, a, standing, Join(a, Fight(a))), "scout"), "squad"))
    IN  Over(d, [i \in Undecided(a, d) |-> Hold])
=============================================================================
