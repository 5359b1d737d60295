-------------------------------- MODULE Route --------------------------------
(***************************************************************************)
(* Package route: the orders that carry a faction's elements toward their  *)
(* targets in one round. Standings, the decisions operations has, and      *)
(* orders are functions of elements.                                       *)
(***************************************************************************)
EXTENDS Decide

Order(steps, retreat, pursue) == [steps |-> steps, retreat |-> retreat, pursue |-> pursue]

\* The steps to try from a cell, in the order they are preferred: up, right,
\* down, left, and through the gate.
Steps(l) ==
    [k \in 1..4 |-> Neighbor(l, Directions[k])] \o IF l \in DOMAIN Link THEN <<Link[l]>> ELSE <<>>

\* The step from l on the shortest path to a cell.
NextStep(l, to) ==
    LET nearer == {k \in DOMAIN Steps(l) :
                     /\ Steps(l)[k] \in Open /\ to \in DOMAIN Distances[Steps(l)[k]]
                     /\ Distances[Steps(l)[k]][to] < Distances[l][to]}
    IN  Steps(l)[Min(nearer)]

\* Where steps lead from a cell.
Leads(from, steps) == IF steps = <<>> THEN from ELSE Last(steps)

\* The first n steps of the shortest path between two cells that prefers, at
\* each cell, the steps in their order; none when there is no path.
Path(from, to, n) ==
    LET walk[k \in Nat] ==
            IF k = 0 THEN <<>>
            ELSE LET p == walk[k - 1]
                 IN  IF Leads(from, p) = to THEN p ELSE Append(p, NextStep(Leads(from, p), to))
    IN  IF to \in DOMAIN Distances[from] THEN walk[n] ELSE <<>>

\* The steps an element sets out with.
Way(own, standing, i) ==
    LET e == own[i]
        st == standing[i]
    IN  CASE i \notin DOMAIN standing -> <<>>
          [] i \in DOMAIN standing /\ e.status = "engaged" ->
               IF st.rule = "retreat" /\ st.target \in StepsFrom(e.at) THEN <<st.target>> ELSE <<>>
          [] i \in DOMAIN standing /\ e.status = "ready" -> Path(e.at, st.target, Moves(KindOf[i]))
          [] OTHER -> <<>>

\* Mistake: a mover keeps its cell though another element stays there.
YieldsToMovers(moving, group, i) == i \in moving /\ i # Min(group \cap moving)

\* Of the elements that end in one cell the first mover keeps it, unless an
\* element stays there.
Yields(moving, group, i) == i \in moving /\ (i # Min(group) \/ group \ moving # {})

FightCells(own) == {own[i].at : i \in {j \in DOMAIN own : own[j].status = "engaged"}}

\* The steps that i has left, and where it ends, when those of up are given up:
\* the pairs of an element and a step of its way.
Left(ways, up, i) == Max({0} \cup {k \in DOMAIN ways[i] : <<i, k>> \notin up})
EndAfter(own, ways, up, i) == IF Left(ways, up, i) = 0 THEN own[i].at ELSE ways[i][Left(ways, up, i)]

Refused(own, ways, up, i) ==
    LET end == EndAfter(own, ways, up, i)
        group == {j \in DOMAIN own : EndAfter(own, ways, up, j) = end}
    IN  /\ Cardinality(group) > 1
        /\ end \notin FightCells(own)
        /\ Yields({j \in DOMAIN own : Left(ways, up, j) > 0}, group, i)

\* The steps given up, the last one left at a time, until no two elements end in
\* one cell that is not a fight's. A way has two steps at most.
GivenUp(own, ways) ==
    LET after[k \in Nat] ==
            IF k = 0 THEN {}
            ELSE LET up == after[k - 1]
                 IN  up \cup {<<i, Left(ways, up, i)>> : i \in {j \in DOMAIN own : Refused(own, ways, up, j)}}
    IN  after[2 * Cardinality(DOMAIN own)]

GivingWay(own, ways) ==
    LET up == GivenUp(own, ways)
    IN  [i \in DOMAIN own |-> SubSeq(ways[i], 1, Left(ways, up, i))]

Plan(own, standing) ==
    LET ways == GivingWay(own, [i \in DOMAIN own |-> Way(own, standing, i)])
        pursues(i) == own[i].status = "engaged" /\ i \in DOMAIN standing /\ standing[i].rule = "pursue"
    IN  [i \in {j \in DOMAIN own : ways[j] # <<>> \/ pursues(j)} |->
            Order(ways[i], own[i].status = "engaged" /\ ways[i] # <<>>, pursues(i))]
=============================================================================
