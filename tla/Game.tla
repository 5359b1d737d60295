-------------------------------- MODULE Game ---------------------------------
(***************************************************************************)
(* An exercise played by the services: each round exercise resolves the    *)
(* orders, each faction's observation becomes its picture (intelligence),  *)
(* its decisions (command), and its orders for the next round (operations).*)
(* Intelligence and Operations check that chain event by event; here both  *)
(* factions' runs between two rounds, a service at a time, except that now *)
(* and then a directive is a round late or orders are lost. A faction may  *)
(* instead be given any orders at all, legal or not.                       *)
(***************************************************************************)
EXTENDS Rules, Route

CONSTANTS
    Games,       \* the exercises: who plays each faction, the limit, the start
    K,           \* contactRounds: the rounds a contact lasts unseen
    MaxSlips     \* bounds the late directives and the lost orders

ASSUME GameAssumption ==
    /\ K \in Nat /\ MaxSlips \in Nat
    /\ \A g \in Games :
         /\ g.plays \in [Factions -> {"services", "anyone"}] /\ g.limit \in Nat \ {0}
         /\ Valid(g.start) /\ g.start.holders = <<>> /\ g.start.progress = <<>>

VARIABLES
    plays,      \* who plays each faction
    limit,      \* the round limit
    state,      \* exercise: the state after the last round
    round,      \* exercise: the last round resolved
    verdict,    \* exercise: its verdict after that round
    turn,       \* the service to go on, "exercise" when the orders are in
    alerts,     \* faction -> who took the objectives it lost in that round
    picture,    \* intelligence: faction -> what it knows
    decided,    \* command: faction -> the last decisions
    standing,   \* operations: faction -> the directives it has
    orders,     \* faction -> its orders recorded for the next round
    slips       \* what was late or lost so far

game == <<plays, limit, state, round, verdict, alerts>>
vars == <<game, turn, picture, decided, standing, orders, slips>>

Played == {f \in Factions : plays[f] = "services"}

-----------------------------------------------------------------------------
(* The chain.                                                              *)

Blank == [round |-> -1, own |-> <<>>, contacts |-> <<>>, objectives |-> <<>>, explored |-> {}]

Sighted(obs, n) ==
    [c \in DOMAIN obs.contacts |->
        LET e == obs.contacts[c] IN [at |-> e.at, status |-> e.status, health |-> e.health, seen |-> n]]

\* The contacts that last unseen.
Lingers(p, obs, n) ==
    {c \in DOMAIN p.contacts :
        /\ n - p.contacts[c].seen <= K
        /\ ~\E i \in DOMAIN obs.own : SeesFrom(i, obs.own[i].at, p.contacts[c].at)}

\* The picture of round n: the observation, over what is remembered; told
\* are the objectives the faction was alerted to have lost in the round.
Know(p, obs, told, n) ==
    [round |-> n,
     own |-> obs.own,
     contacts |-> Over(Sighted(obs, n), Restrict(p.contacts, Lingers(p, obs, n))),
     objectives |->
        Over([o \in DOMAIN obs.objectives |-> [holder |-> obs.objectives[o], seen |-> n]],
             Over([o \in DOMAIN told |-> [holder |-> told[o], seen |-> n]], p.objectives)),
     explored |-> p.explored \cup
        {l \in Cells : \E i \in DOMAIN obs.own : SeesFrom(i, obs.own[i].at, l)}]

\* What exercise alerts f to: who took the objectives it held.
Told(f, s, t) ==
    [o \in {p \in Objectives : Holder(s, p) = f /\ Holder(t, p) # f} |-> Holder(t, o)]

\* What operations has of decisions: targets, without the holds.
Standing(d) == Restrict(d, {i \in DOMAIN d : d[i] # Hold})

-----------------------------------------------------------------------------
Nothing == [f \in Factions |-> <<>>]

Init ==
    /\ \E g \in Games : plays = g.plays /\ limit = g.limit /\ state = g.start
    /\ round = 0
    /\ verdict = Judge(state, 0, limit)
    /\ alerts = Nothing
    /\ turn = "intelligence"
    /\ picture = [f \in Factions |-> Blank]
    /\ decided = Nothing /\ standing = Nothing /\ orders = Nothing
    /\ slips = 0

\* intelligence: each faction's observation of the round and its alerts.
Observed ==
    /\ turn = "intelligence" /\ turn' = "command"
    /\ picture' = [f \in Factions |->
          IF f \in Played THEN Know(picture[f], Observe(state, f), alerts[f], round) ELSE Blank]
    /\ UNCHANGED <<game, decided, standing, orders, slips>>

\* command: what each faction's elements are to do.
Directed ==
    /\ turn = "command" /\ turn' = "operations"
    /\ decided' = [f \in Factions |->
          IF f \in Played THEN Decide(f, picture[f], decided[f]) ELSE <<>>]
    /\ UNCHANGED <<game, picture, standing, orders, slips>>

\* operations: the orders, under directives that may be late, and may be lost.
Ordered ==
    /\ turn = "operations" /\ turn' = "exercise"
    /\ \E late, lost \in SUBSET Played :
         /\ slips' = slips + Cardinality(late) + Cardinality(lost)
         /\ slips' <= MaxSlips
         /\ standing' = [f \in Factions |->
               LET has == IF f \in late THEN standing[f] ELSE Standing(decided[f])
               IN  IF f \in Played THEN Restrict(has, DOMAIN has \cap DOMAIN picture[f].own) ELSE <<>>]
         /\ orders' = [f \in Factions |->
               IF f \in Played \ lost THEN Plan(picture[f].own, standing'[f]) ELSE <<>>]
    /\ UNCHANGED <<game, picture, decided>>

\* The orders that anyone may give: each element a step to a cell that may be
\* entered or not, all as retreats or none, or a pursuit where it stands.
AnyOrder(i, retreat) ==
    LET at == state.elements[i].at
        about == {Neighbor(at, d) : d \in Range(Directions)} \cap Cells
    IN  {Order(<<l>>, retreat, FALSE) : l \in about \cup {Link[g] : g \in DOMAIN Link \cap {at}}}
           \cup {Order(<<>>, FALSE, TRUE)}

AnyOrders ==
    LET wild == {i \in DOMAIN state.elements : plays[Of[i]] = "anyone"}
        All(r) == [wild -> UNION {AnyOrder(i, r) : i \in wild}]
    IN  UNION {{w \in All(r) : \A i \in wild : w[i] \in AnyOrder(i, r)} : r \in BOOLEAN}

Recorded == [i \in UNION {DOMAIN orders[f] : f \in Factions} |-> orders[Of[i]][i]]

\* exercise: the next round, under the orders recorded for it.
Resolved ==
    /\ turn = "exercise" /\ turn' = "intelligence"
    /\ ~verdict.over
    /\ state' \in UNION {Resolutions(state, Over(w, Recorded)) : w \in AnyOrders}
    /\ round' = round + 1
    /\ verdict' = Judge(state', round + 1, limit)
    /\ alerts' = [f \in Factions |-> Told(f, state, state')]
    /\ orders' = Nothing
    /\ UNCHANGED <<plays, limit, picture, decided, standing, slips>>

Next == Observed \/ Directed \/ Ordered \/ Resolved

Spec == Init /\ [][Next]_vars

-----------------------------------------------------------------------------
(* Properties.                                                             *)

\* Every state a round ends in is one that State.Validate accepts.
TypeOK ==
    /\ Valid(state)
    /\ round \in 0..limit
    /\ slips \in 0..MaxSlips
    /\ \A f \in Played :
         /\ turn # "intelligence" => picture[f].own = Observe(state, f).own
         /\ turn \in {"operations", "exercise"} => DOMAIN decided[f] = DOMAIN picture[f].own
         /\ turn = "exercise" =>
              DOMAIN standing[f] \cup DOMAIN orders[f] \subseteq DOMAIN picture[f].own

\* Who is ready is in no fight, and who is engaged is in one: what a status says.
\* State.Validate does not ask it of the start that a create gives.
Faced(es) ==
    \A i \in DOMAIN es : /\ es[i].status = "ready" => ~Contested(es, es[i].at)
                         /\ es[i].status = "engaged" => Contested(es, es[i].at)

\* Operations never plans an order that exercise refuses: every element ends
\* where it is ordered to, whatever the directives it is ordered under, and
\* what pursues is in a fight. So route's Plan has it, of every order.
NeverIllegal ==
    \A f \in Played : \A i \in DOMAIN orders[f] :
        LET o == orders[f][i]
            es == state.elements
        IN  /\ Ends(es, Recorded)[i] = IF o.steps = <<>> THEN es[i].at ELSE Last(o.steps)
            /\ o.pursue => Contested(es, es[i].at)

\* No order is refused, but for those of a first round that starts with an
\* element whose status is not what its cell says.
OrdersObeyed == (round > 0 \/ Faced(state.elements)) => NeverIllegal

\* No two elements of a faction are sent to secure one objective, to search
\* one cell, or to rescout one objective; each target can be reached; and a
\* retreat is into a cell that nobody is in.
TargetsApart ==
    turn \in {"operations", "exercise"} => \A f \in Played :
        LET d == decided[f]
            es == state.elements
        IN  /\ \A i, j \in DOMAIN d :
                 (i # j /\ d[i].rule = d[j].rule /\ d[i].rule \in {"secure", "search", "rescout"})
                    => d[i].target # d[j].target
            /\ \A i \in DOMAIN d : d[i] # Hold => d[i].target \in DOMAIN Distances[es[i].at]
            /\ \A i \in DOMAIN d : d[i].rule = "retreat" => At(es, d[i].target) = {}

\* The elements that outlive a round.
Survivors == DOMAIN state.elements \cap DOMAIN state'.elements

\* Leaving a fight costs the next round: an element that a fight holds moves
\* one step at most, out of the fight, and then does not move again. And two
\* elements of a faction come to share a cell only where a fight was.
FightsHold ==
    [][/\ \A i \in Survivors :
            LET e == state.elements[i]
                t == state'.elements[i]
            IN  /\ (Contested(state.elements, e.at) /\ t.at # e.at) =>
                      IsStep(e.at, t.at) /\ t.status = "recovering"
                /\ e.status = "recovering" => t.at = e.at
       /\ \A i, j \in Survivors :
            ( /\ i # j /\ Of[i] = Of[j]
              /\ state'.elements[i].at = state'.elements[j].at
              /\ state.elements[i].at # state.elements[j].at )
            => Contested(state.elements, state'.elements[i].at)]_round

\* Alone on an objective at the end of a round.
AloneOn(s, f, o) == FactionsAt(s.elements, o) = {f}

\* An objective changes hands exactly when a faction that does not hold it
\* has ended two rounds in a row alone on it.
CapturesEarned ==
    [][\A o \in Objectives, f \in Factions :
          (Holder(state', o) = f /\ Holder(state, o) # f) =
          ( /\ Holder(state, o) # f
            /\ round > 0 /\ AloneOn(state, f, o) /\ AloneOn(state', f, o) )]_round

\* Whether an exercise is over, and who has won, is nobody's to argue: it goes
\* on only before the limit with both factions alive; an eliminated faction
\* never wins; and at the limit the faction that holds more does.
VerdictStands ==
    LET live == {f \in Factions : Alive(state, f) # {}}
        more(f) == Cardinality(Held(state, f)) > Cardinality(Held(state, Rival(f)))
    IN  /\ ~verdict.over => live = Factions /\ round < limit
        /\ verdict.over => \A f \in Factions :
              (verdict.winner = f) = (f \in live /\ (live = {f} \/ more(f)))
=============================================================================
