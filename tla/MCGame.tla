------------------------------- MODULE MCGame --------------------------------
(* An instance of Game for TLC: two sectors and a gate between them, an      *)
(* obstacle, and two objectives; a squad and a scout or two on each side.    *)
EXTENDS Game, TLC

CONSTANTS red, blue

MCWidth == 1 :> 3 @@ 2 :> 2
MCHeight == 1 :> 2 @@ 2 :> 1
MCObstacles == {Cell(1, 1, 0)}
MCObjectives == {Cell(1, 0, 1), Cell(2, 1, 0)}
MCLink == Cell(1, 2, 1) :> Cell(2, 0, 0) @@ Cell(2, 0, 0) :> Cell(1, 2, 1)
MCElements == 1..5
MCOf == [i \in MCElements |-> IF i < 4 THEN red ELSE blue]
MCKindOf == [i \in MCElements |-> IF i \in {1, 2, 4} THEN "squad" ELSE "scout"]

Unhurt(i, at) == [at |-> at, status |-> "ready",
                  health |-> [k \in 1..Operators(KindOf[i]) |-> FullHealth]]
Placed(at) == [elements |-> [i \in DOMAIN at |-> Unhurt(i, at[i])], holders |-> <<>>, progress |-> <<>>]

\* A start that State.Validate accepts, with enemies ready in one cell.
Unfaced ==
    [plays |-> red :> "services" @@ blue :> "services", limit |-> 3,
     start |-> Placed(1 :> Cell(1, 0, 0) @@ 2 :> Cell(1, 1, 1) @@ 4 :> Cell(1, 0, 0))]

Homes == <<Cell(1, 0, 0), Cell(1, 0, 1), Cell(1, 1, 1), Cell(2, 1, 0), Cell(2, 0, 0)>>
MCGames ==
    {[plays |-> red :> "services" @@ blue :> "services", limit |-> 6, start |-> Placed(Homes)],
     [plays |-> red :> "anyone" @@ blue :> "services", limit |-> 3,
      start |-> Placed(Restrict(Homes, {1, 2, 3, 5}))],
     Unfaced}
=============================================================================
