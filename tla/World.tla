-------------------------------- MODULE World --------------------------------
(***************************************************************************)
(* The world of an exercise: its map, its two factions and their elements. *)
(* exercise's rules read the whole map; command and operations know it     *)
(* without its objectives. A sector is a number, its rank among the sector *)
(* names, and an element's ID is a number too, its rank among the IDs.     *)
(* Coordinates stay below a hundred.                                       *)
(***************************************************************************)
EXTENDS Integers, Sequences, FiniteSets, SequencesExt, FiniteSetsExt, Functions

CONSTANTS
    Sectors, Width, Height,  \* the sectors and the size of each
    Obstacles,               \* the cells that cannot be entered
    Objectives,              \* the cells to take
    Link,                    \* a gate's cell -> the cell of the gate it links to
    Factions,
    Elements, Of, KindOf,    \* element -> its faction, and its kind
    SquadSize,               \* the operators of a squad
    FullHealth               \* the health of an unhurt operator

Kinds == {"squad", "scout"}
Nobody == "nobody"           \* the holder of an objective that is not held

Moves(k) == IF k = "squad" THEN 1 ELSE 2
Sight(k) == IF k = "squad" THEN 1 ELSE 2
Operators(k) == IF k = "squad" THEN SquadSize ELSE 1

Cell(s, x, y) == [sector |-> s, x |-> x, y |-> y]
Cells == UNION {{Cell(s, x, y) : x \in 0..Width[s] - 1, y \in 0..Height[s] - 1} : s \in Sectors}
Open == Cells \ Obstacles

\* Map.Validate: features lie on the map, a cell has one at most, every gate
\* links to a gate of another sector that links back, and there is an objective.
MapIsValid ==
    /\ \A s \in Sectors : Width[s] > 0 /\ Height[s] > 0
    /\ Obstacles \cup Objectives \cup DOMAIN Link \subseteq Cells
    /\ Cardinality(Obstacles) + Cardinality(Objectives) + Cardinality(DOMAIN Link) =
         Cardinality(Obstacles \cup Objectives \cup DOMAIN Link)
    /\ \A g \in DOMAIN Link :
         /\ Link[g].sector # g.sector
         /\ Link[g] \in DOMAIN Link /\ Link[Link[g]] = g
    /\ Objectives # {}

ASSUME NamesAssumption ==
    /\ Sectors \subseteq Nat /\ IsFiniteSet(Sectors)
    /\ Elements \subseteq Nat /\ IsFiniteSet(Elements)
    /\ Width \in [Sectors -> 0..100] /\ Height \in [Sectors -> 0..100]
ASSUME MapAssumption == MapIsValid
ASSUME ElementsAssumption ==
    /\ IsFiniteSet(Factions) /\ Cardinality(Factions) = 2 /\ Nobody \notin Factions
    /\ Of \in [Elements -> Factions] /\ KindOf \in [Elements -> Kinds]
    /\ SquadSize \in Nat \ {0} /\ FullHealth \in Nat \ {0}

-----------------------------------------------------------------------------
Abs(n) == IF n < 0 THEN -n ELSE n

\* The Chebyshev distance of two cells of one sector.
Far(l, m) == Max({Abs(l.x - m.x), Abs(l.y - m.y)})

\* The rank of a number below a hundred among such numbers as they are written:
\* 1 comes before 10, and 10 before 2.
Numeral(n) == IF n < 10 THEN 11 * n ELSE 11 * (n \div 10) + (n % 10) + 1

\* The order of the cells' keys, "sector:x,y".
Precedes(l, m) ==
    \/ l.sector < m.sector
    \/ l.sector = m.sector /\ Numeral(l.x) < Numeral(m.x)
    \/ l.sector = m.sector /\ l.x = m.x /\ Numeral(l.y) < Numeral(m.y)

\* The first of a set of cells.
FirstOf(S) == CHOOSE l \in S : \A m \in S \ {l} : Precedes(l, m)

\* What is made of x by taking the elements of S in the order of their IDs.
InOrder(Take(_, _), x, S) == MapThenFoldSet(Take, x, LAMBDA i : i, LAMBDA T : Max(T), S)

\* The function g, but for what f says.
Over(f, g) == [x \in DOMAIN f \cup DOMAIN g |-> IF x \in DOMAIN f THEN f[x] ELSE g[x]]

Rival(f) == CHOOSE g \in Factions : g # f
Strength(e) == SumFunction(e.health)

\* Element i, standing at a cell, sees l; no element sees into another sector.
SeesFrom(i, at, l) == at.sector = l.sector /\ Far(at, l) <= Sight(KindOf[i])
=============================================================================
