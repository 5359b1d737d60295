--------------------------- MODULE MCIntelligence ---------------------------
(* Instances of TheaterCheck for TLC: one objective that changes hands, two *)
(* cells, and one enemy, over games that differ in what red sees and when.  *)
EXTENDS TheaterCheck, TLC

CONSTANTS red, blue, b1, hill, dale, r1, r2

MCOf == b1 :> blue
Held == {<<red, blue, red>>, <<red, blue, blue>>, <<Nobody, red, blue>>}
Seen == {<<{hill}, {}, {hill}>>, <<{hill, dale}, {hill}, {}>>,
         <<{dale}, {}, {hill}>>, <<{}, {hill, dale}, {dale}>>}
Stood == {<<dale, hill, hill>>, <<hill, dale, Nowhere>>}

MCGames ==
    {[holders |-> [n \in 0..2 |-> hill :> h[n + 1]],
      sees |-> [n \in 0..2 |-> [f \in Factions |-> s[n + 1]]],
      at |-> [n \in 0..2 |-> b1 :> p[n + 1]]] : h \in Held, s \in Seen, p \in Stood}
MCSymmetry == Permutations({r1, r2})
=============================================================================
