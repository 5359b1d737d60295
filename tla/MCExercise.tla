----------------------------- MODULE MCExercise -----------------------------
(* An instance of Exercise for TLC: two exercises, one of which may never   *)
(* resolve, and orders for the other's two rounds.                          *)
EXTENDS Exercise

CONSTANTS alpha, bravo, red, u1, o1, r1, first, next

MCFor ==
    [e \in Orders |-> [exercise |-> alpha, faction |-> red, round |-> IF e = next THEN 2 ELSE 1]]
=============================================================================
