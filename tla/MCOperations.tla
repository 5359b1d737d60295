---------------------------- MODULE MCOperations ----------------------------
(* An instance of Operations for TLC: two elements, of which one is engaged *)
(* in round 1 and the other dead, and two assessments of round 1.           *)
EXTENDS Operations, TLC

CONSTANTS e1, e2, hill, dale

MCDecisions ==
    {Hold, [rule |-> "search", target |-> hill], [rule |-> "secure", target |-> hill],
     [rule |-> "pursue", target |-> dale]}
MCOwn ==
    [n \in 0..2 |->
        CASE n = 0 -> (e1 :> [status |-> "ready", at |-> dale]) @@ (e2 :> [status |-> "ready", at |-> hill])
          [] n = 1 -> e1 :> [status |-> "engaged", at |-> dale]
          [] n = 2 -> e1 :> [status |-> "recovering", at |-> hill]]
MCAssessed == <<0, 1, 1>>
=============================================================================
