----------------------------- MODULE MCTheater -----------------------------
(* Instances of Theater for TLC. *)
EXTENDS Theater

CONSTANTS blue, red

MCFactions == {blue, red}
MCServed == {blue}
\* blue takes the objective, then red takes it, and the exercise concludes.
MCTakes == <<blue, red>>
=============================================================================
