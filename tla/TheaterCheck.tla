---------------------------- MODULE TheaterCheck -----------------------------
(***************************************************************************)
(* Courier's theater-check: an exercise's assessments, as intelligence     *)
(* issued them, against exercise's history, the observer's record. The     *)
(* history is the game; the assessments are what issued holds.             *)
(***************************************************************************)
EXTENDS Intelligence

\* Each faction's last assessment of each round: a revision stands.
LastAssessments(f) ==
    {issued[f][i].picture : i \in {j \in DOMAIN issued[f] :
        \A k \in j + 1..Len(issued[f]) :
            issued[f][k].picture.round # issued[f][j].picture.round}}

\* Round n is one in which, or before which, f first had c in sight.
FirstSeen(f, c, n) == \E m \in 0..n : c \in ObjectivesSeen(f, m)

\* Exercise alerted f to have lost c in the round that o is of, to its holder.
Alerted(f, c, o) == c \in Lost(f, o.seen) /\ o.holder = game.holders[o.seen][c]

\* What is in sight is reported so and nothing else is; what is remembered is
\* in no cell in sight, and no older than K rounds.
ContactsExplained(f, a) ==
    /\ \A e \in ContactsSeen(f, a.round) :
         e \in DOMAIN a.contacts /\ a.contacts[e] = [at |-> game.at[a.round][e], seen |-> a.round]
    /\ \A e \in DOMAIN a.contacts \ ContactsSeen(f, a.round) :
         /\ a.round - a.contacts[e].seen \in 1..K
         /\ a.contacts[e].at \notin game.sees[a.round][f]

\* An objective stands as an alert has it, as it is in sight, or as it was.
ObjectivesExplained(f, a) ==
    LET now == ObjectivesSeen(f, a.round)
    IN  /\ now \subseteq DOMAIN a.objectives
        /\ \A c \in DOMAIN a.objectives :
             LET o == a.objectives[c]
             IN  \/ Alerted(f, c, o) /\ (c \notin now \/ o.seen > a.round)
                 \/ c \in now /\ o.age = 0 /\ o.holder = game.holders[a.round][c]
                 \/ c \notin now /\ FirstSeen(f, c, a.round) /\ o.age # 0

Covered(f, n) == \E i \in DOMAIN issued[f] : issued[f][i].picture.round = n

-----------------------------------------------------------------------------
(* Properties.                                                             *)

\* In whatever order the inputs are handled, and whatever is never handled, the
\* check explains every assessment that stands: none reports what the faction
\* could not see or had not been told, or leaves out what it saw. And once every
\* input is handled, the last round has an assessment of each faction: an
\* observation handled behind a later one is passed over, so a round before the
\* last may have none, and the check's coverage fail.
TheaterConsistent ==
    /\ \A f \in Factions : \A a \in LastAssessments(f) :
          ContactsExplained(f, a) /\ ObjectivesExplained(f, a)
    /\ claimed = Inputs => \A f \in Factions : Covered(f, Limit)
=============================================================================
