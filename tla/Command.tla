------------------------------ MODULE Command -------------------------------
(***************************************************************************)
(* The command domain: a faction's direction of its elements in one        *)
(* exercise. It decides on each assessment that intelligence issues and    *)
(* raises a directive when the decision redirects an element. Assessments  *)
(* arrive in any order, each handled at most once (Inbox) in a transaction *)
(* that locks the faction's row from its read to its commit, so a handler  *)
(* is one step here; one that rolls back changes nothing. Exercises, and   *)
(* factions but for a start and a conclusion, share no row: one of each is *)
(* modelled.                                                               *)
(***************************************************************************)
EXTENDS Contracts, Sequences, FiniteSets, SequencesExt, FiniteSetsExt, Functions

CONSTANTS
    Elements,
    Decisions,     \* the decisions on an element: [rule, target]
    Limit,       \* the round the exercise concludes after, its round limit
    Own,         \* round -> the faction's live elements then: [status, at]
    Assessed     \* revision -> the round that assessment is of

Rounds == 0..Limit
None == "none"
Hold == [rule |-> "hold", target |-> None]

ASSUME LimitAssumption == Limit \in Nat \ {0}
ASSUME DecisionsAssumption == Hold \in Decisions /\ \A c \in Decisions : c.target = None => c = Hold
ASSUME OwnAssumption ==
    /\ DOMAIN Own = Rounds
    /\ \A n \in Rounds : DOMAIN Own[n] \subseteq Elements
    /\ \A n \in Rounds : \A m \in 0..n : DOMAIN Own[n] \subseteq DOMAIN Own[m]
ASSUME AssessedAssumption ==
    /\ Assessed \in Seq(Rounds)
    /\ \A i \in DOMAIN Assessed : \A j \in 1..i : Assessed[j] <= Assessed[i]

VARIABLES
    direction,   \* the faction's row, Absent before it is open
    directives,  \* the directives raised, in the outbox's order
    decided      \* the revisions whose inbox claim is committed

command == <<direction, directives, decided>>

Revisions == DOMAIN Assessed
Absent == [status |-> "absent"]

CommandInit ==
    /\ direction = Absent
    /\ directives = <<>>
    /\ decided = {}

OpenDirection ==
    /\ direction = Absent
    /\ direction' = [status |-> "open", closed |-> 0, round |-> -1, revision |-> 0,
                     sequence |-> 0, decisions |-> <<>>]
    /\ UNCHANGED <<directives, decided>>

\* ErrNotOpen rolls back the claim of a conclusion handled before the start.
CloseDirection ==
    /\ direction.status = "open"
    /\ direction' = [direction EXCEPT !.status = "closed", !.closed = Limit]
    /\ UNCHANGED <<directives, decided>>

DecisionIn(decisions, e) == IF e \in DOMAIN decisions THEN decisions[e] ELSE Hold

\* An element without a decision held; one destroyed redirects nothing.
Redirects(prev, next) == \E e \in DOMAIN next : DecisionIn(prev, e) # next[e]

\* Mistake: a closed direction decides nothing any more.
PastClose(d, n) == d.status = "closed"

PastEnd(d, n) == d.status = "closed" /\ n > d.closed

\* What package decide decides of the live elements is left open.
Decide(i) ==
    /\ direction # Absent
    /\ i \notin decided
    /\ decided' = decided \cup {i}
    /\ LET d == direction
           n == Assessed[i]
       IN  IF i <= d.revision \/ PastEnd(d, n)
             THEN UNCHANGED <<direction, directives>>
             ELSE \E next \in [DOMAIN Own[n] -> Decisions] :
                    LET new == Redirects(d.decisions, next)
                        seq == IF new THEN d.sequence + 1 ELSE d.sequence
                    IN  /\ direction' = [d EXCEPT !.round = n, !.revision = i,
                                             !.sequence = seq, !.decisions = next]
                        /\ directives' = IF new
                             THEN Append(directives, [round |-> n, sequence |-> seq, decisions |-> next])
                             ELSE directives

\* The latest assessment handled is the one decided on, the final round's too
\* when the conclusion was handled first; the directives are numbered one by
\* one as they are raised, and their rounds do not go back.
LatestDecided ==
    direction # Absent =>
        /\ direction.revision = Max({0} \cup decided)
        /\ direction.sequence = Len(directives)
        /\ \A i \in DOMAIN directives : directives[i].sequence = i
        /\ \A i \in 2..Len(directives) : directives[i].round >= directives[i - 1].round
=============================================================================
