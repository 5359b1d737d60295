---------------------------- MODULE Intelligence ----------------------------
(***************************************************************************)
(* The intelligence domain: each faction's assessment of one exercise,     *)
(* fused from what the exercise raised: its start, each round's            *)
(* observations, the alerts of objectives lost, and its conclusion. Each   *)
(* kind arrives on a subscription of its own, so the inputs are handled in *)
(* any order, by several replicas, and each at most once (Inbox); one that *)
(* fails is delivered again, and after its last delivery never handled.    *)
(* Exercises share no row, so one is modelled.                             *)
(***************************************************************************)
EXTENDS Contracts, Sequences, FiniteSets, SequencesExt, FiniteSetsExt

CONSTANTS
    Factions,
    Elements, Of,      \* the elements, and the faction of each
    Cells, Objectives, \* the map's cells, and those that are objectives
    Limit,             \* the round the exercise concludes after
    K,                 \* contactRounds: rounds a contact lasts unseen
    Replicas,          \* the transactions that run at once
    Games              \* the courses of an exercise: [holders, sees, at]

Rounds == 0..Limit
Nobody == "nobody"     \* the holder of an objective that is not held
Nowhere == "nowhere"   \* where a dead element is

ASSUME MapAssumption == Objectives \subseteq Cells /\ Of \in [Elements -> Factions]
ASSUME RoundsAssumption == Limit \in Nat /\ K \in Nat \ {0}
ASSUME GamesAssumption ==
    Games \subseteq [holders : [Rounds -> [Objectives -> Factions \cup {Nobody}]],
                     sees : [Rounds -> [Factions -> SUBSET Cells]],
                     at : [Rounds -> [Elements -> Cells \cup {Nowhere}]]]

VARIABLES
    game,      \* what happened in the exercise
    row,       \* faction -> its assessment, Absent before it is open
    issued,    \* faction -> the assessments raised, in the outbox's order
    claimed,   \* the inputs whose inbox claim is committed
    fused,     \* history: faction -> the rounds whose observation was fused
    tx         \* replica -> the input it handles and the row it read

vars == <<game, row, issued, claimed, fused, tx>>

Absent == [status |-> "absent"]
Idle == [input |-> [kind |-> "none"]]

-----------------------------------------------------------------------------
(* The inputs: what exercise raises about the game.                        *)

\* What faction f observes of round n.
ContactsSeen(f, n) ==
    {e \in Elements : Of[e] # f /\ game.at[n][e] \in game.sees[n][f]}
ObjectivesSeen(f, n) == Objectives \cap game.sees[n][f]

\* The captures of round n: an objective a faction held, taken by another.
Lost(f, n) ==
    {c \in Objectives :
        /\ n > 0
        /\ game.holders[n - 1][c] = f
        /\ game.holders[n][c] \notin {f, Nobody}}

Observations == [kind : {"observed"}, faction : Factions, round : Rounds]
Alerts ==
    UNION {{[kind |-> "lost", faction |-> f, round |-> n, at |-> c] : c \in Lost(f, n)} :
              f \in Factions, n \in Rounds}
Inputs ==
    {[kind |-> "started"], [kind |-> "concluded", round |-> Limit]}
        \cup Observations \cup Alerts

-----------------------------------------------------------------------------
(* Package fusion.                                                         *)

Open == [round |-> -1, contacts |-> <<>>, objectives |-> <<>>, explored |-> {}]

Age(round, seen) == IF seen > round THEN 0 ELSE round - seen

Sighting(round, c, n) ==
    [holder |-> game.holders[n][c], seen |-> n, age |-> Age(round, n)]

\* Mistake: a contact outlasts the sight of its cell without it.
RememberedUnseen(p, f, n) ==
    {e \in DOMAIN p.contacts \ ContactsSeen(f, n) : n - p.contacts[e].seen <= K}

\* A contact that is not observed lasts K rounds, unless its cell is seen empty.
Remembered(p, f, n) ==
    {e \in DOMAIN p.contacts \ ContactsSeen(f, n) :
        /\ n - p.contacts[e].seen <= K
        /\ p.contacts[e].at \notin game.sees[n][f]}

FuseContacts(p, f, n) ==
    [e \in ContactsSeen(f, n) \cup Remembered(p, f, n) |->
        IF e \in ContactsSeen(f, n) THEN [at |-> game.at[n][e], seen |-> n] ELSE p.contacts[e]]

\* Mistake: an observation replaces what an alert of a later round recorded.
StandingUnseen(p, f, n) == DOMAIN p.objectives \ ObjectivesSeen(f, n)

\* The objectives that keep what they were last seen as.
Standing(p, f, n) ==
    {c \in DOMAIN p.objectives :
        c \notin ObjectivesSeen(f, n) \/ p.objectives[c].seen > n}

FuseObjectives(p, f, n) ==
    [c \in Standing(p, f, n) \cup ObjectivesSeen(f, n) |->
        IF c \in Standing(p, f, n)
          THEN [p.objectives[c] EXCEPT !.age = Age(n, p.objectives[c].seen)]
          ELSE Sighting(n, c, n)]

\* The elements of its own that f has are those of the round.
Fuse(p, f, n) ==
    [round |-> n,
     contacts |-> FuseContacts(p, f, n),
     objectives |-> FuseObjectives(p, f, n),
     explored |-> p.explored \cup game.sees[n][f]]

\* The picture that an alert of round n about c changes p into, or p.
Alert(p, c, n) ==
    IF c \in DOMAIN p.objectives /\ p.objectives[c].seen > n
      THEN p
      ELSE [p EXCEPT !.objectives = [d \in DOMAIN p.objectives \cup {c} |->
                    IF d = c THEN Sighting(p.round, c, n) ELSE p.objectives[d]]]

-----------------------------------------------------------------------------
(* The commands.                                                           *)

Init ==
    /\ game \in Games
    /\ row = [f \in Factions |-> Absent]
    /\ issued = [f \in Factions |-> <<>>]
    /\ claimed = {}
    /\ fused = [f \in Factions |-> {}]
    /\ tx = [r \in Replicas |-> Idle]

\* Nobody else has claimed the input: a claim under way is waited for.
Unclaimed(i) == i \notin claimed /\ \A r \in Replicas : tx[r].input # i

Holding(f) == {r \in Replicas : tx[r] # Idle /\ tx[r].input.faction = f}

\* started: both assessments open in one transaction, each unless it is open.
OpenAll ==
    LET i == [kind |-> "started"]
    IN  /\ Unclaimed(i)
        /\ row' = [f \in Factions |->
              IF row[f] # Absent THEN row[f]
              ELSE [status |-> "open", closed |-> 0, revision |-> 0, picture |-> Open]]
        /\ claimed' = claimed \cup {i}
        /\ UNCHANGED <<game, issued, fused, tx>>

\* concluded: every row is updated, each once no transaction holds it; with
\* no row, ErrNotOpen rolls the claim back.
CloseAll ==
    LET i == [kind |-> "concluded", round |-> Limit]
    IN  /\ Unclaimed(i)
        /\ \E f \in Factions : row[f] # Absent
        /\ \A f \in Factions : Holding(f) = {}
        /\ row' = [f \in Factions |->
              IF row[f] = Absent THEN row[f]
              ELSE [row[f] EXCEPT !.status = "closed", !.closed = i.round]]
        /\ claimed' = claimed \cup {i}
        /\ UNCHANGED <<game, issued, fused, tx>>

\* Observe and Alert claim and lock the faction's row; without a row,
\* ErrNotOpen rolls the claim back.
Lock(r, i) ==
    /\ tx[r] = Idle
    /\ Unclaimed(i)
    /\ row[i.faction] # Absent
    /\ Holding(i.faction) = {}
    /\ tx' = [tx EXCEPT ![r] = [input |-> i, read |-> row[i.faction]]]
    /\ UNCHANGED <<game, row, issued, claimed, fused>>

\* n is past the round that a closed assessment's exercise concluded after.
PastEnd(a, n) == a.status = "closed" /\ n > a.closed

\* save records the picture and the revision; raising advances the revision.
Save(f, p, revision) ==
    row' = [row EXCEPT ![f].picture = p, ![f].revision = revision]
Raise(f, p, revision) ==
    issued' = [issued EXCEPT ![f] = Append(@, [revision |-> revision, picture |-> p])]

Commit(r) ==
    /\ claimed' = claimed \cup {tx[r].input}
    /\ tx' = [tx EXCEPT ![r] = Idle]
    /\ UNCHANGED game

Handling(r, kind) == tx[r] # Idle /\ tx[r].input.kind = kind

Observe(r) ==
    /\ Handling(r, "observed")
    /\ LET f == tx[r].input.faction
           n == tx[r].input.round
           a == tx[r].read
           p == Fuse(a.picture, f, n)
       IN  IF n <= a.picture.round \/ PastEnd(a, n)
             THEN UNCHANGED <<row, issued, fused>>
             ELSE /\ Save(f, p, a.revision + 1)
                  /\ Raise(f, p, a.revision + 1)
                  /\ fused' = [fused EXCEPT ![f] = @ \cup {n}]
    /\ Commit(r)

\* Mistake: an alert of the round the picture is of is left to its observation.
CoversLater(p, n) == p.round > n

\* The round's observation is in the picture, and will not carry the alert.
Covers(p, n) == p.round >= n

AlertLost(r) ==
    /\ Handling(r, "lost")
    /\ LET f == tx[r].input.faction
           n == tx[r].input.round
           a == tx[r].read
           p == Alert(a.picture, tx[r].input.at, n)
       IN  IF PastEnd(a, n) \/ p = a.picture
             THEN UNCHANGED <<row, issued>>
             ELSE IF Covers(a.picture, n)
                    THEN Save(f, p, a.revision + 1) /\ Raise(f, p, a.revision + 1)
                    ELSE Save(f, p, a.revision) /\ UNCHANGED issued
    /\ UNCHANGED fused
    /\ Commit(r)

\* The transaction fails and rolls back, its claim with it.
RollBack(r) ==
    /\ tx[r] # Idle
    /\ tx' = [tx EXCEPT ![r] = Idle]
    /\ UNCHANGED <<game, row, issued, claimed, fused>>

Next ==
    \/ OpenAll \/ CloseAll
    \/ \E r \in Replicas :
         \/ \E i \in Observations \cup Alerts : Lock(r, i)
         \/ Observe(r) \/ AlertLost(r) \/ RollBack(r)

Spec == Init /\ [][Next]_vars

-----------------------------------------------------------------------------
(* Properties.                                                             *)

\* The functions from some of S to T.
Partial(S, T) == UNION {[D -> T] : D \in SUBSET S}

Pictures ==
    [round : -1..Limit,
     contacts : Partial(Elements, [at : Cells, seen : Rounds]),
     objectives : Partial(Objectives, [holder : Factions \cup {Nobody}, seen : Rounds, age : Rounds]),
     explored : SUBSET Cells]

Assessments ==
    [status : {"open", "closed"}, closed : Rounds, revision : Nat, picture : Pictures]

\* The types: what is seen has an age, no sighting is of a cell off the map, and
\* what exercise raises and what is issued is what its consumers accept.
TypeOK ==
    /\ game \in Games
    /\ claimed \subseteq Inputs
    /\ \A i \in Alerts : AlertAccepted(i.round, game.holders[i.round][i.at], Nobody)
    /\ \A i \in Observations : ObserveAccepted(i.round)
    /\ CloseAccepted(Limit)
    /\ row \in [Factions -> {Absent} \cup Assessments]
    /\ issued \in [Factions -> Seq([revision : Nat, picture : Pictures])]
    /\ \A f \in Factions : \A i \in DOMAIN issued[f] :
          DecideAccepted(issued[f][i].picture.round, issued[f][i].revision)
    /\ fused \in [Factions -> SUBSET Rounds]
    /\ tx \in [Replicas -> {Idle} \cup [input : Observations \cup Alerts, read : Assessments]]

Picture(f) == row[f].picture
OpenFactions == {f \in Factions : row[f] # Absent}

\* The rounds in which f learned who holds c: those it fused and saw c in, and
\* those of the alerts it handled.
Learned(f, c) ==
    {n \in fused[f] : c \in ObjectivesSeen(f, n)}
        \cup {i.round : i \in {j \in claimed \cap Alerts : j.faction = f /\ j.at = c}}

\* In whatever order alerts and observations are handled, an objective is
\* listed as it was in the latest round that any of them told of: neither an
\* observation nor an alert ever sets it back.
ObjectivesNewest ==
    \A f \in OpenFactions :
        /\ DOMAIN Picture(f).objectives = {c \in Objectives : Learned(f, c) # {}}
        /\ \A c \in DOMAIN Picture(f).objectives :
              LET o == Picture(f).objectives[c]
              IN  /\ o.seen = Max(Learned(f, c))
                  /\ o.holder = game.holders[o.seen][c]

\* The rounds fused in which f saw e, and those after n.
Met(f, e) == {n \in fused[f] : e \in ContactsSeen(f, n)}
FusedSince(f, n) == {m \in fused[f] : m > n}

\* A contact is one last seen in a round K or less before each round fused
\* since, in a cell that none of them saw without it.
ContactsLast ==
    \A f \in OpenFactions :
        Picture(f).contacts =
            [e \in {d \in Elements : Met(f, d) # {} /\
                     LET n == Max(Met(f, d))
                     IN  \A m \in FusedSince(f, n) :
                            m - n <= K /\ game.at[n][d] \notin game.sees[m][f]}
                |-> [at |-> game.at[Max(Met(f, e))][e], seen |-> Max(Met(f, e))]]

\* Of the observations handled, the latest is in the picture: the last round's
\* too, when the conclusion was handled before it.
LatestFused ==
    \A i \in claimed \cap Observations :
        /\ Picture(i.faction).round >= i.round
        /\ Picture(i.faction).round \in fused[i.faction]

\* A picture is what the inputs handled so far tell, whatever their order.
PictureIsHistory == TypeOK /\ ObjectivesNewest /\ ContactsLast /\ LatestFused

\* Nothing that a picture says is kept from the consumers: unless an alert is
\* ahead of the round's observation, the last assessment issued is the picture,
\* under the revision that the row has; revisions are issued one by one, and
\* their rounds do not go back.
IssuedIsCurrent ==
    \A f \in OpenFactions :
        LET es == issued[f]
            ahead == \E c \in DOMAIN Picture(f).objectives :
                        Picture(f).objectives[c].seen > Picture(f).round
        IN  /\ row[f].revision = Len(es)
            /\ \A i \in DOMAIN es : es[i].revision = i
            /\ \A i \in 2..Len(es) : es[i].picture.round >= es[i - 1].picture.round
            /\ ~ahead => Picture(f) = IF es = <<>> THEN Open ELSE Last(es).picture
=============================================================================
