--------------------------- MODULE OperationsProof ---------------------------
(***************************************************************************)
(* Theorems about Command and Operations, for any elements, decisions,     *)
(* assessments and round limit, and whatever order the events come in.     *)
(***************************************************************************)
EXTENDS Operations, SequenceTheorems, TLAPS

USE LimitAssumption

-----------------------------------------------------------------------------
(* The inductive invariant.                                                *)

DecisionMaps == UNION {[S -> Decisions] : S \in SUBSET Elements}
StandingMaps == UNION {[S -> Decisions \ {Hold}] : S \in SUBSET Elements}
OwnMaps == {<<>>} \cup {Own[n] : n \in Rounds}

DirectionRows == [status : {"open", "closed"}, closed : Rounds, round : -1..Limit,
               revision : 0..Len(Assessed), sequence : 0..Len(Assessed), decisions : DecisionMaps]
DirectiveEvents == [round : Rounds, sequence : Nat, decisions : DecisionMaps]
OperationRows == [status : {"open", "closed"}, last : -1..Limit, seq : Nat, own : OwnMaps, standing : StandingMaps]
Goals == {"pursue"} \cup {c.target : c \in Decisions}
PlanMaps == UNION {[S -> Goals] : S \in SUBSET Elements}
OrderEvents == [round : 1..Limit, plan : PlanMaps]

\* The rows and the events are what the domains write.
Written ==
    /\ direction = Absent \/ direction \in DirectionRows
    /\ directives \in Seq(DirectiveEvents)
    /\ decided \subseteq Revisions
    /\ operation = Absent \/ operation \in OperationRows
    /\ orders \in Seq(OrderEvents)

\* What command keeps is its decision on the latest assessment handled.
DecidedOnLatest ==
    /\ direction = Absent => directives = <<>> /\ decided = {}
    /\ direction # Absent =>
         /\ direction.revision \in {0} \cup decided
         /\ \A i \in decided : i <= direction.revision
         /\ direction.closed \in {0, Limit}
         /\ direction.status = "closed" => direction.closed = Limit
         /\ direction.revision = 0 =>
              direction.round = -1 /\ direction.sequence = 0 /\ DOMAIN direction.decisions = {}
         /\ direction.revision > 0 =>
              /\ direction.round = Assessed[direction.revision]
              /\ DOMAIN direction.decisions = DOMAIN Own[direction.round]

\* The directives are numbered in order, each is on all the elements then
\* live, and the last one is what command has decided.
LastIsDecided ==
    /\ \A k \in DOMAIN directives :
         /\ directives[k].sequence = k
         /\ DOMAIN directives[k].decisions = DOMAIN Own[directives[k].round]
    /\ \A k \in 2..Len(directives) : directives[k].round >= directives[k - 1].round
    /\ direction # Absent =>
         /\ direction.sequence = Len(directives)
         /\ direction.sequence <= direction.revision
         /\ direction.sequence > 0 => directives[direction.sequence].round <= direction.round
         /\ \A e \in DOMAIN direction.decisions :
              direction.decisions[e] =
                IF direction.sequence = 0 THEN Hold ELSE directives[direction.sequence].decisions[e]

\* What stands is what the last directive applied decided, but for the dead.
StandingIsDirected ==
    operation # Absent =>
        /\ operation.seq \in 0..Len(directives)
        /\ operation.own = IF operation.last = -1 THEN <<>> ELSE Own[operation.last]
        /\ operation.seq = 0 => DOMAIN operation.standing = {}
        /\ operation.seq > 0 =>
             \A e \in DOMAIN directives[operation.seq].decisions :
                 \/ DecisionIn(operation.standing, e) = directives[operation.seq].decisions[e]
                 \/ operation.last # -1 /\ e \notin DOMAIN operation.own

\* What has been handled exists.
Handled ==
    /\ assigned \subseteq DOMAIN directives
    /\ maneuvered \subseteq 0..round
    /\ round \in Rounds
    /\ recorded \in [1..Limit -> 0..Len(orders)]
    /\ received \subseteq DOMAIN orders

IInv == Written /\ DecidedOnLatest /\ LastIsDecided /\ StandingIsDirected /\ Handled /\ OrdersAreThePlan

-----------------------------------------------------------------------------
(* Lemmas about the operators.                                             *)

\* A row that is there is not Absent, and the other way round.
LEMMA RowsAreThere ==
    ASSUME Written
    PROVE  /\ direction # Absent => direction \in DirectionRows
           /\ operation # Absent => operation \in OperationRows
           /\ \A d \in DirectionRows : d # Absent
           /\ \A o \in OperationRows : o # Absent
<1>1. \A d \in DirectionRows : d.status # "absent"
  BY DEF DirectionRows
<1>2. \A o \in OperationRows : o.status # "absent"
  BY DEF OperationRows
<1>3. Absent.status = "absent"
  BY DEF Absent
<1> QED
  BY <1>1, <1>2, <1>3 DEF Written

LEMMA MaxIs ==
    ASSUME NEW S \in SUBSET Int, NEW m \in S, \A x \in S : x <= m
    PROVE  Max(S) = m
<1>1. \A x \in S : (\A y \in S : x >= y) => x = m
  OBVIOUS
<1>2. \E x \in S : \A y \in S : x >= y
  OBVIOUS
<1> QED
  BY <1>1, <1>2 DEF Max

LEMMA MapsAre ==
    /\ \A S \in SUBSET Elements : [S -> Decisions] \subseteq DecisionMaps
    /\ \A S \in SUBSET Elements : [S -> Decisions \ {Hold}] \subseteq StandingMaps
    /\ \A f \in DecisionMaps : f \in [DOMAIN f -> Decisions] /\ DOMAIN f \subseteq Elements
    /\ \A f \in StandingMaps : f \in [DOMAIN f -> Decisions \ {Hold}] /\ DOMAIN f \subseteq Elements
BY DEF DecisionMaps, StandingMaps

\* Nothing is decided, stands or is known before the first event.
LEMMA NothingYet ==
    DOMAIN <<>> = {} /\ <<>> \in DecisionMaps /\ <<>> \in StandingMaps /\ <<>> \in OwnMaps
<1>1. DOMAIN <<>> = {} /\ <<>> = [x \in {} |-> Hold]
  OBVIOUS
<1>2. <<>> \in [{} -> Decisions] /\ <<>> \in [{} -> Decisions \ {Hold}]
  BY <1>1
<1> QED
  BY <1>1, <1>2, MapsAre DEF OwnMaps

\* The rounds that assessments are of.
LEMMA RevisionsAre ==
    /\ Len(Assessed) \in Nat /\ Revisions = 1..Len(Assessed)
    /\ \A i \in Revisions : Assessed[i] \in Rounds
    /\ \A i \in Revisions : \A j \in 1..i : Assessed[j] <= Assessed[i]
BY AssessedAssumption DEF Revisions

\* What is live at a round.
LEMMA LiveAre ==
    ASSUME NEW n \in Rounds
    PROVE  /\ DOMAIN Own[n] \subseteq Elements
           /\ \A m \in Rounds : m <= n => DOMAIN Own[n] \subseteq DOMAIN Own[m]
BY OwnAssumption DEF Rounds

-----------------------------------------------------------------------------
(* Command.                                                                *)

CommandInv ==
    /\ direction = Absent \/ direction \in DirectionRows
    /\ directives \in Seq(DirectiveEvents)
    /\ decided \subseteq Revisions
    /\ DecidedOnLatest /\ LastIsDecided

LEMMA InvIsCommand == IInv => CommandInv
BY DEF IInv, Written, CommandInv

LEMMA OpenDirectionInv == CommandInv /\ OpenDirection => CommandInv'
<1> SUFFICES ASSUME CommandInv, OpenDirection PROVE CommandInv'
  OBVIOUS
<1>1. direction' \in DirectionRows /\ DOMAIN direction'.decisions = {}
  BY NothingYet, RevisionsAre DEF OpenDirection, DirectionRows, Rounds
<1>2. direction' # Absent
  BY <1>1 DEF DirectionRows, Absent
<1>3. direction.status # "open" /\ directives = <<>> /\ decided = {}
  BY DEF OpenDirection, CommandInv, DecidedOnLatest, Absent
<1>4. DecidedOnLatest'
  BY <1>1, <1>2, <1>3 DEF OpenDirection, DecidedOnLatest
<1>5. LastIsDecided'
  BY <1>1, <1>2, <1>3 DEF OpenDirection, LastIsDecided
<1> QED
  BY <1>1, <1>4, <1>5 DEF CommandInv, OpenDirection

LEMMA CloseDirectionInv == CommandInv /\ CloseDirection => CommandInv'
<1> SUFFICES ASSUME CommandInv, CloseDirection PROVE CommandInv'
  OBVIOUS
<1>1. direction # Absent /\ direction \in DirectionRows
  BY DEF CloseDirection, CommandInv, Absent
<1>2. /\ direction' \in DirectionRows
      /\ direction'.status = "closed" /\ direction'.closed = Limit
      /\ direction'.round = direction.round /\ direction'.revision = direction.revision
      /\ direction'.sequence = direction.sequence /\ direction'.decisions = direction.decisions
  <2>1. Limit \in Rounds
    BY DEF Rounds
  <2>2. direction' = [direction EXCEPT !.status = "closed", !.closed = Limit]
    BY DEF CloseDirection
  <2> QED
    BY <1>1, <2>1, <2>2 DEF DirectionRows
<1>3. direction' # Absent
  BY <1>2 DEF DirectionRows, Absent
<1>4. DecidedOnLatest'
  BY <1>1, <1>2, <1>3 DEF CloseDirection, CommandInv, DecidedOnLatest
<1>5. LastIsDecided'
  BY <1>1, <1>2, <1>3 DEF CloseDirection, CommandInv, LastIsDecided
<1> QED
  BY <1>2, <1>4, <1>5 DEF CommandInv, CloseDirection

\* An assessment older than the last is claimed, and changes nothing else.
LEMMA DecideLate ==
    ASSUME CommandInv, NEW i \in Revisions, Decide(i), i <= direction.revision
    PROVE  CommandInv'
<1>1. direction # Absent /\ decided' = decided \cup {i} /\ UNCHANGED <<direction, directives>>
  BY DEF Decide
<1>2. DecidedOnLatest'
  BY <1>1 DEF CommandInv, DecidedOnLatest
<1>3. LastIsDecided'
  BY <1>1 DEF CommandInv, LastIsDecided
<1> QED
  BY <1>1, <1>2, <1>3 DEF CommandInv

\* The latest assessment is decided on, also once the direction is closed: no
\* assessment is of a round past the limit.
LEMMA DecideLatest ==
    ASSUME CommandInv, NEW i \in Revisions, Decide(i), ~(i <= direction.revision)
    PROVE  CommandInv'
<1> DEFINE d == direction
           n == Assessed[i]
<1>1. d # Absent /\ d \in DirectionRows /\ i \in Nat /\ n \in Rounds /\ decided' = decided \cup {i}
  <2>1. i \in Nat /\ n \in Rounds
    BY RevisionsAre
  <2>2. d # Absent /\ decided' = decided \cup {i}
    BY DEF Decide
  <2> QED
    BY <2>1, <2>2 DEF CommandInv
<1>2. /\ d.revision \in 0..Len(Assessed) /\ d.sequence \in 0..Len(Assessed) /\ d.decisions \in DecisionMaps
      /\ d.round \in -1..Limit /\ d.closed \in Rounds /\ d.status \in {"open", "closed"}
  BY <1>1 DEF DirectionRows
<1>3. ~PastEnd(d, n)
  BY <1>1, <1>2 DEF PastEnd, CommandInv, DecidedOnLatest, Rounds
<1>4. PICK next \in [DOMAIN Own[n] -> Decisions] :
        LET new == Redirects(d.decisions, next)
            seq == IF new THEN d.sequence + 1 ELSE d.sequence
        IN  /\ direction' = [d EXCEPT !.round = n, !.revision = i, !.sequence = seq, !.decisions = next]
            /\ directives' = IF new
                 THEN Append(directives, [round |-> n, sequence |-> seq, decisions |-> next])
                 ELSE directives
  BY <1>3 DEF Decide
<1> DEFINE new == Redirects(d.decisions, next)
           seq == IF new THEN d.sequence + 1 ELSE d.sequence
<1>5. next \in DecisionMaps /\ DOMAIN next = DOMAIN Own[n]
  BY <1>1, LiveAre, MapsAre
<1>6. /\ directives \in Seq(DirectiveEvents) /\ Len(directives) \in Nat
      /\ DOMAIN directives = 1..Len(directives)
      /\ d.sequence = Len(directives) /\ d.sequence <= d.revision
  BY <1>1 DEF CommandInv, LastIsDecided
<1>7. seq \in 0..Len(Assessed) /\ seq <= i /\ i \in 0..Len(Assessed)
  BY <1>1, <1>2, <1>6, RevisionsAre
<1>8. /\ direction'.status = d.status /\ direction'.closed = d.closed /\ direction'.round = n
      /\ direction'.revision = i /\ direction'.sequence = seq /\ direction'.decisions = next
      /\ direction' \in DirectionRows
  <2>1. n \in -1..Limit
    BY <1>1 DEF Rounds
  <2>2. direction' = [d EXCEPT !.round = n, !.revision = i, !.sequence = seq, !.decisions = next]
    BY <1>4
  <2> HIDE DEF n, seq
  <2> QED
    BY <1>1, <1>5, <1>7, <2>1, <2>2 DEF DirectionRows
<1>9. direction' # Absent
  BY <1>8 DEF DirectionRows, Absent
<1>10. d.round <= n /\ (d.revision > 0 => DOMAIN next \subseteq DOMAIN d.decisions)
  <2>1. CASE d.revision = 0
    BY <1>1, <1>2, <2>1 DEF CommandInv, DecidedOnLatest, Rounds
  <2>2. CASE d.revision > 0
    <3>1. d.revision \in Revisions /\ d.revision \in 1..i /\ d.round = Assessed[d.revision]
      BY <1>1, <1>2, <2>2, RevisionsAre DEF CommandInv, DecidedOnLatest
    <3>2. d.round <= n /\ d.round \in Rounds
      BY <3>1, RevisionsAre DEF Revisions
    <3> QED
      BY <1>1, <1>5, <2>2, <3>2, LiveAre DEF CommandInv, DecidedOnLatest
  <2> QED
    BY <1>2, <2>1, <2>2
<1>11. DecidedOnLatest'
  <2>1. \A j \in decided' : j <= i
    <3>1. \A j \in decided : j \in Nat /\ j <= d.revision
      BY <1>1, RevisionsAre DEF CommandInv, DecidedOnLatest
    <3> QED
      BY <1>1, <1>2, <3>1
  <2>2. i > 0
    BY RevisionsAre
  <2> QED
    BY <1>1, <1>5, <1>8, <1>9, <2>1, <2>2 DEF CommandInv, DecidedOnLatest
<1>12. LastIsDecided' /\ directives' \in Seq(DirectiveEvents)
  <2>1. CASE new
    <3> DEFINE e == [round |-> n, sequence |-> seq, decisions |-> next]
    <3>1. e \in DirectiveEvents /\ seq = Len(directives) + 1
      BY <1>1, <1>5, <1>6, <2>1 DEF DirectiveEvents
    <3>2. directives' = Append(directives, e)
      BY <1>4, <2>1
    <3>3. /\ directives' \in Seq(DirectiveEvents) /\ Len(directives') = seq
          /\ DOMAIN directives' = 1..seq
          /\ \A k \in 1..Len(directives) : directives'[k] = directives[k]
          /\ directives'[seq] = e
      BY <1>6, <3>1, <3>2
    <3>4. /\ e.sequence = seq /\ DOMAIN e.decisions = DOMAIN Own[e.round] /\ e.round = n
          /\ e.decisions = next
      BY <1>5
    <3> HIDE DEF e, seq, n
    <3>5. \A k \in DOMAIN directives' :
            directives'[k].sequence = k /\ DOMAIN directives'[k].decisions = DOMAIN Own[directives'[k].round]
      BY <1>6, <3>1, <3>3, <3>4 DEF CommandInv, LastIsDecided
    <3>6. \A k \in 2..Len(directives') : directives'[k].round >= directives'[k - 1].round
      <4> SUFFICES ASSUME NEW k \in 2..seq PROVE directives'[k].round >= directives'[k - 1].round
        BY <3>3
      <4>1. CASE k < seq
        <5>1. k \in 2..Len(directives) /\ k \in 1..Len(directives) /\ k - 1 \in 1..Len(directives)
          BY <1>6, <3>1, <4>1
        <5> QED
          BY <3>3, <5>1 DEF CommandInv, LastIsDecided
      <4>2. CASE k = seq
        <5>1. k - 1 = Len(directives) /\ k - 1 \in 1..Len(directives)
          BY <1>6, <3>1, <4>2
        <5>2. directives[k - 1].round <= d.round
          BY <1>1, <1>6, <5>1 DEF CommandInv, LastIsDecided
        <5>3. directives[k - 1] \in DirectiveEvents
          BY <1>6, <5>1
        <5>4. directives[k - 1].round \in Rounds
          BY <5>3 DEF DirectiveEvents
        <5>5. directives'[k] = e /\ directives'[k - 1] = directives[k - 1]
          BY <3>3, <4>2, <5>1
        <5>6. e.round = n /\ n \in Int /\ d.round \in Int /\ directives[k - 1].round \in Int
          BY <1>1, <1>2, <3>4, <5>4 DEF Rounds
        <5> QED
          BY <1>10, <5>2, <5>5, <5>6
      <4> QED
        BY <4>1, <4>2, <1>6, <3>1
    <3>7. n <= n
      BY <1>1 DEF Rounds
    <3> QED
      BY <1>6, <1>7, <1>8, <3>1, <3>3, <3>4, <3>5, <3>6, <3>7 DEF LastIsDecided
  <2>2. CASE ~new
    <3>1. directives' = directives /\ seq = d.sequence
      BY <1>4, <2>2
    <3>2. \A e \in DOMAIN next : next[e] = DecisionIn(d.decisions, e)
      BY <2>2 DEF Redirects
    <3> HIDE DEF seq, n
    <3>3. \A e \in DOMAIN next :
            next[e] = IF seq = 0 THEN Hold ELSE directives[seq].decisions[e]
      <4>1. CASE d.revision = 0
        BY <1>1, <1>2, <3>1, <3>2, <4>1 DEF CommandInv, DecidedOnLatest, DecisionIn
      <4>2. CASE d.revision > 0
        BY <1>1, <1>10, <3>1, <3>2, <4>2 DEF CommandInv, LastIsDecided, DecisionIn
      <4> QED
        BY <1>2, <4>1, <4>2
    <3>4. seq > 0 => directives[seq].round <= n
      <4>1. seq > 0 => directives[seq] \in DirectiveEvents /\ directives[seq].round <= d.round
        BY <1>1, <1>6, <3>1 DEF CommandInv, LastIsDecided
      <4> QED
        BY <1>1, <1>2, <1>10, <4>1 DEF Rounds, DirectiveEvents
    <3> QED
      BY <1>6, <1>7, <1>8, <3>1, <3>3, <3>4 DEF CommandInv, LastIsDecided
  <2> QED
    BY <2>1, <2>2
<1>13. decided' \subseteq Revisions
  BY <1>1 DEF CommandInv
<1> QED
  BY <1>8, <1>11, <1>12, <1>13 DEF CommandInv

LEMMA CommandStepInv == CommandInv /\ [CommandStep]_command => CommandInv'
<1> SUFFICES ASSUME CommandInv, [CommandStep]_command PROVE CommandInv'
  OBVIOUS
<1>1. CASE UNCHANGED command
  BY <1>1 DEF command, CommandInv, DecidedOnLatest, LastIsDecided
<1> QED
  BY <1>1, OpenDirectionInv, CloseDirectionInv, DecideLate, DecideLatest DEF CommandStep

\* What command's steps keep is what LatestDecided says.
LEMMA CommandImplies == CommandInv => LatestDecided
<1> SUFFICES ASSUME CommandInv, direction # Absent PROVE LatestDecided
  BY DEF LatestDecided
<1>1. {0} \cup decided \in SUBSET Int /\ direction.revision \in {0} \cup decided
  BY RevisionsAre DEF CommandInv, DecidedOnLatest
<1>2. \A i \in {0} \cup decided : i <= direction.revision
  BY <1>1, RevisionsAre DEF CommandInv, DecidedOnLatest, DirectionRows
<1>3. direction.revision = Max({0} \cup decided)
  BY <1>1, <1>2, MaxIs
<1> QED
  BY <1>3 DEF CommandInv, LastIsDecided, LatestDecided

-----------------------------------------------------------------------------
(* Operations.                                                             *)

\* A plan gives some of the elements a goal.
LEMMA PlanType ==
    ASSUME NEW own, NEW standing \in StandingMaps
    PROVE  Plan(own, standing) \in PlanMaps
<1> DEFINE goal == [e \in DOMAIN own \cap DOMAIN standing |-> Goal(own[e], standing[e])]
           ordered == {e \in DOMAIN goal : goal[e] # None}
<1>1. DOMAIN standing \subseteq Elements /\ \A e \in DOMAIN standing : standing[e] \in Decisions
  BY MapsAre
<1>2. \A e \in DOMAIN goal : goal[e] = Goal(own[e], standing[e]) /\ standing[e] \in Decisions
  BY <1>1
<1>3. ASSUME NEW e \in DOMAIN goal PROVE goal[e] = None \/ goal[e] \in Goals
  <2>1. standing[e].target \in Goals
    BY <1>2 DEF Goals
  <2> QED
    BY <1>2, <2>1 DEF Goal, Goals
<1>4. ordered \in SUBSET Elements /\ \A e \in ordered : goal[e] \in Goals
  BY <1>1, <1>3
<1> HIDE DEF goal
<1>5. Restrict(goal, ordered) \in [ordered -> Goals]
  BY <1>4 DEF Restrict
<1>6. Plan(own, standing) = Restrict(goal, ordered)
  BY DEF Plan, goal
<1> QED
  BY <1>4, <1>5, <1>6 DEF PlanMaps

\* Orders are issued for a round that exercise has, and then they are the last.
LEMMA IssuedIsLast ==
    ASSUME NEW s \in Seq(OrderEvents), NEW n \in Rounds, NEW plan \in PlanMaps
    PROVE  /\ s \o Issued(n, plan) \in Seq(OrderEvents)
           /\ Len(s) <= Len(s \o Issued(n, plan))
           /\ n < Limit =>
                /\ s \o Issued(n, plan) # <<>>
                /\ Last(s \o Issued(n, plan)) = [round |-> n + 1, plan |-> plan]
<1> DEFINE o == [round |-> n + 1, plan |-> plan]
<1>0. n \in Nat /\ n <= Limit
  BY DEF Rounds
<1>1. CASE n + 1 > Limit
  <2>1. s \o Issued(n, plan) = s
    BY <1>1, ConcatEmptySeq DEF Issued
  <2> QED
    BY <1>0, <1>1, <2>1
<1>2. CASE n < Limit
  <2>1. o \in OrderEvents
    BY <1>0, <1>2 DEF OrderEvents
  <2>2. Issued(n, plan) = <<o>> /\ <<o>> \in Seq(OrderEvents)
    BY <1>0, <1>2, <2>1 DEF Issued
  <2> HIDE DEF o
  <2>3. /\ s \o <<o>> \in Seq(OrderEvents) /\ Len(s \o <<o>>) = Len(s) + 1
        /\ (s \o <<o>>)[Len(s) + 1] = o /\ Len(s) \in Nat
    BY <2>1
  <2>4. s \o <<o>> # <<>> /\ Last(s \o <<o>>) = o
    BY <2>3 DEF Last
  <2> QED
    BY <2>2, <2>3, <2>4 DEF o
<1> QED
  BY <1>0, <1>1, <1>2

\* After a directive, what stands is what it decided; and no element it did
\* not name stands otherwise than before.
LEMMA DirectedStands ==
    ASSUME NEW standing \in StandingMaps, NEW decisions \in DecisionMaps
    PROVE  /\ Directed(standing, decisions) \in StandingMaps
           /\ \A e \in DOMAIN decisions : DecisionIn(Directed(standing, decisions), e) = decisions[e]
<1> DEFINE named == {d \in DOMAIN standing \cup DOMAIN decisions : d \in DOMAIN decisions => decisions[d] # Hold}
           f == [e \in named |-> IF e \in DOMAIN decisions THEN decisions[e] ELSE standing[e]]
<1>1. /\ DOMAIN standing \cup DOMAIN decisions \subseteq Elements
      /\ \A e \in DOMAIN standing : standing[e] \in Decisions \ {Hold}
      /\ \A e \in DOMAIN decisions : decisions[e] \in Decisions
  BY MapsAre
<1>2. named \in SUBSET Elements /\ f \in [named -> Decisions \ {Hold}]
  BY <1>1
<1>3. f \in StandingMaps
  BY <1>2, MapsAre
<1>4. \A e \in DOMAIN decisions : DecisionIn(f, e) = decisions[e]
  BY DEF DecisionIn
<1> QED
  BY <1>3, <1>4 DEF Directed

\* The dead stand no more, and the living as before.
LEMMA RestrictStands ==
    ASSUME NEW standing \in StandingMaps, NEW S
    PROVE  /\ Restrict(standing, DOMAIN standing \cap S) \in StandingMaps
           /\ DOMAIN Restrict(standing, DOMAIN standing \cap S) \subseteq DOMAIN standing
           /\ \A e \in S : DecisionIn(Restrict(standing, DOMAIN standing \cap S), e) = DecisionIn(standing, e)
<1> DEFINE T == DOMAIN standing \cap S
<1>1. T \in SUBSET Elements /\ Restrict(standing, T) \in [T -> Decisions \ {Hold}]
  BY MapsAre DEF Restrict
<1> QED
  BY <1>1, MapsAre DEF Restrict, DecisionIn

OperationsInv ==
    /\ operation = Absent \/ operation \in OperationRows
    /\ orders \in Seq(OrderEvents)
    /\ StandingIsDirected /\ OrdersAreThePlan

\* What operations' steps use of the directives.
DirectivesKnown ==
    /\ directives \in Seq(DirectiveEvents)
    /\ \A k \in DOMAIN directives :
         /\ directives[k].sequence = k
         /\ DOMAIN directives[k].decisions = DOMAIN Own[directives[k].round]

LEMMA InvIsOperations == IInv => OperationsInv /\ DirectivesKnown
BY DEF IInv, Written, OperationsInv, DirectivesKnown, LastIsDecided

LEMMA OperationFields ==
    ASSUME OperationsInv, operation # Absent
    PROVE  /\ operation \in OperationRows
           /\ operation.status \in {"open", "closed"} /\ operation.last \in -1..Limit
           /\ operation.seq \in Nat /\ operation.own \in OwnMaps /\ operation.standing \in StandingMaps
BY DEF OperationsInv, OperationRows

\* Raising more directives leaves those that operations has applied.
LEMMA DirectivesGrow ==
    ASSUME CommandInv, [CommandStep]_command
    PROVE  /\ Len(directives) <= Len(directives')
           /\ \A k \in DOMAIN directives : k \in DOMAIN directives' /\ directives'[k] = directives[k]
<1>1. directives \in Seq(DirectiveEvents) /\ directives' \in Seq(DirectiveEvents)
  BY CommandStepInv DEF CommandInv
<1>2. CASE directives' = directives
  BY <1>1, <1>2
<1>3. CASE \E e : directives' = Append(directives, e)
  BY <1>1, <1>3
<1>4. ASSUME NEW i \in Revisions, Decide(i)
      PROVE  directives' = directives \/ \E e : directives' = Append(directives, e)
  BY <1>4 DEF Decide
<1> QED
  BY <1>2, <1>3, <1>4 DEF CommandStep, OpenDirection, CloseDirection, command

LEMMA CommandKeepsOperations ==
    ASSUME CommandInv, OperationsInv, [CommandStep]_command, UNCHANGED operations
    PROVE  OperationsInv'
<1>1. /\ directives \in Seq(DirectiveEvents) /\ directives' \in Seq(DirectiveEvents)
      /\ Len(directives) <= Len(directives')
      /\ \A k \in DOMAIN directives : k \in DOMAIN directives' /\ directives'[k] = directives[k]
  BY CommandStepInv, DirectivesGrow DEF CommandInv
<1>2. operation' = operation /\ orders' = orders /\ offbeat' = offbeat
  BY DEF operations
<1>3. StandingIsDirected'
  <2> SUFFICES ASSUME operation # Absent PROVE StandingIsDirected'
    BY <1>2 DEF StandingIsDirected
  <2>1. operation.seq \in 0..Len(directives)
    BY DEF OperationsInv, StandingIsDirected
  <2>2. operation.seq \in 0..Len(directives')
    BY <1>1, <2>1
  <2>3. operation.seq > 0 => directives'[operation.seq] = directives[operation.seq]
    BY <1>1, <2>1
  <2> QED
    BY <1>2, <2>2, <2>3 DEF OperationsInv, StandingIsDirected
<1> QED
  BY <1>2, <1>3 DEF OperationsInv, OrdersAreThePlan

LEMMA OpenOperationInv == OperationsInv /\ DirectivesKnown /\ OpenOperation /\ UNCHANGED command => OperationsInv'
<1> SUFFICES ASSUME OperationsInv, DirectivesKnown, OpenOperation, UNCHANGED command PROVE OperationsInv'
  OBVIOUS
<1>1. /\ operation' \in OperationRows /\ operation'.seq = 0 /\ operation'.last = -1
      /\ operation'.own = <<>> /\ operation'.standing = <<>>
  BY NothingYet DEF OpenOperation, OperationRows
<1>2. Len(directives') \in Nat
  BY DEF DirectivesKnown, command
<1>3. StandingIsDirected'
  BY <1>1, <1>2, NothingYet DEF StandingIsDirected
<1> QED
  BY <1>1, <1>3 DEF OperationsInv, OpenOperation, OrdersAreThePlan

LEMMA CloseOperationInv == OperationsInv /\ CloseOperation /\ UNCHANGED command => OperationsInv'
<1> SUFFICES ASSUME OperationsInv, CloseOperation, UNCHANGED command PROVE OperationsInv'
  OBVIOUS
<1>1. operation # Absent
  BY DEF CloseOperation, Absent
<1>2. /\ operation' \in OperationRows /\ operation'.seq = operation.seq /\ operation'.last = operation.last
      /\ operation'.own = operation.own /\ operation'.standing = operation.standing
  BY <1>1, OperationFields DEF CloseOperation, OperationRows
<1>3. orders' = orders /\ offbeat' = offbeat /\ directives' = directives
  BY DEF CloseOperation, command
<1>4. StandingIsDirected'
  BY <1>1, <1>2, <1>3 DEF OperationsInv, StandingIsDirected
<1>5. OrdersAreThePlan'
  BY <1>1, <1>2, <1>3 DEF OperationsInv, OrdersAreThePlan
<1> QED
  BY <1>2, <1>3, <1>4, <1>5 DEF OperationsInv

LEMMA AssignInv ==
    ASSUME OperationsInv, DirectivesKnown, UNCHANGED command, NEW k \in DOMAIN directives, Assign(k)
    PROVE  OperationsInv'
<1> DEFINE op == operation
           d == directives[k]
           standing == Directed(op.standing, d.decisions)
<1>1. /\ op \in OperationRows /\ op # Absent /\ op.last \in -1..Limit /\ op.seq \in Nat
      /\ op.standing \in StandingMaps
  BY OperationFields DEF Assign
<1>2. directives' = directives
  BY DEF command
<1>3. /\ d \in DirectiveEvents /\ d.decisions \in DecisionMaps /\ d.round \in Rounds
      /\ d.sequence = k /\ k \in 1..Len(directives) /\ Len(directives) \in Nat
      /\ DOMAIN d.decisions = DOMAIN Own[d.round]
  <2>1. k \in 1..Len(directives) /\ Len(directives) \in Nat /\ d \in DirectiveEvents
    BY DEF DirectivesKnown
  <2> QED
    BY <2>1 DEF DirectivesKnown, DirectiveEvents
<1>4. CASE op.status = "closed" \/ d.sequence <= op.seq
  <2>1. UNCHANGED <<operation, orders, offbeat>>
    BY <1>4 DEF Assign
  <2> QED
    BY <1>2, <2>1 DEF OperationsInv, StandingIsDirected, OrdersAreThePlan
<1>5. CASE ~(op.status = "closed" \/ d.sequence <= op.seq)
  <2>1. /\ operation' = [op EXCEPT !.seq = d.sequence, !.standing = standing]
        /\ orders' = orders \o IF Reissues(op, d, standing)
                                 THEN Issued(op.last, Plan(op.own, standing)) ELSE <<>>
        /\ offbeat' = (offbeat \/
              (d.round # op.last /\ Plan(op.own, standing) # Plan(op.own, op.standing)))
    BY <1>5 DEF Assign
  <2>2. /\ standing \in StandingMaps
        /\ \A e \in DOMAIN d.decisions : DecisionIn(standing, e) = d.decisions[e]
    BY <1>1, <1>3, DirectedStands
  <2> HIDE DEF standing, d
  <2>3. /\ operation' \in OperationRows /\ operation'.last = op.last /\ operation'.own = op.own
        /\ operation'.seq = k /\ operation'.standing = standing
    <3>1. operation' = [op EXCEPT !.seq = k, !.standing = standing] /\ k \in Nat
      BY <1>3, <2>1
    <3> QED
      BY <1>1, <2>2, <3>1 DEF OperationRows
  <2>4. StandingIsDirected'
    BY <1>1, <1>2, <1>3, <2>2, <2>3 DEF OperationsInv, StandingIsDirected, d
  <2>5. CASE Reissues(op, d, standing)
    <3>1. op.last \in Rounds /\ orders' = orders \o Issued(op.last, Plan(op.own, standing))
      BY <1>3, <2>1, <2>5 DEF Reissues
    <3>2. Plan(op.own, standing) \in PlanMaps
      BY <2>2, PlanType
    <3>3. /\ orders' \in Seq(OrderEvents)
          /\ op.last < Limit =>
                orders' # <<>> /\ Last(orders') = [round |-> op.last + 1, plan |-> Plan(op.own, standing)]
      BY <3>1, <3>2, IssuedIsLast DEF OperationsInv
    <3>4. OrdersAreThePlan'
      BY <2>3, <3>3 DEF OrdersAreThePlan
    <3> QED
      BY <2>3, <2>4, <3>3, <3>4 DEF OperationsInv
  <2>6. CASE ~Reissues(op, d, standing)
    <3>1. orders' = orders /\ orders \in Seq(OrderEvents)
      BY <2>1, <2>6, ConcatEmptySeq DEF OperationsInv
    <3>2. ~offbeat' => ~offbeat /\ Plan(op.own, standing) = Plan(op.own, op.standing)
      BY <2>1, <2>6 DEF Reissues
    <3>3. OrdersAreThePlan'
      BY <1>1, <2>3, <3>1, <3>2 DEF OperationsInv, OrdersAreThePlan
    <3> QED
      BY <2>3, <2>4, <3>1, <3>3 DEF OperationsInv
  <2> QED
    BY <2>5, <2>6
<1> QED
  BY <1>4, <1>5

LEMMA ManeuverInv ==
    ASSUME OperationsInv, DirectivesKnown, UNCHANGED command, NEW n \in Rounds, Maneuver(n)
    PROVE  OperationsInv'
<1> DEFINE op == operation
           standing == Restrict(op.standing, DOMAIN op.standing \cap DOMAIN Own[n])
<1>1. /\ op \in OperationRows /\ op # Absent /\ op.last \in -1..Limit /\ op.seq \in Nat
      /\ op.standing \in StandingMaps
  BY OperationFields DEF Maneuver
<1>2. directives' = directives
  BY DEF command
<1>3. CASE op.status = "closed" \/ n <= op.last
  <2>1. UNCHANGED <<operation, orders, offbeat>>
    BY <1>3 DEF Maneuver
  <2> QED
    BY <1>2, <2>1 DEF OperationsInv, StandingIsDirected, OrdersAreThePlan
<1>4. CASE ~(op.status = "closed" \/ n <= op.last)
  <2>1. /\ operation' = [op EXCEPT !.last = n, !.own = Own[n], !.standing = standing]
        /\ orders' = orders \o Issued(n, Plan(Own[n], standing))
    BY <1>4 DEF Maneuver
  <2>2. /\ standing \in StandingMaps /\ DOMAIN standing \subseteq DOMAIN op.standing
        /\ \A e \in DOMAIN Own[n] : DecisionIn(standing, e) = DecisionIn(op.standing, e)
    BY <1>1, RestrictStands
  <2> HIDE DEF standing
  <2>3. Own[n] \in OwnMaps /\ n \in -1..Limit /\ n \in Nat
    BY DEF OwnMaps, Rounds
  <2>4. /\ operation' \in OperationRows /\ operation'.last = n /\ operation'.own = Own[n]
        /\ operation'.seq = op.seq /\ operation'.standing = standing
    BY <1>1, <2>1, <2>2, <2>3 DEF OperationRows
  <2>5. StandingIsDirected'
    <3>1. op.seq \in 0..Len(directives) /\ (op.seq = 0 => DOMAIN standing = {})
      BY <1>1, <2>2 DEF OperationsInv, StandingIsDirected
    <3>2. ASSUME op.seq > 0, NEW e \in DOMAIN directives[op.seq].decisions, e \in DOMAIN Own[n]
          PROVE  DecisionIn(standing, e) = directives[op.seq].decisions[e]
      <4>1. op.last # -1 => e \in DOMAIN op.own
        <5>1. op.last # -1 => op.last \in Rounds /\ op.last <= n /\ op.own = Own[op.last]
          BY <1>1, <1>4, <2>3 DEF OperationsInv, StandingIsDirected, Rounds
        <5> QED
          BY <3>2, <5>1, LiveAre
      <4>2. DecisionIn(op.standing, e) = directives[op.seq].decisions[e]
        BY <1>1, <3>2, <4>1 DEF OperationsInv, StandingIsDirected
      <4> QED
        BY <2>2, <3>2, <4>2
    <3> QED
      BY <1>2, <2>3, <2>4, <3>1, <3>2 DEF StandingIsDirected
  <2>6. Plan(Own[n], standing) \in PlanMaps
    BY <2>2, PlanType
  <2>7. /\ orders' \in Seq(OrderEvents)
        /\ n < Limit =>
              orders' # <<>> /\ Last(orders') = [round |-> n + 1, plan |-> Plan(Own[n], standing)]
    BY <2>1, <2>6, IssuedIsLast DEF OperationsInv
  <2>8. OrdersAreThePlan'
    BY <2>4, <2>7 DEF OrdersAreThePlan
  <2> QED
    BY <2>4, <2>5, <2>7, <2>8 DEF OperationsInv
<1> QED
  BY <1>3, <1>4

-----------------------------------------------------------------------------
(* Every step, and the theorems.                                           *)

\* The invariant is that of its two domains and of what they have handled.
LEMMA InvIs ==
    /\ IInv <=> CommandInv /\ OperationsInv /\ Handled
    /\ IInv' <=> CommandInv' /\ OperationsInv' /\ Handled'
BY DEF IInv, Written, CommandInv, OperationsInv

LEMMA InitInv == Init => IInv
<1> SUFFICES ASSUME Init PROVE IInv
  OBVIOUS
<1>1. /\ direction = Absent /\ operation = Absent /\ directives = <<>> /\ orders = <<>>
      /\ decided = {} /\ assigned = {} /\ maneuvered = {} /\ round = 0
      /\ recorded = [n \in 1..Limit |-> 0] /\ received = {}
  BY DEF Init, CommandInit
<1>2. CommandInv
  BY <1>1 DEF CommandInv, DecidedOnLatest, LastIsDecided
<1>3. OperationsInv
  BY <1>1 DEF OperationsInv, StandingIsDirected, OrdersAreThePlan
<1>4. Handled
  BY <1>1 DEF Handled, Rounds
<1> QED
  BY <1>2, <1>3, <1>4, InvIs

\* The outbox of operations grows.
LEMMA OrdersGrow ==
    ASSUME OperationsInv, DirectivesKnown, UNCHANGED command, OperationsStep, round \in Rounds
    PROVE  Len(orders) \in Nat /\ Len(orders) <= Len(orders') /\ orders' \in Seq(OrderEvents)
<1>1. orders \in Seq(OrderEvents)
  BY DEF OperationsInv
<1>2. CASE orders' = orders
  BY <1>1, <1>2
<1>3. ASSUME NEW n, NEW plan, orders' = orders \o Issued(n, plan), orders' \in Seq(OrderEvents)
      PROVE  Len(orders) <= Len(orders')
  <2>1. CASE n + 1 > Limit
    BY <1>1, <1>3, <2>1, ConcatEmptySeq DEF Issued
  <2>2. CASE ~(n + 1 > Limit)
    <3> DEFINE o == [round |-> n + 1, plan |-> plan]
    <3>1. orders' = orders \o <<o>>
      BY <1>3, <2>2 DEF Issued
    <3> HIDE DEF o
    <3>2. orders \in Seq({orders[i] : i \in DOMAIN orders} \cup {o}) /\ <<o>> \in Seq({orders[i] : i \in DOMAIN orders} \cup {o})
      BY <1>1
    <3> QED
      BY <3>1, <3>2, ConcatProperties
  <2> QED
    BY <2>1, <2>2
<1>4. ASSUME NEW k \in DOMAIN directives, Assign(k) PROVE Len(orders) <= Len(orders') /\ orders' \in Seq(OrderEvents)
  <2>1. orders' \in Seq(OrderEvents)
    BY <1>4, AssignInv DEF OperationsInv
  <2>2. orders' = orders \/ orders' = orders \o <<>> \/ \E n, plan : orders' = orders \o Issued(n, plan)
    BY <1>4 DEF Assign
  <2> QED
    BY <1>1, <1>2, <1>3, <2>1, <2>2, ConcatEmptySeq
<1>5. ASSUME NEW n \in 0..round, Maneuver(n) PROVE Len(orders) <= Len(orders') /\ orders' \in Seq(OrderEvents)
  <2>0. n \in Rounds
    BY DEF Rounds
  <2>1. orders' \in Seq(OrderEvents)
    BY <1>5, <2>0, ManeuverInv DEF OperationsInv
  <2>2. orders' = orders \/ \E m, plan : orders' = orders \o Issued(m, plan)
    BY <1>5 DEF Maneuver
  <2> QED
    BY <1>1, <1>2, <1>3, <2>1, <2>2
<1> QED
  BY <1>1, <1>2, <1>4, <1>5 DEF OperationsStep, OpenOperation, CloseOperation

LEMMA InvStep == IInv /\ [Next]_vars => IInv'
<1> SUFFICES ASSUME IInv, [Next]_vars PROVE IInv'
  OBVIOUS
<1>1. CommandInv /\ OperationsInv /\ DirectivesKnown /\ Handled
  BY InvIs, InvIsOperations
<1>2. round \in Rounds /\ Len(orders) \in Nat /\ orders \in Seq(OrderEvents)
  BY <1>1 DEF Handled, OperationsInv
<1>3. CASE CommandStep /\ UNCHANGED <<operations, exercise>>
  <2>1. \A k \in DOMAIN directives : k \in DOMAIN directives'
    BY <1>1, <1>3, DirectivesGrow
  <2>2. Handled'
    BY <1>1, <1>3, <2>1 DEF Handled, operations, exercise
  <2> QED
    BY <1>1, <1>3, <2>2, CommandStepInv, CommandKeepsOperations, InvIs
<1>4. CASE OperationsStep /\ UNCHANGED <<command, exercise>>
  <2>1. CommandInv'
    BY <1>1, <1>4, CommandStepInv DEF command
  <2>2. OperationsInv'
    <3>1. ASSUME NEW n \in 0..round PROVE n \in Rounds
      BY <1>2 DEF Rounds
    <3> QED
      BY <1>1, <1>4, <3>1, OpenOperationInv, CloseOperationInv, AssignInv, ManeuverInv DEF OperationsStep
  <2>3. Len(orders) <= Len(orders') /\ orders' \in Seq(OrderEvents)
    BY <1>1, <1>2, <1>4, OrdersGrow
  <2>4. assigned' \subseteq DOMAIN directives /\ maneuvered' \subseteq 0..round
    BY <1>1, <1>4 DEF OperationsStep, OpenOperation, CloseOperation, Assign, Maneuver, Handled
  <2>5. recorded \in [1..Limit -> 0..Len(orders')] /\ received \subseteq DOMAIN orders'
    BY <1>1, <1>2, <2>3 DEF Handled
  <2>6. Handled'
    BY <1>1, <1>4, <2>4, <2>5 DEF Handled, command, exercise
  <2> QED
    BY <2>1, <2>2, <2>6, InvIs
<1>5. CASE (Resolve \/ \E j \in DOMAIN orders : RecordOrders(j)) /\ UNCHANGED <<command, operations>>
  <2>1. CommandInv'
    BY <1>1, <1>5, CommandStepInv DEF command
  <2>2. OperationsInv'
    BY <1>1, <1>5 DEF OperationsInv, StandingIsDirected, OrdersAreThePlan, operations, command
  <2>3. CASE Resolve
    <3>1. round' \in Rounds /\ maneuvered \subseteq 0..round'
      BY <1>1, <2>3 DEF Resolve, Handled, Rounds
    <3> QED
      BY <1>1, <1>5, <2>1, <2>2, <2>3, <3>1, InvIs DEF Resolve, Handled, operations, command
  <2>4. ASSUME NEW j \in DOMAIN orders, RecordOrders(j) PROVE IInv'
    <3>1. j \in 0..Len(orders)
      BY <1>2
    <3>2. recorded' \in [1..Limit -> 0..Len(orders)] /\ received' \subseteq DOMAIN orders
      BY <1>1, <2>4, <3>1 DEF RecordOrders, Handled
    <3> QED
      BY <1>1, <1>5, <2>1, <2>2, <2>4, <3>2, InvIs DEF RecordOrders, Handled, operations, command
  <2> QED
    BY <1>5, <2>3, <2>4
<1>6. CASE UNCHANGED vars
  <2>1. CommandInv' /\ OperationsInv'
    BY <1>1, <1>6, CommandStepInv, CommandKeepsOperations DEF vars
  <2> QED
    BY <1>1, <1>6, <2>1, InvIs DEF vars, Handled, command, operations, exercise
<1> QED
  BY <1>3, <1>4, <1>5, <1>6 DEF Next

LEMMA Invariance == Spec => []IInv
BY InitInv, InvStep, PTL DEF Spec

LEMMA InvImpliesType == IInv => TypeOK
<1> SUFFICES ASSUME IInv PROVE TypeOK
  OBVIOUS
<1>1. direction # Absent => direction \in DirectionRows
  BY DEF IInv, Written
<1>2. operation # Absent =>
        /\ operation.status \in {"open", "closed"} /\ operation.last \in -1..Limit
        /\ operation.standing \in StandingMaps
        /\ operation.seq \in 0..Len(directives)
        /\ operation.own = IF operation.last = -1 THEN <<>> ELSE Own[operation.last]
  BY OperationFields, InvIs DEF OperationsInv, StandingIsDirected
<1>3. maneuvered \subseteq Rounds
  BY DEF IInv, Handled, Rounds
<1> QED
  BY <1>1, <1>2, <1>3 DEF IInv, Written, Handled, TypeOK, DirectionRows, DecisionMaps, StandingMaps

\* Every row that the two domains keep is of its type.
THEOREM TypeCorrect == Spec => []TypeOK
BY Invariance, InvImpliesType, PTL

\* No directive and no orders are raised that their consumer refuses for good:
\* in whatever order the assessments, the directives, the observations and the
\* conclusion are handled.
THEOREM NothingRefused == Spec => []Accepted
<1>1. IInv => Accepted
  <2> SUFFICES ASSUME IInv PROVE Accepted
    OBVIOUS
  <2>1. TypeOK
    BY InvImpliesType
  <2>2. OpenAccepted(Limit) /\ \A n \in 0..round : ManeuverAccepted(n)
    BY DEF OpenAccepted, ManeuverAccepted, IsRound
  <2>3. ASSUME NEW i \in DOMAIN directives PROVE AssignAccepted(directives[i].round, directives[i].sequence)
    <3>1. /\ directives \in Seq(DirectiveEvents) /\ directives[i].sequence = i
      BY DEF IInv, Written, LastIsDecided
    <3>2. directives[i] \in DirectiveEvents /\ i >= 1
      BY <3>1
    <3> QED
      BY <3>1, <3>2 DEF AssignAccepted, IsRound, IsCounter, DirectiveEvents, Rounds
  <2>4. ASSUME NEW j \in DOMAIN orders PROVE OrdersAccepted(orders[j].round, round, Limit)
    <3>1. orders[j] \in OrderEvents
      BY DEF IInv, Written
    <3> QED
      BY <3>1 DEF OrdersAccepted, OrderEvents
  <2> QED
    BY <2>1, <2>2, <2>3, <2>4 DEF Accepted
<1> QED
  BY Invariance, <1>1, PTL

\* Command decides on the latest assessment handled, and operations stands
\* under its last directive, although both skip what arrives late.
THEOREM StandsUnderDecision == Spec => []StandingIsDecided
<1>1. IInv => StandingIsDecided
  <2> SUFFICES ASSUME IInv PROVE StandingIsDecided
    OBVIOUS
  <2>1. LatestDecided
    BY InvIsCommand, CommandImplies
  <2>2. ASSUME operation # Absent, direction # Absent, operation.seq = direction.sequence,
               NEW e \in DOMAIN operation.own \cap DOMAIN direction.decisions
        PROVE  DecisionIn(operation.standing, e) = direction.decisions[e]
    <3>1. CASE direction.sequence = 0
      <4>1. DOMAIN operation.standing = {} /\ direction.decisions[e] = Hold
        BY <2>2, <3>1 DEF IInv, StandingIsDirected, LastIsDecided
      <4> QED
        BY <4>1 DEF DecisionIn
    <3>2. CASE direction.sequence # 0
      <4> DEFINE s == direction.sequence
                 d == directives[s]
      <4>1. /\ s \in Nat /\ s > 0 /\ s = Len(directives) /\ s \in DOMAIN directives
            /\ s <= direction.revision /\ d.round <= direction.round
            /\ direction.decisions[e] = d.decisions[e] /\ DOMAIN d.decisions = DOMAIN Own[d.round]
        <5>1. direction \in DirectionRows /\ directives \in Seq(DirectiveEvents)
          BY <2>2 DEF IInv, Written
        <5>2. s \in Nat /\ s = Len(directives) /\ s > 0 /\ s \in DOMAIN directives
          BY <2>2, <3>2, <5>1 DEF IInv, LastIsDecided
        <5> QED
          BY <2>2, <5>2 DEF IInv, LastIsDecided
      <4>2. /\ direction.revision \in Revisions /\ direction.round \in Rounds
            /\ DOMAIN direction.decisions = DOMAIN Own[direction.round]
        <5>1. direction.revision \in Nat /\ direction.revision > 0
          BY <2>2, <4>1 DEF IInv, Written, DirectionRows
        <5>2. /\ direction.revision \in Revisions /\ direction.round = Assessed[direction.revision]
              /\ DOMAIN direction.decisions = DOMAIN Own[direction.round]
          BY <2>2, <5>1 DEF IInv, Written, DecidedOnLatest
        <5> QED
          BY <5>2, RevisionsAre
      <4>3. d.round \in Rounds
        <5>1. d \in DirectiveEvents
          BY <4>1 DEF IInv, Written
        <5> QED
          BY <5>1 DEF DirectiveEvents
      <4>4. e \in DOMAIN d.decisions
        BY <2>2, <4>1, <4>2, <4>3, LiveAre
      <4> QED
        BY <2>2, <4>1, <4>4 DEF IInv, StandingIsDirected
    <3> QED
      BY <3>1, <3>2
  <2> QED
    BY <2>1, <2>2 DEF StandingIsDecided
<1> QED
  BY Invariance, <1>1, PTL

\* The last orders issued are the plan of what the elements stand under now:
\* a directive on the round last observed takes effect at once.
THEOREM OrdersFollowThePlan == Spec => []OrdersAreThePlan
<1>1. IInv => OrdersAreThePlan
  BY DEF IInv
<1> QED
  BY Invariance, <1>1, PTL
==============================================================================
