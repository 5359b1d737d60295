-------------------------- MODULE IntelligenceProof ---------------------------
(***************************************************************************)
(* Theorems about Intelligence and TheaterCheck: any course of an exercise, *)
(* any number of factions, elements, objectives, rounds and replicas.      *)
(***************************************************************************)
EXTENDS TheaterCheck, SequenceTheorems, WellFoundedInduction, TLAPS

USE MapAssumption, RoundsAssumption

-----------------------------------------------------------------------------
(* The inductive invariant, faction by faction: what is said of the game g, *)
(* a faction f, its assessment a or picture p, the assessments es it was    *)
(* issued, the rounds F fused of it, and the inputs C handled.             *)

ContactsIn(g, f, n) == {e \in Elements : Of[e] # f /\ g.at[n][e] \in g.sees[n][f]}
ObjectivesIn(g, f, n) == Objectives \cap g.sees[n][f]

\* A picture is of the last round fused, and no observation handled is later.
RoundIsFused(f, p, F, C) ==
    /\ p.round \in F \cup {-1}
    /\ \A n \in F : n <= p.round
    /\ \A i \in C : i.kind = "observed" /\ i.faction = f => i.round <= p.round

\* f learned in round n who holds c.
Learns(g, f, c, n, F, C) ==
    \/ n \in F /\ c \in ObjectivesIn(g, f, n)
    \/ \E i \in C : i.kind = "lost" /\ i.faction = f /\ i.at = c /\ i.round = n

\* ObjectivesNewest, with the ages.
Newest(g, f, p, F, C) ==
    /\ \A c \in Objectives, n \in Rounds :
         Learns(g, f, c, n, F, C) => c \in DOMAIN p.objectives /\ n <= p.objectives[c].seen
    /\ \A c \in DOMAIN p.objectives :
         LET o == p.objectives[c]
         IN  /\ Learns(g, f, c, o.seen, F, C)
             /\ o.holder = g.holders[o.seen][c]
             /\ o.age = Age(p.round, o.seen)

\* A contact that f last had in round n is not gone in any round since.
Lasts(g, f, e, n, F) ==
    /\ n \in F /\ e \in ContactsIn(g, f, n)
    /\ \A m \in F : m > n =>
         e \notin ContactsIn(g, f, m) /\ m - n <= K /\ g.at[n][e] \notin g.sees[m][f]

\* ContactsLast, contact by contact.
Lasting(g, f, p, F) ==
    /\ \A e \in DOMAIN p.contacts :
         LET c == p.contacts[e]
         IN  Lasts(g, f, e, c.seen, F) /\ c.at = g.at[c.seen][e]
    /\ \A e \in Elements, n \in Rounds : Lasts(g, f, e, n, F) => e \in DOMAIN p.contacts

\* An alert is ahead of its round's observation.
Ahead(p) == \E c \in DOMAIN p.objectives : p.objectives[c].seen > p.round

\* IssuedIsCurrent, with each round fused among those issued.
InOrder(es, a, F) ==
    /\ a.revision = Len(es)
    /\ \A i \in 1..Len(es) : es[i].revision = i /\ es[i].picture.round \in 0..a.picture.round
    /\ \A i, j \in 1..Len(es) : i <= j => es[i].picture.round <= es[j].picture.round
    /\ \A n \in F : \E i \in 1..Len(es) : es[i].picture.round = n
    /\ ~Ahead(a.picture) => a.picture = IF es = <<>> THEN Open ELSE es[Len(es)].picture

\* No input is past the round that the exercise concluded after.
Knows(g, f, a, es, F, C) ==
    /\ a.status = "closed" => a.closed = Limit
    /\ RoundIsFused(f, a.picture, F, C)
    /\ Newest(g, f, a.picture, F, C)
    /\ Lasting(g, f, a.picture, F)
    /\ InOrder(es, a, F)

\* What TypeOK says of the variables' values; the rest of it follows.
Typed ==
    /\ game \in Games
    /\ claimed \subseteq Inputs
    /\ row \in [Factions -> {Absent} \cup Assessments]
    /\ issued \in [Factions -> Seq([revision : Nat, picture : Pictures])]
    /\ fused \in [Factions -> SUBSET Rounds]
    /\ tx \in [Replicas -> {Idle} \cup [input : Observations \cup Alerts, read : Assessments]]

\* What a replica has locked is nobody else's, and what it read is still so.
ReadIsCurrent ==
    /\ \A r \in Replicas : tx[r] # Idle => tx[r].read = row[tx[r].input.faction]
    /\ \A r, q \in Replicas : r # q /\ tx[r] # Idle /\ tx[q] # Idle =>
         tx[r].input.faction # tx[q].input.faction

\* Nothing was handled for a faction before its assessment was open.
Unopened ==
    \A f \in Factions : row[f] = Absent =>
        /\ fused[f] = {} /\ issued[f] = <<>>
        /\ \A i \in claimed : i.kind \in {"lost", "observed"} => i.faction # f

Known == \A f \in OpenFactions : Knows(game, f, row[f], issued[f], fused[f], claimed)

Stated(f) == {issued[f][i].picture : i \in DOMAIN issued[f]}

\* What is issued was explained when it was issued, and stays so.
Explained ==
    \A f \in Factions : \A p \in Stated(f) : ContactsExplained(f, p) /\ ObjectivesExplained(f, p)

IInv == Typed /\ ReadIsCurrent /\ Unopened /\ Known /\ Explained

-----------------------------------------------------------------------------
(* Types.                                                                  *)

\* A partial function from S to T.
LEMMA PartialDef ==
    ASSUME NEW S, NEW T, NEW h
    PROVE  h \in Partial(S, T) <=> DOMAIN h \subseteq S /\ h \in [DOMAIN h -> T]
  <1>1. ASSUME h \in Partial(S, T)
        PROVE  DOMAIN h \subseteq S /\ h \in [DOMAIN h -> T]
    <2>1. PICK D \in SUBSET S : h \in [D -> T]
      BY <1>1 DEF Partial
    <2> QED
      BY <2>1
  <1>2. ASSUME DOMAIN h \subseteq S, h \in [DOMAIN h -> T]
        PROVE  h \in Partial(S, T)
    BY <1>2 DEF Partial
  <1> QED
    BY <1>1, <1>2

\* What the game is, and what an input is.
LEMMA GameTypes ==
    ASSUME NEW g \in Games
    PROVE  /\ \A n \in Rounds, c \in Objectives : g.holders[n][c] \in Factions \cup {Nobody}
           /\ \A n \in Rounds, f \in Factions : g.sees[n][f] \subseteq Cells
           /\ \A n \in Rounds, e \in Elements : g.at[n][e] \in Cells \cup {Nowhere}
  <1>1. g \in [holders : [Rounds -> [Objectives -> Factions \cup {Nobody}]],
               sees : [Rounds -> [Factions -> SUBSET Cells]],
               at : [Rounds -> [Elements -> Cells \cup {Nowhere}]]]
    BY GamesAssumption
  <1>2. /\ g.holders \in [Rounds -> [Objectives -> Factions \cup {Nobody}]]
        /\ g.sees \in [Rounds -> [Factions -> SUBSET Cells]]
        /\ g.at \in [Rounds -> [Elements -> Cells \cup {Nowhere}]]
    BY <1>1
  <1> QED
    BY <1>2

LEMMA InputKinds ==
    ASSUME NEW i \in Inputs
    PROVE  /\ i.kind = "observed" => i \in Observations /\ i.faction \in Factions /\ i.round \in Rounds
           /\ i.kind = "lost" =>
                /\ i \in Alerts /\ i.faction \in Factions /\ i.round \in Rounds /\ i.at \in Objectives
                /\ i.at \in Lost(i.faction, i.round)
           /\ i \in Observations => i.kind = "observed"
           /\ i \in Alerts => i.kind = "lost"
  <1>1. CASE i = [kind |-> "started"]
    BY <1>1 DEF Observations, Alerts
  <1>2. CASE i = [kind |-> "concluded", round |-> Limit]
    BY <1>2 DEF Observations, Alerts
  <1>3. CASE i \in Observations
    BY <1>3 DEF Observations, Alerts
  <1>4. CASE i \in Alerts
    <2>1. PICK f \in Factions, n \in Rounds : \E c \in Lost(f, n) :
             i = [kind |-> "lost", faction |-> f, round |-> n, at |-> c]
      BY <1>4 DEF Alerts
    <2>2. PICK c \in Lost(f, n) : i = [kind |-> "lost", faction |-> f, round |-> n, at |-> c]
      BY <2>1
    <2>3. c \in Objectives
      BY DEF Lost
    <2> QED
      BY <1>4, <2>2, <2>3 DEF Observations
  <1> QED
    BY <1>1, <1>2, <1>3, <1>4 DEF Inputs

LEMMA PictureTypes ==
    ASSUME NEW p \in Pictures
    PROVE  /\ p.round \in Int /\ p.round >= -1 /\ p.round <= Limit
           /\ DOMAIN p.contacts \subseteq Elements
           /\ \A e \in DOMAIN p.contacts : p.contacts[e] \in [at : Cells, seen : Rounds]
           /\ DOMAIN p.objectives \subseteq Objectives
           /\ \A c \in DOMAIN p.objectives :
                p.objectives[c] \in [holder : Factions \cup {Nobody}, seen : Rounds, age : Rounds]
           /\ p.explored \subseteq Cells
           /\ p = [round |-> p.round, contacts |-> p.contacts,
                   objectives |-> p.objectives, explored |-> p.explored]
  <1>1. /\ p.round \in -1..Limit
        /\ p.contacts \in Partial(Elements, [at : Cells, seen : Rounds])
        /\ p.objectives \in Partial(Objectives,
              [holder : Factions \cup {Nobody}, seen : Rounds, age : Rounds])
        /\ p.explored \in SUBSET Cells
        /\ p = [round |-> p.round, contacts |-> p.contacts,
                objectives |-> p.objectives, explored |-> p.explored]
    BY DEF Pictures
  <1>2. DOMAIN p.contacts \subseteq Elements
        /\ p.contacts \in [DOMAIN p.contacts -> [at : Cells, seen : Rounds]]
    BY <1>1, PartialDef
  <1>3. DOMAIN p.objectives \subseteq Objectives
        /\ p.objectives \in [DOMAIN p.objectives ->
              [holder : Factions \cup {Nobody}, seen : Rounds, age : Rounds]]
    BY <1>1, PartialDef
  <1> QED
    BY <1>1, <1>2, <1>3

-----------------------------------------------------------------------------
(* What an observation changes a picture into.                             *)

LEMMA AgeDef ==
    ASSUME NEW m \in -1..Limit, NEW n \in Rounds
    PROVE  Age(m, n) \in Rounds /\ (n < m => Age(m, n) # 0) /\ Age(n, n) = 0
  BY DEF Age, Rounds

LEMMA SightingType ==
    ASSUME game \in Games, NEW m \in -1..Limit, NEW n \in Rounds, NEW c \in Objectives
    PROVE  Sighting(m, c, n) \in [holder : Factions \cup {Nobody}, seen : Rounds, age : Rounds]
  BY GameTypes, AgeDef DEF Sighting

LEMMA ContactsFused ==
    ASSUME game \in Games, NEW p \in Pictures, NEW f \in Factions, NEW n \in Rounds
    PROVE  /\ Fuse(p, f, n).contacts \in Partial(Elements, [at : Cells, seen : Rounds])
           /\ DOMAIN Fuse(p, f, n).contacts = ContactsIn(game, f, n) \cup Remembered(p, f, n)
           /\ \A e \in ContactsIn(game, f, n) :
                Fuse(p, f, n).contacts[e] = [at |-> game.at[n][e], seen |-> n]
           /\ \A e \in Remembered(p, f, n) : Fuse(p, f, n).contacts[e] = p.contacts[e]
  <1> DEFINE h == Fuse(p, f, n).contacts
  <1>1. ContactsSeen(f, n) = ContactsIn(game, f, n)
    BY DEF ContactsSeen, ContactsIn
  <1>2. h = [e \in ContactsSeen(f, n) \cup Remembered(p, f, n) |->
                IF e \in ContactsSeen(f, n) THEN [at |-> game.at[n][e], seen |-> n] ELSE p.contacts[e]]
    BY DEF Fuse, FuseContacts
  <1>3. Remembered(p, f, n) \subseteq DOMAIN p.contacts /\ Remembered(p, f, n) \cap ContactsSeen(f, n) = {}
    BY DEF Remembered
  <1> HIDE DEF h
  <1>4. \A e \in ContactsSeen(f, n) : h[e] = [at |-> game.at[n][e], seen |-> n]
    BY <1>2
  <1>5. \A e \in Remembered(p, f, n) : h[e] = p.contacts[e]
    BY <1>2, <1>3
  <1>6. \A e \in ContactsSeen(f, n) : e \in Elements /\ h[e] \in [at : Cells, seen : Rounds]
    <2> TAKE e \in ContactsSeen(f, n)
    <2>1. e \in Elements /\ game.at[n][e] \in game.sees[n][f]
      BY DEF ContactsSeen
    <2>2. game.sees[n][f] \subseteq Cells
      BY GameTypes
    <2>3. game.at[n][e] \in Cells
      BY <2>1, <2>2
    <2>4. h[e] = [at |-> game.at[n][e], seen |-> n]
      BY <1>4
    <2> QED
      BY <2>1, <2>3, <2>4
  <1>7. \A e \in Remembered(p, f, n) : e \in Elements /\ h[e] \in [at : Cells, seen : Rounds]
    BY <1>3, <1>5, PictureTypes
  <1>8. DOMAIN h = ContactsSeen(f, n) \cup Remembered(p, f, n)
    BY <1>2
  <1>9. h \in [DOMAIN h -> [at : Cells, seen : Rounds]]
    BY <1>2, <1>6, <1>7
  <1>10. DOMAIN h \subseteq Elements
    BY <1>6, <1>7, <1>8
  <1>11. h \in Partial(Elements, [at : Cells, seen : Rounds])
    BY <1>9, <1>10, PartialDef
  <1> QED
    BY <1>1, <1>4, <1>5, <1>8, <1>11 DEF h

LEMMA ObjectivesFused ==
    ASSUME game \in Games, NEW p \in Pictures, NEW f \in Factions, NEW n \in Rounds
    PROVE  /\ Fuse(p, f, n).objectives \in
                Partial(Objectives, [holder : Factions \cup {Nobody}, seen : Rounds, age : Rounds])
           /\ DOMAIN Fuse(p, f, n).objectives = Standing(p, f, n) \cup ObjectivesIn(game, f, n)
           /\ \A c \in Standing(p, f, n) :
                Fuse(p, f, n).objectives[c] =
                    [p.objectives[c] EXCEPT !.age = Age(n, p.objectives[c].seen)]
           /\ \A c \in ObjectivesIn(game, f, n) \ Standing(p, f, n) :
                Fuse(p, f, n).objectives[c] = Sighting(n, c, n)
  <1> DEFINE h == Fuse(p, f, n).objectives
             T == [holder : Factions \cup {Nobody}, seen : Rounds, age : Rounds]
  <1>1. ObjectivesSeen(f, n) = ObjectivesIn(game, f, n)
    BY DEF ObjectivesSeen, ObjectivesIn
  <1>2. h = [c \in Standing(p, f, n) \cup ObjectivesSeen(f, n) |->
                IF c \in Standing(p, f, n)
                  THEN [p.objectives[c] EXCEPT !.age = Age(n, p.objectives[c].seen)]
                  ELSE Sighting(n, c, n)]
    BY DEF Fuse, FuseObjectives
  <1> HIDE DEF h
  <1>3. \A c \in Standing(p, f, n) :
           h[c] = [p.objectives[c] EXCEPT !.age = Age(n, p.objectives[c].seen)]
    BY <1>2
  <1>4. \A c \in ObjectivesSeen(f, n) \ Standing(p, f, n) : h[c] = Sighting(n, c, n)
    BY <1>2
  <1>5. n \in -1..Limit
    BY DEF Rounds
  <1>6. \A c \in Standing(p, f, n) : c \in Objectives /\ h[c] \in T
    <2> TAKE c \in Standing(p, f, n)
    <2>1. c \in Objectives /\ p.objectives[c] \in T
      BY PictureTypes DEF Standing
    <2>2. Age(n, p.objectives[c].seen) \in Rounds
      BY <2>1, <1>5, AgeDef
    <2> QED
      BY <2>1, <2>2, <1>3
  <1>7. \A c \in ObjectivesSeen(f, n) \ Standing(p, f, n) : c \in Objectives /\ h[c] \in T
    BY <1>4, <1>5, SightingType DEF ObjectivesSeen
  <1>8. DOMAIN h = Standing(p, f, n) \cup ObjectivesSeen(f, n)
    BY <1>2
  <1>9. DOMAIN h \subseteq Objectives /\ h \in [DOMAIN h -> T]
    BY <1>2, <1>6, <1>7, <1>8
  <1>10. h \in Partial(Objectives, T)
    BY <1>9, PartialDef
  <1> QED
    BY <1>1, <1>3, <1>4, <1>8, <1>10 DEF h

LEMMA FuseType ==
    ASSUME game \in Games, NEW p \in Pictures, NEW f \in Factions, NEW n \in Rounds
    PROVE  Fuse(p, f, n) \in Pictures /\ Fuse(p, f, n).round = n
  <1>1. game.sees[n][f] \subseteq Cells /\ p.explored \subseteq Cells
    BY GameTypes, PictureTypes
  <1>2. /\ Fuse(p, f, n).round = n
        /\ Fuse(p, f, n).explored = p.explored \cup game.sees[n][f]
        /\ Fuse(p, f, n) = [round |-> n, contacts |-> Fuse(p, f, n).contacts,
                            objectives |-> Fuse(p, f, n).objectives,
                            explored |-> p.explored \cup game.sees[n][f]]
    BY DEF Fuse
  <1>3. n \in -1..Limit
    BY DEF Rounds
  <1> QED
    BY <1>1, <1>2, <1>3, ContactsFused, ObjectivesFused DEF Pictures

\* What the inputs handled so far tell, and an observation of a later round
\* that is handled now: the picture it is fused into is what they all tell.
LEMMA FuseKnows ==
    ASSUME game \in Games, NEW f \in Factions, NEW n \in Rounds, NEW p \in Pictures,
           NEW F \in SUBSET Rounds, NEW C \in SUBSET Inputs, NEW i \in Inputs,
           i.kind = "observed", i.faction = f, i.round = n,
           n > p.round, RoundIsFused(f, p, F, C), Newest(game, f, p, F, C), Lasting(game, f, p, F)
    PROVE  /\ RoundIsFused(f, Fuse(p, f, n), F \cup {n}, C \cup {i})
           /\ Newest(game, f, Fuse(p, f, n), F \cup {n}, C \cup {i})
           /\ Lasting(game, f, Fuse(p, f, n), F \cup {n})
  <1> DEFINE q == Fuse(p, f, n)
             G == F \cup {n}
             D == C \cup {i}
  <1>1. q.round = n /\ q \in Pictures
    BY FuseType
  <1>2. /\ n \in Int /\ p.round \in Int /\ \A m \in Rounds : m \in Int
        /\ \A m \in F : m <= p.round /\ m < n
    BY PictureTypes DEF RoundIsFused, Rounds
  <1>3. RoundIsFused(f, q, G, D)
    <2>1. \A j \in C : j.kind = "observed" /\ j.faction = f => j.round <= n
      <3> SUFFICES ASSUME NEW j \in C, j.kind = "observed", j.faction = f
                   PROVE  j.round <= n
        OBVIOUS
      <3>1. j.round <= p.round /\ j.round \in Rounds
        BY InputKinds DEF RoundIsFused
      <3> QED
        BY <3>1, <1>2 DEF Rounds
    <2> HIDE DEF q
    <2> QED
      BY <1>1, <1>2, <2>1 DEF RoundIsFused
  <1>4. Newest(game, f, q, G, D)
    <2>1. \A c, m : Learns(game, f, c, m, G, D)
                      <=> Learns(game, f, c, m, F, C) \/ (m = n /\ c \in ObjectivesIn(game, f, n))
      BY DEF Learns
    <2>2. \A c \in DOMAIN p.objectives :
             /\ c \in Objectives /\ p.objectives[c].seen \in Rounds
             /\ p.objectives[c] \in [holder : Factions \cup {Nobody}, seen : Rounds, age : Rounds]
      BY PictureTypes
    <2>3. \A c \in Standing(p, f, n) :
             /\ c \in DOMAIN p.objectives /\ c \in DOMAIN q.objectives
             /\ c \notin ObjectivesIn(game, f, n) \/ p.objectives[c].seen > n
             /\ q.objectives[c].seen = p.objectives[c].seen
             /\ q.objectives[c].holder = p.objectives[c].holder
             /\ q.objectives[c].age = Age(n, p.objectives[c].seen)
      <3> TAKE c \in Standing(p, f, n)
      <3>1. /\ c \in DOMAIN p.objectives
            /\ c \notin ObjectivesIn(game, f, n) \/ p.objectives[c].seen > n
        BY DEF Standing, ObjectivesSeen, ObjectivesIn
      <3>2. /\ q.objectives[c] = [p.objectives[c] EXCEPT !.age = Age(n, p.objectives[c].seen)]
            /\ c \in DOMAIN q.objectives
        BY ObjectivesFused
      <3> HIDE DEF q
      <3> QED
        BY <3>1, <3>2, <2>2
    <2>4. \A c \in ObjectivesIn(game, f, n) \ Standing(p, f, n) :
             /\ c \in DOMAIN q.objectives
             /\ q.objectives[c] = Sighting(n, c, n)
             /\ c \in DOMAIN p.objectives => p.objectives[c].seen <= n
      <3> TAKE c \in ObjectivesIn(game, f, n) \ Standing(p, f, n)
      <3>1. c \in DOMAIN p.objectives => p.objectives[c].seen <= n
        BY <2>2 DEF Standing, ObjectivesSeen, ObjectivesIn, Rounds
      <3> QED
        BY <3>1, ObjectivesFused
    <2>5. DOMAIN q.objectives = Standing(p, f, n) \cup ObjectivesIn(game, f, n)
      BY ObjectivesFused
    <2>6. \A c \in DOMAIN p.objectives : c \in DOMAIN q.objectives
      BY <2>5 DEF Standing, ObjectivesSeen, ObjectivesIn
    <2> HIDE DEF q
    <2>7. ASSUME NEW c \in Objectives, NEW m \in Rounds, Learns(game, f, c, m, G, D)
          PROVE  c \in DOMAIN q.objectives /\ m <= q.objectives[c].seen
      <3>1. CASE c \in Standing(p, f, n)
        <4>1. Learns(game, f, c, m, F, C) => m <= p.objectives[c].seen
          BY DEF Newest
        <4> QED
          BY <2>1, <2>2, <2>3, <2>7, <3>1, <4>1 DEF Rounds
      <3>2. CASE c \in ObjectivesIn(game, f, n) \ Standing(p, f, n)
        <4>1. Learns(game, f, c, m, F, C) => c \in DOMAIN p.objectives /\ m <= p.objectives[c].seen
          BY DEF Newest
        <4>2. m <= n
          BY <2>1, <2>2, <2>4, <2>7, <3>2, <4>1 DEF Rounds
        <4>3. q.objectives[c] = Sighting(n, c, n)
          BY <2>4, <3>2
        <4>4. q.objectives[c].seen = n
          BY <4>3 DEF Sighting
        <4> QED
          BY <2>4, <3>2, <4>2, <4>4
      <3>3. CASE c \notin Standing(p, f, n) \cup ObjectivesIn(game, f, n)
        BY <2>1, <2>5, <2>6, <2>7, <3>3 DEF Newest
      <3> QED
        BY <3>1, <3>2, <3>3
    <2>8. ASSUME NEW c \in DOMAIN q.objectives
          PROVE  /\ Learns(game, f, c, q.objectives[c].seen, G, D)
                 /\ q.objectives[c].holder = game.holders[q.objectives[c].seen][c]
                 /\ q.objectives[c].age = Age(q.round, q.objectives[c].seen)
      <3>1. CASE c \in Standing(p, f, n)
        <4>1. /\ Learns(game, f, c, p.objectives[c].seen, F, C)
              /\ p.objectives[c].holder = game.holders[p.objectives[c].seen][c]
          BY <2>3, <3>1 DEF Newest
        <4> QED
          BY <1>1, <2>1, <2>3, <3>1, <4>1
      <3>2. CASE c \in ObjectivesIn(game, f, n) \ Standing(p, f, n)
        <4>1. q.objectives[c] = Sighting(n, c, n)
          BY <2>4, <3>2
        <4>2. /\ q.objectives[c].seen = n /\ q.objectives[c].holder = game.holders[n][c]
              /\ q.objectives[c].age = Age(n, n)
          BY <4>1 DEF Sighting
        <4> QED
          BY <1>1, <2>1, <3>2, <4>2
      <3> QED
        BY <2>5, <3>1, <3>2
    <2> QED
      BY <2>7, <2>8 DEF Newest
  <1>5. Lasting(game, f, q, G)
    <2>1. \A e, m : m \in F =>
             (Lasts(game, f, e, m, G) <=>
                /\ Lasts(game, f, e, m, F)
                /\ e \notin ContactsIn(game, f, n) /\ n - m <= K /\ game.at[m][e] \notin game.sees[n][f])
      BY <1>2 DEF Lasts
    <2>2. \A e : Lasts(game, f, e, n, G) <=> e \in ContactsIn(game, f, n)
      BY <1>2 DEF Lasts
    <2>3. \A e \in DOMAIN p.contacts :
             /\ Lasts(game, f, e, p.contacts[e].seen, F)
             /\ p.contacts[e].at = game.at[p.contacts[e].seen][e]
      BY DEF Lasting
    <2>4. \A e : e \in Remembered(p, f, n) <=>
             /\ e \in DOMAIN p.contacts /\ e \notin ContactsIn(game, f, n)
             /\ n - p.contacts[e].seen <= K /\ p.contacts[e].at \notin game.sees[n][f]
      BY DEF Remembered, ContactsSeen, ContactsIn
    <2>5. /\ DOMAIN q.contacts = ContactsIn(game, f, n) \cup Remembered(p, f, n)
          /\ \A e \in ContactsIn(game, f, n) : q.contacts[e] = [at |-> game.at[n][e], seen |-> n]
          /\ \A e \in Remembered(p, f, n) : q.contacts[e] = p.contacts[e]
      BY ContactsFused
    <2> HIDE DEF q
    <2>6. ASSUME NEW e \in DOMAIN q.contacts
          PROVE  /\ Lasts(game, f, e, q.contacts[e].seen, G)
                 /\ q.contacts[e].at = game.at[q.contacts[e].seen][e]
      <3>1. CASE e \in ContactsIn(game, f, n)
        <4>1. q.contacts[e] = [at |-> game.at[n][e], seen |-> n]
          BY <2>5, <3>1
        <4>2. q.contacts[e].seen = n /\ q.contacts[e].at = game.at[n][e]
          BY <4>1
        <4> QED
          BY <2>2, <3>1, <4>2
      <3>2. CASE e \in Remembered(p, f, n)
        <4>1. p.contacts[e].seen \in F
          BY <2>3, <2>4, <3>2 DEF Lasts
        <4> QED
          BY <2>1, <2>3, <2>4, <2>5, <3>2, <4>1
      <3> QED
        BY <2>5, <3>1, <3>2
    <2>7. ASSUME NEW e \in Elements, NEW m \in Rounds, Lasts(game, f, e, m, G)
          PROVE  e \in DOMAIN q.contacts
      <3>1. CASE m = n
        BY <2>2, <2>5, <2>7, <3>1
      <3>2. CASE m \in F
        <4>1. /\ Lasts(game, f, e, m, F) /\ e \in DOMAIN p.contacts
              /\ e \notin ContactsIn(game, f, n) /\ n - m <= K /\ game.at[m][e] \notin game.sees[n][f]
          BY <2>1, <2>7, <3>2 DEF Lasting
        <4>2. p.contacts[e].seen = m
          <5>1. p.contacts[e].seen \in F /\ Lasts(game, f, e, p.contacts[e].seen, F)
            BY <2>3, <4>1 DEF Lasts
          <5>2. ~(p.contacts[e].seen < m) /\ ~(p.contacts[e].seen > m)
            BY <4>1, <5>1 DEF Lasts
          <5>3. p.contacts[e].seen \in Rounds /\ m \in Rounds
            BY <5>1, <3>2
          <5>4. \A a, b \in Rounds : ~(a < b) /\ ~(a > b) => a = b
            BY DEF Rounds
          <5> QED
            BY <5>2, <5>3, <5>4
        <4> QED
          BY <2>3, <2>4, <2>5, <4>1, <4>2
      <3> QED
        BY <2>7, <3>1, <3>2 DEF Lasts
    <2> QED
      BY <2>6, <2>7 DEF Lasting
  <1> QED
    BY <1>3, <1>4, <1>5

-----------------------------------------------------------------------------
(* What an alert changes a picture into.                                   *)

LEMMA AlertType ==
    ASSUME game \in Games, NEW p \in Pictures, NEW c \in Objectives, NEW n \in Rounds
    PROVE  /\ Alert(p, c, n) \in Pictures
           /\ Alert(p, c, n).round = p.round
           /\ Alert(p, c, n).contacts = p.contacts
           /\ \/ /\ Alert(p, c, n) = p
                 /\ c \in DOMAIN p.objectives /\ p.objectives[c].seen > n
              \/ /\ ~(c \in DOMAIN p.objectives /\ p.objectives[c].seen > n)
                 /\ DOMAIN Alert(p, c, n).objectives = DOMAIN p.objectives \cup {c}
                 /\ Alert(p, c, n).objectives[c] = Sighting(p.round, c, n)
                 /\ \A d \in DOMAIN p.objectives \ {c} :
                      Alert(p, c, n).objectives[d] = p.objectives[d]
  <1>1. CASE c \in DOMAIN p.objectives /\ p.objectives[c].seen > n
    BY <1>1 DEF Alert
  <1>2. CASE ~(c \in DOMAIN p.objectives /\ p.objectives[c].seen > n)
    <2> DEFINE T == [holder : Factions \cup {Nobody}, seen : Rounds, age : Rounds]
               h == [d \in DOMAIN p.objectives \cup {c} |->
                       IF d = c THEN Sighting(p.round, c, n) ELSE p.objectives[d]]
    <2>1. Alert(p, c, n) = [p EXCEPT !.objectives = h]
      BY <1>2 DEF Alert
    <2>2. /\ DOMAIN h = DOMAIN p.objectives \cup {c}
          /\ h[c] = Sighting(p.round, c, n)
          /\ \A d \in DOMAIN p.objectives \ {c} : h[d] = p.objectives[d]
      OBVIOUS
    <2>3. h \in [DOMAIN h -> T] /\ DOMAIN h \subseteq Objectives
      <3>1. p.round \in -1..Limit
        BY PictureTypes
      <3>2. Sighting(p.round, c, n) \in T
        BY <3>1, SightingType
      <3>3. /\ DOMAIN p.objectives \subseteq Objectives
            /\ \A d \in DOMAIN p.objectives : p.objectives[d] \in T
        BY PictureTypes
      <3> HIDE DEF T
      <3> QED
        BY <3>2, <3>3
    <2>4. h \in Partial(Objectives, T)
      <3> HIDE DEF h, T
      <3> QED
        BY <2>3, PartialDef
    <2> HIDE DEF h
    <2>5. p = [round |-> p.round, contacts |-> p.contacts,
               objectives |-> p.objectives, explored |-> p.explored]
      BY PictureTypes
    <2>6. [p EXCEPT !.objectives = h] =
             [round |-> p.round, contacts |-> p.contacts, objectives |-> h, explored |-> p.explored]
      BY <2>5
    <2>7. Alert(p, c, n) =
             [round |-> p.round, contacts |-> p.contacts, objectives |-> h, explored |-> p.explored]
      BY <2>1, <2>6
    <2>8. Alert(p, c, n) \in Pictures
      <3>1. /\ p.round \in -1..Limit /\ p.explored \in SUBSET Cells
            /\ p.contacts \in Partial(Elements, [at : Cells, seen : Rounds])
        BY DEF Pictures
      <3> QED
        BY <2>4, <2>7, <3>1 DEF Pictures
    <2>9. /\ Alert(p, c, n).round = p.round /\ Alert(p, c, n).contacts = p.contacts
          /\ Alert(p, c, n).objectives = h
      BY <2>7
    <2> QED
      BY <1>2, <2>2, <2>8, <2>9
  <1> QED
    BY <1>1, <1>2

\* As FuseKnows, an alert.
LEMMA AlertKnows ==
    ASSUME game \in Games, NEW f \in Factions, NEW n \in Rounds, NEW c \in Objectives,
           NEW p \in Pictures, NEW F \in SUBSET Rounds, NEW C \in SUBSET Inputs, NEW i \in Inputs,
           i.kind = "lost", i.faction = f, i.round = n, i.at = c,
           RoundIsFused(f, p, F, C), Newest(game, f, p, F, C), Lasting(game, f, p, F)
    PROVE  /\ RoundIsFused(f, Alert(p, c, n), F, C \cup {i})
           /\ Newest(game, f, Alert(p, c, n), F, C \cup {i})
           /\ Lasting(game, f, Alert(p, c, n), F)
  <1> DEFINE q == Alert(p, c, n)
             D == C \cup {i}
  <1>1. q.round = p.round /\ q.contacts = p.contacts
    BY AlertType
  <1>2. RoundIsFused(f, q, F, D)
    BY <1>1 DEF RoundIsFused
  <1>3. Lasting(game, f, q, F)
    BY <1>1 DEF Lasting
  <1>4. Newest(game, f, q, F, D)
    <2>1. \A d, m : Learns(game, f, d, m, F, D) <=> Learns(game, f, d, m, F, C) \/ (d = c /\ m = n)
      BY DEF Learns
    <2>2. \A d \in DOMAIN p.objectives : d \in Objectives /\ p.objectives[d].seen \in Rounds
      BY PictureTypes
    <2>3. CASE q = p /\ c \in DOMAIN p.objectives /\ p.objectives[c].seen > n
      <3> HIDE DEF q
      <3>1. n <= p.objectives[c].seen
        BY <2>2, <2>3 DEF Rounds
      <3> QED
        BY <2>1, <2>3, <3>1 DEF Newest
    <2>4. CASE ~(q = p /\ c \in DOMAIN p.objectives /\ p.objectives[c].seen > n)
      <3>1. /\ ~(c \in DOMAIN p.objectives /\ p.objectives[c].seen > n)
            /\ DOMAIN q.objectives = DOMAIN p.objectives \cup {c}
            /\ q.objectives[c] = Sighting(p.round, c, n)
            /\ \A d \in DOMAIN p.objectives \ {c} : q.objectives[d] = p.objectives[d]
        BY <2>4, AlertType
      <3>2. c \in DOMAIN p.objectives => p.objectives[c].seen <= n
        BY <2>2, <3>1 DEF Rounds
      <3> HIDE DEF q
      <3>3. /\ q.objectives[c].seen = n /\ q.objectives[c].holder = game.holders[n][c]
            /\ q.objectives[c].age = Age(p.round, n)
        BY <3>1 DEF Sighting
      <3>4. ASSUME NEW d \in Objectives, NEW m \in Rounds, Learns(game, f, d, m, F, D)
            PROVE  d \in DOMAIN q.objectives /\ m <= q.objectives[d].seen
        <4>1. Learns(game, f, d, m, F, C) => d \in DOMAIN p.objectives /\ m <= p.objectives[d].seen
          BY DEF Newest
        <4>2. CASE d = c
          <5>1. m <= n
            BY <2>1, <2>2, <3>2, <3>4, <4>1, <4>2 DEF Rounds
          <5> QED
            BY <3>1, <3>3, <4>2, <5>1
        <4>3. CASE d # c
          BY <2>1, <3>1, <3>4, <4>1, <4>3
        <4> QED
          BY <4>2, <4>3
      <3>5. ASSUME NEW d \in DOMAIN q.objectives
            PROVE  /\ Learns(game, f, d, q.objectives[d].seen, F, D)
                   /\ q.objectives[d].holder = game.holders[q.objectives[d].seen][d]
                   /\ q.objectives[d].age = Age(q.round, q.objectives[d].seen)
        <4>1. CASE d = c
          BY <1>1, <2>1, <3>3, <4>1
        <4>2. CASE d # c
          <5>1. d \in DOMAIN p.objectives /\ q.objectives[d] = p.objectives[d]
            BY <3>1, <4>2
          <5>2. /\ Learns(game, f, d, p.objectives[d].seen, F, C)
                /\ p.objectives[d].holder = game.holders[p.objectives[d].seen][d]
                /\ p.objectives[d].age = Age(p.round, p.objectives[d].seen)
            BY <5>1 DEF Newest
          <5> QED
            BY <1>1, <2>1, <5>1, <5>2
        <4> QED
          BY <4>1, <4>2
      <3> QED
        BY <3>4, <3>5 DEF Newest
    <2> QED
      BY <2>3, <2>4
  <1> QED
    BY <1>2, <1>3, <1>4

\* An input that tells f nothing: it is not f's, or f's picture is not older.
LEMMA TellsNothing ==
    ASSUME NEW g, NEW f, NEW p, NEW F, NEW C, NEW i,
           i.kind = "lost" => i.faction # f,
           i.kind = "observed" /\ i.faction = f => i.round <= p.round,
           RoundIsFused(f, p, F, C), Newest(g, f, p, F, C)
    PROVE  RoundIsFused(f, p, F, C \cup {i}) /\ Newest(g, f, p, F, C \cup {i})
  <1>1. \A c, n : Learns(g, f, c, n, F, C \cup {i}) <=> Learns(g, f, c, n, F, C)
    BY DEF Learns
  <1> QED
    BY <1>1 DEF RoundIsFused, Newest

-----------------------------------------------------------------------------
(* What is issued.                                                         *)

Issues == [revision : Nat, picture : Pictures]

\* An assessment that is raised is issued in order.
LEMMA RaisedInOrder ==
    ASSUME NEW es \in Seq(Issues), NEW a \in Assessments, NEW b \in Assessments,
           NEW F \in SUBSET Rounds, NEW G \in SUBSET Rounds, InOrder(es, a, F),
           b.revision = a.revision + 1, a.picture.round <= b.picture.round, 0 <= b.picture.round,
           G \subseteq F \cup {b.picture.round}
    PROVE  /\ InOrder(Append(es, [revision |-> b.revision, picture |-> b.picture]), b, G)
           /\ Append(es, [revision |-> b.revision, picture |-> b.picture]) \in Seq(Issues)
  <1> DEFINE e == [revision |-> b.revision, picture |-> b.picture]
             new == Append(es, e)
             r == b.picture.round
  <1>1. e \in Issues /\ e.revision = b.revision /\ e.picture = b.picture
    BY DEF Issues, Assessments
  <1>2. /\ a.picture \in Pictures /\ b.picture \in Pictures /\ a.revision \in Nat
        /\ a.picture.round \in Int /\ r \in Int
    <2>1. a.picture \in Pictures /\ b.picture \in Pictures /\ a.revision \in Nat
      BY DEF Assessments
    <2> QED
      BY <2>1, PictureTypes
  <1> HIDE DEF e
  <1>3. /\ new \in Seq(Issues) /\ new # <<>> /\ Len(new) = Len(es) + 1
        /\ \A i \in 1..Len(es) : new[i] = es[i]
        /\ new[Len(es) + 1] = e
        /\ Len(es) \in Nat
    BY <1>1, AppendProperties, LenProperties
  <1> HIDE DEF new
  <1>4. \A i \in 1..Len(new) : i \in 1..Len(es) \/ i = Len(es) + 1
    BY <1>3
  <1>5. \A i \in 1..Len(es) : es[i].revision = i /\ es[i].picture.round \in 0..a.picture.round
    BY DEF InOrder
  <1>6. \A i \in 1..Len(new) : new[i].revision = i /\ new[i].picture.round \in 0..r
    <2> TAKE i \in 1..Len(new)
    <2>1. CASE i \in 1..Len(es)
      <3>1. new[i] = es[i] /\ es[i].revision = i /\ es[i].picture.round \in 0..a.picture.round
        BY <1>3, <1>5, <2>1
      <3> QED
        BY <1>2, <3>1
    <2>2. CASE i = Len(es) + 1
      <3>1. new[i] = e /\ b.revision = i
        BY <1>3, <2>2 DEF InOrder
      <3>2. r \in 0..r
        BY <1>2
      <3> QED
        BY <1>1, <3>1, <3>2
    <2> QED
      BY <1>4, <2>1, <2>2
  <1>7. \A i, j \in 1..Len(new) : i <= j => new[i].picture.round <= new[j].picture.round
    <2> SUFFICES ASSUME NEW i \in 1..Len(new), NEW j \in 1..Len(new), i <= j
                 PROVE  new[i].picture.round <= new[j].picture.round
      OBVIOUS
    <2>1. CASE j = Len(es) + 1
      <3>1. new[j].picture.round = r
        BY <1>1, <1>3, <2>1
      <3> QED
        BY <1>2, <1>6, <3>1
    <2>2. CASE j \in 1..Len(es)
      <3>1. i \in 1..Len(es)
        BY <1>3, <2>2
      <3> QED
        BY <1>3, <2>2, <3>1 DEF InOrder
    <2> QED
      BY <1>4, <2>1, <2>2
  <1>8. \A n \in G : \E i \in 1..Len(new) : new[i].picture.round = n
    <2> TAKE n \in G
    <2>1. CASE n = r
      <3>1. Len(es) + 1 \in 1..Len(new)
        BY <1>3
      <3> QED
        BY <1>1, <1>3, <2>1, <3>1
    <2>2. CASE n \in F
      <3>1. PICK i \in 1..Len(es) : es[i].picture.round = n
        BY <2>2 DEF InOrder
      <3>2. i \in 1..Len(new) /\ new[i].picture.round = n
        BY <1>3, <3>1
      <3> QED
        BY <3>2
    <2> QED
      BY <2>1, <2>2
  <1>9. b.picture = new[Len(new)].picture
    BY <1>1, <1>3
  <1>10. b.revision = Len(new)
    BY <1>3 DEF InOrder
  <1>11. InOrder(new, b, G)
    BY <1>3, <1>6, <1>7, <1>8, <1>9, <1>10 DEF InOrder
  <1> QED
    BY <1>3, <1>11 DEF new, e

\* A picture of which its round has an explanation.
LEMMA KnownIsExplained ==
    ASSUME game \in Games, NEW f \in Factions, NEW p \in Pictures, NEW F \in SUBSET Rounds,
           NEW C \in SUBSET Inputs, p.round >= 0,
           RoundIsFused(f, p, F, C), Newest(game, f, p, F, C), Lasting(game, f, p, F)
    PROVE  ContactsExplained(f, p) /\ ObjectivesExplained(f, p)
  <1> DEFINE n == p.round
  <1>1. n \in F /\ n \in Rounds /\ \A m \in F : m <= n
    BY DEF RoundIsFused
  <1>2. ContactsSeen(f, n) = ContactsIn(game, f, n) /\ ObjectivesSeen(f, n) = ObjectivesIn(game, f, n)
    BY DEF ContactsSeen, ContactsIn, ObjectivesSeen, ObjectivesIn
  <1>3. ContactsExplained(f, p)
    <2>1. \A e \in DOMAIN p.contacts :
             p.contacts[e] = [at |-> p.contacts[e].at, seen |-> p.contacts[e].seen]
      BY PictureTypes
    <2>2. ASSUME NEW e \in DOMAIN p.contacts
          PROVE  /\ Lasts(game, f, e, p.contacts[e].seen, F)
                 /\ p.contacts[e].at = game.at[p.contacts[e].seen][e]
                 /\ p.contacts[e].seen \in F /\ p.contacts[e].seen \in Rounds
                 /\ p.contacts[e].seen = n \/ p.contacts[e].seen < n
      <3>1. /\ Lasts(game, f, e, p.contacts[e].seen, F)
            /\ p.contacts[e].at = game.at[p.contacts[e].seen][e]
        BY DEF Lasting
      <3>2. p.contacts[e].seen \in F
        BY <3>1 DEF Lasts
      <3>3. \A m \in F : m = n \/ m < n
        BY <1>1 DEF Rounds
      <3> QED
        BY <3>1, <3>2, <3>3
    <2>3. ASSUME NEW e \in ContactsIn(game, f, n)
          PROVE  e \in DOMAIN p.contacts /\ p.contacts[e] = [at |-> game.at[n][e], seen |-> n]
      <3>1. ~\E m \in F : m > n
        BY <1>1 DEF Rounds
      <3>2. Lasts(game, f, e, n, F) /\ e \in Elements
        BY <1>1, <2>3, <3>1 DEF Lasts, ContactsIn
      <3>3. e \in DOMAIN p.contacts
        BY <1>1, <3>2 DEF Lasting
      <3>4. \A m \in F : m < n => ~Lasts(game, f, e, m, F)
        <4> SUFFICES ASSUME NEW m \in F, m < n PROVE ~Lasts(game, f, e, m, F)
          OBVIOUS
        <4>1. n > m
          BY <1>1 DEF Rounds
        <4> QED
          BY <1>1, <2>3, <4>1 DEF Lasts
      <3>5. p.contacts[e].seen = n
        BY <2>2, <3>3, <3>4
      <3> QED
        BY <2>1, <2>2, <3>3, <3>5
    <2>4. ASSUME NEW e \in DOMAIN p.contacts \ ContactsIn(game, f, n)
          PROVE  n - p.contacts[e].seen \in 1..K /\ p.contacts[e].at \notin game.sees[n][f]
      <3>1. p.contacts[e].seen # n
        BY <2>2, <2>4 DEF Lasts
      <3>2. n > p.contacts[e].seen /\ p.contacts[e].seen \in Rounds
        BY <1>1, <2>2, <3>1 DEF Rounds
      <3>3. n - p.contacts[e].seen <= K /\ p.contacts[e].at \notin game.sees[n][f]
        BY <1>1, <2>2, <3>2 DEF Lasts
      <3> QED
        BY <1>1, <3>2, <3>3 DEF Rounds
    <2> QED
      BY <1>2, <2>3, <2>4 DEF ContactsExplained
  <1>4. ObjectivesExplained(f, p)
    <2>1. \A c \in DOMAIN p.objectives : c \in Objectives /\ p.objectives[c].seen \in Rounds
      BY PictureTypes
    <2>2. ASSUME NEW c \in ObjectivesIn(game, f, n)
          PROVE  c \in DOMAIN p.objectives /\ p.objectives[c].seen >= n
      <3>1. Learns(game, f, c, n, F, C) /\ c \in Objectives
        BY <1>1 DEF Learns, ObjectivesIn
      <3>2. c \in DOMAIN p.objectives /\ n <= p.objectives[c].seen
        BY <1>1, <3>1 DEF Newest
      <3> QED
        BY <1>1, <2>1, <3>2 DEF Rounds
    <2>3. ASSUME NEW c \in DOMAIN p.objectives
          PROVE  LET o == p.objectives[c]
                     now == ObjectivesSeen(f, n)
                 IN  \/ Alerted(f, c, o) /\ (c \notin now \/ o.seen > n)
                     \/ c \in now /\ o.age = 0 /\ o.holder = game.holders[n][c]
                     \/ c \notin now /\ FirstSeen(f, c, n) /\ o.age # 0
      <3> DEFINE o == p.objectives[c]
      <3>1. /\ Learns(game, f, c, o.seen, F, C) /\ o.holder = game.holders[o.seen][c]
            /\ o.age = Age(n, o.seen)
        BY DEF Newest
      <3> HIDE DEF o
      <3>2. c \in Objectives /\ o.seen \in Rounds
        BY <2>1 DEF o
      <3>3. CASE \E i \in C : i.kind = "lost" /\ i.faction = f /\ i.at = c /\ i.round = o.seen
        <4>1. Alerted(f, c, o)
          BY <3>1, <3>3, InputKinds DEF Alerted
        <4>2. CASE c \in ObjectivesIn(game, f, n) /\ o.seen = n
          <5>1. o.age = 0
            BY <1>1, <3>1, <4>2 DEF Age, Rounds
          <5> QED
            BY <1>2, <3>1, <4>2, <5>1 DEF o
        <4>3. CASE c \in ObjectivesIn(game, f, n) /\ o.seen # n
          <5>1. o.seen > n
            BY <1>1, <2>2, <3>2, <4>3 DEF Rounds, o
          <5> QED
            BY <4>1, <5>1 DEF o
        <4> QED
          BY <1>2, <4>1, <4>2, <4>3 DEF o
      <3>4. CASE o.seen \in F /\ c \in ObjectivesIn(game, f, o.seen)
        <4>1. o.seen <= n
          BY <1>1, <3>4
        <4>2. CASE c \in ObjectivesIn(game, f, n)
          <5>1. o.seen = n
            BY <1>1, <2>2, <3>2, <4>1, <4>2 DEF Rounds, o
          <5>2. o.age = 0
            BY <1>1, <3>1, <5>1 DEF Age, Rounds
          <5> QED
            BY <1>2, <3>1, <4>2, <5>1, <5>2 DEF o
        <4>3. CASE c \notin ObjectivesIn(game, f, n)
          <5>1. o.seen # n
            BY <3>4, <4>3
          <5>2. o.seen < n /\ o.seen \in 0..n
            BY <1>1, <3>2, <4>1, <5>1 DEF Rounds
          <5>3. o.age # 0
            BY <1>1, <3>1, <3>2, <5>2 DEF Age, Rounds
          <5>4. FirstSeen(f, c, n)
            BY <3>4, <5>2 DEF FirstSeen, ObjectivesSeen, ObjectivesIn
          <5> QED
            BY <1>2, <4>3, <5>3, <5>4 DEF o
        <4> QED
          BY <4>2, <4>3
      <3> QED
        BY <3>1, <3>3, <3>4 DEF Learns
    <2> QED
      BY <1>2, <2>2, <2>3 DEF ObjectivesExplained
  <1> QED
    BY <1>3, <1>4

-----------------------------------------------------------------------------
(* The commands.                                                           *)

LEMMA NotAbsent ==
    ASSUME NEW a \in Assessments
    PROVE  /\ a # Absent /\ a.picture \in Pictures /\ a.revision \in Nat
           /\ a.status \in {"open", "closed"} /\ a.closed \in Rounds
  BY DEF Assessments, Absent

\* What the game is said to be, it is said to be when it does not change.
LEMMA GameFrame ==
    ASSUME game' = game
    PROVE  /\ Inputs' = Inputs /\ Alerts' = Alerts
           /\ \A f, p : ContactsExplained(f, p) => ContactsExplained(f, p)'
           /\ \A f, p : ObjectivesExplained(f, p) => ObjectivesExplained(f, p)'
  <1>1. /\ \A f, n : ContactsSeen(f, n)' = ContactsSeen(f, n)
        /\ \A f, n : ObjectivesSeen(f, n)' = ObjectivesSeen(f, n)
        /\ \A f, n : Lost(f, n)' = Lost(f, n)
    BY DEF ContactsSeen, ObjectivesSeen, Lost
  <1>2. Alerts' = Alerts
    BY <1>1 DEF Alerts
  <1>3. Inputs' = Inputs
    BY <1>2 DEF Inputs
  <1>4. \A f, p : ContactsExplained(f, p) => ContactsExplained(f, p)'
    BY <1>1 DEF ContactsExplained
  <1>5. /\ \A f, c, n : FirstSeen(f, c, n)' <=> FirstSeen(f, c, n)
        /\ \A f, c, o : Alerted(f, c, o)' <=> Alerted(f, c, o)
    BY <1>1 DEF FirstSeen, Alerted
  <1>6. \A f, p : ObjectivesExplained(f, p) => ObjectivesExplained(f, p)'
    BY <1>1, <1>5 DEF ObjectivesExplained
  <1> QED
    BY <1>2, <1>3, <1>4, <1>6

LEMMA OpenType == Open \in Pictures /\ DOMAIN Open.contacts = {} /\ DOMAIN Open.objectives = {}
  <1>1. \A S, T : <<>> \in Partial(S, T) /\ DOMAIN <<>> = {}
    <2> TAKE S, T
    <2>1. <<>> \in [1..0 -> T]
      BY EmptySeq, LenProperties
    <2>2. DOMAIN <<>> = {} /\ <<>> \in [DOMAIN <<>> -> T]
      BY <2>1
    <2> QED
      BY <2>2, PartialDef
  <1>2. -1 \in -1..Limit
    OBVIOUS
  <1> QED
    BY <1>1, <1>2 DEF Open, Pictures

\* What a replica has locked.
LEMMA LockedTypes ==
    ASSUME Typed, ReadIsCurrent, NEW r \in Replicas, tx[r] # Idle
    PROVE  /\ tx[r].input \in Observations \cup Alerts /\ tx[r].input \in Inputs
           /\ tx[r].input.faction \in Factions /\ tx[r].input.round \in Rounds
           /\ tx[r].input.kind \in {"lost", "observed"}
           /\ tx[r].read \in Assessments
           /\ tx[r].read = row[tx[r].input.faction]
  <1>1. tx[r] \in [input : Observations \cup Alerts, read : Assessments]
    BY DEF Typed
  <1>2. tx[r].input \in Observations \cup Alerts /\ tx[r].read \in Assessments
    BY <1>1
  <1>3. tx[r].input \in Inputs
    BY <1>2 DEF Inputs
  <1> QED
    BY <1>2, <1>3, InputKinds DEF ReadIsCurrent

LEMMA InitInv == Init => IInv
  <1> SUFFICES ASSUME Init PROVE IInv
    OBVIOUS
  <1> USE DEF Init
  <1>1. Typed
    <2>1. <<>> \in Seq(Issues)
      BY EmptySeq
    <2> QED
      BY <2>1 DEF Typed, Issues
  <1>2. ReadIsCurrent
    BY DEF ReadIsCurrent
  <1>3. Unopened
    BY DEF Unopened
  <1>4. Known
    BY DEF Known, OpenFactions
  <1>5. Explained
    <2>1. DOMAIN <<>> = {}
      BY OpenType DEF Open
    <2> QED
      BY <2>1 DEF Explained, Stated
  <1> QED
    BY <1>1, <1>2, <1>3, <1>4, <1>5 DEF IInv

\* OpenAll opens what nothing was handled for.
LEMMA OpenAllInv == IInv /\ OpenAll => IInv'
  <1> SUFFICES ASSUME IInv, OpenAll PROVE IInv'
    OBVIOUS
  <1> USE DEF IInv
  <1> DEFINE i == [kind |-> "started"]
             new == [status |-> "open", closed |-> 0, revision |-> 0, picture |-> Open]
  <1>1. /\ row' = [f \in Factions |-> IF row[f] # Absent THEN row[f] ELSE new]
        /\ claimed' = claimed \cup {i}
        /\ game' = game /\ issued' = issued /\ fused' = fused /\ tx' = tx
        /\ i \in Inputs /\ i.kind = "started"
    BY DEF OpenAll, Inputs
  <1>2. new \in Assessments /\ new # Absent /\ new.picture = Open /\ new.revision = 0 /\ new.status = "open"
    <2>1. 0 \in Rounds
      BY DEF Rounds
    <2> QED
      BY <2>1, OpenType DEF Assessments, Absent
  <1> HIDE DEF i, new
  <1>3. Typed'
    BY <1>1, <1>2, GameFrame DEF Typed
  <1>4. ReadIsCurrent'
    <2>1. \A r \in Replicas : tx[r] # Idle =>
             tx[r].input.faction \in Factions /\ row[tx[r].input.faction] # Absent
      BY LockedTypes, NotAbsent
    <2>2. \A f \in Factions : row[f] # Absent => row'[f] = row[f]
      BY <1>1
    <2> QED
      BY <1>1, <2>1, <2>2 DEF ReadIsCurrent
  <1>5. Unopened'
    <2>1. \A f \in Factions : row'[f] # Absent
      BY <1>1, <1>2
    <2> QED
      BY <2>1 DEF Unopened
  <1>6. Known'
    <2> SUFFICES ASSUME NEW f \in Factions
                 PROVE  Knows(game, f, row'[f], issued[f], fused[f], claimed \cup {i})
      BY <1>1 DEF Known, OpenFactions
    <2>1. CASE row[f] # Absent
      <3>1. row'[f] = row[f] /\ Knows(game, f, row[f], issued[f], fused[f], claimed)
        BY <1>1, <2>1 DEF Known, OpenFactions
      <3> QED
        BY <1>1, <3>1, TellsNothing DEF Knows
    <2>2. CASE row[f] = Absent
      <3>1. row'[f] = new /\ fused[f] = {} /\ issued[f] = <<>>
        BY <1>1, <2>2 DEF Unopened
      <3>2. \A j \in claimed \cup {i} : j.kind \in {"lost", "observed"} => j.faction # f
        BY <1>1, <2>2 DEF Unopened
      <3>3. Open.round = -1
        BY DEF Open
      <3>4. RoundIsFused(f, Open, {}, claimed \cup {i})
        BY <3>2, <3>3 DEF RoundIsFused
      <3>5. Newest(game, f, Open, {}, claimed \cup {i})
        BY <3>2, OpenType DEF Newest, Learns
      <3>6. Lasting(game, f, Open, {})
        BY OpenType DEF Lasting, Lasts
      <3>7. InOrder(<<>>, new, {})
        <4>1. Len(<<>>) = 0
          BY EmptySeq
        <4> QED
          BY <1>2, <4>1 DEF InOrder
      <3> QED
        BY <1>2, <3>1, <3>4, <3>5, <3>6, <3>7 DEF Knows
    <2> QED
      BY <2>1, <2>2
  <1>7. Explained'
    BY <1>1, GameFrame DEF Explained, Stated
  <1> QED
    BY <1>3, <1>4, <1>5, <1>6, <1>7

\* CloseAll changes no picture, and no row that is held.
LEMMA CloseAllInv == IInv /\ CloseAll => IInv'
  <1> SUFFICES ASSUME IInv, CloseAll PROVE IInv'
    OBVIOUS
  <1> USE DEF IInv
  <1> DEFINE i == [kind |-> "concluded", round |-> Limit]
  <1>1. /\ row' = [f \in Factions |-> IF row[f] = Absent THEN row[f]
                      ELSE [row[f] EXCEPT !.status = "closed", !.closed = Limit]]
        /\ claimed' = claimed \cup {i}
        /\ game' = game /\ issued' = issued /\ fused' = fused /\ tx' = tx
        /\ i \in Inputs /\ i.kind = "concluded"
        /\ \A f \in Factions : Holding(f) = {}
    BY DEF CloseAll, Inputs
  <1> HIDE DEF i
  <1>2. ASSUME NEW f \in Factions
        PROVE  \/ row[f] = Absent /\ row'[f] = Absent
               \/ /\ row[f] # Absent /\ row'[f] # Absent
                  /\ row'[f] \in Assessments
                  /\ row'[f].closed = Limit
                  /\ row'[f].revision = row[f].revision /\ row'[f].picture = row[f].picture
    <2>1. CASE row[f] = Absent
      BY <1>1, <2>1
    <2>2. CASE row[f] # Absent
      <3>1. row[f] \in Assessments
        BY <2>2 DEF Typed
      <3>2. row'[f] = [row[f] EXCEPT !.status = "closed", !.closed = Limit]
        BY <1>1, <2>2
      <3>3. Limit \in Rounds
        BY DEF Rounds
      <3>4. row[f] = [status |-> row[f].status, closed |-> row[f].closed,
                      revision |-> row[f].revision, picture |-> row[f].picture]
        BY <3>1 DEF Assessments
      <3>5. row'[f] = [status |-> "closed", closed |-> Limit,
                       revision |-> row[f].revision, picture |-> row[f].picture]
        BY <3>2, <3>4
      <3>6. row'[f] \in Assessments
        BY <3>1, <3>3, <3>5, NotAbsent DEF Assessments
      <3> QED
        BY <2>2, <3>5, <3>6, NotAbsent
    <2> QED
      BY <2>1, <2>2
  <1>3. Typed'
    <2>1. row' \in [Factions -> {Absent} \cup Assessments]
      BY <1>1, <1>2
    <2> QED
      BY <1>1, <2>1, GameFrame DEF Typed
  <1>4. ReadIsCurrent'
    <2>1. \A r \in Replicas : tx[r] = Idle
      BY <1>1, LockedTypes DEF Holding
    <2> QED
      BY <1>1, <2>1 DEF ReadIsCurrent
  <1>5. Unopened'
    BY <1>1, <1>2 DEF Unopened
  <1>6. Known'
    <2> SUFFICES ASSUME NEW f \in Factions, row'[f] # Absent
                 PROVE  Knows(game, f, row'[f], issued[f], fused[f], claimed \cup {i})
      BY <1>1 DEF Known, OpenFactions
    <2>1. /\ row[f] # Absent /\ row'[f].closed = Limit
          /\ row'[f].revision = row[f].revision /\ row'[f].picture = row[f].picture
      BY <1>2
    <2>2. Knows(game, f, row[f], issued[f], fused[f], claimed)
      BY <2>1 DEF Known, OpenFactions
    <2>3. /\ RoundIsFused(f, row[f].picture, fused[f], claimed \cup {i})
          /\ Newest(game, f, row[f].picture, fused[f], claimed \cup {i})
      BY <1>1, <2>2, TellsNothing DEF Knows
    <2>4. InOrder(issued[f], row'[f], fused[f])
      BY <2>1, <2>2 DEF Knows, InOrder
    <2> QED
      BY <2>1, <2>2, <2>3, <2>4 DEF Knows
  <1>7. Explained'
    BY <1>1, GameFrame DEF Explained, Stated
  <1> QED
    BY <1>3, <1>4, <1>5, <1>6, <1>7

LEMMA LockInv ==
    ASSUME IInv, NEW r \in Replicas, NEW i \in Observations \cup Alerts, Lock(r, i)
    PROVE  IInv'
  <1> USE DEF IInv
  <1>1. /\ tx' = [tx EXCEPT ![r] = [input |-> i, read |-> row[i.faction]]]
        /\ row[i.faction] # Absent /\ Holding(i.faction) = {}
        /\ game' = game /\ row' = row /\ issued' = issued /\ claimed' = claimed /\ fused' = fused
    BY DEF Lock
  <1>2. i.faction \in Factions
    BY InputKinds DEF Inputs
  <1>3. Typed'
    <2>1. row[i.faction] \in Assessments
      BY <1>1, <1>2 DEF Typed
    <2> QED
      BY <1>1, <2>1, GameFrame DEF Typed
  <1>4. ReadIsCurrent'
    <2>1. \A q \in Replicas : tx[q] # Idle => tx[q].input.faction # i.faction
      BY <1>1 DEF Holding
    <2>2. /\ tx'[r].input = i /\ tx'[r].read = row[i.faction]
          /\ \A q \in Replicas : q # r => tx'[q] = tx[q]
      BY <1>1 DEF Typed
    <2> QED
      BY <1>1, <2>1, <2>2 DEF ReadIsCurrent
  <1>5. Unopened' /\ Known'
    BY <1>1 DEF Unopened, Known, OpenFactions
  <1>6. Explained'
    BY <1>1, GameFrame DEF Explained, Stated
  <1> QED
    BY <1>3, <1>4, <1>5, <1>6

LEMMA RollBackInv ==
    ASSUME IInv, NEW r \in Replicas, RollBack(r)
    PROVE  IInv'
  <1> USE DEF IInv
  <1>1. /\ tx' = [tx EXCEPT ![r] = Idle]
        /\ game' = game /\ row' = row /\ issued' = issued /\ claimed' = claimed /\ fused' = fused
    BY DEF RollBack
  <1>2. Typed'
    BY <1>1, GameFrame DEF Typed
  <1>3. ReadIsCurrent'
    BY <1>1 DEF ReadIsCurrent, Typed
  <1>4. Unopened' /\ Known'
    BY <1>1 DEF Unopened, Known, OpenFactions
  <1>5. Explained'
    BY <1>1, GameFrame DEF Explained, Stated
  <1> QED
    BY <1>2, <1>3, <1>4, <1>5

\* An input of f's is handled: f's assessment becomes b, what f is issued es,
\* and what is fused of it G, and nothing of another faction's changes.
LEMMA HandledInv ==
    ASSUME IInv, NEW r \in Replicas, tx[r] # Idle, Commit(r),
           NEW f \in Factions, f = tx[r].input.faction,
           NEW b \in Assessments, row' = [row EXCEPT ![f] = b],
           NEW es \in Seq(Issues), issued' = [issued EXCEPT ![f] = es],
           NEW G \in SUBSET Rounds, fused' = [fused EXCEPT ![f] = G],
           Knows(game, f, b, es, G, claimed \cup {tx[r].input}),
           \A k \in 1..Len(es) : \/ es[k].picture \in Stated(f)
                                 \/ /\ ContactsExplained(f, es[k].picture)
                                    /\ ObjectivesExplained(f, es[k].picture)
    PROVE  IInv'
  <1> USE DEF IInv
  <1>1. game' = game /\ claimed' = claimed \cup {tx[r].input} /\ tx' = [tx EXCEPT ![r] = Idle]
    BY DEF Commit
  <1>2. tx[r].input \in Inputs /\ row[f] # Absent
    BY LockedTypes, NotAbsent
  <1>3. /\ row'[f] = b /\ issued'[f] = es /\ fused'[f] = G
        /\ \A h \in Factions : h # f => row'[h] = row[h] /\ issued'[h] = issued[h] /\ fused'[h] = fused[h]
    BY DEF Typed
  <1>4. Typed'
    <2>1. Inputs' = Inputs /\ Alerts' = Alerts
      BY <1>1, GameFrame
    <2>2. tx' \in [Replicas -> {Idle} \cup [input : Observations \cup Alerts, read : Assessments]]
      BY <1>1 DEF Typed
    <2>3. /\ row' \in [Factions -> {Absent} \cup Assessments]
          /\ issued' \in [Factions -> Seq([revision : Nat, picture : Pictures])]
          /\ fused' \in [Factions -> SUBSET Rounds]
      BY DEF Typed, Issues
    <2>4. claimed' \subseteq Inputs /\ game' \in Games
      BY <1>1, <1>2 DEF Typed
    <2> QED
      BY <2>1, <2>2, <2>3, <2>4 DEF Typed
  <1>5. ReadIsCurrent'
    <2>1. \A q \in Replicas : tx'[q] # Idle =>
             /\ q # r /\ tx'[q] = tx[q] /\ tx[q].input.faction # f
             /\ tx[q].input.faction \in Factions /\ tx[q].read = row[tx[q].input.faction]
      BY <1>1, LockedTypes DEF ReadIsCurrent, Typed
    <2> QED
      BY <1>3, <2>1 DEF ReadIsCurrent
  <1>6. Unopened'
    <2>1. row'[f] # Absent
      BY <1>3, NotAbsent
    <2> QED
      BY <1>1, <1>3, <2>1 DEF Unopened
  <1>7. Known'
    <2> SUFFICES ASSUME NEW h \in Factions, row'[h] # Absent
                 PROVE  Knows(game, h, row'[h], issued'[h], fused'[h], claimed \cup {tx[r].input})
      BY <1>1 DEF Known, OpenFactions
    <2>1. CASE h = f
      BY <1>3, <2>1
    <2>2. CASE h # f
      <3>1. Knows(game, h, row[h], issued[h], fused[h], claimed)
        BY <1>3, <2>2 DEF Known, OpenFactions
      <3>2. /\ RoundIsFused(h, row[h].picture, fused[h], claimed \cup {tx[r].input})
            /\ Newest(game, h, row[h].picture, fused[h], claimed \cup {tx[r].input})
        BY <2>2, <3>1, TellsNothing DEF Knows
      <3> QED
        BY <1>3, <2>2, <3>1, <3>2 DEF Knows
    <2> QED
      BY <2>1, <2>2
  <1>8. Explained'
    <2> SUFFICES ASSUME NEW h \in Factions, NEW p, p \in Stated(h)'
                 PROVE  ContactsExplained(h, p) /\ ObjectivesExplained(h, p)
      BY <1>1, GameFrame DEF Explained
    <2>1. CASE h # f
      BY <1>3, <2>1 DEF Explained, Stated
    <2>2. CASE h = f
      <3>1. PICK k \in 1..Len(es) : p = es[k].picture
        BY <1>3, <2>2, LenProperties DEF Stated
      <3> QED
        BY <2>2, <3>1 DEF Explained
    <2> QED
      BY <2>1, <2>2
  <1> QED
    BY <1>4, <1>5, <1>6, <1>7, <1>8

\* What save records.
LEMMA SaveIs ==
    ASSUME row \in [Factions -> {Absent} \cup Assessments], NEW f \in Factions,
           row[f] \in Assessments, NEW p \in Pictures, NEW v \in Nat, Save(f, p, v)
    PROVE  \E b \in Assessments :
             /\ row' = [row EXCEPT ![f] = b]
             /\ b.status = row[f].status /\ b.closed = row[f].closed
             /\ b.revision = v /\ b.picture = p
  <1>0. PICK a \in Assessments : a = row[f]
    OBVIOUS
  <1> DEFINE b == [status |-> a.status, closed |-> a.closed, revision |-> v, picture |-> p]
  <1>1. a = [status |-> a.status, closed |-> a.closed, revision |-> a.revision, picture |-> a.picture]
    BY DEF Assessments
  <1>2. b \in Assessments
    BY NotAbsent DEF Assessments
  <1>3. [a EXCEPT !.picture = p, !.revision = v] = b
    <2>1. PICK d : d = [a EXCEPT !.picture = p]
      OBVIOUS
    <2>2. [a EXCEPT !.picture = p, !.revision = v] = [d EXCEPT !.revision = v]
      BY <2>1
    <2>3. d = [status |-> a.status, closed |-> a.closed, revision |-> a.revision, picture |-> p]
      BY <1>1, <2>1
    <2>4. [d EXCEPT !.revision = v] = b
      BY <2>3
    <2> QED
      BY <2>2, <2>4
  <1>4. row' = [row EXCEPT ![f] = [a EXCEPT !.picture = p, !.revision = v]]
    BY <1>0 DEF Save
  <1>5. row' = [row EXCEPT ![f] = b]
    BY <1>3, <1>4
  <1> QED
    BY <1>0, <1>2, <1>5

\* An input that changes nothing of f's.
LEMMA PassedOver ==
    ASSUME IInv, NEW r \in Replicas, tx[r] # Idle, Commit(r), UNCHANGED <<row, issued, fused>>,
           NEW f \in Factions, f = tx[r].input.faction,
           RoundIsFused(f, row[f].picture, fused[f], claimed \cup {tx[r].input}),
           Newest(game, f, row[f].picture, fused[f], claimed \cup {tx[r].input})
    PROVE  IInv'
  <1> USE DEF IInv
  <1>1. row[f] \in Assessments /\ row[f] # Absent
    BY LockedTypes, NotAbsent
  <1>2. /\ row' = [row EXCEPT ![f] = row[f]] /\ issued' = [issued EXCEPT ![f] = issued[f]]
        /\ fused' = [fused EXCEPT ![f] = fused[f]]
        /\ issued[f] \in Seq(Issues) /\ fused[f] \in SUBSET Rounds
    BY DEF Typed, Issues
  <1>3. Knows(game, f, row[f], issued[f], fused[f], claimed)
    BY <1>1 DEF Known, OpenFactions
  <1>4. Knows(game, f, row[f], issued[f], fused[f], claimed \cup {tx[r].input})
    BY <1>3 DEF Knows
  <1>5. \A k \in 1..Len(issued[f]) : issued[f][k].picture \in Stated(f)
    <2>1. DOMAIN issued[f] = 1..Len(issued[f])
      BY <1>2, LenProperties
    <2> QED
      BY <2>1 DEF Stated
  <1> QED
    BY <1>1, <1>2, <1>4, <1>5, HandledInv

\* An input that changes f's picture into p, which is raised.
LEMMA RaisedInv ==
    ASSUME IInv, NEW r \in Replicas, tx[r] # Idle, Commit(r),
           NEW f \in Factions, f = tx[r].input.faction,
           NEW p \in Pictures, Save(f, p, row[f].revision + 1), Raise(f, p, row[f].revision + 1),
           NEW G \in SUBSET Rounds, fused' = [fused EXCEPT ![f] = G],
           row[f].picture.round <= p.round, 0 <= p.round, G \subseteq fused[f] \cup {p.round},
           RoundIsFused(f, p, G, claimed \cup {tx[r].input}),
           Newest(game, f, p, G, claimed \cup {tx[r].input}),
           Lasting(game, f, p, G)
    PROVE  IInv'
  <1> USE DEF IInv
  <1>1. row[f] \in Assessments /\ row[f] # Absent /\ row[f].revision \in Nat
    BY LockedTypes, NotAbsent
  <1>2. PICK b \in Assessments :
          /\ row' = [row EXCEPT ![f] = b]
          /\ b.status = row[f].status /\ b.closed = row[f].closed
          /\ b.revision = row[f].revision + 1 /\ b.picture = p
    <2>1. PICK v \in Nat : v = row[f].revision + 1
      BY <1>1
    <2>2. row \in [Factions -> {Absent} \cup Assessments] /\ Save(f, p, v)
      BY <2>1 DEF Typed
    <2>3. PICK b \in Assessments :
            /\ row' = [row EXCEPT ![f] = b]
            /\ b.status = row[f].status /\ b.closed = row[f].closed
            /\ b.revision = v /\ b.picture = p
      BY <1>1, <2>2, SaveIs
    <2> QED
      BY <2>1, <2>3
  <1>3. issued[f] \in Seq(Issues) /\ fused[f] \in SUBSET Rounds
    BY DEF Typed, Issues
  <1> DEFINE e == [revision |-> b.revision, picture |-> b.picture]
             es == Append(issued[f], e)
  <1>4. issued' = [issued EXCEPT ![f] = es]
    BY <1>2 DEF Raise
  <1>5. Knows(game, f, row[f], issued[f], fused[f], claimed)
    BY <1>1 DEF Known, OpenFactions
  <1>6. InOrder(es, b, G) /\ es \in Seq(Issues)
    BY <1>1, <1>2, <1>3, <1>5, RaisedInOrder DEF Knows
  <1>7. Knows(game, f, b, es, G, claimed \cup {tx[r].input})
    <2> HIDE DEF es
    <2> QED
      BY <1>2, <1>5, <1>6 DEF Knows
  <1>8. ContactsExplained(f, p) /\ ObjectivesExplained(f, p)
    <2>1. claimed \cup {tx[r].input} \subseteq Inputs
      BY LockedTypes DEF Typed
    <2> QED
      BY <2>1, KnownIsExplained DEF Typed
  <1>9. e \in Issues /\ e.picture = p
    BY <1>2, NotAbsent DEF Issues
  <1>10. \A k \in 1..Len(es) : es[k].picture \in Stated(f) \/ es[k].picture = p
    <2> HIDE DEF e
    <2> TAKE k \in 1..Len(es)
    <2>1. Len(issued[f]) \in Nat /\ Len(es) = Len(issued[f]) + 1
      BY <1>3, <1>9, AppendProperties, LenProperties
    <2>2. CASE k \in 1..Len(issued[f])
      <3>1. es[k] = issued[f][k] /\ k \in DOMAIN issued[f]
        BY <1>3, <1>9, <2>2, AppendProperties, LenProperties
      <3> QED
        BY <3>1 DEF Stated
    <2>3. CASE k = Len(issued[f]) + 1
      <3>1. es[k] = e
        BY <1>3, <1>9, <2>3, AppendProperties
      <3> QED
        BY <1>9, <3>1
    <2> QED
      BY <2>1, <2>2, <2>3
  <1> HIDE DEF es
  <1> QED
    BY <1>2, <1>4, <1>6, <1>7, <1>8, <1>10, HandledInv

\* An observation is passed over, or fused into a picture that is raised.
LEMMA ObserveInv ==
    ASSUME IInv, NEW r \in Replicas, Observe(r)
    PROVE  IInv'
  <1> USE DEF IInv
  <1>1. tx[r] # Idle /\ tx[r].input.kind = "observed" /\ Commit(r)
    BY DEF Observe, Handling
  <1>2. PICK i \in Inputs : i = tx[r].input
    BY <1>1, LockedTypes
  <1>3. PICK f \in Factions : f = i.faction
    BY <1>1, <1>2, LockedTypes
  <1>4. PICK n \in Rounds : n = i.round
    BY <1>1, <1>2, LockedTypes
  <1>5. PICK a \in Assessments : a = row[f] /\ tx[r].read = a
    BY <1>1, <1>2, <1>3, LockedTypes
  <1>6. a # Absent /\ a.picture \in Pictures /\ a.revision \in Nat
        /\ a.picture.round \in Int /\ a.picture.round >= -1
    BY NotAbsent, PictureTypes
  <1>7. Knows(game, f, a, issued[f], fused[f], claimed)
    BY <1>5, <1>6 DEF Known, OpenFactions
  <1>8. ~PastEnd(a, n)
    BY <1>7 DEF PastEnd, Knows, Rounds
  <1>9. fused[f] \in SUBSET Rounds /\ claimed \in SUBSET Inputs /\ game \in Games
    BY DEF Typed
  <1>10. CASE n <= a.picture.round
    <2>1. UNCHANGED <<row, issued, fused>>
      BY <1>2, <1>3, <1>4, <1>5, <1>10 DEF Observe
    <2>2. /\ RoundIsFused(f, a.picture, fused[f], claimed \cup {i})
          /\ Newest(game, f, a.picture, fused[f], claimed \cup {i})
      BY <1>1, <1>2, <1>4, <1>7, <1>10, TellsNothing DEF Knows
    <2> QED
      BY <1>1, <1>2, <1>3, <1>5, <2>1, <2>2, PassedOver
  <1>11. CASE ~(n <= a.picture.round)
    <2>1. PICK p \in Pictures : p = Fuse(a.picture, f, n) /\ p.round = n
      BY <1>6, <1>9, FuseType
    <2>2. /\ Save(f, p, a.revision + 1) /\ Raise(f, p, a.revision + 1)
          /\ fused' = [fused EXCEPT ![f] = @ \cup {n}]
      BY <1>2, <1>3, <1>4, <1>5, <1>8, <1>11, <2>1 DEF Observe
    <2>3. n > a.picture.round /\ a.picture.round <= n /\ 0 <= n
      BY <1>6, <1>11 DEF Rounds
    <2>4. /\ RoundIsFused(f, p, fused[f] \cup {n}, claimed \cup {i})
          /\ Newest(game, f, p, fused[f] \cup {n}, claimed \cup {i})
          /\ Lasting(game, f, p, fused[f] \cup {n})
      BY <1>1, <1>2, <1>3, <1>4, <1>6, <1>7, <1>9, <2>1, <2>3, FuseKnows DEF Knows
    <2>5. PICK G \in SUBSET Rounds : G = fused[f] \cup {n}
      BY <1>9
    <2>6. fused' = [fused EXCEPT ![f] = G] /\ G \subseteq fused[f] \cup {p.round}
      BY <2>1, <2>2, <2>5
    <2>7. row[f].picture.round <= p.round /\ 0 <= p.round
      BY <1>5, <2>1, <2>3
    <2> QED
      BY <1>1, <1>2, <1>3, <1>5, <2>2, <2>4, <2>5, <2>6, <2>7, RaisedInv
  <1> QED
    BY <1>10, <1>11

\* An alert changes nothing, or is raised, or is ahead of its round's
\* observation, which will carry it.
LEMMA AlertLostInv ==
    ASSUME IInv, NEW r \in Replicas, AlertLost(r)
    PROVE  IInv'
  <1> USE DEF IInv
  <1>1. tx[r] # Idle /\ tx[r].input.kind = "lost" /\ Commit(r) /\ fused' = fused
    BY DEF AlertLost, Handling
  <1>2. PICK i \in Inputs : i = tx[r].input
    BY <1>1, LockedTypes
  <1>3. PICK f \in Factions : f = i.faction
    BY <1>1, <1>2, LockedTypes
  <1>4. PICK n \in Rounds : n = i.round
    BY <1>1, <1>2, LockedTypes
  <1>5. PICK a \in Assessments : a = row[f] /\ tx[r].read = a
    BY <1>1, <1>2, <1>3, LockedTypes
  <1>6. a # Absent /\ a.picture \in Pictures /\ a.revision \in Nat
        /\ a.picture.round \in Int /\ a.picture.round >= -1
    BY NotAbsent, PictureTypes
  <1>7. Knows(game, f, a, issued[f], fused[f], claimed)
    BY <1>5, <1>6 DEF Known, OpenFactions
  <1>8. ~PastEnd(a, n)
    BY <1>7 DEF PastEnd, Knows, Rounds
  <1>9. /\ fused[f] \in SUBSET Rounds /\ claimed \in SUBSET Inputs /\ game \in Games
        /\ issued[f] \in Seq(Issues) /\ row \in [Factions -> {Absent} \cup Assessments]
    BY DEF Typed, Issues
  <1>10. PICK c \in Objectives : c = i.at
    BY <1>1, <1>2, InputKinds
  <1>11. PICK p \in Pictures :
           /\ p = Alert(a.picture, c, n) /\ p.round = a.picture.round
           /\ p # a.picture => c \in DOMAIN p.objectives /\ p.objectives[c] = Sighting(a.picture.round, c, n)
    BY <1>6, <1>9, AlertType
  <1>12. /\ RoundIsFused(f, p, fused[f], claimed \cup {i})
         /\ Newest(game, f, p, fused[f], claimed \cup {i})
         /\ Lasting(game, f, p, fused[f])
    BY <1>1, <1>2, <1>3, <1>4, <1>6, <1>7, <1>9, <1>10, <1>11, AlertKnows DEF Knows
  <1>13. CASE p = a.picture
    <2>1. UNCHANGED <<row, issued, fused>>
      BY <1>1, <1>2, <1>3, <1>4, <1>5, <1>10, <1>11, <1>13 DEF AlertLost
    <2> QED
      BY <1>1, <1>2, <1>3, <1>5, <1>12, <1>13, <2>1, PassedOver
  <1>14. CASE p # a.picture /\ Covers(a.picture, n)
    <2>1. Save(f, p, a.revision + 1) /\ Raise(f, p, a.revision + 1)
      BY <1>2, <1>3, <1>4, <1>5, <1>8, <1>10, <1>11, <1>14 DEF AlertLost
    <2>2. a.picture.round <= p.round /\ 0 <= p.round
      BY <1>6, <1>11, <1>14 DEF Covers, Rounds
    <2>3. fused[f] \in SUBSET Rounds /\ fused' = [fused EXCEPT ![f] = fused[f]]
      BY <1>1, <1>9 DEF Typed
    <2> QED
      BY <1>1, <1>2, <1>3, <1>5, <1>12, <2>1, <2>2, <2>3, RaisedInv
  <1>15. CASE p # a.picture /\ ~Covers(a.picture, n)
    <2>1. Save(f, p, a.revision) /\ issued' = issued
      BY <1>2, <1>3, <1>4, <1>5, <1>8, <1>10, <1>11, <1>15 DEF AlertLost
    <2>2. PICK b \in Assessments :
            /\ row' = [row EXCEPT ![f] = b]
            /\ b.status = a.status /\ b.closed = a.closed /\ b.revision = a.revision /\ b.picture = p
      BY <1>5, <1>6, <1>9, <2>1, SaveIs
    <2>3. Ahead(p)
      <3>1. p.objectives[c].seen = n /\ c \in DOMAIN p.objectives
        BY <1>11, <1>15 DEF Sighting
      <3>2. n > p.round
        BY <1>6, <1>11, <1>15 DEF Covers, Rounds
      <3> QED
        BY <3>1, <3>2 DEF Ahead
    <2>4. InOrder(issued[f], b, fused[f])
      BY <1>7, <1>11, <2>2, <2>3 DEF Knows, InOrder
    <2>5. Knows(game, f, b, issued[f], fused[f], claimed \cup {i})
      BY <1>7, <1>12, <2>2, <2>4 DEF Knows
    <2>6. issued' = [issued EXCEPT ![f] = issued[f]] /\ fused' = [fused EXCEPT ![f] = fused[f]]
      BY <1>1, <2>1 DEF Typed
    <2>7. \A k \in 1..Len(issued[f]) : issued[f][k].picture \in Stated(f)
      BY <1>9, LenProperties DEF Stated
    <2> QED
      BY <1>1, <1>2, <1>3, <1>9, <2>2, <2>5, <2>6, <2>7, HandledInv
  <1> QED
    BY <1>13, <1>14, <1>15

\* The invariant holds at the start, and no command breaks it.
LEMMA Inductive == Spec => []IInv
  <1>1. IInv /\ [Next]_vars => IInv'
    <2> SUFFICES ASSUME IInv, [Next]_vars PROVE IInv'
      OBVIOUS
    <2>1. CASE UNCHANGED vars
      <3> USE <2>1 DEF vars, IInv
      <3>1. Typed' /\ ReadIsCurrent' /\ Unopened' /\ Known'
        BY GameFrame DEF Typed, ReadIsCurrent, Unopened, Known, OpenFactions
      <3>2. Explained'
        BY GameFrame DEF Explained, Stated
      <3> QED
        BY <3>1, <3>2
    <2>2. CASE OpenAll
      BY <2>2, OpenAllInv
    <2>3. CASE CloseAll
      BY <2>3, CloseAllInv
    <2>4. CASE \E r \in Replicas : \E i \in Observations \cup Alerts : Lock(r, i)
      BY <2>4, LockInv
    <2>5. CASE \E r \in Replicas : Observe(r)
      BY <2>5, ObserveInv
    <2>6. CASE \E r \in Replicas : AlertLost(r)
      BY <2>6, AlertLostInv
    <2>7. CASE \E r \in Replicas : RollBack(r)
      BY <2>7, RollBackInv
    <2> QED
      BY <2>1, <2>2, <2>3, <2>4, <2>5, <2>6, <2>7 DEF Next
  <1> QED
    BY <1>1, InitInv, PTL DEF Spec

-----------------------------------------------------------------------------
(* The latest round of some.                                               *)

LEMMA MaxIs ==
    ASSUME NEW S \in SUBSET Rounds, NEW n \in S, \A m \in S : m <= n
    PROVE  Max(S) = n
  <1>1. \A x, y \in Rounds : x <= y /\ y <= x => x = y
    BY DEF Rounds
  <1>2. \A y \in S : n >= y
    BY DEF Rounds
  <1>3. Max(S) \in S /\ \A y \in S : Max(S) >= y
    BY <1>2 DEF Max
  <1>4. n <= Max(S) /\ Max(S) <= n
    BY <1>3 DEF Rounds
  <1> QED
    BY <1>1, <1>3, <1>4

LEMMA MaxOf ==
    ASSUME NEW S \in SUBSET Rounds, S # {}
    PROVE  Max(S) \in S /\ \A m \in S : m <= Max(S)
  <1> DEFINE T == {Limit - n : n \in S}
  <1>1. T \subseteq Nat /\ T # {}
    <2>1. \A n \in Rounds : Limit - n \in Nat
      BY DEF Rounds
    <2> QED
      BY <2>1
  <1>2. PICK t \in T : \A u \in T : ~(<<u, t>> \in OpToRel(<, Nat))
    <2> HIDE DEF T
    <2> QED
      BY <1>1, NatLessThanWellFounded, WFMin
  <1>3. \A u \in T : ~(u < t)
    <2> HIDE DEF T
    <2> QED
      BY <1>1, <1>2 DEF OpToRel
  <1>4. PICK n \in S : t = Limit - n
    BY <1>2
  <1>5. \A m \in S : m <= n
    <2> TAKE m \in S
    <2>1. ~(Limit - m < t)
      BY <1>3
    <2> QED
      BY <1>4, <2>1 DEF Rounds
  <1> QED
    BY <1>5, MaxIs

-----------------------------------------------------------------------------
(* The theorems.                                                           *)

\* What an open assessment's faction has learned.
LEMMA LearnedIs ==
    ASSUME Typed, NEW f \in Factions, NEW c \in Objectives
    PROVE  /\ Learned(f, c) \in SUBSET Rounds
           /\ \A n : n \in Learned(f, c) <=> Learns(game, f, c, n, fused[f], claimed)
  <1>1. fused[f] \in SUBSET Rounds /\ claimed \subseteq Inputs
    BY DEF Typed
  <1>2. \A n : n \in Learned(f, c) <=>
           \/ n \in fused[f] /\ c \in ObjectivesIn(game, f, n)
           \/ \E i \in claimed \cap Alerts : i.faction = f /\ i.at = c /\ i.round = n
    BY DEF Learned, ObjectivesSeen, ObjectivesIn
  <1>3. \A i \in claimed : i.kind = "lost" <=> i \in Alerts
    BY <1>1, InputKinds
  <1>4. \A n : n \in Learned(f, c) <=> Learns(game, f, c, n, fused[f], claimed)
    BY <1>2, <1>3 DEF Learns
  <1>5. \A n : Learns(game, f, c, n, fused[f], claimed) => n \in Rounds
    BY <1>1, InputKinds DEF Learns
  <1> QED
    BY <1>4, <1>5

LEMMA TypeHolds == IInv => TypeOK
  <1> SUFFICES ASSUME IInv PROVE TypeOK
    OBVIOUS
  <1> USE DEF IInv
  <1>1. \A i \in Alerts : AlertAccepted(i.round, game.holders[i.round][i.at], Nobody)
    <2> TAKE i \in Alerts
    <2>1. i \in Inputs /\ i.kind = "lost"
      BY InputKinds DEF Inputs
    <2>2. i.round \in Rounds /\ i.at \in Lost(i.faction, i.round)
      BY <2>1, InputKinds
    <2>3. i.round >= 0
      BY <2>2 DEF Rounds
    <2> QED
      BY <2>2, <2>3 DEF AlertAccepted, IsRound, Lost
  <1>2. \A i \in Observations : ObserveAccepted(i.round)
    BY DEF Observations, ObserveAccepted, IsRound, Rounds
  <1>3. CloseAccepted(Limit)
    BY DEF CloseAccepted, IsRound
  <1>4. \A f \in Factions : \A i \in DOMAIN issued[f] :
           DecideAccepted(issued[f][i].picture.round, issued[f][i].revision)
    <2> SUFFICES ASSUME NEW f \in Factions, NEW i \in DOMAIN issued[f]
                 PROVE  DecideAccepted(issued[f][i].picture.round, issued[f][i].revision)
      OBVIOUS
    <2>1. DOMAIN issued[f] = 1..Len(issued[f])
      BY LenProperties DEF Typed
    <2>2. row[f] # Absent
      BY <2>1, EmptySeq DEF Unopened
    <2>3. InOrder(issued[f], row[f], fused[f])
      BY <2>2 DEF Known, OpenFactions, Knows
    <2>4. issued[f][i].revision = i /\ issued[f][i].picture.round \in 0..row[f].picture.round
      BY <2>1, <2>3 DEF InOrder
    <2> QED
      BY <2>1, <2>4 DEF DecideAccepted, IsRound, IsCounter
  <1> QED
    BY <1>1, <1>2, <1>3, <1>4 DEF TypeOK, Typed

LEMMA NewestHolds == IInv => ObjectivesNewest
  <1> SUFFICES ASSUME IInv, NEW f \in OpenFactions
               PROVE  /\ DOMAIN Picture(f).objectives = {c \in Objectives : Learned(f, c) # {}}
                      /\ \A c \in DOMAIN Picture(f).objectives :
                            LET o == Picture(f).objectives[c]
                            IN  /\ o.seen = Max(Learned(f, c))
                                /\ o.holder = game.holders[o.seen][c]
    BY DEF ObjectivesNewest
  <1> USE DEF IInv
  <1>1. f \in Factions /\ row[f] \in Assessments
    BY DEF OpenFactions, Typed
  <1>2. PICK p \in Pictures : p = Picture(f)
    BY <1>1, NotAbsent DEF Picture
  <1>3. Newest(game, f, p, fused[f], claimed)
    BY <1>2 DEF Known, Knows, Picture
  <1>4. ASSUME NEW c \in DOMAIN p.objectives
        PROVE  /\ c \in Objectives /\ Learned(f, c) # {}
               /\ p.objectives[c].seen = Max(Learned(f, c))
               /\ p.objectives[c].holder = game.holders[p.objectives[c].seen][c]
    <2>1. c \in Objectives
      BY PictureTypes
    <2>2. PICK S \in SUBSET Rounds : S = Learned(f, c)
      BY <1>1, <2>1, LearnedIs
    <2>3. p.objectives[c].seen \in S /\ \A n \in S : n <= p.objectives[c].seen
      BY <1>1, <1>3, <2>1, <2>2, LearnedIs DEF Newest
    <2>4. Max(S) = p.objectives[c].seen
      BY <2>3, MaxIs
    <2> QED
      BY <1>3, <2>1, <2>2, <2>3, <2>4 DEF Newest
  <1>5. ASSUME NEW c \in Objectives, Learned(f, c) # {}
        PROVE  c \in DOMAIN p.objectives
    BY <1>1, <1>3, <1>5, LearnedIs DEF Newest
  <1> QED
    BY <1>2, <1>4, <1>5

LEMMA ContactsHold == IInv => ContactsLast
  <1> SUFFICES ASSUME IInv, NEW f \in OpenFactions
               PROVE  Picture(f).contacts =
                        [e \in {d \in Elements : Met(f, d) # {} /\
                                 LET n == Max(Met(f, d))
                                 IN  \A m \in FusedSince(f, n) :
                                        m - n <= K /\ game.at[n][d] \notin game.sees[m][f]}
                            |-> [at |-> game.at[Max(Met(f, e))][e], seen |-> Max(Met(f, e))]]
    BY DEF ContactsLast
  <1> USE DEF IInv
  <1>1. f \in Factions /\ row[f] \in Assessments
    BY DEF OpenFactions, Typed
  <1>2. PICK p \in Pictures : p = Picture(f)
    BY <1>1, NotAbsent DEF Picture
  <1>3. Lasting(game, f, p, fused[f])
    BY <1>2 DEF Known, Knows, Picture
  <1>4. fused[f] \in SUBSET Rounds
    BY <1>1 DEF Typed
  <1>5. \A e : /\ Met(f, e) \in SUBSET Rounds
               /\ \A n : n \in Met(f, e) <=> n \in fused[f] /\ e \in ContactsIn(game, f, n)
    BY <1>4 DEF Met, ContactsSeen, ContactsIn
  <1>6. ASSUME NEW e \in Elements, NEW n \in Rounds, Lasts(game, f, e, n, fused[f])
        PROVE  n \in Met(f, e) /\ Max(Met(f, e)) = n
    <2>1. n \in Met(f, e)
      BY <1>5, <1>6 DEF Lasts
    <2>2. \A m \in Met(f, e) : ~(m > n)
      BY <1>5, <1>6 DEF Lasts
    <2>3. PICK S \in SUBSET Rounds : S = Met(f, e)
      BY <1>5
    <2>4. n \in S /\ \A m \in S : m <= n
      BY <2>1, <2>2, <2>3 DEF Rounds
    <2> QED
      BY <2>3, <2>4, MaxIs
  <1>7. ASSUME NEW e \in Elements, Met(f, e) # {},
               \A m \in FusedSince(f, Max(Met(f, e))) :
                  /\ m - Max(Met(f, e)) <= K
                  /\ game.at[Max(Met(f, e))][e] \notin game.sees[m][f]
        PROVE  Lasts(game, f, e, Max(Met(f, e)), fused[f]) /\ Max(Met(f, e)) \in Rounds
    <2>1. PICK n : n = Max(Met(f, e)) /\ n \in Met(f, e) /\ \A m \in Met(f, e) : m <= n
      BY <1>5, <1>7, MaxOf
    <2>2. n \in Rounds /\ n \in fused[f] /\ e \in ContactsIn(game, f, n)
      BY <1>5, <2>1
    <2>3. \A m \in fused[f] : m > n => m \in FusedSince(f, n) /\ m \notin Met(f, e)
      BY <1>4, <2>1, <2>2 DEF FusedSince, Rounds
    <2> QED
      BY <1>5, <1>7, <2>1, <2>2, <2>3 DEF Lasts
  <1> DEFINE D == {d \in Elements : Met(f, d) # {} /\
                     LET n == Max(Met(f, d))
                     IN  \A m \in FusedSince(f, n) :
                            m - n <= K /\ game.at[n][d] \notin game.sees[m][f]}
  <1>8. ASSUME NEW e \in DOMAIN p.contacts
        PROVE  e \in D /\ p.contacts[e] = [at |-> game.at[Max(Met(f, e))][e], seen |-> Max(Met(f, e))]
    <2>1. /\ e \in Elements /\ p.contacts[e].seen \in Rounds
          /\ p.contacts[e] = [at |-> p.contacts[e].at, seen |-> p.contacts[e].seen]
      BY PictureTypes
    <2>2. PICK n \in Rounds : n = p.contacts[e].seen
      BY <2>1
    <2>3. Lasts(game, f, e, n, fused[f]) /\ p.contacts[e].at = game.at[n][e]
      BY <1>3, <2>2 DEF Lasting
    <2>4. n \in Met(f, e) /\ Max(Met(f, e)) = n
      BY <1>6, <2>1, <2>3
    <2>5. \A m \in FusedSince(f, n) : m - n <= K /\ game.at[n][e] \notin game.sees[m][f]
      BY <2>3 DEF FusedSince, Lasts
    <2> QED
      BY <2>1, <2>2, <2>3, <2>4, <2>5
  <1>9. ASSUME NEW e \in D
        PROVE  e \in DOMAIN p.contacts
    BY <1>3, <1>7 DEF Lasting
  <1>10. p.contacts = [e \in DOMAIN p.contacts |-> p.contacts[e]]
    BY PictureTypes, PartialDef DEF Pictures
  <1>11. DOMAIN p.contacts = D
    BY <1>8, <1>9
  <1> HIDE DEF D
  <1>12. p.contacts = [e \in D |-> [at |-> game.at[Max(Met(f, e))][e], seen |-> Max(Met(f, e))]]
    BY <1>8, <1>10, <1>11
  <1> QED
    BY <1>2, <1>12 DEF D

LEMMA LatestHolds == IInv => LatestFused
  <1> SUFFICES ASSUME IInv, NEW i \in claimed \cap Observations
               PROVE  /\ Picture(i.faction).round >= i.round
                      /\ Picture(i.faction).round \in fused[i.faction]
    BY DEF LatestFused
  <1> USE DEF IInv
  <1>1. i \in Inputs
    BY DEF Inputs
  <1>2. i.kind = "observed" /\ i.faction \in Factions /\ i.round \in Rounds
    BY <1>1, InputKinds
  <1>3. PICK f \in Factions : f = i.faction
    BY <1>2
  <1>4. row[f] # Absent
    BY <1>2, <1>3 DEF Unopened
  <1>5. row[f] \in Assessments
    BY <1>4 DEF Typed
  <1>6. PICK p \in Pictures : p = Picture(f)
    BY <1>5, NotAbsent DEF Picture
  <1>7. RoundIsFused(f, p, fused[f], claimed)
    BY <1>4, <1>6 DEF Known, OpenFactions, Knows, Picture
  <1>8. i.round <= p.round /\ p.round \in Int
    BY <1>2, <1>3, <1>7, PictureTypes DEF RoundIsFused
  <1>9. p.round # -1
    BY <1>2, <1>8 DEF Rounds
  <1> QED
    BY <1>2, <1>3, <1>6, <1>7, <1>8, <1>9 DEF RoundIsFused, Rounds

\* A picture is what the inputs handled tell, in whatever order they were
\* handled, whichever failed, by however many replicas: Observe and Alert of
\* fusion keep of each objective and each contact the latest that was learned.
THEOREM PictureIsTold == Spec => []PictureIsHistory
  <1>1. IInv => PictureIsHistory
    BY TypeHolds, NewestHolds, ContactsHold, LatestHolds DEF PictureIsHistory
  <1> QED
    BY <1>1, Inductive, PTL

\* The assessment last issued is the faction's picture, but while an alert is
\* ahead of its round's observation; revisions are issued one by one, and their
\* rounds do not go back.
THEOREM LastIssuedStands == Spec => []IssuedIsCurrent
  <1>1. IInv => IssuedIsCurrent
    <2> SUFFICES ASSUME IInv, NEW f \in OpenFactions
                 PROVE  LET es == issued[f]
                            ahead == \E c \in DOMAIN Picture(f).objectives :
                                        Picture(f).objectives[c].seen > Picture(f).round
                        IN  /\ row[f].revision = Len(es)
                            /\ \A i \in DOMAIN es : es[i].revision = i
                            /\ \A i \in 2..Len(es) : es[i].picture.round >= es[i - 1].picture.round
                            /\ ~ahead => Picture(f) = IF es = <<>> THEN Open ELSE Last(es).picture
      BY DEF IssuedIsCurrent
    <2> USE DEF IInv
    <2>1. f \in Factions
      BY DEF OpenFactions
    <2>2. PICK es \in Seq(Issues) : es = issued[f]
      BY <2>1 DEF Typed, Issues
    <2>3. DOMAIN es = 1..Len(es) /\ Len(es) \in Nat
      BY LenProperties
    <2>4. InOrder(es, row[f], fused[f])
      BY <2>2 DEF Known, Knows
    <2>5. \A i \in 2..Len(es) : es[i].picture.round >= es[i - 1].picture.round
      <3> TAKE i \in 2..Len(es)
      <3>1. i \in 1..Len(es) /\ i - 1 \in 1..Len(es) /\ i - 1 <= i
        BY <2>3
      <3>2. es[i - 1].picture.round <= es[i].picture.round
        BY <2>4, <3>1 DEF InOrder
      <3>3. es[i - 1].picture.round \in Int /\ es[i].picture.round \in Int
        BY <2>4, <3>1 DEF InOrder
      <3> QED
        BY <3>2, <3>3
    <2>6. Last(es) = es[Len(es)]
      BY DEF Last
    <2> QED
      BY <2>2, <2>3, <2>4, <2>5, <2>6 DEF InOrder, Ahead, Picture
  <1> QED
    BY <1>1, Inductive, PTL

\* The observer explains every assessment that stands, whatever order the
\* inputs took, and once all are handled, the last round has one of each faction.
THEOREM CheckExplains == Spec => []TheaterConsistent
  <1>1. IInv => TheaterConsistent
    <2> SUFFICES ASSUME IInv PROVE TheaterConsistent
      OBVIOUS
    <2> USE DEF IInv
    <2>1. \A f \in Factions : LastAssessments(f) \subseteq Stated(f)
      BY DEF LastAssessments, Stated
    <2>2. ASSUME claimed = Inputs, NEW f \in Factions
          PROVE  Covered(f, Limit)
      <3> DEFINE i == [kind |-> "observed", faction |-> f, round |-> Limit]
      <3>1. i \in Observations /\ Limit \in Rounds
        BY DEF Observations, Rounds
      <3>2. i \in claimed
        BY <2>2, <3>1 DEF Inputs
      <3>3. row[f] # Absent
        BY <3>2 DEF Unopened
      <3>4. Knows(game, f, row[f], issued[f], fused[f], claimed)
        BY <3>3 DEF Known, OpenFactions
      <3>5. PICK p \in Pictures : p = row[f].picture
        BY <3>3, NotAbsent DEF Typed
      <3>6. RoundIsFused(f, p, fused[f], claimed) /\ InOrder(issued[f], row[f], fused[f])
        BY <3>4, <3>5 DEF Knows
      <3>7. Limit <= p.round
        BY <3>2, <3>6 DEF RoundIsFused
      <3>8. p.round = Limit
        BY <3>7, PictureTypes
      <3>9. Limit \in fused[f]
        BY <3>6, <3>8 DEF RoundIsFused
      <3>10. PICK k \in 1..Len(issued[f]) : issued[f][k].picture.round = Limit
        BY <3>6, <3>9 DEF InOrder
      <3>11. DOMAIN issued[f] = 1..Len(issued[f])
        BY LenProperties DEF Typed
      <3> QED
        BY <3>10, <3>11 DEF Covered
    <2> QED
      BY <2>1, <2>2 DEF TheaterConsistent, Explained
  <1> QED
    BY <1>1, Inductive, PTL

==============================================================================
