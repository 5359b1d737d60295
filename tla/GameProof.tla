------------------------------ MODULE GameProof ------------------------------
(***************************************************************************)
(* Theorems about Game, for every map, every number of elements and of     *)
(* operators, and every exercise: the properties that MCGame checks on a   *)
(* small map. Most of the module is about the algorithms that the services *)
(* are made of, the moves and the fire of Rules, the distances and the     *)
(* rules of Decide, and the paths and the giving way of Route.             *)
(***************************************************************************)
EXTENDS Game, FiniteSetTheorems, SequenceTheorems, WellFoundedInduction, TLAPS

-----------------------------------------------------------------------------
(* Recursion. The induction rules are stated for sets, and what is defined  *)
(* by recursion, over the numbers or over the parts of a finite set, is     *)
(* shown to exist before it is unfolded.                                    *)

\* Of some numbers one is the least.
LEMMA Smallest ==
    ASSUME NEW S, S \subseteq Nat, S # {}
    PROVE  \E i \in S : \A j \in S : i <= j
<1>1. PICK i \in S : \A j \in S : ~(<<j, i>> \in OpToRel(<, Nat))
  BY NatLessThanWellFounded, WFMin
<1>2. \A j \in S : ~(j < i)
  BY <1>1 DEF OpToRel
<1> QED
  BY <1>2

\* Induction over the numbers, for a property given as a set.
LEMMA Induction ==
    ASSUME NEW T, 0 \in T, \A k \in Nat : k \in T => k + 1 \in T
    PROVE  \A k \in Nat : k \in T
<1> SUFFICES ASSUME NEW n \in Nat, n \notin T PROVE FALSE
  OBVIOUS
<1> DEFINE W == {k \in Nat : k \notin T}
<1>1. W \subseteq Nat /\ W # {}
  OBVIOUS
<1>2. PICK k \in W : \A j \in W : k <= j
  <2> HIDE DEF W
  <2> QED
    BY <1>1, Smallest
<1>3. k # 0 /\ k - 1 \in Nat
  BY <1>2
<1>4. k - 1 \in T
  BY <1>2, <1>3
<1> QED
  BY <1>2, <1>3, <1>4

\* f starts at x and goes on as st says.
Iterates(f, S, x, st) == f \in [Nat -> S] /\ f[0] = x /\ \A k \in Nat : f[k + 1] = st[f[k]]

\* What goes on from each number to the next exists.
LEMMA Recursion ==
    ASSUME NEW S, NEW x \in S, NEW st \in [S -> S]
    PROVE  \E f : Iterates(f, S, x, st)
<1> DEFINE Runs(n) == {g \in [0..n -> S] : g[0] = x /\ \A k \in 0..n-1 : g[k + 1] = st[g[k]]}
<1>1. \A n \in Nat : Runs(n) # {}
  <2> DEFINE T == {n \in Nat : Runs(n) # {}}
  <2>1. 0 \in T
    <3>1. [k \in 0..0 |-> x] \in Runs(0)
      OBVIOUS
    <3> QED
      BY <3>1
  <2>2. ASSUME NEW n \in Nat, n \in T PROVE n + 1 \in T
    <3>1. PICK g \in Runs(n) : TRUE
      BY <2>2
    <3> DEFINE h == [k \in 0..n+1 |-> IF k <= n THEN g[k] ELSE st[g[n]]]
    <3>2. h \in [0..n+1 -> S]
      BY <3>1
    <3>3. h[0] = x
      BY <3>1
    <3>4. ASSUME NEW k \in 0..n PROVE h[k + 1] = st[h[k]]
      <4>1. CASE k = n
        BY <4>1, <3>1
      <4>2. CASE k # n
        BY <4>2, <3>1
      <4> QED
        BY <4>1, <4>2
    <3>5. h \in Runs(n + 1)
      <4> HIDE DEF h
      <4> QED
        BY <3>2, <3>3, <3>4
    <3>6. Runs(n + 1) # {}
      BY <3>5
    <3> QED
      BY <3>6
  <2> HIDE DEF T
  <2>3. \A n \in Nat : n \in T
    BY <2>1, <2>2, Induction
  <2> QED
    BY <2>3 DEF T
<1>2. ASSUME NEW m \in Nat, NEW n \in Nat, NEW g \in Runs(m), NEW h \in Runs(n)
      PROVE  \A k \in Nat : k <= m /\ k <= n => g[k] = h[k]
  <2> DEFINE T == {k \in Nat : k <= m /\ k <= n => g[k] = h[k]}
  <2>1. 0 \in T
    BY <1>2
  <2>2. ASSUME NEW k \in Nat, k \in T PROVE k + 1 \in T
    <3> SUFFICES ASSUME k + 1 <= m, k + 1 <= n PROVE g[k + 1] = h[k + 1]
      OBVIOUS
    <3>1. k \in 0..m-1 /\ k \in 0..n-1 /\ g[k] = h[k]
      BY <2>2
    <3> QED
      BY <3>1, <1>2
  <2> HIDE DEF T
  <2>3. \A k \in Nat : k \in T
    BY <2>1, <2>2, Induction
  <2> QED
    BY <2>3 DEF T
<1> DEFINE f == [n \in Nat |-> (CHOOSE g \in Runs(n) : TRUE)[n]]
<1>3. \A n \in Nat : (CHOOSE g \in Runs(n) : TRUE) \in Runs(n)
  BY <1>1
<1>4. \A n \in Nat : f[n] \in S
  BY <1>3
<1>5. f[0] = x
  <2>1. (CHOOSE g \in Runs(0) : TRUE) \in Runs(0)
    BY <1>3
  <2> QED
    BY <2>1
<1>6. ASSUME NEW k \in Nat PROVE f[k + 1] = st[f[k]]
  <2> DEFINE g == CHOOSE g \in Runs(k) : TRUE
             h == CHOOSE h \in Runs(k + 1) : TRUE
  <2>1. g \in Runs(k) /\ h \in Runs(k + 1)
    <3> HIDE DEF Runs
    <3> QED
      BY <1>3
  <2>2. f[k] = g[k] /\ f[k + 1] = h[k + 1]
    OBVIOUS
  <2> HIDE DEF g, h, f
  <2>3. g[k] = h[k]
    <3> HIDE DEF Runs
    <3> QED
      BY <1>2, <2>1
  <2>4. h[k + 1] = st[h[k]]
    BY <2>1
  <2> QED
    BY <2>2, <2>3, <2>4
<1>7. f \in [Nat -> S]
  BY <1>4
<1> HIDE DEF f
<1> QED
  BY <1>5, <1>6, <1>7 DEF Iterates

\* Induction over the subsets of a finite set.
LEMMA SubsetInduction ==
    ASSUME NEW S, IsFiniteSet(S), NEW T,
           \A s \in SUBSET S : (\A r \in SUBSET S : r \subseteq s /\ r # s => r \in T) => s \in T
    PROVE  \A s \in SUBSET S : s \in T
<1> SUFFICES ASSUME NEW n \in SUBSET S, n \notin T PROVE FALSE
  OBVIOUS
<1> DEFINE W == {k \in SUBSET S : k \notin T}
<1>1. W \subseteq SUBSET S /\ W # {}
  OBVIOUS
<1>2. FiniteSubsetsOf(S) = SUBSET S /\ IsWellFoundedOn(StrictSubsetOrdering(S), SUBSET S)
  <2>1. FiniteSubsetsOf(S) = SUBSET S
    BY FS_FiniteSubsetsOfFinite
  <2>2. IsWellFoundedOn(StrictSubsetOrdering(S), FiniteSubsetsOf(S))
    BY FS_StrictSubsetOrderingWellFounded
  <2> QED
    BY <2>1, <2>2
<1>3. PICK k \in W : \A j \in W : ~(<<j, k>> \in StrictSubsetOrdering(S))
  <2> HIDE DEF W
  <2> QED
    BY <1>1, <1>2, WFMin
<1>4. ASSUME NEW r \in SUBSET S, r \subseteq k, r # k PROVE r \in T
  <2> SUFFICES ASSUME r \notin T PROVE FALSE
    OBVIOUS
  <2>1. <<r, k>> \in StrictSubsetOrdering(S)
    BY <1>4, <1>3 DEF StrictSubsetOrdering
  <2> QED
    BY <2>1, <1>3
<1> QED
  BY <1>3, <1>4

\* it[s] is what is made of s by taking its elements one at a time, ch[s] last.
Folds(it, S, ch, V, base, st) ==
    /\ it \in [SUBSET S -> V]
    /\ \A s \in SUBSET S : it[s] = IF s = {} THEN base ELSE st[<<ch[s], it[s \ {ch[s]}]>>]

\* What takes the elements of a finite set one at a time exists.
LEMMA SetRecursion ==
    ASSUME NEW S, IsFiniteSet(S), NEW ch, \A s \in SUBSET S : s # {} => ch[s] \in s,
           NEW V, NEW base \in V, NEW st \in [S \X V -> V]
    PROVE  \E it : Folds(it, S, ch, V, base, st)
<1> DEFINE Step(g) == [s \in SUBSET S |-> IF s = {} THEN base ELSE st[<<ch[s], g[s \ {ch[s]}]>>]]
           W == [SUBSET S -> V]
           first == [s \in SUBSET S |-> base]
           next == [g \in W |-> Step(g)]
<1>1. first \in W
  OBVIOUS
<1>2. \A g \in W : Step(g) \in W
  OBVIOUS
<1>3. next \in [W -> W]
  BY <1>2
<1>4. PICK f \in [Nat -> W] : f[0] = first /\ \A k \in Nat : f[k + 1] = next[f[k]]
  <2> HIDE DEF W, first, next
  <2>1. \E f : Iterates(f, W, first, next)
    BY <1>1, <1>3, Recursion
  <2> QED
    BY <2>1 DEF Iterates
<1>5. \A s \in SUBSET S : Cardinality(s) \in Nat /\ IsFiniteSet(s)
  BY FS_Subset, FS_CardinalityType
<1> DEFINE it == [s \in SUBSET S |-> f[Cardinality(s)][s]]
<1>6. it \in [SUBSET S -> V]
  BY <1>4, <1>5
<1>7. it[{}] = base
  <2>1. Cardinality({}) = 0
    BY FS_EmptySet
  <2> QED
    BY <1>4, <2>1
<1>8. ASSUME NEW s \in SUBSET S, s # {} PROVE it[s] = st[<<ch[s], it[s \ {ch[s]}]>>]
  <2> DEFINE r == s \ {ch[s]}
  <2>1. ch[s] \in s /\ r \in SUBSET S
    BY <1>8
  <2>2. Cardinality(r) \in Nat /\ Cardinality(s) = Cardinality(r) + 1
    <3>1. IsFiniteSet(s) /\ IsFiniteSet(r) /\ Cardinality(r) \in Nat /\ Cardinality(s) \in Nat
      BY <1>5, <2>1
    <3>2. Cardinality(r) = Cardinality(s) - 1
      BY <3>1, <2>1, FS_RemoveElement
    <3> QED
      BY <3>1, <3>2
  <2>3. f[Cardinality(s)] = next[f[Cardinality(r)]]
    BY <1>4, <2>2
  <2>4. next[f[Cardinality(r)]] = Step(f[Cardinality(r)])
    BY <1>4, <2>2
  <2>5. Step(f[Cardinality(r)])[s] = st[<<ch[s], f[Cardinality(r)][r]>>]
    BY <1>8
  <2>6. it[s] = f[Cardinality(s)][s] /\ it[r] = f[Cardinality(r)][r]
    BY <2>1
  <2> QED
    BY <2>3, <2>4, <2>5, <2>6
<1> HIDE DEF it
<1> QED
  BY <1>6, <1>7, <1>8 DEF Folds

\* Taking one more element stays within V.
FoldsWithin(it, S, V) ==
    /\ it[{}] \in V
    /\ \A s \in SUBSET S : s # {} => \E x \in s : it[s \ {x}] \in V => it[s] \in V

\* What starts within V and stays there ends there.
LEMMA FoldInduction ==
    ASSUME NEW S, IsFiniteSet(S), NEW V, NEW it, FoldsWithin(it, S, V)
    PROVE  it[S] \in V
<1>0. it[{}] \in V /\ \A s \in SUBSET S : s # {} => \E x \in s : it[s \ {x}] \in V => it[s] \in V
  BY DEF FoldsWithin
<1> DEFINE T == {s \in SUBSET S : it[s] \in V}
<1>1. ASSUME NEW s \in SUBSET S, \A r \in SUBSET S : r \subseteq s /\ r # s => r \in T PROVE s \in T
  <2>1. CASE s = {}
    BY <2>1, <1>0
  <2>2. CASE s # {}
    <3>1. PICK x \in s : it[s \ {x}] \in V => it[s] \in V
      BY <2>2, <1>0
    <3>2. s \ {x} \in T
      BY <1>1
    <3> QED
      BY <3>1, <3>2
  <2> QED
    BY <2>1, <2>2
<1> HIDE DEF T
<1>2. \A s \in SUBSET S : s \in T
  BY <1>1, SubsetInduction
<1> QED
  BY <1>2 DEF T

\* As Iterates; each step may depend on its number too.
Numbered(f, S, x, st) == f \in [Nat -> S] /\ f[0] = x /\ \A k \in Nat : f[k + 1] = st[<<k, f[k]>>]

\* Such a function exists.
LEMMA NumberedRecursion ==
    ASSUME NEW S, NEW x \in S, NEW st \in [Nat \X S -> S]
    PROVE  \E f : Numbered(f, S, x, st)
<1> DEFINE P == Nat \X S
           next == [p \in P |-> <<p[1] + 1, st[p]>>]
<1>1. <<0, x>> \in P /\ next \in [P -> P]
  <2>1. \A p \in P : st[p] \in S /\ p[1] + 1 \in Nat
    OBVIOUS
  <2> QED
    BY <2>1
<1>2. PICK g : Iterates(g, P, <<0, x>>, next)
  <2> HIDE DEF P, next
  <2> QED
    BY <1>1, Recursion
<1>3. g \in [Nat -> P] /\ g[0] = <<0, x>> /\ \A k \in Nat : g[k + 1] = next[g[k]]
  BY <1>2 DEF Iterates
<1>4. \A k \in Nat : g[k] \in P /\ g[k + 1] = <<g[k][1] + 1, st[g[k]]>>
  BY <1>3
<1> DEFINE T == {k \in Nat : g[k][1] = k}
<1>5. 0 \in T
  BY <1>3
<1>6. ASSUME NEW k \in Nat, k \in T PROVE k + 1 \in T
  BY <1>4, <1>6
<1>7. \A k \in Nat : g[k][1] = k
  <2>1. \A k \in Nat : k \in T
    <3> HIDE DEF T
    <3> QED
      BY <1>5, <1>6, Induction
  <2> QED
    BY <2>1
<1> DEFINE f == [k \in Nat |-> g[k][2]]
<1>8. f \in [Nat -> S] /\ f[0] = x
  BY <1>3
<1>9. ASSUME NEW k \in Nat PROVE f[k + 1] = st[<<k, f[k]>>]
  <2>1. g[k] = <<k, f[k]>>
    BY <1>4, <1>7
  <2>2. f[k + 1] = g[k + 1][2]
    OBVIOUS
  <2>3. f[k + 1] = st[g[k]]
    BY <2>2, <1>4
  <2> QED
    BY <2>1, <2>3
<1> HIDE DEF f
<1> QED
  BY <1>8, <1>9 DEF Numbered

\* What goes on as st says as long as it stays in S does so for ever.
Continues(f, S, x, st) == f[0] = x /\ \A k \in Nat : f[k] \in S => f[k + 1] = st[f[k]]
Stays(f, S, st) == \A k \in Nat : f[k] \in S /\ f[k + 1] = st[f[k]]

LEMMA Unrolled ==
    ASSUME NEW S, NEW x \in S, NEW st \in [S -> S], NEW f, Continues(f, S, x, st)
    PROVE  Stays(f, S, st)
<1>0. f[0] = x /\ \A k \in Nat : f[k] \in S => f[k + 1] = st[f[k]]
  BY DEF Continues
<1> DEFINE T == {k \in Nat : f[k] \in S}
<1>1. 0 \in T
  BY <1>0
<1>2. ASSUME NEW k \in Nat, k \in T PROVE k + 1 \in T
  <2>1. PICK y \in S : y = f[k]
    BY <1>2
  <2>2. st[y] \in S
    BY <2>1
  <2>3. f[k + 1] = st[y]
    BY <2>1, <1>0
  <2> QED
    BY <2>2, <2>3
<1> HIDE DEF T
<1>3. \A k \in Nat : k \in T
  BY <1>1, <1>2, Induction
<1> QED
  BY <1>0, <1>3 DEF T, Stays

\* What grows within a finite set as long as it changes is done after as many
\* steps as the set has elements.
LEMMA GrowthEnds ==
    ASSUME NEW P, IsFiniteSet(P), NEW N \in Nat, Cardinality(P) <= N,
           NEW f, NEW st, Iterates(f, SUBSET P, {}, st),
           \A s \in SUBSET P : s \subseteq st[s]
    PROVE  st[f[N]] = f[N]
<1>1. \A k \in Nat : f[k] \in SUBSET P /\ f[k + 1] = st[f[k]] /\ f[k] \subseteq f[k + 1]
  BY DEF Iterates
<1>2. \A s \in SUBSET P : IsFiniteSet(s) /\ Cardinality(s) \in Nat
  BY FS_Subset, FS_CardinalityType
<1> DEFINE T == {k \in Nat : st[f[k]] = f[k] \/ Cardinality(f[k]) >= k}
<1>3. 0 \in T
  BY <1>1, <1>2
<1>4. ASSUME NEW k \in Nat, k \in T PROVE k + 1 \in T
  <2>1. CASE st[f[k]] = f[k]
    BY <2>1, <1>1
  <2>2. CASE st[f[k]] # f[k] /\ Cardinality(f[k]) >= k
    <3>1. f[k] \subseteq f[k + 1] /\ f[k] # f[k + 1] /\ IsFiniteSet(f[k + 1])
      BY <2>2, <1>1, <1>2
    <3>2. Cardinality(f[k]) < Cardinality(f[k + 1])
      <4>1. Cardinality(f[k]) <= Cardinality(f[k + 1]) /\ Cardinality(f[k]) # Cardinality(f[k + 1])
        BY <3>1, FS_Subset
      <4> QED
        BY <4>1, <1>1, <1>2
    <3>3. Cardinality(f[k + 1]) >= k + 1
      BY <3>2, <2>2, <1>1, <1>2
    <3> QED
      BY <3>3
  <2> QED
    BY <2>1, <2>2, <1>4
<1>5. N \in T
  <2> HIDE DEF T
  <2> QED
    BY <1>3, <1>4, Induction
<1>6. CASE Cardinality(f[N]) >= N
  <2>1. f[N] = P
    <3>1. Cardinality(P) \in Nat
      BY FS_CardinalityType
    <3>2. f[N] \in SUBSET P /\ Cardinality(f[N]) \in Nat
      BY <1>1, <1>2
    <3>3. Cardinality(f[N]) <= Cardinality(P) /\ (Cardinality(f[N]) = Cardinality(P) => f[N] = P)
      BY <3>2, FS_Subset
    <3> QED
      BY <3>1, <3>2, <3>3, <1>6
  <2>2. f[N + 1] = P
    <3>1. N + 1 \in Nat
      OBVIOUS
    <3>2. f[N + 1] \in SUBSET P /\ f[N] \subseteq f[N + 1]
      BY <3>1, <1>1
    <3> QED
      BY <2>1, <3>2
  <2> QED
    BY <2>1, <2>2, <1>1
<1> QED
  BY <1>5, <1>6

-----------------------------------------------------------------------------
(* The world, and judgment.                                                 *)

\* There are two factions, and each is the rival of the other.
LEMMA Rivals ==
    /\ \A f \in Factions : Rival(f) \in Factions /\ Rival(f) # f /\ Factions = {f, Rival(f)}
    /\ \A S \in SUBSET Factions : IsFiniteSet(S) /\ Cardinality(S) \in Nat
    /\ \A f \in Factions : Cardinality({f}) = 1
    /\ \A S \in SUBSET Factions : Cardinality(S) = 1 => \E f \in Factions : S = {f}
<1>1. IsFiniteSet(Factions) /\ Cardinality(Factions) = 2
  BY ElementsAssumption
<1>2. ASSUME NEW f \in Factions PROVE Rival(f) \in Factions /\ Rival(f) # f /\ Factions = {f, Rival(f)}
  <2>1. Cardinality(Factions \ {f}) = 1 /\ IsFiniteSet(Factions \ {f})
    BY <1>1, FS_RemoveElement
  <2>2. PICK g : Factions \ {f} = {g}
    BY <2>1, FS_Singleton
  <2>3. Rival(f) = g
    BY <2>2 DEF Rival
  <2> QED
    BY <2>2, <2>3
<1>3. \A S \in SUBSET Factions : IsFiniteSet(S) /\ Cardinality(S) \in Nat
  BY <1>1, FS_Subset, FS_CardinalityType
<1>4. \A f \in Factions : Cardinality({f}) = 1
  BY FS_Singleton
<1>5. ASSUME NEW S \in SUBSET Factions, Cardinality(S) = 1 PROVE \E f \in Factions : S = {f}
  BY <1>3, <1>5, FS_Singleton
<1> QED
  BY <1>2, <1>3, <1>4, <1>5

\* A map has finitely many cells.
LEMMA CellsFinite == IsFiniteSet(Cells)
<1> DEFINE B == Sectors \X ((0..99) \X (0..99))
           place == [l \in Cells |-> <<l.sector, <<l.x, l.y>>>>]
<1>1. IsFiniteSet(B)
  <2>1. IsFiniteSet(0..99)
    <3>1. 0 \in Int /\ 99 \in Int
      OBVIOUS
    <3> QED
      BY <3>1, FS_Interval
  <2>2. IsFiniteSet((0..99) \X (0..99))
    BY <2>1, FS_Product
  <2>3. IsFiniteSet(Sectors)
    BY NamesAssumption
  <2> QED
    BY <2>2, <2>3, FS_Product
<1>2. ASSUME NEW l \in Cells
      PROVE  /\ l.sector \in Sectors /\ l.x \in 0..99 /\ l.y \in 0..99
             /\ l = Cell(l.sector, l.x, l.y)
  <2>0. PICK s \in Sectors : \E x \in 0..Width[s] - 1, y \in 0..Height[s] - 1 : l = Cell(s, x, y)
    BY DEF Cells
  <2>1. PICK x \in 0..Width[s] - 1, y \in 0..Height[s] - 1 : l = Cell(s, x, y)
    BY <2>0
  <2>2. Width[s] \in 0..100 /\ Height[s] \in 0..100
    BY NamesAssumption
  <2>3. x \in 0..99 /\ y \in 0..99
    BY <2>2
  <2> QED
    BY <2>1, <2>3 DEF Cell
<1>3. place \in Injection(Cells, B)
  <2>1. place \in [Cells -> B]
    BY <1>2
  <2>2. ASSUME NEW l \in Cells, NEW m \in Cells, place[l] = place[m] PROVE l = m
    BY <1>2, <2>2
  <2> HIDE DEF place, B
  <2> QED
    BY <2>1, <2>2 DEF Injection, IsInjective
<1> HIDE DEF B
<1> QED
  BY <1>1, <1>3, FS_Injection

\* So does whatever is on it.
LEMMA WorldFinite ==
    /\ IsFiniteSet(Cells) /\ IsFiniteSet(Open) /\ IsFiniteSet(Objectives)
    /\ Objectives \subseteq Cells /\ Objectives # {}
    /\ \A S : S \subseteq Cells => IsFiniteSet(S) /\ Cardinality(S) \in Nat
    /\ \A S : S \subseteq Elements => IsFiniteSet(S) /\ Cardinality(S) \in Nat
<1>1. Objectives \subseteq Cells /\ Objectives # {}
  BY MapAssumption DEF MapIsValid
<1>2. \A S : S \subseteq Cells => IsFiniteSet(S) /\ Cardinality(S) \in Nat
  BY CellsFinite, FS_Subset, FS_CardinalityType
<1>3. \A S : S \subseteq Elements => IsFiniteSet(S) /\ Cardinality(S) \in Nat
  BY NamesAssumption, FS_Subset, FS_CardinalityType
<1> QED
  BY <1>1, <1>2, <1>3 DEF Open

-----------------------------------------------------------------------------
\* Only objectives are held.
HoldersTyped(s) == DOMAIN s.holders \subseteq Objectives

\* What a verdict says of the state it is given for.
LEMMA Judged ==
    ASSUME NEW s, HoldersTyped(s), NEW r \in Nat, NEW n \in Nat, r <= n
    PROVE  LET v == Judge(s, r, n)
               live == {f \in Factions : Alive(s, f) # {}}
               more(f) == Cardinality(Held(s, f)) > Cardinality(Held(s, Rival(f)))
           IN  /\ ~v.over => live = Factions /\ r < n
               /\ v.over => \A f \in Factions :
                     (v.winner = f) = (f \in live /\ (live = {f} \/ more(f)))
               /\ v.over \in BOOLEAN
<1> DEFINE v == Judge(s, r, n)
           live == {f \in Factions : Alive(s, f) # {}}
           more(f) == Cardinality(Held(s, f)) > Cardinality(Held(s, Rival(f)))
           dead == {f \in Factions : Alive(s, f) = {}}
           whole == {f \in Factions : Held(s, f) = Objectives}
           richer == {f \in Factions : more(f)}
           TheOne(S) == IF Cardinality(S) = 1 THEN CHOOSE f \in S : TRUE ELSE Nobody
           Right ==
             /\ ~v.over => live = Factions /\ r < n
             /\ v.over => \A f \in Factions : (v.winner = f) = (f \in live /\ (live = {f} \/ more(f)))
             /\ v.over \in BOOLEAN
<1>1. v = CASE dead # {} -> Won(TheOne(Factions \ dead), "elimination")
            [] dead = {} /\ whole # {} -> Won(TheOne(whole), "objectives")
            [] dead = {} /\ whole = {} /\ Unfinished(r, n) -> NotOver
            [] OTHER -> Won(TheOne(richer), "limit")
  BY DEF Judge
<1>2. \A f \in Factions : Held(s, f) \subseteq Objectives /\ Cardinality(Held(s, f)) \in Nat
  BY WorldFinite DEF Held, HoldersTyped
<1>3. \A f, g \in Factions : f # g => Held(s, f) \cap Held(s, g) = {}
  BY DEF Held
<1>4. ASSUME NEW S \in SUBSET Factions, NEW f \in Factions PROVE (TheOne(S) = f) = (S = {f})
  <2>1. CASE Cardinality(S) = 1
    <3>1. PICK g \in Factions : S = {g}
      BY <2>1, Rivals
    <3> QED
      BY <2>1, <3>1
  <2>2. CASE Cardinality(S) # 1
    <3>1. S # {f}
      BY <2>2, Rivals
    <3>2. TheOne(S) # f
      BY <2>2, ElementsAssumption
    <3> QED
      BY <3>1, <3>2
  <2> QED
    BY <2>1, <2>2
<1>5. Factions \ dead = live
  OBVIOUS
<1>6. ASSUME NEW f \in Factions PROVE more(f) => ~more(Rival(f))
  <2>1. Rival(Rival(f)) = f
    BY Rivals
  <2> QED
    BY <2>1, <1>2, Rivals
<1> HIDE DEF v
<1>7. ASSUME dead # {} PROVE Right
  <2>1. v = Won(TheOne(live), "elimination")
    <3>1. v = Won(TheOne(Factions \ dead), "elimination")
      <4> HIDE DEF TheOne, dead, whole, richer
      <4> QED
        BY <1>1, <1>7
    <3> HIDE DEF TheOne, dead, live
    <3> QED
      BY <3>1, <1>5
  <2>2. v.over = TRUE /\ v.winner = TheOne(live)
    BY <2>1 DEF Won
  <2>3. \A f \in Factions : f \in live => live = {f}
    BY <1>7, Rivals
  <2>4. \A f \in Factions : (v.winner = f) = (live = {f})
    <3>1. live \in SUBSET Factions
      OBVIOUS
    <3> HIDE DEF live, TheOne
    <3> QED
      BY <2>2, <1>4, <3>1
  <2> QED
    BY <2>2, <2>3, <2>4
<1>8. ASSUME dead = {} /\ whole # {} PROVE Right
  <2>1. v = Won(TheOne(whole), "objectives")
    BY <1>1, <1>8
  <2>2. v.over = TRUE /\ v.winner = TheOne(whole)
    BY <2>1 DEF Won
  <2>3. live = Factions
    BY <1>8
  <2>4. PICK g \in Factions : Held(s, g) = Objectives
    BY <1>8
  <2>5. Held(s, Rival(g)) = {}
    BY <2>4, <1>2, <1>3, Rivals
  <2>6. Cardinality(Held(s, g)) > Cardinality(Held(s, Rival(g)))
    BY <2>4, <2>5, <1>2, WorldFinite, FS_EmptySet
  <2>7. whole = {g} /\ \A f \in Factions : more(f) = (f = g)
    <3>1. \A f \in Factions : f # g => f = Rival(g)
      BY Rivals
    <3>2. ~more(Rival(g)) /\ Rival(g) \notin whole
      BY <2>6, <1>6, <2>5, WorldFinite
    <3> QED
      BY <2>4, <2>6, <3>1, <3>2
  <2>8. \A f \in Factions : (v.winner = f) = (whole = {f})
    <3>1. whole \in SUBSET Factions
      OBVIOUS
    <3> HIDE DEF whole, TheOne
    <3> QED
      BY <2>2, <1>4, <3>1
  <2>9. \A f \in Factions : live # {f}
    BY <2>3, Rivals
  <2> QED
    BY <2>2, <2>3, <2>7, <2>8, <2>9
<1>9. ASSUME dead = {} /\ whole = {} /\ Unfinished(r, n) PROVE Right
  <2>1. v = NotOver /\ live = Factions
    BY <1>1, <1>9
  <2> QED
    BY <2>1, <1>9 DEF NotOver, Unfinished
<1>10. ASSUME dead = {} /\ whole = {} /\ ~Unfinished(r, n) PROVE Right
  <2>1. v = Won(TheOne(richer), "limit") /\ live = Factions
    BY <1>1, <1>10
  <2>2. v.over = TRUE /\ v.winner = TheOne(richer)
    BY <2>1 DEF Won
  <2>3. \A f \in Factions : (richer = {f}) = more(f)
    <3> SUFFICES ASSUME NEW f \in Factions PROVE (richer = {f}) = more(f)
      OBVIOUS
    <3>1. richer = {f} => more(f)
      <4>1. richer = {f} => f \in richer
        OBVIOUS
      <4> QED
        BY <4>1
    <3>2. ASSUME more(f) PROVE richer = {f}
      <4>1. ~more(Rival(f)) /\ Factions = {f, Rival(f)}
        BY <3>2, <1>6, Rivals
      <4>2. \A g \in Factions : (g \in richer) = (g = f)
        BY <4>1, <3>2
      <4>3. richer \subseteq Factions
        OBVIOUS
      <4> HIDE DEF richer
      <4> QED
        BY <4>2, <4>3
    <3> HIDE DEF richer
    <3> QED
      BY <3>1, <3>2
  <2>4. \A f \in Factions : (v.winner = f) = (richer = {f})
    <3>1. richer \in SUBSET Factions
      OBVIOUS
    <3> HIDE DEF richer, TheOne
    <3> QED
      BY <2>2, <1>4, <3>1
  <2>5. \A f \in Factions : live # {f}
    BY <2>1, Rivals
  <2> QED
    BY <2>1, <2>2, <2>3, <2>4, <2>5
<1> QED
  <2>1. Right
    BY <1>7, <1>8, <1>9, <1>10
  <2> QED
    BY <2>1 DEF v

-----------------------------------------------------------------------------
(* Extremes, sequences, and where a move ends.                              *)

\* A finite set of numbers has a greatest.
LEMMA MaxOf ==
    ASSUME NEW S, S \subseteq Int, IsFiniteSet(S), S # {}
    PROVE  Max(S) \in S /\ \A x \in S : x <= Max(S)
<1> DEFINE T == {s \in SUBSET S : s = {} \/ \E x \in s : \A y \in s : y <= x}
<1>1. ASSUME NEW s \in SUBSET S, \A r \in SUBSET S : r \subseteq s /\ r # s => r \in T PROVE s \in T
  <2>1. CASE s = {}
    BY <2>1
  <2>2. CASE s # {}
    <3>1. PICK x \in s : TRUE
      BY <2>2
    <3>2. s \ {x} \in T
      BY <1>1
    <3>3. CASE s \ {x} = {}
      BY <3>1, <3>3
    <3>4. CASE s \ {x} # {}
      <4>1. PICK z \in s \ {x} : \A y \in s \ {x} : y <= z
        BY <3>2, <3>4
      <4>2. \A y \in s : y \in Int
        OBVIOUS
      <4>3. CASE x <= z
        BY <4>1, <4>3
      <4>4. CASE z <= x
        BY <4>1, <4>2, <4>4
      <4> QED
        BY <4>2, <4>3, <4>4
    <3> QED
      BY <3>3, <3>4
  <2> QED
    BY <2>1, <2>2
<1>2. S \in T
  <2> HIDE DEF T
  <2> QED
    BY <1>1, SubsetInduction
<1>3. \E x \in S : \A y \in S : y <= x
  BY <1>2
<1> QED
  BY <1>3 DEF Max

\* A set of natural numbers has a least.
LEMMA MinOf ==
    ASSUME NEW S, S \subseteq Nat, S # {}
    PROVE  Min(S) \in S /\ \A x \in S : Min(S) <= x
<1>1. \E x \in S : \A y \in S : x <= y
  BY Smallest
<1> QED
  BY <1>1 DEF Min

\* The greater of two numbers.
LEMMA MaxOfTwo ==
    ASSUME NEW a \in Int, NEW b \in Int
    PROVE  Max({a, b}) = IF a >= b THEN a ELSE b
<1>1. IsFiniteSet({a, b})
  <2>1. IsFiniteSet({a} \cup {b})
    BY FS_Singleton, FS_AddElement
  <2>2. {a, b} = {a} \cup {b}
    OBVIOUS
  <2> QED
    BY <2>1, <2>2
<1>2. Max({a, b}) \in {a, b} /\ \A x \in {a, b} : x <= Max({a, b})
  BY <1>1, MaxOf
<1> QED
  BY <1>2

\* What a sequence is.
LEMMA SeqFacts ==
    ASSUME NEW T, NEW s \in Seq(T)
    PROVE  Len(s) \in Nat /\ DOMAIN s = 1..Len(s) /\ \A k \in 1..Len(s) : s[k] \in T
<1>1. Len(s) \in Nat /\ s \in [1..Len(s) -> T]
  BY LenProperties
<1> QED
  BY <1>1

\* A function of 1..n is a sequence.
LEMMA SeqMade ==
    ASSUME NEW T, NEW n \in Nat, NEW s, s \in [1..n -> T]
    PROVE  s \in Seq(T) /\ Len(s) = n
<1>1. s \in Seq(T)
  BY IsASeq
<1>2. Len(s) \in Nat /\ DOMAIN s = 1..Len(s)
  BY <1>1, SeqFacts
<1>3. 1..Len(s) = 1..n
  BY <1>2
<1> QED
  BY <1>1, <1>2, <1>3

-----------------------------------------------------------------------------
\* The steps of every order are cells of the map: what decode lets through.
Written(given) == \A i \in DOMAIN given : given[i].steps \in Seq(Cells)

\* Where an element ends is open ground; it ends away from its cell only by an
\* order that it obeys.
LEMMA EndsOpen ==
    ASSUME NEW es, NEW given, Written(given), NEW i \in DOMAIN es, es[i].at \in Open
    PROVE  /\ EndOf(es, given, i) \in Open
           /\ EndOf(es, given, i) # es[i].at =>
                /\ i \in DOMAIN given /\ Obeys(es, i, given[i])
                /\ Len(given[i].steps) \in Nat \ {0}
                /\ EndOf(es, given, i) = given[i].steps[Len(given[i].steps)]
<1>1. CASE i \in DOMAIN given /\ Obeys(es, i, given[i]) /\ given[i].steps # <<>>
  <2> DEFINE p == given[i].steps
  <2>1. p \in Seq(Cells) /\ p # <<>>
    BY <1>1 DEF Written
  <2>2. Len(p) \in Nat \ {0} /\ Len(p) \in DOMAIN p
    BY <2>1
  <2>3. EndOf(es, given, i) = p[Len(p)]
    BY <1>1 DEF EndOf, Last
  <2>4. p[Len(p)] \in Open
    BY <1>1, <2>2 DEF Obeys, Walks, IsStep
  <2> QED
    BY <1>1, <2>2, <2>3, <2>4
<1>2. CASE ~(i \in DOMAIN given /\ Obeys(es, i, given[i]) /\ given[i].steps # <<>>)
  BY <1>2 DEF EndOf
<1> QED
  BY <1>1, <1>2

\* None is left to send back; and none is sent back that no pass reaches.
LEMMA SentBackEnds ==
    ASSUME NEW es, NEW given, IsFiniteSet(DOMAIN es)
    PROVE  LET back == SentBack(es, given)
           IN  /\ back \subseteq DOMAIN es
               /\ \A i \in DOMAIN es : Shares(es, given, back, i) => i \in back
               /\ \A Q \in SUBSET DOMAIN es :
                    (\A b \in SUBSET Q : \A i \in DOMAIN es : Shares(es, given, b, i) => i \in Q)
                       => back \subseteq Q
<1> DEFINE P == DOMAIN es
           n == Cardinality(P)
           Pass(b) == b \cup {i \in P : Shares(es, given, b, i)}
           Body(h) == [k \in Nat |-> IF k = 0 THEN {} ELSE Pass(h[k - 1])]
           after == CHOOSE h : h = Body(h)
           st == [b \in SUBSET P |-> Pass(b)]
<1>1. SentBack(es, given) = after[n]
  BY DEF SentBack
<1>2. st \in [SUBSET P -> SUBSET P]
  OBVIOUS
<1>3. PICK g : Iterates(g, SUBSET P, {}, st)
  <2> HIDE DEF st
  <2> QED
    BY <1>2, Recursion
<1>4. g \in [Nat -> SUBSET P] /\ g[0] = {} /\ \A k \in Nat : g[k + 1] = st[g[k]]
  BY <1>3 DEF Iterates
<1>5. \A k \in Nat : k # 0 => g[k] = Pass(g[k - 1])
  <2> SUFFICES ASSUME NEW k \in Nat, k # 0 PROVE g[k] = Pass(g[k - 1])
    OBVIOUS
  <2>1. PICK j \in Nat : k = j + 1
    <3>1. k - 1 \in Nat
      OBVIOUS
    <3> QED
      BY <3>1
  <2>2. g[j + 1] = st[g[j]] /\ g[j] \in SUBSET P
    BY <1>4
  <2>3. st[g[j]] = Pass(g[j])
    BY <2>2
  <2>4. k - 1 = j
    BY <2>1
  <2> HIDE DEF Pass
  <2> QED
    BY <2>1, <2>2, <2>3, <2>4
<1>6. g = Body(g)
  <2> HIDE DEF Pass
  <2> QED
    BY <1>4, <1>5
<1>7. after = Body(after)
  <2> HIDE DEF Body
  <2> QED
    BY <1>6
<1> HIDE DEF after
<1>8. \A k \in Nat : after[k] = g[k]
  <2> DEFINE T == {k \in Nat : after[k] = g[k]}
  <2>1. 0 \in T
    BY <1>7, <1>4
  <2>2. ASSUME NEW k \in Nat, k \in T PROVE k + 1 \in T
    <3>1. after[k + 1] = Pass(after[(k + 1) - 1])
      <4> HIDE DEF Pass
      <4> QED
        BY <1>7
    <3>2. g[k + 1] = Pass(g[(k + 1) - 1])
      BY <1>5
    <3>3. (k + 1) - 1 = k /\ after[k] = g[k]
      BY <2>2
    <3> HIDE DEF Pass
    <3> QED
      BY <3>1, <3>2, <3>3
  <2> HIDE DEF T
  <2>3. \A k \in Nat : k \in T
    BY <2>1, <2>2, Induction
  <2> QED
    BY <2>3 DEF T
<1>9. n \in Nat
  BY FS_CardinalityType
<1>10. SentBack(es, given) = g[n] /\ g[n] \in SUBSET P
  BY <1>1, <1>4, <1>8, <1>9
<1>11. st[g[n]] = g[n]
  <2>1. \A s \in SUBSET P : s \subseteq st[s]
    OBVIOUS
  <2> HIDE DEF st, P
  <2> QED
    BY <1>3, <1>9, <2>1, GrowthEnds DEF P
<1>12. \A i \in P : Shares(es, given, g[n], i) => i \in g[n]
  BY <1>10, <1>11
<1>13. ASSUME NEW Q \in SUBSET P, \A b \in SUBSET Q : \A i \in P : Shares(es, given, b, i) => i \in Q
       PROVE  g[n] \subseteq Q
  <2> DEFINE T == {k \in Nat : g[k] \subseteq Q}
  <2>1. 0 \in T
    BY <1>4
  <2>2. ASSUME NEW k \in Nat, k \in T PROVE k + 1 \in T
    <3>1. g[k + 1] = Pass(g[k])
      BY <1>4
    <3>2. Pass(g[k]) \subseteq Q
      BY <2>2, <1>13
    <3> QED
      BY <3>1, <3>2
  <2> HIDE DEF T
  <2>3. \A k \in Nat : k \in T
    BY <2>1, <2>2, Induction
  <2> QED
    BY <2>3, <1>9 DEF T
<1> QED
  BY <1>10, <1>12, <1>13

-----------------------------------------------------------------------------
(* Fire.                                                                    *)

\* The health that shots leave.
LEMMA TollsLeave ==
    ASSUME NEW n \in Nat, NEW D, NEW health \in [D -> 0..FullHealth]
    PROVE  Tolls(n, health) \subseteq [D -> 0..FullHealth]
<1> DEFINE H == [D -> 0..FullHealth]
           Shot(h, t, d) == [h EXCEPT ![t] = Max({0, @ - d})]
           Hit(S) == S \cup {Shot(h, t, d) : h \in S, t \in DOMAIN health, d \in Damages}
           Body(f) == [k \in Nat |-> IF k = 0 THEN {health} ELSE Hit(f[k - 1])]
           after == CHOOSE f : f = Body(f)
           st == [S \in SUBSET H |-> Hit(S)]
<1>1. Tolls(n, health) = after[n]
  BY DEF Tolls
<1>2. ASSUME NEW S \in SUBSET H PROVE Hit(S) \in SUBSET H
  <2> HIDE DEF H, Hit
  <2> SUFFICES ASSUME NEW x \in Hit(S) PROVE x \in H
    OBVIOUS
  <2>a. CASE x \in S
    BY <2>a DEF H
  <2>b. CASE x \notin S
    <3>0. PICK h \in S, t \in DOMAIN health, d \in Damages : x = Shot(h, t, d)
      <4> HIDE DEF Shot
      <4> QED
        BY <2>b DEF Hit
    <3>1. h \in H /\ h[t] \in 0..FullHealth /\ d \in Nat /\ FullHealth \in Nat
      BY DamagesAssumption, ElementsAssumption DEF H
    <3>2. Max({0, h[t] - d}) \in 0..FullHealth
      <4>1. 0 \in Int /\ h[t] - d \in Int
        BY <3>1
      <4>2. Max({0, h[t] - d}) = IF 0 >= h[t] - d THEN 0 ELSE h[t] - d
        BY <4>1, MaxOfTwo
      <4> QED
        BY <3>1, <4>2
    <3> QED
      BY <3>0, <3>1, <3>2 DEF H
  <2> QED
    BY <2>a, <2>b
<1>3. st \in [SUBSET H -> SUBSET H]
  <2> HIDE DEF H, Hit
  <2> QED
    BY <1>2
<1>4. {health} \in SUBSET H
  OBVIOUS
<1>5. PICK g : Iterates(g, SUBSET H, {health}, st)
  <2> HIDE DEF st, H
  <2> QED
    BY <1>3, <1>4, Recursion
<1>6. g \in [Nat -> SUBSET H] /\ g[0] = {health} /\ \A k \in Nat : g[k + 1] = Hit(g[k])
  <2> HIDE DEF Hit, H
  <2> QED
    BY <1>5 DEF Iterates
<1>7. \A k \in Nat : k # 0 => g[k] = Hit(g[k - 1])
  <2> HIDE DEF Hit
  <2> SUFFICES ASSUME NEW k \in Nat, k # 0 PROVE g[k] = Hit(g[k - 1])
    OBVIOUS
  <2>1. k - 1 \in Nat /\ (k - 1) + 1 = k
    OBVIOUS
  <2> QED
    BY <2>1, <1>6
<1>8. g = Body(g)
  <2> HIDE DEF Hit, H
  <2> QED
    BY <1>6, <1>7
<1>9. after = Body(after)
  <2> HIDE DEF Body
  <2> QED
    BY <1>8
<1> HIDE DEF after
<1>10. after[0] = {health} /\ \A k \in Nat : after[k + 1] = Hit(after[k])
  <2> HIDE DEF Hit
  <2>1. after[0] = {health}
    BY <1>9
  <2>2. ASSUME NEW k \in Nat PROVE after[k + 1] = Hit(after[k])
    <3>1. k + 1 \in Nat /\ k + 1 # 0 /\ (k + 1) - 1 = k
      OBVIOUS
    <3>2. after[k + 1] = Hit(after[(k + 1) - 1])
      BY <1>9, <3>1
    <3> QED
      BY <3>1, <3>2
  <2> QED
    BY <2>1, <2>2
<1>11. \A k \in Nat : after[k] \in SUBSET H => after[k + 1] = st[after[k]]
  <2> HIDE DEF Hit, H
  <2> QED
    BY <1>10
<1>12. \A k \in Nat : after[k] \in SUBSET H
  <2> DEFINE W == SUBSET H
  <2>1. /\ {health} \in W /\ st \in [W -> W] /\ after[0] = {health}
        /\ \A k \in Nat : after[k] \in W => after[k + 1] = st[after[k]]
    <3> HIDE DEF st, H
    <3> QED
      BY <1>3, <1>4, <1>10, <1>11
  <2> HIDE DEF st, W
  <2>2. Stays(after, W, st)
    BY <2>1, Unrolled DEF Continues
  <2> QED
    BY <2>2 DEF W, Stays
<1> QED
  BY <1>1, <1>12

\* What becomes of elements that are fired at: only their health changes.
Hurt(es) ==
    {m \in [DOMAIN es -> [at : Open, status : Statuses, health : Seq(0..FullHealth)]] :
        \A i \in DOMAIN es : /\ m[i].at = es[i].at /\ m[i].status = es[i].status
                             /\ Len(m[i].health) = Len(es[i].health)}

\* Elements that have no more operators than a squad.
Manned(es) ==
    /\ DOMAIN es \subseteq Elements
    /\ \A i \in DOMAIN es : Len(es[i].health) \in 0..SquadSize

\* The living can be counted.
LEMMA LivingFinite ==
    ASSUME NEW es, Manned(es), NEW m \in Hurt(es), NEW S, S \subseteq DOMAIN es
    PROVE  /\ Cardinality(Living(m, S)) \in Nat
           /\ \A o \in Living(m, S) :
                /\ o = <<o[1], o[2]>> /\ o[1] \in S /\ o[2] \in DOMAIN m[o[1]].health
                /\ m[o[1]].health[o[2]] \in 0..FullHealth
<1> DEFINE B == Elements \X (1..SquadSize)
<1>1. IsFiniteSet(B)
  <2>1. 1 \in Int /\ SquadSize \in Int
    BY ElementsAssumption
  <2>2. IsFiniteSet(1..SquadSize)
    BY <2>1, FS_Interval
  <2> QED
    BY <2>2, NamesAssumption, FS_Product
<1>2. ASSUME NEW o \in Living(m, S)
      PROVE  /\ o = <<o[1], o[2]>> /\ o[1] \in S /\ o[2] \in DOMAIN m[o[1]].health
             /\ m[o[1]].health[o[2]] \in 0..FullHealth /\ o \in B
  <2>1. PICK i \in S : o \in {i} \X DOMAIN m[i].health
    BY DEF Living
  <2>2. o = <<o[1], o[2]>> /\ o[1] = i /\ o[2] \in DOMAIN m[i].health
    BY <2>1
  <2>3. i \in DOMAIN es /\ i \in Elements /\ m[i].health \in Seq(0..FullHealth)
        /\ Len(m[i].health) \in 0..SquadSize
    BY DEF Hurt, Manned
  <2>4. DOMAIN m[i].health \subseteq 1..SquadSize /\ m[i].health[o[2]] \in 0..FullHealth
    BY <2>2, <2>3, ElementsAssumption
  <2> QED
    BY <2>1, <2>2, <2>3, <2>4
<1>3. Living(m, S) \subseteq B
  <2> HIDE DEF B
  <2> QED
    BY <1>2
<1>4. Cardinality(Living(m, S)) \in Nat
  <2> HIDE DEF B
  <2> QED
    BY <1>1, <1>3, FS_Subset, FS_CardinalityType
<1> QED
  BY <1>2, <1>4

\* An exchange of fire changes nothing but health.
LEMMA ExchangesHurt ==
    ASSUME NEW es, Manned(es), NEW m \in Hurt(es),
           NEW us, us \subseteq DOMAIN es, NEW them, them \subseteq DOMAIN es
    PROVE  Exchanges(m, us, them) \subseteq Hurt(es)
<1> DEFINE On(S) == [o \in Living(m, S) |-> m[o[1]].health[o[2]]]
<1> SUFFICES ASSUME NEW r \in Exchanges(m, us, them) PROVE r \in Hurt(es)
  OBVIOUS
<1>1. PICK a \in Tolls(Cardinality(Living(m, them)), On(us)),
           b \in Tolls(Cardinality(Living(m, us)), On(them)) : r = Struck(m, Over(a, b))
  <2> DEFINE A == Tolls(Cardinality(Living(m, them)), On(us))
             B == Tolls(Cardinality(Living(m, us)), On(them))
  <2>1. Exchanges(m, us, them) = {Struck(m, Over(a, b)) : a \in A, b \in B}
    BY DEF Exchanges
  <2> HIDE DEF A, B
  <2>2. \E a \in A, b \in B : r = Struck(m, Over(a, b))
    <3>1. r \in {Struck(m, Over(a, b)) : a \in A, b \in B}
      BY <2>1
    <3> QED
      BY <3>1
  <2> QED
    BY <2>2 DEF A, B
<1>2. ASSUME NEW S, S \subseteq us \cup them PROVE On(S) \in [Living(m, S) -> 0..FullHealth]
  <2>1. S \subseteq DOMAIN es
    BY <1>2
  <2> QED
    BY <2>1, LivingFinite
<1>3. a \in [Living(m, us) -> 0..FullHealth] /\ b \in [Living(m, them) -> 0..FullHealth]
  <2>1. Cardinality(Living(m, us)) \in Nat /\ Cardinality(Living(m, them)) \in Nat
    BY LivingFinite
  <2>2. On(us) \in [Living(m, us) -> 0..FullHealth] /\ On(them) \in [Living(m, them) -> 0..FullHealth]
    <3> HIDE DEF On
    <3> QED
      BY <1>2
  <2> HIDE DEF On
  <2> QED
    BY <2>1, <2>2, TollsLeave
<1> DEFINE toll == Over(a, b)
<1>4. \A o \in DOMAIN toll : toll[o] \in 0..FullHealth
  BY <1>3 DEF Over
<1> HIDE DEF toll
<1>5. r = Struck(m, toll)
  BY <1>1 DEF toll
<1>6. m \in [DOMAIN es -> [at : Open, status : Statuses, health : Seq(0..FullHealth)]]
  BY DEF Hurt
<1>7. ASSUME NEW i \in DOMAIN es
      PROVE  /\ r[i] \in [at : Open, status : Statuses, health : Seq(0..FullHealth)]
             /\ r[i].at = es[i].at /\ r[i].status = es[i].status
             /\ Len(r[i].health) = Len(es[i].health)
  <2> DEFINE h == m[i].health
             n == Len(h)
             h2 == [k \in 1..n |-> IF <<i, k>> \in DOMAIN toll THEN toll[<<i, k>>] ELSE h[k]]
  <2>1. m[i] \in [at : Open, status : Statuses, health : Seq(0..FullHealth)]
    BY <1>6
  <2>2. h \in Seq(0..FullHealth) /\ n \in Nat /\ DOMAIN h = 1..n /\ \A k \in 1..n : h[k] \in 0..FullHealth
    <3>1. h \in Seq(0..FullHealth)
      BY <2>1
    <3> HIDE DEF h
    <3> QED
      BY <3>1, SeqFacts
  <2>3. h2 \in [1..n -> 0..FullHealth]
    BY <1>4, <2>2
  <2>4. h2 \in Seq(0..FullHealth) /\ Len(h2) = n
    <3> DEFINE H == 0..FullHealth
    <3>1. n \in Nat /\ h2 \in [1..n -> H]
      BY <2>2, <2>3
    <3> HIDE DEF h2, n, H
    <3>2. h2 \in Seq(H) /\ Len(h2) = n
      BY <3>1, SeqMade
    <3> QED
      BY <3>2 DEF H
  <2>5. r[i] = [m[i] EXCEPT !.health = h2]
    BY <1>5, <1>6, <2>2 DEF Struck
  <2> HIDE DEF h2
  <2>6. r[i] = [at |-> m[i].at, status |-> m[i].status, health |-> h2]
    BY <2>1, <2>5
  <2>7. m[i].at = es[i].at /\ m[i].status = es[i].status /\ n = Len(es[i].health)
    BY DEF Hurt
  <2> QED
    BY <2>1, <2>4, <2>6, <2>7
<1>8. r = [i \in DOMAIN es |-> r[i]]
  BY <1>5, <1>6 DEF Struck
<1> QED
  BY <1>7, <1>8 DEF Hurt

\* Who retreats is an element there is.
LEMMA RetreatsMoved ==
    ASSUME NEW es, NEW moved
    PROVE  Retreats(es, moved) \subseteq DOMAIN es
BY DEF Retreats

\* Neither do the volleys at those who retreat.
LEMMA VolleysHurt ==
    ASSUME NEW es, NEW moved, Manned(moved), moved \in Hurt(moved), NEW given,
           DOMAIN moved = DOMAIN es
    PROVE  Volleys(es, moved, given) \subseteq Hurt(moved)
<1> DEFINE R == Retreats(es, moved)
<1>0. IsFiniteSet(R) /\ R \subseteq DOMAIN moved /\ R \subseteq Nat
  BY WorldFinite, RetreatsMoved, NamesAssumption DEF Manned
<1> HIDE DEF R
<1> DEFINE W == SUBSET Hurt(moved)
           Turn(x, M) == UNION {Exchanges(m, Pursuers(es, moved, given, x), {x}) : m \in M}
           Body(h) == [s \in SUBSET R |->
                         IF s = {} THEN {moved} ELSE LET x == Max(s) IN Turn(x, h[s \ {x}])]
           it == CHOOSE h : h = Body(h)
           ch == [s \in SUBSET R |-> Max(s)]
           st == [p \in R \X W |-> Turn(p[1], p[2])]
<1>1. Volleys(es, moved, given) = it[R]
  BY DEF Volleys, InOrder, MapThenFoldSet, R
<1>2. ASSUME NEW x \in R, NEW M \in W PROVE Turn(x, M) \in W
  <2>1. Pursuers(es, moved, given, x) \subseteq DOMAIN moved /\ {x} \subseteq DOMAIN moved
    BY <1>0 DEF Pursuers
  <2>2. \A m \in M : Exchanges(m, Pursuers(es, moved, given, x), {x}) \subseteq Hurt(moved)
    BY <2>1, ExchangesHurt
  <2> QED
    BY <2>2
<1>3. \A s \in SUBSET R : s # {} => Max(s) \in s
  <2> SUFFICES ASSUME NEW s \in SUBSET R, s # {} PROVE Max(s) \in s
    OBVIOUS
  <2>1. IsFiniteSet(s) /\ s \subseteq Int
    BY <1>0, FS_Subset
  <2> QED
    BY <2>1, MaxOf
<1>4. {moved} \in W /\ st \in [R \X W -> W] /\ \A s \in SUBSET R : s # {} => ch[s] \in s
  <2>1. st \in [R \X W -> W]
    <3> HIDE DEF W, Turn
    <3> QED
      BY <1>2
  <2>2. {moved} \in W
    OBVIOUS
  <2> QED
    BY <1>3, <2>1, <2>2
<1>5. PICK g : Folds(g, R, ch, W, {moved}, st)
  <2> HIDE DEF W, st, ch
  <2> QED
    BY <1>0, <1>4, SetRecursion
<1>6. g \in [SUBSET R -> W] /\ g[{}] = {moved}
  <2> HIDE DEF W, st, ch
  <2> QED
    BY <1>5 DEF Folds
<1>7. ASSUME NEW s \in SUBSET R, s # {} PROVE g[s] = LET x == Max(s) IN Turn(x, g[s \ {x}])
  <2>1. PICK x : x = Max(s)
    OBVIOUS
  <2>2. x \in R /\ ch[s] = x /\ s \ {x} \in SUBSET R
    BY <2>1, <1>3, <1>7
  <2>3. g[s \ {x}] \in W
    <3> HIDE DEF W
    <3> QED
      BY <2>2, <1>6
  <2>4. g[s] = st[<<x, g[s \ {x}]>>]
    <3> HIDE DEF W, st, ch
    <3> QED
      BY <2>2, <1>5, <1>7 DEF Folds
  <2>5. st[<<x, g[s \ {x}]>>] = Turn(x, g[s \ {x}])
    <3>1. PICK M : M = g[s \ {x}]
      OBVIOUS
    <3>2. M \in W
      BY <2>3, <3>1
    <3> HIDE DEF W, Turn
    <3>3. st[<<x, M>>] = Turn(x, M)
      BY <2>2, <3>2
    <3> QED
      BY <3>1, <3>3
  <2> HIDE DEF Turn, st
  <2> QED
    BY <2>1, <2>4, <2>5
<1>8. g = Body(g)
  <2> HIDE DEF W, Turn
  <2> QED
    BY <1>6, <1>7
<1>9. it = Body(it)
  <2> HIDE DEF Body
  <2> QED
    BY <1>8
<1> HIDE DEF it
<1>10. it[{}] = {moved}
  <2> HIDE DEF Turn
  <2> QED
    BY <1>9
<1>11. ASSUME NEW s \in SUBSET R, s # {} PROVE \E x \in s : it[s \ {x}] \in W => it[s] \in W
  <2>1. PICK x : x = Max(s)
    OBVIOUS
  <2>2. x \in s /\ x \in R
    BY <2>1, <1>3, <1>11
  <2>3. it[s] = Turn(x, it[s \ {x}])
    <3> HIDE DEF Turn
    <3> QED
      BY <2>1, <1>9, <1>11
  <2>4. it[s \ {x}] \in W => it[s] \in W
    <3> HIDE DEF W, Turn
    <3> QED
      BY <1>2, <2>2, <2>3
  <2> QED
    BY <2>2, <2>4
<1>12. it[R] \in W
  <2> HIDE DEF W, Turn
  <2>1. FoldsWithin(it, R, W)
    BY <1>4, <1>10, <1>11 DEF FoldsWithin
  <2> QED
    BY <1>0, <2>1, FoldInduction
<1> QED
  BY <1>1, <1>12

\* Nor do the fights.
LEMMA FightsHurt ==
    ASSUME NEW moved, Manned(moved), moved \in Hurt(moved), NEW S0, S0 \subseteq Hurt(moved)
    PROVE  Fights(S0, moved) \subseteq Hurt(moved)
<1> DEFINE f == CHOOSE g \in Factions : TRUE
           F == {l \in {moved[i].at : i \in DOMAIN moved} : Contested(moved, l)}
           Side(l, g) == {i \in At(moved, l) : Of[i] = g}
<1>0. IsFiniteSet(F)
  <2>1. \A i \in DOMAIN moved : moved[i].at \in Cells
    BY DEF Hurt, Open
  <2>2. F \subseteq Cells
    BY <2>1
  <2> HIDE DEF F
  <2> QED
    BY <2>2, WorldFinite
<1>a. Fights(S0, moved) = FoldSet(LAMBDA l, T : UNION {Exchanges(m, Side(l, f), Side(l, Rival(f))) : m \in T}, S0, F)
  BY DEF Fights
<1>b. \A l, g : Side(l, g) \subseteq DOMAIN moved
  BY DEF At
<1> HIDE DEF f, F, Side
<1> DEFINE W == SUBSET Hurt(moved)
           Turn(x, M) == UNION {Exchanges(m, Side(x, f), Side(x, Rival(f))) : m \in M}
           Body(h) == [s \in SUBSET F |->
                         IF s = {} THEN S0 ELSE LET x == (CHOOSE x \in s : TRUE) IN Turn(x, h[s \ {x}])]
           it == CHOOSE h : h = Body(h)
           ch == [s \in SUBSET F |-> (CHOOSE x \in s : TRUE)]
           st == [p \in F \X W |-> Turn(p[1], p[2])]
<1>1. Fights(S0, moved) = it[F]
  BY <1>a DEF FoldSet, MapThenFoldSet
<1>2. ASSUME NEW x \in F, NEW M \in W PROVE Turn(x, M) \in W
  <2>1. \A m \in M : Exchanges(m, Side(x, f), Side(x, Rival(f))) \subseteq Hurt(moved)
    BY <1>b, ExchangesHurt
  <2> QED
    BY <2>1
<1>3. \A s \in SUBSET F : s # {} => (CHOOSE x \in s : TRUE) \in s
  <2> SUFFICES ASSUME NEW s \in SUBSET F, s # {} PROVE (CHOOSE x \in s : TRUE) \in s
    OBVIOUS
  <2>1. \E x \in s : TRUE
    OBVIOUS
  <2> QED
    BY <2>1, Zenon
<1>4. S0 \in W /\ st \in [F \X W -> W] /\ \A s \in SUBSET F : s # {} => ch[s] \in s
  <2>1. st \in [F \X W -> W]
    <3> HIDE DEF W, Turn
    <3> QED
      BY <1>2
  <2>2. S0 \in W
    OBVIOUS
  <2> QED
    BY <1>3, <2>1, <2>2
<1>5. PICK g : Folds(g, F, ch, W, S0, st)
  <2> HIDE DEF W, st, ch
  <2> QED
    BY <1>0, <1>4, SetRecursion
<1>6. g \in [SUBSET F -> W] /\ g[{}] = S0
  <2> HIDE DEF W, st, ch
  <2> QED
    BY <1>5 DEF Folds
<1>7. ASSUME NEW s \in SUBSET F, s # {} PROVE g[s] = LET x == (CHOOSE x \in s : TRUE) IN Turn(x, g[s \ {x}])
  <2>1. PICK x : x = (CHOOSE y \in s : TRUE)
    OBVIOUS
  <2>2. x \in F /\ ch[s] = x /\ s \ {x} \in SUBSET F
    BY <2>1, <1>3, <1>7
  <2>3. g[s \ {x}] \in W
    <3> HIDE DEF W
    <3> QED
      BY <2>2, <1>6
  <2>4. g[s] = st[<<x, g[s \ {x}]>>]
    <3> HIDE DEF W, st, ch
    <3> QED
      BY <2>2, <1>5, <1>7 DEF Folds
  <2>5. st[<<x, g[s \ {x}]>>] = Turn(x, g[s \ {x}])
    <3>1. PICK M : M = g[s \ {x}]
      OBVIOUS
    <3>2. M \in W
      BY <2>3, <3>1
    <3> HIDE DEF W, Turn
    <3>3. st[<<x, M>>] = Turn(x, M)
      BY <2>2, <3>2
    <3> QED
      BY <3>1, <3>3
  <2> HIDE DEF Turn, st
  <2> QED
    BY <2>1, <2>4, <2>5
<1>8. g = Body(g)
  <2> HIDE DEF W, Turn
  <2> QED
    BY <1>6, <1>7
<1>9. it = Body(it)
  <2> HIDE DEF Body
  <2> QED
    BY <1>8
<1> HIDE DEF it
<1>10. it[{}] = S0
  <2> HIDE DEF Turn
  <2> QED
    BY <1>9
<1>11. ASSUME NEW s \in SUBSET F, s # {} PROVE \E x \in s : it[s \ {x}] \in W => it[s] \in W
  <2>1. PICK x : x = (CHOOSE y \in s : TRUE)
    OBVIOUS
  <2>2. x \in s /\ x \in F
    BY <2>1, <1>3, <1>11
  <2>3. it[s] = Turn(x, it[s \ {x}])
    <3> HIDE DEF Turn
    <3> QED
      BY <2>1, <1>9, <1>11
  <2>4. it[s \ {x}] \in W => it[s] \in W
    <3> HIDE DEF W, Turn
    <3> QED
      BY <1>2, <2>2, <2>3
  <2> QED
    BY <2>2, <2>4
<1>12. it[F] \in W
  <2> HIDE DEF W, Turn
  <2>1. FoldsWithin(it, F, W)
    BY <1>4, <1>10, <1>11 DEF FoldsWithin
  <2> QED
    BY <1>0, <2>1, FoldInduction
<1> QED
  BY <1>1, <1>12

\* The operators that have not fallen are some of them, all in health.
LEMMA UnfallenLeft ==
    ASSUME NEW h \in Seq(0..FullHealth)
    PROVE  Unfallen(h) \in Seq(1..FullHealth) /\ Len(Unfallen(h)) <= Len(h)
<1> DEFINE Q == Seq({h[k] : k \in Nat})
           With(k, q) == IF h[k] > 0 THEN Append(q, h[k]) ELSE q
           Body(f) == [k \in Nat |-> IF k = 0 THEN <<>>
                                     ELSE IF h[k] > 0 THEN Append(f[k - 1], h[k]) ELSE f[k - 1]]
           among == CHOOSE f : f = Body(f)
           st == [p \in Nat \X Q |-> With(p[1] + 1, p[2])]
<1>1. Unfallen(h) = among[Len(h)]
  BY DEF Unfallen
<1>2. ASSUME NEW k \in Nat, NEW q \in Q PROVE With(k, q) \in Q
  <2>1. h[k] \in {h[j] : j \in Nat}
    OBVIOUS
  <2> QED
    BY <2>1
<1>3. <<>> \in Q /\ st \in [Nat \X Q -> Q]
  <2>1. \A p \in Nat \X Q : p[1] + 1 \in Nat /\ p[2] \in Q
    OBVIOUS
  <2>2. <<>> \in Q
    OBVIOUS
  <2> HIDE DEF Q, With
  <2> QED
    BY <2>1, <2>2, <1>2
<1>4. PICK g : Numbered(g, Q, <<>>, st)
  <2> HIDE DEF Q, st
  <2> QED
    BY <1>3, NumberedRecursion
<1>5. g \in [Nat -> Q] /\ g[0] = <<>> /\ \A k \in Nat : g[k + 1] = With(k + 1, g[k])
  <2> HIDE DEF Q, With
  <2> QED
    BY <1>4 DEF Numbered
<1>6. \A k \in Nat : k # 0 => g[k] = With(k, g[k - 1])
  <2> HIDE DEF With
  <2> SUFFICES ASSUME NEW k \in Nat, k # 0 PROVE g[k] = With(k, g[k - 1])
    OBVIOUS
  <2>1. k - 1 \in Nat /\ (k - 1) + 1 = k
    OBVIOUS
  <2> QED
    BY <2>1, <1>5
<1>7. g = Body(g)
  <2> HIDE DEF Q
  <2> QED
    BY <1>5, <1>6
<1>8. among = Body(among)
  <2> HIDE DEF Body
  <2> QED
    BY <1>7
<1> HIDE DEF among
<1>9. among[0] = <<>> /\ \A k \in Nat : k # 0 => among[k] = With(k, among[k - 1])
  BY <1>8
<1>10. Len(h) \in Nat /\ DOMAIN h = 1..Len(h) /\ \A k \in 1..Len(h) : h[k] \in 0..FullHealth
  BY SeqFacts
<1> DEFINE T == {k \in Nat : k <= Len(h) => among[k] \in Seq(1..FullHealth) /\ Len(among[k]) <= k}
<1>11. 0 \in T
  <2>1. <<>> \in Seq(1..FullHealth) /\ Len(<<>>) = 0
    OBVIOUS
  <2>2. among[0] \in Seq(1..FullHealth) /\ Len(among[0]) <= 0
    BY <2>1, <1>9
  <2> HIDE DEF With
  <2> QED
    BY <2>2
<1>12. ASSUME NEW k \in Nat, k \in T PROVE k + 1 \in T
  <2> SUFFICES ASSUME k + 1 <= Len(h)
               PROVE  among[k + 1] \in Seq(1..FullHealth) /\ Len(among[k + 1]) <= k + 1
    OBVIOUS
  <2>1. PICK q : q = among[k]
    OBVIOUS
  <2>2. q \in Seq(1..FullHealth) /\ Len(q) <= k /\ Len(q) \in Nat
    BY <1>12, <2>1, <1>10
  <2>3. k + 1 \in Nat /\ k + 1 # 0 /\ (k + 1) - 1 = k
    OBVIOUS
  <2>4. among[k + 1] = With(k + 1, q)
    <3> HIDE DEF With
    <3> QED
      BY <1>9, <2>1, <2>3
  <2>5. h[k + 1] \in 0..FullHealth /\ FullHealth \in Nat
    BY <1>10, ElementsAssumption
  <2>6. CASE h[k + 1] > 0
    <3>1. h[k + 1] \in 1..FullHealth /\ among[k + 1] = Append(q, h[k + 1])
      BY <2>4, <2>5, <2>6
    <3> QED
      BY <3>1, <2>2
  <2>7. CASE ~(h[k + 1] > 0)
    <3>1. among[k + 1] = q
      BY <2>4, <2>7
    <3> QED
      BY <3>1, <2>2
  <2> QED
    BY <2>6, <2>7
<1>13. \A k \in Nat : k \in T
  <2> HIDE DEF T
  <2> QED
    BY <1>11, <1>12, Induction
<1> QED
  BY <1>1, <1>10, <1>13

-----------------------------------------------------------------------------
(* A round.                                                                 *)

\* The faction that is alone in a cell is the one that takes it.
LEMMA FactionsThere ==
    ASSUME NEW es, NEW l, DOMAIN es \subseteq Elements
    PROVE  /\ FactionsAt(es, l) \in SUBSET Factions
           /\ Cardinality(FactionsAt(es, l)) \in Nat
           /\ Cardinality(FactionsAt(es, l)) = 1 =>
                Taker(es, l) \in Factions /\ FactionsAt(es, l) = {Taker(es, l)}
           /\ \A f \in Factions : FactionsAt(es, l) = {f} =>
                Cardinality(FactionsAt(es, l)) = 1 /\ Taker(es, l) = f
<1>1. FactionsAt(es, l) \in SUBSET Factions
  <2>1. \A i \in At(es, l) : Of[i] \in Factions
    BY ElementsAssumption DEF At
  <2> QED
    BY <2>1 DEF FactionsAt
<1>2. Cardinality(FactionsAt(es, l)) \in Nat
  BY <1>1, Rivals
<1>3. ASSUME Cardinality(FactionsAt(es, l)) = 1
      PROVE  Taker(es, l) \in Factions /\ FactionsAt(es, l) = {Taker(es, l)}
  <2>1. PICK f \in Factions : FactionsAt(es, l) = {f}
    BY <1>1, <1>3, Rivals
  <2>2. Taker(es, l) = f
    BY <2>1 DEF Taker
  <2> QED
    BY <2>1, <2>2
<1>4. ASSUME NEW f \in Factions, FactionsAt(es, l) = {f}
      PROVE  Cardinality(FactionsAt(es, l)) = 1 /\ Taker(es, l) = f
  BY <1>4, Rivals DEF Taker
<1> QED
  BY <1>1, <1>2, <1>3, <1>4

\* What a round leaves of an element.
LEMMA MovedHurt ==
    ASSUME NEW s, Valid(s), NEW given, Written(given)
    PROVE  LET es == s.elements
               moved == Moved(es, given)
           IN  /\ Manned(moved) /\ moved \in Hurt(moved) /\ DOMAIN moved = DOMAIN es
               /\ \A i \in DOMAIN es : /\ moved[i].at = Ends(es, given)[i]
                                       /\ Len(moved[i].health) \in 1..Operators(KindOf[i])
<1> DEFINE es == s.elements
           moved == Moved(es, given)
<1>1. DOMAIN es \subseteq Elements /\ DOMAIN moved = DOMAIN es
  BY DEF Valid, Moved
<1>2. ASSUME NEW i \in DOMAIN es
      PROVE  /\ moved[i] \in [at : Open, status : Statuses, health : Seq(0..FullHealth)]
             /\ moved[i].at = Ends(es, given)[i]
             /\ Len(moved[i].health) \in 1..Operators(KindOf[i])
             /\ Len(moved[i].health) \in 0..SquadSize
  <2>1. /\ es[i] \in [at : Open, status : Statuses, health : Seq(1..FullHealth)]
        /\ Len(es[i].health) \in 1..Operators(KindOf[i])
    BY DEF Valid
  <2>2. Ends(es, given)[i] \in Open
    <3>1. EndOf(es, given, i) \in Open /\ es[i].at \in Open
      BY <2>1, EndsOpen
    <3> QED
      BY <3>1 DEF Ends, EndIn
  <2>3. moved[i] = [es[i] EXCEPT !.at = Ends(es, given)[i]]
    BY DEF Moved
  <2> DEFINE h == es[i].health
  <2>4. h \in Seq(0..FullHealth)
    <3>1. 1..FullHealth \subseteq 0..FullHealth
      BY ElementsAssumption
    <3>2. h \in Seq(1..FullHealth)
      BY <2>1
    <3> QED
      BY <3>1, <3>2, SeqMonotonic
  <2>5. moved[i] = [at |-> Ends(es, given)[i], status |-> es[i].status, health |-> h]
    BY <2>1, <2>3
  <2>6. Operators(KindOf[i]) \in 1..SquadSize
    <3>1. KindOf[i] \in Kinds
      BY <1>1, ElementsAssumption
    <3> QED
      BY <3>1, ElementsAssumption DEF Operators, Kinds
  <2>7. Len(h) \in 0..SquadSize
    BY <2>1, <2>6, ElementsAssumption
  <2> QED
    BY <2>1, <2>2, <2>4, <2>5, <2>7
<1>3. moved = [i \in DOMAIN es |-> moved[i]]
  BY DEF Moved
<1>4. moved \in [DOMAIN es -> [at : Open, status : Statuses, health : Seq(0..FullHealth)]]
  <2> HIDE DEF moved
  <2> QED
    BY <1>2, <1>3
<1> HIDE DEF moved
<1>5. moved \in Hurt(moved)
  BY <1>1, <1>4 DEF Hurt
<1>6. Manned(moved)
  BY <1>1, <1>2 DEF Manned
<1> QED
  BY <1>1, <1>2, <1>5, <1>6 DEF moved

\* What is held and counted after a round is an objective.
LEMMA CaptureValid ==
    ASSUME NEW s, Valid(s), NEW es, DOMAIN es \subseteq Elements
    PROVE  LET t == Capture(s, es)
           IN  /\ DOMAIN t.holders \subseteq Objectives /\ Range(t.holders) \subseteq Factions
               /\ DOMAIN t.progress \subseteq Objectives
               /\ Range(t.progress) \subseteq [faction : Factions, rounds : 1..CaptureRounds - 1]
               /\ t.elements = es
               /\ \A o \in Objectives : Count(s, es, o) \in {1, 2}
<1> DEFINE t == Capture(s, es)
<1>1. Taking(s, es) \subseteq Objectives /\ Captures(s, es) \subseteq Taking(s, es)
  BY DEF Taking, Captures
<1>2. \A o \in Taking(s, es) : Taker(es, o) \in Factions
  BY FactionsThere DEF Taking
<1>3. \A o \in Objectives : Count(s, es, o) \in {1, 2}
  <2>1. \A o \in DOMAIN s.progress : s.progress[o] \in [faction : Factions, rounds : 1..1]
    BY DEF Valid, Range, CaptureRounds
  <2>2. \A o \in DOMAIN s.progress : s.progress[o].rounds = 1
    BY <2>1
  <2> QED
    BY <2>2 DEF Count
<1>4. \A o \in DOMAIN t.holders : o \in Objectives /\ t.holders[o] \in Factions
  <2>1. \A o \in DOMAIN s.holders : o \in Objectives /\ s.holders[o] \in Factions
    BY DEF Valid, Range
  <2> QED
    BY <2>1, <1>1, <1>2 DEF Capture
<1>5. \A o \in DOMAIN t.progress :
        o \in Objectives /\ t.progress[o] \in [faction : Factions, rounds : 1..CaptureRounds - 1]
  <2> SUFFICES ASSUME NEW o \in DOMAIN t.progress
               PROVE  o \in Objectives /\ t.progress[o] \in [faction : Factions, rounds : 1..CaptureRounds - 1]
    OBVIOUS
  <2>1. o \in Taking(s, es) \ Captures(s, es)
        /\ t.progress[o] = [faction |-> Taker(es, o), rounds |-> Count(s, es, o)]
    BY DEF Capture
  <2>2. Count(s, es, o) = 1
    BY <2>1, <1>1, <1>3 DEF Captures, CaptureRounds
  <2> QED
    BY <2>1, <2>2, <1>1, <1>2 DEF CaptureRounds
<1>6. t.elements = es
  BY DEF Capture
<1> HIDE DEF t
<1>7. Range(t.holders) \subseteq Factions
      /\ Range(t.progress) \subseteq [faction : Factions, rounds : 1..CaptureRounds - 1]
  BY <1>4, <1>5 DEF Range
<1> QED
  BY <1>3, <1>4, <1>5, <1>6, <1>7 DEF t

\* How a round ends.
LEMMA RoundEnds ==
    ASSUME NEW s, Valid(s), NEW given, Written(given), NEW t \in Resolutions(s, given)
    PROVE  LET es == s.elements
               rs == t.elements
           IN  /\ Valid(t) /\ t = Capture(s, rs) /\ DOMAIN rs \subseteq DOMAIN es
               /\ \A i \in DOMAIN rs :
                    /\ rs[i].at = Ends(es, given)[i]
                    /\ rs[i].status = IF rs[i].at # es[i].at /\ Contested(es, es[i].at)
                                        THEN "recovering"
                                        ELSE IF Contested(rs, rs[i].at) THEN "engaged" ELSE "ready"
<1> DEFINE es == s.elements
           moved == Moved(es, given)
           back == Retreats(es, moved)
<1>1. PICK m \in Fights(Volleys(es, moved, given), moved) : t = Capture(s, Settled(Buried(m), back))
  <2> HIDE DEF moved, back
  <2> QED
    BY DEF Resolutions, moved, back
<1>2. /\ Manned(moved) /\ moved \in Hurt(moved) /\ DOMAIN moved = DOMAIN es
      /\ \A i \in DOMAIN es : /\ moved[i].at = Ends(es, given)[i]
                              /\ Len(moved[i].health) \in 1..Operators(KindOf[i])
  BY MovedHurt
<1>3. DOMAIN es \subseteq Elements
  BY DEF Valid
<1>4. back = {i \in DOMAIN es : moved[i].at # es[i].at /\ Contested(es, es[i].at)}
  BY DEF Retreats
<1> HIDE DEF moved, back
<1>5. m \in Hurt(moved)
  BY <1>2, VolleysHurt, FightsHurt
<1> DEFINE rs == Settled(Buried(m), back)
<1>6. DOMAIN m = DOMAIN es /\ \A i \in DOMAIN es :
        /\ m[i] \in [at : Open, status : Statuses, health : Seq(0..FullHealth)]
        /\ m[i].at = Ends(es, given)[i] /\ Len(m[i].health) \in 1..Operators(KindOf[i])
  BY <1>2, <1>5 DEF Hurt
<1>7. DOMAIN rs = DOMAIN Buried(m) /\ DOMAIN rs \subseteq DOMAIN es
  BY <1>6 DEF Settled, Buried
<1>8. ASSUME NEW i \in DOMAIN rs
      PROVE  /\ rs[i] \in [at : Open, status : Statuses, health : Seq(1..FullHealth)]
             /\ rs[i].at = Ends(es, given)[i] /\ rs[i].at = Buried(m)[i].at
             /\ Len(rs[i].health) \in 1..Operators(KindOf[i])
             /\ rs[i].status = IF i \in back THEN "recovering"
                               ELSE IF Contested(Buried(m), Buried(m)[i].at) THEN "engaged" ELSE "ready"
  <2> DEFINE h == Unfallen(m[i].health)
             b == Buried(m)[i]
             x == CASE i \in back -> "recovering"
                    [] i \notin back /\ Contested(Buried(m), b.at) -> "engaged"
                    [] OTHER -> "ready"
  <2>1. i \in DOMAIN es /\ i \in DOMAIN Buried(m) /\ h # <<>> /\ b = [m[i] EXCEPT !.health = h]
    <3>1. i \in DOMAIN Buried(m)
      BY <1>7
    <3> QED
      BY <3>1, <1>6 DEF Buried
  <2>2. h \in Seq(1..FullHealth) /\ Len(h) <= Len(m[i].health)
    BY <2>1, <1>6, UnfallenLeft
  <2> HIDE DEF h
  <2>3. b = [at |-> m[i].at, status |-> m[i].status, health |-> h]
    BY <2>1, <1>6
  <2>4. rs[i] = [b EXCEPT !.status = x]
    <3> HIDE DEF b
    <3> QED
      BY <1>7 DEF Settled, b
  <2> HIDE DEF x, b
  <2>5. rs[i] = [at |-> m[i].at, status |-> x, health |-> h]
    BY <2>3, <2>4
  <2>6. Len(h) \in 1..Operators(KindOf[i])
    <3>1. Len(h) \in Nat \ {0}
      BY <2>1, <2>2, EmptySeq
    <3>2. Len(m[i].health) \in 1..Operators(KindOf[i]) /\ Operators(KindOf[i]) \in Int
      BY <1>6, <2>1, ElementsAssumption DEF Operators
    <3> QED
      BY <3>1, <3>2, <2>2
  <2>7. x = IF i \in back THEN "recovering" ELSE IF Contested(Buried(m), b.at) THEN "engaged" ELSE "ready"
    BY DEF x
  <2>8. x \in Statuses
    BY <2>7 DEF Statuses
  <2> QED
    BY <2>1, <2>2, <2>3, <2>5, <2>6, <2>7, <2>8, <1>6 DEF b
<1>9. \A l : Contested(Buried(m), l) = Contested(rs, l)
  <2>1. \A l : At(Buried(m), l) = At(rs, l)
    <3> HIDE DEF rs
    <3> QED
      BY <1>7, <1>8 DEF At
  <2> HIDE DEF rs
  <2> QED
    BY <2>1 DEF Contested, FactionsAt
<1> HIDE DEF rs
<1>10. t = Capture(s, rs) /\ DOMAIN rs \subseteq Elements
  BY <1>1, <1>3, <1>7 DEF rs
<1>11. t.elements = rs
  BY <1>10, CaptureValid
<1>12. Valid(t)
  BY <1>8, <1>10, <1>11, CaptureValid DEF Valid
<1> QED
  <2> HIDE DEF es
  <2>1. \A i \in DOMAIN rs : i \in back <=> (rs[i].at # es[i].at /\ Contested(es, es[i].at))
    BY <1>2, <1>4, <1>7, <1>8
  <2> QED
    BY <1>7, <1>8, <1>9, <1>10, <1>11, <1>12, <2>1 DEF es

-----------------------------------------------------------------------------
(* Distances and paths.                                                     *)

\* The cells within one more step.
Spread(S) == S \cup UNION {StepsFrom(l) : l \in S}

\* The cells within n steps of a cell, for every n.
Reach(from) ==
    CHOOSE w : w = [n \in Nat |-> IF n = 0 THEN {from}
                                  ELSE LET S == w[n - 1] IN S \cup UNION {StepsFrom(l) : l \in S}]

\* They are found step after step.
LEMMA ReachSpreads ==
    ASSUME NEW from \in Open
    PROVE  /\ Reach(from)[0] = {from}
           /\ \A n \in Nat : Reach(from)[n] \subseteq Open /\ Reach(from)[n + 1] = Spread(Reach(from)[n])
<1> DEFINE W == SUBSET Open
           Body(h) == [n \in Nat |-> IF n = 0 THEN {from}
                                     ELSE LET S == h[n - 1] IN S \cup UNION {StepsFrom(l) : l \in S}]
           w == Reach(from)
           st == [S \in W |-> Spread(S)]
<1>1. w = CHOOSE h : h = Body(h)
  BY DEF Reach
<1>2. \A l : StepsFrom(l) \subseteq Open
  BY DEF StepsFrom
<1>3. st \in [W -> W]
  BY <1>2 DEF Spread
<1>4. {from} \in W
  OBVIOUS
<1>5. PICK g : Iterates(g, W, {from}, st)
  <2> HIDE DEF st, W
  <2> QED
    BY <1>3, <1>4, Recursion
<1>6. g \in [Nat -> W] /\ g[0] = {from} /\ \A k \in Nat : g[k + 1] = Spread(g[k])
  <2>1. g \in [Nat -> W] /\ g[0] = {from} /\ \A k \in Nat : g[k + 1] = st[g[k]]
    BY <1>5 DEF Iterates
  <2> HIDE DEF W
  <2> QED
    BY <2>1
<1>7. \A k \in Nat : k # 0 => g[k] = Spread(g[k - 1])
  <2> SUFFICES ASSUME NEW k \in Nat, k # 0 PROVE g[k] = Spread(g[k - 1])
    OBVIOUS
  <2>1. k - 1 \in Nat /\ (k - 1) + 1 = k
    OBVIOUS
  <2> QED
    BY <2>1, <1>6
<1>8. Body(g) = [n \in Nat |-> IF n = 0 THEN {from} ELSE Spread(g[n - 1])]
  BY DEF Spread
<1>9. g = Body(g)
  <2> HIDE DEF W, Body
  <2> QED
    BY <1>6, <1>7, <1>8
<1>10. w = Body(w)
  <2> HIDE DEF Body, w
  <2> QED
    BY <1>1, <1>9
<1>11. w[0] = {from} /\ \A n \in Nat : w[n + 1] = Spread(w[n])
  <2>1. w = [n \in Nat |-> IF n = 0 THEN {from} ELSE Spread(w[n - 1])]
    <3> HIDE DEF w
    <3> QED
      BY <1>10 DEF Spread
  <2> HIDE DEF w
  <2>2. w[0] = {from}
    BY <2>1
  <2>3. ASSUME NEW n \in Nat PROVE w[n + 1] = Spread(w[n])
    <3>1. n + 1 \in Nat /\ n + 1 # 0 /\ (n + 1) - 1 = n
      OBVIOUS
    <3>2. w[n + 1] = Spread(w[(n + 1) - 1])
      BY <2>1, <3>1
    <3> QED
      BY <3>1, <3>2
  <2> QED
    BY <2>2, <2>3
<1>12. Stays(w, W, st)
  <2> HIDE DEF W, w
  <2>1. Continues(w, W, {from}, st)
    BY <1>11 DEF Continues
  <2> HIDE DEF st
  <2> QED
    BY <1>3, <1>4, <2>1, Unrolled
<1>13. \A n \in Nat : w[n] \in W
  BY <1>12 DEF Stays
<1> QED
  BY <1>11, <1>13

\* More steps reach no less.
LEMMA ReachGrows ==
    ASSUME NEW from \in Open, NEW m \in Nat
    PROVE  \A n \in Nat : m <= n => Reach(from)[m] \subseteq Reach(from)[n]
<1> DEFINE T == {n \in Nat : m <= n => Reach(from)[m] \subseteq Reach(from)[n]}
<1>1. 0 \in T
  OBVIOUS
<1>2. ASSUME NEW n \in Nat, n \in T PROVE n + 1 \in T
  <2>1. CASE m = n + 1
    BY <2>1
  <2>2. CASE m <= n
    <3>1. Reach(from)[m] \subseteq Reach(from)[n]
      BY <1>2, <2>2
    <3>2. Reach(from)[n] \subseteq Reach(from)[n + 1]
      BY ReachSpreads DEF Spread
    <3> QED
      BY <3>1, <3>2
  <2>3. CASE m > n + 1
    BY <2>3
  <2> QED
    BY <2>1, <2>2, <2>3
<1> HIDE DEF T
<1>3. \A n \in Nat : n \in T
  BY <1>1, <1>2, Induction
<1> QED
  BY <1>3 DEF T

\* What is within n + 1 steps of a cell is it, or within n steps of one beside it.
LEMMA ReachFirst ==
    ASSUME NEW from \in Open
    PROVE  \A n \in Nat : \A l \in Reach(from)[n + 1] :
             l = from \/ \E m \in StepsFrom(from) : l \in Reach(m)[n]
<1> DEFINE T == {n \in Nat : \A l \in Reach(from)[n + 1] :
                               l = from \/ \E m \in StepsFrom(from) : l \in Reach(m)[n]}
<1>0. \A m \in StepsFrom(from) : m \in Open
  BY DEF StepsFrom
<1>1. 0 \in T
  <2>1. Reach(from)[0 + 1] = {from} \cup StepsFrom(from)
    <3>1. Reach(from)[0] = {from} /\ Reach(from)[0 + 1] = Spread(Reach(from)[0])
      BY ReachSpreads
    <3>2. Spread({from}) = {from} \cup StepsFrom(from)
      BY DEF Spread
    <3> QED
      BY <3>1, <3>2
  <2>2. \A m \in StepsFrom(from) : m \in Reach(m)[0]
    BY <1>0, ReachSpreads
  <2> QED
    BY <2>1, <2>2
<1>2. ASSUME NEW n \in Nat, n \in T PROVE n + 1 \in T
  <2> SUFFICES ASSUME NEW l \in Reach(from)[(n + 1) + 1]
               PROVE  l = from \/ \E m \in StepsFrom(from) : l \in Reach(m)[n + 1]
    OBVIOUS
  <2>1. Reach(from)[(n + 1) + 1] = Spread(Reach(from)[n + 1])
    BY ReachSpreads
  <2>2. PICK k \in Reach(from)[n + 1] : l = k \/ l \in StepsFrom(k)
    BY <2>1 DEF Spread
  <2>3. k = from \/ \E m \in StepsFrom(from) : k \in Reach(m)[n]
    BY <1>2
  <2>4. CASE k = from
    <3>1. CASE l = from
      BY <3>1
    <3>2. CASE l \in StepsFrom(from)
      <4>1. l \in Reach(l)[0] /\ Reach(l)[0] \subseteq Reach(l)[n + 1]
        BY <3>2, <1>0, ReachSpreads, ReachGrows
      <4> QED
        BY <3>2, <4>1
    <3> QED
      BY <2>2, <2>4, <3>1, <3>2
  <2>5. ASSUME NEW m \in StepsFrom(from), k \in Reach(m)[n] PROVE l \in Reach(m)[n + 1]
    <3>1. Reach(m)[n + 1] = Spread(Reach(m)[n])
      BY <1>0, ReachSpreads
    <3> QED
      BY <2>2, <2>5, <3>1 DEF Spread
  <2> QED
    BY <2>3, <2>4, <2>5
<1> HIDE DEF T
<1>3. \A n \in Nat : n \in T
  BY <1>1, <1>2, Induction
<1> QED
  BY <1>3 DEF T

\* A distance is defined for what can be reached, and a step toward it lessens it.
LEMMA DistancesAre ==
    ASSUME NEW from \in Open
    PROVE  LET d == Distances[from]
           IN  /\ DOMAIN d \subseteq Open /\ from \in DOMAIN d /\ StepsFrom(from) \subseteq DOMAIN d
               /\ \A l \in DOMAIN d : d[l] \in Nat
               /\ \A l \in DOMAIN d : l # from =>
                    \E m \in StepsFrom(from) : l \in DOMAIN Distances[m] /\ Distances[m][l] < d[l]
<1> DEFINE N == Cardinality(Open)
           Hops(l, to) == {n \in 0..N : to \in Reach(l)[n]}
<1>1. ASSUME NEW l \in Open PROVE Distances[l] = [to \in Reach(l)[N] |-> Min(Hops(l, to))]
  BY DEF Distances, DistancesFrom, Reach
<1>2. N \in Nat \ {0}
  <2>1. IsFiniteSet(Open) /\ N \in Nat
    BY WorldFinite, FS_CardinalityType
  <2> QED
    BY <2>1, FS_EmptySet
<1> HIDE DEF N, Hops
<1>3. ASSUME NEW l \in Open, NEW to \in Reach(l)[N]
      PROVE  /\ Distances[l][to] \in 0..N /\ to \in Reach(l)[Distances[l][to]]
             /\ \A n \in 0..N : to \in Reach(l)[n] => Distances[l][to] <= n
  <2>1. Hops(l, to) \subseteq Nat /\ N \in Hops(l, to)
    BY <1>2, <1>3 DEF Hops
  <2>2. Min(Hops(l, to)) \in Hops(l, to) /\ \A n \in Hops(l, to) : Min(Hops(l, to)) <= n
    BY <2>1, MinOf
  <2>3. Distances[l][to] = Min(Hops(l, to))
    BY <1>1, <1>3
  <2> QED
    BY <2>2, <2>3 DEF Hops
<1>4. \A l \in Open : DOMAIN Distances[l] = Reach(l)[N]
  BY <1>1
<1>5. from \in Reach(from)[N] /\ StepsFrom(from) \subseteq Reach(from)[N] /\ Reach(from)[N] \subseteq Open
  <2>1. from \in Reach(from)[0] /\ Reach(from)[0 + 1] = Spread(Reach(from)[0])
    BY ReachSpreads
  <2>2. StepsFrom(from) \subseteq Reach(from)[1]
    BY <2>1 DEF Spread
  <2>3. Reach(from)[0] \subseteq Reach(from)[N] /\ Reach(from)[1] \subseteq Reach(from)[N]
    BY <1>2, ReachGrows
  <2> QED
    BY <1>2, <2>1, <2>2, <2>3, ReachSpreads
<1>6. ASSUME NEW l \in Reach(from)[N], l # from
      PROVE  \E m \in StepsFrom(from) : l \in DOMAIN Distances[m] /\ Distances[m][l] < Distances[from][l]
  <2> DEFINE d == Distances[from][l]
  <2>1. d \in 0..N /\ l \in Reach(from)[d]
    BY <1>3
  <2>2. d # 0
    BY <2>1, <1>6, ReachSpreads
  <2> HIDE DEF d
  <2>3. PICK n \in Nat : d = n + 1 /\ n \in 0..N
    <3>1. d - 1 \in 0..N /\ d - 1 \in Nat
      BY <2>1, <2>2, <1>2
    <3> QED
      BY <3>1, <2>1
  <2>4. PICK m \in StepsFrom(from) : l \in Reach(m)[n]
    BY <2>1, <2>3, <1>6, ReachFirst
  <2>5. m \in Open
    BY DEF StepsFrom
  <2>6. l \in Reach(m)[N]
    BY <2>3, <2>4, <2>5, <1>2, ReachGrows
  <2>7. Distances[m][l] <= n /\ Distances[m][l] \in 0..N
    BY <2>3, <2>4, <2>5, <2>6, <1>3
  <2> QED
    BY <1>4, <2>3, <2>5, <2>6, <2>7 DEF d
<1>7. \A l \in Reach(from)[N] : Distances[from][l] \in Nat
  BY <1>3
<1> QED
  BY <1>4, <1>5, <1>6, <1>7

\* A cell is its coordinates.
LEMMA CellParts ==
    ASSUME NEW l \in Cells
    PROVE  l.x \in Int /\ l.y \in Int /\ l = Cell(l.sector, l.x, l.y)
<1>1. PICK s \in Sectors : \E x \in 0..Width[s] - 1, y \in 0..Height[s] - 1 : l = Cell(s, x, y)
  BY DEF Cells
<1>2. PICK x \in 0..Width[s] - 1, y \in 0..Height[s] - 1 : l = Cell(s, x, y)
  BY <1>1
<1>3. Width[s] \in 0..100 /\ Height[s] \in 0..100
  BY NamesAssumption
<1> QED
  BY <1>2, <1>3 DEF Cell

\* The steps to try are those that lead to where an element may step.
LEMMA StepsAre ==
    ASSUME NEW l
    PROVE  /\ DOMAIN Steps(l) \subseteq Nat
           /\ \A k \in DOMAIN Steps(l) : Steps(l)[k] \in Open => Steps(l)[k] \in StepsFrom(l)
           /\ \A m \in StepsFrom(l) : \E k \in DOMAIN Steps(l) : Steps(l)[k] = m
<1> DEFINE beside == [k \in 1..4 |-> Neighbor(l, Directions[k])]
           gate == IF l \in DOMAIN Link THEN <<Link[l]>> ELSE <<>>
           S == {Neighbor(l, d) : d \in Range(Directions)} \cup (IF l \in DOMAIN Link THEN {Link[l]} ELSE {})
<1>0. Steps(l) = beside \o gate
  BY DEF Steps
<1>1. Range(Directions) = {Directions[k] : k \in 1..4}
  <2>1. DOMAIN Directions = 1..4
    BY DEF Directions
  <2> QED
    BY <2>1 DEF Range
<1>2. beside \in [1..4 -> S] /\ \A d \in Range(Directions) : \E k \in 1..4 : beside[k] = Neighbor(l, d)
  BY <1>1
<1>3. beside \in Seq(S) /\ Len(beside) = 4
  <2>1. 4 \in Nat
    OBVIOUS
  <2> HIDE DEF beside, S
  <2> QED
    BY <1>2, <2>1, SeqMade
<1>4. gate \in Seq(S) /\ (l \in DOMAIN Link => Len(gate) = 1 /\ gate[1] = Link[l])
  <2>1. CASE l \in DOMAIN Link
    <3>1. gate = <<Link[l]>> /\ Link[l] \in S
      BY <2>1
    <3> HIDE DEF gate, S
    <3> QED
      BY <3>1
  <2>2. CASE l \notin DOMAIN Link
    <3>1. gate = <<>>
      BY <2>2
    <3> HIDE DEF gate, S
    <3> QED
      BY <2>2, <3>1
  <2> QED
    BY <2>1, <2>2
<1>5. S \cap Open = StepsFrom(l)
  BY DEF StepsFrom
<1>6. \A m \in S : (\E k \in 1..4 : beside[k] = m) \/ (l \in DOMAIN Link /\ m = Link[l])
  BY <1>2
<1> HIDE DEF beside, gate, S
<1>7. /\ beside \o gate \in Seq(S) /\ Len(beside \o gate) = 4 + Len(gate)
      /\ \A i \in 1..4 + Len(gate) : (beside \o gate)[i] = IF i <= 4 THEN beside[i] ELSE gate[i - 4]
  <2>1. /\ beside \o gate \in Seq(S) /\ Len(beside \o gate) = Len(beside) + Len(gate)
        /\ \A i \in 1..Len(beside) + Len(gate) :
             (beside \o gate)[i] = IF i <= Len(beside) THEN beside[i] ELSE gate[i - Len(beside)]
    BY <1>3, <1>4, ConcatProperties, Zenon
  <2> QED
    BY <2>1, <1>3
<1> DEFINE p == Steps(l)
<1>8. DOMAIN p = 1..Len(p) /\ Len(p) = 4 + Len(gate) /\ Len(gate) \in Nat /\ \A k \in 1..Len(p) : p[k] \in S
  <2>1. p \in Seq(S) /\ Len(p) = 4 + Len(gate)
    BY <1>0, <1>7
  <2>2. Len(gate) \in Nat
    BY <1>4, SeqFacts
  <2> HIDE DEF p
  <2> QED
    BY <2>1, <2>2, SeqFacts
<1>9. ASSUME NEW m \in S PROVE \E k \in DOMAIN p : p[k] = m
  <2>1. CASE \E k \in 1..4 : beside[k] = m
    <3>1. PICK k \in 1..4 : beside[k] = m
      BY <2>1
    <3>2. k \in 1..4 + Len(gate) /\ p[k] = m
      BY <3>1, <1>0, <1>7, <1>8
    <3> QED
      BY <3>2, <1>8
  <2>2. CASE l \in DOMAIN Link /\ m = Link[l]
    <3>1. 5 \in 1..4 + Len(gate) /\ p[5] = m
      <4>1. Len(gate) = 1 /\ gate[1] = m
        BY <2>2, <1>4
      <4>2. 5 \in 1..4 + Len(gate) /\ ~(5 <= 4) /\ 5 - 4 = 1
        BY <4>1
      <4>3. (beside \o gate)[5] = gate[5 - 4]
        BY <4>2, <1>7
      <4> QED
        BY <4>1, <4>2, <4>3, <1>0
    <3> QED
      BY <3>1, <1>8
  <2> QED
    BY <1>6, <2>1, <2>2
<1> HIDE DEF p
<1> QED
  BY <1>5, <1>8, <1>9 DEF p

\* The steps of decide are steps that exercise allows.
LEMMA StepsTaken ==
    ASSUME NEW l \in Open, NEW m \in StepsFrom(l)
    PROVE  IsStep(l, m) /\ m \in Open
<1>1. m \in Open
  BY DEF StepsFrom
<1>2. CASE l \in DOMAIN Link /\ m = Link[l]
  BY <1>1, <1>2 DEF IsStep
<1>3. CASE m \in {Neighbor(l, d) : d \in Range(Directions)}
  <2>1. PICK d \in Range(Directions) : m = Neighbor(l, d)
    BY <1>3
  <2>2. d \in {<<0, -1>>, <<1, 0>>, <<0, 1>>, <<-1, 0>>}
    BY DEF Range, Directions
  <2>3. l.x \in Int /\ l.y \in Int
    BY CellParts DEF Open
  <2>4. m.sector = l.sector /\ m.x = l.x + d[1] /\ m.y = l.y + d[2]
    BY <2>1 DEF Neighbor, Cell
  <2>5. Abs(m.x - l.x) + Abs(m.y - l.y) = 1
    BY <2>2, <2>3, <2>4 DEF Abs
  <2> QED
    BY <1>1, <2>4, <2>5 DEF IsStep
<1> QED
  BY <1>2, <1>3 DEF StepsFrom

\* The next step toward a cell in reach is a step, and keeps it in reach.
LEMMA NextStepTaken ==
    ASSUME NEW l \in Open, NEW to \in DOMAIN Distances[l], to # l
    PROVE  NextStep(l, to) \in StepsFrom(l) /\ to \in DOMAIN Distances[NextStep(l, to)]
<1> DEFINE nearer == {k \in DOMAIN Steps(l) :
                        /\ Steps(l)[k] \in Open /\ to \in DOMAIN Distances[Steps(l)[k]]
                        /\ Distances[Steps(l)[k]][to] < Distances[l][to]}
<1>1. NextStep(l, to) = Steps(l)[Min(nearer)]
  BY DEF NextStep
<1>2. PICK m \in StepsFrom(l) : to \in DOMAIN Distances[m] /\ Distances[m][to] < Distances[l][to]
  BY DistancesAre
<1>3. PICK k \in DOMAIN Steps(l) : Steps(l)[k] = m
  BY StepsAre
<1>4. k \in nearer
  BY <1>2, <1>3 DEF StepsFrom
<1>5. Min(nearer) \in nearer
  <2>1. nearer \subseteq Nat
    BY StepsAre
  <2> HIDE DEF nearer
  <2> QED
    BY <1>4, <2>1, MinOf
<1> QED
  BY <1>1, <1>5, StepsAre

-----------------------------------------------------------------------------
\* Every step of p is one that exercise allows.
Trodden(from, p) == \A k \in DOMAIN p : IsStep(IF k = 1 THEN from ELSE p[k - 1], p[k])

\* A path is made of such steps, as many as asked for at most.
LEMMA PathTrodden ==
    ASSUME NEW from \in Open, NEW to, NEW n \in Nat
    PROVE  /\ Path(from, to, n) \in Seq(Open) /\ Trodden(from, Path(from, to, n))
           /\ Len(Path(from, to, n)) <= n
<1>1. CASE to \notin DOMAIN Distances[from]
  <2>1. Path(from, to, n) = <<>>
    BY <1>1 DEF Path
  <2> QED
    BY <2>1 DEF Trodden
<1>2. CASE to \in DOMAIN Distances[from]
  <2> DEFINE P == {p \in Seq(Open) : /\ Leads(from, p) \in Open /\ to \in DOMAIN Distances[Leads(from, p)]
                                     /\ Trodden(from, p)}
             On(p) == IF Leads(from, p) = to THEN p ELSE Append(p, NextStep(Leads(from, p), to))
             Body(h) == [k \in Nat |-> IF k = 0 THEN <<>>
                                       ELSE LET p == h[k - 1]
                                            IN  IF Leads(from, p) = to THEN p
                                                ELSE Append(p, NextStep(Leads(from, p), to))]
             walk == CHOOSE h : h = Body(h)
             st == [p \in P |-> On(p)]
  <2>1. Path(from, to, n) = walk[n]
    BY <1>2 DEF Path
  <2>2. ASSUME NEW p \in P PROVE On(p) \in P /\ Len(On(p)) <= Len(p) + 1 /\ Len(p) \in Nat
    <3>1. CASE Leads(from, p) = to
      BY <3>1
    <3>2. CASE Leads(from, p) # to
      <4> DEFINE l == Leads(from, p)
                 m == NextStep(l, to)
                 q == Append(p, m)
      <4>1. l \in Open /\ to \in DOMAIN Distances[l] /\ p \in Seq(Open) /\ Trodden(from, p)
        OBVIOUS
      <4>2. m \in StepsFrom(l) /\ to \in DOMAIN Distances[m]
        <5> HIDE DEF l
        <5> QED
          BY <3>2, <4>1, NextStepTaken DEF l
      <4>3. IsStep(l, m) /\ m \in Open
        <5> HIDE DEF l, m
        <5> QED
          BY <4>1, <4>2, StepsTaken
      <4> HIDE DEF m
      <4>4. q \in Seq(Open) /\ Len(q) = Len(p) + 1 /\ DOMAIN q = 1..Len(p) + 1
            /\ q[Len(p) + 1] = m /\ \A k \in 1..Len(p) : q[k] = p[k]
            /\ Len(p) \in Nat /\ DOMAIN p = 1..Len(p)
        BY <4>1, <4>3
      <4>5. Leads(from, q) = m
        BY <4>4 DEF Leads, Last
      <4>6. Trodden(from, q)
        <5> SUFFICES ASSUME NEW k \in 1..Len(p) + 1
                     PROVE  IsStep(IF k = 1 THEN from ELSE q[k - 1], q[k])
          BY <4>4 DEF Trodden
        <5>1. CASE k <= Len(p)
          <6>1. k \in DOMAIN p /\ q[k] = p[k] /\ (k # 1 => k - 1 \in 1..Len(p))
            BY <4>4, <5>1
          <6>2. k # 1 => q[k - 1] = p[k - 1]
            BY <6>1, <4>4
          <6> QED
            BY <6>1, <6>2, <4>1 DEF Trodden
        <5>2. CASE k = Len(p) + 1
          <6>1. CASE k = 1
            <7>1. p = <<>>
              BY <4>4, <5>2, <6>1, EmptySeq
            <7>2. l = from
              BY <7>1 DEF Leads
            <7> QED
              BY <6>1, <7>2, <5>2, <4>3, <4>4
          <6>2. CASE k # 1
            <7>1. p # <<>> /\ k - 1 = Len(p) /\ k - 1 \in 1..Len(p)
              BY <5>2, <6>2, <4>4
            <7>2. l = p[Len(p)]
              BY <7>1 DEF Leads, Last
            <7>3. q[k - 1] = l
              BY <7>1, <7>2, <4>4
            <7> QED
              BY <7>3, <6>2, <5>2, <4>3, <4>4
          <6> QED
            BY <6>1, <6>2
        <5> QED
          BY <5>1, <5>2, <4>4
      <4>7. On(p) = q
        BY <3>2 DEF m
      <4> HIDE DEF q, On
      <4> QED
        BY <4>2, <4>3, <4>4, <4>5, <4>6, <4>7
    <3> QED
      BY <3>1, <3>2
  <2>3. <<>> \in P
    BY <1>2 DEF Leads, Trodden
  <2>4. st \in [P -> P]
    <3> HIDE DEF P, On
    <3> QED
      BY <2>2
  <2>5. PICK g : Iterates(g, P, <<>>, st)
    <3> HIDE DEF P, st
    <3> QED
      BY <2>3, <2>4, Recursion
  <2>6. g \in [Nat -> P] /\ g[0] = <<>> /\ \A k \in Nat : g[k + 1] = On(g[k])
    <3> HIDE DEF P, On
    <3> QED
      BY <2>5 DEF Iterates
  <2>7. \A k \in Nat : k # 0 => g[k] = On(g[k - 1])
    <3> HIDE DEF On
    <3> SUFFICES ASSUME NEW k \in Nat, k # 0 PROVE g[k] = On(g[k - 1])
      OBVIOUS
    <3>1. k - 1 \in Nat /\ (k - 1) + 1 = k
      OBVIOUS
    <3> QED
      BY <3>1, <2>6
  <2>8. Body(g) = [k \in Nat |-> IF k = 0 THEN <<>> ELSE On(g[k - 1])]
    OBVIOUS
  <2>9. g = Body(g)
    <3> HIDE DEF P, On, Body
    <3> QED
      BY <2>6, <2>7, <2>8
  <2>10. walk = Body(walk)
    <3> HIDE DEF Body
    <3> QED
      BY <2>9
  <2> HIDE DEF walk
  <2>11. walk[0] = <<>> /\ \A k \in Nat : walk[k + 1] = On(walk[k])
    <3>1. walk = [k \in Nat |-> IF k = 0 THEN <<>> ELSE On(walk[k - 1])]
      BY <2>10
    <3> HIDE DEF On
    <3>2. walk[0] = <<>>
      BY <3>1
    <3>3. ASSUME NEW k \in Nat PROVE walk[k + 1] = On(walk[k])
      <4>1. k + 1 \in Nat /\ k + 1 # 0 /\ (k + 1) - 1 = k
        OBVIOUS
      <4>2. walk[k + 1] = On(walk[(k + 1) - 1])
        BY <3>1, <4>1
      <4> QED
        BY <4>1, <4>2
    <3> QED
      BY <3>2, <3>3
  <2>12. Stays(walk, P, st)
    <3> HIDE DEF P, On
    <3>1. Continues(walk, P, <<>>, st)
      BY <2>11 DEF Continues
    <3> HIDE DEF st
    <3> QED
      BY <2>3, <2>4, <3>1, Unrolled
  <2>13. \A k \in Nat : walk[k] \in P
    <3> HIDE DEF P
    <3> QED
      BY <2>12 DEF Stays
  <2> DEFINE T == {k \in Nat : Len(walk[k]) <= k}
  <2>14. 0 \in T
    BY <2>11, EmptySeq
  <2>15. ASSUME NEW k \in Nat, k \in T PROVE k + 1 \in T
    <3>1. walk[k] \in P /\ walk[k + 1] = On(walk[k]) /\ walk[k + 1] \in P
      <4> HIDE DEF P, On
      <4> QED
        BY <2>11, <2>13
    <3>2. Len(walk[k + 1]) <= Len(walk[k]) + 1 /\ Len(walk[k]) \in Nat /\ Len(walk[k + 1]) \in Nat
      <4> HIDE DEF P, On
      <4> QED
        BY <3>1, <2>2
    <3> QED
      BY <3>2, <2>15
  <2> HIDE DEF T
  <2>16. \A k \in Nat : k \in T
    BY <2>14, <2>15, Induction
  <2> QED
    BY <2>1, <2>13, <2>16 DEF T
<1> QED
  BY <1>1, <1>2

-----------------------------------------------------------------------------
(* Planning.                                                                *)

\* A faction's own elements, as the picture has them.
Own(own) ==
    /\ DOMAIN own \subseteq Elements
    /\ \A i \in DOMAIN own : own[i].at \in Open /\ own[i].status \in Statuses

\* So is the way an element sets out on, whatever its directive.
LEMMA WayTrodden ==
    ASSUME NEW own, Own(own), NEW sent, NEW i \in DOMAIN own
    PROVE  LET w == Way(own, sent, i)
           IN  /\ w \in Seq(Open) /\ Trodden(own[i].at, w) /\ Len(w) <= Moves(KindOf[i])
               /\ own[i].status = "engaged" => Len(w) <= 1
               /\ own[i].status = "recovering" => w = <<>>
<1> DEFINE e == own[i]
           w == Way(own, sent, i)
<1>1. e.at \in Open /\ e.status \in {"ready", "engaged", "recovering"} /\ Moves(KindOf[i]) \in {1, 2}
  BY DEF Own, Statuses, Moves
<1>2. <<>> \in Seq(Open) /\ Trodden(e.at, <<>>) /\ Len(<<>>) = 0
  BY DEF Trodden
<1>3. CASE w = <<>>
  <2> HIDE DEF w, e
  <2> QED
    BY <1>1, <1>2, <1>3 DEF w, e
<1>4. CASE i \in DOMAIN sent /\ e.status = "engaged" /\ sent[i].target \in StepsFrom(e.at)
  <2>1. w = <<sent[i].target>> \/ w = <<>>
    BY <1>4 DEF Way
  <2>2. IsStep(e.at, sent[i].target) /\ sent[i].target \in Open
    BY <1>1, <1>4, StepsTaken
  <2> DEFINE v == <<sent[i].target>>
  <2>3. v \in Seq(Open) /\ Len(v) = 1 /\ DOMAIN v = {1} /\ v[1] = sent[i].target
    BY <2>2
  <2>4. Trodden(e.at, v)
    BY <2>2, <2>3 DEF Trodden
  <2> HIDE DEF v, w
  <2>5. CASE w = v
    <3>1. /\ v \in Seq(Open) /\ Trodden(e.at, v) /\ Len(v) <= Moves(KindOf[i]) /\ Len(v) <= 1
          /\ e.status # "recovering"
      BY <1>1, <1>4, <2>3, <2>4
    <3> QED
      BY <2>5, <3>1 DEF w
  <2> QED
    BY <1>3, <2>1, <2>5 DEF v
<1>5. CASE i \in DOMAIN sent /\ e.status = "ready"
  <2>1. w = Path(e.at, sent[i].target, Moves(KindOf[i]))
    BY <1>5 DEF Way
  <2>2. Moves(KindOf[i]) \in Nat
    BY <1>1
  <2> HIDE DEF w
  <2> QED
    BY <1>1, <1>5, <2>1, <2>2, PathTrodden DEF w
<1>6. CASE ~(i \in DOMAIN sent /\ e.status = "ready")
           /\ ~(i \in DOMAIN sent /\ e.status = "engaged" /\ sent[i].target \in StepsFrom(e.at))
  <2>1. w = <<>>
    BY <1>6 DEF Way
  <2> QED
    BY <1>3, <2>1
<1> QED
  BY <1>4, <1>5, <1>6

-----------------------------------------------------------------------------
\* A way of two steps at most for each element.
Ways(own, ways) ==
    /\ DOMAIN ways = DOMAIN own
    /\ \A i \in DOMAIN own : ways[i] \in Seq(Open) /\ Len(ways[i]) <= 2

\* The steps left are some of the way, and have not been given up.
LEMMA LeftIs ==
    ASSUME NEW own, NEW ways, Ways(own, ways), NEW up, NEW i \in DOMAIN own
    PROVE  /\ Left(ways, up, i) \in 0..Len(ways[i]) /\ Len(ways[i]) \in 0..2
           /\ Left(ways, up, i) > 0 => <<i, Left(ways, up, i)>> \notin up
<1> DEFINE S == {0} \cup {k \in DOMAIN ways[i] : <<i, k>> \notin up}
           w == ways[i]
<1>1. Len(w) \in 0..2 /\ DOMAIN w = 1..Len(w)
  <2>1. w \in Seq(Open) /\ Len(w) <= 2
    BY DEF Ways
  <2> HIDE DEF w
  <2>2. Len(w) \in Nat /\ DOMAIN w = 1..Len(w)
    BY <2>1, SeqFacts
  <2> QED
    BY <2>1, <2>2
<1>2. S \subseteq 0..Len(w)
  BY <1>1
<1>3. IsFiniteSet(S) /\ S \subseteq Int /\ S # {}
  <2>1. 0 \in Int /\ Len(w) \in Int
    BY <1>1
  <2>2. IsFiniteSet(0..Len(w))
    BY <2>1, FS_Interval
  <2> HIDE DEF S
  <2>3. IsFiniteSet(S)
    BY <1>2, <2>2, FS_Subset
  <2>4. 0 \in S
    BY DEF S
  <2>5. S \subseteq Int
    BY <1>2
  <2> QED
    BY <2>3, <2>4, <2>5
<1>4. Max(S) \in S
  <2> HIDE DEF S
  <2> QED
    BY <1>3, MaxOf
<1>5. Left(ways, up, i) = Max(S)
  BY DEF Left
<1> QED
  BY <1>1, <1>2, <1>4, <1>5

\* In the end no element has a step left to give up.
LEMMA GivenUpEnds ==
    ASSUME NEW own, NEW ways, Ways(own, ways), IsFiniteSet(DOMAIN own)
    PROVE  \A i \in DOMAIN own : ~Refused(own, ways, GivenUp(own, ways), i)
<1> DEFINE D == DOMAIN own
           P == D \X (1..2)
           N == 2 * Cardinality(D)
           Pass(up) == up \cup {<<i, Left(ways, up, i)>> : i \in {j \in D : Refused(own, ways, up, j)}}
           Body(h) == [k \in Nat |-> IF k = 0 THEN {} ELSE Pass(h[k - 1])]
           after == CHOOSE h : h = Body(h)
           st == [up \in SUBSET P |-> Pass(up)]
           W == SUBSET P
<1>1. GivenUp(own, ways) = after[N]
  BY DEF GivenUp
<1>2. ASSUME NEW up, NEW i \in D, Refused(own, ways, up, i)
      PROVE  Left(ways, up, i) \in 1..2 /\ <<i, Left(ways, up, i)>> \notin up
  <2>1. Left(ways, up, i) > 0
    BY <1>2 DEF Refused, Yields
  <2>2. /\ Left(ways, up, i) \in 0..Len(ways[i]) /\ Len(ways[i]) \in 0..2
        /\ Left(ways, up, i) > 0 => <<i, Left(ways, up, i)>> \notin up
    BY LeftIs
  <2>3. PICK n : n = Left(ways, up, i)
    OBVIOUS
  <2>4. PICK m \in 0..2 : m = Len(ways[i])
    BY <2>2
  <2>5. n \in 0..m /\ n > 0
    BY <2>1, <2>2, <2>3, <2>4
  <2>6. n \in 1..2
    BY <2>5
  <2> QED
    BY <2>1, <2>2, <2>3, <2>6
<1>3. \A up \in W : Pass(up) \in W /\ up \subseteq Pass(up)
  BY <1>2
<1>4. st \in [W -> W] /\ \A up \in W : st[up] = Pass(up)
  <2> HIDE DEF Pass, P
  <2> QED
    BY <1>3
<1>5. {} \in W
  OBVIOUS
<1>6. PICK g : Iterates(g, W, {}, st)
  <2> HIDE DEF st, W
  <2> QED
    BY <1>4, <1>5, Recursion
<1>7. g \in [Nat -> W] /\ g[0] = {} /\ \A k \in Nat : g[k + 1] = Pass(g[k])
  <2>1. g \in [Nat -> W] /\ g[0] = {} /\ \A k \in Nat : g[k + 1] = st[g[k]]
    BY <1>6 DEF Iterates
  <2> HIDE DEF Pass, W, st
  <2> QED
    BY <1>4, <2>1
<1>8. \A k \in Nat : k # 0 => g[k] = Pass(g[k - 1])
  <2> HIDE DEF Pass
  <2> SUFFICES ASSUME NEW k \in Nat, k # 0 PROVE g[k] = Pass(g[k - 1])
    OBVIOUS
  <2>1. k - 1 \in Nat /\ (k - 1) + 1 = k
    OBVIOUS
  <2> QED
    BY <2>1, <1>7
<1>9. g = Body(g)
  <2> HIDE DEF Pass, W
  <2> QED
    BY <1>7, <1>8
<1>10. after = Body(after)
  <2> HIDE DEF Body
  <2> QED
    BY <1>9
<1> HIDE DEF after
<1>11. after[0] = {} /\ \A k \in Nat : after[k + 1] = Pass(after[k])
  <2> HIDE DEF Pass
  <2>1. after[0] = {}
    BY <1>10
  <2>2. ASSUME NEW k \in Nat PROVE after[k + 1] = Pass(after[k])
    <3>1. k + 1 \in Nat /\ k + 1 # 0 /\ (k + 1) - 1 = k
      OBVIOUS
    <3>2. after[k + 1] = Pass(after[(k + 1) - 1])
      BY <1>10, <3>1
    <3> QED
      BY <3>1, <3>2
  <2> QED
    BY <2>1, <2>2
<1> DEFINE T == {k \in Nat : after[k] = g[k]}
<1>12. 0 \in T
  BY <1>7, <1>11
<1>13. ASSUME NEW k \in Nat, k \in T PROVE k + 1 \in T
  <2> HIDE DEF Pass
  <2> QED
    BY <1>7, <1>11, <1>13
<1> HIDE DEF T
<1>14. \A k \in Nat : k \in T
  BY <1>12, <1>13, Induction
<1>15. N \in Nat /\ IsFiniteSet(P) /\ Cardinality(P) = N
  <2>1. Cardinality(D) \in Nat
    BY FS_CardinalityType
  <2>2. IsFiniteSet(1..2) /\ Cardinality(1..2) = 2
    <3>1. 1 \in Int /\ 2 \in Int
      OBVIOUS
    <3>2. IsFiniteSet(1..2) /\ Cardinality(1..2) = IF 1 > 2 THEN 0 ELSE 2 - 1 + 1
      BY <3>1, FS_Interval
    <3> QED
      BY <3>2
  <2>3. IsFiniteSet(P) /\ Cardinality(P) = Cardinality(D) * Cardinality(1..2)
    BY <2>2, FS_Product
  <2> QED
    BY <2>1, <2>2, <2>3
<1>16. st[g[N]] = g[N]
  <2>1. \A s \in SUBSET P : s \subseteq st[s]
    <3> HIDE DEF Pass, P, st
    <3> QED
      BY <1>3, <1>4
  <2> HIDE DEF st, N, P
  <2> QED
    BY <1>6, <1>15, <2>1, GrowthEnds
<1>17. Pass(after[N]) = after[N]
  <2>1. after[N] = g[N]
    BY <1>14, <1>15 DEF T
  <2>2. st[g[N]] = Pass(g[N])
    <3> HIDE DEF st, Pass, W
    <3> QED
      BY <1>4, <1>7, <1>15
  <2> HIDE DEF Pass, st
  <2> QED
    BY <1>16, <2>1, <2>2
<1> HIDE DEF N
<1> SUFFICES ASSUME NEW i \in D, Refused(own, ways, after[N], i) PROVE FALSE
  BY <1>1
<1>18. <<i, Left(ways, after[N], i)>> \in Pass(after[N])
  OBVIOUS
<1> QED
  <2> HIDE DEF Pass
  <2> QED
    BY <1>2, <1>17, <1>18

-----------------------------------------------------------------------------
\* Where an element ends that obeys a plan.
PlannedEnd(own, plan, i) ==
    IF i \in DOMAIN plan /\ plan[i].steps # <<>> THEN plan[i].steps[Len(plan[i].steps)] ELSE own[i].at

\* A planned order is one the element may follow; and what moves by the plan
\* ends alone in its cell, unless a fight is there.
LEMMA PlanMade ==
    ASSUME NEW own, Own(own), NEW sent
    PROVE  LET plan == Plan(own, sent)
           IN  /\ DOMAIN plan \subseteq DOMAIN own
               /\ \A i \in DOMAIN plan :
                    LET o == plan[i]
                    IN  /\ o.steps \in Seq(Open) /\ Trodden(own[i].at, o.steps)
                        /\ Len(o.steps) <= Moves(KindOf[i])
                        /\ o.steps # <<>> => \/ own[i].status = "ready"
                                             \/ own[i].status = "engaged" /\ o.retreat /\ Len(o.steps) = 1
                        /\ o.pursue => own[i].status = "engaged"
               /\ \A i \in DOMAIN plan, j \in DOMAIN own :
                    ( /\ i # j /\ plan[i].steps # <<>>
                      /\ PlannedEnd(own, plan, j) = PlannedEnd(own, plan, i) )
                    => PlannedEnd(own, plan, i) \in FightCells(own)
<1> DEFINE D == DOMAIN own
           ways == [i \in D |-> Way(own, sent, i)]
           up == GivenUp(own, ways)
           left(i) == Left(ways, up, i)
           plan == Plan(own, sent)
           pursues(i) == own[i].status = "engaged" /\ i \in DOMAIN sent /\ sent[i].rule = "pursue"
           kept == [i \in D |-> SubSeq(ways[i], 1, left(i))]
<1>1. Ways(own, ways)
  <2>1. \A i \in D : Way(own, sent, i) \in Seq(Open) /\ Len(Way(own, sent, i)) <= Moves(KindOf[i])
    BY WayTrodden
  <2>2. \A i \in D : Moves(KindOf[i]) \in {1, 2}
    BY DEF Moves
  <2>3. \A i \in D : Len(Way(own, sent, i)) <= 2
    <3> SUFFICES ASSUME NEW i \in D PROVE Len(Way(own, sent, i)) <= 2
      OBVIOUS
    <3>1. Len(Way(own, sent, i)) \in Nat
      BY <2>1, SeqFacts
    <3> QED
      BY <3>1, <2>1, <2>2
  <2> QED
    BY <2>1, <2>3 DEF Ways
<1>2. plan = [i \in {j \in D : kept[j] # <<>> \/ pursues(j)} |->
                 Order(kept[i], own[i].status = "engaged" /\ kept[i] # <<>>, pursues(i))]
  BY DEF Plan, GivingWay
<1>3. IsFiniteSet(D) /\ D \subseteq Nat
  BY WorldFinite, NamesAssumption DEF Own
<1>4. \A i \in D : ways[i] = Way(own, sent, i)
  OBVIOUS
<1> HIDE DEF ways, up
<1>5. \A i \in D : ~Refused(own, ways, up, i)
  BY <1>1, <1>3, GivenUpEnds DEF up
<1>6. ASSUME NEW i \in D
      PROVE  /\ left(i) \in 0..Len(ways[i]) /\ Len(ways[i]) \in 0..2
             /\ kept[i] \in Seq(Open) /\ Len(kept[i]) = left(i) /\ Len(kept[i]) <= Moves(KindOf[i])
             /\ \A k \in 1..left(i) : kept[i][k] = ways[i][k]
             /\ Trodden(own[i].at, kept[i])
             /\ kept[i] # <<>> <=> left(i) > 0
             /\ own[i].status = "engaged" => left(i) <= 1
             /\ own[i].status = "recovering" => kept[i] = <<>>
  <2> DEFINE w == ways[i]
             n == left(i)
             p == SubSeq(w, 1, n)
  <2>1. /\ w \in Seq(Open) /\ Trodden(own[i].at, w) /\ Len(w) <= Moves(KindOf[i])
        /\ own[i].status = "engaged" => Len(w) <= 1
        /\ own[i].status = "recovering" => w = <<>>
    BY <1>4, WayTrodden
  <2>2. n \in 0..Len(w) /\ Len(w) \in 0..2
    BY <1>1, LeftIs
  <2>3. kept[i] = p
    OBVIOUS
  <2>4. Moves(KindOf[i]) \in Int
    BY DEF Moves
  <2> HIDE DEF w, n
  <2>5. DOMAIN w = 1..Len(w) /\ \A k \in 1..Len(w) : w[k] \in Open
    BY <2>1, SeqFacts
  <2>6. p \in Seq(Open) /\ Len(p) = n /\ \A k \in 1..n : p[k] = w[k]
    <3>1. \A k \in 1..n : w[k] \in Open
      BY <2>2, <2>5
    <3>2. 1 \in Int /\ n \in Int
      BY <2>2
    <3>3. p \in Seq(Open) /\ Len(p) = (IF 1 <= n THEN n - 1 + 1 ELSE 0)
          /\ \A k \in 1..n - 1 + 1 : p[k] = w[1 + k - 1]
      BY <3>1, <3>2, SubSeqProperties
    <3>4. Len(p) = n
      BY <3>3, <2>2
    <3>5. ASSUME NEW k \in 1..n PROVE p[k] = w[k]
      <4>1. k \in 1..n - 1 + 1 /\ 1 + k - 1 = k
        BY <2>2
      <4> QED
        BY <3>3, <4>1
    <3> QED
      BY <3>3, <3>4, <3>5
  <2> HIDE DEF p
  <2>7. DOMAIN p = 1..n
    BY <2>6, SeqFacts
  <2>8. Trodden(own[i].at, p)
    <3> SUFFICES ASSUME NEW k \in 1..n PROVE IsStep(IF k = 1 THEN own[i].at ELSE p[k - 1], p[k])
      BY <2>7 DEF Trodden
    <3>1. k \in DOMAIN w /\ p[k] = w[k] /\ (k # 1 => p[k - 1] = w[k - 1])
      BY <2>2, <2>5, <2>6
    <3> QED
      BY <2>1, <3>1 DEF Trodden
  <2>9. p # <<>> <=> n > 0
    BY <2>2, <2>6, EmptySeq
  <2>10. own[i].status = "recovering" => p = <<>>
    <3>1. w = <<>> => Len(w) = 0
      OBVIOUS
    <3> QED
      BY <2>1, <2>2, <2>9, <3>1
  <2>11. Len(p) <= Moves(KindOf[i]) /\ (own[i].status = "engaged" => n <= 1)
    BY <2>1, <2>2, <2>4, <2>6
  <2>12. /\ n \in 0..Len(w) /\ kept[i] = p
    BY <2>2, <2>3
  <2> HIDE DEF kept
  <2> QED
    BY <2>2, <2>6, <2>8, <2>9, <2>10, <2>11, <2>12 DEF w, n
<1> HIDE DEF kept, left
<1>7. DOMAIN plan = {j \in D : kept[j] # <<>> \/ pursues(j)}
      /\ \A i \in DOMAIN plan :
           /\ plan[i].steps = kept[i] /\ plan[i].pursue = pursues(i)
           /\ plan[i].retreat = (own[i].status = "engaged" /\ kept[i] # <<>>)
  BY <1>2 DEF Order
<1> HIDE DEF plan
<1>8. ASSUME NEW i \in DOMAIN plan
      PROVE  LET o == plan[i]
             IN  /\ o.steps \in Seq(Open) /\ Trodden(own[i].at, o.steps)
                 /\ Len(o.steps) <= Moves(KindOf[i])
                 /\ o.steps # <<>> => \/ own[i].status = "ready"
                                      \/ own[i].status = "engaged" /\ o.retreat /\ Len(o.steps) = 1
                 /\ o.pursue => own[i].status = "engaged"
  <2>1. i \in D /\ own[i].status \in {"ready", "engaged", "recovering"}
    BY <1>7 DEF Own, Statuses
  <2>2. own[i].status = "engaged" /\ kept[i] # <<>> => Len(kept[i]) = 1
    <3> SUFFICES ASSUME own[i].status = "engaged", kept[i] # <<>> PROVE Len(kept[i]) = 1
      OBVIOUS
    <3>1. left(i) > 0 /\ left(i) <= 1 /\ Len(kept[i]) = left(i) /\ kept[i] \in Seq(Open)
      BY <2>1, <1>6
    <3>2. Len(kept[i]) \in Nat
      BY <3>1, SeqFacts
    <3> QED
      BY <3>1, <3>2
  <2> QED
    BY <2>1, <2>2, <1>6, <1>7
<1>9. \A i \in D : PlannedEnd(own, plan, i) = EndAfter(own, ways, up, i)
  <2> SUFFICES ASSUME NEW i \in D PROVE PlannedEnd(own, plan, i) = EndAfter(own, ways, up, i)
    OBVIOUS
  <2>1. CASE kept[i] # <<>>
    <3>1. i \in DOMAIN plan /\ plan[i].steps = kept[i] /\ left(i) > 0 /\ Len(kept[i]) = left(i)
      BY <2>1, <1>6, <1>7
    <3>2. left(i) \in 1..left(i)
      BY <3>1, <1>6
    <3> QED
      BY <2>1, <3>1, <3>2, <1>6 DEF PlannedEnd, EndAfter, left
  <2>2. CASE kept[i] = <<>>
    <3>1. left(i) = 0
      BY <2>2, <1>6
    <3>2. i \in DOMAIN plan => plan[i].steps = <<>>
      BY <2>2, <1>7
    <3> QED
      BY <3>1, <3>2 DEF PlannedEnd, EndAfter, left
  <2> QED
    BY <2>1, <2>2
<1>10. ASSUME NEW i \in DOMAIN plan, NEW j \in D, i # j, plan[i].steps # <<>>,
              PlannedEnd(own, plan, j) = PlannedEnd(own, plan, i),
              PlannedEnd(own, plan, i) \notin FightCells(own)
       PROVE  FALSE
  <2> DEFINE end == EndAfter(own, ways, up, i)
             group == {k \in D : EndAfter(own, ways, up, k) = end}
             moving == {k \in D : Left(ways, up, k) > 0}
  <2>1. i \in D /\ i \in moving
    BY <1>6, <1>7, <1>10 DEF left
  <2>2. EndAfter(own, ways, up, j) = end /\ end \notin FightCells(own)
    BY <2>1, <1>9, <1>10
  <2>3. i \in group /\ j \in group /\ group \subseteq D
    BY <2>1, <2>2
  <2>4. Cardinality(group) > 1
    <3> HIDE DEF group
    <3>1. IsFiniteSet(group) /\ Cardinality(group) \in Nat
      BY <1>3, <2>3, FS_Subset, FS_CardinalityType
    <3>2. Cardinality(group) # 0
      BY <2>3, <3>1, FS_EmptySet
    <3>3. Cardinality(group) # 1
      BY <2>3, <3>1, <1>10, FS_Singleton
    <3> QED
      BY <3>1, <3>2, <3>3
  <2>5. ~Refused(own, ways, up, i) /\ ~Refused(own, ways, up, j)
    BY <1>5, <2>1
  <2>6. ~Yields(moving, group, i)
    BY <2>2, <2>4, <2>5 DEF Refused
  <2>7. ~Yields(moving, group, j)
    BY <2>2, <2>4, <2>5 DEF Refused
  <2> HIDE DEF group, moving
  <2>8. i = Min(group) /\ group \ moving = {}
    BY <2>1, <2>6 DEF Yields
  <2>9. j = Min(group)
    BY <2>3, <2>7, <2>8 DEF Yields
  <2> QED
    BY <2>8, <2>9, <1>10
<1> QED
  BY <1>7, <1>8, <1>10 DEF plan

-----------------------------------------------------------------------------
(* Choosing among targets.                                                  *)

\* Of finitely many things one has the least measure.
LEMMA LeastBy ==
    ASSUME NEW S, IsFiniteSet(S), S # {}, NEW g \in [S -> Int]
    PROVE  \E l \in S : \A m \in S : g[l] <= g[m]
<1> DEFINE T == {s \in SUBSET S : s = {} \/ \E x \in s : \A y \in s : g[x] <= g[y]}
<1>1. ASSUME NEW s \in SUBSET S, \A r \in SUBSET S : r \subseteq s /\ r # s => r \in T PROVE s \in T
  <2>1. CASE s = {}
    BY <2>1
  <2>2. CASE s # {}
    <3>1. PICK x \in s : TRUE
      BY <2>2
    <3>2. s \ {x} \in T
      BY <1>1
    <3>3. CASE s \ {x} = {}
      BY <3>1, <3>3
    <3>4. CASE s \ {x} # {}
      <4>1. PICK z \in s \ {x} : \A y \in s \ {x} : g[z] <= g[y]
        BY <3>2, <3>4
      <4>2. \A y \in s : g[y] \in Int
        OBVIOUS
      <4>3. CASE g[z] <= g[x]
        BY <4>1, <4>3
      <4>4. CASE g[x] <= g[z]
        BY <4>1, <4>2, <4>4
      <4> QED
        BY <4>2, <4>3, <4>4
    <3> QED
      BY <3>3, <3>4
  <2> QED
    BY <2>1, <2>2
<1>2. S \in T
  <2> HIDE DEF T
  <2> QED
    BY <1>1, SubsetInduction
<1> QED
  BY <1>2

\* The rank of a number tells it from the others.
LEMMA Numerals ==
    /\ \A n \in 0..99 : Numeral(n) \in 0..109
    /\ \A n, m \in 0..99 : Numeral(n) = Numeral(m) => n = m
<1>1. ASSUME NEW n \in 0..99
      PROVE  \E q \in 0..9, r \in 0..9 : n = (10 * q) + r /\ q = n \div 10 /\ r = (n % 10)
  <2>1. (n \div 10) \in 0..9 /\ (n % 10) \in 0..9 /\ n = (10 * (n \div 10)) + (n % 10)
    OBVIOUS
  <2> QED
    BY <2>1
<1>2. ASSUME NEW n \in 0..99
      PROVE  \E q \in 0..9, r \in 0..9 :
               n = 10 * q + r /\ Numeral(n) = IF n < 10 THEN 11 * n ELSE 11 * q + r + 1
  BY <1>1 DEF Numeral
<1>3. \A n \in 0..99 : Numeral(n) \in 0..109
  <2> SUFFICES ASSUME NEW n \in 0..99 PROVE Numeral(n) \in 0..109
    OBVIOUS
  <2>1. PICK q \in 0..9, r \in 0..9 :
          n = 10 * q + r /\ Numeral(n) = IF n < 10 THEN 11 * n ELSE 11 * q + r + 1
    BY <1>2
  <2> QED
    BY <2>1
<1>4. ASSUME NEW n \in 0..99, NEW m \in 0..99, Numeral(n) = Numeral(m) PROVE n = m
  <2>1. PICK q \in 0..9, r \in 0..9 :
          n = 10 * q + r /\ Numeral(n) = IF n < 10 THEN 11 * n ELSE 11 * q + r + 1
    BY <1>2
  <2>2. PICK p \in 0..9, s \in 0..9 :
          m = 10 * p + s /\ Numeral(m) = IF m < 10 THEN 11 * m ELSE 11 * p + s + 1
    BY <1>2
  <2> QED
    BY <1>4, <2>1, <2>2
<1> QED
  BY <1>3, <1>4

\* The order of the keys, as one number.
LEMMA Lexical ==
    \A a, b, c, p, q, r \in Nat :
        (/\ b <= 109 /\ c <= 109 /\ q <= 109 /\ r <= 109
         /\ 40000 * a + 200 * b + c <= 40000 * p + 200 * q + r)
        => a < p \/ (a = p /\ b < q) \/ (a = p /\ b = q /\ c <= r)
OBVIOUS

\* The order of the keys is total: of some cells one is the first.
LEMMA FirstIs ==
    ASSUME NEW S, S \subseteq Open, S # {}
    PROVE  FirstOf(S) \in S
<1> DEFINE rank == [l \in S |-> 40000 * l.sector + 200 * Numeral(l.x) + Numeral(l.y)]
<1>1. ASSUME NEW l \in S
      PROVE  /\ l.sector \in Nat /\ l.x \in 0..99 /\ l.y \in 0..99 /\ l = Cell(l.sector, l.x, l.y)
             /\ Numeral(l.x) \in 0..109 /\ Numeral(l.y) \in 0..109
  <2>1. PICK s \in Sectors : \E x \in 0..Width[s] - 1, y \in 0..Height[s] - 1 : l = Cell(s, x, y)
    BY DEF Open, Cells
  <2>2. PICK x \in 0..Width[s] - 1, y \in 0..Height[s] - 1 : l = Cell(s, x, y)
    BY <2>1
  <2>3. Width[s] \in 0..100 /\ Height[s] \in 0..100 /\ s \in Nat
    BY NamesAssumption
  <2>4. l.sector \in Nat /\ l.x \in 0..99 /\ l.y \in 0..99 /\ l = Cell(l.sector, l.x, l.y)
    BY <2>2, <2>3 DEF Cell
  <2> QED
    BY <2>4, Numerals
<1>2. rank \in [S -> Int]
  <2>1. ASSUME NEW l \in S
        PROVE  40000 * l.sector + 200 * Numeral(l.x) + Numeral(l.y) \in Int
    <3>1. PICK a \in Nat, b \in 0..109, c \in 0..109 :
            a = l.sector /\ b = Numeral(l.x) /\ c = Numeral(l.y)
      BY <1>1
    <3>2. 40000 * a + 200 * b + c \in Int
      OBVIOUS
    <3> QED
      BY <3>1, <3>2
  <2> QED
    BY <2>1
<1>3. IsFiniteSet(S)
  BY WorldFinite DEF Open
<1>4. PICK l \in S : \A m \in S : rank[l] <= rank[m]
  <2> HIDE DEF rank
  <2> QED
    BY <1>2, <1>3, LeastBy
<1>5. ASSUME NEW m \in S \ {l} PROVE Precedes(l, m)
  <2>1. 40000 * l.sector + 200 * Numeral(l.x) + Numeral(l.y) <= 40000 * m.sector + 200 * Numeral(m.x) + Numeral(m.y)
    BY <1>4
  <2>2. /\ l.sector \in Nat /\ Numeral(l.x) \in 0..109 /\ Numeral(l.y) \in 0..109
        /\ m.sector \in Nat /\ Numeral(m.x) \in 0..109 /\ Numeral(m.y) \in 0..109
    BY <1>1
  <2>3. \/ l.sector < m.sector
        \/ l.sector = m.sector /\ Numeral(l.x) < Numeral(m.x)
        \/ l.sector = m.sector /\ Numeral(l.x) = Numeral(m.x) /\ Numeral(l.y) <= Numeral(m.y)
    <3> DEFINE nlx == Numeral(l.x)
               nly == Numeral(l.y)
               nmx == Numeral(m.x)
               nmy == Numeral(m.y)
    <3>1. /\ l.sector \in Nat /\ nlx \in Nat /\ nly \in Nat /\ nlx <= 109 /\ nly <= 109
          /\ m.sector \in Nat /\ nmx \in Nat /\ nmy \in Nat /\ nmx <= 109 /\ nmy <= 109
          /\ 40000 * l.sector + 200 * nlx + nly <= 40000 * m.sector + 200 * nmx + nmy
      BY <2>1, <2>2
    <3> HIDE DEF nlx, nly, nmx, nmy
    <3>2. l.sector < m.sector \/ (l.sector = m.sector /\ nlx < nmx)
          \/ (l.sector = m.sector /\ nlx = nmx /\ nly <= nmy)
      BY <3>1, Lexical
    <3> QED
      BY <3>2 DEF nlx, nly, nmx, nmy
  <2>4. (Numeral(l.x) = Numeral(m.x) => l.x = m.x) /\ (Numeral(l.y) = Numeral(m.y) => l.y = m.y)
    BY <1>1, Numerals
  <2>5. ~(l.sector = m.sector /\ l.x = m.x /\ l.y = m.y)
    <3>1. l = Cell(l.sector, l.x, l.y) /\ m = Cell(m.sector, m.x, m.y)
      BY <1>1
    <3> QED
      BY <3>1
  <2> QED
    BY <2>2, <2>3, <2>4, <2>5 DEF Precedes
<1> QED
  BY <1>5 DEF FirstOf

\* Of some cells in reach one is the nearest.
LEMMA NearestIs ==
    ASSUME NEW from \in Open, NEW S, S \subseteq DOMAIN Distances[from], S # {}
    PROVE  Nearest(from, S) \in S
<1> DEFINE d == Distances[from]
           g == [l \in S |-> d[l]]
           near == {l \in S : \A m \in S : d[l] <= d[m]}
<1>1. S \subseteq Open /\ IsFiniteSet(S) /\ g \in [S -> Int]
  <2>1. S \subseteq Open /\ \A l \in S : d[l] \in Nat
    BY DistancesAre
  <2> QED
    BY <2>1, WorldFinite DEF Open
<1>2. \E l \in S : \A m \in S : g[l] <= g[m]
  <2> HIDE DEF g
  <2> QED
    BY <1>1, LeastBy
<1>3. near # {}
  BY <1>2
<1>4. Nearest(from, S) = FirstOf(near)
  BY DEF Nearest
<1>5. FirstOf(near) \in near
  <2>1. near \subseteq Open
    BY <1>1
  <2> HIDE DEF near
  <2> QED
    BY <1>3, <2>1, FirstIs
<1> QED
  BY <1>4, <1>5

-----------------------------------------------------------------------------
\* What command assesses.
Assessed(a) ==
    /\ Own(a.own)
    /\ DOMAIN a.contacts \subseteq Elements
    /\ \A c \in DOMAIN a.contacts : a.contacts[c].at \in Open
    /\ DOMAIN a.objectives \subseteq Objectives
    /\ \A o \in DOMAIN a.objectives : a.objectives[o].seen \in Int

\* The rules that give a target, and those of them that claim it.
RuleNames == {"retreat", "pursue", "engage", "reinforce", "secure", "search", "rescout"}
Claims == {"secure", "search", "rescout"}

\* Decisions: each has a target in reach, retreats have cells to retreat to,
\* and no two that claim their targets have the same.
Made(a) ==
    {d \in UNION {[D -> [rule : RuleNames, target : Open]] : D \in SUBSET DOMAIN a.own} :
        /\ \A i \in DOMAIN d : /\ d[i].target \in DOMAIN Distances[a.own[i].at]
                               /\ d[i].rule = "retreat" => d[i].target \in RetreatCells(a, a.own[i].at)
        /\ \A i, j \in DOMAIN d : (i # j /\ d[i].rule = d[j].rule /\ d[i].rule \in Claims)
                                   => d[i].target # d[j].target}

\* How decisions are shown to be such.
LEMMA MadeOf ==
    ASSUME NEW a, NEW D \in SUBSET DOMAIN a.own, NEW d \in [D -> [rule : RuleNames, target : Open]],
           \A i \in D : /\ d[i].target \in DOMAIN Distances[a.own[i].at]
                        /\ d[i].rule = "retreat" => d[i].target \in RetreatCells(a, a.own[i].at),
           \A i, j \in D : (i # j /\ d[i].rule = d[j].rule /\ d[i].rule \in Claims)
                             => d[i].target # d[j].target
    PROVE  d \in Made(a)
<1>1. d \in UNION {[E -> [rule : RuleNames, target : Open]] : E \in SUBSET DOMAIN a.own}
  OBVIOUS
<1>2. DOMAIN d = D
  OBVIOUS
<1>3. \A i \in DOMAIN d : /\ d[i].target \in DOMAIN Distances[a.own[i].at]
                          /\ d[i].rule = "retreat" => d[i].target \in RetreatCells(a, a.own[i].at)
  BY <1>2, Zenon
<1>4. \A i, j \in DOMAIN d : (i # j /\ d[i].rule = d[j].rule /\ d[i].rule \in Claims)
                              => d[i].target # d[j].target
  <2> SUFFICES ASSUME NEW i \in D, NEW j \in D, i # j, d[i].rule = d[j].rule, d[i].rule \in Claims
               PROVE  d[i].target # d[j].target
    BY <1>2
  <2> QED
    OBVIOUS
<1> QED
  BY <1>1, <1>3, <1>4, Zenon DEF Made

\* What follows for each.
LEMMA MadeIs ==
    ASSUME NEW a, NEW d \in Made(a)
    PROVE  /\ DOMAIN d \in SUBSET DOMAIN a.own
           /\ \A i \in DOMAIN d : /\ d[i] \in [rule : RuleNames, target : Open]
                                  /\ d[i].target \in DOMAIN Distances[a.own[i].at]
                                  /\ d[i].rule = "retreat" => d[i].target \in RetreatCells(a, a.own[i].at)
           /\ \A i, j \in DOMAIN d : (i # j /\ d[i].rule = d[j].rule /\ d[i].rule \in Claims)
                                      => d[i].target # d[j].target
<1>1. PICK D \in SUBSET DOMAIN a.own : d \in [D -> [rule : RuleNames, target : Open]]
  BY DEF Made
<1> QED
  BY <1>1 DEF Made

\* An element that takes a free target keeps decisions so.
LEMMA TakenMade ==
    ASSUME NEW a, Assessed(a), NEW rule \in Claims, NEW i \in DOMAIN a.own, NEW S,
           rule = "rescout" => S \subseteq DOMAIN a.objectives, NEW d \in Made(a)
    PROVE  Taken(a, d, rule, i, S) \in Made(a)
<1> DEFINE at == a.own[i].at
           free == Free(a, d, rule, i, S)
           best == Preferred(a, d, rule, free)
           choice == Decision(rule, Nearest(at, best))
           e == [j \in DOMAIN d \cup {i} |-> IF j = i THEN choice ELSE d[j]]
<1>1. CASE i \in DOMAIN d \/ free = {}
  BY <1>1 DEF Taken
<1>2. CASE i \notin DOMAIN d /\ free # {}
  <2>1. Taken(a, d, rule, i, S) = e
    BY <1>2 DEF Taken
  <2>2. at \in Open
    BY DEF Assessed, Own
  <2>3. free \subseteq S /\ free \subseteq DOMAIN Distances[at] /\ free \cap Claimed(d, rule) = {}
    BY DEF Free, Reached
  <2>4. best \subseteq free /\ best # {}
    <3>1. CASE rule = "search"
      BY <1>2, <3>1 DEF Preferred
    <3>2. CASE rule = "rescout"
      <4> DEFINE g == [o \in free |-> a.objectives[o].seen]
      <4>1. g \in [free -> Int]
        BY <2>3, <3>2 DEF Assessed
      <4>2. IsFiniteSet(free)
        <5>1. free \subseteq Cells
          BY <2>2, <2>3, DistancesAre DEF Open
        <5> QED
          BY <5>1, WorldFinite
      <4>3. \E o \in free : \A p \in free : g[o] <= g[p]
        <5> HIDE DEF g, free
        <5> QED
          BY <1>2, <4>1, <4>2, LeastBy DEF free
      <4>4. \E o \in free : \A p \in free : a.objectives[o].seen <= a.objectives[p].seen
        BY <4>3
      <4>5. best = {o \in free : \A p \in free : a.objectives[o].seen <= a.objectives[p].seen}
        BY <3>2 DEF Preferred
      <4> QED
        BY <4>4, <4>5
    <3>3. CASE rule = "secure"
      BY <1>2, <3>3 DEF Preferred
    <3> QED
      BY <3>1, <3>2, <3>3 DEF Claims
  <2> DEFINE to == Nearest(at, best)
  <2>5. to \in best
    <3> HIDE DEF at, best
    <3>1. best \subseteq DOMAIN Distances[at]
      BY <2>3, <2>4 DEF at, best
    <3> QED
      BY <2>2, <2>4, <3>1, NearestIs DEF at, best
  <2>6. to \in DOMAIN Distances[at] /\ to \in Open /\ to \notin Claimed(d, rule)
    <3>1. DOMAIN Distances[at] \subseteq Open
      BY <2>2, DistancesAre
    <3> QED
      BY <2>3, <2>4, <2>5, <3>1
  <2> HIDE DEF to
  <2>7. choice = [rule |-> rule, target |-> to]
    BY DEF Decision, to
  <2>8. rule \in RuleNames /\ rule # "retreat"
    BY DEF RuleNames, Claims
  <2>9. /\ DOMAIN d \in SUBSET DOMAIN a.own
        /\ \A j \in DOMAIN d : /\ d[j] \in [rule : RuleNames, target : Open]
                               /\ d[j].target \in DOMAIN Distances[a.own[j].at]
                               /\ d[j].rule = "retreat" => d[j].target \in RetreatCells(a, a.own[j].at)
        /\ \A j, k \in DOMAIN d : (j # k /\ d[j].rule = d[k].rule /\ d[j].rule \in Claims)
                                   => d[j].target # d[k].target
    BY MadeIs
  <2>10. \A j \in DOMAIN d : d[j].rule = rule => d[j].target # to
    BY <2>6 DEF Claimed
  <2>11. e[i] = [rule |-> rule, target |-> to] /\ \A j \in DOMAIN d : e[j] = d[j]
    <3> HIDE DEF choice
    <3> QED
      BY <1>2, <2>7
  <2>12. e = [j \in DOMAIN d \cup {i} |-> e[j]]
    OBVIOUS
  <2> HIDE DEF e
  <2>17. \A j \in DOMAIN d \cup {i} : e[j] \in [rule : RuleNames, target : Open]
    BY <2>6, <2>8, <2>9, <2>11
  <2> DEFINE X == [rule : RuleNames, target : Open]
  <2>18. e \in [DOMAIN d \cup {i} -> X]
    <3> HIDE DEF X
    <3>1. [j \in DOMAIN d \cup {i} |-> e[j]] \in [DOMAIN d \cup {i} -> X]
      BY <2>17 DEF X
    <3> QED
      BY <2>12, <3>1
  <2>13. \A j \in DOMAIN d \cup {i} :
           /\ e[j].target \in DOMAIN Distances[a.own[j].at]
           /\ e[j].rule = "retreat" => e[j].target \in RetreatCells(a, a.own[j].at)
    BY <2>6, <2>8, <2>9, <2>11
  <2>14. \A j, k \in DOMAIN d \cup {i} : (j # k /\ e[j].rule = e[k].rule /\ e[j].rule \in Claims)
                                         => e[j].target # e[k].target
    BY <2>9, <2>10, <2>11
  <2>15. DOMAIN d \cup {i} \in SUBSET DOMAIN a.own
    BY <2>9
  <2>16. e \in Made(a)
    BY <2>13, <2>14, <2>15, <2>18, MadeOf
  <2> QED
    BY <2>1, <2>16 DEF e
<1> QED
  BY <1>1, <1>2

\* What Give may be asked for.
Offers(a, rule, options) ==
    /\ DOMAIN options \subseteq DOMAIN a.own
    /\ rule = "rescout" => \A i \in DOMAIN options : options[i] \subseteq DOMAIN a.objectives

\* Giving elements targets keeps decisions made.
LEMMA GiveMade ==
    ASSUME NEW a, Assessed(a), NEW rule \in Claims, NEW options, Offers(a, rule, options),
           NEW d \in Made(a)
    PROVE  Give(a, d, rule, options) \in Made(a)
<1> DEFINE F == DOMAIN options
<1>0. IsFiniteSet(F) /\ F \subseteq Nat /\ F \subseteq DOMAIN a.own
  BY WorldFinite, NamesAssumption DEF Offers, Assessed, Own
<1>a. \A i \in F : rule = "rescout" => options[i] \subseteq DOMAIN a.objectives
  BY DEF Offers
<1> HIDE DEF F
<1> DEFINE W == Made(a)
           Turn(x, M) == Taken(a, M, rule, x, options[x])
           Body(h) == [s \in SUBSET F |->
                         IF s = {} THEN d ELSE LET x == Max(s) IN Turn(x, h[s \ {x}])]
           it == CHOOSE h : h = Body(h)
           ch == [s \in SUBSET F |-> Max(s)]
           st == [p \in F \X W |-> Turn(p[1], p[2])]
<1>1. Give(a, d, rule, options) = it[F]
  BY DEF Give, InOrder, MapThenFoldSet, F
<1>2. ASSUME NEW x \in F, NEW M \in W PROVE Turn(x, M) \in W
  BY <1>0, <1>a, TakenMade
<1>3. \A s \in SUBSET F : s # {} => Max(s) \in s
  <2> SUFFICES ASSUME NEW s \in SUBSET F, s # {} PROVE Max(s) \in s
    OBVIOUS
  <2>1. IsFiniteSet(s) /\ s \subseteq Int
    BY <1>0, FS_Subset
  <2> QED
    BY <2>1, MaxOf
<1>4. d \in W /\ st \in [F \X W -> W] /\ \A s \in SUBSET F : s # {} => ch[s] \in s
  <2>1. st \in [F \X W -> W]
    <3> HIDE DEF W, Turn
    <3> QED
      BY <1>2
  <2>2. d \in W
    OBVIOUS
  <2> QED
    BY <1>3, <2>1, <2>2
<1>5. PICK g : Folds(g, F, ch, W, d, st)
  <2> HIDE DEF W, st, ch
  <2> QED
    BY <1>0, <1>4, SetRecursion
<1>6. g \in [SUBSET F -> W] /\ g[{}] = d
  <2> HIDE DEF W, st, ch
  <2> QED
    BY <1>5 DEF Folds
<1>7. ASSUME NEW s \in SUBSET F, s # {} PROVE g[s] = LET x == Max(s) IN Turn(x, g[s \ {x}])
  <2>1. PICK x : x = Max(s)
    OBVIOUS
  <2>2. x \in F /\ ch[s] = x /\ s \ {x} \in SUBSET F
    BY <2>1, <1>3, <1>7
  <2>3. g[s \ {x}] \in W
    <3> HIDE DEF W
    <3> QED
      BY <2>2, <1>6
  <2>4. g[s] = st[<<x, g[s \ {x}]>>]
    <3> HIDE DEF W, st, ch
    <3> QED
      BY <2>2, <1>5, <1>7 DEF Folds
  <2>5. st[<<x, g[s \ {x}]>>] = Turn(x, g[s \ {x}])
    <3>1. PICK M : M = g[s \ {x}]
      OBVIOUS
    <3>2. M \in W
      BY <2>3, <3>1
    <3> HIDE DEF W, Turn
    <3>3. st[<<x, M>>] = Turn(x, M)
      BY <2>2, <3>2
    <3> QED
      BY <3>1, <3>3
  <2> HIDE DEF Turn, st
  <2> QED
    BY <2>1, <2>4, <2>5
<1>8. g = Body(g)
  <2> HIDE DEF W, Turn
  <2> QED
    BY <1>6, <1>7
<1>9. it = Body(it)
  <2> HIDE DEF Body
  <2> QED
    BY <1>8
<1> HIDE DEF it
<1>10. it[{}] = d
  <2> HIDE DEF Turn
  <2> QED
    BY <1>9
<1>11. ASSUME NEW s \in SUBSET F, s # {} PROVE \E x \in s : it[s \ {x}] \in W => it[s] \in W
  <2>1. PICK x : x = Max(s)
    OBVIOUS
  <2>2. x \in s /\ x \in F
    BY <2>1, <1>3, <1>11
  <2>3. it[s] = Turn(x, it[s \ {x}])
    <3> HIDE DEF Turn
    <3> QED
      BY <2>1, <1>9, <1>11
  <2>4. it[s \ {x}] \in W => it[s] \in W
    <3> HIDE DEF W, Turn
    <3> QED
      BY <1>2, <2>2, <2>3
  <2> QED
    BY <2>2, <2>4
<1>12. it[F] \in W
  <2> HIDE DEF W, Turn
  <2>1. FoldsWithin(it, F, W)
    BY <1>4, <1>10, <1>11 DEF FoldsWithin
  <2> QED
    BY <1>0, <2>1, FoldInduction
<1> QED
  BY <1>1, <1>12

-----------------------------------------------------------------------------
(* Deciding.                                                                *)

\* A distance is a natural number.
LEMMA FarIs ==
    ASSUME NEW l \in Cells, NEW m \in Cells
    PROVE  Far(l, m) \in Nat
<1>1. PICK a \in Int, b \in Int : a = l.x - m.x /\ b = l.y - m.y
  BY CellParts
<1>2. Abs(a) \in Nat /\ Abs(b) \in Nat
  BY DEF Abs
<1> DEFINE p == Abs(a)
           q == Abs(b)
<1>3. Far(l, m) = Max({p, q})
  BY <1>1 DEF Far
<1> HIDE DEF p, q
<1>4. p \in Nat /\ q \in Nat
  BY <1>2 DEF p, q
<1> QED
  BY <1>3, <1>4, MaxOfTwo

\* There is a way out of a fight from which the others are farthest.
LEMMA RetreatIs ==
    ASSUME NEW a, Assessed(a), NEW at \in Open, RetreatCells(a, at) # {}
    PROVE  RetreatTo(a, at) \in RetreatCells(a, at)
<1> DEFINE R == RetreatCells(a, at)
           G == [l \in R |-> -Gap(a, at, l)]
           best == {l \in R : \A m \in R : Gap(a, at, m) <= Gap(a, at, l)}
           js == {j \in DOMAIN Directions : Neighbor(at, Directions[j]) \in best}
<1>1. R \subseteq Open /\ \A l \in R : \E j \in DOMAIN Directions : l = Neighbor(at, Directions[j])
  BY DEF RetreatCells, Range
<1>2. ASSUME NEW l \in R PROVE Gap(a, at, l) \in Int
  <2> DEFINE others == {a.contacts[c].at : c \in DOMAIN a.contacts} \ {at}
             S == {Far(m, l) : m \in {n \in others : n.sector = at.sector}} \cup {Cardinality(Cells)}
  <2>1. others \subseteq Cells /\ l \in Cells
    BY <1>1 DEF Assessed, Open
  <2>2. Cardinality(Cells) \in Nat
    BY WorldFinite
  <2>3. S \subseteq Nat /\ S # {}
    BY <2>1, <2>2, FarIs
  <2>4. Gap(a, at, l) = Min(S)
    BY DEF Gap
  <2> HIDE DEF S
  <2>5. Min(S) \in S
    BY <2>3, MinOf
  <2>6. PICK n \in Nat : n = Min(S)
    BY <2>3, <2>5
  <2>7. Gap(a, at, l) = n
    BY <2>4, <2>6
  <2> QED
    BY <2>7
<1>3. PICK l \in R : \A m \in R : G[l] <= G[m]
  <2>1. G \in [R -> Int]
    BY <1>2
  <2>2. IsFiniteSet(R)
    BY <1>1, WorldFinite DEF Open
  <2> HIDE DEF G, R
  <2> QED
    BY <2>1, <2>2, LeastBy DEF R
<1>4. l \in best
  <2> SUFFICES ASSUME NEW m \in R PROVE Gap(a, at, m) <= Gap(a, at, l)
    OBVIOUS
  <2>1. PICK x \in Int, y \in Int : x = Gap(a, at, m) /\ y = Gap(a, at, l)
    BY <1>2
  <2>2. G[l] = -y /\ G[m] = -x
    BY <2>1
  <2> HIDE DEF G
  <2> QED
    BY <1>3, <2>1, <2>2
<1>5. js \subseteq Nat /\ js # {}
  <2>1. DOMAIN Directions = 1..4
    BY DEF Directions
  <2>2. PICK j \in DOMAIN Directions : l = Neighbor(at, Directions[j])
    BY <1>1
  <2> HIDE DEF best
  <2> QED
    BY <1>4, <2>1, <2>2
<1>6. RetreatTo(a, at) = Neighbor(at, Directions[Min(js)])
  BY DEF RetreatTo
<1>7. Min(js) \in js
  <2> HIDE DEF js
  <2> QED
    BY <1>5, MinOf
<1> QED
  BY <1>6, <1>7

\* A retreat is one step.
LEMMA RetreatNear ==
    ASSUME NEW a, NEW at \in Open
    PROVE  RetreatCells(a, at) \subseteq StepsFrom(at)
BY DEF RetreatCells, StepsFrom

\* The first decisions, of those in fights.
LEMMA FightMade ==
    ASSUME NEW a, Assessed(a)
    PROVE  Fight(a) \in Made(a)
<1> DEFINE D == {j \in DOMAIN a.own : a.own[j].status = "engaged" /\ Fresh(a, a.own[j].at) # {}}
           d == Fight(a)
<1>1. D \in SUBSET DOMAIN a.own
  OBVIOUS
<1>2. ASSUME NEW i \in D
      PROVE  \E rule \in {"retreat", "pursue", "engage"}, l \in Open :
               /\ d[i] = [rule |-> rule, target |-> l]
               /\ l \in DOMAIN Distances[a.own[i].at]
               /\ rule = "retreat" => l \in RetreatCells(a, a.own[i].at)
  <2> DEFINE at == a.own[i].at
             out == (KindOf[i] = "scout" \/ Outmatched(a, at)) /\ RetreatCells(a, at) # {}
             rule == IF out THEN "retreat" ELSE IF Ours(a, at) >= Theirs(a, at) THEN "pursue" ELSE "engage"
             l == IF out THEN RetreatTo(a, at) ELSE at
  <2>1. at \in Open
    BY DEF Assessed, Own
  <2>2. d[i] = [rule |-> rule, target |-> l]
    BY DEF Fight, Decision
  <2>3. DOMAIN Distances[at] \subseteq Open /\ at \in DOMAIN Distances[at]
        /\ StepsFrom(at) \subseteq DOMAIN Distances[at]
    BY <2>1, DistancesAre
  <2>4. out => RetreatTo(a, at) \in RetreatCells(a, at)
    BY <2>1, RetreatIs
  <2>5. RetreatCells(a, at) \subseteq StepsFrom(at)
    BY <2>1, RetreatNear
  <2>6. l \in DOMAIN Distances[at] /\ (rule = "retreat" => l \in RetreatCells(a, at))
    <3>1. CASE out
      BY <2>3, <2>4, <2>5, <3>1
    <3>2. CASE ~out
      BY <2>3, <3>2
    <3> QED
      BY <3>1, <3>2
  <2>7. rule \in {"retreat", "pursue", "engage"}
    OBVIOUS
  <2>8. l \in Open
    BY <2>3, <2>6
  <2> HIDE DEF rule, l
  <2> QED
    BY <2>2, <2>6, <2>7, <2>8
<1>3. d = [i \in D |-> d[i]]
  BY DEF Fight
<1>4. /\ \A i \in D : d[i] \in [rule : RuleNames, target : Open] /\ d[i].rule \notin Claims
      /\ \A i \in D : /\ d[i].target \in DOMAIN Distances[a.own[i].at]
                      /\ d[i].rule = "retreat" => d[i].target \in RetreatCells(a, a.own[i].at)
  <2> HIDE DEF d, D
  <2> SUFFICES ASSUME NEW i \in D
               PROVE  /\ d[i] \in [rule : RuleNames, target : Open] /\ d[i].rule \notin Claims
                      /\ d[i].target \in DOMAIN Distances[a.own[i].at]
                      /\ d[i].rule = "retreat" => d[i].target \in RetreatCells(a, a.own[i].at)
    OBVIOUS
  <2>1. PICK rule \in {"retreat", "pursue", "engage"}, l \in Open :
               /\ d[i] = [rule |-> rule, target |-> l]
               /\ l \in DOMAIN Distances[a.own[i].at]
               /\ rule = "retreat" => l \in RetreatCells(a, a.own[i].at)
    BY <1>2
  <2>2. rule \in RuleNames /\ rule \notin Claims
    BY DEF RuleNames, Claims
  <2> QED
    BY <2>1, <2>2
<1> DEFINE X == [rule : RuleNames, target : Open]
<1>5. d \in [D -> X]
  <2> HIDE DEF d, D, X
  <2>1. [i \in D |-> d[i]] \in [D -> X]
    BY <1>4 DEF X
  <2> QED
    BY <1>3, <2>1
<1> HIDE DEF d, D
<1>6. d \in Made(a)
  BY <1>1, <1>4, <1>5, MadeOf
<1> QED
  BY <1>6 DEF d

-----------------------------------------------------------------------------
\* Decisions that claim nothing may be added.
Added(a, e) ==
    /\ DOMAIN e \subseteq DOMAIN a.own
    /\ \A i \in DOMAIN e :
         /\ e[i] \in [rule : RuleNames, target : Open]
         /\ e[i].rule \notin Claims /\ e[i].rule # "retreat"
         /\ e[i].target \in DOMAIN Distances[a.own[i].at]

\* They leave the decisions made as they are.
LEMMA OverMade ==
    ASSUME NEW a, NEW d \in Made(a), NEW e, Added(a, e)
    PROVE  Over(d, e) \in Made(a)
<1> DEFINE D == DOMAIN d \cup DOMAIN e
           b == Over(d, e)
           X == [rule : RuleNames, target : Open]
<1>1. /\ DOMAIN d \in SUBSET DOMAIN a.own
      /\ \A j \in DOMAIN d : /\ d[j] \in X
                             /\ d[j].target \in DOMAIN Distances[a.own[j].at]
                             /\ d[j].rule = "retreat" => d[j].target \in RetreatCells(a, a.own[j].at)
      /\ \A j, k \in DOMAIN d : (j # k /\ d[j].rule = d[k].rule /\ d[j].rule \in Claims)
                                 => d[j].target # d[k].target
  BY MadeIs
<1>2. /\ DOMAIN e \subseteq DOMAIN a.own
      /\ \A i \in DOMAIN e : /\ e[i] \in X /\ e[i].rule \notin Claims /\ e[i].rule # "retreat"
                             /\ e[i].target \in DOMAIN Distances[a.own[i].at]
  BY DEF Added
<1>3. b = [i \in D |-> b[i]] /\ \A i \in D : b[i] = IF i \in DOMAIN d THEN d[i] ELSE e[i]
  BY DEF Over
<1> HIDE DEF b, X
<1>4. \A i \in D : b[i] \in X
  BY <1>1, <1>2, <1>3
<1>5. b \in [D -> X]
  <2> HIDE DEF D
  <2>1. [i \in D |-> b[i]] \in [D -> X]
    BY <1>4
  <2> QED
    BY <1>3, <2>1
<1>6. \A i \in D : /\ b[i].target \in DOMAIN Distances[a.own[i].at]
                   /\ b[i].rule = "retreat" => b[i].target \in RetreatCells(a, a.own[i].at)
  BY <1>1, <1>2, <1>3
<1>7. \A i, j \in D : (i # j /\ b[i].rule = b[j].rule /\ b[i].rule \in Claims)
                       => b[i].target # b[j].target
  BY <1>1, <1>2, <1>3
<1>8. D \in SUBSET DOMAIN a.own
  BY <1>1, <1>2
<1>9. b \in Made(a)
  <2> HIDE DEF D
  <2> QED
    BY <1>5, <1>6, <1>7, <1>8, MadeOf DEF X
<1> QED
  BY <1>9 DEF b

\* Reinforcing and engaging add decisions that claim nothing.
LEMMA JoinMade ==
    ASSUME NEW a, Assessed(a), NEW d \in Made(a)
    PROVE  Join(a, d) \in Made(a)
<1> DEFINE fights == Claimed(d, "pursue") \cup Claimed(d, "engage")
           squads == {i \in Undecided(a, d) : KindOf[i] = "squad"}
           near(i) == Within(a.own[i].at, fights, ReinforceRange)
           joins == {i \in squads : a.own[i].status \in {"ready", "recovering"} /\ near(i) # {}}
           weak(i) == {c \in DOMAIN a.contacts :
                         /\ Within(a.own[i].at, {a.contacts[c].at}, EngageRange) # {}
                         /\ Strength(a.contacts[c]) < Strength(a.own[i])}
           dist(i, c) == Distances[a.own[i].at][a.contacts[c].at]
           prey(i) == Min({c \in weak(i) : \A e \in weak(i) : dist(i, c) <= dist(i, e)})
           joined == [i \in joins |-> Decision("reinforce", Nearest(a.own[i].at, near(i)))]
           sents == {j \in squads \ joins : weak(j) # {}}
           sent == [i \in sents |-> Decision("engage", a.contacts[prey(i)].at)]
           e == Over(joined, sent)
<1>1. Join(a, d) = Over(d, e)
  BY DEF Join
<1>2. joins \subseteq DOMAIN a.own /\ sents \subseteq DOMAIN a.own
  BY DEF Undecided
<1>3. ASSUME NEW i \in joins
      PROVE  \E l \in Open : joined[i] = Decision("reinforce", l) /\ l \in DOMAIN Distances[a.own[i].at]
  <2>1. a.own[i].at \in Open
    BY <1>2 DEF Assessed, Own
  <2>2. DOMAIN Distances[a.own[i].at] \subseteq Open
    BY <2>1, DistancesAre
  <2>3. near(i) \subseteq DOMAIN Distances[a.own[i].at] /\ near(i) # {}
    BY DEF Within
  <2>4. joined[i] = Decision("reinforce", Nearest(a.own[i].at, near(i)))
    OBVIOUS
  <2> HIDE DEF near, joined, joins
  <2>5. Nearest(a.own[i].at, near(i)) \in near(i)
    BY <2>1, <2>3, NearestIs
  <2> QED
    BY <2>2, <2>3, <2>4, <2>5
<1>4. ASSUME NEW i \in sents
      PROVE  \E l \in Open : sent[i] = Decision("engage", l) /\ l \in DOMAIN Distances[a.own[i].at]
  <2>1. a.own[i].at \in Open
    BY <1>2 DEF Assessed, Own
  <2>2. DOMAIN Distances[a.own[i].at] \subseteq Open
        /\ \A l \in DOMAIN Distances[a.own[i].at] : Distances[a.own[i].at][l] \in Nat
    BY <2>1, DistancesAre
  <2>3. \A c \in weak(i) : a.contacts[c].at \in DOMAIN Distances[a.own[i].at]
    BY DEF Within
  <2>4. weak(i) # {} /\ weak(i) \subseteq Elements
    BY DEF Assessed
  <2>5. sent[i] = Decision("engage", a.contacts[prey(i)].at)
    OBVIOUS
  <2> DEFINE W == weak(i)
             g == [c \in W |-> dist(i, c)]
             N == {c \in W : \A m \in W : dist(i, c) <= dist(i, m)}
  <2>6. prey(i) = Min(N)
    OBVIOUS
  <2> HIDE DEF sent, sents, weak, prey
  <2>7. g \in [W -> Int] /\ IsFiniteSet(W) /\ W # {} /\ W \subseteq Nat
    <3>1. \A c \in W : dist(i, c) \in Int
      BY <2>2, <2>3
    <3> HIDE DEF dist
    <3> QED
      BY <2>4, <3>1, WorldFinite, NamesAssumption
  <2> HIDE DEF W
  <2>8. \E c \in W : \A m \in W : g[c] <= g[m]
    <3> HIDE DEF g
    <3> QED
      BY <2>7, LeastBy
  <2>9. N # {} /\ N \subseteq Nat
    <3> HIDE DEF dist
    <3> QED
      BY <2>7, <2>8
  <2>10. Min(N) \in N
    <3> HIDE DEF N
    <3> QED
      BY <2>9, MinOf
  <2>11. prey(i) \in W
    BY <2>6, <2>10
  <2> QED
    BY <2>2, <2>3, <2>5, <2>11 DEF W
<1>5. DOMAIN joined = joins /\ DOMAIN sent = sents
  OBVIOUS
<1> HIDE DEF joins, sents, joined, sent
<1>6. \A i \in joins \cup sents :
        \E rule \in {"reinforce", "engage"}, l \in Open :
          e[i] = [rule |-> rule, target |-> l] /\ l \in DOMAIN Distances[a.own[i].at]
  <2>1. \A i \in joins \cup sents : e[i] = IF i \in joins THEN joined[i] ELSE sent[i]
    BY <1>5 DEF Over
  <2> HIDE DEF e
  <2> QED
    BY <1>3, <1>4, <2>1 DEF Decision
<1>7. DOMAIN e = joins \cup sents
  BY <1>5 DEF Over
<1> HIDE DEF e
<1>8. Added(a, e)
  <2>1. ASSUME NEW i \in DOMAIN e
        PROVE  /\ e[i] \in [rule : RuleNames, target : Open]
               /\ e[i].rule \notin Claims /\ e[i].rule # "retreat"
               /\ e[i].target \in DOMAIN Distances[a.own[i].at]
    <3>1. PICK rule \in {"reinforce", "engage"}, l \in Open :
            e[i] = [rule |-> rule, target |-> l] /\ l \in DOMAIN Distances[a.own[i].at]
      BY <1>6, <1>7, <2>1
    <3>2. rule \in RuleNames /\ rule \notin Claims /\ rule # "retreat"
      BY DEF RuleNames, Claims
    <3> QED
      BY <3>1, <3>2
  <2> QED
    BY <1>2, <1>7, <2>1 DEF Added
<1> QED
  BY <1>1, <1>8, OverMade

\* Securing keeps decisions so.
LEMMA SecureMade ==
    ASSUME NEW f, NEW a, Assessed(a), NEW was, NEW d \in Made(a)
    PROVE  Secure(f, a, was, d) \in Made(a)
<1> DEFINE able == {i \in Undecided(a, d) : ~Searches(a, i)}
           open == ToTake(f, a)
           o1 == [i \in able |-> {a.own[i].at} \cap open]
           o2 == [i \in able |-> Kept(was, "secure", i, open)]
           o3 == [i \in able |-> open]
           here == Give(a, d, "secure", o1)
           kept == Give(a, here, "secure", o2)
<1>1. Offers(a, "secure", o1) /\ Offers(a, "secure", o2) /\ Offers(a, "secure", o3) /\ "secure" \in Claims
  BY DEF Undecided, Offers, Claims
<1>2. Secure(f, a, was, d) = Give(a, kept, "secure", o3)
  BY DEF Secure
<1> HIDE DEF o1, o2, o3
<1>3. here \in Made(a)
  BY <1>1, GiveMade
<1>4. kept \in Made(a)
  BY <1>1, <1>3, GiveMade
<1> QED
  BY <1>1, <1>2, <1>4, GiveMade

\* So does searching.
LEMMA SearchMade ==
    ASSUME NEW a, Assessed(a), NEW was, NEW d \in Made(a), NEW kind
    PROVE  SearchBy(a, was, d, kind) \in Made(a)
<1> DEFINE able == {i \in Undecided(a, d) : KindOf[i] = kind}
           unseen == Open \ Explored(a)
           o1 == [i \in able |-> Kept(was, "search", i, unseen)]
           o2 == [i \in able |-> unseen]
           kept == Give(a, d, "search", o1)
<1>1. Offers(a, "search", o1) /\ Offers(a, "search", o2) /\ "search" \in Claims
  BY DEF Undecided, Offers, Claims
<1>2. SearchBy(a, was, d, kind) = Give(a, kept, "search", o2)
  BY DEF SearchBy
<1> HIDE DEF o1, o2
<1>3. kept \in Made(a)
  BY <1>1, GiveMade
<1> QED
  BY <1>1, <1>2, <1>3, GiveMade

\* And so does rescouting.
LEMMA RescoutMade ==
    ASSUME NEW f, NEW a, Assessed(a), NEW was, NEW d \in Made(a)
    PROVE  Rescout(f, a, was, d) \in Made(a)
<1> DEFINE able == Undecided(a, d)
           others(i) == ToTake(f, a) \ {a.own[i].at}
           o1 == [i \in able |-> Kept(was, "rescout", i, others(i))]
           o2 == [i \in able |-> others(i)]
           kept == Give(a, d, "rescout", o1)
<1>1. Offers(a, "rescout", o1) /\ Offers(a, "rescout", o2) /\ "rescout" \in Claims
  <2>1. \A i \in able : others(i) \subseteq DOMAIN a.objectives
    BY DEF ToTake
  <2>2. \A i \in able : Kept(was, "rescout", i, others(i)) \subseteq others(i)
    BY DEF Kept
  <2> QED
    BY <2>1, <2>2 DEF Undecided, Offers, Claims
<1>2. Rescout(f, a, was, d) = Give(a, kept, "rescout", o2)
  BY DEF Rescout
<1> HIDE DEF o1, o2
<1>3. kept \in Made(a)
  BY <1>1, GiveMade
<1> QED
  BY <1>1, <1>2, <1>3, GiveMade

\* What command decides is decided for each of its elements; no two that claim
\* their targets have the same; each is in reach; and there is room to retreat.
Directs(a, d) ==
    /\ DOMAIN d = DOMAIN a.own
    /\ \A i, j \in DOMAIN d : (i # j /\ d[i].rule = d[j].rule /\ d[i].rule \in Claims)
                               => d[i].target # d[j].target
    /\ \A i \in DOMAIN d : d[i] # Hold => d[i].target \in DOMAIN Distances[a.own[i].at]
    /\ \A i \in DOMAIN d : d[i].rule = "retreat" => d[i].target \in RetreatCells(a, a.own[i].at)

\* What decide makes of an assessment.
LEMMA DecideMade ==
    ASSUME NEW f, NEW a, Assessed(a), NEW was
    PROVE  Directs(a, Decide(f, a, was))
<1> DEFINE sent == Restrict(was, {i \in DOMAIN was : was[i].rule # "hold"})
           d1 == Join(a, Fight(a))
           d2 == Secure(f, a, sent, d1)
           d3 == SearchBy(a, sent, d2, "scout")
           d4 == SearchBy(a, sent, d3, "squad")
           d == Rescout(f, a, sent, d4)
           holds == [i \in Undecided(a, d) |-> Hold]
           e == Over(d, holds)
<1>1. Decide(f, a, was) = e
  BY DEF Decide
<1>2. d \in Made(a)
  <2>1. d1 \in Made(a)
    BY FightMade, JoinMade
  <2> HIDE DEF sent, d1
  <2>2. d2 \in Made(a)
    BY <2>1, SecureMade
  <2> HIDE DEF d2
  <2>3. d3 \in Made(a)
    BY <2>2, SearchMade
  <2> HIDE DEF d3
  <2>4. d4 \in Made(a)
    BY <2>3, SearchMade
  <2> HIDE DEF d4
  <2> QED
    BY <2>4, RescoutMade
<1> HIDE DEF d
<1>3. /\ DOMAIN d \in SUBSET DOMAIN a.own
      /\ \A i \in DOMAIN d : /\ d[i] \in [rule : RuleNames, target : Open]
                             /\ d[i].target \in DOMAIN Distances[a.own[i].at]
                             /\ d[i].rule = "retreat" => d[i].target \in RetreatCells(a, a.own[i].at)
      /\ \A i, j \in DOMAIN d : (i # j /\ d[i].rule = d[j].rule /\ d[i].rule \in Claims)
                                 => d[i].target # d[j].target
  BY <1>2, MadeIs
<1>4. DOMAIN e = DOMAIN a.own
  BY <1>3 DEF Over, Undecided
<1>5. \A i \in DOMAIN a.own : e[i] = IF i \in DOMAIN d THEN d[i] ELSE Hold
  BY <1>3 DEF Over, Undecided
<1> HIDE DEF e
<1>6. Hold.rule \notin Claims /\ Hold.rule # "retreat"
  BY DEF Hold, Claims
<1>7. Directs(a, e)
  BY <1>3, <1>4, <1>5, <1>6 DEF Directs
<1> QED
  BY <1>1, <1>7

-----------------------------------------------------------------------------
(* The invariant.                                                           *)

\* The counts toward captures are those of the factions alone on objectives that
\* they do not hold, one round each.
Counted ==
    /\ round = 0 => DOMAIN state.progress = {}
    /\ round > 0 => /\ DOMAIN state.progress = Taking(state, state.elements)
                    /\ \A o \in DOMAIN state.progress :
                         state.progress[o].faction = Taker(state.elements, o)

\* The exercise's own state.
ExerciseInv ==
    /\ limit \in Nat /\ round \in 0..limit
    /\ verdict = Judge(state, round, limit)
    /\ Valid(state) /\ (round > 0 => Faced(state.elements)) /\ Counted
    /\ \A f \in Factions : DOMAIN alerts[f] \subseteq Objectives

\* The enemies a faction sees now are in its picture where they are.
Sighting(f) ==
    /\ picture[f].own = Observe(state, f).own
    /\ picture[f].round = round
    /\ \A c \in DOMAIN Observe(state, f).contacts :
         /\ c \in DOMAIN picture[f].contacts
         /\ picture[f].contacts[c].at = state.elements[c].at
         /\ picture[f].contacts[c].seen = round

\* The services' state, as far as the round has come.
ServicesInv ==
    /\ slips \in 0..MaxSlips
    /\ turn \in {"intelligence", "command", "operations", "exercise"}
    /\ \A f \in Factions :
         /\ Assessed(picture[f])
         /\ turn # "intelligence" /\ f \in Played => Sighting(f)
         /\ turn \in {"operations", "exercise"} /\ f \in Played => Directs(picture[f], decided[f])
         /\ turn = "exercise" /\ f \in Played => DOMAIN standing[f] \subseteq DOMAIN picture[f].own
         /\ \/ orders[f] = <<>>
            \/ turn = "exercise" /\ f \in Played /\ orders[f] = Plan(picture[f].own, standing[f])

\* The inductive invariant.
GameInv == ExerciseInv /\ ServicesInv

\* The function of nothing.
LEMMA NoneIn == DOMAIN <<>> = {}
OBVIOUS

\* What State.Validate says of the parts of a state.
LEMMA ValidParts ==
    ASSUME NEW s, Valid(s)
    PROVE  /\ DOMAIN s.elements \subseteq Elements /\ IsFiniteSet(DOMAIN s.elements)
           /\ \A i \in DOMAIN s.elements : s.elements[i].at \in Open /\ s.elements[i].status \in Statuses
           /\ DOMAIN s.holders \subseteq Objectives /\ DOMAIN s.progress \subseteq Objectives
           /\ \A o \in DOMAIN s.holders : s.holders[o] \in Factions
           /\ \A o \in DOMAIN s.progress : s.progress[o].faction \in Factions /\ s.progress[o].rounds = 1
<1>1. DOMAIN s.elements \subseteq Elements /\ IsFiniteSet(DOMAIN s.elements)
  BY WorldFinite DEF Valid
<1>2. \A i \in DOMAIN s.elements : s.elements[i].at \in Open /\ s.elements[i].status \in Statuses
  BY DEF Valid
<1>3. /\ DOMAIN s.holders \subseteq Objectives /\ DOMAIN s.progress \subseteq Objectives
      /\ Range(s.holders) \subseteq Factions
      /\ Range(s.progress) \subseteq [faction : Factions, rounds : 1..CaptureRounds - 1]
  BY DEF Valid
<1>4. \A o \in DOMAIN s.holders : s.holders[o] \in Factions
  BY <1>3 DEF Range
<1>5. \A o \in DOMAIN s.progress : s.progress[o].faction \in Factions /\ s.progress[o].rounds = 1
  <2>1. \A o \in DOMAIN s.progress : s.progress[o] \in [faction : Factions, rounds : 1..CaptureRounds - 1]
    BY <1>3 DEF Range
  <2> QED
    BY <2>1 DEF CaptureRounds
<1> QED
  BY <1>1, <1>2, <1>3, <1>4, <1>5

\* An exercise starts so.
LEMMA GameInit == Init => GameInv
<1> SUFFICES ASSUME Init PROVE GameInv
  OBVIOUS
<1>1. PICK g \in Games : plays = g.plays /\ limit = g.limit /\ state = g.start
  BY DEF Init
<1>2. /\ limit \in Nat /\ Valid(state) /\ state.progress = <<>>
      /\ MaxSlips \in Nat
  BY <1>1, GameAssumption
<1>3. ExerciseInv
  <2>1. \A f \in Factions : alerts[f] = <<>>
    BY DEF Init, Nothing
  <2> QED
    BY <1>2, <2>1, NoneIn DEF Init, ExerciseInv, Counted
<1>4. ServicesInv
  <2>1. \A f \in Factions : picture[f] = Blank /\ orders[f] = <<>>
    BY DEF Init, Nothing
  <2>2. Assessed(Blank)
    BY NoneIn DEF Assessed, Own, Blank
  <2> QED
    BY <1>2, <2>1, <2>2 DEF Init, ServicesInv
<1> QED
  BY <1>3, <1>4 DEF GameInv

\* What an observation shows.
LEMMA OwnIs ==
    ASSUME NEW s, Valid(s), NEW f
    PROVE  /\ DOMAIN Observe(s, f).own = {i \in DOMAIN s.elements : Of[i] = f}
           /\ \A i \in DOMAIN Observe(s, f).own : Observe(s, f).own[i] = s.elements[i]
           /\ Own(Observe(s, f).own)
           /\ DOMAIN Observe(s, f).contacts =
                {i \in DOMAIN s.elements : Of[i] # f /\ Sees(s.elements, f, s.elements[i].at)}
           /\ \A i \in DOMAIN Observe(s, f).contacts : Observe(s, f).contacts[i] = s.elements[i]
           /\ DOMAIN Observe(s, f).objectives \subseteq Objectives
<1>1. /\ Observe(s, f).own = [i \in {j \in DOMAIN s.elements : Of[j] = f} |-> s.elements[i]]
      /\ Observe(s, f).contacts =
           [i \in {j \in DOMAIN s.elements : Of[j] # f /\ Sees(s.elements, f, s.elements[j].at)} |-> s.elements[i]]
      /\ Observe(s, f).objectives = [o \in {p \in Objectives : Sees(s.elements, f, p)} |-> Holder(s, o)]
  BY DEF Observe, Restrict
<1> DEFINE ob == Observe(s, f)
<1> HIDE DEF ob
<1>2. /\ DOMAIN ob.own = {i \in DOMAIN s.elements : Of[i] = f}
      /\ \A i \in DOMAIN ob.own : ob.own[i] = s.elements[i]
  BY <1>1 DEF ob
<1>3. /\ DOMAIN ob.contacts =
           {i \in DOMAIN s.elements : Of[i] # f /\ Sees(s.elements, f, s.elements[i].at)}
      /\ \A i \in DOMAIN ob.contacts : ob.contacts[i] = s.elements[i]
  BY <1>1 DEF ob
<1>4. DOMAIN ob.objectives \subseteq Objectives
  BY <1>1 DEF ob
<1>5. Own(ob.own)
  BY <1>2, ValidParts DEF Own
<1> QED
  BY <1>2, <1>3, <1>4, <1>5 DEF ob

-----------------------------------------------------------------------------
(* Its steps.                                                               *)

\* What a picture is after an observation.
LEMMA KnowIs ==
    ASSUME NEW s, Valid(s), NEW f, NEW p, Assessed(p), NEW told, DOMAIN told \subseteq Objectives,
           NEW n \in Nat
    PROVE  LET k == Know(p, Observe(s, f), told, n)
           IN  /\ Assessed(k) /\ k.own = Observe(s, f).own /\ k.round = n
               /\ \A c \in DOMAIN Observe(s, f).contacts :
                    /\ c \in DOMAIN k.contacts
                    /\ k.contacts[c].at = s.elements[c].at /\ k.contacts[c].seen = n
<1> DEFINE obs == Observe(s, f)
           k == Know(p, obs, told, n)
           sighted == Sighted(obs, n)
           stale == Restrict(p.contacts, Lingers(p, obs, n))
           seen == [o \in DOMAIN obs.objectives |-> [holder |-> obs.objectives[o], seen |-> n]]
           heard == [o \in DOMAIN told |-> [holder |-> told[o], seen |-> n]]
           older == Over(heard, p.objectives)
<1>1. /\ k.own = obs.own /\ k.round = n
      /\ k.contacts = Over(sighted, stale) /\ k.objectives = Over(seen, older)
  BY DEF Know
<1>2. /\ Own(obs.own)
      /\ DOMAIN obs.contacts \subseteq Elements
      /\ \A c \in DOMAIN obs.contacts : obs.contacts[c] = s.elements[c] /\ s.elements[c].at \in Open
      /\ DOMAIN obs.objectives \subseteq Objectives
  BY OwnIs, ValidParts
<1>3. /\ DOMAIN sighted = DOMAIN obs.contacts
      /\ \A c \in DOMAIN sighted : sighted[c].at = obs.contacts[c].at /\ sighted[c].seen = n
  BY DEF Sighted
<1>4. /\ DOMAIN stale \subseteq DOMAIN p.contacts
      /\ \A c \in DOMAIN stale : stale[c] = p.contacts[c]
  BY DEF Restrict, Lingers
<1>5. /\ DOMAIN p.contacts \subseteq Elements
      /\ \A c \in DOMAIN p.contacts : p.contacts[c].at \in Open
      /\ DOMAIN p.objectives \subseteq Objectives
      /\ \A o \in DOMAIN p.objectives : p.objectives[o].seen \in Int
  BY DEF Assessed
<1>6. /\ DOMAIN seen = DOMAIN obs.objectives /\ \A o \in DOMAIN seen : seen[o].seen = n
      /\ DOMAIN heard = DOMAIN told /\ \A o \in DOMAIN heard : heard[o].seen = n
  OBVIOUS
<1> HIDE DEF obs, k, sighted, stale, seen, heard
<1>7. /\ DOMAIN k.contacts = DOMAIN sighted \cup DOMAIN stale
      /\ \A c \in DOMAIN k.contacts : k.contacts[c] = IF c \in DOMAIN sighted THEN sighted[c] ELSE stale[c]
  BY <1>1 DEF Over
<1>8. /\ DOMAIN older = DOMAIN heard \cup DOMAIN p.objectives
      /\ \A o \in DOMAIN older : older[o] = IF o \in DOMAIN heard THEN heard[o] ELSE p.objectives[o]
  BY DEF Over
<1> HIDE DEF older
<1>9. /\ DOMAIN k.objectives = DOMAIN seen \cup DOMAIN older
      /\ \A o \in DOMAIN k.objectives : k.objectives[o] = IF o \in DOMAIN seen THEN seen[o] ELSE older[o]
  BY <1>1 DEF Over
<1>10. \A c \in DOMAIN obs.contacts :
         /\ c \in DOMAIN k.contacts
         /\ k.contacts[c].at = s.elements[c].at /\ k.contacts[c].seen = n
  BY <1>2, <1>3, <1>7
<1>11. DOMAIN k.contacts \subseteq Elements /\ \A c \in DOMAIN k.contacts : k.contacts[c].at \in Open
  BY <1>2, <1>3, <1>4, <1>5, <1>7
<1>12. DOMAIN k.objectives \subseteq Objectives /\ \A o \in DOMAIN k.objectives : k.objectives[o].seen \in Int
  BY <1>2, <1>5, <1>6, <1>8, <1>9
<1>13. Assessed(k)
  BY <1>1, <1>2, <1>11, <1>12 DEF Assessed
<1> QED
  BY <1>1, <1>10, <1>13 DEF obs, k

\* Intelligence keeps the invariant.
LEMMA GameObserved ==
    ASSUME GameInv, Observed
    PROVE  GameInv'
<1> USE DEF GameInv
<1>1. ExerciseInv'
  BY DEF ExerciseInv, Counted, Observed, game
<1>2. ASSUME NEW f \in Factions
      PROVE  Assessed(picture'[f]) /\ (f \in Played => Sighting(f)') /\ orders'[f] = <<>>
  <2>1. /\ Assessed(picture[f]) /\ Valid(state) /\ DOMAIN alerts[f] \subseteq Objectives /\ round \in Nat
        /\ orders[f] = <<>>
    BY DEF ExerciseInv, ServicesInv, Observed
  <2>2. CASE f \in Played
    <3> DEFINE k == Know(picture[f], Observe(state, f), alerts[f], round)
    <3>1. picture'[f] = k
      BY <2>2 DEF Observed
    <3>2. /\ Assessed(k) /\ k.own = Observe(state, f).own /\ k.round = round
          /\ \A c \in DOMAIN Observe(state, f).contacts :
               /\ c \in DOMAIN k.contacts
               /\ k.contacts[c].at = state.elements[c].at /\ k.contacts[c].seen = round
      BY <2>1, KnowIs
    <3>3. state' = state /\ round' = round /\ orders' = orders
      BY DEF Observed, game
    <3> HIDE DEF k
    <3>4. Observe(state', f) = Observe(state, f)
      BY <3>3
    <3> QED
      BY <2>1, <3>1, <3>2, <3>3, <3>4 DEF Sighting
  <2>3. CASE f \notin Played
    <3>1. picture'[f] = Blank /\ orders' = orders
      BY <2>3 DEF Observed
    <3>2. Assessed(Blank)
      BY NoneIn DEF Assessed, Own, Blank
    <3> QED
      BY <2>1, <2>3, <3>1, <3>2
  <2> QED
    BY <2>2, <2>3
<1>3. Played' = Played /\ turn' = "command" /\ slips' = slips
  BY DEF Observed, game, Played
<1>4. ServicesInv'
  BY <1>2, <1>3 DEF ServicesInv
<1> QED
  BY <1>1, <1>4

\* Command does.
LEMMA GameDirected ==
    ASSUME GameInv, Directed
    PROVE  GameInv'
<1> USE DEF GameInv
<1>1. ExerciseInv'
  BY DEF ExerciseInv, Counted, Directed, game
<1>2. /\ Played' = Played /\ turn = "command" /\ turn' = "operations" /\ slips' = slips
      /\ orders' = orders /\ picture' = picture /\ state' = state /\ round' = round
  BY DEF Directed, game, Played
<1>3. ASSUME NEW f \in Played PROVE Directs(picture[f], decided'[f])
  <2>1. decided'[f] = Decide(f, picture[f], decided[f])
    BY DEF Directed, Played
  <2>2. Assessed(picture[f])
    BY DEF ServicesInv, Played
  <2> QED
    BY <2>1, <2>2, DecideMade
<1>4. \A f \in Factions : Sighting(f) => Sighting(f)'
  BY <1>2 DEF Sighting
<1>5. ServicesInv'
  BY <1>2, <1>3, <1>4 DEF ServicesInv
<1> QED
  BY <1>1, <1>5

\* Operations does.
LEMMA GameOrdered ==
    ASSUME GameInv, Ordered
    PROVE  GameInv'
<1> USE DEF GameInv
<1>1. ExerciseInv'
  BY DEF ExerciseInv, Counted, Ordered, game
<1>2. /\ Played' = Played /\ turn = "operations" /\ turn' = "exercise"
      /\ decided' = decided /\ picture' = picture /\ state' = state /\ round' = round
  BY DEF Ordered, game, Played
<1>3. PICK late \in SUBSET Played, lost \in SUBSET Played :
        /\ slips' = slips + Cardinality(late) + Cardinality(lost)
        /\ slips' <= MaxSlips
        /\ standing' = [f \in Factions |->
              LET has == IF f \in late THEN standing[f] ELSE Standing(decided[f])
              IN  IF f \in Played THEN Restrict(has, DOMAIN has \cap DOMAIN picture[f].own) ELSE <<>>]
        /\ orders' = [f \in Factions |->
              IF f \in Played \ lost THEN Plan(picture[f].own, standing'[f]) ELSE <<>>]
  BY DEF Ordered
<1>4. slips' \in 0..MaxSlips
  <2>1. Cardinality(late) \in Nat /\ Cardinality(lost) \in Nat
    <3>1. late \in SUBSET Factions /\ lost \in SUBSET Factions
      BY DEF Played
    <3> QED
      BY <3>1, Rivals
  <2>2. slips \in 0..MaxSlips /\ MaxSlips \in Nat
    BY GameAssumption DEF ServicesInv
  <2> QED
    BY <1>3, <2>1, <2>2
<1>5. ASSUME NEW f \in Factions
      PROVE  /\ f \in Played => DOMAIN standing'[f] \subseteq DOMAIN picture[f].own
             /\ orders'[f] = <<>> \/ (f \in Played /\ orders'[f] = Plan(picture[f].own, standing'[f]))
  <2> DEFINE has == IF f \in late THEN standing[f] ELSE Standing(decided[f])
  <2>1. f \in Played => standing'[f] = Restrict(has, DOMAIN has \cap DOMAIN picture[f].own)
    BY <1>3
  <2> HIDE DEF has
  <2>2. f \in Played => DOMAIN standing'[f] \subseteq DOMAIN picture[f].own
    BY <2>1 DEF Restrict
  <2>3. orders'[f] = IF f \in Played \ lost THEN Plan(picture[f].own, standing'[f]) ELSE <<>>
    BY <1>3
  <2> QED
    BY <2>2, <2>3
<1>6. \A f \in Factions : Sighting(f) => Sighting(f)'
  BY <1>2 DEF Sighting
<1>7. ServicesInv'
  BY <1>2, <1>4, <1>5, <1>6 DEF ServicesInv
<1> QED
  BY <1>1, <1>7

\* The orders of the services, by element.
LEMMA RecordedAre ==
    ASSUME GameInv
    PROVE  /\ \A f \in Factions : DOMAIN orders[f] \subseteq {i \in DOMAIN state.elements : Of[i] = f}
           /\ \A i \in DOMAIN Recorded : Of[i] \in Factions /\ i \in DOMAIN orders[Of[i]]
           /\ \A f \in Factions : \A i \in DOMAIN orders[f] :
                i \in DOMAIN Recorded /\ Recorded[i] = orders[f][i]
           /\ Written(Recorded)
<1>1. ASSUME NEW f \in Factions
      PROVE  /\ DOMAIN orders[f] \subseteq {i \in DOMAIN state.elements : Of[i] = f}
             /\ \A i \in DOMAIN orders[f] : orders[f][i].steps \in Seq(Cells)
  <2>1. CASE orders[f] = <<>>
    BY <2>1, NoneIn
  <2>2. CASE orders[f] # <<>>
    <3>1. /\ orders[f] = Plan(picture[f].own, standing[f])
          /\ picture[f].own = Observe(state, f).own /\ Own(picture[f].own)
      BY <2>2 DEF GameInv, ServicesInv, Sighting, Assessed
    <3>2. /\ DOMAIN orders[f] \subseteq DOMAIN picture[f].own
          /\ \A i \in DOMAIN orders[f] : orders[f][i].steps \in Seq(Open)
      BY <3>1, PlanMade
    <3>3. DOMAIN picture[f].own = {i \in DOMAIN state.elements : Of[i] = f}
      BY <3>1, OwnIs DEF GameInv, ExerciseInv
    <3>4. Open \subseteq Cells
      BY DEF Open
    <3>5. ASSUME NEW i \in DOMAIN orders[f] PROVE orders[f][i].steps \in Seq(Cells)
      <4>1. PICK w \in Seq(Open) : w = orders[f][i].steps
        BY <3>2
      <4>2. w \in Seq(Cells)
        BY <3>4
      <4> QED
        BY <4>1, <4>2
    <3> QED
      BY <3>2, <3>3, <3>5
  <2> QED
    BY <2>1, <2>2
<1>2. /\ DOMAIN Recorded = UNION {DOMAIN orders[f] : f \in Factions}
      /\ \A i \in DOMAIN Recorded : Recorded[i] = orders[Of[i]][i]
  BY DEF Recorded
<1> HIDE DEF Recorded
<1>3. \A i \in DOMAIN Recorded : Of[i] \in Factions /\ i \in DOMAIN orders[Of[i]]
  <2> SUFFICES ASSUME NEW i \in DOMAIN Recorded PROVE Of[i] \in Factions /\ i \in DOMAIN orders[Of[i]]
    OBVIOUS
  <2>1. PICK f \in Factions : i \in DOMAIN orders[f]
    BY <1>2
  <2> QED
    BY <1>1, <2>1
<1>4. \A f \in Factions : \A i \in DOMAIN orders[f] :
        i \in DOMAIN Recorded /\ Recorded[i] = orders[f][i]
  BY <1>1, <1>2
<1>5. Written(Recorded)
  BY <1>1, <1>2, <1>3 DEF Written
<1> QED
  BY <1>1, <1>3, <1>4, <1>5

\* So are the orders of a faction that anyone plays.
LEMMA AnyWritten ==
    ASSUME NEW w \in AnyOrders
    PROVE  Written(w)
<1> DEFINE wild == {i \in DOMAIN state.elements : plays[Of[i]] = "anyone"}
           All(r) == [wild -> UNION {AnyOrder(i, r) : i \in wild}]
<1>1. PICK r \in BOOLEAN : w \in {x \in All(r) : \A i \in wild : x[i] \in AnyOrder(i, r)}
  BY DEF AnyOrders
<1>2. DOMAIN w = wild /\ \A i \in wild : w[i] \in AnyOrder(i, r)
  BY <1>1
<1> HIDE DEF wild
<1>3. ASSUME NEW i \in wild PROVE w[i].steps \in Seq(Cells)
  <2> DEFINE at == state.elements[i].at
             to == ({Neighbor(at, d) : d \in Range(Directions)} \cap Cells) \cup {Link[g] : g \in DOMAIN Link \cap {at}}
  <2>1. to \subseteq Cells
    BY MapAssumption DEF MapIsValid
  <2>2. AnyOrder(i, r) = {Order(<<l>>, r, FALSE) : l \in to} \cup {Order(<<>>, FALSE, TRUE)}
    BY DEF AnyOrder
  <2> HIDE DEF to
  <2>3. CASE w[i] = Order(<<>>, FALSE, TRUE)
    BY <2>3 DEF Order
  <2>4. CASE \E l \in to : w[i] = Order(<<l>>, r, FALSE)
    BY <2>1, <2>4 DEF Order
  <2> QED
    BY <1>2, <2>2, <2>3, <2>4
<1> QED
  BY <1>2, <1>3 DEF Written

\* A round resolves orders that are written well.
LEMMA RoundWritten ==
    ASSUME GameInv, Resolved
    PROVE  \E o : Written(o) /\ state' \in Resolutions(state, o)
<1>1. PICK w \in AnyOrders : state' \in Resolutions(state, Over(w, Recorded))
  BY DEF Resolved
<1> DEFINE o == Over(w, Recorded)
<1>2. /\ DOMAIN o = DOMAIN w \cup DOMAIN Recorded
      /\ \A i \in DOMAIN o : o[i] = IF i \in DOMAIN w THEN w[i] ELSE Recorded[i]
  BY DEF Over
<1>3. Written(w) /\ Written(Recorded)
  BY AnyWritten, RecordedAre
<1> HIDE DEF o
<1>4. Written(o)
  BY <1>2, <1>3 DEF Written
<1> QED
  BY <1>1, <1>4 DEF o

\* Who holds an objective after a round, and what is counted.
LEMMA HolderIs ==
    ASSUME NEW s, Valid(s), NEW es, DOMAIN es \subseteq Elements, NEW o \in Objectives
    PROVE  LET t == Capture(s, es)
               taken == o \in Taking(s, es) /\ Count(s, es, o) >= 2
           IN  /\ Holder(t, o) = IF taken THEN Taker(es, o) ELSE Holder(s, o)
               /\ o \in DOMAIN t.progress <=> (o \in Taking(s, es) /\ ~taken)
               /\ o \in DOMAIN t.progress => t.progress[o].faction = Taker(es, o)
<1> DEFINE t == Capture(s, es)
           taken == o \in Taking(s, es) /\ Count(s, es, o) >= 2
<1>1. o \in Captures(s, es) <=> taken
  BY DEF Captures, CaptureRounds
<1>2. /\ t.holders = [p \in DOMAIN s.holders \cup Captures(s, es) |->
                        IF p \in Captures(s, es) THEN Taker(es, p) ELSE s.holders[p]]
      /\ t.progress = [p \in Taking(s, es) \ Captures(s, es) |->
                        [faction |-> Taker(es, p), rounds |-> Count(s, es, p)]]
  BY DEF Capture
<1> HIDE DEF t, taken
<1>3. /\ o \in DOMAIN t.holders <=> o \in DOMAIN s.holders \/ taken
      /\ o \in DOMAIN t.holders => t.holders[o] = IF taken THEN Taker(es, o) ELSE s.holders[o]
  BY <1>1, <1>2
<1>4. Holder(t, o) = IF taken THEN Taker(es, o) ELSE Holder(s, o)
  BY <1>3 DEF Holder
<1>5. /\ o \in DOMAIN t.progress <=> (o \in Taking(s, es) /\ ~taken)
      /\ o \in DOMAIN t.progress => t.progress[o].faction = Taker(es, o)
  BY <1>1, <1>2
<1> QED
  BY <1>4, <1>5 DEF t, taken

\* The objectives being taken after a round are those that it counts.
LEMMA CountedNext ==
    ASSUME NEW s, Valid(s), NEW es, DOMAIN es \subseteq Elements
    PROVE  LET t == Capture(s, es)
           IN  /\ DOMAIN t.progress = Taking(t, t.elements)
               /\ \A o \in DOMAIN t.progress : t.progress[o].faction = Taker(t.elements, o)
<1> DEFINE t == Capture(s, es)
<1>1. t.elements = es /\ DOMAIN t.progress \subseteq Objectives
  BY CaptureValid
<1>2. ASSUME NEW o \in Objectives
      PROVE  /\ o \in DOMAIN t.progress <=> o \in Taking(t, es)
             /\ o \in DOMAIN t.progress => t.progress[o].faction = Taker(es, o)
  <2> DEFINE taken == o \in Taking(s, es) /\ Count(s, es, o) >= 2
             F == FactionsAt(es, o)
             g == Taker(es, o)
             hs == Holder(s, o)
             ht == Holder(t, o)
  <2>1. /\ ht = (IF taken THEN g ELSE hs)
        /\ o \in DOMAIN t.progress <=> (o \in Taking(s, es) /\ ~taken)
        /\ o \in DOMAIN t.progress => t.progress[o].faction = g
    BY HolderIs
  <2>2. /\ o \in Taking(s, es) <=> Cardinality(F) = 1 /\ F # {hs}
        /\ o \in Taking(t, es) <=> Cardinality(F) = 1 /\ F # {ht}
    BY DEF Taking
  <2>3. Cardinality(F) = 1 => F = {g}
    BY FactionsThere
  <2> HIDE DEF t, F, g, hs, ht
  <2>4. taken => Cardinality(F) = 1
    BY <2>2
  <2> DEFINE tk == o \in Taking(s, es)
             c2 == Count(s, es, o) >= 2
  <2>5. taken = (tk /\ c2)
    OBVIOUS
  <2> HIDE DEF taken
  <2>6. CASE taken
    BY <2>1, <2>2, <2>3, <2>4, <2>6
  <2>7. CASE ~taken
    BY <2>1, <2>2, <2>7 DEF g
  <2> QED
    BY <2>6, <2>7
<1>3. Taking(t, es) \subseteq Objectives
  BY DEF Taking
<1> HIDE DEF t
<1> QED
  BY <1>1, <1>2, <1>3 DEF t

\* Exercise keeps the invariant.
LEMMA GameResolved ==
    ASSUME GameInv, Resolved
    PROVE  GameInv'
<1>1. /\ Valid(state) /\ limit \in Nat /\ round \in 0..limit /\ verdict = Judge(state, round, limit)
      /\ slips \in 0..MaxSlips
  BY DEF GameInv, ExerciseInv, ServicesInv
<1>2. PICK o : Written(o) /\ state' \in Resolutions(state, o)
  BY RoundWritten
<1>3. LET es == state.elements
          rs == state'.elements
      IN  /\ Valid(state') /\ state' = Capture(state, rs) /\ DOMAIN rs \subseteq DOMAIN es
          /\ \A i \in DOMAIN rs :
               rs[i].status = IF rs[i].at # es[i].at /\ Contested(es, es[i].at)
                                THEN "recovering"
                                ELSE IF Contested(rs, rs[i].at) THEN "engaged" ELSE "ready"
  BY <1>1, <1>2, RoundEnds
<1>4. Faced(state'.elements)
  BY <1>3 DEF Faced
<1>5. round' \in 0..limit' /\ limit' \in Nat /\ round' > 0
  <2>1. HoldersTyped(state) /\ ~verdict.over
    BY <1>1 DEF Valid, HoldersTyped, Resolved
  <2>2. round < limit
    <3> DEFINE v == Judge(state, round, limit)
    <3>1. ~v.over => round < limit
      BY <1>1, <2>1, Judged
    <3> HIDE DEF v
    <3> QED
      BY <1>1, <2>1, <3>1 DEF v
  <2> QED
    BY <1>1, <2>2 DEF Resolved
<1>6. Counted'
  <2> DEFINE es == state'.elements
  <2>1. state' = Capture(state, es) /\ DOMAIN es \subseteq Elements
    BY <1>3, ValidParts
  <2> HIDE DEF es
  <2>2. LET t == Capture(state, es)
        IN  /\ DOMAIN t.progress = Taking(t, t.elements)
            /\ \A p \in DOMAIN t.progress : t.progress[p].faction = Taker(t.elements, p)
    BY <1>1, <2>1, CountedNext
  <2>3. /\ DOMAIN state'.progress = Taking(state', state'.elements)
        /\ \A p \in DOMAIN state'.progress : state'.progress[p].faction = Taker(state'.elements, p)
    BY <2>1, <2>2
  <2>4. round' # 0
    BY <1>5
  <2> QED
    BY <2>3, <2>4 DEF Counted
<1>7. \A f \in Factions : DOMAIN alerts'[f] \subseteq Objectives
  BY DEF Resolved, Told
<1>8. verdict' = Judge(state', round', limit')
  BY DEF Resolved
<1>9. ExerciseInv'
  BY <1>3, <1>4, <1>5, <1>6, <1>7, <1>8 DEF ExerciseInv
<1>10. ServicesInv'
  <2>1. \A f \in Factions : orders'[f] = <<>>
    BY DEF Resolved, Nothing
  <2>2. turn' = "intelligence" /\ picture' = picture /\ slips' = slips
    BY DEF Resolved
  <2>3. \A f \in Factions : Assessed(picture[f])
    BY DEF GameInv, ServicesInv
  <2> QED
    BY <1>1, <2>1, <2>2, <2>3 DEF ServicesInv
<1> QED
  BY <1>9, <1>10 DEF GameInv

\* So does a step of none.
LEMMA GameStutter ==
    ASSUME GameInv, UNCHANGED vars
    PROVE  GameInv'
BY DEF GameInv, ExerciseInv, Counted, ServicesInv, Sighting, Played, vars, game

\* The invariant holds of every state.
LEMMA GameSafe == Spec => []GameInv
<1>1. GameInv /\ [Next]_vars => GameInv'
  BY GameObserved, GameDirected, GameOrdered, GameResolved, GameStutter DEF Next
<1> QED
  BY GameInit, <1>1, PTL DEF Spec

-----------------------------------------------------------------------------
(* The theorems.                                                            *)
\* Every round ends in a state that State.Validate accepts, and every service
\* knows and directs the elements there are.
THEOREM StateTyped == Spec => []TypeOK
<1>1. GameInv => TypeOK
  <2> SUFFICES ASSUME GameInv PROVE TypeOK
    OBVIOUS
  <2>1. /\ Valid(state) /\ round \in 0..limit /\ slips \in 0..MaxSlips
    BY DEF GameInv, ExerciseInv, ServicesInv
  <2>2. ASSUME NEW f \in Played
        PROVE  /\ turn # "intelligence" => picture[f].own = Observe(state, f).own
               /\ turn \in {"operations", "exercise"} => DOMAIN decided[f] = DOMAIN picture[f].own
               /\ turn = "exercise" =>
                    DOMAIN standing[f] \cup DOMAIN orders[f] \subseteq DOMAIN picture[f].own
    <3>1. f \in Factions
      BY DEF Played
    <3>2. turn # "intelligence" => Sighting(f)
      BY <3>1 DEF GameInv, ServicesInv
    <3>3. turn \in {"operations", "exercise"} => Directs(picture[f], decided[f])
      BY <3>1 DEF GameInv, ServicesInv
    <3>4. /\ turn = "exercise" => DOMAIN standing[f] \subseteq DOMAIN picture[f].own
          /\ orders[f] = <<>> \/ orders[f] = Plan(picture[f].own, standing[f])
          /\ Own(picture[f].own)
      BY <3>1 DEF GameInv, ServicesInv, Assessed
    <3>5. DOMAIN orders[f] \subseteq DOMAIN picture[f].own
      BY <3>4, NoneIn, PlanMade
    <3> QED
      BY <3>2, <3>3, <3>4, <3>5 DEF Sighting, Directs
  <2> QED
    BY <2>1, <2>2 DEF TypeOK
<1> QED
  BY <1>1, GameSafe, PTL

\* Whether an exercise is over, and who has won, follows from the state alone: it
\* goes on only before the limit with both factions alive, and is won by the
\* faction that lives on or, at the limit, holds more.
THEOREM VerdictHolds == Spec => []VerdictStands
<1>1. GameInv => VerdictStands
  <2> SUFFICES ASSUME GameInv PROVE VerdictStands
    OBVIOUS
  <2>1. /\ limit \in Nat /\ round \in 0..limit /\ verdict = Judge(state, round, limit)
        /\ HoldersTyped(state) /\ round \in Nat /\ round <= limit
    BY ValidParts DEF GameInv, ExerciseInv, HoldersTyped
  <2> DEFINE live == {f \in Factions : Alive(state, f) # {}}
             more(f) == Cardinality(Held(state, f)) > Cardinality(Held(state, Rival(f)))
             v == Judge(state, round, limit)
  <2>2. /\ ~v.over => live = Factions /\ round < limit
        /\ v.over => \A f \in Factions :
              (v.winner = f) = (f \in live /\ (live = {f} \/ more(f)))
    BY <2>1, Judged
  <2> HIDE DEF v
  <2>3. verdict = v
    BY <2>1 DEF v
  <2> QED
    BY <2>2, <2>3 DEF VerdictStands
<1> QED
  BY <1>1, GameSafe, PTL

-----------------------------------------------------------------------------
\* A cell beside another is at most one away, in its sector.
LEMMA Nearby ==
    ASSUME NEW at \in Open, NEW d \in Range(Directions), Neighbor(at, d) \in Open
    PROVE  at.sector = Neighbor(at, d).sector /\ Far(at, Neighbor(at, d)) <= 1
<1> DEFINE l == Neighbor(at, d)
<1>1. PICK x \in Int, y \in Int : x = at.x /\ y = at.y
  BY CellParts DEF Open
<1>2. \/ d = <<0, -1>> \/ d = <<1, 0>> \/ d = <<0, 1>> \/ d = <<-1, 0>>
  BY DEF Range, Directions
<1>3. PICK p \in {-1, 0, 1}, q \in {-1, 0, 1} : d = <<p, q>>
  BY <1>2
<1>4. l = [sector |-> at.sector, x |-> x + p, y |-> y + q]
  BY <1>1, <1>3 DEF Neighbor, Cell
<1>5. Abs(at.x - l.x) \in {0, 1} /\ Abs(at.y - l.y) \in {0, 1}
  <2>1. at.x - l.x = -p /\ at.y - l.y = -q
    BY <1>1, <1>4
  <2>2. Abs(-p) \in {0, 1} /\ Abs(-q) \in {0, 1}
    BY DEF Abs
  <2> QED
    BY <2>1, <2>2
<1>6. PICK u \in {0, 1}, v \in {0, 1} : u = Abs(at.x - l.x) /\ v = Abs(at.y - l.y)
  BY <1>5
<1>7. Far(at, l) = Max({u, v})
  BY <1>6 DEF Far
<1>8. Max({u, v}) <= 1
  BY MaxOfTwo
<1>9. at.sector = l.sector
  BY <1>4
<1> HIDE DEF l
<1> QED
  BY <1>7, <1>8, <1>9 DEF l

\* No two elements are sent to one target that they claim, every target is in
\* reach, and a retreat is into an empty cell: all the enemies beside an element
\* are in its sight.
THEOREM TargetsHeldApart == Spec => []TargetsApart
<1>1. GameInv => TargetsApart
  <2> SUFFICES ASSUME GameInv, turn \in {"operations", "exercise"}, NEW f \in Played
               PROVE  LET d == decided[f]
                          es == state.elements
                      IN  /\ \A i, j \in DOMAIN d :
                               (i # j /\ d[i].rule = d[j].rule /\ d[i].rule \in {"secure", "search", "rescout"})
                                  => d[i].target # d[j].target
                          /\ \A i \in DOMAIN d : d[i] # Hold => d[i].target \in DOMAIN Distances[es[i].at]
                          /\ \A i \in DOMAIN d : d[i].rule = "retreat" => At(es, d[i].target) = {}
    BY DEF TargetsApart
  <2> DEFINE d == decided[f]
             a == picture[f]
             es == state.elements
             ob == Observe(state, f)
  <2>1. f \in Factions
    BY DEF Played
  <2>2. /\ Directs(a, d) /\ Sighting(f) /\ Valid(state)
    BY <2>1 DEF GameInv, ExerciseInv, ServicesInv
  <2>3. /\ a.own = ob.own /\ a.round = round
        /\ \A c \in DOMAIN ob.contacts :
             c \in DOMAIN a.contacts /\ a.contacts[c].at = es[c].at /\ a.contacts[c].seen = round
    BY <2>2 DEF Sighting
  <2>4. /\ DOMAIN ob.own = {i \in DOMAIN es : Of[i] = f}
        /\ \A i \in DOMAIN ob.own : ob.own[i] = es[i]
        /\ DOMAIN ob.contacts = {i \in DOMAIN es : Of[i] # f /\ Sees(es, f, es[i].at)}
    BY <2>2, OwnIs
  <2>5. \A i \in DOMAIN es : i \in Elements /\ es[i].at \in Open
    BY <2>2, ValidParts
  <2>6. /\ DOMAIN d = DOMAIN a.own
        /\ \A i, j \in DOMAIN d : (i # j /\ d[i].rule = d[j].rule /\ d[i].rule \in Claims)
                                   => d[i].target # d[j].target
        /\ \A i \in DOMAIN d : d[i] # Hold => d[i].target \in DOMAIN Distances[a.own[i].at]
        /\ \A i \in DOMAIN d : d[i].rule = "retreat" => d[i].target \in RetreatCells(a, a.own[i].at)
    BY <2>2 DEF Directs
  <2> HIDE DEF d, a, es, ob
  <2>7. ASSUME NEW i \in DOMAIN d, d[i].rule = "retreat" PROVE At(es, d[i].target) = {}
    <3> DEFINE l == d[i].target
               at == es[i].at
    <3>1. i \in DOMAIN es /\ Of[i] = f /\ a.own[i].at = at /\ at \in Open
      BY <2>3, <2>4, <2>5, <2>6
    <3>2. l \in RetreatCells(a, at)
      BY <2>6, <2>7, <3>1
    <3> HIDE DEF l, at
    <3>3. l \notin Occupied(a) /\ Fresh(a, l) = {} /\ l \in Open
          /\ \E e \in Range(Directions) : l = Neighbor(at, e)
      BY <3>2 DEF RetreatCells
    <3>4. at.sector = l.sector /\ Far(at, l) <= 1 /\ Far(at, l) \in Nat
      BY <3>1, <3>3, Nearby, FarIs DEF Open
    <3>5. SeesFrom(i, at, l)
      <4>1. PICK n \in Nat : n = Far(at, l)
        BY <3>4
      <4>2. n <= Sight(KindOf[i])
        BY <3>4, <4>1 DEF Sight
      <4> QED
        BY <3>4, <4>1, <4>2 DEF SeesFrom
    <3>6. Sees(es, f, l)
      BY <3>1, <3>5 DEF Sees, at
    <3>7. ASSUME NEW c \in At(es, l) PROVE FALSE
      <4>1. c \in DOMAIN es /\ es[c].at = l
        BY DEF At
      <4>2. CASE Of[c] = f
        <5>1. c \in DOMAIN a.own /\ a.own[c].at = l
          BY <2>3, <2>4, <4>1, <4>2
        <5> QED
          BY <3>3, <5>1 DEF Occupied
      <4>3. CASE Of[c] # f
        <5>1. c \in DOMAIN ob.contacts
          BY <2>4, <3>6, <4>1, <4>3
        <5>2. c \in DOMAIN a.contacts /\ a.contacts[c].at = l /\ a.contacts[c].seen = a.round
          BY <2>3, <4>1, <5>1
        <5> QED
          BY <3>3, <5>2 DEF Fresh
      <4> QED
        BY <4>2, <4>3
    <3> QED
      BY <3>7 DEF l
  <2>8. \A i \in DOMAIN d : d[i] # Hold => d[i].target \in DOMAIN Distances[es[i].at]
    BY <2>3, <2>4, <2>6
  <2>9. \A i, j \in DOMAIN d :
           (i # j /\ d[i].rule = d[j].rule /\ d[i].rule \in {"secure", "search", "rescout"})
              => d[i].target # d[j].target
    BY <2>6 DEF Claims
  <2> QED
    BY <2>7, <2>8, <2>9 DEF d, es
<1> QED
  BY <1>1, GameSafe, PTL

\* What operations orders, exercise does not refuse: a faction's planned moves
\* end where they are ordered to, whoever else is sent back.
LEMMA PlanObeyed ==
    ASSUME GameInv, Faced(state.elements), NEW f \in Played, orders[f] # <<>>
    PROVE  \A i \in DOMAIN orders[f] :
              LET o == orders[f][i]
                  es == state.elements
              IN  /\ Ends(es, Recorded)[i] = IF o.steps = <<>> THEN es[i].at ELSE Last(o.steps)
                  /\ o.pursue => Contested(es, es[i].at)
<1> DEFINE es == state.elements
           own == picture[f].own
           plan == orders[f]
           R == Recorded
           M == {i \in DOMAIN plan : plan[i].steps # <<>>}
           Q == DOMAIN es \ M
           back == SentBack(es, R)
<1>1. /\ f \in Factions /\ Valid(state) /\ Faced(es)
      /\ plan = Plan(own, standing[f]) /\ own = Observe(state, f).own /\ Own(own)
  BY DEF GameInv, ExerciseInv, ServicesInv, Sighting, Assessed, Played
<1>2. /\ DOMAIN own = {i \in DOMAIN es : Of[i] = f}
      /\ \A i \in DOMAIN own : own[i] = es[i]
  BY <1>1, OwnIs
<1>3. IsFiniteSet(DOMAIN es) /\ \A i \in DOMAIN es : es[i].at \in Open
  BY <1>1, ValidParts
<1>4. /\ DOMAIN plan \subseteq DOMAIN own
      /\ \A i \in DOMAIN plan :
            LET o == plan[i]
            IN  /\ o.steps \in Seq(Open) /\ Trodden(own[i].at, o.steps)
                /\ Len(o.steps) <= Moves(KindOf[i])
                /\ o.steps # <<>> => \/ own[i].status = "ready"
                                     \/ own[i].status = "engaged" /\ o.retreat /\ Len(o.steps) = 1
                /\ o.pursue => own[i].status = "engaged"
      /\ \A i \in DOMAIN plan, j \in DOMAIN own :
            ( /\ i # j /\ plan[i].steps # <<>>
              /\ PlannedEnd(own, plan, j) = PlannedEnd(own, plan, i) )
            => PlannedEnd(own, plan, i) \in FightCells(own)
  <2> HIDE DEF own, plan
  <2> QED
    BY <1>1, PlanMade
<1>5. /\ \A i \in DOMAIN R : Of[i] \in Factions /\ i \in DOMAIN orders[Of[i]]
      /\ \A i \in DOMAIN plan : i \in DOMAIN R /\ R[i] = plan[i]
      /\ Written(R)
  BY <1>1, RecordedAre
<1> HIDE DEF es, own, plan, R
<1>6. ASSUME NEW i \in DOMAIN plan, plan[i].steps # <<>> PROVE Obeys(es, i, plan[i])
  <2>1. own[i] = es[i]
    BY <1>2, <1>4
  <2>2. \/ es[i].status = "ready"
        \/ es[i].status = "engaged" /\ plan[i].retreat /\ Len(plan[i].steps) = 1
    BY <1>4, <1>6, <2>1
  <2>3. es[i].status # "recovering"
    BY <2>2
  <2>4. Contested(es, es[i].at) => plan[i].retreat /\ Len(plan[i].steps) = 1
    BY <1>1, <1>2, <1>4, <2>2 DEF Faced
  <2>5. Walks(i, es[i].at, plan[i].steps)
    BY <1>4, <2>1 DEF Walks, Trodden
  <2> QED
    BY <2>3, <2>4, <2>5 DEF Obeys
<1>7. ASSUME NEW i \in DOMAIN own
      PROVE  EndOf(es, R, i) = PlannedEnd(own, plan, i)
  <2>1. own[i] = es[i] /\ Of[i] = f
    BY <1>2
  <2>2. i \in DOMAIN R <=> i \in DOMAIN plan
    BY <1>5, <2>1 DEF plan
  <2>3. CASE i \in DOMAIN plan /\ plan[i].steps # <<>>
    <3>1. EndOf(es, R, i) = Last(plan[i].steps)
      BY <1>5, <1>6, <2>3 DEF EndOf
    <3> QED
      BY <2>3, <3>1 DEF PlannedEnd, Last
  <2>4. CASE ~(i \in DOMAIN plan /\ plan[i].steps # <<>>)
    BY <1>5, <2>1, <2>2, <2>4 DEF EndOf, PlannedEnd
  <2> QED
    BY <2>3, <2>4
<1>8. ASSUME NEW b \in SUBSET Q, NEW i \in DOMAIN es, Shares(es, R, b, i) PROVE i \in Q
  <2> SUFFICES ASSUME i \in M PROVE FALSE
    OBVIOUS
  <2>1. i \in DOMAIN plan /\ plan[i].steps # <<>> /\ i \notin b /\ i \in DOMAIN own /\ Of[i] = f
    BY <1>2, <1>4
  <2>2. EndIn(es, R, b, i) = PlannedEnd(own, plan, i)
    BY <1>7, <2>1 DEF EndIn
  <2>3. /\ ~Contested(es, PlannedEnd(own, plan, i))
        /\ \E j \in DOMAIN es \ {i} : Of[j] = Of[i] /\ EndIn(es, R, b, j) = PlannedEnd(own, plan, i)
    BY <1>8, <2>2 DEF Shares
  <2>4. PICK j \in DOMAIN es \ {i} : Of[j] = Of[i] /\ EndIn(es, R, b, j) = PlannedEnd(own, plan, i)
    BY <2>3
  <2>5. j \in DOMAIN own /\ own[j] = es[j]
    BY <1>2, <2>1, <2>4
  <2>6. EndIn(es, R, b, j) = PlannedEnd(own, plan, j)
    <3>1. CASE j \in b
      <4>1. ~(j \in DOMAIN plan /\ plan[j].steps # <<>>)
        BY <3>1
      <4> QED
        BY <2>5, <3>1, <4>1 DEF EndIn, PlannedEnd
    <3>2. CASE j \notin b
      BY <1>7, <2>5, <3>2 DEF EndIn
    <3> QED
      BY <3>1, <3>2
  <2>7. PlannedEnd(own, plan, i) \in FightCells(own)
    BY <1>4, <2>1, <2>4, <2>5, <2>6
  <2>8. PICK k \in DOMAIN own : own[k].status = "engaged" /\ own[k].at = PlannedEnd(own, plan, i)
    BY <2>7 DEF FightCells
  <2>9. Contested(es, PlannedEnd(own, plan, i))
    BY <1>1, <1>2, <2>8 DEF Faced
  <2> QED
    BY <2>3, <2>9
<1>9. back \subseteq Q
  <2>1. \A P \in SUBSET DOMAIN es :
          (\A b \in SUBSET P : \A i \in DOMAIN es : Shares(es, R, b, i) => i \in P) => back \subseteq P
    BY <1>3, SentBackEnds
  <2>2. Q \in SUBSET DOMAIN es
    OBVIOUS
  <2>3. \A b \in SUBSET Q : \A i \in DOMAIN es : Shares(es, R, b, i) => i \in Q
    BY <1>8
  <2> HIDE DEF Q, back
  <2> QED
    BY <2>1, <2>2, <2>3
<1>10. ASSUME NEW i \in DOMAIN plan
       PROVE  /\ Ends(es, R)[i] = IF plan[i].steps = <<>> THEN es[i].at ELSE Last(plan[i].steps)
              /\ plan[i].pursue => Contested(es, es[i].at)
  <2>1. i \in DOMAIN own /\ i \in DOMAIN es /\ own[i] = es[i]
    BY <1>2, <1>4
  <2>2. Ends(es, R)[i] = EndIn(es, R, back, i)
    BY <2>1 DEF Ends
  <2>3. EndOf(es, R, i) = IF plan[i].steps = <<>> THEN es[i].at ELSE Last(plan[i].steps)
    BY <1>7, <2>1 DEF PlannedEnd, Last
  <2>4. plan[i].steps # <<>> => i \notin back
    BY <1>9
  <2> HIDE DEF back
  <2>5. EndIn(es, R, back, i) = IF plan[i].steps = <<>> THEN es[i].at ELSE Last(plan[i].steps)
    BY <2>3, <2>4 DEF EndIn
  <2>6. plan[i].pursue => Contested(es, es[i].at)
    BY <1>1, <1>4, <2>1 DEF Faced
  <2> QED
    BY <2>2, <2>5, <2>6
<1> QED
  BY <1>10 DEF es, plan, R

\* Operations plans no order that exercise refuses, whatever the directives it
\* plans under, from the second round on and from every start but an unfaced one.
THEOREM OrdersAreObeyed == Spec => []OrdersObeyed
<1>1. GameInv => OrdersObeyed
  <2> SUFFICES ASSUME GameInv, round > 0 \/ Faced(state.elements),
                      NEW f \in Played, NEW i \in DOMAIN orders[f]
               PROVE  LET o == orders[f][i]
                          es == state.elements
                      IN  /\ Ends(es, Recorded)[i] = IF o.steps = <<>> THEN es[i].at ELSE Last(o.steps)
                          /\ o.pursue => Contested(es, es[i].at)
    BY DEF OrdersObeyed, NeverIllegal
  <2>1. orders[f] # <<>>
    BY NoneIn
  <2>2. Faced(state.elements)
    BY DEF GameInv, ExerciseInv
  <2> QED
    BY <2>1, <2>2, PlanObeyed
<1> QED
  BY <1>1, GameSafe, PTL

-----------------------------------------------------------------------------
\* A fight holds who is in it: whoever leaves takes one step and then stays for
\* a round; and but for fights no two of a faction come to share a cell.
THEOREM FightsHeld == Spec => FightsHold
<1>1. ASSUME GameInv, Resolved
      PROVE  /\ \A i \in Survivors :
                  LET e == state.elements[i]
                      t == state'.elements[i]
                  IN  /\ (Contested(state.elements, e.at) /\ t.at # e.at) =>
                            IsStep(e.at, t.at) /\ t.status = "recovering"
                      /\ e.status = "recovering" => t.at = e.at
             /\ \A i, j \in Survivors :
                  ( /\ i # j /\ Of[i] = Of[j]
                    /\ state'.elements[i].at = state'.elements[j].at
                    /\ state.elements[i].at # state.elements[j].at )
                  => Contested(state.elements, state'.elements[i].at)
  <2> DEFINE es == state.elements
             rs == state'.elements
  <2>1. PICK o : Written(o) /\ state' \in Resolutions(state, o)
    BY <1>1, RoundWritten
  <2>2. Valid(state)
    BY <1>1 DEF GameInv, ExerciseInv
  <2>3. /\ DOMAIN rs \subseteq DOMAIN es
        /\ \A i \in DOMAIN rs :
             /\ rs[i].at = Ends(es, o)[i]
             /\ rs[i].status = IF rs[i].at # es[i].at /\ Contested(es, es[i].at)
                                 THEN "recovering"
                                 ELSE IF Contested(rs, rs[i].at) THEN "engaged" ELSE "ready"
    BY <2>1, <2>2, RoundEnds
  <2>4. IsFiniteSet(DOMAIN es) /\ \A i \in DOMAIN es : es[i].at \in Open
    BY <2>2, ValidParts
  <2>5. Survivors = DOMAIN rs
    BY <2>3 DEF Survivors
  <2> HIDE DEF es, rs
  <2> DEFINE back == SentBack(es, o)
  <2>6. \A i \in DOMAIN es : Ends(es, o)[i] = IF i \in back THEN es[i].at ELSE EndOf(es, o, i)
    BY DEF Ends, EndIn
  <2>7. \A i \in DOMAIN es : Shares(es, o, back, i) => i \in back
    BY <2>4, SentBackEnds
  <2>8. ASSUME NEW i \in DOMAIN es, EndOf(es, o, i) # es[i].at
        PROVE  /\ es[i].status # "recovering"
               /\ Contested(es, es[i].at) => IsStep(es[i].at, EndOf(es, o, i))
    <3>1. /\ i \in DOMAIN o /\ Obeys(es, i, o[i])
          /\ Len(o[i].steps) \in Nat \ {0}
          /\ EndOf(es, o, i) = o[i].steps[Len(o[i].steps)]
          /\ o[i].steps \in Seq(Cells)
      BY <2>1, <2>4, <2>8, EndsOpen DEF Written
    <3>2. es[i].status # "recovering"
      BY <3>1 DEF Obeys
    <3>3. ASSUME Contested(es, es[i].at) PROVE IsStep(es[i].at, EndOf(es, o, i))
      <4>1. Len(o[i].steps) = 1 /\ Walks(i, es[i].at, o[i].steps)
        BY <3>1, <3>3 DEF Obeys
      <4>2. 1 \in DOMAIN o[i].steps
        BY <3>1, <4>1
      <4>3. IsStep(es[i].at, o[i].steps[1])
        BY <4>1, <4>2 DEF Walks
      <4> QED
        BY <3>1, <4>1, <4>3
    <3> QED
      BY <3>2, <3>3
  <2>9. ASSUME NEW i \in Survivors
        PROVE  /\ (Contested(es, es[i].at) /\ rs[i].at # es[i].at) =>
                      IsStep(es[i].at, rs[i].at) /\ rs[i].status = "recovering"
               /\ es[i].status = "recovering" => rs[i].at = es[i].at
    <3>1. i \in DOMAIN es /\ i \in DOMAIN rs
      BY <2>3, <2>5
    <3>2. rs[i].at # es[i].at => EndOf(es, o, i) # es[i].at /\ rs[i].at = EndOf(es, o, i)
      BY <2>3, <2>6, <3>1
    <3>3. (Contested(es, es[i].at) /\ rs[i].at # es[i].at) => rs[i].status = "recovering"
      BY <2>3, <3>1
    <3> QED
      BY <2>8, <3>1, <3>2, <3>3
  <2>10. ASSUME NEW i \in Survivors, NEW j \in Survivors, i # j, Of[i] = Of[j],
                rs[i].at = rs[j].at, es[i].at # es[j].at
         PROVE  Contested(es, rs[i].at)
    <3> SUFFICES ASSUME ~Contested(es, rs[i].at) PROVE FALSE
      OBVIOUS
    <3>1. i \in DOMAIN es /\ j \in DOMAIN es /\ i \in DOMAIN rs /\ j \in DOMAIN rs
      BY <2>3, <2>5
    <3>2. EndIn(es, o, back, i) = rs[i].at /\ EndIn(es, o, back, j) = rs[i].at
      BY <2>3, <2>6, <2>10, <3>1 DEF EndIn
    <3>3. Shares(es, o, back, i) /\ Shares(es, o, back, j)
      <4> HIDE DEF back
      <4> QED
        BY <2>10, <3>1, <3>2 DEF Shares
    <3>4. i \in back /\ j \in back
      BY <2>7, <3>1, <3>3
    <3>5. rs[i].at = es[i].at /\ rs[i].at = es[j].at
      BY <3>2, <3>4 DEF EndIn
    <3> QED
      BY <2>10, <3>5
  <2> QED
    BY <2>9, <2>10 DEF es, rs
<1>2. GameInv /\ [Next]_vars =>
        [/\ \A i \in Survivors :
              LET e == state.elements[i]
                  t == state'.elements[i]
              IN  /\ (Contested(state.elements, e.at) /\ t.at # e.at) =>
                        IsStep(e.at, t.at) /\ t.status = "recovering"
                  /\ e.status = "recovering" => t.at = e.at
         /\ \A i, j \in Survivors :
              ( /\ i # j /\ Of[i] = Of[j]
                /\ state'.elements[i].at = state'.elements[j].at
                /\ state.elements[i].at # state.elements[j].at )
              => Contested(state.elements, state'.elements[i].at)]_round
  <2> SUFFICES ASSUME GameInv, [Next]_vars, round' # round PROVE Resolved
    BY <1>1
  <2> QED
    BY DEF Next, Observed, Directed, Ordered, vars, game
<1> QED
  BY <1>2, GameSafe, PTL DEF Spec, FightsHold

\* An objective changes hands exactly when a faction that does not hold it ends
\* a second round in a row alone on it.
THEOREM CapturesAreEarned == Spec => CapturesEarned
<1>1. ASSUME GameInv, Resolved, NEW p \in Objectives, NEW f \in Factions
      PROVE  (Holder(state', p) = f /\ Holder(state, p) # f) <=>
             ( /\ Holder(state, p) # f
               /\ round > 0 /\ AloneOn(state, f, p) /\ AloneOn(state', f, p) )
  <2> DEFINE es == state.elements
             rs == state'.elements
             F == FactionsAt(rs, p)
             g == Taker(rs, p)
             E == FactionsAt(es, p)
             e == Taker(es, p)
             hs == Holder(state, p)
             ht == Holder(state', p)
             n == Count(state, rs, p)
  <2>1. Valid(state) /\ Counted /\ round \in Nat
    BY <1>1 DEF GameInv, ExerciseInv
  <2>2. state' = Capture(state, rs) /\ DOMAIN rs \subseteq DOMAIN es
    <3>1. PICK o : Written(o) /\ state' \in Resolutions(state, o)
      BY <1>1, RoundWritten
    <3> QED
      BY <2>1, <3>1, RoundEnds
  <2>3. DOMAIN es \subseteq Elements /\ DOMAIN rs \subseteq Elements
        /\ (p \in DOMAIN state.progress => state.progress[p].faction \in Factions /\ state.progress[p].rounds = 1)
    BY <2>1, <2>2, ValidParts
  <2>4. /\ Cardinality(F) = 1 => F = {g}
        /\ F = {f} => Cardinality(F) = 1 /\ g = f
    <3> HIDE DEF rs
    <3> QED
      BY <2>3, FactionsThere
  <2>5. /\ Cardinality(E) = 1 => E = {e}
        /\ E = {f} => Cardinality(E) = 1 /\ e = f
    <3> HIDE DEF es
    <3> QED
      BY <2>3, FactionsThere
  <2>6. ht = IF p \in Taking(state, rs) /\ n >= 2 THEN g ELSE hs
    <3>1. LET t == Capture(state, rs)
              taken == p \in Taking(state, rs) /\ Count(state, rs, p) >= 2
          IN  Holder(t, p) = IF taken THEN Taker(rs, p) ELSE Holder(state, p)
      <4> HIDE DEF rs
      <4> QED
        BY <2>1, <2>3, HolderIs
    <3>2. Holder(Capture(state, rs), p) = Holder(state', p)
      BY <2>2
    <3> QED
      BY <3>1, <3>2
  <2>7. /\ p \in Taking(state, rs) <=> Cardinality(F) = 1 /\ F # {hs}
        /\ p \in Taking(state, es) <=> Cardinality(E) = 1 /\ E # {hs}
    BY DEF Taking
  <2>8. n = 1 + (IF p \in DOMAIN state.progress /\ state.progress[p].faction = g
                   THEN state.progress[p].rounds ELSE 0)
    BY DEF Count
  <2>9. n >= 2 <=> p \in DOMAIN state.progress /\ state.progress[p].faction = g
    <3> HIDE DEF n, g, rs
    <3> QED
      BY <2>3, <2>8
  <2>10. (p \in DOMAIN state.progress) <=> (round > 0 /\ p \in Taking(state, es))
    BY <2>1 DEF Counted
  <2>11. p \in DOMAIN state.progress => state.progress[p].faction = e
    BY <2>1 DEF Counted
  <2>12. AloneOn(state, f, p) <=> E = {f}
    BY DEF AloneOn
  <2>13. AloneOn(state', f, p) <=> F = {f}
    BY DEF AloneOn
  <2> DEFINE inP == p \in DOMAIN state.progress
             fac == state.progress[p].faction
             tr == p \in Taking(state, rs)
             te == p \in Taking(state, es)
  <2>14. n >= 2 <=> inP /\ fac = g
    BY <2>9
  <2> HIDE DEF es, rs, F, g, E, e, hs, ht, n, inP, fac, tr, te
  <2>15. (ht = f /\ hs # f) <=> (hs # f /\ round > 0 /\ E = {f} /\ F = {f})
    <3>1. ht = IF tr /\ n >= 2 THEN g ELSE hs
      BY <2>6 DEF tr
    <3>2. tr <=> Cardinality(F) = 1 /\ F # {hs}
      BY <2>7 DEF tr
    <3>3. te <=> Cardinality(E) = 1 /\ E # {hs}
      BY <2>7 DEF te
    <3>4. inP <=> (round > 0 /\ te)
      BY <2>10 DEF inP, te
    <3>5. inP => fac = e
      BY <2>11 DEF inP, fac
    <3>6. ASSUME ht = f, hs # f PROVE round > 0 /\ E = {f} /\ F = {f}
      <4>1. tr /\ n >= 2 /\ g = f
        BY <3>1, <3>6
      <4>2. F = {f}
        BY <2>4, <3>2, <4>1
      <4>3. inP /\ fac = f
        BY <2>14, <4>1
      <4>4. e = f /\ te /\ round > 0
        BY <3>4, <3>5, <4>3
      <4>5. E = {f}
        BY <2>5, <3>3, <4>4
      <4> QED
        BY <4>2, <4>4, <4>5
    <3>7. ASSUME hs # f, round > 0, E = {f}, F = {f} PROVE ht = f
      <4>1. te /\ tr
        BY <2>4, <2>5, <3>2, <3>3, <3>7
      <4>2. inP /\ fac = f /\ g = f
        BY <2>4, <2>5, <3>4, <3>5, <3>7, <4>1
      <4> QED
        BY <2>14, <3>1, <4>1, <4>2
    <3> QED
      BY <3>6, <3>7
  <2> QED
    BY <2>12, <2>13, <2>15 DEF ht, hs
<1>2. GameInv /\ [Next]_vars =>
        [\A o \in Objectives, f \in Factions :
            (Holder(state', o) = f /\ Holder(state, o) # f) =
            ( /\ Holder(state, o) # f
              /\ round > 0 /\ AloneOn(state, f, o) /\ AloneOn(state', f, o) )]_round
  <2>1. ASSUME GameInv, Resolved, NEW o \in Objectives, NEW f \in Factions
        PROVE  (Holder(state', o) = f /\ Holder(state, o) # f) =
               ( /\ Holder(state, o) # f
                 /\ round > 0 /\ AloneOn(state, f, o) /\ AloneOn(state', f, o) )
    BY <1>1, <2>1
  <2>2. ASSUME GameInv, [Next]_vars, round' # round PROVE Resolved
    BY <2>2 DEF Next, Observed, Directed, Ordered, vars, game
  <2> QED
    BY <2>1, <2>2
<1> QED
  BY <1>2, GameSafe, PTL DEF Spec, CapturesEarned

=============================================================================
