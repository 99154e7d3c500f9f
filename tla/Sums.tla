-------------------------------- MODULE Sums --------------------------------
(***************************************************************************)
(* Facts about SumFunctionOnSet, the sum of a function over a finite set   *)
(* of indices, which the ledger of EconomyManager and the places of        *)
(* WorkerManager are stated with, and about folds in a given order, such   *)
(* as those of the gathering orders. Both are recursive functions over the *)
(* subsets; they are shown to exist and to be unique, and the sum not to   *)
(* depend on the order in which it takes the elements.                     *)
(* Every induction over the finite sets is made by looking at a smallest   *)
(* set for which a claim fails.                                            *)
(***************************************************************************)
EXTENDS Integers, FiniteSets, Functions, FiniteSetTheorems, WellFoundedInduction, TLAPS

First(S) == CHOOSE x \in S : TRUE

\* g is the recursive function behind the sum of f over S.
IsSum(g, f, S) ==
  g = [T \in SUBSET S |-> IF T = {} THEN 0 ELSE f[First(T)] + g[T \ {First(T)}]]

LEMMA FirstIn ==
  ASSUME NEW S, S # {}
  PROVE  First(S) \in S
BY DEF First

LEMMA SumIsFunction ==
  ASSUME NEW f, NEW S
  PROVE  SumFunctionOnSet(f, S) = (CHOOSE g : IsSum(g, f, S))[S]
BY Zenon DEF SumFunctionOnSet, FoldFunctionOnSet, MapThenFoldSet, IsSum, First

\* A family of subsets has a smallest member.
LEMMA Smallest ==
  ASSUME NEW S, IsFiniteSet(S), NEW W \in SUBSET (SUBSET S), W # {}
  PROVE  \E T \in W : \A U \in W : U \subseteq T => U = T
<1>1. IsWellFoundedOn(StrictSubsetOrdering(S), SUBSET S)
  BY FS_StrictSubsetOrderingWellFounded, FS_FiniteSubsetsOfFinite
<1>2. \E T \in W : \A U \in W : ~ (<<U, T>> \in StrictSubsetOrdering(S))
  BY <1>1, WFMin, Zenon
<1>3. PICK T \in W : \A U \in W : ~ (<<U, T>> \in StrictSubsetOrdering(S))
  BY <1>2
<1>4. ASSUME NEW U \in W, U \subseteq T
      PROVE  U = T
  BY <1>3, <1>4 DEF StrictSubsetOrdering
<1> QED BY <1>4

LEMMA SumUnique ==
  ASSUME NEW f, NEW S, IsFiniteSet(S), NEW g, NEW h, IsSum(g, f, S), IsSum(h, f, S)
  PROVE  g = h
<1> DEFINE W == {T \in SUBSET S : g[T] # h[T]}
<1>1. ASSUME NEW T \in W, \A U \in W : U \subseteq T => U = T
      PROVE  FALSE
  <2>1. T # {}
    BY DEF IsSum
  <2>2. First(T) \in T
    BY <2>1, FirstIn
  <2>3. T \ {First(T)} \notin W
    BY <1>1, <2>2
  <2>4. g[T \ {First(T)}] = h[T \ {First(T)}]
    BY <2>3
  <2> QED BY <2>1, <2>4 DEF IsSum
<1>2. W \in SUBSET (SUBSET S)
  OBVIOUS
<1> HIDE DEF W
<1>3. W = {}
  BY <1>1, <1>2, Smallest
<1> QED BY <1>3 DEF IsSum, W

\* A sum over S holds the sums over the subsets, also of a function that agrees there.
LEMMA SumRestrict ==
  ASSUME NEW f, NEW e, NEW S, NEW T \in SUBSET S, \A x \in T : f[x] = e[x],
         NEW g, IsSum(g, f, S)
  PROVE  IsSum(Restrict(g, SUBSET T), e, T)
<1> DEFINE h == Restrict(g, SUBSET T)
<1>1. h = [U \in SUBSET T |-> g[U]]
  BY DEF Restrict
<1> HIDE DEF h
<1>2. ASSUME NEW U \in SUBSET T
      PROVE  h[U] = IF U = {} THEN 0 ELSE e[First(U)] + h[U \ {First(U)}]
  <2>1. CASE U = {}
    BY <1>1, <2>1 DEF IsSum
  <2>2. CASE U # {}
    <3>1. First(U) \in T /\ U \ {First(U)} \in SUBSET T
      BY <2>2, FirstIn
    <3>2. g[U] = f[First(U)] + g[U \ {First(U)}]
      BY <2>2 DEF IsSum
    <3> QED BY <1>1, <2>2, <3>1, <3>2
  <2> QED BY <2>1, <2>2
<1>3. h = [U \in SUBSET T |-> h[U]]
  BY <1>1
<1>4. IsSum(h, e, T)
  BY <1>2, <1>3 DEF IsSum
<1> QED BY <1>4 DEF h

LEMMA SumExists ==
  ASSUME NEW f, NEW S, IsFiniteSet(S)
  PROVE  \E g : IsSum(g, f, S)
<1> DEFINE G(T) == CHOOSE g : IsSum(g, f, T)
           W    == {T \in SUBSET S : ~ \E g : IsSum(g, f, T)}
<1>1. ASSUME NEW T \in W, \A U \in W : U \subseteq T => U = T
      PROVE  FALSE
  <2> DEFINE Known(U) == G(U)[U]
             h == [U \in SUBSET T |-> IF U = {} THEN 0
                     ELSE f[First(U)] + Known(U \ {First(U)})]
  <2>1. ASSUME NEW U \in SUBSET T, U # T
        PROVE  IsSum(G(U), f, U)
    BY <1>1, <2>1
  <2>2. ASSUME NEW U \in SUBSET T, U # T
        PROVE  h[U] = Known(U)
    <3>1. IsSum(G(U), f, U)
      BY <2>1, <2>2
    <3>2. CASE U = {}
      BY <3>1, <3>2 DEF IsSum
    <3>3. CASE U # {}
      <4> DEFINE V == U \ {First(U)}
      <4>1. V \in SUBSET U /\ V \in SUBSET T /\ V # T /\ V \in SUBSET S
        BY <3>3, FirstIn
      <4> HIDE DEF V, G
      <4>2. IsSum(Restrict(G(U), SUBSET V), f, V)
        BY <3>1, <4>1, SumRestrict
      <4>3. IsSum(G(V), f, V)
        BY <2>1, <4>1 DEF G
      <4>4. IsFiniteSet(V)
        BY <4>1, FS_Subset
      <4>5. Restrict(G(U), SUBSET V) = G(V)
        BY <4>2, <4>3, <4>4, SumUnique
      <4>6. G(U)[V] = Known(V)
        BY <4>5 DEF Restrict
      <4>7. G(U)[U] = f[First(U)] + G(U)[V]
        BY <3>1, <3>3 DEF IsSum, V
      <4> QED BY <3>3, <4>6, <4>7 DEF V
    <3> QED BY <3>2, <3>3
  <2>3. ASSUME NEW U \in SUBSET T
        PROVE  h[U] = IF U = {} THEN 0 ELSE f[First(U)] + h[U \ {First(U)}]
    <3>1. CASE U = {}
      BY <3>1
    <3>2. CASE U # {}
      <4>1. U \ {First(U)} \in SUBSET T /\ U \ {First(U)} # T
        BY <3>2, FirstIn
      <4>2. h[U \ {First(U)}] = Known(U \ {First(U)})
        BY <2>2, <4>1
      <4>3. h[U] = f[First(U)] + Known(U \ {First(U)})
        BY <3>2
      <4> QED BY <3>2, <4>2, <4>3
    <3> QED BY <3>1, <3>2
  <2>4. h = [U \in SUBSET T |-> h[U]]
    OBVIOUS
  <2>5. IsSum(h, f, T)
    <3> HIDE DEF h
    <3> QED BY <2>3, <2>4 DEF IsSum
  <2> QED BY <1>1, <2>5
<1>2. W \in SUBSET (SUBSET S)
  OBVIOUS
<1> HIDE DEF W
<1>3. W = {}
  BY <1>1, <1>2, Smallest
<1> QED BY <1>3 DEF W

-----------------------------------------------------------------------------
\* The function chosen for S is a sum, and the only one.
LEMMA SumChosen ==
  ASSUME NEW f, NEW S, IsFiniteSet(S)
  PROVE  IsSum(CHOOSE g : IsSum(g, f, S), f, S)
BY SumExists, Zenon

LEMMA SumEmpty ==
  ASSUME NEW f
  PROVE  SumFunctionOnSet(f, {}) = 0
BY SumIsFunction, SumChosen, FS_EmptySet DEF IsSum

\* Only the values on the indices count.
LEMMA SumSame ==
  ASSUME NEW f, NEW e, NEW S, IsFiniteSet(S), \A x \in S : f[x] = e[x]
  PROVE  SumFunctionOnSet(f, S) = SumFunctionOnSet(e, S)
<1> DEFINE g == CHOOSE g : IsSum(g, f, S)
           h == CHOOSE h : IsSum(h, e, S)
<1>1. IsSum(g, f, S) /\ IsSum(h, e, S)
  BY SumChosen
<1> HIDE DEF g, h
<1>2. IsSum(Restrict(g, SUBSET S), e, S)
  BY <1>1, SumRestrict
<1>3. Restrict(g, SUBSET S) = h
  BY <1>1, <1>2, SumUnique
<1>4. g[S] = h[S]
  BY <1>3 DEF Restrict
<1> QED BY <1>4, SumIsFunction DEF g, h

\* The first step of the recursion.
LEMMA SumFirst ==
  ASSUME NEW f, NEW S, IsFiniteSet(S), S # {}
  PROVE  SumFunctionOnSet(f, S) = f[First(S)] + SumFunctionOnSet(f, S \ {First(S)})
<1> DEFINE V == S \ {First(S)}
           g == CHOOSE g : IsSum(g, f, S)
           h == CHOOSE h : IsSum(h, f, V)
<1>1. IsFiniteSet(V)
  BY FS_Subset
<1>2. V \in SUBSET S
  OBVIOUS
<1> HIDE DEF V
<1>3. IsSum(g, f, S) /\ IsSum(h, f, V)
  BY <1>1, SumChosen
<1> HIDE DEF g, h
<1>4. IsSum(Restrict(g, SUBSET V), f, V)
  BY <1>2, <1>3, SumRestrict
<1>5. Restrict(g, SUBSET V) = h
  BY <1>1, <1>3, <1>4, SumUnique
<1>6. g[V] = h[V]
  BY <1>5 DEF Restrict
<1>7. g[S] = f[First(S)] + g[V]
  BY <1>3 DEF IsSum, V
<1>8. SumFunctionOnSet(f, S) = g[S] /\ SumFunctionOnSet(f, V) = h[V]
  BY SumIsFunction DEF g, h
<1> QED BY <1>6, <1>7, <1>8 DEF V

\* A sum of integers is one.
LEMMA SumInt ==
  ASSUME NEW f, NEW S, IsFiniteSet(S), \A x \in S : f[x] \in Int
  PROVE  SumFunctionOnSet(f, S) \in Int
<1> DEFINE W == {T \in SUBSET S : SumFunctionOnSet(f, T) \notin Int}
<1>1. ASSUME NEW T \in W, \A U \in W : U \subseteq T => U = T
      PROVE  FALSE
  <2>1. IsFiniteSet(T)
    BY FS_Subset
  <2>2. T # {}
    BY SumEmpty
  <2>3. First(T) \in T
    BY <2>2, FirstIn
  <2>4. SumFunctionOnSet(f, T \ {First(T)}) \in Int
    BY <1>1, <2>3
  <2>5. f[First(T)] \in Int
    BY <2>3
  <2> QED BY <2>1, <2>2, <2>4, <2>5, SumFirst
<1>2. W \in SUBSET (SUBSET S)
  OBVIOUS
<1> HIDE DEF W
<1>3. W = {}
  BY <1>1, <1>2, Smallest
<1> QED BY <1>3 DEF W

\* Any element may be taken out first.
LEMMA SumRemove ==
  ASSUME NEW f, NEW S, IsFiniteSet(S), \A x \in S : f[x] \in Int, NEW i \in S
  PROVE  SumFunctionOnSet(f, S) = f[i] + SumFunctionOnSet(f, S \ {i})
<1> DEFINE Sum(T) == SumFunctionOnSet(f, T)
           W == {T \in SUBSET S : \E j \in T : Sum(T) # f[j] + Sum(T \ {j})}
<1>1. ASSUME NEW T \in W, \A U \in W : U \subseteq T => U = T
      PROVE  FALSE
  <2>1. PICK j \in T : Sum(T) # f[j] + Sum(T \ {j})
    OBVIOUS
  <2> DEFINE x == First(T)
             Y == T \ {x, j}
  <2>2. x \in T
    BY FirstIn
  <2>3. IsFiniteSet(T) /\ IsFiniteSet(Y)
    BY FS_Subset
  <2>4. Sum(T) = f[x] + Sum(T \ {x})
    BY <2>2, <2>3, SumFirst
  <2>5. x # j
    BY <2>1, <2>4
  <2>6. Sum(T \ {x}) = f[j] + Sum(Y)
    <3>1. T \ {x} \notin W
      BY <1>1, <2>2
    <3>2. j \in T \ {x} /\ (T \ {x}) \ {j} = Y
      BY <2>5
    <3> QED BY <3>1, <3>2
  <2>7. Sum(T \ {j}) = f[x] + Sum(Y)
    <3>1. T \ {j} \notin W
      BY <1>1
    <3>2. x \in T \ {j} /\ (T \ {j}) \ {x} = Y
      BY <2>2, <2>5
    <3> QED BY <3>1, <3>2
  <2>8. f[x] \in Int /\ f[j] \in Int /\ Sum(Y) \in Int
    <3>1. \A k \in Y : f[k] \in Int
      OBVIOUS
    <3>2. Sum(Y) \in Int
      BY <2>3, <3>1, SumInt
    <3> QED BY <2>2, <3>2
  <2> QED BY <2>1, <2>4, <2>6, <2>7, <2>8
<1>2. W \in SUBSET (SUBSET S)
  OBVIOUS
<1> HIDE DEF W
<1>3. W = {}
  BY <1>1, <1>2, Smallest
<1> QED BY <1>3 DEF W

\* A sum of positive numbers is zero only when there is none.
LEMMA SumPositive ==
  ASSUME NEW f, NEW S, IsFiniteSet(S), \A x \in S : f[x] \in Nat \ {0}
  PROVE  SumFunctionOnSet(f, S) \in Nat /\ (SumFunctionOnSet(f, S) = 0 <=> S = {})
<1> DEFINE Sum(T) == SumFunctionOnSet(f, T)
           Fine(T) == Sum(T) \in Nat /\ (Sum(T) = 0 <=> T = {})
           W == {T \in SUBSET S : ~Fine(T)}
<1>1. ASSUME NEW T \in W, \A U \in W : U \subseteq T => U = T
      PROVE  FALSE
  <2>1. CASE T = {}
    BY <2>1, SumEmpty
  <2>2. CASE T # {}
    <3>1. PICK x \in T : TRUE
      BY <2>2
    <3>2. IsFiniteSet(T)
      BY FS_Subset
    <3>3. T \ {x} \notin W
      BY <1>1, <3>1
    <3>4. Sum(T \ {x}) \in Nat
      BY <3>3
    <3>5. Sum(T) = f[x] + Sum(T \ {x})
      BY <3>1, <3>2, SumRemove
    <3>6. f[x] \in Nat \ {0}
      BY <3>1
    <3> HIDE DEF Sum
    <3> QED BY <2>2, <3>4, <3>5, <3>6
  <2> QED BY <2>1, <2>2
<1>2. W \in SUBSET (SUBSET S)
  OBVIOUS
<1> HIDE DEF W
<1>3. W = {}
  BY <1>1, <1>2, Smallest
<1> HIDE DEF Fine
<1>4. Fine(S)
  BY <1>3 DEF W
<1> QED BY <1>4 DEF Fine

\* The sum goes down by one when one value does, and is left out when it was the last.
LEMMA SumOneLess ==
  ASSUME NEW f, NEW S, IsFiniteSet(S), \A x \in S : f[x] \in Int, NEW i \in S,
         NEW e, NEW T, T = IF f[i] = 1 THEN S \ {i} ELSE S,
         \A x \in T : e[x] = IF x = i THEN f[x] - 1 ELSE f[x]
  PROVE  SumFunctionOnSet(e, T) = SumFunctionOnSet(f, S) - 1
<1> DEFINE rest == SumFunctionOnSet(f, S \ {i})
<1>1. IsFiniteSet(S \ {i}) /\ IsFiniteSet(T)
  BY FS_Subset
<1>2. SumFunctionOnSet(f, S) = f[i] + rest
  BY SumRemove
<1>3. rest \in Int /\ f[i] \in Int
  BY <1>1, SumInt
<1>4. SumFunctionOnSet(e, S \ {i}) = rest
  <2>1. \A x \in S \ {i} : e[x] = f[x]
    OBVIOUS
  <2> QED BY <1>1, <2>1, SumSame
<1> HIDE DEF rest
<1>5. CASE f[i] = 1
  <2>1. T = S \ {i}
    BY <1>5
  <2> QED BY <1>2, <1>3, <1>4, <1>5, <2>1
<1>6. CASE f[i] # 1
  <2>1. T = S
    BY <1>6
  <2>2. \A x \in T : e[x] \in Int
    OBVIOUS
  <2>3. SumFunctionOnSet(e, T) = e[i] + SumFunctionOnSet(e, T \ {i})
    BY <1>1, <2>1, <2>2, SumRemove
  <2>4. e[i] = f[i] - 1
    BY <2>1
  <2>5. SumFunctionOnSet(e, T \ {i}) = rest
    BY <1>4, <2>1
  <2> QED BY <1>2, <1>3, <2>3, <2>4, <2>5
<1> QED BY <1>5, <1>6

-----------------------------------------------------------------------------
(* Folds over a finite set whose elements are taken in an order: c[T] is   *)
(* the element of T that is taken last, F the step.                        *)
IsFold(g, F, c, base, S) ==
  g = [T \in SUBSET S |-> IF T = {} THEN base ELSE F[<<c[T], g[T \ {c[T]}]>>]]

Picks(c, S) == \A T \in SUBSET S : T # {} => c[T] \in T

Steps(F, S, D) == F \in [S \X D -> D]

OnSubsets(g, S) == g = [T \in SUBSET S |-> g[T]]

\* Where g and h agree before the last element, they agree.
MadeAlike(g, h, c, S) ==
  \A T \in SUBSET S : T = {} \/ g[T \ {c[T]}] = h[T \ {c[T]}] => g[T] = h[T]

LEMMA FoldUnique ==
  ASSUME NEW S, IsFiniteSet(S), NEW F, NEW c, Picks(c, S), NEW base, NEW g, NEW h,
         IsFold(g, F, c, base, S), IsFold(h, F, c, base, S)
  PROVE  g = h
<1> DEFINE W == {T \in SUBSET S : g[T] # h[T]}
<1>1. ASSUME NEW T \in W, \A U \in W : U \subseteq T => U = T
      PROVE  FALSE
  <2>1. T # {}
    BY DEF IsFold
  <2>2. c[T] \in T
    BY <2>1 DEF Picks
  <2>3. g[T \ {c[T]}] = h[T \ {c[T]}]
    BY <1>1, <2>2
  <2> QED BY <2>1, <2>3 DEF IsFold
<1>2. W \in SUBSET (SUBSET S)
  OBVIOUS
<1> HIDE DEF W
<1>3. W = {}
  BY <1>1, <1>2, Smallest
<1> QED BY <1>3 DEF IsFold, W

\* A fold over S holds the folds over the subsets.
LEMMA FoldRestrict ==
  ASSUME NEW S, NEW F, NEW c, Picks(c, S), NEW base, NEW T \in SUBSET S,
         NEW g, IsFold(g, F, c, base, S)
  PROVE  IsFold(Restrict(g, SUBSET T), F, c, base, T)
<1> DEFINE h == Restrict(g, SUBSET T)
<1>1. h = [U \in SUBSET T |-> g[U]]
  BY DEF Restrict
<1> HIDE DEF h
<1>2. ASSUME NEW U \in SUBSET T
      PROVE  h[U] = IF U = {} THEN base ELSE F[<<c[U], h[U \ {c[U]}]>>]
  <2>1. U \ {c[U]} \in SUBSET T
    OBVIOUS
  <2> QED BY <1>1, <2>1 DEF IsFold
<1>3. h = [U \in SUBSET T |-> h[U]]
  BY <1>1
<1>4. IsFold(h, F, c, base, T)
  BY <1>2, <1>3 DEF IsFold
<1> QED BY <1>4 DEF h

LEMMA FoldExists ==
  ASSUME NEW S, IsFiniteSet(S), NEW F, NEW c, Picks(c, S), NEW base
  PROVE  \E g : IsFold(g, F, c, base, S)
<1> DEFINE G(T) == CHOOSE g : IsFold(g, F, c, base, T)
           W    == {T \in SUBSET S : ~ \E g : IsFold(g, F, c, base, T)}
<1>1. ASSUME NEW T \in W, \A U \in W : U \subseteq T => U = T
      PROVE  FALSE
  <2> DEFINE Known(U) == G(U)[U]
             h == [U \in SUBSET T |-> IF U = {} THEN base ELSE F[<<c[U], Known(U \ {c[U]})>>]]
  <2>1. ASSUME NEW U \in SUBSET T, U # T
        PROVE  IsFold(G(U), F, c, base, U)
    BY <1>1, <2>1
  <2>2. ASSUME NEW U \in SUBSET T, U # T
        PROVE  h[U] = Known(U)
    <3>1. IsFold(G(U), F, c, base, U)
      BY <2>1, <2>2
    <3>2. CASE U = {}
      BY <3>1, <3>2 DEF IsFold
    <3>3. CASE U # {}
      <4> DEFINE V == U \ {c[U]}
      <4>1. V \in SUBSET U /\ V \in SUBSET T /\ V # T /\ V \in SUBSET S
        BY <3>3 DEF Picks
      <4>2. Picks(c, U) /\ Picks(c, V)
        BY DEF Picks
      <4> HIDE DEF V, G
      <4>3. IsFold(Restrict(G(U), SUBSET V), F, c, base, V)
        BY <3>1, <4>1, <4>2, FoldRestrict
      <4>4. IsFold(G(V), F, c, base, V)
        BY <2>1, <4>1 DEF G
      <4>5. IsFiniteSet(V)
        BY <4>1, FS_Subset
      <4>6. Restrict(G(U), SUBSET V) = G(V)
        BY <4>2, <4>3, <4>4, <4>5, FoldUnique
      <4>7. G(U)[V] = Known(V)
        BY <4>6 DEF Restrict
      <4>8. G(U)[U] = F[<<c[U], G(U)[V]>>]
        BY <3>1, <3>3 DEF IsFold, V
      <4> QED BY <3>3, <4>7, <4>8 DEF V
    <3> QED BY <3>2, <3>3
  <2>3. ASSUME NEW U \in SUBSET T
        PROVE  h[U] = IF U = {} THEN base ELSE F[<<c[U], h[U \ {c[U]}]>>]
    <3>1. CASE U = {}
      BY <3>1
    <3>2. CASE U # {}
      <4>1. U \ {c[U]} \in SUBSET T /\ U \ {c[U]} # T
        BY <3>2 DEF Picks
      <4>2. h[U \ {c[U]}] = Known(U \ {c[U]})
        BY <2>2, <4>1
      <4>3. h[U] = F[<<c[U], Known(U \ {c[U]})>>]
        BY <3>2
      <4> QED BY <3>2, <4>2, <4>3
    <3> QED BY <3>1, <3>2
  <2>4. h = [U \in SUBSET T |-> h[U]]
    OBVIOUS
  <2>5. IsFold(h, F, c, base, T)
    <3> HIDE DEF h
    <3> QED BY <2>3, <2>4 DEF IsFold
  <2> QED BY <1>1, <2>5
<1>2. W \in SUBSET (SUBSET S)
  OBVIOUS
<1> HIDE DEF W
<1>3. W = {}
  BY <1>1, <1>2, Smallest
<1> QED BY <1>3 DEF W

\* When the step stays in D, so does the fold.
LEMMA FoldIn ==
  ASSUME NEW S, IsFiniteSet(S), NEW D, NEW base \in D, NEW F, Steps(F, S, D),
         NEW c, Picks(c, S), NEW g, IsFold(g, F, c, base, S)
  PROVE  \A T \in SUBSET S : g[T] \in D
<1> DEFINE W == {T \in SUBSET S : g[T] \notin D}
<1>1. ASSUME NEW T \in W, \A U \in W : U \subseteq T => U = T
      PROVE  FALSE
  <2>1. T # {}
    BY DEF IsFold
  <2>2. c[T] \in T /\ c[T] \in S
    BY <2>1 DEF Picks
  <2>3. g[T \ {c[T]}] \in D
    BY <1>1, <2>2
  <2>4. F[<<c[T], g[T \ {c[T]}]>>] \in D
    BY <2>2, <2>3 DEF Steps
  <2> QED BY <2>1, <2>4 DEF IsFold
<1>2. W \in SUBSET (SUBSET S)
  OBVIOUS
<1> HIDE DEF W
<1>3. W = {}
  BY <1>1, <1>2, Smallest
<1> QED BY <1>3 DEF W

\* A fold exists, and its values stay in D.
LEMMA FoldMade ==
  ASSUME NEW S, IsFiniteSet(S), NEW D, NEW base \in D, NEW F, Steps(F, S, D), NEW c, Picks(c, S)
  PROVE  \E g : IsFold(g, F, c, base, S) /\ g \in [SUBSET S -> D]
<1>1. PICK g : IsFold(g, F, c, base, S)
  BY FoldExists
<1>2. \A T \in SUBSET S : g[T] \in D
  BY <1>1, FoldIn
<1>3. g \in [SUBSET S -> D]
  BY <1>1, <1>2 DEF IsFold
<1> QED BY <1>1, <1>3

\* Two functions that are made alike from the one before are the same.
LEMMA FoldSame ==
  ASSUME NEW S, IsFiniteSet(S), NEW c, Picks(c, S), NEW g, NEW h,
         OnSubsets(g, S), OnSubsets(h, S), MadeAlike(g, h, c, S)
  PROVE  g = h
<1> DEFINE W == {T \in SUBSET S : g[T] # h[T]}
<1>1. ASSUME NEW T \in W, \A U \in W : U \subseteq T => U = T
      PROVE  FALSE
  <2>1. T # {}
    BY DEF MadeAlike
  <2>2. c[T] \in T
    BY <2>1 DEF Picks
  <2>3. g[T \ {c[T]}] = h[T \ {c[T]}]
    BY <1>1, <2>2
  <2> QED BY <2>1, <2>3 DEF MadeAlike
<1>2. W \in SUBSET (SUBSET S)
  OBVIOUS
<1> HIDE DEF W
<1>3. W = {}
  BY <1>1, <1>2, Smallest
<1>4. \A T \in SUBSET S : g[T] = h[T]
  BY <1>3 DEF W
<1> QED BY <1>4 DEF OnSubsets
=============================================================================
