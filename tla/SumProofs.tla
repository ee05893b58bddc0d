------------------------------ MODULE SumProofs ------------------------------
(***************************************************************************)
(* Sums over finite sets: what SumFunctionOnSet, which adds the amounts of *)
(* an order (PaymentService.handleCassoWebhook) and the revenue of a month *)
(* (the dashboards), yields for any function and any finite set.           *)
(***************************************************************************)
EXTENDS FiniteSetsExt, FiniteSetTheorems, TLAPS

\* Induction over the subsets of a finite set: G is the set of those of which
\* the claim holds.
LEMMA SubsetInduction ==
  ASSUME NEW S, IsFiniteSet(S), NEW G,
         \A T \in SUBSET S : (\A U \in SUBSET T : U # T => U \in G) => T \in G
  PROVE  S \in G
  <1> DEFINE F == {T \in SUBSET S : T \notin G}
  <1> SUFFICES ASSUME F # {} PROVE FALSE
    OBVIOUS
  <1>1. IsWellFoundedOn(StrictSubsetOrdering(S), FiniteSubsetsOf(S))
    BY FS_StrictSubsetOrderingWellFounded
  <1>2. F \subseteq SUBSET S /\ FiniteSubsetsOf(S) = SUBSET S
    BY FS_FiniteSubsetsOfFinite
  <1>3. \E T \in F : \A U \in F : ~ (<<U, T>> \in StrictSubsetOrdering(S))
    <2> HIDE DEF F
    <2> QED BY <1>1, <1>2, WFMin
  <1> QED BY <1>3 DEF StrictSubsetOrdering
-----------------------------------------------------------------------------
(* The fold is what its equation says.                                     *)

\* The element the fold takes from a set next.
Picked(T) == CHOOSE x \in T : TRUE

\* g holds the sums of f over all the subsets of S.
Sums(f, S, g) ==
  g = [T \in SUBSET S |-> IF T = {} THEN 0 ELSE f[Picked(T)] + g[T \ {Picked(T)}]]

LEMMA SumIsFold ==
  ASSUME NEW f, NEW S
  PROVE  SumFunctionOnSet(f, S) = (CHOOSE g : Sums(f, S, g))[S]
  BY Zenon DEF SumFunctionOnSet, FoldFunctionOnSet, MapThenFoldSet, Sums, Picked

LEMMA SumsAt ==
  ASSUME NEW f, NEW S, NEW g, Sums(f, S, g), NEW T \in SUBSET S
  PROVE  /\ T = {} => g[T] = 0
         /\ T # {} => /\ g[T] = f[Picked(T)] + g[T \ {Picked(T)}]
                      /\ Picked(T) \in T
  BY DEF Sums, Picked

\* Any two such functions agree where both are defined.
LEMMA SumsAgree ==
  ASSUME NEW f, NEW S, NEW g, Sums(f, S, g), NEW R, NEW h, Sums(f, R, h),
         NEW T, IsFiniteSet(T), T \subseteq S, T \subseteq R
  PROVE  g[T] = h[T]
  <1> DEFINE G == {U \in SUBSET T : g[U] = h[U]}
  <1>1. ASSUME NEW U \in SUBSET T, \A V \in SUBSET U : V # U => V \in G
        PROVE  U \in G
    <2>1. U \in SUBSET S /\ U \in SUBSET R
      OBVIOUS
    <2>2. CASE U = {}
      BY <2>1, <2>2, SumsAt
    <2>3. CASE U # {}
      <3>1. /\ g[U] = f[Picked(U)] + g[U \ {Picked(U)}]
            /\ h[U] = f[Picked(U)] + h[U \ {Picked(U)}]
            /\ Picked(U) \in U
        BY <2>1, <2>3, SumsAt
      <3>2. U \ {Picked(U)} \in G
        BY <1>1, <3>1
      <3> QED BY <3>1, <3>2
    <2> QED BY <2>2, <2>3
  <1>2. T \in G
    <2> HIDE DEF G
    <2> QED BY <1>1, SubsetInduction
  <1> QED BY <1>2

LEMMA SumsExist ==
  ASSUME NEW f, NEW S, IsFiniteSet(S)
  PROVE  \E g : Sums(f, S, g)
  <1> DEFINE G == {T \in SUBSET S : \E g : Sums(f, T, g)}
  <1>1. ASSUME NEW T \in SUBSET S, \A U \in SUBSET T : U # T => U \in G
        PROVE  T \in G
    <2> DEFINE Val(U) == (CHOOSE g : Sums(f, U, g))[U]
               Next(U) == IF U = {} THEN 0 ELSE f[Picked(U)] + Val(U \ {Picked(U)})
               t == [U \in SUBSET T |-> Next(U)]
    <2>1. ASSUME NEW V \in SUBSET T, V # T
          PROVE  Sums(f, V, CHOOSE g : Sums(f, V, g))
      BY <1>1, <2>1
    <2>2. ASSUME NEW V \in SUBSET T, V # T PROVE Val(V) = Next(V)
      <3> DEFINE g == CHOOSE g : Sums(f, V, g)
      <3>1. Sums(f, V, g)
        BY <2>1, <2>2
      <3>2. CASE V = {}
        BY <3>1, <3>2, SumsAt
      <3>3. CASE V # {}
        <4> DEFINE W == V \ {Picked(V)}
                   h == CHOOSE h : Sums(f, W, h)
        <4>1. g[V] = f[Picked(V)] + g[W] /\ Picked(V) \in V
          BY <3>1, <3>3, SumsAt
        <4>2. Sums(f, W, h)
          BY <2>1, <2>2, <4>1
        <4>3. IsFiniteSet(W)
          BY FS_Subset
        <4>4. g[W] = h[W]
          <5> HIDE DEF g, h
          <5> QED BY <3>1, <4>2, <4>3, SumsAgree
        <4> QED BY <3>3, <4>1, <4>4
      <3> QED BY <3>2, <3>3
    <2>3. ASSUME NEW U \in SUBSET T, U # {}
          PROVE  t[U \ {Picked(U)}] = Val(U \ {Picked(U)})
      BY <2>2, <2>3 DEF Picked
    <2> HIDE DEF Val
    <2>4. t = [U \in SUBSET T |-> IF U = {} THEN 0 ELSE f[Picked(U)] + t[U \ {Picked(U)}]]
      BY <2>3
    <2> HIDE DEF t
    <2>5. Sums(f, T, t)
      BY <2>4 DEF Sums
    <2> QED BY <2>5
  <1>2. S \in G
    <2> HIDE DEF G
    <2> QED BY <1>1, SubsetInduction
  <1> QED BY <1>2
-----------------------------------------------------------------------------
(* Facts about sums.                                                       *)

\* The sum over no elements, and over one more than a smaller set.
LEMMA SumEquation ==
  ASSUME NEW f, NEW S, IsFiniteSet(S)
  PROVE  /\ S = {} => SumFunctionOnSet(f, S) = 0
         /\ S # {} => \E x \in S :
              SumFunctionOnSet(f, S) = f[x] + SumFunctionOnSet(f, S \ {x})
  <1> DEFINE g == CHOOSE g : Sums(f, S, g)
  <1>1. Sums(f, S, g)
    BY SumsExist
  <1>2. SumFunctionOnSet(f, S) = g[S]
    BY SumIsFold
  <1>3. ASSUME S # {}
        PROVE  SumFunctionOnSet(f, S) = f[Picked(S)] + SumFunctionOnSet(f, S \ {Picked(S)})
    <2> DEFINE W == S \ {Picked(S)}
               h == CHOOSE h : Sums(f, W, h)
    <2>1. IsFiniteSet(W)
      BY FS_Subset
    <2>2. Sums(f, W, h) /\ SumFunctionOnSet(f, W) = h[W]
      BY <2>1, SumsExist, SumIsFold
    <2> HIDE DEF g, h
    <2>3. g[W] = h[W]
      BY <1>1, <2>1, <2>2, SumsAgree
    <2>4. g[S] = f[Picked(S)] + g[W]
      BY <1>1, <1>3, SumsAt
    <2> QED BY <1>2, <2>2, <2>3, <2>4
  <1>4. S # {} => Picked(S) \in S
    BY DEF Picked
  <1> HIDE DEF g
  <1>5. S = {} => g[S] = 0
    BY <1>1, SumsAt
  <1> QED BY <1>2, <1>3, <1>4, <1>5

LEMMA SumType ==
  ASSUME NEW S, IsFiniteSet(S), NEW f, \A x \in S : f[x] \in Nat
  PROVE  SumFunctionOnSet(f, S) \in Nat
  <1> DEFINE G == {T \in SUBSET S : SumFunctionOnSet(f, T) \in Nat}
  <1>1. ASSUME NEW T \in SUBSET S, \A U \in SUBSET T : U # T => U \in G
        PROVE  T \in G
    <2>1. IsFiniteSet(T)
      BY FS_Subset
    <2>2. CASE T = {}
      BY <2>1, <2>2, SumEquation
    <2>3. CASE T # {}
      <3>1. PICK x \in T : SumFunctionOnSet(f, T) = f[x] + SumFunctionOnSet(f, T \ {x})
        BY <2>1, <2>3, SumEquation
      <3>2. SumFunctionOnSet(f, T \ {x}) \in Nat /\ f[x] \in Nat
        BY <1>1
      <3> QED BY <3>1, <3>2
    <2> QED BY <2>2, <2>3
  <1>2. S \in G
    <2> HIDE DEF G
    <2> QED BY <1>1, SubsetInduction
  <1> QED BY <1>2

\* Any element can be taken out first.
LEMMA SumWithout ==
  ASSUME NEW S, IsFiniteSet(S), NEW f, \A x \in S : f[x] \in Nat, NEW a \in S
  PROVE  SumFunctionOnSet(f, S) = f[a] + SumFunctionOnSet(f, S \ {a})
  <1> DEFINE Sum(T) == SumFunctionOnSet(f, T)
             G == {T \in SUBSET S : \A x \in T : Sum(T) = f[x] + Sum(T \ {x})}
  <1>1. ASSUME NEW T \in SUBSET S, \A U \in SUBSET T : U # T => U \in G, NEW x \in T
        PROVE  Sum(T) = f[x] + Sum(T \ {x})
    <2>1. \A U \in SUBSET T : IsFiniteSet(U)
      BY FS_Subset
    <2>2. PICK y \in T : Sum(T) = f[y] + Sum(T \ {y})
      BY <2>1, SumEquation
    <2>3. CASE x = y
      BY <2>2, <2>3
    <2>4. CASE x # y
      <3>1. T \ {y} \in G /\ x \in T \ {y} /\ T \ {x} \in G /\ y \in T \ {x}
        BY <1>1, <2>4
      <3>2. (T \ {y}) \ {x} = (T \ {x}) \ {y}
        OBVIOUS
      <3>3. /\ Sum(T \ {y}) = f[x] + Sum((T \ {x}) \ {y})
            /\ Sum(T \ {x}) = f[y] + Sum((T \ {x}) \ {y})
        BY <3>1, <3>2
      <3>4. f[x] \in Nat /\ f[y] \in Nat /\ Sum((T \ {x}) \ {y}) \in Nat
        BY <2>1, SumType
      <3> HIDE DEF Sum
      <3> QED BY <2>2, <3>3, <3>4
    <2> QED BY <2>3, <2>4
  <1>2. S \in G
    <2>1. \A T \in SUBSET S : (\A U \in SUBSET T : U # T => U \in G) => T \in G
      BY <1>1
    <2> HIDE DEF G
    <2> QED BY <2>1, SubsetInduction
  <1> QED BY <1>2

\* The sum over two sets that share nothing is that of their sums.
LEMMA SumUnion ==
  ASSUME NEW S, IsFiniteSet(S), NEW R, IsFiniteSet(R), S \cap R = {},
         NEW f, \A x \in S \cup R : f[x] \in Nat
  PROVE  SumFunctionOnSet(f, S \cup R) = SumFunctionOnSet(f, S) + SumFunctionOnSet(f, R)
  <1> DEFINE Sum(T) == SumFunctionOnSet(f, T)
             G == {T \in SUBSET R : Sum(S \cup T) = Sum(S) + Sum(T)}
  <1>1. ASSUME NEW T \in SUBSET R, \A U \in SUBSET T : U # T => U \in G
        PROVE  Sum(S \cup T) = Sum(S) + Sum(T)
    <2>1. \A U \in SUBSET T : IsFiniteSet(U)
      BY FS_Subset
    <2>2. IsFiniteSet(S \cup T) /\ Sum(S) \in Nat
      BY <2>1, FS_Union, SumType
    <2>3. CASE T = {}
      <3>1. Sum(T) = 0 /\ S \cup T = S
        BY <2>1, <2>3, SumEquation
      <3> HIDE DEF Sum
      <3> QED BY <2>2, <3>1
    <2>4. CASE T # {}
      <3>1. PICK x \in T : TRUE
        BY <2>4
      <3>2. Sum(S \cup T) = f[x] + Sum((S \cup T) \ {x}) /\ Sum(T) = f[x] + Sum(T \ {x})
        BY <2>1, <2>2, SumWithout
      <3>3. (S \cup T) \ {x} = S \cup (T \ {x})
        OBVIOUS
      <3>4. Sum(S \cup T) = f[x] + Sum(S \cup (T \ {x}))
        BY <3>2, <3>3
      <3>5. Sum(S \cup (T \ {x})) = Sum(S) + Sum(T \ {x})
        BY <1>1
      <3>6. f[x] \in Nat /\ Sum(T \ {x}) \in Nat
        BY <2>1, SumType
      <3> HIDE DEF Sum
      <3> QED BY <2>2, <3>2, <3>4, <3>5, <3>6
    <2> QED BY <2>3, <2>4
  <1>2. R \in G
    <2>1. \A T \in SUBSET R : (\A U \in SUBSET T : U # T => U \in G) => T \in G
      BY <1>1
    <2> HIDE DEF G
    <2> QED BY <2>1, SubsetInduction
  <1> QED BY <1>2

\* More and larger numbers have a larger sum.
LEMMA SumMonotone ==
  ASSUME NEW S, IsFiniteSet(S), NEW f, NEW g, NEW R \in SUBSET S,
         \A x \in S : g[x] \in Nat, \A x \in R : f[x] \in 0..g[x]
  PROVE  SumFunctionOnSet(f, R) <= SumFunctionOnSet(g, S)
  <1> DEFINE Low(T) == SumFunctionOnSet(f, T)
             High(T) == SumFunctionOnSet(g, T)
             G == {T \in SUBSET R : Low(T) <= High(T)}
  <1>1. \A U \in SUBSET S : IsFiniteSet(U)
    BY FS_Subset
  <1>2. (\A x \in R : f[x] \in Nat) /\ \A x \in R : f[x] <= g[x]
    OBVIOUS
  <1>3. ASSUME NEW T \in SUBSET R, \A U \in SUBSET T : U # T => U \in G
        PROVE  Low(T) <= High(T)
    <2>1. CASE T = {}
      BY <1>1, <2>1, SumEquation
    <2>2. CASE T # {}
      <3>1. PICK x \in T : TRUE
        BY <2>2
      <3>2. IsFiniteSet(T) /\ IsFiniteSet(T \ {x})
        BY <1>1
      <3>3. Low(T) = f[x] + Low(T \ {x}) /\ High(T) = g[x] + High(T \ {x})
        BY <1>2, <3>2, SumWithout
      <3>4. Low(T \ {x}) \in Nat /\ High(T \ {x}) \in Nat
        BY <1>2, <3>2, SumType
      <3>5. Low(T \ {x}) <= High(T \ {x})
        BY <1>3
      <3>6. f[x] \in Nat /\ g[x] \in Nat /\ f[x] <= g[x]
        BY <1>2
      <3> HIDE DEF Low, High
      <3> QED BY <3>3, <3>4, <3>5, <3>6
    <2> QED BY <2>1, <2>2
  <1>4. R \in G
    <2>1. \A T \in SUBSET R : (\A U \in SUBSET T : U # T => U \in G) => T \in G
      BY <1>3
    <2>2. IsFiniteSet(R)
      BY <1>1
    <2> HIDE DEF G
    <2> QED BY <2>1, <2>2, SubsetInduction
  <1>5. High(S) = High(R) + High(S \ R)
    <2>1. R \cup (S \ R) = S
      OBVIOUS
    <2>2. High(R \cup (S \ R)) = High(R) + High(S \ R)
      BY <1>1, SumUnion
    <2> QED BY <2>1, <2>2
  <1>6. High(R) \in Nat /\ High(S \ R) \in Nat /\ Low(R) \in Nat
    BY <1>1, <1>2, SumType
  <1>7. Low(R) <= High(R)
    BY <1>4
  <1> HIDE DEF Low, High
  <1>8. Low(R) <= High(S)
    BY <1>5, <1>6, <1>7
  <1> QED BY <1>8 DEF Low, High
=============================================================================
