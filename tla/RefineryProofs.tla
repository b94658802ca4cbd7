--------------------------- MODULE RefineryProofs ---------------------------
(* Proofs about module Refinery: for any commanders, any authored content    *)
(* and any number of jobs, ticks and restarts, the station's books balance,  *)
(* its queue keeps to its slots, its depth and its order, and no tick leaves *)
(* a slot free that somebody waits for.                                      *)
EXTENDS Refinery, FiniteSetTheorems, FunctionTheorems, WellFoundedInduction, TLAPS

-----------------------------------------------------------------------------
(* Induction over finite sets and over numbers, told with the set of cases   *)
(* that are good, since the provers cannot instantiate a predicate.          *)

LEMMA SetInduction ==
    ASSUME NEW D, IsFiniteSet(D), NEW Good, {} \in Good,
           \A U \in SUBSET D : \A x \in D \ U : U \in Good => U \cup {x} \in Good
    PROVE  \A U \in SUBSET D : U \in Good
<1> DEFINE R == StrictSubsetOrdering(D)
           Bad == {U \in SUBSET D : U \notin Good}
<1>1. IsWellFoundedOn(R, FiniteSubsetsOf(D))
  BY FS_StrictSubsetOrderingWellFounded
<1>2. \A U \in SUBSET D : U \in FiniteSubsetsOf(D)
  <2> SUFFICES ASSUME NEW U \in SUBSET D PROVE U \in FiniteSubsetsOf(D)
    OBVIOUS
  <2>1. IsFiniteSet(U)
    BY FS_Subset
  <2> QED BY <2>1 DEF FiniteSubsetsOf
<1> SUFFICES ASSUME Bad # {} PROVE FALSE
  OBVIOUS
<1>3. Bad \subseteq FiniteSubsetsOf(D)
  BY <1>2
<1>4. \E U \in Bad : \A V \in Bad : ~ (<<V, U>> \in R)
  <2> HIDE DEF R, Bad
  <2> QED BY <1>1, <1>3, WFMin
<1>5. PICK U \in Bad : \A V \in Bad : ~ (<<V, U>> \in R)
  BY <1>4
<1>6. PICK x \in U : TRUE
  BY <1>5
<1> DEFINE V == U \ {x}
<1>7. V \in SUBSET D /\ x \in D \ V /\ V \cup {x} = U /\ V # U /\ V \subseteq U
  BY <1>5, <1>6
<1>8. <<V, U>> \in R
  BY <1>7 DEF StrictSubsetOrdering
<1>9. V \in Good
  BY <1>5, <1>7, <1>8
<1> QED
  BY <1>5, <1>7, <1>9

LEMMA NumberInduction ==
    ASSUME NEW Good, 0 \in Good, \A n \in Nat : n \in Good => n + 1 \in Good
    PROVE  \A n \in Nat : n \in Good
<1> DEFINE R == OpToRel(<, Nat)
           Bad == {n \in Nat : n \notin Good}
<1> SUFFICES ASSUME Bad # {} PROVE FALSE
  OBVIOUS
<1>1. \A i, k \in Nat : i < k => <<i, k>> \in R
  BY DEF OpToRel
<1>0. IsWellFoundedOn(R, Nat)
  BY NatLessThanWellFounded
<1> HIDE DEF R
<1>2. PICK n \in Bad : \A m \in Bad : ~ (<<m, n>> \in R)
  <2>2. Bad \subseteq Nat
    OBVIOUS
  <2> HIDE DEF Bad
  <2> QED BY <1>0, <2>2, WFMin
<1>3. n \in Nat /\ n # 0 /\ n - 1 \in Nat /\ n - 1 < n /\ (n - 1) + 1 = n
  OBVIOUS
<1>4. n - 1 \in Good
  <2>1. <<n - 1, n>> \in R
    BY <1>1, <1>3
  <2> QED BY <1>2, <1>3, <2>1
<1>5. n \in Good
  <2>1. (n - 1) + 1 \in Good
    BY <1>3, <1>4
  <2> QED BY <1>3, <2>1
<1> QED
  BY <1>2, <1>5

-----------------------------------------------------------------------------
(* Sums of a function over a finite set, as the community modules fold them: *)
(* the recursion they leave to CHOOSE has a solution, and only one.          *)

One(S) == CHOOSE x \in S : TRUE
Rest(S) == S \ {One(S)}
Value(f, it, S) == IF S = {} THEN 0 ELSE f[One(S)] + it[Rest(S)]
IsSum(it, f, D) == \A S \in SUBSET D : it[S] = Value(f, it, S)

LEMMA RestIs ==
    ASSUME NEW S, S # {}
    PROVE  One(S) \in S /\ Rest(S) \subseteq S /\ One(S) \notin Rest(S)
           /\ S = Rest(S) \cup {One(S)}
  BY DEF One, Rest

LEMMA SmallerRest ==
    ASSUME NEW S, IsFiniteSet(S), S # {}
    PROVE  /\ IsFiniteSet(Rest(S)) /\ Cardinality(S) \in Nat /\ Cardinality(S) # 0
           /\ Cardinality(Rest(S)) = Cardinality(S) - 1
<1>1. One(S) \in S
  BY RestIs
<1>2. Cardinality(S) \in Nat /\ Cardinality(S) # 0
  BY FS_CardinalityType, FS_EmptySet
<1>3. IsFiniteSet(S \ {One(S)}) /\ Cardinality(S \ {One(S)}) = Cardinality(S) - 1
  BY <1>1, FS_RemoveElement
<1> QED BY <1>2, <1>3 DEF Rest

LEMMA SumExists ==
    ASSUME NEW f, NEW D, IsFiniteSet(D)
    PROVE  \E it : it = [S \in SUBSET D |-> Value(f, it, S)]
<1> DEFINE Solves(g, n) == \A S \in SUBSET D : Cardinality(S) <= n => g[S] = Value(f, g, S)
           Good == {n \in Nat : \E g : Solves(g, n)}
<1>1. \A S \in SUBSET D : IsFiniteSet(S) /\ Cardinality(S) \in Nat
  BY FS_Subset, FS_CardinalityType
<1>2. \A S \in SUBSET D : (Cardinality(S) = 0 <=> S = {})
  BY <1>1, FS_EmptySet
<1>3. \A S \in SUBSET D : S # {} => Rest(S) \in SUBSET D /\ Cardinality(Rest(S)) = Cardinality(S) - 1
  BY <1>1, SmallerRest DEF Rest
<1>4. 0 \in Good
  <2> DEFINE g == [S \in SUBSET D |-> 0]
  <2>1. \A S \in SUBSET D : Cardinality(S) <= 0 => S = {}
    BY <1>1, <1>2
  <2>2. Solves(g, 0)
    BY <2>1 DEF Value
  <2> HIDE DEF g, Solves
  <2> QED BY <2>2
<1>5. ASSUME NEW n \in Nat, n \in Good PROVE n + 1 \in Good
  <2>1. PICK g : Solves(g, n)
    BY <1>5
  <2> DEFINE h == [S \in SUBSET D |-> IF Cardinality(S) <= n THEN g[S] ELSE Value(f, g, S)]
  <2>2. \A S \in SUBSET D : h[S] = Value(f, g, S)
    BY <2>1
  <2>3. \A S \in SUBSET D : Cardinality(S) <= n => h[S] = g[S]
    OBVIOUS
  <2> HIDE DEF h
  <2>4. ASSUME NEW S \in SUBSET D, Cardinality(S) <= n + 1 PROVE h[S] = Value(f, h, S)
    <3>1. CASE S = {}
      BY <2>2, <3>1 DEF Value
    <3>2. CASE S # {}
      <4>1. Rest(S) \in SUBSET D /\ Cardinality(Rest(S)) <= n
        BY <1>1, <1>3, <2>4, <3>2
      <4>2. h[Rest(S)] = g[Rest(S)]
        BY <2>3, <4>1
      <4> QED BY <2>2, <4>2 DEF Value
    <3> QED BY <3>1, <3>2
  <2>5. Solves(h, n + 1)
    BY <2>4
  <2> HIDE DEF Solves
  <2> QED BY <2>5
<1>6. Cardinality(D) \in Nat /\ Cardinality(D) \in Good
  <2> HIDE DEF Good
  <2>1. \A n \in Nat : n \in Good
    BY <1>4, <1>5, NumberInduction
  <2> QED BY <1>1, <2>1
<1>7. PICK g : Solves(g, Cardinality(D))
  BY <1>6
<1>8. \A S \in SUBSET D : g[S] = Value(f, g, S)
  <2>1. \A S \in SUBSET D : Cardinality(S) <= Cardinality(D)
    BY FS_Subset
  <2> QED BY <1>7, <2>1
<1> DEFINE it == [S \in SUBSET D |-> g[S]]
<1>9. \A S \in SUBSET D : Value(f, it, S) = Value(f, g, S)
  <2> SUFFICES ASSUME NEW S \in SUBSET D PROVE Value(f, it, S) = Value(f, g, S)
    OBVIOUS
  <2>1. CASE S = {}
    BY <2>1 DEF Value
  <2>2. CASE S # {}
    <3>1. it[Rest(S)] = g[Rest(S)]
      BY <1>3, <2>2
    <3> QED BY <3>1 DEF Value
  <2> QED BY <2>1, <2>2
<1>10. it = [S \in SUBSET D |-> Value(f, it, S)]
  <2>1. \A S \in SUBSET D : it[S] = Value(f, it, S)
    BY <1>8, <1>9
  <2> QED BY <2>1
<1> QED BY <1>10

LEMMA SumIs ==
    ASSUME NEW f, NEW D, IsFiniteSet(D)
    PROVE  \E it : IsSum(it, f, D) /\ SumFunctionOnSet(f, D) = it[D]
<1> DEFINE it == CHOOSE iter : iter = [S \in SUBSET D |-> Value(f, iter, S)]
<1>1. it = [S \in SUBSET D |-> Value(f, it, S)]
  BY SumExists
<1>2. SumFunctionOnSet(f, D) = it[D]
  BY DEF SumFunctionOnSet, FoldFunctionOnSet, MapThenFoldSet, Value, One, Rest
<1> HIDE DEF it
<1>3. IsSum(it, f, D)
  <2> SUFFICES ASSUME NEW S \in SUBSET D PROVE it[S] = Value(f, it, S)
    BY DEF IsSum
  <2> DEFINE v(T) == Value(f, it, T)
  <2>1. it = [T \in SUBSET D |-> v(T)]
    BY <1>1
  <2> HIDE DEF v
  <2>2. it[S] = v(S)
    BY <2>1
  <2> QED BY <2>2 DEF v
<1> QED BY <1>2, <1>3

LEMMA SolutionsAgree ==
    ASSUME NEW f, NEW g, NEW D, NEW E, NEW it, NEW jt, IsSum(it, f, D), IsSum(jt, g, E),
           NEW U, U \subseteq D, U \subseteq E, IsFiniteSet(U), \A x \in U : f[x] = g[x]
    PROVE  it[U] = jt[U]
<1> DEFINE Good == {n \in Nat : \A V \in SUBSET U : Cardinality(V) = n => it[V] = jt[V]}
<1>1. \A V \in SUBSET U : IsFiniteSet(V)
  BY FS_Subset
<1>2. \A V \in SUBSET U : it[V] = Value(f, it, V) /\ jt[V] = Value(g, jt, V)
  BY DEF IsSum
<1>3. 0 \in Good
  <2>1. \A V \in SUBSET U : Cardinality(V) = 0 => V = {}
    BY <1>1, FS_EmptySet
  <2> QED BY <1>2, <2>1 DEF Value
<1>4. ASSUME NEW n \in Nat, n \in Good PROVE n + 1 \in Good
  <2> SUFFICES ASSUME NEW V \in SUBSET U, Cardinality(V) = n + 1 PROVE it[V] = jt[V]
    OBVIOUS
  <2>1. V # {}
    BY FS_EmptySet
  <2>2. Rest(V) \in SUBSET U /\ One(V) \in U
    BY <2>1, RestIs
  <2>3. Cardinality(Rest(V)) = n
    BY <1>1, <2>1, SmallerRest
  <2>4. it[Rest(V)] = jt[Rest(V)]
    BY <1>4, <2>2, <2>3
  <2> QED BY <1>2, <2>1, <2>2, <2>4 DEF Value
<1>5. Cardinality(U) \in Nat
  BY FS_CardinalityType
<1>6. Cardinality(U) \in Good
  <2> HIDE DEF Good
  <2>1. \A n \in Nat : n \in Good
    BY <1>3, <1>4, NumberInduction
  <2> QED BY <1>5, <2>1
<1> QED BY <1>6

LEMMA SolutionPicks ==
    ASSUME NEW f, NEW D, IsFiniteSet(D), \A x \in D : f[x] \in Nat, NEW it, IsSum(it, f, D),
           NEW all \in SUBSET D
    PROVE  it[all] \in Nat /\ \A x \in all : it[all] = f[x] + it[all \ {x}]
<1> DEFINE Picks(U) == it[U] \in Nat /\ \A x \in U : it[U] = f[x] + it[U \ {x}]
           Good == {n \in Nat : \A U \in SUBSET D : Cardinality(U) <= n => Picks(U)}
<1>1. \A U \in SUBSET D : IsFiniteSet(U)
  BY FS_Subset
<1>2. \A U \in SUBSET D : it[U] = Value(f, it, U)
  BY DEF IsSum
<1>3. 0 \in Good
  <2>1. \A U \in SUBSET D : Cardinality(U) <= 0 => U = {}
    BY <1>1, FS_CardinalityType, FS_EmptySet
  <2>2. it[{}] = 0
    BY <1>2 DEF Value
  <2>3. Picks({})
    BY <2>2
  <2> HIDE DEF Picks
  <2> QED BY <2>1, <2>3
<1> HIDE DEF Picks
<1>4. ASSUME NEW n \in Nat, n \in Good PROVE n + 1 \in Good
  <2>9. \A U \in SUBSET D : Cardinality(U) <= n => Picks(U)
    BY <1>4
  <2>0. \A U \in SUBSET D : Cardinality(U) \in Nat
    BY <1>1, FS_CardinalityType
  <2> SUFFICES ASSUME NEW U \in SUBSET D, Cardinality(U) = n + 1 PROVE Picks(U)
    BY <2>9, <2>0
  <2>1. U # {}
    BY FS_EmptySet
  <2> DEFINE c == One(U)  V == Rest(U)
  <2>2. V \in SUBSET D /\ c \in U /\ c \in D /\ V = U \ {c}
    BY <2>1, RestIs DEF Rest
  <2>3. Cardinality(V) = n
    BY <1>1, <2>1, SmallerRest
  <2>4. it[U] = f[c] + it[V]
    BY <1>2, <2>1 DEF Value
  <2> HIDE DEF c, V
  <2>5. Picks(V)
    BY <2>9, <2>0, <2>2, <2>3
  <2>6. ASSUME NEW x \in U, x # c PROVE it[U] = f[x] + it[U \ {x}]
    <3> DEFINE W == U \ {x}
    <3>1. W \in SUBSET D /\ c \in W /\ W \ {c} = V \ {x} /\ x \in V /\ V \ {x} \in SUBSET D
      BY <2>2, <2>6
    <3>2. Cardinality(W) = n
      <4>1. Cardinality(U \ {x}) = Cardinality(U) - 1
        BY <1>1, FS_RemoveElement
      <4> QED BY <4>1
    <3>3. Picks(W)
      BY <2>9, <2>0, <3>1, <3>2
    <3>4. it[W] = f[c] + it[V \ {x}] /\ it[V] = f[x] + it[V \ {x}]
      BY <2>5, <3>1, <3>3 DEF Picks
    <3> DEFINE rest == it[V \ {x}]
    <3>5. rest \in Nat
      <4>1. Cardinality(V \ {x}) <= n
        BY <1>1, <2>2, <2>3, <3>1, FS_Subset
      <4> QED BY <2>9, <3>1, <4>1 DEF Picks
    <3> HIDE DEF rest, W
    <3>6. it[W] = f[c] + rest /\ it[V] = f[x] + rest
      BY <3>4 DEF rest
    <3>7. f[c] \in Nat /\ f[x] \in Nat
      BY <2>2
    <3>8. it[U] = f[x] + it[W]
      BY <2>4, <3>5, <3>6, <3>7
    <3> QED BY <3>8 DEF W
  <2>7. it[U] = f[c] + it[U \ {c}]
    BY <2>2, <2>4
  <2>8. it[U] \in Nat
    <3>1. it[V] \in Nat /\ f[c] \in Nat
      BY <2>2, <2>5 DEF Picks
    <3> QED BY <2>4, <3>1
  <2> QED BY <2>6, <2>7, <2>8 DEF Picks
<1>5. ASSUME NEW U \in SUBSET D PROVE Picks(U)
  <2>1. Cardinality(U) \in Nat
    BY <1>1, FS_CardinalityType
  <2>2. \A n \in Nat : n \in Good
    <3> HIDE DEF Good
    <3> QED BY <1>3, <1>4, NumberInduction
  <2> QED BY <2>1, <2>2
<1> QED BY <1>5 DEF Picks

LEMMA SumSame ==
    ASSUME NEW f, NEW g, NEW D, IsFiniteSet(D), \A x \in D : f[x] = g[x]
    PROVE  SumFunctionOnSet(f, D) = SumFunctionOnSet(g, D)
<1>1. PICK it : IsSum(it, f, D) /\ SumFunctionOnSet(f, D) = it[D]
  BY SumIs
<1>2. PICK jt : IsSum(jt, g, D) /\ SumFunctionOnSet(g, D) = jt[D]
  BY SumIs
<1>3. it[D] = jt[D]
  BY <1>1, <1>2, SolutionsAgree
<1> QED BY <1>1, <1>2, <1>3

LEMMA SumOfNothing ==
    ASSUME NEW f PROVE SumFunctionOnSet(f, {}) = 0
<1>1. IsFiniteSet({})
  BY FS_EmptySet
<1>2. PICK it : IsSum(it, f, {}) /\ SumFunctionOnSet(f, {}) = it[{}]
  BY <1>1, SumIs
<1> QED BY <1>2 DEF IsSum, Value

LEMMA SumPicks ==
    ASSUME NEW f, NEW D, IsFiniteSet(D), \A x \in D : f[x] \in Nat, NEW y \in D
    PROVE  /\ SumFunctionOnSet(f, D \ {y}) \in Nat
           /\ SumFunctionOnSet(f, D) = f[y] + SumFunctionOnSet(f, D \ {y})
<1> DEFINE U == D \ {y}
<1>1. PICK it : IsSum(it, f, D) /\ SumFunctionOnSet(f, D) = it[D]
  BY SumIs
<1>2. U \subseteq D /\ IsFiniteSet(U)
  BY FS_Subset
<1>3. PICK jt : IsSum(jt, f, U) /\ SumFunctionOnSet(f, U) = jt[U]
  BY <1>2, SumIs
<1>4. it[U] = jt[U]
  BY <1>1, <1>2, <1>3, SolutionsAgree
<1>5. it[U] \in Nat /\ it[D] = f[y] + it[U]
  <2>1. \A x \in D : it[D] = f[x] + it[D \ {x}]
    <3>1. D \in SUBSET D
      OBVIOUS
    <3> QED BY <1>1, <3>1, SolutionPicks
  <2>2. it[U] \in Nat
    <3> HIDE DEF U
    <3> QED BY <1>1, <1>2, SolutionPicks
  <2> QED BY <2>1, <2>2
<1> QED BY <1>1, <1>3, <1>4, <1>5

LEMMA SumIsNumber ==
    ASSUME NEW f, NEW D, IsFiniteSet(D), \A x \in D : f[x] \in Nat
    PROVE  SumFunctionOnSet(f, D) \in Nat
<1>1. PICK it : IsSum(it, f, D) /\ SumFunctionOnSet(f, D) = it[D]
  BY SumIs
<1>2. it[D] \in Nat
  BY <1>1, SolutionPicks
<1> QED BY <1>1, <1>2

LEMMA SumAdds ==
    ASSUME NEW f, NEW D, IsFiniteSet(D), NEW y, y \notin D, \A x \in D \cup {y} : f[x] \in Nat
    PROVE  SumFunctionOnSet(f, D \cup {y}) = f[y] + SumFunctionOnSet(f, D)
<1>1. IsFiniteSet(D \cup {y}) /\ (D \cup {y}) \ {y} = D /\ y \in D \cup {y}
  BY FS_AddElement
<1> DEFINE E == D \cup {y}
<1> HIDE DEF E
<1>2. SumFunctionOnSet(f, E) = f[y] + SumFunctionOnSet(f, E \ {y})
  BY <1>1, SumPicks DEF E
<1> QED BY <1>1, <1>2 DEF E

LEMMA SumTogether ==
    ASSUME NEW f, NEW D, NEW E, IsFiniteSet(D), IsFiniteSet(E), D \cap E = {},
           \A x \in D \cup E : f[x] \in Nat
    PROVE  SumFunctionOnSet(f, D \cup E) = SumFunctionOnSet(f, D) + SumFunctionOnSet(f, E)
<1> DEFINE Good == {U \in SUBSET E :
                SumFunctionOnSet(f, D \cup U) = SumFunctionOnSet(f, D) + SumFunctionOnSet(f, U)}
<1>1. SumFunctionOnSet(f, D) \in Nat
  BY SumIsNumber
<1>2. {} \in Good
  <2>1. D \cup {} = D
    OBVIOUS
  <2> QED BY <1>1, <2>1, SumOfNothing
<1>3. ASSUME NEW U \in SUBSET E, NEW x \in E \ U, U \in Good PROVE U \cup {x} \in Good
  <2>1. IsFiniteSet(U) /\ IsFiniteSet(D \cup U)
    BY FS_Subset, FS_Union
  <2>2. SumFunctionOnSet(f, U \cup {x}) = f[x] + SumFunctionOnSet(f, U)
    BY <2>1, SumAdds
  <2> DEFINE W == D \cup U
  <2>3. x \notin W /\ (\A y \in W \cup {x} : f[y] \in Nat) /\ D \cup (U \cup {x}) = W \cup {x}
    OBVIOUS
  <2>4. SumFunctionOnSet(f, W \cup {x}) = f[x] + SumFunctionOnSet(f, W)
    <3> HIDE DEF W
    <3> QED BY <2>1, <2>3, SumAdds DEF W
  <2>5. SumFunctionOnSet(f, W) = SumFunctionOnSet(f, D) + SumFunctionOnSet(f, U)
    BY <1>3
  <2>6. SumFunctionOnSet(f, U) \in Nat /\ f[x] \in Nat
    BY <2>1, SumIsNumber
  <2>7. SumFunctionOnSet(f, D \cup (U \cup {x}))
          = SumFunctionOnSet(f, D) + SumFunctionOnSet(f, U \cup {x})
    <3> DEFINE d == SumFunctionOnSet(f, D)  u == SumFunctionOnSet(f, U)
               w == SumFunctionOnSet(f, W)  ux == SumFunctionOnSet(f, U \cup {x})
               wx == SumFunctionOnSet(f, W \cup {x})
               all == SumFunctionOnSet(f, D \cup (U \cup {x}))
    <3>1. all = wx
      BY <2>3
    <3>2. d \in Nat /\ u \in Nat /\ f[x] \in Nat /\ ux = f[x] + u /\ wx = f[x] + w /\ w = d + u
      BY <1>1, <2>2, <2>4, <2>5, <2>6
    <3> HIDE DEF d, u, w, ux, wx, all, W
    <3>3. all = d + ux
      BY <3>1, <3>2
    <3> QED BY <3>3 DEF all, d, ux
  <2> QED BY <2>7
<1> HIDE DEF Good
<1>4. \A U \in SUBSET E : U \in Good
  BY <1>2, <1>3, SetInduction
<1>5. E \in Good
  BY <1>4
<1> QED BY <1>5 DEF Good

\* A sum over what m makes of D, when no two make the same.
LEMMA SumThrough ==
    ASSUME NEW f, NEW g, NEW D, IsFiniteSet(D), NEW m,
           \A x, y \in D : m[x] = m[y] => x = y,
           \A x \in D : f[m[x]] = g[x] /\ g[x] \in Nat
    PROVE  SumFunctionOnSet(f, {m[x] : x \in D}) = SumFunctionOnSet(g, D)
<1> DEFINE Image(U) == {m[x] : x \in U}
           Good == {U \in SUBSET D : /\ SumFunctionOnSet(f, Image(U)) = SumFunctionOnSet(g, U)
                                     /\ IsFiniteSet(Image(U))}
<1>1. {} \in Good
  <2>1. Image({}) = {}
    OBVIOUS
  <2> HIDE DEF Image
  <2> QED BY <2>1, SumOfNothing, FS_EmptySet
<1>2. ASSUME NEW U \in SUBSET D, NEW x \in D \ U, U \in Good PROVE U \cup {x} \in Good
  <2>1. IsFiniteSet(U)
    BY FS_Subset
  <2>2. Image(U \cup {x}) = Image(U) \cup {m[x]} /\ m[x] \notin Image(U)
    OBVIOUS
  <2>3. \A y \in Image(U) \cup {m[x]} : f[y] \in Nat
    <3>1. \A y \in U : f[m[y]] \in Nat
      OBVIOUS
    <3>2. f[m[x]] \in Nat
      OBVIOUS
    <3> QED BY <3>1, <3>2
  <2> HIDE DEF Image
  <2>4. IsFiniteSet(Image(U)) /\ SumFunctionOnSet(f, Image(U)) = SumFunctionOnSet(g, U)
    BY <1>2
  <2>5. IsFiniteSet(Image(U \cup {x}))
    <3>1. IsFiniteSet(Image(U) \cup {m[x]})
      BY <2>4, FS_AddElement
    <3> QED BY <2>2, <3>1
  <2>6. SumFunctionOnSet(f, Image(U \cup {x})) = f[m[x]] + SumFunctionOnSet(f, Image(U))
    BY <2>2, <2>3, <2>4, SumAdds
  <2>7. SumFunctionOnSet(g, U \cup {x}) = g[x] + SumFunctionOnSet(g, U)
    BY <2>1, SumAdds
  <2>8. f[m[x]] = g[x]
    OBVIOUS
  <2> QED BY <2>4, <2>5, <2>6, <2>7, <2>8
<1> HIDE DEF Good
<1>3. \A U \in SUBSET D : U \in Good
  BY <1>1, <1>2, SetInduction
<1>4. D \in Good
  BY <1>3
<1> QED BY <1>4 DEF Good

LEMMA SumOfSums ==
    ASSUME NEW f, NEW g, NEW h, NEW D, IsFiniteSet(D),
           \A x \in D : f[x] \in Nat /\ g[x] \in Nat /\ h[x] = f[x] + g[x]
    PROVE  SumFunctionOnSet(h, D) = SumFunctionOnSet(f, D) + SumFunctionOnSet(g, D)
<1> DEFINE Good == {U \in SUBSET D :
                SumFunctionOnSet(h, U) = SumFunctionOnSet(f, U) + SumFunctionOnSet(g, U)}
<1>1. {} \in Good
  BY SumOfNothing
<1>2. ASSUME NEW U \in SUBSET D, NEW x \in D \ U, U \in Good PROVE U \cup {x} \in Good
  <2>1. IsFiniteSet(U)
    BY FS_Subset
  <2>2. \A y \in U \cup {x} : f[y] \in Nat /\ g[y] \in Nat /\ h[y] \in Nat /\ h[y] = f[y] + g[y]
    OBVIOUS
  <2>3. SumFunctionOnSet(f, U \cup {x}) = f[x] + SumFunctionOnSet(f, U)
    BY <2>1, <2>2, SumAdds
  <2>4. SumFunctionOnSet(g, U \cup {x}) = g[x] + SumFunctionOnSet(g, U)
    BY <2>1, <2>2, SumAdds
  <2>5. SumFunctionOnSet(h, U \cup {x}) = h[x] + SumFunctionOnSet(h, U)
    BY <2>1, <2>2, SumAdds
  <2>6. SumFunctionOnSet(f, U) \in Nat /\ SumFunctionOnSet(g, U) \in Nat
    BY <2>1, <2>2, SumIsNumber
  <2>7. SumFunctionOnSet(h, U) = SumFunctionOnSet(f, U) + SumFunctionOnSet(g, U)
    BY <1>2
  <2>8. h[x] = f[x] + g[x] /\ f[x] \in Nat /\ g[x] \in Nat
    BY <2>2
  <2>9. SumFunctionOnSet(h, U \cup {x})
          = SumFunctionOnSet(f, U \cup {x}) + SumFunctionOnSet(g, U \cup {x})
    BY <2>3, <2>4, <2>5, <2>6, <2>7, <2>8
  <2> QED BY <2>9
<1> HIDE DEF Good
<1>3. \A U \in SUBSET D : U \in Good
  BY <1>1, <1>2, SetInduction
<1>4. D \in Good
  BY <1>3
<1> QED BY <1>4 DEF Good

\* One term is changed.
LEMMA SumWithOne ==
    ASSUME NEW f, NEW g, NEW D, IsFiniteSet(D), NEW y \in D,
           \A x \in D : f[x] \in Nat /\ g[x] \in Nat, \A x \in D : x # y => g[x] = f[x]
    PROVE  SumFunctionOnSet(g, D) + f[y] = SumFunctionOnSet(f, D) + g[y]
<1>1. SumFunctionOnSet(f, D) = f[y] + SumFunctionOnSet(f, D \ {y})
  BY SumPicks
<1>2. SumFunctionOnSet(g, D) = g[y] + SumFunctionOnSet(g, D \ {y})
  BY SumPicks
<1>3. IsFiniteSet(D \ {y})
  BY FS_RemoveElement
<1>4. SumFunctionOnSet(f, D \ {y}) = SumFunctionOnSet(g, D \ {y})
  BY <1>3, SumSame
<1>5. SumFunctionOnSet(f, D \ {y}) \in Nat
  BY SumPicks
<1> QED BY <1>1, <1>2, <1>4, <1>5

-----------------------------------------------------------------------------
(* Sizes, the first and the last of a queue, and a percentage.               *)

LEMMA SameSize ==
    ASSUME NEW D, IsFiniteSet(D), NEW m, \A x, y \in D : m[x] = m[y] => x = y
    PROVE  IsFiniteSet({m[x] : x \in D}) /\ Cardinality({m[x] : x \in D}) = Cardinality(D)
<1> DEFINE Image(U) == {m[x] : x \in U}
           Good == {U \in SUBSET D :
                       IsFiniteSet(Image(U)) /\ Cardinality(Image(U)) = Cardinality(U)}
<1>1. {} \in Good
  <2>1. Image({}) = {}
    OBVIOUS
  <2> HIDE DEF Image
  <2> QED BY <2>1, FS_EmptySet
<1>2. ASSUME NEW U \in SUBSET D, NEW x \in D \ U, U \in Good PROVE U \cup {x} \in Good
  <2>1. IsFiniteSet(U) /\ x \notin U
    BY FS_Subset
  <2>2. Image(U \cup {x}) = Image(U) \cup {m[x]} /\ m[x] \notin Image(U)
    OBVIOUS
  <2> HIDE DEF Image
  <2>3. IsFiniteSet(Image(U)) /\ Cardinality(Image(U)) = Cardinality(U)
    BY <1>2
  <2>4. /\ IsFiniteSet(Image(U) \cup {m[x]})
        /\ Cardinality(Image(U) \cup {m[x]}) = Cardinality(Image(U)) + 1
    BY <2>2, <2>3, FS_AddElement
  <2>5. Cardinality(U \cup {x}) = Cardinality(U) + 1
    BY <2>1, FS_AddElement
  <2>6. /\ IsFiniteSet(Image(U \cup {x}))
        /\ Cardinality(Image(U \cup {x})) = Cardinality(U \cup {x})
    BY <2>2, <2>3, <2>4, <2>5
  <2> QED BY <2>6
<1> HIDE DEF Good
<1>3. \A U \in SUBSET D : U \in Good
  BY <1>1, <1>2, SetInduction
<1>4. D \in Good
  BY <1>3
<1> QED BY <1>4 DEF Good

LEMMA Oldest ==
    ASSUME NEW D, IsFiniteSet(D), D # {}, \A j \in D : j.sequence \in Nat
    PROVE  \E j \in D : \A k \in D : j.sequence <= k.sequence
<1> DEFINE Good == {U \in SUBSET D :
                       U = {} \/ \E j \in U : \A k \in U : j.sequence <= k.sequence}
<1>1. {} \in Good
  OBVIOUS
<1>2. ASSUME NEW U \in SUBSET D, NEW x \in D \ U, U \in Good PROVE U \cup {x} \in Good
  <2>1. CASE U = {}
    <3>1. \A k \in U \cup {x} : x.sequence <= k.sequence
      BY <2>1
    <3> QED BY <3>1
  <2>2. CASE U # {}
    <3>1. PICK j \in U : \A k \in U : j.sequence <= k.sequence
      BY <1>2, <2>2
    <3>2. CASE j.sequence <= x.sequence
      BY <3>1, <3>2
    <3>3. CASE x.sequence < j.sequence
      <4>1. \A k \in U : x.sequence <= k.sequence
        BY <3>1, <3>3
      <4> QED BY <4>1
    <3> QED BY <3>2, <3>3
  <2> QED BY <2>1, <2>2
<1> HIDE DEF Good
<1>3. \A U \in SUBSET D : U \in Good
  BY <1>1, <1>2, SetInduction
<1>4. D \in Good
  BY <1>3
<1> QED BY <1>4 DEF Good

LEMMA Newest ==
    ASSUME NEW D, IsFiniteSet(D), D # {}, \A j \in D : j.sequence \in Nat
    PROVE  \E j \in D : \A k \in D : k.sequence <= j.sequence
<1> DEFINE Good == {U \in SUBSET D :
                       U = {} \/ \E j \in U : \A k \in U : k.sequence <= j.sequence}
<1>1. {} \in Good
  OBVIOUS
<1>2. ASSUME NEW U \in SUBSET D, NEW x \in D \ U, U \in Good PROVE U \cup {x} \in Good
  <2>1. CASE U = {}
    <3>1. \A k \in U \cup {x} : k.sequence <= x.sequence
      BY <2>1
    <3> QED BY <3>1
  <2>2. CASE U # {}
    <3>1. PICK j \in U : \A k \in U : k.sequence <= j.sequence
      BY <1>2, <2>2
    <3>2. CASE x.sequence <= j.sequence
      BY <3>1, <3>2
    <3>3. CASE j.sequence < x.sequence
      <4>1. \A k \in U : k.sequence <= x.sequence
        BY <3>1, <3>3
      <4> QED BY <4>1
    <3> QED BY <3>2, <3>3
  <2> QED BY <2>1, <2>2
<1> HIDE DEF Good
<1>3. \A U \in SUBSET D : U \in Good
  BY <1>1, <1>2, SetInduction
<1>4. D \in Good
  BY <1>3
<1> QED BY <1>4 DEF Good

LEMMA PercentOf ==
    ASSUME NEW n \in Nat, NEW pct \in 0..100
    PROVE  (n * pct) \div 100 \in 0..n
<1>1. n * pct \in Nat /\ n * pct <= n * 100
  OBVIOUS
<1> QED BY <1>1

-----------------------------------------------------------------------------
(* The invariant.                                                            *)

Typed ==
    /\ shardTick \in 0..MaxTick /\ hostTick \in 0..MaxTick
    /\ hold \in [Players -> 0..HoldUnits]
    /\ bayOre \in [Players -> Nat] /\ bayAlloy \in [Players -> Nat]
    /\ jobs \subseteq Job /\ IsFiniteSet(jobs)
    /\ nextJob \in 1..(MaxJobs + 1)
    /\ tier \in AuthoredTier..TierCap
    /\ project \in {NoProject} \cup Nat
    /\ consumed \in Nat /\ cooked \in Nat
    /\ restarts \in 0..MaxRestarts

\* The next number is past those on the books.
Numbered == \A j \in jobs : j.sequence < nextJob

\* A job gives back no more than was put in, and takes its time.
AsPriced(queue) == \A j \in queue : j.refund <= Input(j) /\ j.ticks > 0

IInv == Typed /\ Numbered /\ AsPriced(jobs) /\ BooksBalance /\ QueueKept

-----------------------------------------------------------------------------
(* What Started makes of a queue. *)

ByNumber(queue) == \A j, k \in queue : j.sequence = k.sequence => j = k
Sound(queue) ==
    queue \subseteq Job /\ IsFiniteSet(queue) /\ ByNumber(queue) /\ AsPriced(queue)
Drains(queue) ==
    \A j, k \in queue :
        j.owner = k.owner /\ Running(j) /\ k.sequence < j.sequence => Running(k)

Step(queue, now, j) ==
    [j EXCEPT !.complete = IF Starts(queue, j) THEN now + j.ticks ELSE j.complete]

LEMMA JobIs ==
    ASSUME NEW j \in Job
    PROVE  /\ j.owner \in Players /\ j.sequence \in Nat /\ j.units \in Batches /\ j.units \in Nat
           /\ j.refund \in Nat /\ j.ticks \in Nat /\ j.complete \in Nat
           /\ Input(j) \in Nat
           /\ j = [owner |-> j.owner, sequence |-> j.sequence, units |-> j.units,
                   refund |-> j.refund, ticks |-> j.ticks, complete |-> j.complete]
<1>1. /\ j.owner \in Players /\ j.sequence \in Nat /\ j.units \in Batches
      /\ j.refund \in Nat /\ j.ticks \in Nat /\ j.complete \in Nat
      /\ j = [owner |-> j.owner, sequence |-> j.sequence, units |-> j.units,
              refund |-> j.refund, ticks |-> j.ticks, complete |-> j.complete]
  BY DEF Job
<1>2. j.units \in Nat /\ OrePerUnit \in Nat
  BY <1>1, ContentAssumption
<1>3. OrePerUnit * j.units \in Nat
  BY <1>2
<1> QED BY <1>1, <1>2, <1>3 DEF Input

LEMMA StepIs ==
    ASSUME NEW queue, NEW now \in Nat, NEW j \in Job, j.ticks > 0
    PROVE  /\ Step(queue, now, j) \in Job
           /\ Step(queue, now, j).owner = j.owner
           /\ Step(queue, now, j).sequence = j.sequence
           /\ Step(queue, now, j).units = j.units
           /\ Step(queue, now, j).refund = j.refund
           /\ Step(queue, now, j).ticks = j.ticks
           /\ Input(Step(queue, now, j)) = Input(j)
           /\ Running(Step(queue, now, j)) <=> Running(j) \/ Starts(queue, j)
           /\ Step(queue, now, j).complete
                = IF Starts(queue, j) THEN now + j.ticks ELSE j.complete
<1> DEFINE c == IF Starts(queue, j) THEN now + j.ticks ELSE j.complete
           r == Step(queue, now, j)
<1>1. /\ j.owner \in Players /\ j.sequence \in Nat /\ j.units \in Batches
      /\ j.refund \in Nat /\ j.ticks \in Nat /\ j.complete \in Nat
      /\ j = [owner |-> j.owner, sequence |-> j.sequence, units |-> j.units,
              refund |-> j.refund, ticks |-> j.ticks, complete |-> j.complete]
  BY JobIs
<1>2. c \in Nat /\ (Starts(queue, j) => c > 0 /\ c > now)
  BY <1>1
<1> HIDE DEF c
<1>3. r = [owner |-> j.owner, sequence |-> j.sequence, units |-> j.units,
           refund |-> j.refund, ticks |-> j.ticks, complete |-> c]
  BY <1>1 DEF Step, c
<1>4. /\ r \in Job /\ r.owner = j.owner /\ r.sequence = j.sequence /\ r.units = j.units
      /\ r.refund = j.refund /\ r.ticks = j.ticks /\ r.complete = c
  BY <1>1, <1>2, <1>3 DEF Job
<1> HIDE DEF r
<1>5. Running(r) <=> Running(j) \/ Starts(queue, j)
  BY <1>1, <1>2, <1>4 DEF Running, QUEUED, c
<1> QED BY <1>4, <1>5 DEF r, c, Input

LEMMA StartedIs ==
    ASSUME NEW queue, NEW now
    PROVE  Started(queue, now) = {Step(queue, now, j) : j \in queue}
  BY DEF Started, Step

LEMMA StartedSound ==
    ASSUME NEW queue, NEW now \in Nat, Sound(queue)
    PROVE  Sound(Started(queue, now))
<1> DEFINE m == [j \in queue |-> Step(queue, now, j)]
           after == Started(queue, now)
<1>1. after = {m[j] : j \in queue}
  BY StartedIs
<1>2. \A j \in queue :
        /\ m[j] \in Job /\ m[j].sequence = j.sequence /\ m[j].refund = j.refund
        /\ m[j].ticks = j.ticks /\ Input(m[j]) = Input(j)
  BY StepIs DEF Sound, AsPriced
<1> HIDE DEF m, after
<1>3. \A j, k \in queue : m[j] = m[k] => j = k
  BY <1>2 DEF Sound, ByNumber
<1>4. IsFiniteSet(after)
  <2>1. IsFiniteSet({m[j] : j \in queue})
    BY <1>3, SameSize DEF Sound
  <2> QED BY <1>1, <2>1
<1>5. after \subseteq Job
  BY <1>1, <1>2
<1>6. ByNumber(after)
  BY <1>1, <1>2 DEF Sound, ByNumber
<1>7. AsPriced(after)
  BY <1>1, <1>2 DEF Sound, AsPriced
<1> QED BY <1>4, <1>5, <1>6, <1>7 DEF Sound, after

\* Nobody's jobs become more or fewer.
LEMMA StartedKeeps ==
    ASSUME NEW queue, NEW now \in Nat, Sound(queue), NEW p \in Players
    PROVE  Cardinality(JobsOf(Started(queue, now), p)) = Cardinality(JobsOf(queue, p))
<1> DEFINE mine == JobsOf(queue, p)
           m == [j \in mine |-> Step(queue, now, j)]
<1>1. \A j \in queue :
        Step(queue, now, j).sequence = j.sequence /\ Step(queue, now, j).owner = j.owner
  BY StepIs DEF Sound, AsPriced
<1>2. JobsOf(Started(queue, now), p) = {m[j] : j \in mine}
  BY <1>1, StartedIs DEF JobsOf
<1>3. \A j, k \in mine : m[j] = m[k] => j = k
  BY <1>1 DEF Sound, ByNumber, JobsOf
<1>4. IsFiniteSet(mine)
  BY FS_Subset DEF Sound, JobsOf
<1> HIDE DEF m, mine
<1>5. Cardinality({m[j] : j \in mine}) = Cardinality(mine)
  BY <1>3, <1>4, SameSize
<1> QED BY <1>2, <1>5 DEF mine

\* Who runs then: those who ran and those who start.
StartersOf(queue, p) == {j \in JobsOf(queue, p) : Starts(queue, j)}

LEMMA StartedRun ==
    ASSUME NEW queue, NEW now \in Nat, Sound(queue), NEW p \in Players
    PROVE  /\ Cardinality(RunningOf(Started(queue, now), p))
                = Cardinality(RunningOf(queue, p)) + Cardinality(StartersOf(queue, p))
           /\ Cardinality(RunningOf(queue, p)) \in Nat
           /\ Cardinality(StartersOf(queue, p)) \in Nat
           /\ IsFiniteSet(RunningOf(queue, p)) /\ IsFiniteSet(StartersOf(queue, p))
<1> DEFINE runs == RunningOf(queue, p)
           starts == StartersOf(queue, p)
           both == runs \cup starts
           m == [j \in both |-> Step(queue, now, j)]
<1>1. \A j \in queue :
        /\ Step(queue, now, j).sequence = j.sequence /\ Step(queue, now, j).owner = j.owner
        /\ Running(Step(queue, now, j)) <=> Running(j) \/ Starts(queue, j)
  BY StepIs DEF Sound, AsPriced
<1>2. RunningOf(Started(queue, now), p) = {m[j] : j \in both}
  BY <1>1, StartedIs DEF JobsOf, RunningOf, StartersOf
<1>3. \A j, k \in both : m[j] = m[k] => j = k
  BY <1>1 DEF Sound, ByNumber, JobsOf, RunningOf, StartersOf
<1>4. runs \subseteq queue /\ starts \subseteq queue /\ runs \cap starts = {}
  BY DEF JobsOf, RunningOf, StartersOf, Starts
<1> HIDE DEF runs, starts
<1>5. IsFiniteSet(runs) /\ IsFiniteSet(starts)
  BY <1>4, FS_Subset DEF Sound
<1>6. Cardinality(runs) \in Nat /\ Cardinality(starts) \in Nat
  BY <1>5, FS_CardinalityType
<1>7. IsFiniteSet(both) /\ Cardinality(both) = Cardinality(runs) + Cardinality(starts)
  <2>1. /\ IsFiniteSet(both)
        /\ Cardinality(both) = Cardinality(runs) + Cardinality(starts) - Cardinality(runs \cap starts)
    BY <1>5, FS_Union
  <2>2. Cardinality(runs \cap starts) = 0
    BY <1>4, FS_EmptySet
  <2> QED BY <1>6, <2>1, <2>2
<1> HIDE DEF m, both
<1>8. Cardinality({m[j] : j \in both}) = Cardinality(both)
  BY <1>3, <1>7, SameSize
<1> QED BY <1>2, <1>5, <1>6, <1>7, <1>8 DEF runs, starts

LEMMA SlotsAre ==
    ASSUME tier \in AuthoredTier..TierCap
    PROVE  tier \in Tiers /\ Slots[tier] \in Nat
<1>1. tier \in Tiers
  BY StationAssumption DEF Tiers
<1> QED BY <1>1, ContentAssumption

\* The starters of a commander are the newest of them and those ahead of it.
LEMMA StartedFits ==
    ASSUME NEW queue, NEW now \in Nat, Sound(queue), NEW p \in Players,
           tier \in AuthoredTier..TierCap, Cardinality(RunningOf(queue, p)) <= Slots[tier]
    PROVE  Cardinality(RunningOf(Started(queue, now), p)) <= Slots[tier]
<1> DEFINE r == Cardinality(RunningOf(queue, p))
           starts == StartersOf(queue, p)
<1>1. /\ Cardinality(RunningOf(Started(queue, now), p)) = r + Cardinality(starts)
      /\ r \in Nat /\ Cardinality(starts) \in Nat /\ IsFiniteSet(starts)
  BY StartedRun
<1>2. CASE starts = {}
  <2>1. Cardinality(starts) = 0
    BY <1>2, FS_EmptySet
  <2> QED BY <1>1, <2>1
<1>3. CASE starts # {}
  <2>1. \A j \in starts : j \in queue /\ j.owner = p /\ Starts(queue, j) /\ j.sequence \in Nat
    BY JobIs DEF StartersOf, JobsOf, Sound
  <2>2. PICK j \in starts : \A k \in starts : k.sequence <= j.sequence
    <3> HIDE DEF starts
    <3> QED BY <1>1, <1>3, <2>1, Newest
  <2> DEFINE ahead == Ahead(queue, j)
  <2>3. starts \ {j} \subseteq ahead
    <3> SUFFICES ASSUME NEW k \in starts, k # j PROVE k \in ahead
      OBVIOUS
    <3>1. k.sequence # j.sequence /\ k.sequence <= j.sequence
      BY <2>1, <2>2 DEF Sound, ByNumber
    <3>2. k.sequence < j.sequence
      BY <2>1, <3>1
    <3> QED BY <2>1, <3>2 DEF Ahead, JobsOf, Starts
  <2>4. IsFiniteSet(ahead) /\ Cardinality(ahead) \in Nat
    <3>1. ahead \subseteq queue
      BY DEF Ahead, JobsOf
    <3>2. IsFiniteSet(ahead)
      BY <3>1, FS_Subset DEF Sound
    <3> QED BY <3>2, FS_CardinalityType
  <2>5. r + Cardinality(ahead) < Slots[tier]
    BY <2>1 DEF Starts
  <2> HIDE DEF ahead, starts, r
  <2>6. Cardinality(starts \ {j}) <= Cardinality(ahead)
    BY <2>3, <2>4, FS_Subset
  <2>7. Cardinality(starts \ {j}) = Cardinality(starts) - 1
    BY <1>1, FS_RemoveElement
  <2> QED BY <1>1, <2>4, <2>5, <2>6, <2>7, SlotsAre
<1> QED BY <1>2, <1>3

\* Whoever is left waiting waits for a slot.
LEMMA StartedFills ==
    ASSUME NEW queue, NEW now \in Nat, Sound(queue), tier \in AuthoredTier..TierCap,
           NEW w \in Started(queue, now), ~Running(w)
    PROVE  Cardinality(RunningOf(Started(queue, now), w.owner)) >= Slots[tier]
<1>1. PICK i \in queue : w = Step(queue, now, i)
  BY StartedIs
<1>2. w.owner = i.owner /\ ~Running(i) /\ ~Starts(queue, i) /\ i.owner \in Players
  BY <1>1, StepIs, JobIs DEF Sound, AsPriced
<1> DEFINE p == i.owner
           r == Cardinality(RunningOf(queue, p))
           starts == StartersOf(queue, p)
           waits == {j \in JobsOf(queue, p) : ~Running(j) /\ ~Starts(queue, j)}
<1>3. /\ Cardinality(RunningOf(Started(queue, now), p)) = r + Cardinality(starts)
      /\ r \in Nat /\ Cardinality(starts) \in Nat /\ IsFiniteSet(starts)
  BY <1>2, StartedRun
<1>4. i \in waits /\ waits \subseteq queue
  BY <1>2 DEF JobsOf
<1>5. \A j \in waits : j \in queue /\ j.owner = p /\ ~Running(j) /\ ~Starts(queue, j)
                       /\ j.sequence \in Nat
  BY JobIs DEF Sound, JobsOf
<1>6. PICK j \in waits : \A k \in waits : j.sequence <= k.sequence
  <2> HIDE DEF waits
  <2>1. IsFiniteSet(waits)
    BY <1>4, FS_Subset DEF Sound
  <2> QED BY <1>4, <1>5, <2>1, Oldest
<1>7. Ahead(queue, j) \subseteq starts
  <2> SUFFICES ASSUME NEW k \in Ahead(queue, j) PROVE k \in starts
    OBVIOUS
  <2>1. k \in queue /\ k.owner = p /\ ~Running(k) /\ k.sequence < j.sequence /\ k.sequence \in Nat
    BY <1>5, JobIs DEF Ahead, JobsOf, Sound
  <2>2. k \notin waits
    BY <1>5, <1>6, <2>1
  <2> QED BY <2>1, <2>2 DEF StartersOf, JobsOf
<1>8. Cardinality(Ahead(queue, j)) \in Nat /\ Cardinality(Ahead(queue, j)) <= Cardinality(starts)
  <2> HIDE DEF starts
  <2>1. IsFiniteSet(Ahead(queue, j)) /\ Cardinality(Ahead(queue, j)) <= Cardinality(starts)
    BY <1>3, <1>7, FS_Subset
  <2> QED BY <2>1, FS_CardinalityType
<1>9. ~(r + Cardinality(Ahead(queue, j)) < Slots[tier])
  BY <1>5 DEF Starts
<1> HIDE DEF p, r, starts
<1>10. Cardinality(RunningOf(Started(queue, now), p)) >= Slots[tier]
  BY <1>3, <1>8, <1>9, SlotsAre
<1> QED BY <1>2, <1>10 DEF p

LEMMA StartedInOrder ==
    ASSUME NEW queue, NEW now \in Nat, Sound(queue), Drains(queue), tier \in AuthoredTier..TierCap
    PROVE  Drains(Started(queue, now))
<1> SUFFICES ASSUME NEW a \in queue, NEW b \in queue,
                    Step(queue, now, a).owner = Step(queue, now, b).owner,
                    Running(Step(queue, now, a)),
                    Step(queue, now, b).sequence < Step(queue, now, a).sequence
             PROVE  Running(Step(queue, now, b))
  BY StartedIs DEF Drains
<1>1. /\ a.owner = b.owner /\ b.sequence < a.sequence
      /\ Running(a) \/ Starts(queue, a)
      /\ (Running(Step(queue, now, b)) <=> Running(b) \/ Starts(queue, b))
      /\ a.sequence \in Nat /\ b.sequence \in Nat
  BY StepIs, JobIs DEF Sound, AsPriced
<1>2. CASE Running(a)
  BY <1>1, <1>2 DEF Drains
<1>3. CASE Starts(queue, a) /\ ~Running(b)
  <2> DEFINE r == Cardinality(RunningOf(queue, a.owner))
             x == Ahead(queue, a)
             y == Ahead(queue, b)
  <2>1. r + Cardinality(x) < Slots[tier]
    BY <1>3 DEF Starts
  <2>2. y \subseteq x /\ x \subseteq queue
    <3>1. \A k \in queue : k.sequence \in Nat
      BY JobIs DEF Sound
    <3> QED BY <1>1, <3>1 DEF Ahead, JobsOf
  <2>3. IsFiniteSet(x) /\ RunningOf(queue, a.owner) \subseteq queue
    <3> HIDE DEF x
    <3> QED BY <2>2, FS_Subset DEF Sound, RunningOf, JobsOf
  <2>4. r \in Nat
    BY <2>3, FS_Subset, FS_CardinalityType DEF Sound
  <2> HIDE DEF x, y
  <2>5. Cardinality(y) <= Cardinality(x) /\ Cardinality(x) \in Nat /\ Cardinality(y) \in Nat
    BY <2>2, <2>3, FS_Subset, FS_CardinalityType
  <2>6. r + Cardinality(y) < Slots[tier]
    <3> HIDE DEF r
    <3> QED BY <2>1, <2>4, <2>5, SlotsAre
  <2>7. Starts(queue, b)
    BY <1>1, <1>3, <2>6 DEF Starts, r, y
  <2> QED BY <1>1, <2>7
<1> QED BY <1>1, <1>2, <1>3

LEMMA StartedInput ==
    ASSUME NEW queue, NEW now \in Nat, Sound(queue)
    PROVE  SumFunction([j \in Started(queue, now) |-> Input(j)])
             = SumFunction([j \in queue |-> Input(j)])
<1> DEFINE m == [j \in queue |-> Step(queue, now, j)]
           f == [j \in Started(queue, now) |-> Input(j)]
           g == [j \in queue |-> Input(j)]
<1>1. Started(queue, now) = {m[j] : j \in queue}
  BY StartedIs
<1>2. \A j \in queue :
        /\ m[j].sequence = j.sequence /\ Input(m[j]) = Input(j) /\ Input(j) \in Nat
  BY StepIs, JobIs DEF Sound, AsPriced
<1>3. \A j, k \in queue : m[j] = m[k] => j = k
  BY <1>2 DEF Sound, ByNumber
<1>4. \A j \in queue : m[j] \in Started(queue, now)
  BY <1>1
<1>5. \A j \in queue : f[m[j]] = g[j] /\ g[j] \in Nat
  BY <1>2, <1>4
<1>6. DOMAIN f = Started(queue, now) /\ DOMAIN g = queue
  OBVIOUS
<1> HIDE DEF m, f, g
<1>7. SumFunctionOnSet(f, {m[j] : j \in queue}) = SumFunctionOnSet(g, queue)
  BY <1>3, <1>5, SumThrough DEF Sound
<1>8. SumFunction(f) = SumFunction(g)
  BY <1>1, <1>6, <1>7 DEF SumFunction
<1> QED BY <1>8 DEF f, g

-----------------------------------------------------------------------------
(* What AdvanceRefining pays out.                                            *)

LEMMA SumOfZeros ==
    ASSUME NEW f, NEW D, IsFiniteSet(D), \A x \in D : f[x] = 0
    PROVE  SumFunctionOnSet(f, D) = 0
<1> DEFINE Good == {U \in SUBSET D : SumFunctionOnSet(f, U) = 0}
<1>1. {} \in Good
  BY SumOfNothing
<1>2. ASSUME NEW U \in SUBSET D, NEW x \in D \ U, U \in Good PROVE U \cup {x} \in Good
  <2>1. IsFiniteSet(U) /\ x \notin U /\ \A y \in U \cup {x} : f[y] \in Nat
    BY FS_Subset
  <2>2. SumFunctionOnSet(f, U \cup {x}) = f[x] + SumFunctionOnSet(f, U)
    BY <2>1, SumAdds
  <2>3. f[x] = 0 /\ SumFunctionOnSet(f, U) = 0
    BY <1>2
  <2>4. SumFunctionOnSet(f, U \cup {x}) = 0
    BY <2>2, <2>3
  <2> QED BY <2>4
<1> HIDE DEF Good
<1>3. \A U \in SUBSET D : U \in Good
  BY <1>1, <1>2, SetInduction
<1>4. D \in Good
  BY <1>3
<1> QED BY <1>4 DEF Good

\* What every commander gets, together, is what there is.
LEMMA SumByOwner ==
    ASSUME NEW v, NEW D, IsFiniteSet(D), \A j \in D : v[j] \in Nat /\ j.owner \in Players
    PROVE  SumFunctionOnSet([p \in Players |-> SumFunctionOnSet(v, JobsOf(D, p))], Players)
             = SumFunctionOnSet(v, D)
<1> DEFINE shares(U) == [p \in Players |-> SumFunctionOnSet(v, JobsOf(U, p))]
           Good == {U \in SUBSET D :
                       SumFunctionOnSet(shares(U), Players) = SumFunctionOnSet(v, U)}
<1>1. IsFiniteSet(Players)
  BY StationAssumption
<1>2. \A U \in SUBSET D : \A p : /\ JobsOf(U, p) \subseteq U /\ IsFiniteSet(JobsOf(U, p))
                                 /\ SumFunctionOnSet(v, JobsOf(U, p)) \in Nat
  <2> SUFFICES ASSUME NEW U \in SUBSET D, NEW p
               PROVE  /\ JobsOf(U, p) \subseteq U /\ IsFiniteSet(JobsOf(U, p))
                      /\ SumFunctionOnSet(v, JobsOf(U, p)) \in Nat
    OBVIOUS
  <2>1. JobsOf(U, p) \subseteq U /\ JobsOf(U, p) \subseteq D
    BY DEF JobsOf
  <2>2. IsFiniteSet(JobsOf(U, p))
    BY <2>1, FS_Subset
  <2>3. SumFunctionOnSet(v, JobsOf(U, p)) \in Nat
    BY <2>1, <2>2, SumIsNumber
  <2> QED BY <2>1, <2>2, <2>3
<1>3. {} \in Good
  <2> DEFINE f == shares({})
  <2>1. \A p \in Players : f[p] = 0
    <3>1. \A p : JobsOf({}, p) = {}
      BY DEF JobsOf
    <3> QED BY <3>1, SumOfNothing
  <2> HIDE DEF f
  <2>2. SumFunctionOnSet(f, Players) = 0
    BY <1>1, <2>1, SumOfZeros
  <2> QED BY <2>2, SumOfNothing DEF f
<1>4. ASSUME NEW U \in SUBSET D, NEW x \in D \ U, U \in Good PROVE U \cup {x} \in Good
  <2> DEFINE f == shares(U)  g == shares(U \cup {x})  o == x.owner
  <2>1. o \in Players /\ x \notin U /\ IsFiniteSet(U) /\ U \cup {x} \in SUBSET D
    BY FS_Subset
  <2>2. \A p \in Players : f[p] \in Nat /\ g[p] \in Nat
    BY <1>2, <2>1
  <2>3. \A p \in Players : p # o => g[p] = f[p]
    <3>1. \A p \in Players : p # o => JobsOf(U \cup {x}, p) = JobsOf(U, p)
      BY DEF JobsOf
    <3> QED BY <3>1
  <2>4. g[o] = v[x] + f[o]
    <3>1. JobsOf(U \cup {x}, o) = JobsOf(U, o) \cup {x} /\ x \notin JobsOf(U, o)
      BY <2>1 DEF JobsOf
    <3>2. IsFiniteSet(JobsOf(U, o)) /\ \A y \in JobsOf(U, o) \cup {x} : v[y] \in Nat
      BY <1>2
    <3>3. SumFunctionOnSet(v, JobsOf(U, o) \cup {x}) = v[x] + SumFunctionOnSet(v, JobsOf(U, o))
      BY <3>1, <3>2, SumAdds
    <3> QED BY <2>1, <3>1, <3>3
  <2> HIDE DEF f, g, o
  <2>5. SumFunctionOnSet(g, Players) + f[o] = SumFunctionOnSet(f, Players) + g[o]
    BY <1>1, <2>1, <2>2, <2>3, SumWithOne
  <2>6. SumFunctionOnSet(g, Players) \in Nat /\ SumFunctionOnSet(f, Players) \in Nat
    BY <1>1, <2>2, SumIsNumber
  <2>7. f[o] \in Nat /\ g[o] \in Nat /\ v[x] \in Nat
    BY <2>1, <2>2
  <2>8. SumFunctionOnSet(g, Players) = v[x] + SumFunctionOnSet(f, Players)
    BY <2>4, <2>5, <2>6, <2>7
  <2>9. SumFunctionOnSet(f, Players) = SumFunctionOnSet(v, U)
    BY <1>4 DEF f
  <2>10. SumFunctionOnSet(v, U \cup {x}) = v[x] + SumFunctionOnSet(v, U)
    <3>1. \A y \in U \cup {x} : v[y] \in Nat
      OBVIOUS
    <3> QED BY <2>1, <3>1, SumAdds
  <2>11. SumFunctionOnSet(g, Players) = SumFunctionOnSet(v, U \cup {x})
    BY <2>8, <2>9, <2>10
  <2> QED BY <2>1, <2>11 DEF g
<1> HIDE DEF Good
<1>5. \A U \in SUBSET D : U \in Good
  BY <1>3, <1>4, SetInduction
<1>6. D \in Good
  BY <1>5
<1> QED BY <1>6 DEF Good

LEMMA Credited ==
    ASSUME NEW v, NEW D, IsFiniteSet(D), \A j \in D : v[j] \in Nat /\ j.owner \in Players,
           NEW ore \in [Players -> Nat],
           NEW after, after = [p \in Players |-> ore[p] + SumFunctionOnSet(v, JobsOf(D, p))]
    PROVE  /\ after \in [Players -> Nat]
           /\ SumFunctionOnSet(after, Players)
                = SumFunctionOnSet(ore, Players) + SumFunctionOnSet(v, D)
<1> DEFINE shares == [p \in Players |-> SumFunctionOnSet(v, JobsOf(D, p))]
<1>1. \A p \in Players : shares[p] \in Nat
  <2> SUFFICES ASSUME NEW p \in Players PROVE SumFunctionOnSet(v, JobsOf(D, p)) \in Nat
    OBVIOUS
  <2>1. JobsOf(D, p) \subseteq D
    BY DEF JobsOf
  <2>2. IsFiniteSet(JobsOf(D, p))
    BY <2>1, FS_Subset
  <2> QED BY <2>1, <2>2, SumIsNumber
<1>2. SumFunctionOnSet(shares, Players) = SumFunctionOnSet(v, D)
  BY SumByOwner
<1>3. \A p \in Players : after[p] = ore[p] + shares[p]
  OBVIOUS
<1> HIDE DEF shares
<1>4. after \in [Players -> Nat]
  <2>1. \A p \in Players : after[p] \in Nat
    BY <1>1, <1>3
  <2> QED BY <2>1
<1>5. \A p \in Players : ore[p] \in Nat
  OBVIOUS
<1>6. SumFunctionOnSet(after, Players)
        = SumFunctionOnSet(ore, Players) + SumFunctionOnSet(shares, Players)
  BY <1>1, <1>3, <1>5, StationAssumption, SumOfSums
<1> QED BY <1>2, <1>4, <1>6

\* What stays when some of a queue leaves.
LEMMA FewerJobs ==
    ASSUME NEW queue, Sound(queue), Drains(queue), NEW left, left \subseteq queue
    PROVE  /\ Sound(left) /\ Drains(left)
           /\ \A p : /\ Cardinality(JobsOf(left, p)) <= Cardinality(JobsOf(queue, p))
                     /\ Cardinality(RunningOf(left, p)) <= Cardinality(RunningOf(queue, p))
                     /\ Cardinality(JobsOf(queue, p)) \in Nat
                     /\ Cardinality(JobsOf(left, p)) \in Nat
                     /\ Cardinality(RunningOf(queue, p)) \in Nat
                     /\ Cardinality(RunningOf(left, p)) \in Nat
<1>1. IsFiniteSet(left)
  BY FS_Subset DEF Sound
<1>2. Sound(left) /\ Drains(left)
  BY <1>1 DEF Sound, ByNumber, AsPriced, Drains
<1>3. ASSUME NEW p
      PROVE  /\ Cardinality(JobsOf(left, p)) <= Cardinality(JobsOf(queue, p))
             /\ Cardinality(RunningOf(left, p)) <= Cardinality(RunningOf(queue, p))
             /\ Cardinality(JobsOf(queue, p)) \in Nat
             /\ Cardinality(JobsOf(left, p)) \in Nat
             /\ Cardinality(RunningOf(queue, p)) \in Nat
             /\ Cardinality(RunningOf(left, p)) \in Nat
  <2>1. /\ JobsOf(left, p) \subseteq JobsOf(queue, p) /\ JobsOf(queue, p) \subseteq queue
        /\ RunningOf(left, p) \subseteq RunningOf(queue, p) /\ RunningOf(queue, p) \subseteq queue
    BY DEF JobsOf, RunningOf
  <2>2. IsFiniteSet(JobsOf(queue, p)) /\ IsFiniteSet(RunningOf(queue, p))
    BY <2>1, FS_Subset DEF Sound
  <2>3. IsFiniteSet(JobsOf(left, p)) /\ IsFiniteSet(RunningOf(left, p))
    BY <2>1, <2>2, FS_Subset
  <2>4. /\ Cardinality(JobsOf(left, p)) <= Cardinality(JobsOf(queue, p))
        /\ Cardinality(RunningOf(left, p)) <= Cardinality(RunningOf(queue, p))
    BY <2>1, <2>2, FS_Subset
  <2> QED BY <2>2, <2>3, <2>4, FS_CardinalityType
<1> QED BY <1>2, <1>3

\* The queue after an advance: who is left, in order, and gone in time.
LEMMA AdvanceQueue ==
    ASSUME NEW queue, NEW ore, NEW now \in Nat, Sound(queue), Drains(queue),
           tier \in AuthoredTier..TierCap, AdvanceRefining(queue, ore, now)
    PROVE  /\ Sound(jobs') /\ Drains(jobs')
           /\ \A j \in jobs' : \E k \in queue : k.sequence = j.sequence
           /\ \A j \in jobs' : Running(j) => j.complete > now
           /\ \A j \in jobs' : ~Running(j) =>
                 Cardinality(RunningOf(jobs', j.owner)) >= Slots[tier]
<1> DEFINE left == queue \ Due(queue, now)
<1>1. jobs' = Started(left, now) /\ left \subseteq queue
  BY DEF AdvanceRefining
<1>2. \A j \in left : Running(j) => j.complete > now
  <2>1. \A j \in left : j.complete \in Nat
    BY JobIs DEF Sound
  <2> QED BY <2>1 DEF Due
<1> HIDE DEF left
<1>3. Sound(left) /\ Drains(left)
  BY <1>1, FewerJobs
<1>4. Sound(jobs') /\ Drains(jobs')
  BY <1>1, <1>3, StartedSound, StartedInOrder
<1>5. \A j \in left : LET s == Step(left, now, j)
                      IN  s.sequence = j.sequence /\ (Running(s) => s.complete > now)
  <2> SUFFICES ASSUME NEW j \in left
               PROVE  /\ Step(left, now, j).sequence = j.sequence
                      /\ Running(Step(left, now, j)) => Step(left, now, j).complete > now
    OBVIOUS
  <2>1. j \in Job /\ j.ticks > 0 /\ j.ticks \in Nat
    BY <1>3, JobIs DEF Sound, AsPriced
  <2> DEFINE s == Step(left, now, j)
  <2>2. /\ s.sequence = j.sequence
        /\ Running(s) <=> Running(j) \/ Starts(left, j)
        /\ s.complete = IF Starts(left, j) THEN now + j.ticks ELSE j.complete
    BY <2>1, StepIs
  <2> HIDE DEF s
  <2>3. Running(s) => s.complete > now
    BY <1>2, <2>1, <2>2
  <2> QED BY <2>2, <2>3 DEF s
<1>6. /\ \A j \in jobs' : \E k \in queue : k.sequence = j.sequence
      /\ \A j \in jobs' : Running(j) => j.complete > now
  BY <1>1, <1>5, StartedIs
<1>7. \A j \in jobs' : ~Running(j) => Cardinality(RunningOf(jobs', j.owner)) >= Slots[tier]
  BY <1>1, <1>3, StartedFills
<1> QED BY <1>4, <1>6, <1>7

\* Nobody has more in the refinery for an advance, nor more in its slots than fit.
LEMMA AdvanceBounds ==
    ASSUME NEW queue, NEW ore, NEW now \in Nat, Sound(queue), Drains(queue),
           tier \in AuthoredTier..TierCap, AdvanceRefining(queue, ore, now),
           NEW p \in Players, Cardinality(RunningOf(queue, p)) <= Slots[tier]
    PROVE  /\ Cardinality(JobsOf(jobs', p)) <= Cardinality(JobsOf(queue, p))
           /\ Cardinality(RunningOf(jobs', p)) <= Slots[tier]
<1> DEFINE left == queue \ Due(queue, now)
<1>1. jobs' = Started(left, now) /\ left \subseteq queue
  BY DEF AdvanceRefining
<1> HIDE DEF left
<1>2. /\ Sound(left)
      /\ Cardinality(JobsOf(left, p)) <= Cardinality(JobsOf(queue, p))
      /\ Cardinality(RunningOf(left, p)) <= Cardinality(RunningOf(queue, p))
      /\ Cardinality(RunningOf(queue, p)) \in Nat /\ Cardinality(RunningOf(left, p)) \in Nat
  BY <1>1, FewerJobs
<1>3. Cardinality(RunningOf(left, p)) <= Slots[tier]
  BY <1>2, SlotsAre
<1>4. Cardinality(RunningOf(Started(left, now), p)) <= Slots[tier]
  BY <1>2, <1>3, StartedFits
<1>5. Cardinality(JobsOf(Started(left, now), p)) = Cardinality(JobsOf(left, p))
  BY <1>2, StartedKeeps
<1> QED BY <1>1, <1>2, <1>4, <1>5

LEMMA DueIs ==
    ASSUME NEW queue, NEW now, Sound(queue)
    PROVE  /\ Due(queue, now) \subseteq queue /\ IsFiniteSet(Due(queue, now))
           /\ IsFiniteSet(queue \ Due(queue, now)) /\ IsFiniteSet(queue)
           /\ Sound(queue \ Due(queue, now))
<1>1. Due(queue, now) \subseteq queue
  BY DEF Due
<1>2. /\ IsFiniteSet(Due(queue, now)) /\ IsFiniteSet(queue \ Due(queue, now))
      /\ IsFiniteSet(queue)
  BY <1>1, FS_Subset DEF Sound
<1>3. Sound(queue \ Due(queue, now))
  BY <1>2 DEF Sound, ByNumber, AsPriced
<1> QED BY <1>1, <1>2, <1>3

\* Of the ore, what was put into the jobs that are done is refunded or used up.
LEMMA AdvanceOre ==
    ASSUME NEW queue, NEW ore \in [Players -> Nat], NEW now \in Nat, Sound(queue),
           consumed \in Nat, AdvanceRefining(queue, ore, now)
    PROVE  /\ bayOre' \in [Players -> Nat] /\ consumed' \in Nat
           /\ SumFunctionOnSet(bayOre', Players)
                 + SumFunction([j \in jobs' |-> Input(j)]) + consumed'
               = SumFunctionOnSet(ore, Players)
                 + SumFunction([j \in queue |-> Input(j)]) + consumed
           /\ SumFunctionOnSet(ore, Players) \in Nat
           /\ SumFunctionOnSet(bayOre', Players) \in Nat
           /\ SumFunction([j \in jobs' |-> Input(j)]) \in Nat
           /\ SumFunction([j \in queue |-> Input(j)]) \in Nat
<1> DEFINE done == Due(queue, now)
           left == queue \ done
           v == [j \in done |-> j.refund]
           w == [j \in done |-> Input(j) - j.refund]
           in == [j \in queue |-> Input(j)]
           stay == [j \in left |-> Input(j)]
<1>1. /\ done \subseteq queue /\ left \subseteq queue /\ Sound(left)
      /\ IsFiniteSet(done) /\ IsFiniteSet(left) /\ IsFiniteSet(queue)
      /\ left \cap done = {} /\ left \cup done = queue
  BY DueIs
<1>2. \A j \in queue : /\ j.owner \in Players /\ Input(j) \in Nat /\ j.refund \in Nat
                       /\ j.refund <= Input(j)
  BY JobIs DEF Sound, AsPriced
<1>3. /\ jobs' = Started(left, now)
      /\ bayOre' = [p \in Players |-> ore[p] + Refunded(JobsOf(done, p))]
      /\ consumed' = consumed + SumFunction(w)
  BY DEF AdvanceRefining
<1>4. SumFunction(w) = SumFunctionOnSet(w, done) /\ SumFunction(in) = SumFunctionOnSet(in, queue)
      /\ SumFunction(stay) = SumFunctionOnSet(stay, left)
  BY DEF SumFunction
<1>5. /\ \A j \in done : /\ v[j] \in Nat /\ w[j] \in Nat /\ in[j] \in Nat
                         /\ in[j] = v[j] + w[j] /\ v[j] = j.refund
      /\ \A j \in queue : in[j] \in Nat
      /\ \A j \in left : stay[j] = in[j]
  BY <1>1, <1>2
<1>6. SumFunction([j \in jobs' |-> Input(j)]) = SumFunction(stay)
  BY <1>1, <1>3, StartedInput
<1>7. ASSUME NEW p \in Players
      PROVE  Refunded(JobsOf(done, p)) = SumFunctionOnSet(v, JobsOf(done, p))
  <2> DEFINE mine == JobsOf(done, p)
             u == [j \in mine |-> Refund(j)]
  <2>1. mine \subseteq done
    BY DEF JobsOf
  <2>2. IsFiniteSet(mine)
    BY <1>1, <2>1, FS_Subset
  <2>3. Refunded(mine) = SumFunctionOnSet(u, mine)
    BY DEF Refunded, SumFunction
  <2>4. \A j \in mine : u[j] = v[j]
    BY <1>5, <2>1 DEF Refund
  <2> HIDE DEF mine, u, v
  <2>5. SumFunctionOnSet(u, mine) = SumFunctionOnSet(v, mine)
    BY <2>2, <2>4, SumSame
  <2> QED BY <2>3, <2>5 DEF mine
<1> HIDE DEF done, left, v, w, in, stay
<1>8. bayOre' = [p \in Players |-> ore[p] + SumFunctionOnSet(v, JobsOf(done, p))]
  BY <1>3, <1>7
<1>9. /\ bayOre' \in [Players -> Nat]
      /\ SumFunctionOnSet(bayOre', Players)
           = SumFunctionOnSet(ore, Players) + SumFunctionOnSet(v, done)
  <2>1. \A j \in done : v[j] \in Nat /\ j.owner \in Players
    BY <1>1, <1>2, <1>5
  <2>2. ore \in [Players -> Nat]
    OBVIOUS
  <2> QED BY <1>1, <1>8, <2>1, <2>2, Credited
<1>10. SumFunctionOnSet(in, queue) = SumFunctionOnSet(in, left) + SumFunctionOnSet(in, done)
  <2>1. SumFunctionOnSet(in, left \cup done)
          = SumFunctionOnSet(in, left) + SumFunctionOnSet(in, done)
    BY <1>1, <1>5, SumTogether
  <2> QED BY <1>1, <2>1
<1>11. SumFunctionOnSet(in, done) = SumFunctionOnSet(v, done) + SumFunctionOnSet(w, done)
  BY <1>1, <1>5, SumOfSums
<1>12. SumFunctionOnSet(stay, left) = SumFunctionOnSet(in, left)
  BY <1>1, <1>5, SumSame
<1>13. /\ SumFunctionOnSet(v, done) \in Nat /\ SumFunctionOnSet(w, done) \in Nat
       /\ SumFunctionOnSet(in, left) \in Nat /\ SumFunctionOnSet(in, queue) \in Nat
  BY <1>1, <1>5, SumIsNumber
<1>14. /\ SumFunctionOnSet(ore, Players) \in Nat /\ SumFunctionOnSet(bayOre', Players) \in Nat
  <2>1. \A p \in Players : ore[p] \in Nat
    OBVIOUS
  <2>2. \A p \in Players : bayOre'[p] \in Nat
    BY <1>9
  <2> QED BY <2>1, <2>2, StationAssumption, SumIsNumber
<1>15. consumed' \in Nat
  BY <1>3, <1>4, <1>13
<1>16. SumFunctionOnSet(bayOre', Players) + SumFunction([j \in jobs' |-> Input(j)]) + consumed'
         = SumFunctionOnSet(ore, Players) + SumFunction(in) + consumed
  <2> DEFINE a == SumFunctionOnSet(bayOre', Players)  b == SumFunctionOnSet(ore, Players)
             x == SumFunction([j \in jobs' |-> Input(j)])  y == SumFunction(in)
             sv == SumFunctionOnSet(v, done)  sw == SumFunctionOnSet(w, done)
             sl == SumFunctionOnSet(in, left)
  <2>1. a = b + sv /\ x = sl /\ y = sl + (sv + sw) /\ consumed' = consumed + sw
    BY <1>3, <1>4, <1>6, <1>9, <1>10, <1>11, <1>12
  <2>2. b \in Nat /\ sv \in Nat /\ sw \in Nat /\ sl \in Nat
    BY <1>13, <1>14
  <2> HIDE DEF a, b, x, y, sv, sw, sl
  <2>3. a + x + consumed' = b + y + consumed
    BY <2>1, <2>2
  <2> QED BY <2>3 DEF a, b, x, y
<1>17. SumFunction([j \in jobs' |-> Input(j)]) \in Nat /\ SumFunction(in) \in Nat
  BY <1>4, <1>6, <1>12, <1>13
<1> QED BY <1>9, <1>14, <1>15, <1>16, <1>17 DEF in

\* Of the alloy, the commanders get what was cooked.
LEMMA AdvanceAlloy ==
    ASSUME NEW queue, NEW ore, NEW now \in Nat, Sound(queue),
           bayAlloy \in [Players -> Nat], cooked \in Nat, AdvanceRefining(queue, ore, now)
    PROVE  /\ bayAlloy' \in [Players -> Nat] /\ cooked' \in Nat
           /\ SumFunction(bayAlloy) \in Nat
           /\ \E made \in Nat : /\ SumFunction(bayAlloy') = SumFunction(bayAlloy) + made
                                /\ cooked' = cooked + made
<1> DEFINE done == Due(queue, now)
           v == [j \in done |-> j.units]
<1>1. done \subseteq queue /\ IsFiniteSet(done)
  BY DueIs
<1>2. \A j \in queue : j.owner \in Players /\ j.units \in Nat
  BY JobIs DEF Sound
<1>3. /\ bayAlloy' = [p \in Players |-> bayAlloy[p] + UnitsOf(JobsOf(done, p))]
      /\ cooked' = cooked + UnitsOf(done)
  BY DEF AdvanceRefining
<1>4. UnitsOf(done) = SumFunctionOnSet(v, done)
  BY DEF UnitsOf, SumFunction
<1>5. \A j \in done : v[j] = j.units /\ v[j] \in Nat /\ j.owner \in Players
  BY <1>1, <1>2
<1>6. ASSUME NEW p \in Players
      PROVE  UnitsOf(JobsOf(done, p)) = SumFunctionOnSet(v, JobsOf(done, p))
  <2> DEFINE mine == JobsOf(done, p)
             u == [j \in mine |-> j.units]
  <2>1. mine \subseteq done
    BY DEF JobsOf
  <2>2. IsFiniteSet(mine)
    BY <1>1, <2>1, FS_Subset
  <2>3. UnitsOf(mine) = SumFunctionOnSet(u, mine)
    BY DEF UnitsOf, SumFunction
  <2>4. \A j \in mine : u[j] = v[j]
    BY <1>5, <2>1
  <2> HIDE DEF mine, u, v
  <2>5. SumFunctionOnSet(u, mine) = SumFunctionOnSet(v, mine)
    BY <2>2, <2>4, SumSame
  <2> QED BY <2>3, <2>5 DEF mine
<1> HIDE DEF done, v
<1>7. bayAlloy' = [p \in Players |-> bayAlloy[p] + SumFunctionOnSet(v, JobsOf(done, p))]
  BY <1>3, <1>6
<1>8. /\ bayAlloy' \in [Players -> Nat]
      /\ SumFunctionOnSet(bayAlloy', Players)
           = SumFunctionOnSet(bayAlloy, Players) + SumFunctionOnSet(v, done)
  BY <1>1, <1>5, <1>7, Credited
<1>9. SumFunctionOnSet(v, done) \in Nat
  BY <1>1, <1>5, SumIsNumber
<1>10. SumFunctionOnSet(bayAlloy, Players) \in Nat
  <2>1. \A p \in Players : bayAlloy[p] \in Nat
    OBVIOUS
  <2> QED BY <2>1, StationAssumption, SumIsNumber
<1>11. DOMAIN bayAlloy = Players /\ DOMAIN bayAlloy' = Players
  BY <1>8
<1>12. /\ SumFunction(bayAlloy) = SumFunctionOnSet(bayAlloy, Players)
       /\ SumFunction(bayAlloy') = SumFunctionOnSet(bayAlloy', Players)
  BY <1>11 DEF SumFunction
<1>13. cooked' = cooked + SumFunctionOnSet(v, done) /\ cooked' \in Nat
  BY <1>3, <1>4, <1>9
<1> QED BY <1>8, <1>9, <1>10, <1>12, <1>13

-----------------------------------------------------------------------------
(* The books, in parts.                                                      *)

LEMMA HoldAndBay ==
    ASSUME NEW h \in [Players -> Nat], NEW b \in [Players -> Nat]
    PROVE  /\ SumFunction([p \in Players |-> h[p] + b[p]])
                = SumFunctionOnSet(h, Players) + SumFunctionOnSet(b, Players)
           /\ SumFunctionOnSet(h, Players) \in Nat /\ SumFunctionOnSet(b, Players) \in Nat
<1> DEFINE f == [p \in Players |-> h[p] + b[p]]
<1>1. \A p \in Players : h[p] \in Nat /\ b[p] \in Nat /\ f[p] = h[p] + b[p]
  OBVIOUS
<1>2. SumFunction(f) = SumFunctionOnSet(f, Players)
  BY DEF SumFunction
<1> HIDE DEF f
<1>3. SumFunctionOnSet(f, Players) = SumFunctionOnSet(h, Players) + SumFunctionOnSet(b, Players)
  BY <1>1, StationAssumption, SumOfSums
<1>4. SumFunctionOnSet(h, Players) \in Nat /\ SumFunctionOnSet(b, Players) \in Nat
  BY <1>1, StationAssumption, SumIsNumber
<1> QED BY <1>2, <1>3, <1>4 DEF f

LEMMA HoldIs == Typed => hold \in [Players -> Nat]
<1>1. 0..HoldUnits \subseteq Nat
  BY StationAssumption
<1> QED BY <1>1 DEF Typed

LEMMA QueueIs ==
    ASSUME IInv
    PROVE  /\ Sound(jobs) /\ Drains(jobs)
           /\ SumFunction([j \in jobs |-> Input(j)]) \in Nat
<1>1. Sound(jobs) /\ Drains(jobs)
  BY DEF IInv, Typed, QueueKept, OneJobPerSequence, DrainsInOrder, Sound, ByNumber, Drains
<1> DEFINE in == [j \in jobs |-> Input(j)]
<1>2. \A j \in jobs : in[j] \in Nat
  BY <1>1, JobIs DEF Sound
<1>3. SumFunction(in) = SumFunctionOnSet(in, jobs)
  BY DEF SumFunction
<1> HIDE DEF in
<1>4. SumFunction(in) \in Nat
  BY <1>1, <1>2, <1>3, SumIsNumber DEF Sound
<1> QED BY <1>1, <1>4 DEF in

LEMMA OreKept ==
    ASSUME IInv, hold' \in [Players -> Nat], bayOre' \in [Players -> Nat],
           SumFunction([j \in jobs' |-> Input(j)]) \in Nat, consumed' \in Nat,
           SumFunctionOnSet(hold', Players) + (SumFunctionOnSet(bayOre', Players)
                 + SumFunction([j \in jobs' |-> Input(j)]) + consumed')
             = SumFunctionOnSet(hold, Players) + (SumFunctionOnSet(bayOre, Players)
                 + SumFunction([j \in jobs |-> Input(j)]) + consumed)
    PROVE  OreBalances'
<1>1. hold \in [Players -> Nat] /\ bayOre \in [Players -> Nat] /\ OreBalances
  BY HoldIs DEF IInv, Typed, BooksBalance
<1>2. /\ SumFunction([p \in Players |-> hold[p] + bayOre[p]])
           = SumFunctionOnSet(hold, Players) + SumFunctionOnSet(bayOre, Players)
      /\ SumFunctionOnSet(hold, Players) \in Nat /\ SumFunctionOnSet(bayOre, Players) \in Nat
  BY <1>1, HoldAndBay
<1>3. /\ SumFunction([p \in Players |-> hold'[p] + bayOre'[p]])
           = SumFunctionOnSet(hold', Players) + SumFunctionOnSet(bayOre', Players)
      /\ SumFunctionOnSet(hold', Players) \in Nat /\ SumFunctionOnSet(bayOre', Players) \in Nat
  BY HoldAndBay
<1>4. OreSupply' = OreSupply
  BY DEF OreSupply
<1>5. consumed \in Nat /\ SumFunction([j \in jobs |-> Input(j)]) \in Nat
  BY QueueIs DEF IInv, Typed
<1>6. SumFunctionOnSet(hold, Players) + SumFunctionOnSet(bayOre, Players)
        + SumFunction([j \in jobs |-> Input(j)]) + consumed = OreSupply
  BY <1>1, <1>2 DEF OreBalances
<1>7. SumFunctionOnSet(hold', Players) + SumFunctionOnSet(bayOre', Players)
        + SumFunction([j \in jobs' |-> Input(j)]) + consumed' = OreSupply
  BY <1>2, <1>3, <1>5, <1>6
<1>8. SumFunction([p \in Players |-> hold'[p] + bayOre'[p]])
        + SumFunction([j \in jobs' |-> Input(j)]) + consumed' = OreSupply
  BY <1>3, <1>7
<1> QED BY <1>4, <1>8 DEF OreBalances, Input

Progress(row) == IF row = NoProject THEN 0 ELSE row

LEMMA Opening ==
    ASSUME IInv, NEW row, row \in {project, Opened}
    PROVE  /\ row \in {NoProject} \cup Nat /\ Progress(row) = Progress(project)
           /\ row # NoProject => tier < TierCap /\ row < ProjectCost[tier + 1]
<1>1. project \in {NoProject} \cup Nat /\ tier \in AuthoredTier..TierCap
  BY DEF IInv, Typed
<1>2. tier < TierCap => 0 < ProjectCost[tier + 1]
  <2>1. tier < TierCap => tier + 1 \in Tiers
    BY <1>1, StationAssumption DEF Tiers
  <2> QED BY <2>1, ContentAssumption
<1>3. project # NoProject => tier < TierCap /\ project < ProjectCost[tier + 1]
  BY DEF IInv, BooksBalance, ProjectStillOpen
<1> QED BY <1>1, <1>2, <1>3 DEF Opened, Progress, NoProject

LEMMA AlloyKept ==
    ASSUME IInv, project' \in {project, Opened}, tier' = tier, NEW made \in Nat,
           SumFunction(bayAlloy) \in Nat, SumFunction(bayAlloy') = SumFunction(bayAlloy) + made,
           cooked' = cooked + made
    PROVE  AlloyBalances' /\ ProjectStillOpen' /\ project' \in {NoProject} \cup Nat
<1>1. /\ project' \in {NoProject} \cup Nat /\ Progress(project') = Progress(project)
      /\ project' # NoProject => tier < TierCap /\ project' < ProjectCost[tier + 1]
  BY Opening
<1>2. ProjectStillOpen'
  BY <1>1 DEF ProjectStillOpen
<1> DEFINE bought == SumFunctionOnSet(ProjectCost, (AuthoredTier + 1)..tier)
<1>3. SumFunction(bayAlloy) + Progress(project) + bought = cooked
  BY DEF IInv, BooksBalance, AlloyBalances, Progress
<1>4. SumFunctionOnSet(ProjectCost, (AuthoredTier + 1)..tier') = bought
  OBVIOUS
<1>5. bought \in Nat
  <2>1. \A t \in (AuthoredTier + 1)..tier : ProjectCost[t] \in Nat
    <3>1. tier \in AuthoredTier..TierCap
      BY DEF IInv, Typed
    <3>2. (AuthoredTier + 1)..tier \subseteq Tiers
      BY <3>1, StationAssumption DEF Tiers
    <3>3. \A t \in Tiers : ProjectCost[t] \in Nat
      BY ContentAssumption
    <3> QED BY <3>2, <3>3
  <2>2. IsFiniteSet((AuthoredTier + 1)..tier)
    BY StationAssumption, FS_Interval DEF IInv, Typed, Tiers
  <2> QED BY <2>1, <2>2, SumIsNumber
<1>6. Progress(project) \in Nat
  BY DEF IInv, Typed, Progress
<1> HIDE DEF bought
<1>7. SumFunction(bayAlloy') + Progress(project') + bought = cooked'
  BY <1>1, <1>3, <1>5, <1>6
<1>8. AlloyBalances'
  BY <1>4, <1>7 DEF AlloyBalances, Progress
<1> QED BY <1>1, <1>2, <1>8

-----------------------------------------------------------------------------
(* The queue, when it is what the last lemmas make of it.                    *)

LEMMA QueueAfter ==
    ASSUME Sound(jobs'), Drains(jobs'),
           \A p \in Players :
              /\ Cardinality(RunningOf(jobs', p)) <= Slots[tier']
              /\ Cardinality(JobsOf(jobs', p)) <= Slots[tier'] + QueueDepth,
           \A j \in jobs' : j.sequence < nextJob',
           \A j \in jobs' : Running(j) => j.complete > shardTick'
    PROVE  /\ jobs' \subseteq Job /\ IsFiniteSet(jobs')
           /\ Numbered' /\ AsPriced(jobs') /\ QueueKept'
<1>1. SlotsHold' /\ QueueBounded'
  BY DEF SlotsHold, QueueBounded, RunningOf, JobsOf, Running
<1>2. DrainsInOrder' /\ OneJobPerSequence' /\ NoOverdueJob'
  BY DEF DrainsInOrder, OneJobPerSequence, NoOverdueJob, Drains, Sound, ByNumber, Running
<1>3. Numbered'
  BY DEF Numbered
<1> QED BY <1>1, <1>2, <1>3 DEF QueueKept, Sound

LEMMA SameQueue ==
    ASSUME IInv, UNCHANGED <<jobs, tier, shardTick>>, nextJob' = nextJob
    PROVE  /\ jobs' \subseteq Job /\ IsFiniteSet(jobs')
           /\ Numbered' /\ AsPriced(jobs') /\ QueueKept'
<1>1. Sound(jobs') /\ Drains(jobs')
  BY QueueIs
<1>2. \A p \in Players :
              /\ Cardinality(RunningOf(jobs', p)) <= Slots[tier']
              /\ Cardinality(JobsOf(jobs', p)) <= Slots[tier'] + QueueDepth
  BY DEF IInv, QueueKept, SlotsHold, QueueBounded
<1>3. /\ \A j \in jobs' : j.sequence < nextJob'
      /\ \A j \in jobs' : Running(j) => j.complete > shardTick'
  BY DEF IInv, Numbered, QueueKept, NoOverdueJob
<1> QED BY <1>1, <1>2, <1>3, QueueAfter

-----------------------------------------------------------------------------
(* Every step keeps the invariant.                                           *)

LEMMA InitHolds == Init => IInv
<1> SUFFICES ASSUME Init PROVE IInv
  OBVIOUS
<1>1. hold \in [Players -> 0..HoldUnits] /\ bayOre \in [Players -> Nat]
  BY StationAssumption DEF Init
<1>2. Typed
  <2>1. IsFiniteSet(jobs)
    BY FS_EmptySet DEF Init
  <2>2. 0 \in 0..MaxTick /\ 0 \in 0..MaxRestarts /\ 1 \in 1..(MaxJobs + 1)
    BY BoundAssumption
  <2>3. tier \in AuthoredTier..TierCap
    BY StationAssumption DEF Init, Tiers
  <2> QED BY <1>1, <2>1, <2>2, <2>3 DEF Init, Typed
<1>3. OreBalances
  <2> DEFINE in == [j \in jobs |-> Input(j)]
  <2>1. SumFunction(in) = 0
    <3>1. DOMAIN in = {}
      BY DEF Init
    <3> HIDE DEF in
    <3> QED BY <3>1, SumOfNothing DEF SumFunction
  <2>2. SumFunction([p \in Players |-> hold[p] + bayOre[p]]) = OreSupply
    BY DEF Init, OreSupply
  <2>3. SumFunction([p \in Players |-> hold[p] + bayOre[p]]) \in Nat
    <3>1. hold \in [Players -> Nat]
      BY <1>2, HoldIs
    <3> QED BY <1>1, <3>1, HoldAndBay
  <2> HIDE DEF in
  <2>4. consumed = 0
    BY DEF Init
  <2>5. SumFunction([p \in Players |-> hold[p] + bayOre[p]]) + SumFunction(in) + consumed = OreSupply
    BY <2>1, <2>2, <2>3, <2>4
  <2> QED BY <2>5 DEF OreBalances, in
<1>4. AlloyBalances
  <2>1. SumFunction(bayAlloy) = 0
    <3>1. DOMAIN bayAlloy = Players /\ \A p \in Players : bayAlloy[p] = 0
      BY DEF Init
    <3> QED BY <3>1, StationAssumption, SumOfZeros DEF SumFunction
  <2>2. (AuthoredTier + 1)..tier = {}
    BY StationAssumption DEF Init, Tiers
  <2>3. SumFunctionOnSet(ProjectCost, (AuthoredTier + 1)..tier) = 0
    BY <2>2, SumOfNothing
  <2>4. project = NoProject /\ cooked = 0
    BY DEF Init
  <2> QED BY <2>1, <2>3, <2>4 DEF AlloyBalances
<1>5. ProjectStillOpen /\ Numbered /\ AsPriced(jobs)
  BY DEF Init, ProjectStillOpen, Numbered, AsPriced
<1>6. QueueKept
  <2>1. \A p : JobsOf(jobs, p) = {} /\ RunningOf(jobs, p) = {}
    BY DEF Init, JobsOf, RunningOf
  <2>2. \A p : Cardinality(JobsOf(jobs, p)) = 0 /\ Cardinality(RunningOf(jobs, p)) = 0
    BY <2>1, FS_EmptySet
  <2>3. Slots[tier] \in Nat /\ QueueDepth \in Nat
    BY <1>2, SlotsAre, ContentAssumption DEF Typed
  <2>4. SlotsHold /\ QueueBounded
    BY <2>2, <2>3 DEF SlotsHold, QueueBounded
  <2>5. DrainsInOrder /\ OneJobPerSequence /\ NoOverdueJob
    BY DEF Init, DrainsInOrder, OneJobPerSequence, NoOverdueJob
  <2> QED BY <2>4, <2>5 DEF QueueKept
<1> QED BY <1>2, <1>3, <1>4, <1>5, <1>6 DEF IInv, BooksBalance

LEMMA TickKeeps == IInv /\ Tick => IInv'
<1> SUFFICES ASSUME IInv, Tick PROVE IInv'
  OBVIOUS
<1>1. /\ hostTick' \in 0..MaxTick /\ shardTick' = hostTick' /\ hostTick' \in Nat
      /\ AdvanceRefining(jobs, bayOre, hostTick')
      /\ UNCHANGED <<restarts, hold, nextJob, tier, project>>
  BY BoundAssumption DEF IInv, Typed, Tick
<1>2. Sound(jobs) /\ Drains(jobs) /\ SumFunction([j \in jobs |-> Input(j)]) \in Nat
  BY QueueIs
<1>3. tier \in AuthoredTier..TierCap /\ bayOre \in [Players -> Nat] /\ consumed \in Nat
      /\ bayAlloy \in [Players -> Nat] /\ cooked \in Nat
  BY DEF IInv, Typed
<1>4. /\ Sound(jobs') /\ Drains(jobs')
      /\ \A j \in jobs' : \E k \in jobs : k.sequence = j.sequence
      /\ \A j \in jobs' : Running(j) => j.complete > hostTick'
  BY <1>1, <1>2, <1>3, AdvanceQueue
<1>5. \A p \in Players : /\ Cardinality(RunningOf(jobs', p)) <= Slots[tier']
                         /\ Cardinality(JobsOf(jobs', p)) <= Slots[tier'] + QueueDepth
  <2> SUFFICES ASSUME NEW p \in Players
               PROVE  /\ Cardinality(RunningOf(jobs', p)) <= Slots[tier']
                      /\ Cardinality(JobsOf(jobs', p)) <= Slots[tier'] + QueueDepth
    OBVIOUS
  <2>1. /\ Cardinality(RunningOf(jobs, p)) <= Slots[tier]
        /\ Cardinality(JobsOf(jobs, p)) <= Slots[tier] + QueueDepth
    BY DEF IInv, QueueKept, SlotsHold, QueueBounded
  <2>2. /\ Cardinality(JobsOf(jobs', p)) <= Cardinality(JobsOf(jobs, p))
        /\ Cardinality(RunningOf(jobs', p)) <= Slots[tier]
    BY <1>1, <1>2, <1>3, <2>1, AdvanceBounds
  <2>3. /\ Cardinality(JobsOf(jobs, p)) \in Nat /\ Cardinality(JobsOf(jobs', p)) \in Nat
        /\ Slots[tier] \in Nat /\ QueueDepth \in Nat
    BY <1>2, <1>3, <1>4, FewerJobs, SlotsAre, ContentAssumption
  <2>4. tier' = tier
    BY <1>1
  <2> QED BY <2>1, <2>2, <2>3, <2>4
<1>6. \A j \in jobs' : j.sequence < nextJob'
  BY <1>1, <1>4 DEF IInv, Numbered
<1>7. /\ jobs' \subseteq Job /\ IsFiniteSet(jobs')
      /\ Numbered' /\ AsPriced(jobs') /\ QueueKept'
  BY <1>1, <1>4, <1>5, <1>6, QueueAfter
<1>8. /\ bayOre' \in [Players -> Nat] /\ consumed' \in Nat
      /\ SumFunctionOnSet(bayOre', Players)
            + SumFunction([j \in jobs' |-> Input(j)]) + consumed'
          = SumFunctionOnSet(bayOre, Players)
            + SumFunction([j \in jobs |-> Input(j)]) + consumed
      /\ SumFunctionOnSet(bayOre, Players) \in Nat /\ SumFunctionOnSet(bayOre', Players) \in Nat
      /\ SumFunction([j \in jobs' |-> Input(j)]) \in Nat
  BY <1>1, <1>2, <1>3, AdvanceOre
<1>9. OreBalances'
  <2>1. hold' = hold /\ hold \in [Players -> Nat]
    BY <1>1, HoldIs DEF IInv
  <2>2. SumFunctionOnSet(hold, Players) \in Nat
    BY <1>3, <2>1, HoldAndBay
  <2>3. SumFunctionOnSet(hold', Players) = SumFunctionOnSet(hold, Players)
    BY <2>1
  <2>4. SumFunctionOnSet(hold', Players) + (SumFunctionOnSet(bayOre', Players)
                 + SumFunction([j \in jobs' |-> Input(j)]) + consumed')
             = SumFunctionOnSet(hold, Players) + (SumFunctionOnSet(bayOre, Players)
                 + SumFunction([j \in jobs |-> Input(j)]) + consumed)
    BY <1>8, <2>3
  <2> QED BY <1>8, <2>1, <2>4, OreKept
<1>10. /\ bayAlloy' \in [Players -> Nat] /\ cooked' \in Nat
       /\ AlloyBalances' /\ ProjectStillOpen' /\ project' \in {NoProject} \cup Nat
  <2>1. /\ bayAlloy' \in [Players -> Nat] /\ cooked' \in Nat /\ SumFunction(bayAlloy) \in Nat
        /\ \E made \in Nat : /\ SumFunction(bayAlloy') = SumFunction(bayAlloy) + made
                             /\ cooked' = cooked + made
    BY <1>1, <1>2, <1>3, AdvanceAlloy
  <2>2. project' \in {project, Opened} /\ tier' = tier
    BY <1>1
  <2> QED BY <2>1, <2>2, AlloyKept
<1>11. Typed'
  BY <1>1, <1>7, <1>8, <1>10 DEF IInv, Typed
<1> QED BY <1>7, <1>9, <1>10, <1>11 DEF IInv, BooksBalance, AsPriced, Input

LEMMA OneCommander ==
    ASSUME NEW before \in [Players -> Nat], NEW after \in [Players -> Nat], NEW p \in Players,
           \A q \in Players : q # p => after[q] = before[q]
    PROVE  /\ SumFunctionOnSet(after, Players) + before[p]
                = SumFunctionOnSet(before, Players) + after[p]
           /\ SumFunctionOnSet(after, Players) \in Nat /\ SumFunctionOnSet(before, Players) \in Nat
           /\ after[p] \in Nat /\ before[p] \in Nat
<1>1. \A q \in Players : before[q] \in Nat /\ after[q] \in Nat
  OBVIOUS
<1>2. SumFunctionOnSet(after, Players) + before[p] = SumFunctionOnSet(before, Players) + after[p]
  BY <1>1, StationAssumption, SumWithOne
<1>3. SumFunctionOnSet(after, Players) \in Nat /\ SumFunctionOnSet(before, Players) \in Nat
  BY <1>1, StationAssumption, SumIsNumber
<1> QED BY <1>1, <1>2, <1>3

\* What the commands leave of the alloy, the tier and the clocks.
LEMMA OtherBooks ==
    ASSUME IInv, project' = Opened, UNCHANGED <<clockVars, alloyVars, tier>>
    PROVE  /\ AlloyBalances' /\ ProjectStillOpen' /\ project' \in {NoProject} \cup Nat
           /\ shardTick' \in 0..MaxTick /\ hostTick' \in 0..MaxTick
           /\ bayAlloy' \in [Players -> Nat] /\ cooked' \in Nat
           /\ tier' \in AuthoredTier..TierCap /\ restarts' \in 0..MaxRestarts
<1>1. SumFunction(bayAlloy) \in Nat
  <2>1. bayAlloy \in [Players -> Nat]
    BY DEF IInv, Typed
  <2>2. DOMAIN bayAlloy = Players /\ \A p \in Players : bayAlloy[p] \in Nat
    BY <2>1
  <2> QED BY <2>2, StationAssumption, SumIsNumber DEF SumFunction
<1>2. cooked \in Nat
  BY DEF IInv, Typed
<1>3. SumFunction(bayAlloy') = SumFunction(bayAlloy) + 0 /\ cooked' = cooked + 0
  <2>1. SumFunction(bayAlloy') = SumFunction(bayAlloy) /\ cooked' = cooked
    BY DEF alloyVars
  <2> QED BY <1>1, <1>2, <2>1
<1>4. AlloyBalances' /\ ProjectStillOpen' /\ project' \in {NoProject} \cup Nat
  <2>1. project' \in {project, Opened} /\ tier' = tier /\ 0 \in Nat
    OBVIOUS
  <2> QED BY <1>1, <1>3, <2>1, AlloyKept
<1> QED BY <1>4 DEF IInv, Typed, clockVars, alloyVars

\* Ore moves between a hold and its Bay.
LEMMA OreMoved ==
    ASSUME IInv, NEW p \in Players,
           hold' \in [Players -> 0..HoldUnits], bayOre' \in [Players -> Nat],
           \A q \in Players : q # p => hold'[q] = hold[q] /\ bayOre'[q] = bayOre[q],
           hold'[p] + bayOre'[p] = hold[p] + bayOre[p], project' = Opened,
           UNCHANGED <<clockVars, consumed, alloyVars, jobs, nextJob, tier>>
    PROVE  IInv'
<1>1. hold \in [Players -> Nat] /\ bayOre \in [Players -> Nat] /\ consumed \in Nat
      /\ nextJob \in 1..(MaxJobs + 1)
  BY HoldIs DEF IInv, Typed
<1>2. hold' \in [Players -> Nat]
  <2>1. 0..HoldUnits \subseteq Nat
    BY StationAssumption
  <2> QED BY <2>1
<1>3. /\ SumFunctionOnSet(hold', Players) + hold[p] = SumFunctionOnSet(hold, Players) + hold'[p]
      /\ SumFunctionOnSet(hold', Players) \in Nat /\ SumFunctionOnSet(hold, Players) \in Nat
      /\ hold'[p] \in Nat /\ hold[p] \in Nat
  BY <1>1, <1>2, OneCommander
<1>4. /\ SumFunctionOnSet(bayOre', Players) + bayOre[p]
           = SumFunctionOnSet(bayOre, Players) + bayOre'[p]
      /\ SumFunctionOnSet(bayOre', Players) \in Nat /\ SumFunctionOnSet(bayOre, Players) \in Nat
      /\ bayOre'[p] \in Nat /\ bayOre[p] \in Nat
  BY <1>1, OneCommander
<1>5. SumFunctionOnSet(hold', Players) + SumFunctionOnSet(bayOre', Players)
        = SumFunctionOnSet(hold, Players) + SumFunctionOnSet(bayOre, Players)
  BY <1>3, <1>4
<1>6. SumFunction([j \in jobs' |-> Input(j)]) = SumFunction([j \in jobs |-> Input(j)])
      /\ SumFunction([j \in jobs |-> Input(j)]) \in Nat /\ consumed' = consumed
  BY QueueIs
<1>7. SumFunctionOnSet(hold', Players) + (SumFunctionOnSet(bayOre', Players)
                 + SumFunction([j \in jobs' |-> Input(j)]) + consumed')
             = SumFunctionOnSet(hold, Players) + (SumFunctionOnSet(bayOre, Players)
                 + SumFunction([j \in jobs |-> Input(j)]) + consumed)
  <2> DEFINE a == SumFunctionOnSet(hold', Players)  b == SumFunctionOnSet(bayOre', Players)
             c == SumFunctionOnSet(hold, Players)  d == SumFunctionOnSet(bayOre, Players)
             i == SumFunction([j \in jobs |-> Input(j)])
  <2>1. /\ a \in Nat /\ b \in Nat /\ c \in Nat /\ d \in Nat /\ i \in Nat /\ consumed \in Nat
        /\ a + b = c + d
    BY <1>1, <1>3, <1>4, <1>5, <1>6
  <2> HIDE DEF a, b, c, d, i
  <2>2. a + (b + i + consumed) = c + (d + i + consumed)
    BY <2>1
  <2> QED BY <1>6, <2>2 DEF a, b, c, d, i
<1>8. OreBalances'
  BY <1>1, <1>2, <1>6, <1>7, OreKept
<1>9. /\ jobs' \subseteq Job /\ IsFiniteSet(jobs')
      /\ Numbered' /\ AsPriced(jobs') /\ QueueKept'
  BY SameQueue DEF clockVars
<1>10. /\ AlloyBalances' /\ ProjectStillOpen' /\ project' \in {NoProject} \cup Nat
       /\ shardTick' \in 0..MaxTick /\ hostTick' \in 0..MaxTick
       /\ bayAlloy' \in [Players -> Nat] /\ cooked' \in Nat
       /\ tier' \in AuthoredTier..TierCap /\ restarts' \in 0..MaxRestarts
  BY OtherBooks
<1>11. Typed'
  BY <1>1, <1>9, <1>10 DEF Typed
<1> QED BY <1>8, <1>9, <1>10, <1>11 DEF IInv, BooksBalance, AsPriced, Input

LEMMA TransferToBayKeeps ==
    ASSUME IInv, NEW p \in Players, NEW units \in 1..HoldUnits, TransferToBay(p, units)
    PROVE  IInv'
<1>1. hold \in [Players -> 0..HoldUnits] /\ bayOre \in [Players -> Nat] /\ HoldUnits \in Nat
  BY StationAssumption DEF IInv, Typed
<1>2. /\ units <= hold[p] /\ hold' = [hold EXCEPT ![p] = hold[p] - units]
      /\ bayOre' = [bayOre EXCEPT ![p] = bayOre[p] + units] /\ project' = Opened
      /\ UNCHANGED <<clockVars, consumed, alloyVars, jobs, nextJob, tier>>
  BY DEF TransferToBay
<1>3. /\ hold' \in [Players -> 0..HoldUnits] /\ bayOre' \in [Players -> Nat]
      /\ \A q \in Players : q # p => hold'[q] = hold[q] /\ bayOre'[q] = bayOre[q]
      /\ hold'[p] + bayOre'[p] = hold[p] + bayOre[p]
  <2>1. hold[p] - units \in 0..HoldUnits /\ bayOre[p] + units \in Nat
        /\ (hold[p] - units) + (bayOre[p] + units) = hold[p] + bayOre[p]
    BY <1>1, <1>2
  <2> QED BY <1>1, <1>2, <2>1
<1> QED BY <1>2, <1>3, OreMoved

LEMMA GivenIs ==
    ASSUME IInv, NEW p \in Players, NEW units \in 1..HoldUnits, units <= bayOre[p]
    PROVE  Given(p, units) \in 0..bayOre[p] /\ hold[p] + Given(p, units) <= HoldUnits
<1> DEFINE room == HoldUnits - hold[p]
<1>1. /\ hold[p] \in 0..HoldUnits /\ bayOre[p] \in Nat /\ HoldUnits \in Nat
      /\ room \in Nat /\ hold[p] + room = HoldUnits
  BY StationAssumption DEF IInv, Typed
<1> HIDE DEF room
<1>2. Given(p, units) = Min({units, room})
  BY DEF Given, room
<1>3. Min({units, room}) \in {units, room} /\ Min({units, room}) <= room
        /\ Min({units, room}) <= units
  BY <1>1 DEF Min
<1> QED BY <1>1, <1>2, <1>3

LEMMA TransferToShipKeeps ==
    ASSUME IInv, NEW p \in Players, NEW units \in 1..HoldUnits, TransferToShip(p, units)
    PROVE  IInv'
<1> DEFINE given == Given(p, units)
<1>1. hold \in [Players -> 0..HoldUnits] /\ bayOre \in [Players -> Nat] /\ HoldUnits \in Nat
  BY StationAssumption DEF IInv, Typed
<1>2. /\ units <= bayOre[p] /\ hold' = [hold EXCEPT ![p] = hold[p] + given]
      /\ bayOre' = [bayOre EXCEPT ![p] = bayOre[p] - given] /\ project' = Opened
      /\ UNCHANGED <<clockVars, consumed, alloyVars, jobs, nextJob, tier>>
  BY DEF TransferToShip
<1>3. given \in 0..bayOre[p] /\ hold[p] + given <= HoldUnits
  BY <1>2, GivenIs
<1> HIDE DEF given
<1>4. /\ hold' \in [Players -> 0..HoldUnits] /\ bayOre' \in [Players -> Nat]
      /\ \A q \in Players : q # p => hold'[q] = hold[q] /\ bayOre'[q] = bayOre[q]
      /\ hold'[p] + bayOre'[p] = hold[p] + bayOre[p]
  <2>1. hold[p] + given \in 0..HoldUnits /\ bayOre[p] - given \in Nat
        /\ (hold[p] + given) + (bayOre[p] - given) = hold[p] + bayOre[p]
    BY <1>1, <1>3
  <2> QED BY <1>1, <1>2, <2>1
<1> QED BY <1>2, <1>4, OreMoved

LEMMA RefusedKeeps == IInv /\ Refused => IInv'
<1> SUFFICES ASSUME IInv, Refused PROVE IInv'
  OBVIOUS
<1>1. /\ UNCHANGED <<clockVars, oreVars, alloyVars, jobs, nextJob, tier>> /\ project' = Opened
  BY DEF Refused
<1>2. /\ jobs' \subseteq Job /\ IsFiniteSet(jobs')
      /\ Numbered' /\ AsPriced(jobs') /\ QueueKept'
  BY <1>1, SameQueue DEF clockVars
<1>3. /\ AlloyBalances' /\ ProjectStillOpen' /\ project' \in {NoProject} \cup Nat
      /\ shardTick' \in 0..MaxTick /\ hostTick' \in 0..MaxTick
      /\ bayAlloy' \in [Players -> Nat] /\ cooked' \in Nat
      /\ tier' \in AuthoredTier..TierCap /\ restarts' \in 0..MaxRestarts
  BY <1>1, OtherBooks
<1>4. OreBalances'
  BY <1>1 DEF IInv, BooksBalance, OreBalances, OreSupply, Input, oreVars
<1>5. Typed'
  BY <1>1, <1>2, <1>3 DEF IInv, Typed, oreVars
<1> QED BY <1>2, <1>3, <1>4, <1>5 DEF IInv, BooksBalance, AsPriced, Input

LEMMA RefineCancelKeeps ==
    ASSUME IInv, NEW p \in Players, NEW job \in jobs, RefineCancel(p, job)
    PROVE  IInv'
<1>1. /\ job.owner = p /\ jobs' = jobs \ {job} /\ project' = Opened
      /\ bayOre' = [bayOre EXCEPT ![p] = bayOre[p] + Input(job)]
      /\ UNCHANGED <<clockVars, hold, consumed, alloyVars, nextJob, tier>>
  BY DEF RefineCancel
<1>2. /\ Sound(jobs) /\ Drains(jobs) /\ SumFunction([j \in jobs |-> Input(j)]) \in Nat
  BY QueueIs
<1>3. /\ Sound(jobs') /\ Drains(jobs')
      /\ \A q \in Players :
            /\ Cardinality(JobsOf(jobs', q)) <= Cardinality(JobsOf(jobs, q))
            /\ Cardinality(RunningOf(jobs', q)) <= Cardinality(RunningOf(jobs, q))
            /\ Cardinality(JobsOf(jobs, q)) \in Nat /\ Cardinality(JobsOf(jobs', q)) \in Nat
            /\ Cardinality(RunningOf(jobs, q)) \in Nat /\ Cardinality(RunningOf(jobs', q)) \in Nat
  BY <1>1, <1>2, FewerJobs
<1>4. \A q \in Players : /\ Cardinality(RunningOf(jobs', q)) <= Slots[tier']
                         /\ Cardinality(JobsOf(jobs', q)) <= Slots[tier'] + QueueDepth
  <2>1. \A q \in Players : /\ Cardinality(RunningOf(jobs, q)) <= Slots[tier]
                           /\ Cardinality(JobsOf(jobs, q)) <= Slots[tier] + QueueDepth
    BY DEF IInv, QueueKept, SlotsHold, QueueBounded
  <2>2. Slots[tier] \in Nat /\ QueueDepth \in Nat /\ tier' = tier
    BY <1>1, SlotsAre, ContentAssumption DEF IInv, Typed
  <2> QED BY <1>3, <2>1, <2>2
<1>5. /\ \A j \in jobs' : j.sequence < nextJob'
      /\ \A j \in jobs' : Running(j) => j.complete > shardTick'
  BY <1>1 DEF IInv, Numbered, QueueKept, NoOverdueJob, clockVars
<1>6. /\ jobs' \subseteq Job /\ IsFiniteSet(jobs')
      /\ Numbered' /\ AsPriced(jobs') /\ QueueKept'
  BY <1>3, <1>4, <1>5, QueueAfter
<1>7. /\ AlloyBalances' /\ ProjectStillOpen' /\ project' \in {NoProject} \cup Nat
      /\ shardTick' \in 0..MaxTick /\ hostTick' \in 0..MaxTick
      /\ bayAlloy' \in [Players -> Nat] /\ cooked' \in Nat
      /\ tier' \in AuthoredTier..TierCap /\ restarts' \in 0..MaxRestarts
  BY <1>1, OtherBooks
<1>8. /\ SumFunction([j \in jobs |-> Input(j)])
           = Input(job) + SumFunction([j \in jobs' |-> Input(j)])
      /\ SumFunction([j \in jobs' |-> Input(j)]) \in Nat /\ Input(job) \in Nat
  <2> DEFINE in == [j \in jobs |-> Input(j)]  stay == [j \in jobs' |-> Input(j)]
  <2>1. \A j \in jobs : in[j] \in Nat /\ in[j] = Input(j)
    BY <1>2, JobIs DEF Sound
  <2>2. \A j \in jobs' : stay[j] = in[j]
    BY <1>1
  <2>3. SumFunction(in) = SumFunctionOnSet(in, jobs) /\ SumFunction(stay) = SumFunctionOnSet(stay, jobs')
    BY DEF SumFunction
  <2> HIDE DEF in, stay
  <2>4. /\ SumFunctionOnSet(in, jobs \ {job}) \in Nat
        /\ SumFunctionOnSet(in, jobs) = in[job] + SumFunctionOnSet(in, jobs \ {job})
    <3>1. IsFiniteSet(jobs) /\ job \in jobs /\ \A j \in jobs : in[j] \in Nat
      BY <1>2, <2>1 DEF Sound
    <3> QED BY <3>1, SumPicks, ZenonT(60)
  <2>5. SumFunctionOnSet(stay, jobs') = SumFunctionOnSet(in, jobs')
    BY <1>3, <2>2, SumSame DEF Sound
  <2>6. SumFunction(in) = Input(job) + SumFunction(stay) /\ SumFunction(stay) \in Nat
        /\ Input(job) \in Nat
    BY <1>1, <2>1, <2>3, <2>4, <2>5
  <2> QED BY <2>6 DEF in, stay
<1>9. bayOre \in [Players -> Nat] /\ hold \in [Players -> Nat] /\ consumed \in Nat
      /\ nextJob \in 1..(MaxJobs + 1)
  BY HoldIs DEF IInv, Typed
<1>10. /\ bayOre' \in [Players -> Nat] /\ bayOre'[p] = bayOre[p] + Input(job)
       /\ \A q \in Players : q # p => bayOre'[q] = bayOre[q]
  <2>1. bayOre[p] + Input(job) \in Nat
    BY <1>8, <1>9
  <2> QED BY <1>1, <1>9, <2>1
<1>11. /\ SumFunctionOnSet(bayOre', Players) + bayOre[p]
            = SumFunctionOnSet(bayOre, Players) + bayOre'[p]
       /\ SumFunctionOnSet(bayOre', Players) \in Nat /\ SumFunctionOnSet(bayOre, Players) \in Nat
       /\ bayOre'[p] \in Nat /\ bayOre[p] \in Nat
  BY <1>9, <1>10, OneCommander
<1>12. OreBalances'
  <2> DEFINE x == SumFunctionOnSet(bayOre', Players)  y == SumFunctionOnSet(bayOre, Players)
             b == bayOre[p]  c == bayOre'[p]  n == Input(job)
             i == SumFunction([j \in jobs |-> Input(j)])
             k == SumFunction([j \in jobs' |-> Input(j)])
  <2>1. /\ x \in Nat /\ y \in Nat /\ b \in Nat /\ n \in Nat /\ k \in Nat /\ consumed \in Nat
        /\ x + b = y + c /\ c = b + n /\ i = n + k
    BY <1>8, <1>9, <1>10, <1>11
  <2> HIDE DEF x, y, b, c, n, i, k
  <2>2. x + k + consumed = y + i + consumed
    BY <2>1
  <2>3. hold' = hold /\ consumed' = consumed
    BY <1>1
  <2>4. SumFunctionOnSet(hold', Players) + (x + k + consumed')
          = SumFunctionOnSet(hold, Players) + (y + i + consumed)
    BY <2>2, <2>3
  <2> QED BY <1>8, <1>9, <1>10, <2>3, <2>4, OreKept DEF x, y, k, i
<1>13. Typed'
  BY <1>1, <1>6, <1>7, <1>9, <1>10 DEF IInv, Typed
<1> QED BY <1>6, <1>7, <1>12, <1>13 DEF IInv, BooksBalance, AsPriced, Input

\* A load resumes past the jobs on the books.
LEMMA NextAfterLoadIs ==
    ASSUME IInv
    PROVE  NextAfterLoad \in 1..(MaxJobs + 1) /\ \A j \in jobs : j.sequence < NextAfterLoad
<1> DEFINE S == {0} \cup {j.sequence : j \in jobs}
<1>1. \A j \in jobs : j.sequence \in Nat /\ j.sequence < nextJob
  BY QueueIs, JobIs DEF IInv, Numbered, Sound
<1>2. nextJob \in 1..(MaxJobs + 1) /\ MaxJobs \in Nat /\ IsFiniteSet(jobs)
  BY BoundAssumption DEF IInv, Typed
<1>3. \A n \in S : n \in 0..MaxJobs
  BY <1>1, <1>2
<1>4. \E n \in S : \A m \in S : n >= m
  <2>1. CASE jobs = {}
    BY <2>1
  <2>2. CASE jobs # {}
    <3>1. PICK j \in jobs : \A k \in jobs : k.sequence <= j.sequence
      BY <1>1, <1>2, <2>2, Newest
    <3> QED BY <1>1, <3>1
  <2> QED BY <2>1, <2>2
<1>5. \A j \in jobs : j.sequence \in S
  OBVIOUS
<1>6. NextAfterLoad = Max(S) + 1
  BY DEF NextAfterLoad
<1> HIDE DEF S
<1>7. Max(S) \in S /\ \A m \in S : Max(S) >= m
  BY <1>4 DEF Max
<1>8. NextAfterLoad \in 1..(MaxJobs + 1)
  BY <1>2, <1>3, <1>6, <1>7
<1>9. ASSUME NEW j \in jobs PROVE j.sequence < NextAfterLoad
  <2>1. Max(S) >= j.sequence /\ Max(S) \in Nat /\ j.sequence \in Nat
    BY <1>1, <1>2, <1>3, <1>5, <1>7
  <2> QED BY <1>6, <2>1
<1> QED BY <1>8, <1>9

LEMMA RestartKeeps == IInv /\ Restart => IInv'
<1> SUFFICES ASSUME IInv, Restart PROVE IInv'
  OBVIOUS
<1>1. /\ restarts' = restarts + 1 /\ restarts < MaxRestarts
      /\ hostTick' = 0 /\ nextJob' = NextAfterLoad
      /\ UNCHANGED <<shardTick, oreVars, alloyVars, jobs, tier, project>>
  BY DEF Restart
<1>2. NextAfterLoad \in 1..(MaxJobs + 1) /\ \A j \in jobs : j.sequence < NextAfterLoad
  BY NextAfterLoadIs
<1>3. restarts' \in 0..MaxRestarts /\ hostTick' \in 0..MaxTick
  BY <1>1, BoundAssumption DEF IInv, Typed
<1>4. Numbered'
  BY <1>1, <1>2 DEF Numbered
<1>5. Typed'
  BY <1>1, <1>2, <1>3 DEF IInv, Typed, oreVars, alloyVars
<1>6. OreBalances'
  BY <1>1 DEF IInv, BooksBalance, OreBalances, OreSupply, Input, oreVars
<1>7. AlloyBalances' /\ ProjectStillOpen'
  BY <1>1 DEF IInv, BooksBalance, AlloyBalances, ProjectStillOpen, alloyVars
<1>8. /\ Sound(jobs') /\ Drains(jobs')
  BY <1>1, QueueIs
<1>9. \A q \in Players : /\ Cardinality(RunningOf(jobs', q)) <= Slots[tier']
                         /\ Cardinality(JobsOf(jobs', q)) <= Slots[tier'] + QueueDepth
  BY <1>1 DEF IInv, QueueKept, SlotsHold, QueueBounded
<1>10. /\ \A j \in jobs' : j.sequence < nextJob'
       /\ \A j \in jobs' : Running(j) => j.complete > shardTick'
  BY <1>1, <1>2 DEF IInv, QueueKept, NoOverdueJob
<1>11. AsPriced(jobs') /\ QueueKept'
  BY <1>8, <1>9, <1>10, QueueAfter
<1> QED BY <1>4, <1>5, <1>6, <1>7, <1>11 DEF IInv, BooksBalance, AsPriced, Input

\* A start is priced: what it would give back is part of what it takes.
LEMMA PricedIs ==
    ASSUME IInv, NEW p \in Players, NEW units \in Batches
    PROVE  LET job == Priced(p, units)
           IN  /\ job \in Job /\ job.owner = p /\ job.sequence = nextJob /\ ~Running(job)
               /\ job.refund <= Input(job) /\ job.ticks > 0
               /\ Input(job) \in Nat /\ job \notin jobs
<1> DEFINE job == Priced(p, units)
           n == OrePerUnit * units
           back == (n * RefundPct[tier]) \div 100
           time == JobTicks[tier][units]
<1>1. tier \in Tiers /\ units \in Nat /\ OrePerUnit \in Nat /\ nextJob \in Nat
  BY SlotsAre, ContentAssumption, BoundAssumption DEF IInv, Typed
<1>2. RefundPct[tier] \in 0..100 /\ time \in Nat /\ time > 0
  BY <1>1, ContentAssumption
<1>3. n \in Nat
  BY <1>1
<1>4. back \in 0..n
  <2> HIDE DEF n
  <2> QED BY <1>2, <1>3, PercentOf
<1> HIDE DEF n, time
<1>5. job = [owner |-> p, sequence |-> nextJob, units |-> units, refund |-> back,
             ticks |-> time, complete |-> 0]
  BY DEF Priced, n, time, QUEUED
<1> HIDE DEF back, job
<1>6. /\ job.owner = p /\ job.sequence = nextJob /\ job.units = units /\ job.refund = back
      /\ job.ticks = time /\ job.complete = 0
  BY <1>5
<1>7. back \in Nat /\ back <= n
  BY <1>3, <1>4
<1>8. job \in Job
  BY <1>1, <1>2, <1>5, <1>7 DEF Job
<1>9. Input(job) = n
  BY <1>6 DEF Input, n
<1>10. job \notin jobs
  <2>1. \A j \in jobs : j.sequence < nextJob /\ j.sequence \in Nat
    BY QueueIs, JobIs DEF IInv, Numbered, Sound
  <2> QED BY <1>1, <1>6, <2>1
<1>11. ~Running(job)
  BY <1>6 DEF Running, QUEUED
<1>12. /\ job \in Job /\ job.owner = p /\ job.sequence = nextJob /\ ~Running(job)
       /\ job.refund <= Input(job) /\ job.ticks > 0
       /\ Input(job) \in Nat /\ job \notin jobs
  BY <1>2, <1>3, <1>6, <1>7, <1>8, <1>9, <1>10, <1>11
<1> QED BY <1>12 DEF job

LEMMA RefineStartKeeps ==
    ASSUME IInv, NEW p \in Players, NEW units \in Batches, RefineStart(p, units)
    PROVE  IInv'
<1> DEFINE job == Priced(p, units)
           queue == jobs \cup {job}
           ore == [bayOre EXCEPT ![p] = bayOre[p] - Input(job)]
<1>1. /\ nextJob <= MaxJobs /\ HasRoom(p) /\ Input(job) <= bayOre[p]
      /\ AdvanceRefining(queue, ore, shardTick)
      /\ nextJob' = nextJob + 1 /\ project' = Opened
      /\ UNCHANGED <<shardTick, hostTick, restarts, hold, tier>>
  BY DEF RefineStart, clockVars
<1>2. /\ job \in Job /\ job.owner = p /\ job.sequence = nextJob /\ ~Running(job)
      /\ job.refund <= Input(job) /\ job.ticks > 0
      /\ Input(job) \in Nat /\ job \notin jobs
  BY PricedIs
<1> HIDE DEF job
<1>3. /\ Sound(jobs) /\ Drains(jobs) /\ SumFunction([j \in jobs |-> Input(j)]) \in Nat
  BY QueueIs
<1>4. /\ tier \in AuthoredTier..TierCap /\ bayOre \in [Players -> Nat] /\ consumed \in Nat
      /\ bayAlloy \in [Players -> Nat] /\ cooked \in Nat /\ hold \in [Players -> Nat]
      /\ shardTick \in Nat /\ nextJob \in 1..(MaxJobs + 1) /\ nextJob \in Nat /\ MaxJobs \in Nat
  BY HoldIs, BoundAssumption DEF IInv, Typed
<1>5. \A j \in jobs : j.sequence \in Nat /\ j.sequence < nextJob
  BY <1>3, JobIs DEF IInv, Numbered, Sound
<1>6. Sound(queue) /\ Drains(queue)
  <2>1. IsFiniteSet(queue)
    BY <1>3, FS_AddElement DEF Sound
  <2>2. ByNumber(queue)
    BY <1>2, <1>3, <1>4, <1>5 DEF Sound, ByNumber
  <2>3. AsPriced(queue)
    BY <1>2, <1>3 DEF Sound, AsPriced
  <2>4. Drains(queue)
    BY <1>2, <1>3, <1>4, <1>5 DEF Drains
  <2> QED BY <1>2, <1>3, <2>1, <2>2, <2>3, <2>4 DEF Sound
<1>7. ASSUME NEW q \in Players
      PROVE  /\ Cardinality(RunningOf(queue, q)) <= Slots[tier]
             /\ Cardinality(JobsOf(queue, q)) <= Slots[tier] + QueueDepth
             /\ Cardinality(JobsOf(queue, q)) \in Nat
  <2>1. /\ Cardinality(RunningOf(jobs, q)) <= Slots[tier]
        /\ Cardinality(JobsOf(jobs, q)) <= Slots[tier] + QueueDepth
    BY DEF IInv, QueueKept, SlotsHold, QueueBounded
  <2>2. RunningOf(queue, q) = RunningOf(jobs, q)
    BY <1>2 DEF RunningOf, JobsOf
  <2>3. IsFiniteSet(JobsOf(jobs, q)) /\ Cardinality(JobsOf(jobs, q)) \in Nat
    BY <1>3, FS_Subset, FS_CardinalityType DEF JobsOf, Sound
  <2>4. CASE q = p
    <3>1. JobsOf(queue, q) = JobsOf(jobs, q) \cup {job} /\ job \notin JobsOf(jobs, q)
      BY <1>2, <2>4 DEF JobsOf
    <3>2. Cardinality(JobsOf(jobs, q) \cup {job}) = Cardinality(JobsOf(jobs, q)) + 1
      BY <2>3, <3>1, FS_AddElement
    <3>3. Cardinality(JobsOf(jobs, q)) < Slots[tier] + QueueDepth
      BY <1>1, <2>4 DEF HasRoom
    <3>4. Slots[tier] \in Nat /\ QueueDepth \in Nat
      BY <1>4, SlotsAre, ContentAssumption
    <3>5. Cardinality(JobsOf(queue, q)) = Cardinality(JobsOf(jobs, q)) + 1
      BY <3>1, <3>2
    <3> QED BY <2>1, <2>2, <2>3, <3>3, <3>4, <3>5
  <2>5. CASE q # p
    <3>1. JobsOf(queue, q) = JobsOf(jobs, q)
      BY <1>2, <2>5 DEF JobsOf
    <3> QED BY <2>1, <2>2, <2>3, <3>1
  <2> QED BY <2>4, <2>5
<1>8. /\ ore \in [Players -> Nat] /\ ore[p] = bayOre[p] - Input(job)
      /\ \A q \in Players : q # p => ore[q] = bayOre[q]
  <2>1. bayOre[p] - Input(job) \in Nat
    BY <1>1, <1>2, <1>4
  <2> QED BY <1>4, <2>1
<1>9. SumFunction([j \in queue |-> Input(j)]) = Input(job) + SumFunction([j \in jobs |-> Input(j)])
  <2> DEFINE in == [j \in jobs |-> Input(j)]  more == [j \in queue |-> Input(j)]
  <2>1. \A j \in queue : more[j] \in Nat /\ more[j] = Input(j)
    BY <1>6, JobIs DEF Sound
  <2>2. \A j \in jobs : in[j] = more[j]
    OBVIOUS
  <2>3. SumFunction(in) = SumFunctionOnSet(in, jobs) /\ SumFunction(more) = SumFunctionOnSet(more, queue)
    BY DEF SumFunction
  <2> HIDE DEF in, more
  <2>4. SumFunctionOnSet(more, jobs \cup {job}) = more[job] + SumFunctionOnSet(more, jobs)
    BY <1>2, <1>3, <2>1, SumAdds DEF Sound
  <2>5. SumFunctionOnSet(in, jobs) = SumFunctionOnSet(more, jobs)
    BY <1>3, <2>2, SumSame DEF Sound
  <2>6. more[job] = Input(job)
    BY <2>1
  <2>7. SumFunction(more) = Input(job) + SumFunction(in)
    BY <2>3, <2>4, <2>5, <2>6
  <2> QED BY <2>7 DEF in, more
<1> HIDE DEF queue, ore
<1>10. /\ Sound(jobs') /\ Drains(jobs')
       /\ \A j \in jobs' : \E k \in queue : k.sequence = j.sequence
       /\ \A j \in jobs' : Running(j) => j.complete > shardTick
  BY <1>1, <1>4, <1>6, AdvanceQueue
<1>11. \A q \in Players : /\ Cardinality(RunningOf(jobs', q)) <= Slots[tier']
                          /\ Cardinality(JobsOf(jobs', q)) <= Slots[tier'] + QueueDepth
  <2> SUFFICES ASSUME NEW q \in Players
               PROVE  /\ Cardinality(RunningOf(jobs', q)) <= Slots[tier']
                      /\ Cardinality(JobsOf(jobs', q)) <= Slots[tier'] + QueueDepth
    OBVIOUS
  <2>1. /\ Cardinality(JobsOf(jobs', q)) <= Cardinality(JobsOf(queue, q))
        /\ Cardinality(RunningOf(jobs', q)) <= Slots[tier]
    BY <1>1, <1>4, <1>6, <1>7, AdvanceBounds
  <2>2. /\ Cardinality(JobsOf(jobs', q)) \in Nat
        /\ Slots[tier] \in Nat /\ QueueDepth \in Nat /\ tier' = tier
    BY <1>1, <1>4, <1>10, FewerJobs, SlotsAre, ContentAssumption
  <2> QED BY <1>7, <2>1, <2>2
<1>12. /\ \A j \in jobs' : j.sequence < nextJob'
       /\ \A j \in jobs' : Running(j) => j.complete > shardTick'
  <2>1. \A k \in queue : k.sequence < nextJob + 1
    BY <1>2, <1>4, <1>5 DEF queue
  <2> QED BY <1>1, <1>10, <2>1
<1>13. /\ jobs' \subseteq Job /\ IsFiniteSet(jobs')
       /\ Numbered' /\ AsPriced(jobs') /\ QueueKept'
  BY <1>10, <1>11, <1>12, QueueAfter
<1>14. /\ bayOre' \in [Players -> Nat] /\ consumed' \in Nat
       /\ SumFunctionOnSet(bayOre', Players)
             + SumFunction([j \in jobs' |-> Input(j)]) + consumed'
           = SumFunctionOnSet(ore, Players)
             + SumFunction([j \in queue |-> Input(j)]) + consumed
       /\ SumFunction([j \in jobs' |-> Input(j)]) \in Nat
  BY <1>1, <1>4, <1>6, <1>8, AdvanceOre
<1>15. /\ SumFunctionOnSet(ore, Players) + bayOre[p] = SumFunctionOnSet(bayOre, Players) + ore[p]
       /\ SumFunctionOnSet(ore, Players) \in Nat /\ SumFunctionOnSet(bayOre, Players) \in Nat
       /\ ore[p] \in Nat /\ bayOre[p] \in Nat
  BY <1>4, <1>8, OneCommander
<1>16. SumFunctionOnSet(ore, Players) + SumFunction([j \in queue |-> Input(j)]) + consumed
         = SumFunctionOnSet(bayOre, Players) + SumFunction([j \in jobs |-> Input(j)]) + consumed
  <2> DEFINE x == SumFunctionOnSet(ore, Players)  y == SumFunctionOnSet(bayOre, Players)
             b == bayOre[p]  c == ore[p]  n == Input(job)
             i == SumFunction([j \in jobs |-> Input(j)])
             k == SumFunction([j \in queue |-> Input(j)])
  <2>1. /\ x \in Nat /\ y \in Nat /\ b \in Nat /\ c \in Nat /\ n \in Nat /\ i \in Nat
        /\ consumed \in Nat /\ x + b = y + c /\ c = b - n /\ k = n + i
    BY <1>2, <1>3, <1>4, <1>8, <1>9, <1>15
  <2> HIDE DEF x, y, b, c, n, i, k
  <2>2. x + k + consumed = y + i + consumed
    BY <2>1
  <2> QED BY <2>2 DEF x, y, i, k
<1>17. OreBalances'
  <2>1. hold' = hold
    BY <1>1
  <2>2. SumFunctionOnSet(hold', Players) + (SumFunctionOnSet(bayOre', Players)
                 + SumFunction([j \in jobs' |-> Input(j)]) + consumed')
             = SumFunctionOnSet(hold, Players) + (SumFunctionOnSet(bayOre, Players)
                 + SumFunction([j \in jobs |-> Input(j)]) + consumed)
    BY <1>14, <1>16, <2>1
  <2> QED BY <1>4, <1>14, <2>1, <2>2, OreKept
<1>18. /\ bayAlloy' \in [Players -> Nat] /\ cooked' \in Nat
       /\ AlloyBalances' /\ ProjectStillOpen' /\ project' \in {NoProject} \cup Nat
  <2>1. /\ bayAlloy' \in [Players -> Nat] /\ cooked' \in Nat /\ SumFunction(bayAlloy) \in Nat
        /\ \E made \in Nat : /\ SumFunction(bayAlloy') = SumFunction(bayAlloy) + made
                             /\ cooked' = cooked + made
    BY <1>1, <1>4, <1>6, AdvanceAlloy
  <2>2. project' \in {project, Opened} /\ tier' = tier
    BY <1>1
  <2> QED BY <2>1, <2>2, AlloyKept
<1>19. nextJob' \in 1..(MaxJobs + 1)
  BY <1>1, <1>4
<1>20. Typed'
  BY <1>1, <1>13, <1>14, <1>18, <1>19 DEF IInv, Typed
<1> QED BY <1>13, <1>17, <1>18, <1>20 DEF IInv, BooksBalance, AsPriced, Input

\* The tier that is bought is paid for once, at its price.
LEMMA Bought ==
    ASSUME NEW t \in AuthoredTier..(TierCap - 1)
    PROVE  /\ SumFunctionOnSet(ProjectCost, (AuthoredTier + 1)..(t + 1))
                = ProjectCost[t + 1] + SumFunctionOnSet(ProjectCost, (AuthoredTier + 1)..t)
           /\ SumFunctionOnSet(ProjectCost, (AuthoredTier + 1)..t) \in Nat
           /\ ProjectCost[t + 1] \in Nat /\ t + 1 \in AuthoredTier..TierCap
           /\ t \in Nat /\ Slots[t] \in Nat /\ Slots[t + 1] \in Nat /\ Slots[t] <= Slots[t + 1]
<1>1. /\ AuthoredTier \in Nat /\ t \in Nat /\ AuthoredTier <= t /\ t + 1 \in AuthoredTier..TierCap
      /\ t \in Tiers /\ t + 1 \in Tiers /\ t # MaxTier
  BY StationAssumption DEF Tiers
<1>2. (AuthoredTier + 1)..(t + 1) = ((AuthoredTier + 1)..t) \cup {t + 1}
      /\ t + 1 \notin (AuthoredTier + 1)..t
  BY <1>1
<1>3. IsFiniteSet((AuthoredTier + 1)..t)
  <2>1. AuthoredTier + 1 \in Int /\ t \in Int
    BY <1>1
  <2> QED BY <2>1, FS_Interval
<1>4. \A n \in ((AuthoredTier + 1)..t) \cup {t + 1} : ProjectCost[n] \in Nat
  <2>1. ((AuthoredTier + 1)..t) \cup {t + 1} \subseteq Tiers
    BY <1>1, StationAssumption DEF Tiers
  <2> QED BY <2>1, ContentAssumption
<1> DEFINE D == (AuthoredTier + 1)..t
<1> HIDE DEF D
<1>5. SumFunctionOnSet(ProjectCost, D \cup {t + 1}) = ProjectCost[t + 1] + SumFunctionOnSet(ProjectCost, D)
  BY <1>2, <1>3, <1>4, SumAdds DEF D
<1>6. SumFunctionOnSet(ProjectCost, D) \in Nat
  BY <1>3, <1>4, SumIsNumber DEF D
<1>7. Slots[t] \in Nat /\ Slots[t + 1] \in Nat /\ Slots[t] <= Slots[t + 1]
  BY <1>1, ContentAssumption
<1> QED BY <1>1, <1>2, <1>4, <1>5, <1>6, <1>7 DEF D

LEMMA ProjectContributeKeeps ==
    ASSUME IInv, NEW p \in Players, NEW units \in 1..cooked, ProjectContribute(p, units)
    PROVE  IInv'
<1> DEFINE cost == ProjectCost[tier + 1]
           bought == SumFunctionOnSet(ProjectCost, (AuthoredTier + 1)..tier)
<1>1. /\ Opened # NoProject /\ units <= bayAlloy[p] /\ units <= cost - Opened
      /\ bayAlloy' = [bayAlloy EXCEPT ![p] = bayAlloy[p] - units]
      /\ IF Opened + units >= cost
           THEN tier' = tier + 1 /\ project' = NoProject
           ELSE tier' = tier /\ project' = Opened + units
      /\ UNCHANGED <<clockVars, oreVars, cooked, jobs, nextJob>>
  BY DEF ProjectContribute, IsComplete, Wanted
<1>2. /\ tier \in AuthoredTier..TierCap /\ bayAlloy \in [Players -> Nat] /\ cooked \in Nat
  BY DEF IInv, Typed
<1>3. /\ Opened \in Nat /\ Progress(project) = Opened /\ tier < TierCap /\ Opened < cost
  <2>1. Opened \in {project, Opened}
    OBVIOUS
  <2>2. /\ Opened \in {NoProject} \cup Nat /\ Progress(Opened) = Progress(project)
        /\ Opened # NoProject => tier < TierCap /\ Opened < ProjectCost[tier + 1]
    BY <2>1, Opening
  <2> QED BY <1>1, <2>2 DEF Progress
<1>4. /\ bought \in Nat /\ cost \in Nat /\ tier \in Nat /\ tier + 1 \in AuthoredTier..TierCap
      /\ SumFunctionOnSet(ProjectCost, (AuthoredTier + 1)..(tier + 1)) = cost + bought
      /\ Slots[tier] \in Nat /\ Slots[tier + 1] \in Nat /\ Slots[tier] <= Slots[tier + 1]
  <2>1. tier \in AuthoredTier..(TierCap - 1)
    BY <1>2, <1>3, StationAssumption DEF Tiers
  <2> QED BY <2>1, Bought
<1>5. units \in Nat
  BY <1>2
<1>6. /\ bayAlloy' \in [Players -> Nat] /\ bayAlloy'[p] = bayAlloy[p] - units
      /\ \A q \in Players : q # p => bayAlloy'[q] = bayAlloy[q]
  <2>1. bayAlloy[p] - units \in Nat
    BY <1>1, <1>2, <1>5
  <2> QED BY <1>1, <1>2, <2>1
<1>7. SumFunction(bayAlloy') + units = SumFunction(bayAlloy) /\ SumFunction(bayAlloy') \in Nat
  <2>1. /\ SumFunctionOnSet(bayAlloy', Players) + bayAlloy[p]
             = SumFunctionOnSet(bayAlloy, Players) + bayAlloy'[p]
        /\ SumFunctionOnSet(bayAlloy', Players) \in Nat /\ SumFunctionOnSet(bayAlloy, Players) \in Nat
        /\ bayAlloy'[p] \in Nat /\ bayAlloy[p] \in Nat
    BY <1>2, <1>6, OneCommander
  <2>2. DOMAIN bayAlloy = Players /\ DOMAIN bayAlloy' = Players
    BY <1>2, <1>6
  <2>3. /\ SumFunction(bayAlloy) = SumFunctionOnSet(bayAlloy, Players)
        /\ SumFunction(bayAlloy') = SumFunctionOnSet(bayAlloy', Players)
    BY <2>2 DEF SumFunction
  <2>4. SumFunctionOnSet(bayAlloy', Players) + units = SumFunctionOnSet(bayAlloy, Players)
    BY <1>5, <1>6, <2>1
  <2> QED BY <2>1, <2>3, <2>4
<1>8. SumFunction(bayAlloy) + Opened + bought = cooked
  BY <1>3 DEF IInv, BooksBalance, AlloyBalances, Progress
<1>9. cooked' = cooked
  BY <1>1
<1> HIDE DEF bought, cost
<1>10. /\ AlloyBalances' /\ ProjectStillOpen' /\ project' \in {NoProject} \cup Nat
       /\ tier' \in AuthoredTier..TierCap
       /\ Slots[tier'] \in Nat /\ Slots[tier] \in Nat /\ Slots[tier] <= Slots[tier']
  <2>1. CASE Opened + units >= cost
    <3>1. tier' = tier + 1 /\ project' = NoProject
      BY <1>1, <2>1
    <3>2. Opened + units = cost
      BY <1>1, <1>3, <1>4, <1>5, <2>1 DEF cost
    <3>3. SumFunction(bayAlloy') + (cost + bought) = cooked
      BY <1>3, <1>4, <1>5, <1>7, <1>8, <3>2
    <3>4. SumFunctionOnSet(ProjectCost, (AuthoredTier + 1)..tier') = cost + bought
      BY <1>4, <3>1
    <3>5. SumFunction(bayAlloy') + 0 + SumFunctionOnSet(ProjectCost, (AuthoredTier + 1)..tier') = cooked'
      BY <1>7, <1>9, <3>3, <3>4
    <3>6. AlloyBalances'
      BY <3>1, <3>5 DEF AlloyBalances
    <3>7. ProjectStillOpen'
      BY <3>1 DEF ProjectStillOpen
    <3> QED BY <1>4, <3>1, <3>6, <3>7
  <2>2. CASE ~(Opened + units >= cost)
    <3>1. tier' = tier /\ project' = Opened + units
      BY <1>1, <2>2
    <3>2. project' \in Nat /\ project' < cost /\ project' # NoProject
      BY <1>3, <1>4, <1>5, <2>2, <3>1 DEF NoProject
    <3>3. SumFunction(bayAlloy') + (Opened + units) + bought = cooked
      BY <1>3, <1>4, <1>5, <1>7, <1>8
    <3>4. SumFunctionOnSet(ProjectCost, (AuthoredTier + 1)..tier') = bought
      BY <3>1 DEF bought
    <3>5. SumFunction(bayAlloy') + project' + SumFunctionOnSet(ProjectCost, (AuthoredTier + 1)..tier') = cooked'
      BY <1>9, <3>1, <3>3, <3>4
    <3>6. AlloyBalances'
      BY <3>2, <3>5 DEF AlloyBalances
    <3>7. ProjectStillOpen'
      BY <1>3, <3>1, <3>2 DEF ProjectStillOpen, cost
    <3> QED BY <1>2, <1>4, <3>1, <3>2, <3>6, <3>7
  <2> QED BY <2>1, <2>2
<1>11. OreBalances'
  BY <1>1 DEF IInv, BooksBalance, OreBalances, OreSupply, Input, oreVars
<1>12. /\ Sound(jobs') /\ Drains(jobs')
  BY <1>1, QueueIs
<1>13. \A q \in Players : /\ Cardinality(RunningOf(jobs', q)) <= Slots[tier']
                          /\ Cardinality(JobsOf(jobs', q)) <= Slots[tier'] + QueueDepth
  <2> SUFFICES ASSUME NEW q \in Players
               PROVE  /\ Cardinality(RunningOf(jobs', q)) <= Slots[tier']
                      /\ Cardinality(JobsOf(jobs', q)) <= Slots[tier'] + QueueDepth
    OBVIOUS
  <2>1. /\ Cardinality(RunningOf(jobs, q)) <= Slots[tier]
        /\ Cardinality(JobsOf(jobs, q)) <= Slots[tier] + QueueDepth
    BY DEF IInv, QueueKept, SlotsHold, QueueBounded
  <2>2. /\ Cardinality(RunningOf(jobs, q)) \in Nat /\ Cardinality(JobsOf(jobs, q)) \in Nat
        /\ QueueDepth \in Nat
    BY QueueIs, FewerJobs, ContentAssumption
  <2>3. jobs' = jobs
    BY <1>1
  <2> QED BY <1>10, <2>1, <2>2, <2>3
<1>14. /\ \A j \in jobs' : j.sequence < nextJob'
       /\ \A j \in jobs' : Running(j) => j.complete > shardTick'
  BY <1>1 DEF IInv, Numbered, QueueKept, NoOverdueJob, clockVars
<1>15. /\ jobs' \subseteq Job /\ IsFiniteSet(jobs')
       /\ Numbered' /\ AsPriced(jobs') /\ QueueKept'
  BY <1>12, <1>13, <1>14, QueueAfter
<1>16. Typed'
  BY <1>1, <1>6, <1>10, <1>15 DEF IInv, Typed, clockVars, oreVars
<1> QED BY <1>10, <1>11, <1>15, <1>16 DEF IInv, BooksBalance, AsPriced, Input

LEMMA NextKeeps == IInv /\ [Next]_vars => IInv'
<1> SUFFICES ASSUME IInv, [Next]_vars PROVE IInv'
  OBVIOUS
<1>1. CASE Tick
  BY <1>1, TickKeeps
<1>2. CASE Refused
  BY <1>2, RefusedKeeps
<1>3. CASE Restart
  BY <1>3, RestartKeeps
<1>4. ASSUME NEW p \in Players, StationCommand(p) PROVE IInv'
  BY <1>4, TransferToBayKeeps, TransferToShipKeeps, RefineStartKeeps, RefineCancelKeeps,
     ProjectContributeKeeps DEF StationCommand
<1>5. CASE UNCHANGED vars
  BY <1>5 DEF IInv, Typed, Numbered, AsPriced, BooksBalance, OreBalances, OreSupply, AlloyBalances,
       ProjectStillOpen, QueueKept, SlotsHold, DrainsInOrder, QueueBounded, OneJobPerSequence,
       NoOverdueJob, RunningOf, JobsOf, Running, Input, vars, clockVars, oreVars, alloyVars
<1> QED BY <1>1, <1>2, <1>3, <1>4, <1>5 DEF Next

LEMMA IInvImpliesTypeOK == IInv => TypeOK
<1> SUFFICES ASSUME IInv PROVE TypeOK
  OBVIOUS
<1>1. /\ hold \in [Players -> Nat] /\ bayOre \in [Players -> Nat] /\ consumed \in Nat
  BY HoldIs DEF IInv, Typed
<1>2. /\ SumFunction([q \in Players |-> hold[q] + bayOre[q]])
           = SumFunctionOnSet(hold, Players) + SumFunctionOnSet(bayOre, Players)
      /\ SumFunctionOnSet(hold, Players) \in Nat /\ SumFunctionOnSet(bayOre, Players) \in Nat
  BY <1>1, HoldAndBay
<1>3. SumFunction([j \in jobs |-> Input(j)]) \in Nat
  BY QueueIs
<1>4. SumFunctionOnSet(hold, Players) + SumFunctionOnSet(bayOre, Players)
        + SumFunction([j \in jobs |-> Input(j)]) + consumed = OreSupply
  BY <1>2 DEF IInv, BooksBalance, OreBalances
<1>5. OreSupply \in Nat /\ consumed <= OreSupply /\ SumFunctionOnSet(bayOre, Players) <= OreSupply
  BY <1>1, <1>2, <1>3, <1>4
<1>6. ASSUME NEW p \in Players PROVE bayOre[p] \in 0..OreSupply
  <2>0. IsFiniteSet(Players)
    BY StationAssumption
  <2>1. \A q \in Players : bayOre[q] \in Nat
    BY <1>1
  <2>2. /\ SumFunctionOnSet(bayOre, Players \ {p}) \in Nat
        /\ SumFunctionOnSet(bayOre, Players) = bayOre[p] + SumFunctionOnSet(bayOre, Players \ {p})
    BY <2>0, <2>1, <1>6, SumPicks
  <2> QED BY <1>2, <1>5, <2>1, <2>2
<1>7. bayOre \in [Players -> 0..OreSupply] /\ consumed \in 0..OreSupply
  BY <1>1, <1>5, <1>6
<1> QED BY <1>7 DEF IInv, Typed, TypeOK

LEMMA AlwaysIInv == Spec => []IInv
BY InitHolds, NextKeeps, PTL DEF Spec

-----------------------------------------------------------------------------
(* The theorems.                                                             *)

\* The state of the station stays what the code's types say of it, the Bays
\* within the ore that ever arrived (TransferToBay, StartRefine, AdvanceRefining).
THEOREM RefineryTyped == Spec => []TypeOK
BY AlwaysIInv, IInvImpliesTypeOK, PTL

\* Whatever order commands, ticks and restarts come in, no unit of ore or alloy
\* is lost, minted or paid twice, and a finished project raises one tier once.
THEOREM BooksAlwaysBalance == Spec => []BooksBalance
<1>1. IInv => BooksBalance
  BY DEF IInv
<1> QED BY <1>1, AlwaysIInv, PTL

\* The queue of every commander keeps to the tier's slots, its depth and the
\* order of filing; sequences stay unique across a load; no job is overdue.
THEOREM QueuesAreKept == Spec => []QueueKept
<1>1. IInv => QueueKept
  BY DEF IInv
<1> QED BY <1>1, AlwaysIInv, PTL

\* After AdvanceRefining, whoever still waits waits for a slot of their own.
THEOREM TicksFill == Spec => TicksFillSlots
<1>1. IInv /\ [Next]_vars => [hostTick' > hostTick => NoIdleSlot']_vars
  <2> SUFFICES ASSUME IInv, [Next]_vars, hostTick' > hostTick PROVE NoIdleSlot'
    OBVIOUS
  <2>1. hostTick \in Nat
    BY BoundAssumption DEF IInv, Typed
  <2>2. Tick
    <3>1. ~ UNCHANGED hostTick /\ hostTick' # 0
      BY <2>1
    <3>2. ASSUME NEW p \in Players, StationCommand(p) PROVE UNCHANGED hostTick
      BY <3>2 DEF StationCommand, TransferToBay, TransferToShip, RefineStart, RefineCancel,
                  ProjectContribute, clockVars
    <3>3. Refused => UNCHANGED hostTick
      BY DEF Refused, clockVars
    <3>4. Restart => hostTick' = 0
      BY DEF Restart
    <3> QED BY <3>1, <3>2, <3>3, <3>4 DEF Next, vars, clockVars
  <2>3. Sound(jobs) /\ Drains(jobs) /\ tier \in AuthoredTier..TierCap
    BY QueueIs DEF IInv, Typed
  <2>4. AdvanceRefining(jobs, bayOre, hostTick') /\ hostTick' \in Nat /\ tier' = tier
    BY <2>1, <2>2 DEF Tick
  <2>5. \A j \in jobs' : ~Running(j) => Cardinality(RunningOf(jobs', j.owner)) >= Slots[tier]
    BY <2>3, <2>4, AdvanceQueue
  <2> QED BY <2>4, <2>5 DEF NoIdleSlot, RunningOf, JobsOf, Running
<1> QED BY <1>1, AlwaysIInv, PTL DEF Spec, TicksFillSlots

=============================================================================
