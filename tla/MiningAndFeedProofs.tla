------------------------ MODULE MiningAndFeedProofs -------------------------
(* Proofs about module Mining: for any site, any wings, any hazard and any   *)
(* turns of the calendar, the state is well formed and no hot laser runs;    *)
(* and while no debit is loaded with the shard, what holds take out of an    *)
(* epoch's pool was in it, and the live field and the ledger are one book.   *)
(* Then about module ClientFeed: for any universe and any routes, the legs   *)
(* of a plan reach the authority in their order, what a ghost promises was   *)
(* accepted, and no frame waits for a leg that its snapshot shows is over.   *)
EXTENDS Mining, ClientFeed, FunctionTheorems, SequenceTheorems, WellFoundedInduction, TLAPS

-----------------------------------------------------------------------------
(* Induction over numbers, told with the set of the good ones, since the     *)
(* provers cannot instantiate a predicate.                                   *)

LEMMA NumberInduction ==
    ASSUME NEW Good, 0 \in Good, \A n \in Nat : n \in Good => n + 1 \in Good
    PROVE  \A n \in Nat : n \in Good
<1> DEFINE R == OpToRel(<, Nat)
           Bad == {n \in Nat : n \notin Good}
<1> SUFFICES ASSUME Bad # {} PROVE FALSE
  OBVIOUS
<1>1. \A i, k \in Nat : i < k => <<i, k>> \in R
  BY DEF OpToRel
<1>2. IsWellFoundedOn(R, Nat)
  BY NatLessThanWellFounded
<1> HIDE DEF R
<1>3. PICK n \in Bad : \A m \in Bad : ~ (<<m, n>> \in R)
  <2>1. Bad \subseteq Nat
    OBVIOUS
  <2> HIDE DEF Bad
  <2> QED BY <1>2, <2>1, WFMin
<1>4. n \in Nat /\ n # 0 /\ n - 1 \in Nat /\ n - 1 < n /\ (n - 1) + 1 = n
  OBVIOUS
<1>5. n - 1 \in Good
  <2>1. <<n - 1, n>> \in R
    BY <1>1, <1>4
  <2> QED BY <1>3, <1>4, <2>1
<1>6. n \in Good
  <2>1. (n - 1) + 1 \in Good
    BY <1>4, <1>5
  <2> QED BY <1>4, <2>1
<1> QED
  BY <1>3, <1>6

LEMMA HasMax ==
    ASSUME NEW n \in Nat, NEW S \in SUBSET (1..n), S # {}
    PROVE  Max(S) \in S /\ \A x \in S : Max(S) >= x
<1> DEFINE Good == {m \in Nat : \A T \in SUBSET (1..m) : T # {} => \E x \in T : \A y \in T : x >= y}
<1>1. 0 \in Good
  <2>1. \A T \in SUBSET (1..0) : T = {}
    OBVIOUS
  <2> QED BY <2>1
<1>2. ASSUME NEW m \in Nat, m \in Good PROVE m + 1 \in Good
  <2> SUFFICES ASSUME NEW T \in SUBSET (1..(m + 1)), T # {}
               PROVE  \E x \in T : \A y \in T : x >= y
    OBVIOUS
  <2>1. CASE m + 1 \in T
    BY <2>1
  <2>2. CASE m + 1 \notin T
    <3>1. T \in SUBSET (1..m)
      BY <2>2
    <3> QED BY <1>2, <3>1
  <2> QED BY <2>1, <2>2
<1> HIDE DEF Good
<1>3. n \in Good
  BY <1>1, <1>2, NumberInduction
<1>4. \E x \in S : \A y \in S : x >= y
  BY <1>3 DEF Good
<1> QED BY <1>4 DEF Max

-----------------------------------------------------------------------------
(* Folds over a sequence, as the community modules write them: the recursion *)
(* they leave to CHOOSE has a solution, whose values stay in any set that a  *)
(* step does not leave.                                                      *)

Taken(S, base, step, it) == IF S = {} THEN base ELSE step[<<Max(S), it[S \ {Max(S)}]>>]
IsSolution(it, n, V, base, step) ==
    /\ it = [S \in SUBSET (1..n) |-> Taken(S, base, step, it)]
    /\ \A S \in SUBSET (1..n) : it[S] \in V
Follows(it, n, V, base, step) ==
    /\ it[{}] = base
    /\ \A S \in SUBSET (1..n) : S # {} /\ it[S \ {Max(S)}] \in V =>
           it[S] = step[<<Max(S), it[S \ {Max(S)}]>>]
Beginnings(it, n) == [k \in 0..n |-> it[1..k]]
\* The values of a fold over the beginnings of a sequence of n elements.
IsRun(run, n, V, base, step) ==
    /\ run \in [0..n -> V] /\ run[0] = base
    /\ \A k \in 1..n : run[k] = step[<<k, run[k - 1]>>]

LEMMA FoldSolution ==
    ASSUME NEW n \in Nat, NEW V, NEW base \in V, NEW step \in [(1..n) \X V -> V]
    PROVE  \E it : IsSolution(it, n, V, base, step)
<1> DEFINE Solves(g, k) == \A S \in SUBSET (1..n) : S \subseteq 1..k =>
                               g[S] = Taken(S, base, step, g) /\ g[S] \in V
           Good == {k \in Nat : \E g : Solves(g, k)}
<1>0. \A S \in SUBSET (1..n) : S # {} => Max(S) \in S /\ \A x \in S : Max(S) >= x
  BY HasMax
<1>1. 0 \in Good
  <2> DEFINE g == [S \in SUBSET (1..n) |-> base]
  <2>1. \A S \in SUBSET (1..n) : S \subseteq 1..0 => S = {}
    OBVIOUS
  <2>2. Solves(g, 0)
    BY <2>1 DEF Taken
  <2> HIDE DEF g, Solves
  <2> QED BY <2>2
<1>2. ASSUME NEW k \in Nat, k \in Good PROVE k + 1 \in Good
  <2>1. PICK g : Solves(g, k)
    BY <1>2
  <2> DEFINE h == [S \in SUBSET (1..n) |-> IF S \subseteq 1..k THEN g[S] ELSE Taken(S, base, step, g)]
  <2>2. \A S \in SUBSET (1..n) : h[S] = Taken(S, base, step, g)
    BY <2>1
  <2>3. \A S \in SUBSET (1..n) : S \subseteq 1..k => h[S] = g[S]
    OBVIOUS
  <2> HIDE DEF h
  <2>4. ASSUME NEW S \in SUBSET (1..n), S \subseteq 1..(k + 1)
        PROVE  h[S] = Taken(S, base, step, h) /\ h[S] \in V
    <3>1. CASE S = {}
      BY <2>2, <3>1 DEF Taken
    <3>2. CASE S # {}
      <4> DEFINE top == Max(S)
                 U == S \ {top}
      <4>0. top \in S /\ \A x \in S : top >= x
        BY <1>0, <3>2
      <4> HIDE DEF top
      <4>1. top \in 1..n /\ U \in SUBSET (1..n) /\ U \subseteq 1..k
        <5>1. \A x \in S : x \in 1..(k + 1) /\ x \in 1..n
          BY <2>4
        <5>2. \A x \in U : x # k + 1
          BY <4>0, <5>1
        <5> QED BY <4>0, <5>1, <5>2
      <4> USE DEF top
      <4> HIDE DEF U
      <4>2. h[U] = g[U] /\ g[U] \in V
        BY <2>1, <2>3, <4>1
      <4>3. h[S] = step[<<Max(S), g[U]>>]
        BY <2>2, <3>2 DEF Taken, U, top
      <4>4. step[<<Max(S), g[U]>>] \in V
        BY <4>1, <4>2
      <4>5. Taken(S, base, step, h) = step[<<Max(S), h[U]>>]
        BY <3>2 DEF Taken, U, top
      <4> QED BY <4>2, <4>3, <4>4, <4>5
    <3> QED BY <3>1, <3>2
  <2>5. Solves(h, k + 1)
    BY <2>4
  <2> HIDE DEF Solves
  <2> QED BY <2>5
<1>3. n \in Good
  <2> HIDE DEF Good
  <2> QED BY <1>1, <1>2, NumberInduction
<1>4. PICK g : Solves(g, n)
  BY <1>3
<1> DEFINE it == [S \in SUBSET (1..n) |-> g[S]]
<1>5. \A S \in SUBSET (1..n) : Taken(S, base, step, it) = Taken(S, base, step, g)
  BY <1>0 DEF Taken
<1>6. it = [S \in SUBSET (1..n) |-> Taken(S, base, step, it)]
  <2>1. \A S \in SUBSET (1..n) : it[S] = Taken(S, base, step, it)
    BY <1>4, <1>5
  <2> QED BY <2>1
<1>7. \A S \in SUBSET (1..n) : it[S] \in V
  BY <1>4
<1> QED BY <1>6, <1>7 DEF IsSolution

\* What a solution says of the beginnings of the sequence.
LEMMA FoldPrefixes ==
    ASSUME NEW n \in Nat, NEW V, NEW base \in V, NEW step \in [(1..n) \X V -> V],
           NEW it, Follows(it, n, V, base, step)
    PROVE  IsRun(Beginnings(it, n), n, V, base, step)
<1>1. it[1..0] = base
  <2>1. 1..0 = {} /\ 1..0 \in SUBSET (1..n)
    OBVIOUS
  <2> QED BY <2>1 DEF Follows
<1>2. ASSUME NEW k \in 1..n, it[1..(k - 1)] \in V PROVE it[1..k] = step[<<k, it[1..(k - 1)]>>]
  <2>1. 1..k \in SUBSET (1..n) /\ 1..k # {}
    OBVIOUS
  <2>2. Max(1..k) \in 1..k /\ \A x \in 1..k : Max(1..k) >= x
    BY <2>1, HasMax
  <2>3. Max(1..k) = k
    BY <2>2
  <2>4. (1..k) \ {k} = 1..(k - 1)
    OBVIOUS
  <2> QED BY <1>2, <2>1, <2>3, <2>4 DEF Follows
<1> DEFINE Good == {k \in Nat : k <= n => it[1..k] \in V}
<1>3. 0 \in Good
  BY <1>1
<1>4. ASSUME NEW k \in Nat, k \in Good PROVE k + 1 \in Good
  <2> SUFFICES ASSUME k + 1 <= n PROVE it[1..(k + 1)] \in V
    OBVIOUS
  <2>1. it[1..k] \in V /\ k + 1 \in 1..n
    BY <1>4
  <2>2. it[1..(k + 1)] = step[<<k + 1, it[1..k]>>]
    <3>1. k + 1 \in 1..n /\ (k + 1) - 1 = k
      OBVIOUS
    <3> QED BY <1>2, <2>1, <3>1
  <2> QED BY <2>1, <2>2
<1> HIDE DEF Good
<1>5. \A k \in Nat : k \in Good
  BY <1>3, <1>4, NumberInduction
<1>6. \A k \in 0..n : it[1..k] \in V
  BY <1>5 DEF Good
<1> DEFINE run == [k \in 0..n |-> it[1..k]]
<1>7. run \in [0..n -> V] /\ run[0] = base
  BY <1>1, <1>6
<1>8. ASSUME NEW k \in 1..n PROVE run[k] = step[<<k, run[k - 1]>>]
  <2>1. k - 1 \in 0..n /\ k \in 0..n
    OBVIOUS
  <2> QED BY <1>2, <1>6, <2>1
<1> QED BY <1>7, <1>8 DEF IsRun, Beginnings

FoldWork(base, seq, g) == FoldLeft(LAMBDA m, s : WorkShip(m, s, g), base, seq)
FoldGroups(base, seq) == FoldLeft(WorkGroup, base, seq)
FoldDebits(base, seq) == FoldLeft(ApplyMineYield, base, seq)
FoldStay(base, seq, ss) == FoldLeft(LAMBDA rest, s : Leave(rest, s, ss), base, seq)
FoldRelease(base, seq, ss) ==
    FoldLeft(LAMBDA rest, g : KeepIfManned(rest, Without(g, ss)), base, seq)
\* The ledger after each beginning of a bus.
IsDebitRun(run, n, V, base, seq) ==
    /\ run \in [0..n -> V] /\ run[0] = base /\ run[n] = FoldDebits(base, seq)
    /\ \A k \in 1..n : run[k] = ApplyMineYield(run[k - 1], seq[k])

\* The ships of a group, one after another.
LEMMA WorkRun ==
    ASSUME NEW V, NEW n \in Nat, NEW seq, DOMAIN seq = 1..n, NEW base \in V, NEW g,
           \A m \in V : \A k \in 1..n : WorkShip(m, seq[k], g) \in V
    PROVE  FoldWork(base, seq, g) \in V /\ (n = 0 => FoldWork(base, seq, g) = base)
<1> DEFINE step == [x \in (1..n) \X V |-> WorkShip(x[2], seq[x[1]], g)]
           Solves(it) == it = [S \in SUBSET (1..n) |->
               IF S = {} THEN base ELSE WorkShip(it[S \ {Max(S)}], seq[Max(S)], g)]
           it == CHOOSE f : Solves(f)
           run == Beginnings(it, n)
<1>1. step \in [(1..n) \X V -> V]
  OBVIOUS
<1>2. \A k \in 1..n : \A m \in V : step[<<k, m>>] = WorkShip(m, seq[k], g)
  OBVIOUS
<1> HIDE DEF step
<1>3. \A S \in SUBSET (1..n) : S # {} => Max(S) \in 1..n /\ S \ {Max(S)} \in SUBSET (1..n)
  BY HasMax
<1>4. \E f : Solves(f)
  <2>1. PICK f : IsSolution(f, n, V, base, step)
    BY <1>1, FoldSolution
  <2>2. \A S \in SUBSET (1..n) : Taken(S, base, step, f) =
            IF S = {} THEN base ELSE WorkShip(f[S \ {Max(S)}], seq[Max(S)], g)
    BY <1>2, <1>3, <2>1 DEF Taken, IsSolution
  <2>3. Solves(f)
    BY <2>1, <2>2 DEF IsSolution
  <2> QED BY <2>3
<1>5. Solves(it)
  BY <1>4
<1>6. FoldWork(base, seq, g) = it[1..n]
  BY DEF FoldWork, FoldLeft, MapThenFoldSet
<1>7. it[{}] = base
  BY <1>5
<1>8. \A S \in SUBSET (1..n) : S # {} => it[S] = WorkShip(it[S \ {Max(S)}], seq[Max(S)], g)
  BY <1>5
<1> HIDE DEF it, Solves
<1>9. IsRun(run, n, V, base, step)
  <2>1. Follows(it, n, V, base, step)
    BY <1>2, <1>3, <1>7, <1>8 DEF Follows
  <2> QED BY <1>1, <2>1, FoldPrefixes
<1>10. run[n] = it[1..n]
  BY DEF Beginnings
<1> HIDE DEF run
<1>11. n \in 0..n
  OBVIOUS
<1> QED BY <1>6, <1>9, <1>10, <1>11 DEF IsRun

\* The groups of a tick, one after another.
LEMMA GroupRun ==
    ASSUME NEW V, NEW n \in Nat, NEW seq, DOMAIN seq = 1..n, NEW base \in V,
           \A m \in V : \A k \in 1..n : WorkGroup(m, seq[k]) \in V
    PROVE  FoldGroups(base, seq) \in V /\ (n = 0 => FoldGroups(base, seq) = base)
<1> DEFINE step == [x \in (1..n) \X V |-> WorkGroup(x[2], seq[x[1]])]
           Solves(it) == it = [S \in SUBSET (1..n) |->
               IF S = {} THEN base ELSE WorkGroup(it[S \ {Max(S)}], seq[Max(S)])]
           it == CHOOSE f : Solves(f)
           run == Beginnings(it, n)
<1>1. step \in [(1..n) \X V -> V]
  OBVIOUS
<1>2. \A k \in 1..n : \A m \in V : step[<<k, m>>] = WorkGroup(m, seq[k])
  OBVIOUS
<1> HIDE DEF step
<1>3. \A S \in SUBSET (1..n) : S # {} => Max(S) \in 1..n /\ S \ {Max(S)} \in SUBSET (1..n)
  BY HasMax
<1>4. \E f : Solves(f)
  <2>1. PICK f : IsSolution(f, n, V, base, step)
    BY <1>1, FoldSolution
  <2>2. \A S \in SUBSET (1..n) : Taken(S, base, step, f) =
            IF S = {} THEN base ELSE WorkGroup(f[S \ {Max(S)}], seq[Max(S)])
    BY <1>2, <1>3, <2>1 DEF Taken, IsSolution
  <2>3. Solves(f)
    BY <2>1, <2>2 DEF IsSolution
  <2> QED BY <2>3
<1>5. Solves(it)
  BY <1>4
<1>6. FoldGroups(base, seq) = it[1..n]
  BY DEF FoldGroups, FoldLeft, MapThenFoldSet
<1>7. it[{}] = base
  BY <1>5
<1>8. \A S \in SUBSET (1..n) : S # {} => it[S] = WorkGroup(it[S \ {Max(S)}], seq[Max(S)])
  BY <1>5
<1> HIDE DEF it, Solves
<1>9. IsRun(run, n, V, base, step)
  <2>1. Follows(it, n, V, base, step)
    BY <1>2, <1>3, <1>7, <1>8 DEF Follows
  <2> QED BY <1>1, <2>1, FoldPrefixes
<1>10. run[n] = it[1..n]
  BY DEF Beginnings
<1> HIDE DEF run
<1>11. n \in 0..n
  OBVIOUS
<1> QED BY <1>6, <1>9, <1>10, <1>11 DEF IsRun

\* The debits of a bus, one after another.
LEMMA DebitRun ==
    ASSUME NEW V, NEW n \in Nat, NEW seq, DOMAIN seq = 1..n, NEW base \in V,
           \A m \in V : \A k \in 1..n : ApplyMineYield(m, seq[k]) \in V
    PROVE  \E run : IsDebitRun(run, n, V, base, seq)
<1> DEFINE step == [x \in (1..n) \X V |-> ApplyMineYield(x[2], seq[x[1]])]
           Solves(it) == it = [S \in SUBSET (1..n) |->
               IF S = {} THEN base ELSE ApplyMineYield(it[S \ {Max(S)}], seq[Max(S)])]
           it == CHOOSE f : Solves(f)
           run == Beginnings(it, n)
<1>1. step \in [(1..n) \X V -> V]
  OBVIOUS
<1>2. \A k \in 1..n : \A m \in V : step[<<k, m>>] = ApplyMineYield(m, seq[k])
  OBVIOUS
<1> HIDE DEF step
<1>3. \A S \in SUBSET (1..n) : S # {} => Max(S) \in 1..n /\ S \ {Max(S)} \in SUBSET (1..n)
  BY HasMax
<1>4. \E f : Solves(f)
  <2>1. PICK f : IsSolution(f, n, V, base, step)
    BY <1>1, FoldSolution
  <2>2. \A S \in SUBSET (1..n) : Taken(S, base, step, f) =
            IF S = {} THEN base ELSE ApplyMineYield(f[S \ {Max(S)}], seq[Max(S)])
    BY <1>2, <1>3, <2>1 DEF Taken, IsSolution
  <2>3. Solves(f)
    BY <2>1, <2>2 DEF IsSolution
  <2> QED BY <2>3
<1>5. Solves(it)
  BY <1>4
<1>6. FoldDebits(base, seq) = it[1..n]
  BY DEF FoldDebits, FoldLeft, MapThenFoldSet
<1>7. it[{}] = base
  BY <1>5
<1>8. \A S \in SUBSET (1..n) : S # {} => it[S] = ApplyMineYield(it[S \ {Max(S)}], seq[Max(S)])
  BY <1>5
<1> HIDE DEF it, Solves
<1>9. IsRun(run, n, V, base, step)
  <2>1. Follows(it, n, V, base, step)
    BY <1>2, <1>3, <1>7, <1>8 DEF Follows
  <2> QED BY <1>1, <2>1, FoldPrefixes
<1>10. \A k \in 1..n : run[k] = ApplyMineYield(run[k - 1], seq[k])
  <2>1. \A k \in 1..n : k - 1 \in 0..n
    OBVIOUS
  <2> HIDE DEF run
  <2> QED BY <1>2, <1>9, <2>1 DEF IsRun
<1>11. run[n] = it[1..n]
  BY DEF Beginnings
<1> HIDE DEF run
<1>12. IsDebitRun(run, n, V, base, seq)
  BY <1>6, <1>9, <1>10, <1>11 DEF IsRun, IsDebitRun
<1> QED BY <1>12

\* The members of an order that some ships leave.
LEMMA StayRun ==
    ASSUME NEW V, NEW n \in Nat, NEW seq, DOMAIN seq = 1..n, NEW base \in V, NEW ss,
           \A m \in V : \A k \in 1..n : Leave(m, seq[k], ss) \in V
    PROVE  FoldStay(base, seq, ss) \in V /\ (n = 0 => FoldStay(base, seq, ss) = base)
<1> DEFINE step == [x \in (1..n) \X V |-> Leave(x[2], seq[x[1]], ss)]
           Solves(it) == it = [S \in SUBSET (1..n) |->
               IF S = {} THEN base ELSE Leave(it[S \ {Max(S)}], seq[Max(S)], ss)]
           it == CHOOSE f : Solves(f)
           run == Beginnings(it, n)
<1>1. step \in [(1..n) \X V -> V]
  OBVIOUS
<1>2. \A k \in 1..n : \A m \in V : step[<<k, m>>] = Leave(m, seq[k], ss)
  OBVIOUS
<1> HIDE DEF step
<1>3. \A S \in SUBSET (1..n) : S # {} => Max(S) \in 1..n /\ S \ {Max(S)} \in SUBSET (1..n)
  BY HasMax
<1>4. \E f : Solves(f)
  <2>1. PICK f : IsSolution(f, n, V, base, step)
    BY <1>1, FoldSolution
  <2>2. \A S \in SUBSET (1..n) : Taken(S, base, step, f) =
            IF S = {} THEN base ELSE Leave(f[S \ {Max(S)}], seq[Max(S)], ss)
    BY <1>2, <1>3, <2>1 DEF Taken, IsSolution
  <2>3. Solves(f)
    BY <2>1, <2>2 DEF IsSolution
  <2> QED BY <2>3
<1>5. Solves(it)
  BY <1>4
<1>6. FoldStay(base, seq, ss) = it[1..n]
  BY DEF FoldStay, FoldLeft, MapThenFoldSet
<1>7. it[{}] = base
  BY <1>5
<1>8. \A S \in SUBSET (1..n) : S # {} => it[S] = Leave(it[S \ {Max(S)}], seq[Max(S)], ss)
  BY <1>5
<1> HIDE DEF it, Solves
<1>9. IsRun(run, n, V, base, step)
  <2>1. Follows(it, n, V, base, step)
    BY <1>2, <1>3, <1>7, <1>8 DEF Follows
  <2> QED BY <1>1, <2>1, FoldPrefixes
<1>10. run[n] = it[1..n]
  BY DEF Beginnings
<1> HIDE DEF run
<1>11. n \in 0..n
  OBVIOUS
<1> QED BY <1>6, <1>9, <1>10, <1>11 DEF IsRun

\* The orders that some ships leave.
LEMMA ReleaseRun ==
    ASSUME NEW V, NEW n \in Nat, NEW seq, DOMAIN seq = 1..n, NEW base \in V, NEW ss,
           \A m \in V : \A k \in 1..n : KeepIfManned(m, Without(seq[k], ss)) \in V
    PROVE  FoldRelease(base, seq, ss) \in V /\ (n = 0 => FoldRelease(base, seq, ss) = base)
<1> DEFINE step == [x \in (1..n) \X V |-> KeepIfManned(x[2], Without(seq[x[1]], ss))]
           Solves(it) == it = [S \in SUBSET (1..n) |->
               IF S = {} THEN base ELSE KeepIfManned(it[S \ {Max(S)}], Without(seq[Max(S)], ss))]
           it == CHOOSE f : Solves(f)
           run == Beginnings(it, n)
<1>1. step \in [(1..n) \X V -> V]
  OBVIOUS
<1>2. \A k \in 1..n : \A m \in V : step[<<k, m>>] = KeepIfManned(m, Without(seq[k], ss))
  OBVIOUS
<1> HIDE DEF step
<1>3. \A S \in SUBSET (1..n) : S # {} => Max(S) \in 1..n /\ S \ {Max(S)} \in SUBSET (1..n)
  BY HasMax
<1>4. \E f : Solves(f)
  <2>1. PICK f : IsSolution(f, n, V, base, step)
    BY <1>1, FoldSolution
  <2>2. \A S \in SUBSET (1..n) : Taken(S, base, step, f) =
            IF S = {} THEN base ELSE KeepIfManned(f[S \ {Max(S)}], Without(seq[Max(S)], ss))
    BY <1>2, <1>3, <2>1 DEF Taken, IsSolution
  <2>3. Solves(f)
    BY <2>1, <2>2 DEF IsSolution
  <2> QED BY <2>3
<1>5. Solves(it)
  BY <1>4
<1>6. FoldRelease(base, seq, ss) = it[1..n]
  BY DEF FoldRelease, FoldLeft, MapThenFoldSet
<1>7. it[{}] = base
  BY <1>5
<1>8. \A S \in SUBSET (1..n) : S # {} => it[S] = KeepIfManned(it[S \ {Max(S)}], Without(seq[Max(S)], ss))
  BY <1>5
<1> HIDE DEF it, Solves
<1>9. IsRun(run, n, V, base, step)
  <2>1. Follows(it, n, V, base, step)
    BY <1>2, <1>3, <1>7, <1>8 DEF Follows
  <2> QED BY <1>1, <2>1, FoldPrefixes
<1>10. run[n] = it[1..n]
  BY DEF Beginnings
<1> HIDE DEF run
<1>11. n \in 0..n
  OBVIOUS
<1> QED BY <1>6, <1>9, <1>10, <1>11 DEF IsRun

-----------------------------------------------------------------------------
(* Least and greatest numbers of the sets the model names.                   *)

LEMMA MinOfTwo ==
    ASSUME NEW a \in Nat, NEW b \in Nat
    PROVE  Min({a, b}) = IF a <= b THEN a ELSE b
<1>1. \E x \in {a, b} : \A y \in {a, b} : x <= y
  OBVIOUS
<1>2. Min({a, b}) \in {a, b} /\ \A y \in {a, b} : Min({a, b}) <= y
  BY <1>1 DEF Min
<1> QED BY <1>2

LEMMA MinOfThree ==
    ASSUME NEW a \in Nat, NEW b \in Nat, NEW c \in Nat
    PROVE  Min({a, b, c}) \in Nat /\ Min({a, b, c}) <= a /\ Min({a, b, c}) <= b
           /\ Min({a, b, c}) <= c
<1>1. \E x \in {a, b, c} : \A y \in {a, b, c} : x <= y
  OBVIOUS
<1>2. Min({a, b, c}) \in {a, b, c} /\ \A y \in {a, b, c} : Min({a, b, c}) <= y
  BY <1>1 DEF Min
<1> QED BY <1>2

LEMMA MaxOfTwo ==
    ASSUME NEW a \in Int, NEW b \in Int
    PROVE  Max({a, b}) = IF a >= b THEN a ELSE b
<1>1. \E x \in {a, b} : \A y \in {a, b} : x >= y
  OBVIOUS
<1>2. Max({a, b}) \in {a, b} /\ \A y \in {a, b} : Max({a, b}) >= y
  BY <1>1 DEF Max
<1> QED BY <1>2

\* There is a best one: the greatest, ties to the lower index.
LEMMA BestOf ==
    ASSUME NEW n \in Nat, NEW f \in [1..n -> Nat], NEW S \in SUBSET (1..n), S # {}
    PROVE  \E o \in S : \A p \in S : f[p] < f[o] \/ (f[p] = f[o] /\ o <= p)
<1> DEFINE Beats(o, p) == f[p] < f[o] \/ (f[p] = f[o] /\ o <= p)
           Good == {m \in Nat : \A T \in SUBSET (1..n) : T \subseteq 1..m /\ T # {} =>
                        \E o \in T : \A p \in T : Beats(o, p)}
<1>1. 0 \in Good
  <2>1. \A T \in SUBSET (1..n) : T \subseteq 1..0 => T = {}
    OBVIOUS
  <2> QED BY <2>1
<1>2. ASSUME NEW m \in Nat, m \in Good PROVE m + 1 \in Good
  <2> SUFFICES ASSUME NEW T \in SUBSET (1..n), T \subseteq 1..(m + 1), T # {}
               PROVE  \E o \in T : \A p \in T : Beats(o, p)
    OBVIOUS
  <2> DEFINE U == T \ {m + 1}
  <2>1. U \in SUBSET (1..n) /\ U \subseteq 1..m
    OBVIOUS
  <2>2. CASE U = {}
    <3>1. T = {m + 1} /\ f[m + 1] \in Nat
      BY <2>2
    <3>2. Beats(m + 1, m + 1)
      BY <3>1
    <3> QED BY <3>1, <3>2
  <2>3. CASE U # {}
    <3>1. PICK o \in U : \A p \in U : Beats(o, p)
      BY <1>2, <2>1, <2>3
    <3>2. CASE m + 1 \notin T
      BY <3>1, <3>2
    <3>3. CASE m + 1 \in T /\ f[m + 1] <= f[o]
      <4>1. Beats(o, m + 1)
        BY <2>1, <3>3
      <4>2. \A p \in T : p \in U \/ p = m + 1
        OBVIOUS
      <4> HIDE DEF Beats
      <4> QED BY <3>1, <4>1, <4>2
    <3>4. CASE m + 1 \in T /\ ~ (f[m + 1] <= f[o])
      <4>1. \A p \in T : p \in U \/ p = m + 1
        OBVIOUS
      <4>2. \A p \in U : p \in 1..n /\ f[p] \in Nat
        BY <2>1
      <4>3. o \in U /\ m + 1 \in 1..n /\ f[m + 1] \in Nat /\ f[m + 1] > f[o]
        BY <2>1, <3>4
      <4> HIDE DEF U
      <4>4. \A p \in U : f[p] <= f[o]
        BY <3>1, <4>2, <4>3
      <4>5. \A p \in T : Beats(m + 1, p)
        BY <4>1, <4>2, <4>3, <4>4
      <4> QED BY <3>4, <4>5
    <3> QED BY <3>2, <3>3, <3>4
  <2> QED BY <2>2, <2>3
<1>3. n \in Good
  <2> HIDE DEF Good
  <2> QED BY <1>1, <1>2, NumberInduction
<1> QED BY <1>3

-----------------------------------------------------------------------------
(* Totals of sequences of numbers.                                           *)

\* The totals of the beginnings of a sequence.
IsCount(sum, seq) ==
    /\ sum \in [0..Len(seq) -> Nat] /\ sum[0] = 0
    /\ \A k \in 1..Len(seq) : sum[k] = sum[k - 1] + seq[k]

LEMMA TotalIs ==
    ASSUME NEW seq \in Seq(Nat)
    PROVE  \E sum : IsCount(sum, seq) /\ Total(seq) = sum[Len(seq)]
<1> DEFINE n == Len(seq)
           Adds(f, m) == \A k \in 0..n : k <= m => f[k] = IF k = 0 THEN 0 ELSE f[k - 1] + seq[k]
           Good == {m \in Nat : \E f : Adds(f, m)}
           Solves(f) == f = [k \in 0..n |-> IF k = 0 THEN 0 ELSE f[k - 1] + seq[k]]
           sum == CHOOSE f : Solves(f)
<1>0. n \in Nat /\ \A k \in 1..n : seq[k] \in Nat
  OBVIOUS
<1> HIDE DEF n
<1>1. 0 \in Good
  <2> DEFINE f == [k \in 0..n |-> 0]
  <2>1. Adds(f, 0)
    BY <1>0
  <2> HIDE DEF f, Adds
  <2> QED BY <2>1
<1>2. ASSUME NEW m \in Nat, m \in Good PROVE m + 1 \in Good
  <2>1. PICK f : Adds(f, m)
    BY <1>2
  <2> DEFINE h == [k \in 0..n |-> IF k <= m THEN f[k] ELSE f[k - 1] + seq[k]]
  <2>2. ASSUME NEW k \in 0..n, k <= m + 1 PROVE h[k] = IF k = 0 THEN 0 ELSE h[k - 1] + seq[k]
    <3>1. CASE k = 0
      BY <1>0, <2>1, <3>1
    <3>2. CASE k # 0
      <4>1. k - 1 \in 0..n /\ k - 1 <= m
        BY <1>0, <2>2, <3>2
      <4>2. h[k - 1] = f[k - 1]
        BY <4>1
      <4>3. h[k] = f[k - 1] + seq[k]
        BY <2>1, <3>2
      <4> QED BY <3>2, <4>2, <4>3
    <3> QED BY <3>1, <3>2
  <2>3. Adds(h, m + 1)
    BY <2>2
  <2> HIDE DEF h, Adds
  <2> QED BY <2>3
<1>3. n \in Good
  <2> HIDE DEF Good
  <2> QED BY <1>0, <1>1, <1>2, NumberInduction
<1>4. PICK f : Adds(f, n)
  BY <1>3
<1>5. Solves([k \in 0..n |-> f[k]])
  <2> DEFINE h == [k \in 0..n |-> f[k]]
  <2>1. ASSUME NEW k \in 0..n PROVE h[k] = IF k = 0 THEN 0 ELSE h[k - 1] + seq[k]
    <3>1. k # 0 => k - 1 \in 0..n
      BY <1>0
    <3> QED BY <1>0, <1>4, <3>1
  <2> QED BY <2>1
<1>6. Solves(sum)
  <2> HIDE DEF Solves
  <2> QED BY <1>5
<1>7. Total(seq) = sum[n]
  BY DEF Total, n
<1>8. sum = [k \in 0..n |-> sum[k]]
  <2> HIDE DEF sum
  <2> QED BY <1>6
<1>8a. \A k \in 0..n : sum[k] = IF k = 0 THEN 0 ELSE sum[k - 1] + seq[k]
  <2> HIDE DEF sum
  <2> QED BY <1>6
<1> HIDE DEF sum, Solves
<1>9. \A m \in Nat : m <= n => sum[m] \in Nat
  <2> DEFINE G == {m \in Nat : m <= n => sum[m] \in Nat}
  <2>1. 0 \in G
    BY <1>0, <1>8a
  <2>2. ASSUME NEW m \in Nat, m \in G PROVE m + 1 \in G
    <3> SUFFICES ASSUME m + 1 <= n PROVE sum[m + 1] \in Nat
      OBVIOUS
    <3>1. sum[m] \in Nat /\ m + 1 \in 0..n /\ seq[m + 1] \in Nat /\ (m + 1) - 1 = m
      BY <1>0, <2>2
    <3>2. sum[m + 1] = sum[(m + 1) - 1] + seq[m + 1]
      BY <1>8a, <3>1
    <3> QED BY <3>1, <3>2
  <2> HIDE DEF G
  <2>3. \A m \in Nat : m \in G
    BY <2>1, <2>2, NumberInduction
  <2> QED BY <2>3 DEF G
<1>10. \A k \in 0..n : sum[k] \in Nat
  BY <1>0, <1>9
<1>11. sum \in [0..n -> Nat] /\ sum[0] = 0
  <2>1. sum[0] = 0
    BY <1>0, <1>8a
  <2>2. [k \in 0..n |-> sum[k]] \in [0..n -> Nat]
    BY <1>10
  <2> QED BY <1>8, <2>1, <2>2
<1>12. \A k \in 1..n : sum[k] = sum[k - 1] + seq[k]
  BY <1>0, <1>8a
<1>13. IsCount(sum, seq)
  BY <1>11, <1>12 DEF IsCount, n
<1> QED BY <1>7, <1>13 DEF n

\* A later beginning totals no less.
LEMMA CountsGrow ==
    ASSUME NEW seq \in Seq(Nat), NEW sum, IsCount(sum, seq), NEW k \in 0..Len(seq)
    PROVE  sum[k] <= sum[Len(seq)]
<1> DEFINE n == Len(seq)
           Good == {j \in Nat : k + j <= n => sum[k] <= sum[k + j]}
<1>1. n \in Nat /\ k \in 0..n /\ \A i \in 1..n : seq[i] \in Nat
  OBVIOUS
<1>2. sum \in [0..n -> Nat] /\ \A i \in 1..n : sum[i] = sum[i - 1] + seq[i]
  BY DEF IsCount
<1> HIDE DEF n
<1>3. 0 \in Good
  BY <1>1, <1>2
<1>4. ASSUME NEW j \in Nat, j \in Good PROVE j + 1 \in Good
  <2> SUFFICES ASSUME k + (j + 1) <= n PROVE sum[k] <= sum[k + (j + 1)]
    OBVIOUS
  <2>1. sum[k] <= sum[k + j]
    BY <1>1, <1>4
  <2>2. k + (j + 1) \in 1..n /\ (k + (j + 1)) - 1 = k + j /\ k + j \in 0..n
    BY <1>1
  <2>3. sum[k + (j + 1)] = sum[k + j] + seq[k + (j + 1)]
    BY <1>2, <2>2
  <2>4. sum[k] \in Nat /\ sum[k + j] \in Nat /\ seq[k + (j + 1)] \in Nat
    BY <1>1, <1>2, <2>2
  <2> QED BY <2>1, <2>3, <2>4
<1>5. n - k \in Nat /\ k + (n - k) = n
  BY <1>1
<1>6. n - k \in Good
  <2> HIDE DEF Good
  <2> QED BY <1>3, <1>4, <1>5, NumberInduction
<1>7. sum[k] <= sum[k + (n - k)]
  BY <1>5, <1>6
<1> QED BY <1>5, <1>7 DEF n

LEMMA TotalIsNat ==
    ASSUME NEW seq \in Seq(Nat)
    PROVE  Total(seq) \in Nat
<1>1. PICK sum : IsCount(sum, seq) /\ Total(seq) = sum[Len(seq)]
  BY TotalIs
<1>2. Len(seq) \in 0..Len(seq)
  OBVIOUS
<1> QED BY <1>1, <1>2 DEF IsCount

LEMMA TotalOfZeros ==
    ASSUME NEW seq \in Seq(Nat), \A k \in 1..Len(seq) : seq[k] = 0
    PROVE  Total(seq) = 0
<1> DEFINE n == Len(seq)
<1>0. n \in Nat /\ \A k \in 1..n : seq[k] = 0
  OBVIOUS
<1>1. PICK sum : IsCount(sum, seq) /\ Total(seq) = sum[n]
  BY TotalIs
<1>2. sum[0] = 0 /\ \A k \in 1..n : sum[k] = sum[k - 1] + seq[k]
  BY <1>1 DEF IsCount
<1> HIDE DEF n
<1> DEFINE Good == {m \in Nat : m <= n => sum[m] = 0}
<1>3. 0 \in Good
  BY <1>2
<1>4. ASSUME NEW m \in Nat, m \in Good PROVE m + 1 \in Good
  <2> SUFFICES ASSUME m + 1 <= n PROVE sum[m + 1] = 0
    OBVIOUS
  <2>1. sum[m] = 0 /\ m + 1 \in 1..n /\ (m + 1) - 1 = m
    BY <1>0, <1>4
  <2>2. sum[m + 1] = sum[m] + seq[m + 1] /\ seq[m + 1] = 0
    BY <1>0, <1>2, <2>1
  <2> QED BY <2>1, <2>2
<1>5. n \in Good
  <2> HIDE DEF Good
  <2> QED BY <1>0, <1>3, <1>4, NumberInduction
<1> QED BY <1>0, <1>1, <1>5

LEMMA SameShift ==
    ASSUME NEW p \in Nat, NEW q \in Nat, NEW r \in Nat, NEW u \in Nat, NEW x \in Nat,
           p + q = r + u
    PROVE  (p + x) + q = (r + x) + u
  OBVIOUS

\* Two sequences that differ at one place at most.
LEMMA TotalChanged ==
    ASSUME NEW a \in Seq(Nat), NEW b \in Seq(Nat), Len(a) = Len(b), NEW i \in 1..Len(a),
           \A k \in 1..Len(a) : k # i => a[k] = b[k]
    PROVE  Total(b) + a[i] = Total(a) + b[i]
<1> DEFINE n == Len(a)
<1>0. n \in Nat /\ i \in 1..n /\ (\A k \in 1..n : a[k] \in Nat /\ b[k] \in Nat)
      /\ (\A k \in 1..n : k # i => a[k] = b[k])
  OBVIOUS
<1>1. PICK s : IsCount(s, a) /\ Total(a) = s[n]
  BY TotalIs
<1>2. PICK t : IsCount(t, b) /\ Total(b) = t[n]
  BY TotalIs
<1>3. s[0] = 0 /\ (\A k \in 0..n : s[k] \in Nat) /\ \A k \in 1..n : s[k] = s[k - 1] + a[k]
  BY <1>1 DEF IsCount
<1>4. t[0] = 0 /\ (\A k \in 0..n : t[k] \in Nat) /\ \A k \in 1..n : t[k] = t[k - 1] + b[k]
  BY <1>2 DEF IsCount
<1> HIDE DEF n
<1> DEFINE Good == {m \in Nat : m <= n => IF m < i THEN s[m] = t[m] ELSE t[m] + a[i] = s[m] + b[i]}
<1>5. 0 \in Good
  BY <1>0, <1>3, <1>4
<1>6. ASSUME NEW m \in Nat, m \in Good PROVE m + 1 \in Good
  <2> SUFFICES ASSUME m + 1 <= n
               PROVE  IF m + 1 < i THEN s[m + 1] = t[m + 1]
                      ELSE t[m + 1] + a[i] = s[m + 1] + b[i]
    OBVIOUS
  <2>1. m + 1 \in 1..n /\ (m + 1) - 1 = m /\ m \in 0..n /\ i \in Nat
    BY <1>0
  <2>2. s[m + 1] = s[m] + a[m + 1] /\ t[m + 1] = t[m] + b[m + 1]
    BY <1>3, <1>4, <2>1
  <2>3. s[m] \in Nat /\ t[m] \in Nat /\ a[m + 1] \in Nat /\ b[m + 1] \in Nat
        /\ a[i] \in Nat /\ b[i] \in Nat
    BY <1>0, <1>3, <1>4, <2>1
  <2>4. IF m < i THEN s[m] = t[m] ELSE t[m] + a[i] = s[m] + b[i]
    BY <1>6, <2>1
  <2>5. CASE m + 1 < i
    BY <1>0, <2>1, <2>2, <2>4, <2>5
  <2>6. CASE m + 1 = i
    BY <2>1, <2>2, <2>3, <2>4, <2>6
  <2>7. CASE m + 1 > i
    <3>1. a[m + 1] = b[m + 1]
      BY <1>0, <2>1, <2>7
    <3>2. ~ (m < i) /\ ~ (m + 1 < i)
      BY <2>1, <2>7
    <3>3. t[m] + a[i] = s[m] + b[i]
      BY <2>4, <3>2
    <3>4. (t[m] + b[m + 1]) + a[i] = (s[m] + b[m + 1]) + b[i]
      <4> DEFINE p == t[m]
                 q == a[i]
                 r == s[m]
                 u == b[i]
                 x == b[m + 1]
      <4>1. p \in Nat /\ q \in Nat /\ r \in Nat /\ u \in Nat /\ x \in Nat /\ p + q = r + u
        BY <2>3, <3>3
      <4> HIDE DEF p, q, r, u, x
      <4>2. (p + x) + q = (r + x) + u
        BY <4>1, SameShift
      <4> QED BY <4>2 DEF p, q, r, u, x
    <3>5. s[m + 1] = s[m] + b[m + 1] /\ t[m + 1] = t[m] + b[m + 1]
      BY <2>2, <3>1
    <3>6. t[m + 1] + a[i] = s[m + 1] + b[i]
      BY <3>4, <3>5
    <3> QED BY <3>2, <3>6
  <2> QED BY <2>1, <2>5, <2>6, <2>7
<1>7. n \in Good
  <2> HIDE DEF Good
  <2> QED BY <1>0, <1>5, <1>6, NumberInduction
<1> QED BY <1>0, <1>1, <1>2, <1>7

LEMMA TotalAppended ==
    ASSUME NEW a \in Seq(Nat), NEW x \in Nat
    PROVE  Total(Append(a, x)) = Total(a) + x
<1> DEFINE n == Len(a)
           b == Append(a, x)
<1>0. n \in Nat /\ b \in Seq(Nat) /\ Len(b) = n + 1 /\ b[n + 1] = x
      /\ \A k \in 1..n : b[k] = a[k] /\ a[k] \in Nat
  OBVIOUS
<1>1. PICK s : IsCount(s, a) /\ Total(a) = s[n]
  BY TotalIs
<1>3. s[0] = 0 /\ (\A k \in 0..n : s[k] \in Nat) /\ \A k \in 1..n : s[k] = s[k - 1] + a[k]
  BY <1>1 DEF IsCount
<1> HIDE DEF b
<1>2. PICK t : IsCount(t, b) /\ Total(b) = t[n + 1]
  BY <1>0, TotalIs
<1>4. t[0] = 0 /\ (\A k \in 0..(n + 1) : t[k] \in Nat)
      /\ \A k \in 1..(n + 1) : t[k] = t[k - 1] + b[k]
  BY <1>0, <1>2 DEF IsCount
<1> HIDE DEF n
<1> DEFINE Good == {m \in Nat : m <= n => s[m] = t[m]}
<1>5. 0 \in Good
  BY <1>3, <1>4
<1>6. ASSUME NEW m \in Nat, m \in Good PROVE m + 1 \in Good
  <2> SUFFICES ASSUME m + 1 <= n PROVE s[m + 1] = t[m + 1]
    OBVIOUS
  <2>1. m + 1 \in 1..n /\ m + 1 \in 1..(n + 1) /\ (m + 1) - 1 = m /\ s[m] = t[m]
    BY <1>0, <1>6
  <2>2. s[m + 1] = s[m] + a[m + 1] /\ t[m + 1] = t[m] + b[m + 1] /\ b[m + 1] = a[m + 1]
    BY <1>0, <1>3, <1>4, <2>1
  <2> QED BY <2>1, <2>2
<1>7. n \in Good
  <2> HIDE DEF Good
  <2> QED BY <1>0, <1>5, <1>6, NumberInduction
<1>8. t[n + 1] = t[n] + x
  <2>1. n + 1 \in 1..(n + 1) /\ (n + 1) - 1 = n
    BY <1>0
  <2> QED BY <1>0, <1>4, <2>1
<1>9. s[n] = t[n]
  BY <1>0, <1>7
<1> QED BY <1>1, <1>2, <1>8, <1>9 DEF b

-----------------------------------------------------------------------------
(* The inductive invariant.                                                  *)

Pools == [Clusters -> [Ores -> Nat]]
Holds == [Ores -> Nat]
Works == [left : NotCycling..(CycleTicks + StackCap * SlowTicks), cluster : Clusters,
          stacks : 0..StackCap, outside : 0..(DecayTicks - 1), heat : Nat,
          lockout : 0..LockoutTicks]
MineOrders == [members : Seq(Ships), cluster : Clusters, filter : Filters, arrived : BOOLEAN]
Debits == [cluster : Clusters, ore : Ores, units : Nat, epoch : Epochs]
Rows == [epoch : Epochs, units : Pools]

\* Orders of some of these ships.
Manned(gs, ss) ==
    /\ gs \in Seq(MineOrders)
    /\ \A k \in 1..Len(gs) : gs[k].members # <<>> /\ ToSet(gs[k].members) \subseteq ss

\* The cargo of every ship is in its hold.
Stowed(c) == c \in [Ships -> Holds] /\ \A s \in Ships : Litres(c[s]) <= HoldLitres

\* The heat of a ship between two ticks, and within one, after the clocks have
\* moved and before the idle lasers cool.
Cool(w) ==
    /\ hazard # "Nebula" => w.heat = 0 /\ w.lockout = 0
    /\ w.left # NotCycling => w.lockout = 0
    /\ w.lockout = 0 => w.heat < HeatThreshold
    /\ w.lockout > 0 => w.heat < HeatThreshold + (w.lockout - 1) * HeatDecay
CoolWithin(w) ==
    /\ hazard # "Nebula" => w.heat = 0 /\ w.lockout = 0
    /\ w.left # NotCycling => w.lockout = 0
    /\ w.heat < HeatThreshold + w.lockout * HeatDecay

Typed ==
    /\ hazard \in Hazards /\ epoch \in Epochs /\ fieldEpoch \in Epochs
    /\ reloaded \in BOOLEAN /\ live \in BOOLEAN /\ watched \in BOOLEAN
    /\ field \in Pools /\ inside \subseteq here /\ here \subseteq Ships
    /\ Stowed(cargo) /\ work \in [Ships -> Works] /\ Manned(groups, here)
    /\ ledger \in Rows \cup {NoLedger} /\ won \in Rows
    /\ bus \in Seq(Debits) /\ held \in Seq(Debits)

IInv ==
    /\ Typed
    /\ \A s \in Ships : Cool(work[s]) /\ (s \notin here => work[s] = Idle)

\* What a sequence of debits takes out of one ore of one cluster of an epoch.
Parts(seq, e, c, o) == [k \in DOMAIN seq |-> OfPool(seq[k], e, c, o)]
OnBus(seq, e, c, o) == Total(Parts(seq, e, c, o))

\* While no debit is loaded with the shard.  The epoch the next ore comes from,
\* and what is left of it.
ThisEpoch == IF live THEN fieldEpoch ELSE epoch
Left == IF live THEN field ELSE Books(ledger, epoch)

BooksInv ==
    /\ held = <<>> /\ (reloaded => epoch = 0)
    /\ here # {} \/ watched => live
    /\ bus # <<>> => live
    /\ \A k \in 1..Len(bus) : bus[k].epoch = fieldEpoch
    /\ fieldEpoch <= epoch /\ won.epoch <= ThisEpoch
    /\ ledger # NoLedger => ledger.epoch <= ThisEpoch
    /\ \A c \in Clusters, o \in Ores :
        /\ Left[c][o] + WonIn(won, ThisEpoch)[c][o] = Pristine[ThisEpoch][c][o]
        /\ live => field[c][o] + OnBus(bus, fieldEpoch, c, o) = Books(ledger, fieldEpoch)[c][o]
        /\ won.units[c][o] <= Pristine[won.epoch][c][o]

\* A tick under way.
Mids == [field : Pools, cargo : [Ships -> Holds], won : Rows, filed : Seq(Debits),
         groups : Seq(MineOrders), work : [Ships -> Works], workable : BOOLEAN]

MidInv(m) ==
    /\ m \in Mids /\ Stowed(m.cargo) /\ Manned(m.groups, here)
    /\ \A s \in Ships : CoolWithin(m.work[s]) /\ (s \notin here => m.work[s] = Idle)

MidBooks(m) ==
    /\ \A k \in 1..Len(m.filed) : m.filed[k].epoch = fieldEpoch
    /\ m.won.epoch <= fieldEpoch
    /\ \A c \in Clusters, o \in Ores :
        /\ m.field[c][o] + OnBus(m.filed, fieldEpoch, c, o) = field[c][o]
        /\ m.field[c][o] + WonIn(m.won, fieldEpoch)[c][o] = Pristine[fieldEpoch][c][o]
        /\ m.won.units[c][o] <= Pristine[m.won.epoch][c][o]

-----------------------------------------------------------------------------
(* Holds, clusters and yields.                                               *)

LEMMA PoolPlus ==
    ASSUME NEW pool \in Pools, NEW a \in Clusters, NEW b \in Ores, NEW n \in Int,
           pool[a][b] + n >= 0
    PROVE  /\ Plus(pool, a, b, n) \in Pools
           /\ \A x \in Clusters, y \in Ores :
                  Plus(pool, a, b, n)[x][y] = IF x = a /\ y = b THEN pool[x][y] + n ELSE pool[x][y]
<1>0. pool \in [Clusters -> [Ores -> Nat]]
  BY DEF Pools
<1>1. Plus(pool, a, b, n) = [pool EXCEPT ![a] = [pool[a] EXCEPT ![b] = @ + n]]
  BY <1>0, Zenon DEF Plus
<1> DEFINE row == [pool[a] EXCEPT ![b] = @ + n]
<1>2. row \in [Ores -> Nat] /\ \A y \in Ores : row[y] = IF y = b THEN pool[a][y] + n ELSE pool[a][y]
  BY <1>0
<1> HIDE DEF row
<1>3. Plus(pool, a, b, n) = [pool EXCEPT ![a] = row]
  BY <1>1 DEF row
<1> QED BY <1>0, <1>2, <1>3 DEF Pools

LEMMA OresAre == Max(Ores) \in Nat /\ Ores = 1..Max(Ores)
  BY FieldAssumption

LEMMA ClustersAre == Max(Clusters) \in Nat /\ Clusters = 1..Max(Clusters) /\ 1 \in Clusters
<1>1. Max(Clusters) \in Nat \ {0} /\ Clusters = 1..Max(Clusters)
  BY FieldAssumption
<1> DEFINE n == Max(Clusters)
<1>2. n \in Nat \ {0} /\ Clusters = 1..n
  BY <1>1
<1> HIDE DEF n
<1> QED BY <1>2 DEF n

LEMMA OreSequence ==
    ASSUME NEW f \in [Ores -> Nat]
    PROVE  f \in Seq(Nat) /\ Len(f) = Max(Ores)
<1> DEFINE n == Max(Ores)
<1>1. n \in Nat /\ Ores = 1..n
  BY OresAre
<1> HIDE DEF n
<1>2. f \in [1..n -> Nat]
  BY <1>1
<1> QED BY <1>1, <1>2 DEF n

LEMMA LitresAre ==
    ASSUME NEW hold \in Holds
    PROVE  /\ [o \in Ores |-> hold[o] * Volume[o]] \in [Ores -> Nat]
           /\ Litres(hold) \in Nat
<1>1. \A o \in Ores : hold[o] \in Nat /\ Volume[o] \in Nat
  BY FieldAssumption DEF Holds
<1>2. \A o \in Ores : hold[o] * Volume[o] \in Nat
  BY <1>1
<1> DEFINE f == [o \in Ores |-> hold[o] * Volume[o]]
<1>3. f \in [Ores -> Nat]
  BY <1>2
<1>4. Litres(hold) = Total(f)
  BY DEF Litres
<1> HIDE DEF f
<1>5. Total(f) \in Nat
  BY <1>3, OreSequence, TotalIsNat
<1> QED BY <1>3, <1>4, <1>5 DEF f

LEMMA EmptyHold ==
    /\ [o \in Ores |-> 0] \in Holds
    /\ Litres([o \in Ores |-> 0]) = 0
<1> DEFINE none == [o \in Ores |-> 0]
           f == [o \in Ores |-> none[o] * Volume[o]]
<1>1. none \in Holds
  BY DEF Holds
<1>2. \A o \in Ores : Volume[o] \in Nat
  BY FieldAssumption
<1>3. f \in [Ores -> Nat] /\ \A o \in Ores : f[o] = 0
  BY <1>2
<1>4. Litres(none) = Total(f)
  BY DEF Litres
<1> HIDE DEF f, none
<1>5. f \in Seq(Nat) /\ Len(f) = Max(Ores)
  BY <1>3, OreSequence
<1>6. \A k \in 1..Len(f) : f[k] = 0
  BY <1>3, <1>5, OresAre
<1>7. Total(f) = 0
  BY <1>5, <1>6, TotalOfZeros
<1> QED BY <1>1, <1>4, <1>7 DEF none

LEMMA RoomIs ==
    ASSUME NEW hold \in Holds, Litres(hold) <= HoldLitres
    PROVE  Room(hold) \in Nat /\ Litres(hold) + Room(hold) = HoldLitres
<1>1. Litres(hold) \in Nat /\ HoldLitres \in Nat
  BY LitresAre, FieldAssumption
<1> QED BY <1>1 DEF Room

LEMMA LitresMore ==
    ASSUME NEW hold \in Holds, NEW o \in Ores, NEW u \in Nat
    PROVE  /\ [hold EXCEPT ![o] = @ + u] \in Holds
           /\ Litres([hold EXCEPT ![o] = @ + u]) = Litres(hold) + u * Volume[o]
<1> DEFINE fuller == [hold EXCEPT ![o] = @ + u]
           a == [p \in Ores |-> hold[p] * Volume[p]]
           b == [p \in Ores |-> fuller[p] * Volume[p]]
<1>1. fuller \in Holds
  BY DEF Holds
<1>2. a \in [Ores -> Nat] /\ Litres(hold) = Total(a)
  BY LitresAre DEF Litres
<1>3. b \in [Ores -> Nat] /\ Litres(fuller) = Total(b)
  <2> HIDE DEF fuller
  <2> QED BY <1>1, LitresAre DEF Litres
<1>4. \A p \in Ores : p # o => a[p] = b[p]
  BY DEF Holds
<1>5. a[o] = hold[o] * Volume[o] /\ b[o] = (hold[o] + u) * Volume[o]
  BY DEF Holds
<1>6. hold[o] \in Nat /\ Volume[o] \in Nat
  BY FieldAssumption DEF Holds
<1> HIDE DEF a, b, fuller
<1>7. (hold[o] + u) * Volume[o] = hold[o] * Volume[o] + u * Volume[o]
  <2> DEFINE h == hold[o]
             v == Volume[o]
  <2>1. h \in Nat /\ v \in Nat
    BY <1>6
  <2> HIDE DEF h, v
  <2>2. (h + u) * v = h * v + u * v
    BY <2>1
  <2> QED BY <2>2 DEF h, v
<1>8. a \in Seq(Nat) /\ b \in Seq(Nat) /\ Len(a) = Max(Ores) /\ Len(b) = Max(Ores)
  BY <1>2, <1>3, OreSequence
<1>9. Total(b) + a[o] = Total(a) + b[o]
  <2>1. o \in 1..Len(a) /\ \A k \in 1..Len(a) : k # o => a[k] = b[k]
    BY <1>4, <1>8, OresAre
  <2> QED BY <1>8, <2>1, TotalChanged
<1>10. Total(a) \in Nat /\ Total(b) \in Nat /\ a[o] \in Nat /\ u * Volume[o] \in Nat
  BY <1>2, <1>6, <1>8, TotalIsNat
<1>11. Total(b) + a[o] = Total(a) + (a[o] + u * Volume[o])
  BY <1>5, <1>7, <1>9
<1>12. Total(b) = Total(a) + u * Volume[o]
  <2> DEFINE p == Total(a)
             q == Total(b)
             r == a[o]
             w == u * Volume[o]
  <2>1. p \in Nat /\ q \in Nat /\ r \in Nat /\ w \in Nat /\ q + r = p + (r + w)
    BY <1>10, <1>11
  <2> HIDE DEF p, q, r, w
  <2>2. q = p + w
    BY <2>1
  <2> QED BY <2>2 DEF p, q, r, w
<1> QED BY <1>1, <1>2, <1>3, <1>12 DEF fuller

LEMMA NextOreIs ==
    ASSUME NEW rocks \in Holds, NEW room, NEW filter, Takeable(rocks, room, filter) # {}
    PROVE  NextOre(rocks, room, filter) \in Takeable(rocks, room, filter)
<1> DEFINE S == Takeable(rocks, room, filter)
<1>1. S \subseteq Ores
  BY DEF Takeable
<1> HIDE DEF S
<1>2. \E o \in S : \A p \in S : rocks[p] < rocks[o] \/ (rocks[p] = rocks[o] /\ o <= p)
  <2> DEFINE n == Max(Ores)
  <2>1. n \in Nat /\ Ores = 1..n
    BY OresAre
  <2> HIDE DEF n
  <2>2. rocks \in [1..n -> Nat] /\ S \in SUBSET (1..n) /\ S # {}
    BY <1>1, <2>1 DEF Holds, S
  <2> QED BY <2>1, <2>2, BestOf
<1> QED BY <1>2 DEF NextOre, S

LEMMA RichestIs ==
    ASSUME NEW f \in Pools, NEW filter
    PROVE  RichestCluster(f, filter) \in {0} \cup Clusters
<1> DEFINE rich == [c \in Clusters |-> Matching(f[c], filter)]
           S == {c \in Clusters : Matching(f[c], filter) > 0}
<1>1. \A c \in Clusters : Matching(f[c], filter) \in Nat
  <2> SUFFICES ASSUME NEW c \in Clusters PROVE Matching(f[c], filter) \in Nat
    OBVIOUS
  <2> DEFINE g == [o \in Ores |-> IF filter \in {AnyOre, o} THEN f[c][o] ELSE 0]
  <2>1. g \in [Ores -> Nat] /\ Matching(f[c], filter) = Total(g)
    BY DEF Pools, Matching
  <2> HIDE DEF g
  <2> QED BY <2>1, OreSequence, TotalIsNat
<1>2. rich \in [Clusters -> Nat] /\ S \subseteq Clusters /\ \A c \in Clusters : rich[c] = Matching(f[c], filter)
  BY <1>1
<1>3. CASE S = {}
  BY <1>3 DEF RichestCluster
<1>4. CASE S # {}
  <2> HIDE DEF rich, S
  <2>1. \E o \in S : \A p \in S : rich[p] < rich[o] \/ (rich[p] = rich[o] /\ o <= p)
    <3> DEFINE n == Max(Clusters)
    <3>1. n \in Nat /\ Clusters = 1..n
      BY ClustersAre
    <3> HIDE DEF n
    <3>2. rich \in [1..n -> Nat] /\ S \in SUBSET (1..n) /\ S # {}
      BY <1>2, <1>4, <3>1
    <3> QED BY <3>1, <3>2, BestOf
  <2>2. \E c \in S : \A d \in S : \/ Matching(f[d], filter) < Matching(f[c], filter)
                                  \/ Matching(f[d], filter) = Matching(f[c], filter) /\ c <= d
    BY <1>2, <2>1
  <2>3. RichestCluster(f, filter) \in S
    BY <1>4, <2>2 DEF RichestCluster, S
  <2> QED BY <1>2, <2>3
<1> QED BY <1>3, <1>4

\* What a cycle yields lies there, and the hold has room for it.
LEMMA YieldFits ==
    ASSUME NEW rocks \in Holds, NEW room \in Nat, NEW ore \in Ores
    PROVE  /\ CycleYield(rocks, room, ore) \in Nat
           /\ CycleYield(rocks, room, ore) <= rocks[ore]
           /\ CycleYield(rocks, room, ore) * Volume[ore] <= room
<1> DEFINE v == Volume[ore]
           q == room \div v
           u == CycleYield(rocks, room, ore)
<1>1. v \in Nat \ {0} /\ PerCycle[ore] \in Nat /\ rocks[ore] \in Nat
  BY FieldAssumption DEF Holds
<1>2. q \in Nat /\ q * v <= room
  <2> HIDE DEF v
  <2> QED BY <1>1
<1> HIDE DEF q
<1>3. u \in Nat /\ u <= rocks[ore] /\ u <= q
  BY <1>1, <1>2, MinOfThree DEF CycleYield, q
<1> HIDE DEF u, v
<1>4. u * v <= q * v
  BY <1>1, <1>2, <1>3
<1>5. u * v \in Nat /\ q * v \in Nat
  BY <1>1, <1>2, <1>3
<1>6. u * v <= room
  BY <1>2, <1>4, <1>5
<1> QED BY <1>3, <1>6 DEF u, v

\* Debits that one more joins.
LEMMA OnBusIs ==
    ASSUME NEW seq \in Seq(Debits), NEW e, NEW c, NEW o
    PROVE  /\ Parts(seq, e, c, o) \in Seq(Nat)
           /\ Len(Parts(seq, e, c, o)) = Len(seq)
           /\ \A k \in 1..Len(seq) : Parts(seq, e, c, o)[k] = OfPool(seq[k], e, c, o)
           /\ OnBus(seq, e, c, o) \in Nat
<1> DEFINE f == Parts(seq, e, c, o)
           n == Len(seq)
<1>1. n \in Nat /\ DOMAIN seq = 1..n /\ \A k \in 1..n : seq[k] \in Debits
  OBVIOUS
<1> HIDE DEF n
<1>2. \A k \in 1..n : OfPool(seq[k], e, c, o) \in Nat
  BY <1>1 DEF OfPool, Debits
<1>3. f \in [1..n -> Nat] /\ \A k \in 1..n : f[k] = OfPool(seq[k], e, c, o)
  BY <1>1, <1>2 DEF Parts
<1>4. OnBus(seq, e, c, o) = Total(f)
  BY DEF OnBus
<1> HIDE DEF f
<1>5. f \in Seq(Nat) /\ Len(f) = n
  BY <1>1, <1>3
<1> QED BY <1>3, <1>4, <1>5, TotalIsNat DEF f, n

LEMMA OnBusAppended ==
    ASSUME NEW seq \in Seq(Debits), NEW rec \in Debits, NEW e, NEW c, NEW o
    PROVE  OnBus(Append(seq, rec), e, c, o) = OnBus(seq, e, c, o) + OfPool(rec, e, c, o)
<1> DEFINE n == Len(seq)
           more == Append(seq, rec)
           f == Parts(seq, e, c, o)
           h == Parts(more, e, c, o)
           x == OfPool(rec, e, c, o)
<1>1. n \in Nat /\ DOMAIN seq = 1..n /\ DOMAIN more = 1..(n + 1) /\ more \in Seq(Debits)
      /\ Len(more) = n + 1 /\ more[n + 1] = rec /\ \A k \in 1..n : more[k] = seq[k]
  OBVIOUS
<1>2. f \in Seq(Nat) /\ Len(f) = n /\ OnBus(seq, e, c, o) = Total(f)
  BY OnBusIs DEF OnBus
<1> HIDE DEF more
<1>3. h \in Seq(Nat) /\ Len(h) = n + 1 /\ OnBus(more, e, c, o) = Total(h)
  BY <1>1, OnBusIs DEF OnBus
<1>4. x \in Nat
  BY DEF OfPool, Debits
<1>5. \A k \in 1..n : h[k] = f[k]
  BY <1>1 DEF Parts
<1>6. h[n + 1] = x
  BY <1>1 DEF Parts
<1> HIDE DEF f, h, x, n
<1>7. h = Append(f, x)
  <2> DEFINE a == Append(f, x)
  <2>1. a \in Seq(Nat) /\ Len(a) = n + 1 /\ a[n + 1] = x /\ \A k \in 1..n : a[k] = f[k]
    BY <1>2, <1>4
  <2> HIDE DEF a
  <2>2. \A k \in 1..(n + 1) : h[k] = a[k]
    BY <1>1, <1>5, <1>6, <2>1
  <2>3. h = a
    BY <1>1, <1>3, <2>1, <2>2
  <2> QED BY <2>3 DEF a
<1>8. Total(h) = Total(f) + x
  BY <1>2, <1>4, <1>7, TotalAppended
<1> QED BY <1>2, <1>3, <1>8 DEF x, more

LEMMA NothingOnBus ==
    ASSUME NEW e, NEW c \in Clusters, NEW o \in Ores
    PROVE  OnBus(<<>>, e, c, o) = 0
<1>1. <<>> \in Seq(Debits) /\ Len(<<>>) = 0
  OBVIOUS
<1>2. Parts(<<>>, e, c, o) \in Seq(Nat) /\ Len(Parts(<<>>, e, c, o)) = 0
  BY <1>1, OnBusIs
<1>3. Total(Parts(<<>>, e, c, o)) = 0
  BY <1>2, TotalOfZeros
<1> QED BY <1>3 DEF OnBus

LEMMA NothingIs ==
    /\ Nothing \in Pools
    /\ \A c \in Clusters, o \in Ores : Nothing[c][o] = 0
  BY DEF Nothing, Pools

LEMMA WonInIs ==
    ASSUME NEW w \in Rows, NEW e
    PROVE  WonIn(w, e) \in Pools
  BY NothingIs DEF WonIn, Rows

-----------------------------------------------------------------------------
(* One ship's turn in a tick.                                                *)

\* What Pay leaves.
PayLeaves(p, m, s, ore, u, d) ==
    LET c == m.work[s].cluster
    IN  /\ p.field = Plus(m.field, c, ore, -u)
        /\ p.cargo = Plus(m.cargo, s, ore, u)
        /\ p.won = [epoch |-> fieldEpoch, units |-> Plus(WonIn(m.won, fieldEpoch), c, ore, u)]
        /\ p.filed = Append(m.filed, [cluster |-> c, ore |-> ore, units |-> d,
                                      epoch |-> fieldEpoch])
        /\ p.groups = m.groups /\ p.work = m.work /\ p.workable = m.workable
        /\ p = [field |-> p.field, cargo |-> p.cargo, won |-> p.won, filed |-> p.filed,
                groups |-> p.groups, work |-> p.work, workable |-> p.workable]

LEMMA PayIs ==
    ASSUME NEW m \in Mids, NEW s, NEW ore, NEW u, NEW d
    PROVE  PayLeaves(Pay(m, s, ore, u, d), m, s, ore, u, d)
<1> DEFINE c == m.work[s].cluster
           f == Plus(m.field, c, ore, -u)
           cg == Plus(m.cargo, s, ore, u)
           w == [epoch |-> fieldEpoch, units |-> Plus(WonIn(m.won, fieldEpoch), c, ore, u)]
           d2 == Append(m.filed, [cluster |-> c, ore |-> ore, units |-> d, epoch |-> fieldEpoch])
           p == Pay(m, s, ore, u, d)
<1>1. p = [m EXCEPT !.field = f, !.cargo = cg, !.won = w, !.filed = d2]
  BY Zenon DEF Pay
<1>2. m = [field |-> m.field, cargo |-> m.cargo, won |-> m.won, filed |-> m.filed,
           groups |-> m.groups, work |-> m.work, workable |-> m.workable]
  BY DEF Mids
<1> HIDE DEF f, cg, w, d2, p, c
<1>3. p = [field |-> f, cargo |-> cg, won |-> w, filed |-> d2,
           groups |-> m.groups, work |-> m.work, workable |-> m.workable]
  BY <1>1, <1>2
<1>4. /\ p.field = f /\ p.cargo = cg /\ p.won = w /\ p.filed = d2
      /\ p.groups = m.groups /\ p.work = m.work /\ p.workable = m.workable
  BY <1>3
<1> QED BY <1>3, <1>4 DEF f, cg, w, d2, p, c, PayLeaves

LEMMA PayKeeps ==
    ASSUME IInv, NEW m, MidInv(m), NEW s \in here, NEW ore \in Ores, NEW u \in Nat,
           u <= m.field[m.work[s].cluster][ore],
           Litres(m.cargo[s]) + u * Volume[ore] <= HoldLitres
    PROVE  MidInv(Pay(m, s, ore, u, u)) /\ Pay(m, s, ore, u, u).work = m.work
<1> DEFINE p == Pay(m, s, ore, u, u)
           c == m.work[s].cluster
           w == WonIn(m.won, fieldEpoch)
           rec == [cluster |-> c, ore |-> ore, units |-> u, epoch |-> fieldEpoch]
<1>1. m \in Mids /\ s \in Ships /\ fieldEpoch \in Epochs /\ Stowed(m.cargo) /\ Manned(m.groups, here)
  BY DEF MidInv, IInv, Typed
<1>2. /\ m.field \in Pools /\ m.cargo \in [Ships -> Holds] /\ m.won \in Rows
      /\ m.filed \in Seq(Debits) /\ m.work \in [Ships -> Works]
      /\ m.groups \in Seq(MineOrders) /\ m.workable \in BOOLEAN
  BY <1>1 DEF Mids
<1>3. c \in Clusters
  BY <1>1, <1>2 DEF Works
<1>4. w \in Pools
  BY <1>2, WonInIs
<1>5. /\ p.field = Plus(m.field, c, ore, -u)
      /\ p.cargo = Plus(m.cargo, s, ore, u)
      /\ p.won = [epoch |-> fieldEpoch, units |-> Plus(w, c, ore, u)]
      /\ p.filed = Append(m.filed, rec)
      /\ p.groups = m.groups /\ p.work = m.work /\ p.workable = m.workable
      /\ p = [field |-> p.field, cargo |-> p.cargo, won |-> p.won, filed |-> p.filed,
              groups |-> p.groups, work |-> p.work, workable |-> p.workable]
  <2>1. PayLeaves(p, m, s, ore, u, u)
    BY <1>1, PayIs
  <2> HIDE DEF p
  <2> QED BY <2>1 DEF PayLeaves
<1>6. rec \in Debits
  BY <1>1, <1>3 DEF Debits
<1> HIDE DEF p, c, w, rec
<1>7. m.field[c][ore] \in Nat /\ w[c][ore] \in Nat /\ m.cargo[s][ore] \in Nat
  BY <1>1, <1>2, <1>3, <1>4 DEF Pools, Holds
<1>8. p.field \in Pools
  <2>1. m.field[c][ore] + (-u) >= 0 /\ -u \in Int
    BY <1>7 DEF c
  <2> DEFINE f == m.field
  <2>2. f \in Pools /\ f[c][ore] + (-u) >= 0
    BY <1>2, <2>1
  <2> HIDE DEF f
  <2>3. Plus(f, c, ore, -u) \in Pools
    BY <1>3, <2>1, <2>2, PoolPlus
  <2> QED BY <1>5, <2>3 DEF f
<1>9. Plus(w, c, ore, u) \in Pools
  <2>1. w[c][ore] + u >= 0 /\ u \in Int
    BY <1>7
  <2> QED BY <1>3, <1>4, <2>1, PoolPlus
<1>10. p.won \in Rows
  BY <1>1, <1>5, <1>9 DEF Rows
<1>11. p.cargo = [m.cargo EXCEPT ![s] = [m.cargo[s] EXCEPT ![ore] = @ + u]]
  <2> DEFINE cg == m.cargo
  <2>1. cg \in [Ships -> [Ores -> Nat]]
    BY <1>2 DEF Holds
  <2> HIDE DEF cg
  <2>2. Plus(cg, s, ore, u) = [cg EXCEPT ![s] = [cg[s] EXCEPT ![ore] = @ + u]]
    BY <1>1, <2>1, Zenon DEF Plus
  <2> QED BY <1>5, <2>2, Zenon DEF cg
<1>12. Stowed(p.cargo)
  <2> DEFINE fuller == [m.cargo[s] EXCEPT ![ore] = @ + u]
  <2>1. m.cargo[s] \in Holds
    BY <1>1, <1>2
  <2>2. fuller \in Holds /\ Litres(fuller) = Litres(m.cargo[s]) + u * Volume[ore]
    BY <2>1, LitresMore
  <2> HIDE DEF fuller
  <2>3. p.cargo = [m.cargo EXCEPT ![s] = fuller]
    BY <1>11 DEF fuller
  <2>4. p.cargo \in [Ships -> Holds]
    BY <1>2, <2>2, <2>3
  <2>5. ASSUME NEW t \in Ships PROVE Litres(p.cargo[t]) <= HoldLitres
    <3>1. CASE t = s
      <4>1. p.cargo[t] = fuller
        BY <1>1, <1>2, <2>3, <3>1
      <4> QED BY <2>2, <4>1
    <3>2. CASE t # s
      <4>1. p.cargo[t] = m.cargo[t]
        BY <1>1, <1>2, <2>3, <3>2
      <4> QED BY <1>1, <4>1 DEF Stowed
    <3> QED BY <3>1, <3>2
  <2> QED BY <2>4, <2>5 DEF Stowed
<1>13. p.filed \in Seq(Debits)
  BY <1>2, <1>5, <1>6
<1>14. p \in Mids
  BY <1>2, <1>5, <1>8, <1>10, <1>12, <1>13 DEF Mids, Stowed
<1>15. MidInv(p)
  BY <1>1, <1>5, <1>12, <1>14 DEF MidInv
<1> QED BY <1>5, <1>15 DEF p

LEMMA CreditIs ==
    ASSUME IInv, NEW m, MidInv(m), NEW s \in here, NEW g
    PROVE  \/ Credit(m, s, g) = m
           \/ \E ore \in Ores, u \in Nat :
                 /\ u <= m.field[m.work[s].cluster][ore]
                 /\ Litres(m.cargo[s]) + u * Volume[ore] <= HoldLitres
                 /\ Credit(m, s, g) = Pay(m, s, ore, u, u)
<1> DEFINE rocks == m.field[m.work[s].cluster]
           room == Room(m.cargo[s])
           ore == NextOre(rocks, room, g.filter)
           u == CycleYield(rocks, room, ore)
<1>1. rocks \in Holds /\ m.cargo[s] \in Holds /\ Litres(m.cargo[s]) <= HoldLitres
  BY DEF MidInv, IInv, Typed, Mids, Works, Pools, Holds, Stowed
<1>2. room \in Nat /\ Litres(m.cargo[s]) + room = HoldLitres
  BY <1>1, RoomIs
<1>3. CASE Takeable(rocks, room, g.filter) = {}
  BY <1>3 DEF Credit
<1>4. CASE Takeable(rocks, room, g.filter) # {}
  <2>1. Credit(m, s, g) = Pay(m, s, ore, u, u)
    BY <1>4 DEF Credit
  <2> HIDE DEF rocks, room
  <2>2. ore \in Ores
    <3>1. ore \in Takeable(rocks, room, g.filter)
      BY <1>1, <1>4, NextOreIs
    <3> QED BY <3>1 DEF Takeable
  <2> HIDE DEF ore
  <2>3. u \in Nat /\ u <= rocks[ore] /\ u * Volume[ore] <= room
    BY <1>1, <1>2, <2>2, YieldFits
  <2> HIDE DEF u
  <2>4. Litres(m.cargo[s]) + u * Volume[ore] <= HoldLitres
    <3>1. Litres(m.cargo[s]) \in Nat /\ Volume[ore] \in Nat /\ HoldLitres \in Nat
      BY <1>1, <2>2, LitresAre, FieldAssumption
    <3> DEFINE l == Litres(m.cargo[s])
               x == u * Volume[ore]
    <3>2. l \in Nat /\ x \in Nat /\ x <= room /\ l + room = HoldLitres
      BY <1>2, <2>3, <3>1
    <3> HIDE DEF l, x
    <3>3. l + x <= HoldLitres
      BY <1>2, <3>1, <3>2
    <3> QED BY <3>3 DEF l, x
  <2> QED BY <2>1, <2>2, <2>3, <2>4 DEF rocks
<1> QED BY <1>3, <1>4

LEMMA HazardNumbers ==
    /\ CycleTicks \in Nat \ {0} /\ SlowTicks \in Nat /\ StackCap \in Nat
    /\ DecayTicks \in Nat \ {0} /\ HeatThreshold \in Nat \ {0}
    /\ HeatPerCycle \in Nat /\ HeatDecay \in Nat /\ LockoutTicks \in Nat
    /\ LockoutTicks * HeatDecay \in Nat
    /\ HeatPerCycle - 1 < LockoutTicks * HeatDecay
<1>1. HeatPerCycle \in Nat /\ HeatDecay \in Nat /\ LockoutTicks \in Nat
  BY HazardAssumption
<1>2. LockoutTicks * HeatDecay \in Nat
  BY <1>1
<1> QED BY <1>1, <1>2, HazardAssumption

\* A lockout sheds what the hottest cycle leaves above the threshold.
LEMMA HazardPaid ==
    ASSUME NEW w \in Works, w.left = 0, CoolWithin(w), NEW isInside \in BOOLEAN
    PROVE  /\ PayHazard([w EXCEPT !.left = NotCycling, !.cluster = 1], isInside) \in Works
           /\ CoolWithin(PayHazard([w EXCEPT !.left = NotCycling, !.cluster = 1], isInside))
           /\ PayHazard([w EXCEPT !.left = NotCycling, !.cluster = 1], isInside).left = NotCycling
<1> DEFINE v == [w EXCEPT !.left = NotCycling, !.cluster = 1]
           top == CycleTicks + StackCap * SlowTicks
           p == PayHazard(v, isInside)
<1>1. top \in Nat
  <2>1. StackCap * SlowTicks \in Nat
    BY HazardNumbers
  <2> QED BY <2>1, HazardNumbers
<1>2. /\ w.stacks \in 0..StackCap /\ w.outside \in 0..(DecayTicks - 1) /\ w.heat \in Nat
      /\ w.lockout \in 0..LockoutTicks
  BY DEF Works
<1>3. v.stacks = w.stacks /\ v.heat = w.heat /\ v.lockout = w.lockout /\ v.left = NotCycling
  BY DEF Works
<1>4. v \in Works
  <2>1. NotCycling \in NotCycling..top /\ 1 \in Clusters
    BY <1>1, ClustersAre DEF NotCycling
  <2> QED BY <2>1 DEF Works
<1> HIDE DEF v
<1>5. w.lockout = 0 /\ (hazard # "Nebula" => w.heat = 0) /\ w.heat < HeatThreshold
  <2>1. w.lockout = 0
    BY DEF CoolWithin, NotCycling
  <2>2. w.lockout * HeatDecay = 0
    BY <2>1, HazardNumbers
  <2>3. w.heat < HeatThreshold + w.lockout * HeatDecay
    BY DEF CoolWithin
  <2>4. w.heat < HeatThreshold + 0
    BY <2>2, <2>3
  <2>5. hazard # "Nebula" => w.heat = 0
    BY DEF CoolWithin
  <2>6. w.heat < HeatThreshold
    BY <1>2, <2>4, HazardNumbers
  <2> QED BY <2>1, <2>5, <2>6
<1>6. v.lockout = 0 /\ v.heat = w.heat /\ v.left = NotCycling /\ v.stacks = w.stacks
  BY <1>3, <1>5
<1>7. CASE hazard = "Nebula"
  <2> DEFINE heat == w.heat + HeatPerCycle
             lock == IF heat >= HeatThreshold THEN LockoutTicks ELSE 0
  <2>1. p = [v EXCEPT !.heat = heat, !.lockout = lock]
    BY <1>6, <1>7 DEF PayHazard
  <2>2. heat \in Nat /\ lock \in 0..LockoutTicks
    BY <1>2, HazardNumbers
  <2>3. heat < HeatThreshold + lock * HeatDecay
    <3>1. CASE heat >= HeatThreshold
      <4>1. lock = LockoutTicks
        BY <3>1
      <4> DEFINE shed == LockoutTicks * HeatDecay
      <4>2. shed \in Nat /\ HeatPerCycle - 1 < shed
        BY HazardNumbers
      <4> HIDE DEF shed
      <4>3. heat < HeatThreshold + shed
        BY <1>2, <1>5, <4>2, HazardNumbers
      <4> QED BY <4>1, <4>3 DEF shed
    <3>2. CASE ~ (heat >= HeatThreshold)
      <4>1. lock = 0 /\ lock * HeatDecay = 0
        BY <3>2, HazardNumbers
      <4> QED BY <2>2, <3>2, <4>1, HazardNumbers
    <3> QED BY <3>1, <3>2
  <2> HIDE DEF heat, lock
  <2>4. p \in Works /\ p.left = NotCycling /\ p.heat = heat /\ p.lockout = lock
    BY <1>4, <1>6, <2>1, <2>2 DEF Works
  <2>5. CoolWithin(p)
    <3> HIDE DEF p
    <3> QED BY <1>7, <2>3, <2>4 DEF CoolWithin
  <2> QED BY <2>4, <2>5 DEF v
<1>8. CASE hazard # "Nebula"
  <2>1. p \in Works /\ p.left = NotCycling /\ p.heat = v.heat /\ p.lockout = v.lockout
    <3>1. CASE hazard = "Radiation" /\ isInside /\ v.stacks < StackCap
      <4> DEFINE st == v.stacks + 1
      <4>1. p = [v EXCEPT !.stacks = st]
        BY <3>1 DEF PayHazard
      <4>2. st \in 0..StackCap
        BY <1>2, <1>6, <3>1, HazardNumbers
      <4> HIDE DEF st
      <4> QED BY <1>4, <1>6, <4>1, <4>2 DEF Works
    <3>2. CASE ~ (hazard = "Radiation" /\ isInside /\ v.stacks < StackCap)
      <4>1. p = v
        BY <1>8, <3>2 DEF PayHazard
      <4> QED BY <1>4, <1>6, <4>1
    <3> QED BY <3>1, <3>2
  <2>2. CoolWithin(p)
    <3> HIDE DEF p
    <3>1. p.lockout = 0 /\ p.heat = 0 /\ p.left = NotCycling
      BY <1>5, <1>6, <1>8, <2>1
    <3>2. 0 * HeatDecay = 0
      BY HazardNumbers
    <3> QED BY <1>8, <3>1, <3>2, HazardNumbers DEF CoolWithin
  <2> QED BY <2>1, <2>2 DEF v
<1> QED BY <1>7, <1>8

LEMMA MidWork ==
    ASSUME IInv, NEW m, MidInv(m), NEW s \in here, NEW w \in Works, CoolWithin(w)
    PROVE  MidInv([m EXCEPT !.work = [m.work EXCEPT ![s] = w]])
<1> DEFINE ws == [m.work EXCEPT ![s] = w]
           n == [m EXCEPT !.work = ws]
<1>1. m \in Mids /\ s \in Ships
  BY DEF MidInv, IInv, Typed
<1>2. m.work \in [Ships -> Works]
  BY <1>1 DEF Mids
<1>3. ws \in [Ships -> Works]
  BY <1>2
<1>4. ASSUME NEW t \in Ships PROVE CoolWithin(ws[t]) /\ (t \notin here => ws[t] = Idle)
  <2>1. CASE t = s
    <3>1. ws[t] = w
      BY <1>2, <2>1
    <3> QED BY <2>1, <3>1
  <2>2. CASE t # s
    <3>1. ws[t] = m.work[t]
      BY <1>2, <2>2
    <3> QED BY <3>1 DEF MidInv
  <2> QED BY <2>1, <2>2
<1> HIDE DEF ws
<1>5. n \in Mids /\ n.work = ws /\ n.cargo = m.cargo /\ n.groups = m.groups
  BY <1>1, <1>3 DEF Mids
<1> HIDE DEF n
<1>6. MidInv(n)
  BY <1>4, <1>5 DEF MidInv
<1> QED BY <1>6 DEF n, ws

LEMMA FinishKeeps ==
    ASSUME IInv, NEW m, MidInv(m), NEW s \in here, NEW g
    PROVE  MidInv(FinishCycle(m, s, g))
<1>1. CASE m.work[s].left # 0
  BY <1>1 DEF FinishCycle
<1>2. CASE m.work[s].left = 0
  <2> DEFINE n == Credit(m, s, g)
             w == PayHazard([m.work[s] EXCEPT !.left = NotCycling, !.cluster = 1], s \in inside)
  <2>1. MidInv(n) /\ n.work = m.work
    BY CreditIs, PayKeeps
  <2>2. w \in Works /\ CoolWithin(w)
    <3>1. s \in Ships /\ m.work \in [Ships -> Works] /\ CoolWithin(m.work[s])
      BY DEF MidInv, Mids, IInv, Typed
    <3>2. m.work[s] \in Works /\ (s \in inside) \in BOOLEAN
      BY <3>1
    <3> QED BY <1>2, <3>1, <3>2, HazardPaid
  <2> HIDE DEF n
  <2>3. FinishCycle(m, s, g) =
            [n EXCEPT !.work = [n.work EXCEPT ![s] =
                PayHazard([n.work[s] EXCEPT !.left = NotCycling, !.cluster = 1], s \in inside)]]
    BY <1>2, Zenon DEF FinishCycle, n
  <2>4. FinishCycle(m, s, g) = [n EXCEPT !.work = [n.work EXCEPT ![s] = w]]
    BY <2>1, <2>3
  <2> HIDE DEF w
  <2> QED BY <2>1, <2>2, <2>4, MidWork
<1> QED BY <1>1, <1>2

LEMMA StartKeeps ==
    ASSUME IInv, NEW m, MidInv(m), NEW s \in here, NEW g \in MineOrders
    PROVE  MidInv(StartCycle(m, s, g))
<1> DEFINE starts == m.work[s].left = NotCycling /\ CanWork(m, s, g) /\ m.work[s].lockout = 0
<1>1. CASE ~ starts
  BY <1>1 DEF StartCycle
<1>2. CASE starts
  <2> DEFINE t == MiningCycleTicks(m.work[s].stacks)
             w == [m.work[s] EXCEPT !.left = t, !.cluster = g.cluster]
             top == CycleTicks + StackCap * SlowTicks
  <2>1. s \in Ships /\ m.work \in [Ships -> Works] /\ CoolWithin(m.work[s])
    BY DEF MidInv, Mids, IInv, Typed
  <2>2. m.work[s] \in Works /\ g.cluster \in Clusters
    BY <2>1 DEF MineOrders
  <2>3. m.work[s].stacks \in 0..StackCap
    BY <2>2 DEF Works
  <2>4. t \in NotCycling..top
    <3> DEFINE x == m.work[s].stacks
               slow == x * SlowTicks
               most == StackCap * SlowTicks
    <3>1. x \in Nat /\ x <= StackCap /\ SlowTicks \in Nat /\ StackCap \in Nat
      BY <2>3, HazardNumbers
    <3>2. slow \in Nat /\ most \in Nat /\ slow <= most
      <4> HIDE DEF x
      <4> QED BY <3>1
    <3>3. t = CycleTicks + slow \/ t = CycleTicks
      <4>1. CASE hazard = "Radiation"
        BY <4>1 DEF MiningCycleTicks
      <4>2. CASE hazard # "Radiation"
        <5>1. t = CycleTicks + 0
          BY <4>2 DEF MiningCycleTicks
        <5> HIDE DEF t
        <5> QED BY <5>1, HazardNumbers
      <4> QED BY <4>1, <4>2
    <3> HIDE DEF slow, most, t, x
    <3>4. t \in NotCycling..(CycleTicks + most)
      BY <3>2, <3>3, HazardNumbers DEF NotCycling
    <3> QED BY <3>4 DEF most
  <2>5. StartCycle(m, s, g) = [m EXCEPT !.work = [m.work EXCEPT ![s] = w]]
    BY <1>2, Zenon DEF StartCycle
  <2>6. w \in Works /\ w.lockout = m.work[s].lockout /\ w.heat = m.work[s].heat
    <3> HIDE DEF t
    <3> QED BY <2>2, <2>4 DEF Works
  <2>7. CoolWithin(w)
    <3> HIDE DEF w, t
    <3> QED BY <1>2, <2>1, <2>6 DEF CoolWithin
  <2> HIDE DEF w
  <2> QED BY <2>5, <2>6, <2>7, MidWork
<1> QED BY <1>1, <1>2

LEMMA WorkShipKeeps ==
    ASSUME IInv, NEW m, MidInv(m), NEW s \in here, NEW g \in MineOrders
    PROVE  MidInv(WorkShip(m, s, g))
<1>1. CASE s \notin Miners
  BY <1>1 DEF WorkShip
<1>2. CASE s \in Miners
  <2> DEFINE n == StartCycle(FinishCycle(m, s, g), s, g)
             b == n.workable \/ CanWork(n, s, g) \/ n.work[s].left # NotCycling
  <2>1. MidInv(n)
    <3>1. MidInv(FinishCycle(m, s, g))
      BY FinishKeeps
    <3> QED BY <3>1, StartKeeps
  <2>2. WorkShip(m, s, g) = [n EXCEPT !.workable = b]
    BY <1>2 DEF WorkShip, NoteWorkable
  <2> HIDE DEF n
  <2>3. n \in Mids
    BY <2>1 DEF MidInv
  <2>4. b \in BOOLEAN
    BY <2>3 DEF Mids
  <2> HIDE DEF b
  <2>5. /\ [n EXCEPT !.workable = b] \in Mids
        /\ [n EXCEPT !.workable = b].work = n.work
        /\ [n EXCEPT !.workable = b].cargo = n.cargo
        /\ [n EXCEPT !.workable = b].groups = n.groups
    BY <2>3, <2>4 DEF Mids
  <2> QED BY <2>1, <2>2, <2>5 DEF MidInv
<1> QED BY <1>1, <1>2

\* What a ship takes is taken off the field, counted as won and filed.
LEMMA PayBooks ==
    ASSUME IInv, NEW m, MidInv(m), MidBooks(m), NEW s \in here, NEW ore \in Ores, NEW u \in Nat,
           u <= m.field[m.work[s].cluster][ore]
    PROVE  MidBooks(Pay(m, s, ore, u, u))
<1> DEFINE p == Pay(m, s, ore, u, u)
           c == m.work[s].cluster
           w == WonIn(m.won, fieldEpoch)
           f == m.field
           e == fieldEpoch
           rec == [cluster |-> c, ore |-> ore, units |-> u, epoch |-> fieldEpoch]
<1>1. m \in Mids /\ s \in Ships /\ e \in Epochs /\ field \in Pools
  BY DEF MidInv, IInv, Typed
<1>2. f \in Pools /\ m.won \in Rows /\ m.filed \in Seq(Debits) /\ m.work \in [Ships -> Works]
  BY <1>1 DEF Mids
<1>3. c \in Clusters
  BY <1>1, <1>2 DEF Works
<1>4. w \in Pools
  BY <1>2, WonInIs
<1>5. /\ p.field = Plus(f, c, ore, -u)
      /\ p.won = [epoch |-> e, units |-> Plus(w, c, ore, u)]
      /\ p.filed = Append(m.filed, rec)
  <2>1. PayLeaves(p, m, s, ore, u, u)
    BY <1>1, PayIs
  <2> HIDE DEF p
  <2> QED BY <2>1 DEF PayLeaves
<1>6. rec \in Debits /\ rec.epoch = e /\ rec.cluster = c /\ rec.ore = ore /\ rec.units = u
  BY <1>1, <1>3 DEF Debits
<1>7. u <= f[c][ore]
  OBVIOUS
<1>8. e \in Nat /\ Pristine[e] \in Pools
  <2>1. \A x \in Epochs : x \in Nat /\ Pristine[x] \in Pools
    BY FieldAssumption DEF Pools
  <2> QED BY <1>1, <2>1
<1> HIDE DEF p, c, w, rec, f, e
<1>9. f[c][ore] \in Nat /\ w[c][ore] \in Nat
  BY <1>3, <1>4, <1>2 DEF Pools
<1>10. \A x \in Clusters, y \in Ores : p.field[x][y] = IF x = c /\ y = ore THEN f[x][y] - u ELSE f[x][y]
  <2>1. f[c][ore] + (-u) >= 0 /\ -u \in Int
    BY <1>7, <1>9
  <2>2. \A x \in Clusters, y \in Ores :
            Plus(f, c, ore, -u)[x][y] = IF x = c /\ y = ore THEN f[x][y] + (-u) ELSE f[x][y]
    BY <1>2, <1>3, <2>1, PoolPlus
  <2>3. f[c][ore] + (-u) = f[c][ore] - u
    BY <1>9
  <2> QED BY <1>5, <2>2, <2>3
<1>11. \A x \in Clusters, y \in Ores :
           WonIn(p.won, e)[x][y] = IF x = c /\ y = ore THEN w[x][y] + u ELSE w[x][y]
  <2>1. w[c][ore] + u >= 0 /\ u \in Int
    BY <1>9
  <2>2. \A x \in Clusters, y \in Ores :
            Plus(w, c, ore, u)[x][y] = IF x = c /\ y = ore THEN w[x][y] + u ELSE w[x][y]
    BY <1>3, <1>4, <2>1, PoolPlus
  <2>3. WonIn(p.won, e) = Plus(w, c, ore, u)
    BY <1>5 DEF WonIn
  <2> QED BY <2>2, <2>3
<1>12. \A x \in Clusters, y \in Ores :
           OnBus(p.filed, e, x, y) =
               IF x = c /\ y = ore THEN OnBus(m.filed, e, x, y) + u ELSE OnBus(m.filed, e, x, y)
  <2> SUFFICES ASSUME NEW x \in Clusters, NEW y \in Ores
               PROVE  OnBus(p.filed, e, x, y) =
                          IF x = c /\ y = ore THEN OnBus(m.filed, e, x, y) + u
                          ELSE OnBus(m.filed, e, x, y)
    OBVIOUS
  <2>1. OnBus(p.filed, e, x, y) = OnBus(m.filed, e, x, y) + OfPool(rec, e, x, y)
    BY <1>2, <1>5, <1>6, OnBusAppended
  <2>2. OfPool(rec, e, x, y) = IF x = c /\ y = ore THEN u ELSE 0
    BY <1>6 DEF OfPool
  <2>3. OnBus(m.filed, e, x, y) \in Nat
    BY <1>2, OnBusIs
  <2> QED BY <2>1, <2>2, <2>3
<1>13. \A k \in 1..Len(p.filed) : p.filed[k].epoch = e
  <2>1. \A k \in 1..Len(m.filed) : m.filed[k].epoch = e
    BY DEF MidBooks, e
  <2> QED BY <1>2, <1>5, <1>6, <2>1
<1>14. ASSUME NEW x \in Clusters, NEW y \in Ores
       PROVE  /\ p.field[x][y] + OnBus(p.filed, e, x, y) = field[x][y]
              /\ p.field[x][y] + WonIn(p.won, e)[x][y] = Pristine[e][x][y]
              /\ p.won.units[x][y] <= Pristine[p.won.epoch][x][y]
  <2> DEFINE f0 == f[x][y]
             w0 == w[x][y]
             b0 == OnBus(m.filed, e, x, y)
             f1 == p.field[x][y]
             w1 == WonIn(p.won, e)[x][y]
             b1 == OnBus(p.filed, e, x, y)
  <2>1. f0 \in Nat /\ w0 \in Nat /\ b0 \in Nat
    BY <1>2, <1>4, OnBusIs DEF Pools
  <2>2. f0 + b0 = field[x][y] /\ f0 + w0 = Pristine[e][x][y]
    BY DEF MidBooks, f, w, e
  <2>3. CASE x = c /\ y = ore
    <3>1. f1 = f0 - u /\ w1 = w0 + u /\ b1 = b0 + u /\ u <= f0
      BY <1>7, <1>10, <1>11, <1>12, <2>3
    <3> HIDE DEF f0, w0, b0, f1, w1, b1
    <3>2. f1 + b1 = f0 + b0 /\ f1 + w1 = f0 + w0 /\ w1 <= f0 + w0
      BY <2>1, <3>1
    <3> QED BY <1>5, <2>2, <3>2 DEF f1, w1, b1, WonIn
  <2>4. CASE ~ (x = c /\ y = ore)
    <3>1. f1 = f0 /\ w1 = w0 /\ b1 = b0
      BY <1>10, <1>11, <1>12, <2>4
    <3> HIDE DEF f0, w0, b0, f1, w1, b1
    <3>2. w1 <= f0 + w0
      BY <2>1, <3>1
    <3> QED BY <1>5, <2>2, <3>1, <3>2 DEF f1, w1, b1, WonIn
  <2> QED BY <2>3, <2>4
<1>15. p.won.epoch <= e
  BY <1>5, <1>8
<1> QED BY <1>13, <1>14, <1>15 DEF MidBooks, p, e

\* A ship's turn touches the field, the history and the debits only by Pay.
LEMMA TurnBooks ==
    ASSUME IInv, NEW m, MidInv(m), MidBooks(m), NEW s \in here, NEW g \in MineOrders
    PROVE  MidBooks(WorkShip(m, s, g))
<1> DEFINE Same(n, p) == n.field = p.field /\ n.won = p.won /\ n.filed = p.filed
<1>0. \A n, p : Same(n, p) /\ MidBooks(p) => MidBooks(n)
  BY DEF MidBooks
<1>1. MidBooks(Credit(m, s, g)) /\ MidInv(Credit(m, s, g))
  BY CreditIs, PayBooks, PayKeeps
<1> DEFINE n == Credit(m, s, g)
           q == FinishCycle(m, s, g)
           r == StartCycle(q, s, g)
           t == NoteWorkable(r, s, g)
<1>2. MidBooks(q)
  <2>1. CASE m.work[s].left # 0
    BY <2>1 DEF FinishCycle
  <2>2. CASE m.work[s].left = 0
    <3> HIDE DEF n
    <3>1. q = [n EXCEPT !.work = [n.work EXCEPT ![s] =
                   PayHazard([n.work[s] EXCEPT !.left = NotCycling, !.cluster = 1], s \in inside)]]
      BY <2>2, Zenon DEF FinishCycle, n
    <3> DEFINE ws == [n.work EXCEPT ![s] =
                   PayHazard([n.work[s] EXCEPT !.left = NotCycling, !.cluster = 1], s \in inside)]
    <3>2. q = [n EXCEPT !.work = ws]
      BY <3>1
    <3> HIDE DEF ws, q
    <3>3. n \in Mids
      BY <1>1 DEF MidInv, n
    <3>4. Same(q, n)
      BY <3>2, <3>3 DEF Mids
    <3> HIDE DEF Same
    <3> QED BY <1>0, <1>1, <3>4 DEF n
  <2> QED BY <2>1, <2>2
<1>3. MidInv(q)
  BY FinishKeeps
<1> HIDE DEF n, q
<1>4. MidBooks(r)
  <2> DEFINE starts == q.work[s].left = NotCycling /\ CanWork(q, s, g) /\ q.work[s].lockout = 0
             ws == [q.work EXCEPT ![s] = [q.work[s] EXCEPT
                        !.left = MiningCycleTicks(q.work[s].stacks), !.cluster = g.cluster]]
  <2>1. CASE ~ starts
    <3>1. r = q
      BY <2>1 DEF StartCycle
    <3> QED BY <1>2, <3>1
  <2>2. CASE starts
    <3>1. r = [q EXCEPT !.work = ws]
      BY <2>2, Zenon DEF StartCycle
    <3> HIDE DEF ws, r
    <3>2. q \in Mids
      BY <1>3 DEF MidInv
    <3>3. Same(r, q)
      BY <3>1, <3>2 DEF Mids
    <3> HIDE DEF Same
    <3> QED BY <1>0, <1>2, <3>3
  <2> QED BY <2>1, <2>2
<1>5. MidInv(r)
  BY <1>3, StartKeeps
<1> HIDE DEF r
<1>6. MidBooks(t)
  <2> DEFINE b == r.workable \/ CanWork(r, s, g) \/ r.work[s].left # NotCycling
  <2>1. t = [r EXCEPT !.workable = b]
    BY DEF NoteWorkable
  <2> HIDE DEF b, t
  <2>2. r \in Mids
    BY <1>5 DEF MidInv
  <2>3. Same(t, r)
    BY <2>1, <2>2 DEF Mids
  <2> HIDE DEF Same
  <2> QED BY <1>0, <1>4, <2>3
<1> QED BY <1>6 DEF WorkShip, n, q, r

-----------------------------------------------------------------------------
(* The turns of a group, and of every group of a tick.                       *)

\* What holds within a tick; the books are kept while there is a field and no
\* loaded debit.
Mid(m) == MidInv(m) /\ (BooksInv /\ live => MidBooks(m))

LEMMA TurnKeeps ==
    ASSUME IInv, NEW m, Mid(m), NEW s \in here, NEW g \in MineOrders
    PROVE  Mid(WorkShip(m, s, g))
  BY TurnBooks, WorkShipKeeps DEF Mid

LEMMA MidResets ==
    ASSUME NEW m, Mid(m), NEW b \in BOOLEAN
    PROVE  Mid([m EXCEPT !.workable = b])
<1> DEFINE n == [m EXCEPT !.workable = b]
<1>1. m \in Mids
  BY DEF Mid, MidInv
<1>2. /\ n \in Mids /\ n.field = m.field /\ n.won = m.won /\ n.filed = m.filed
      /\ n.work = m.work /\ n.cargo = m.cargo /\ n.groups = m.groups
  BY <1>1 DEF Mids
<1> HIDE DEF n
<1>3. MidInv(n)
  BY <1>2 DEF Mid, MidInv
<1>4. MidBooks(m) => MidBooks(n)
  BY <1>2 DEF MidBooks
<1> QED BY <1>3, <1>4 DEF Mid, n

LEMMA MidKeepsGroup ==
    ASSUME NEW m, Mid(m), NEW g \in MineOrders, g.members # <<>>, ToSet(g.members) \subseteq here
    PROVE  Mid([m EXCEPT !.groups = Append(m.groups, g)])
<1> DEFINE gs == Append(m.groups, g)
           n == [m EXCEPT !.groups = gs]
<1>1. m \in Mids /\ Manned(m.groups, here)
  BY DEF Mid, MidInv
<1>2. Manned(gs, here)
  BY <1>1 DEF Manned
<1>3. gs \in Seq(MineOrders)
  BY <1>2 DEF Manned
<1> HIDE DEF gs
<1>4. /\ n \in Mids /\ n.field = m.field /\ n.won = m.won /\ n.filed = m.filed
      /\ n.work = m.work /\ n.cargo = m.cargo /\ n.groups = gs
  BY <1>1, <1>3 DEF Mids
<1> HIDE DEF n
<1>5. MidInv(n)
  BY <1>2, <1>4 DEF Mid, MidInv
<1>6. MidBooks(m) => MidBooks(n)
  BY <1>4 DEF MidBooks
<1> QED BY <1>5, <1>6 DEF Mid, n, gs

LEMMA WorkGroupKeeps ==
    ASSUME IInv, NEW m, Mid(m), NEW g \in MineOrders, g.members # <<>>,
           ToSet(g.members) \subseteq here
    PROVE  Mid(WorkGroup(m, g))
<1>1. CASE ~ g.arrived
  BY <1>1, MidKeepsGroup DEF WorkGroup
<1>2. CASE g.arrived
  <2> DEFINE V == {x \in Mids : Mid(x)}
             base == [m EXCEPT !.workable = FALSE]
             seq == g.members
             n == Len(seq)
             r == FoldWork(base, seq, g)
  <2>1. seq \in Seq(Ships)
    BY DEF MineOrders
  <2>2. n \in Nat /\ DOMAIN seq = 1..n /\ \A k \in 1..n : seq[k] \in here
    BY <2>1 DEF ToSet
  <2>3. \A x : Mid(x) => x \in Mids
    BY DEF Mid, MidInv
  <2>4. base \in V
    BY <2>3, MidResets
  <2>5. \A x \in V : \A k \in 1..n : WorkShip(x, seq[k], g) \in V
    BY <2>2, <2>3, TurnKeeps
  <2> HIDE DEF V, base, seq, n
  <2>7. r \in V
    BY <2>2, <2>4, <2>5, WorkRun
  <2>8. Mid(r)
    BY <2>7 DEF V
  <2>9. WorkGroup(m, g) = KeepIfWorkable(r, g)
    BY <1>2 DEF WorkGroup, FoldWork, base, seq
  <2> HIDE DEF r
  <2> QED BY <2>8, <2>9, MidKeepsGroup DEF KeepIfWorkable
<1> QED BY <1>1, <1>2

\* The clocks move.
LEMMA CountdownCools ==
    ASSUME NEW w \in Works, Cool(w)
    PROVE  Countdown(w) \in Works /\ CoolWithin(Countdown(w))
<1> DEFINE top == CycleTicks + StackCap * SlowTicks
           l == IF w.left > 0 THEN w.left - 1 ELSE w.left
           k == IF w.lockout > 0 THEN w.lockout - 1 ELSE w.lockout
           v == [w EXCEPT !.left = l, !.lockout = k]
<1>1. top \in Nat /\ HeatDecay \in Nat /\ HeatThreshold \in Nat /\ LockoutTicks \in Nat
  <2>1. StackCap * SlowTicks \in Nat
    BY HazardNumbers
  <2> QED BY <2>1, HazardNumbers
<1>2. w.left \in NotCycling..top /\ w.lockout \in 0..LockoutTicks /\ w.heat \in Nat
  BY DEF Works
<1>3. l \in NotCycling..top /\ k \in 0..LockoutTicks
  <2> HIDE DEF top
  <2> QED BY <1>1, <1>2 DEF NotCycling
<1>4. Countdown(w) = v
  BY DEF Countdown
<1>5. (w.left = NotCycling <=> l = NotCycling) /\ (w.lockout = 0 => k = 0)
  <2> HIDE DEF top
  <2> QED BY <1>1, <1>2 DEF NotCycling
<1>6. w.heat < HeatThreshold + k * HeatDecay
  <2>1. CASE w.lockout > 0
    <3>1. k = w.lockout - 1 /\ w.heat < HeatThreshold + (w.lockout - 1) * HeatDecay
      BY <2>1 DEF Cool
    <3> HIDE DEF k
    <3> QED BY <3>1
  <2>2. CASE ~ (w.lockout > 0)
    <3>1. w.lockout = 0 /\ k = 0
      BY <1>2, <2>2
    <3>2. w.heat < HeatThreshold
      BY <3>1 DEF Cool
    <3>3. k * HeatDecay = 0
      <4> HIDE DEF k
      <4> QED BY <1>1, <3>1
    <3> HIDE DEF k
    <3> QED BY <1>1, <1>2, <3>2, <3>3
  <2> QED BY <2>1, <2>2
<1> HIDE DEF l, k
<1>7. v \in Works /\ v.left = l /\ v.lockout = k /\ v.heat = w.heat
  BY <1>3 DEF Works
<1> HIDE DEF v
<1>8. CoolWithin(v)
  <2>1. hazard # "Nebula" => w.heat = 0 /\ w.lockout = 0
    BY DEF Cool
  <2>2. w.left # NotCycling => w.lockout = 0
    BY DEF Cool
  <2> QED BY <1>5, <1>6, <1>7, <2>1, <2>2 DEF CoolWithin
<1> QED BY <1>4, <1>7, <1>8

LEMMA CountdownIdles == Countdown(Idle) = Idle
<1>1. NotCycling \in Int /\ ~ (NotCycling > 0) /\ ~ (0 > 0)
  BY DEF NotCycling
<1> QED BY <1>1 DEF Countdown, Idle

LEMMA MinedKeeps ==
    ASSUME IInv
    PROVE  Mid(Mined) /\ (here = {} => Mined.filed = <<>> /\ Mined.won = won)
<1> DEFINE ws == [s \in Ships |-> Countdown(work[s])]
           base == [field |-> field, cargo |-> cargo, won |-> won, filed |-> <<>>,
                    groups |-> <<>>, work |-> ws, workable |-> FALSE]
           V == {x \in Mids : Mid(x)}
           n == Len(groups)
<1>1. /\ field \in Pools /\ Stowed(cargo) /\ won \in Rows /\ work \in [Ships -> Works]
      /\ Manned(groups, here) /\ \A s \in Ships : Cool(work[s]) /\ (s \notin here => work[s] = Idle)
  BY DEF IInv, Typed
<1>2. ws \in [Ships -> Works]
      /\ \A s \in Ships : CoolWithin(ws[s]) /\ (s \notin here => ws[s] = Idle)
  BY <1>1, CountdownCools, CountdownIdles
<1> HIDE DEF ws
<1>3. base \in Mids
  BY <1>1, <1>2 DEF Mids, Stowed
<1>4. /\ base.field = field /\ base.won = won /\ base.filed = <<>> /\ base.groups = <<>>
      /\ base.cargo = cargo /\ base.work = ws
  OBVIOUS
<1>5. Manned(<<>>, here)
  BY DEF Manned
<1> HIDE DEF base
<1>6. MidInv(base)
  BY <1>1, <1>2, <1>3, <1>4, <1>5 DEF MidInv
<1>7. BooksInv /\ live => MidBooks(base)
  <2> SUFFICES ASSUME BooksInv, live PROVE MidBooks(base)
    OBVIOUS
  <2>1. \A c \in Clusters, o \in Ores : OnBus(<<>>, fieldEpoch, c, o) = 0
    BY NothingOnBus
  <2>2. \A c \in Clusters, o \in Ores : field[c][o] + 0 = field[c][o]
    BY <1>1 DEF Pools
  <2>3. won.epoch <= fieldEpoch
    BY DEF BooksInv, ThisEpoch
  <2>4. \A c \in Clusters, o \in Ores :
            /\ field[c][o] + WonIn(won, fieldEpoch)[c][o] = Pristine[fieldEpoch][c][o]
            /\ won.units[c][o] <= Pristine[won.epoch][c][o]
    BY DEF BooksInv, ThisEpoch, Left
  <2>5. Len(base.filed) = 0
    BY <1>4
  <2> QED BY <1>4, <2>1, <2>2, <2>3, <2>4, <2>5 DEF MidBooks
<1>8. base \in V
  BY <1>3, <1>6, <1>7 DEF Mid
<1>9. \A x : Mid(x) => x \in Mids
  BY DEF Mid, MidInv
<1>10. n \in Nat /\ DOMAIN groups = 1..n
       /\ \A k \in 1..n : /\ groups[k] \in MineOrders /\ groups[k].members # <<>>
                          /\ ToSet(groups[k].members) \subseteq here
  BY <1>1 DEF Manned
<1>11. \A x \in V : \A k \in 1..n : WorkGroup(x, groups[k]) \in V
  BY <1>9, <1>10, WorkGroupKeeps
<1> HIDE DEF V, n
<1>12. FoldGroups(base, groups) \in V /\ (n = 0 => FoldGroups(base, groups) = base)
  BY <1>8, <1>10, <1>11, GroupRun
<1>13. Mined = FoldGroups(base, groups)
  BY DEF Mined, FoldGroups, base, ws
<1>14. Mined \in V /\ (n = 0 => Mined = base)
  BY <1>12, <1>13
<1>15. Mid(Mined)
  <2>1. Mined \in V
    BY <1>14
  <2> QED BY <2>1 DEF V
<1>16. ASSUME here = {} PROVE Mined.filed = <<>> /\ Mined.won = won
  <2>2. n = 0
    <3> SUFFICES ASSUME n # 0 PROVE FALSE
      OBVIOUS
    <3>1. 1 \in 1..n
      BY <1>10
    <3>2. groups[1].members # <<>> /\ ToSet(groups[1].members) = {}
          /\ groups[1].members \in Seq(Ships)
      BY <1>10, <1>16, <3>1 DEF MineOrders
    <3> DEFINE ms == groups[1].members
    <3>3. ms # <<>> /\ ms \in Seq(Ships) /\ ToSet(ms) = {}
      BY <3>2
    <3> HIDE DEF ms
    <3>4. 1 \in DOMAIN ms
      BY <3>3
    <3> QED BY <3>3, <3>4 DEF ToSet
  <2>3. Mined = base
    BY <1>14, <2>2
  <2> QED BY <1>4, <2>3
<1> QED BY <1>15, <1>16

-----------------------------------------------------------------------------
(* Orders that some ships leave.                                             *)

LEMMA StayIs ==
    ASSUME NEW members \in Seq(Ships), NEW ss
    PROVE  /\ FoldStay(<<>>, members, ss) \in Seq(Ships)
           /\ ToSet(FoldStay(<<>>, members, ss)) \subseteq ToSet(members) \ ss
<1> DEFINE H == ToSet(members)
           V == {q \in Seq(Ships) : ToSet(q) \subseteq H \ ss}
           n == Len(members)
<1>1. n \in Nat /\ DOMAIN members = 1..n /\ \A k \in 1..n : members[k] \in H /\ members[k] \in Ships
  BY DEF ToSet
<1> HIDE DEF H
<1>2. <<>> \in V
  BY DEF ToSet
<1>3. ASSUME NEW q \in V, NEW k \in 1..n PROVE Leave(q, members[k], ss) \in V
  <2>1. CASE members[k] \in ss
    BY <2>1 DEF Leave
  <2>2. CASE members[k] \notin ss
    <3> DEFINE s == members[k]
    <3>1. s \in Ships /\ s \in H \ ss
      BY <1>1, <2>2
    <3> HIDE DEF s
    <3>2. q \in Seq(Ships) /\ ToSet(q) \subseteq H \ ss
      OBVIOUS
    <3>3. Append(q, s) \in Seq(Ships) /\ ToSet(Append(q, s)) \subseteq H \ ss
      BY <3>1, <3>2 DEF ToSet
    <3> QED BY <2>2, <3>3 DEF Leave, s
  <2> QED BY <2>1, <2>2
<1> HIDE DEF V, n
<1>4. FoldStay(<<>>, members, ss) \in V
  BY <1>1, <1>2, <1>3, StayRun
<1> QED BY <1>4 DEF V, H

LEMMA ReleasedIs ==
    ASSUME IInv, NEW ss
    PROVE  Manned(Released(ss), here \ ss)
<1> DEFINE V == {q \in Seq(MineOrders) : Manned(q, here \ ss)}
           n == Len(groups)
<1>1. Manned(groups, here) /\ here \subseteq Ships
  BY DEF IInv, Typed
<1>2. n \in Nat /\ DOMAIN groups = 1..n
      /\ \A k \in 1..n : groups[k] \in MineOrders /\ ToSet(groups[k].members) \subseteq here
  BY <1>1 DEF Manned
<1>3. <<>> \in V
  BY DEF Manned
<1>4. ASSUME NEW q \in V, NEW k \in 1..n PROVE KeepIfManned(q, Without(groups[k], ss)) \in V
  <2> DEFINE g == groups[k]
             ms == FoldStay(<<>>, g.members, ss)
             h == [g EXCEPT !.members = ms]
  <2>1. g \in MineOrders /\ ToSet(g.members) \subseteq here
    BY <1>2
  <2> HIDE DEF g
  <2>2. Without(g, ss) = h
    BY DEF Without, FoldStay
  <2>3. ms \in Seq(Ships) /\ ToSet(ms) \subseteq here \ ss
    <3>1. g.members \in Seq(Ships)
      BY <2>1 DEF MineOrders
    <3>2. ms \in Seq(Ships) /\ ToSet(ms) \subseteq ToSet(g.members) \ ss
      BY <3>1, StayIs
    <3> QED BY <2>1, <3>2
  <2> HIDE DEF ms
  <2>4. h \in MineOrders /\ h.members = ms
    BY <2>1, <2>3 DEF MineOrders
  <2> HIDE DEF h
  <2>5. KeepIfManned(q, h) \in V
    <3>1. CASE ms = <<>>
      BY <2>4, <3>1 DEF KeepIfManned
    <3>2. CASE ms # <<>>
      <4>1. KeepIfManned(q, h) = Append(q, h)
        BY <2>4, <3>2 DEF KeepIfManned
      <4>2. Manned(Append(q, h), here \ ss) /\ Append(q, h) \in Seq(MineOrders)
        BY <2>3, <2>4, <3>2 DEF Manned
      <4> QED BY <4>1, <4>2
    <3> QED BY <3>1, <3>2
  <2> QED BY <2>2, <2>5 DEF g
<1> HIDE DEF V, n
<1>5. FoldRelease(<<>>, groups, ss) \in V
  BY <1>2, <1>3, <1>4, ReleaseRun
<1>6. Released(ss) = FoldRelease(<<>>, groups, ss)
  BY DEF Released, FoldRelease
<1> QED BY <1>5, <1>6 DEF V

LEMMA MannedMore ==
    ASSUME NEW gs, NEW H, NEW K, Manned(gs, H), H \subseteq K
    PROVE  Manned(gs, K)
  BY DEF Manned

-----------------------------------------------------------------------------
(* The ledger.                                                               *)

LEMMA BooksAre ==
    ASSUME NEW book \in Rows \cup {NoLedger}, NEW e \in Epochs
    PROVE  Books(book, e) \in Pools
<1>1. Pristine[e] \in Pools
  BY FieldAssumption DEF Pools
<1> QED BY <1>1 DEF Books, Rows

LEMMA RowsAreLedgers == NoLedger \notin Rows
  BY FieldAssumption DEF Rows, Pools

\* One debit takes what it says, and no more than there is.
LEMMA DebitIs ==
    ASSUME NEW book \in Rows \cup {NoLedger}, NEW rec \in Debits
    PROVE  /\ ApplyMineYield(book, rec) \in Rows \cup {NoLedger}
           /\ (book = NoLedger \/ ~ (book.epoch > rec.epoch)) =>
                  /\ ApplyMineYield(book, rec) \in Rows
                  /\ ApplyMineYield(book, rec).epoch = rec.epoch
                  /\ \A c \in Clusters, o \in Ores :
                         LET was == Books(book, rec.epoch)[c][o]
                             some == OfPool(rec, rec.epoch, c, o)
                         IN  ApplyMineYield(book, rec).units[c][o] =
                                 IF some <= was THEN was - some ELSE 0
<1> DEFINE pool == Books(book, rec.epoch)
           a == rec.cluster
           b == rec.ore
           least == Min({pool[a][b], rec.units})
           next == Plus(pool, a, b, -least)
           row == [epoch |-> rec.epoch, units |-> next]
<1>1. a \in Clusters /\ b \in Ores /\ rec.units \in Nat /\ rec.epoch \in Epochs
  BY DEF Debits
<1>2. pool \in Pools
  BY <1>1, BooksAre
<1>3. CASE book # NoLedger /\ book.epoch > rec.epoch
  BY <1>3 DEF ApplyMineYield
<1>4. CASE ~ (book # NoLedger /\ book.epoch > rec.epoch)
  <2>1. ApplyMineYield(book, rec) = row
    BY <1>4 DEF ApplyMineYield
  <2> HIDE DEF pool, a, b
  <2>2. pool[a][b] \in Nat
    BY <1>1, <1>2 DEF Pools
  <2>3. least = IF pool[a][b] <= rec.units THEN pool[a][b] ELSE rec.units
    BY <1>1, <2>2, MinOfTwo
  <2> HIDE DEF least
  <2>4. least \in Nat /\ -least \in Int /\ pool[a][b] + (-least) >= 0
    BY <1>1, <2>2, <2>3
  <2>5. next \in Pools /\ \A x \in Clusters, y \in Ores :
            next[x][y] = IF x = a /\ y = b THEN pool[x][y] + (-least) ELSE pool[x][y]
    BY <1>1, <1>2, <2>4, PoolPlus
  <2> HIDE DEF next
  <2>6. row \in Rows /\ row.epoch = rec.epoch /\ row.units = next
    BY <1>1, <2>5 DEF Rows
  <2> HIDE DEF row
  <2>7. ASSUME NEW c \in Clusters, NEW o \in Ores
        PROVE  next[c][o] = IF OfPool(rec, rec.epoch, c, o) <= pool[c][o]
                            THEN pool[c][o] - OfPool(rec, rec.epoch, c, o) ELSE 0
    <3>1. pool[c][o] \in Nat
      BY <1>2 DEF Pools
    <3>2. CASE c = a /\ o = b
      <4>1. OfPool(rec, rec.epoch, c, o) = rec.units
        BY <3>2 DEF OfPool, a, b
      <4>2. next[c][o] = pool[c][o] + (-least)
        BY <2>5, <3>2
      <4>3. least = IF pool[c][o] <= rec.units THEN pool[c][o] ELSE rec.units
        BY <2>3, <3>2
      <4> QED BY <1>1, <3>1, <4>1, <4>2, <4>3
    <3>3. CASE ~ (c = a /\ o = b)
      <4>1. OfPool(rec, rec.epoch, c, o) = 0
        BY <3>3 DEF OfPool, a, b
      <4>2. next[c][o] = pool[c][o]
        BY <2>5, <3>3
      <4> QED BY <3>1, <4>1, <4>2
    <3> QED BY <3>2, <3>3
  <2> QED BY <2>1, <2>6, <2>7 DEF pool
<1> QED BY <1>3, <1>4

LEMMA DebitsKeep ==
    ASSUME NEW book \in Rows \cup {NoLedger}, NEW seq \in Seq(Debits)
    PROVE  FoldDebits(book, seq) \in Rows \cup {NoLedger}
<1> DEFINE V == Rows \cup {NoLedger}
           n == Len(seq)
<1>1. n \in Nat /\ DOMAIN seq = 1..n /\ \A k \in 1..n : seq[k] \in Debits
  OBVIOUS
<1>2. book \in V /\ \A b \in V : \A k \in 1..n : ApplyMineYield(b, seq[k]) \in V
  BY <1>1, DebitIs
<1> HIDE DEF V, n
<1>3. PICK run : IsDebitRun(run, n, V, book, seq)
  BY <1>1, <1>2, DebitRun
<1>4. FoldDebits(book, seq) \in V
  BY <1>1, <1>3 DEF IsDebitRun
<1> QED BY <1>4 DEF V

-----------------------------------------------------------------------------
(* IInv is inductive.                                                        *)

LEMMA IdleIs == Idle \in Works /\ Cool(Idle)
<1> DEFINE top == CycleTicks + StackCap * SlowTicks
<1>1. top \in Nat
  <2>1. StackCap * SlowTicks \in Nat
    BY HazardNumbers
  <2> QED BY <2>1, HazardNumbers
<1>2. /\ NotCycling \in NotCycling..top /\ 1 \in Clusters /\ 0 \in 0..StackCap
      /\ 0 \in 0..(DecayTicks - 1) /\ 0 \in Nat /\ 0 \in 0..LockoutTicks
  <2> HIDE DEF top
  <2> QED BY <1>1, ClustersAre, HazardNumbers DEF NotCycling
<1>3. Idle \in Works
  BY <1>2 DEF Works, Idle
<1>4. Cool(Idle)
  BY HazardNumbers DEF Cool, Idle
<1> QED BY <1>3, <1>4

\* An idle laser cools, and a lockout never outlasts its heat.
LEMMA UpkeepCools ==
    ASSUME NEW w \in Works, CoolWithin(w), NEW s \in here
    PROVE  Upkeep(s, w) \in Works /\ Cool(Upkeep(s, w))
<1> DEFINE p == Upkeep(s, w)
           k == w.lockout
           shed == k * HeatDecay
<1>1. /\ w.heat \in Nat /\ k \in Nat /\ k <= LockoutTicks /\ HeatDecay \in Nat
      /\ HeatThreshold \in Nat \ {0}
      /\ w.outside \in 0..(DecayTicks - 1) /\ w.stacks \in 0..StackCap
      /\ DecayTicks \in Nat \ {0} /\ StackCap \in Nat
  BY HazardNumbers DEF Works
<1>2. shed \in Nat /\ (k = 0 => shed = 0) /\ (k > 0 => shed = (k - 1) * HeatDecay + HeatDecay)
      /\ (k > 0 => (k - 1) * HeatDecay \in Nat)
  <2> HIDE DEF k
  <2>1. k = 0 => shed = 0
    BY <1>1
  <2>2. k > 0 => shed = (k - 1) * HeatDecay + HeatDecay
    BY <1>1
  <2>3. k > 0 => (k - 1) * HeatDecay \in Nat
    BY <1>1
  <2> QED BY <1>1, <2>1, <2>2, <2>3
<1>3. /\ hazard # "Nebula" => w.heat = 0 /\ w.lockout = 0
      /\ w.left # NotCycling => w.lockout = 0
      /\ w.heat < HeatThreshold + shed
  BY DEF CoolWithin
<1> HIDE DEF shed
<1> DEFINE fresh == Max({0, w.heat - HeatDecay})
           cools == hazard = "Nebula" /\ w.heat > 0 /\ w.left \in {NotCycling, 0}
<1>4. fresh = IF 0 >= w.heat - HeatDecay THEN 0 ELSE w.heat - HeatDecay
  BY <1>1, MaxOfTwo
<1> HIDE DEF fresh
<1>5. CASE cools
  <2>1. p = [w EXCEPT !.heat = fresh]
    BY <1>5 DEF Upkeep, fresh
  <2>2. fresh \in Nat
    BY <1>1, <1>4
  <2>3. p \in Works /\ p.heat = fresh /\ p.lockout = k /\ p.left = w.left
    BY <2>1, <2>2 DEF Works
  <2>4. (k = 0 => fresh < HeatThreshold) /\ (k > 0 => fresh < HeatThreshold + (k - 1) * HeatDecay)
    <3>1. CASE k = 0
      BY <1>1, <1>2, <1>3, <1>4, <3>1
    <3>2. CASE k > 0
      <4> DEFINE rest == (k - 1) * HeatDecay
      <4>1. rest \in Nat /\ shed = rest + HeatDecay
        BY <1>2, <3>2
      <4> HIDE DEF rest
      <4>2. fresh < HeatThreshold + rest
        BY <1>1, <1>3, <1>4, <4>1
      <4> QED BY <3>2, <4>2 DEF rest
    <3> QED BY <1>1, <3>1, <3>2
  <2> HIDE DEF p
  <2>5. Cool(p)
    BY <1>3, <1>5, <2>3, <2>4 DEF Cool
  <2> QED BY <2>3, <2>5 DEF p
<1>6. CASE ~ cools
  <2>1. p \in Works /\ p.heat = w.heat /\ p.lockout = k /\ p.left = w.left
    <3>1. CASE hazard = "Radiation" /\ w.stacks > 0 /\ s \notin inside
      <4>1. CASE w.outside + 1 >= DecayTicks
        <5> DEFINE st == w.stacks - 1
        <5>1. p = [w EXCEPT !.outside = 0, !.stacks = st]
          BY <3>1, <4>1 DEF Upkeep
        <5>2. st \in 0..StackCap /\ 0 \in 0..(DecayTicks - 1)
          BY <1>1, <3>1
        <5> HIDE DEF st
        <5> QED BY <5>1, <5>2 DEF Works
      <4>2. CASE ~ (w.outside + 1 >= DecayTicks)
        <5> DEFINE out == w.outside + 1
        <5>1. p = [w EXCEPT !.outside = out]
          BY <3>1, <4>2 DEF Upkeep
        <5>2. out \in 0..(DecayTicks - 1)
          BY <1>1, <4>2
        <5> HIDE DEF out
        <5> QED BY <5>1, <5>2 DEF Works
      <4> QED BY <4>1, <4>2
    <3>2. CASE ~ (hazard = "Radiation" /\ w.stacks > 0 /\ s \notin inside)
      <4>1. p = w
        BY <1>6, <3>2 DEF Upkeep
      <4> QED BY <4>1
    <3> QED BY <3>1, <3>2
  <2>2. (k = 0 => w.heat < HeatThreshold)
        /\ (k > 0 => w.heat < HeatThreshold + (k - 1) * HeatDecay)
    <3>1. CASE k = 0
      BY <1>1, <1>2, <1>3, <3>1
    <3>2. CASE k > 0
      <4>1. hazard = "Nebula" /\ w.left = NotCycling
        BY <1>3, <3>2
      <4>2. w.heat = 0
        BY <1>1, <1>6, <4>1
      <4> DEFINE rest == (k - 1) * HeatDecay
      <4>3. rest \in Nat
        BY <1>2, <3>2
      <4> HIDE DEF rest
      <4>4. w.heat < HeatThreshold + rest
        BY <1>1, <4>2, <4>3
      <4> QED BY <3>2, <4>4 DEF rest
    <3> QED BY <1>1, <3>1, <3>2
  <2> HIDE DEF p
  <2>3. Cool(p)
    BY <1>3, <2>1, <2>2 DEF Cool
  <2> QED BY <2>1, <2>3 DEF p
<1> QED BY <1>5, <1>6

\* What a step that leaves the ships' work alone must show.
LEMMA SameWork ==
    ASSUME IInv, hazard' = hazard, work' = work, here' = here
    PROVE  \A s \in Ships : (Cool(work[s]) /\ (s \notin here => work[s] = Idle))'
  BY DEF IInv, Cool

LEMMA EpochsAre == 0 \in Epochs /\ Epochs \subseteq Nat
<1> DEFINE top == Max(Epochs)
<1>1. top \in Nat /\ Epochs = 0..top
  BY FieldAssumption
<1> HIDE DEF top
<1> QED BY <1>1

LEMMA SpinUpIs ==
    ASSUME IInv, SpinUp
    PROVE  field' \in Pools /\ fieldEpoch' \in Epochs /\ ledger' \in Rows \cup {NoLedger}
<1>1. ledger \in Rows \cup {NoLedger} /\ epoch \in Epochs /\ field \in Pools /\ fieldEpoch \in Epochs
  BY DEF IInv, Typed
<1>2. Books(ledger, epoch) \in Pools
  BY <1>1, BooksAre
<1> QED BY <1>1, <1>2 DEF SpinUp, KeptLedger

LEMMA InitHolds == Init => IInv
<1> SUFFICES ASSUME Init PROVE IInv
  OBVIOUS
<1>1. Idle \in Works /\ Cool(Idle)
  BY IdleIs
<1>2. Stowed(cargo)
  <2> DEFINE none == [o \in Ores |-> 0]
  <2>1. cargo = [s \in Ships |-> none]
    BY DEF Init
  <2>2. none \in Holds /\ Litres(none) = 0 /\ HoldLitres \in Nat
    BY EmptyHold, FieldAssumption
  <2> HIDE DEF none
  <2>3. \A s \in Ships : cargo[s] = none
    BY <2>1
  <2>4. cargo \in [Ships -> Holds]
    BY <2>1, <2>2
  <2>5. \A s \in Ships : Litres(cargo[s]) <= HoldLitres
    BY <2>2, <2>3
  <2> QED BY <2>4, <2>5 DEF Stowed
<1>3. Manned(groups, here)
  BY DEF Init, Manned
<1>4. won \in Rows
  BY NothingIs, EpochsAre DEF Init, Rows
<1>5. work \in [Ships -> Works] /\ \A s \in Ships : Cool(work[s]) /\ (s \notin here => work[s] = Idle)
  BY <1>1 DEF Init
<1>6. field \in Pools
  BY NothingIs DEF Init
<1>7. hazard \in Hazards /\ epoch \in Epochs /\ fieldEpoch \in Epochs
  BY EpochsAre DEF Init
<1>8. /\ reloaded \in BOOLEAN /\ live \in BOOLEAN /\ watched \in BOOLEAN
      /\ inside \subseteq here /\ here \subseteq Ships /\ ledger \in Rows \cup {NoLedger}
      /\ bus \in Seq(Debits) /\ held \in Seq(Debits)
  <2>1. /\ live = FALSE /\ watched = FALSE /\ reloaded = FALSE /\ here = {} /\ inside = {}
        /\ ledger = NoLedger /\ bus = <<>> /\ held = <<>>
    BY DEF Init
  <2>2. <<>> \in Seq(Debits)
    OBVIOUS
  <2> QED BY <2>1, <2>2
<1> QED BY <1>2, <1>3, <1>4, <1>5, <1>6, <1>7, <1>8 DEF IInv, Typed

LEMMA TickKeeps == IInv /\ Tick => IInv'
<1> SUFFICES ASSUME IInv, Tick PROVE IInv'
  OBVIOUS
<1> DEFINE m == Mined
<1>1. /\ epoch' \in IF reloaded THEN {0} ELSE {epoch, epoch + 1} \cap Epochs
      /\ reloaded' = FALSE
      /\ bus' = m.filed
      /\ cargo' = m.cargo /\ won' = m.won /\ groups' = m.groups
      /\ work' = [s \in Ships |-> Upkeep(s, m.work[s])]
      /\ live' = (here # {} \/ watched)
      /\ field' = IF live' THEN m.field ELSE Nothing
      /\ fieldEpoch' = IF live' THEN fieldEpoch ELSE 0
      /\ hazard' = hazard /\ watched' = watched /\ here' = here /\ inside' = inside
  BY DEF Tick
<1>2. PICK due \in {<<>>, held} :
          /\ ledger' = FoldLeft(ApplyMineYield, ledger, due \o bus)
          /\ held' = IF due = held THEN <<>> ELSE held
  BY DEF Tick
<1>3. MidInv(m)
  BY MinedKeeps DEF Mid
<1> HIDE DEF m
<1>4. /\ hazard \in Hazards /\ epoch \in Epochs /\ fieldEpoch \in Epochs /\ watched \in BOOLEAN
      /\ inside \subseteq here /\ here \subseteq Ships
      /\ ledger \in Rows \cup {NoLedger} /\ bus \in Seq(Debits) /\ held \in Seq(Debits)
  BY DEF IInv, Typed
<1>5. /\ m.field \in Pools /\ Stowed(m.cargo) /\ m.won \in Rows /\ m.filed \in Seq(Debits)
      /\ Manned(m.groups, here) /\ m.work \in [Ships -> Works]
      /\ \A s \in Ships : CoolWithin(m.work[s]) /\ (s \notin here => m.work[s] = Idle)
  BY <1>3 DEF MidInv, Mids
<1>6. epoch' \in Epochs
  BY <1>1, <1>4, EpochsAre
<1>7. ledger' \in Rows \cup {NoLedger}
  <2> DEFINE seq == due \o bus
  <2>1. seq \in Seq(Debits)
    <3>1. due \in Seq(Debits) /\ bus \in Seq(Debits)
      <4>1. due \in {<<>>, held} /\ <<>> \in Seq(Debits)
        OBVIOUS
      <4> QED BY <1>4, <4>1
    <3> QED BY <3>1
  <2>2. ledger' = FoldDebits(ledger, seq)
    BY <1>2 DEF FoldDebits
  <2> HIDE DEF seq
  <2> QED BY <1>4, <2>1, <2>2, DebitsKeep
<1>8. held' \in Seq(Debits)
  BY <1>2, <1>4
<1>9. \A s \in Ships : /\ work'[s] \in Works /\ Cool(work'[s])
                       /\ s \notin here => work'[s] = Idle
  <2> SUFFICES ASSUME NEW s \in Ships
               PROVE  /\ Upkeep(s, m.work[s]) \in Works /\ Cool(Upkeep(s, m.work[s]))
                      /\ s \notin here => Upkeep(s, m.work[s]) = Idle
    BY <1>1
  <2>1. CASE s \in here
    BY <1>5, <2>1, UpkeepCools
  <2>2. CASE s \notin here
    BY <1>5, <2>2, IdleIs DEF Upkeep
  <2> QED BY <2>1, <2>2
<1>10. work' \in [Ships -> Works]
  BY <1>1, <1>9
<1>11. \A s \in Ships : (Cool(work[s]) /\ (s \notin here => work[s] = Idle))'
  BY <1>1, <1>9 DEF Cool
<1>12. field' \in Pools /\ fieldEpoch' \in Epochs
  BY <1>1, <1>4, <1>5, NothingIs, EpochsAre
<1>13. live' \in BOOLEAN
  BY <1>1, <1>4
<1>14. Stowed(cargo)' /\ Manned(groups, here)' /\ won' \in Rows /\ bus' \in Seq(Debits)
  BY <1>1, <1>5 DEF Stowed, Manned
<1> QED BY <1>1, <1>4, <1>6, <1>7, <1>8, <1>10, <1>11, <1>12, <1>13, <1>14 DEF IInv, Typed

LEMMA ArriveKeeps == ASSUME IInv, NEW s \in Ships, Arrive(s) PROVE IInv'
<1>1. field' \in Pools /\ fieldEpoch' \in Epochs /\ ledger' \in Rows \cup {NoLedger}
  BY SpinUpIs DEF Arrive
<1>2. /\ live' = TRUE /\ here' = here \cup {s} /\ hazard' = hazard /\ epoch' = epoch
      /\ watched' = watched /\ inside' = inside /\ cargo' = cargo /\ work' = work
      /\ groups' = groups /\ bus' = bus /\ held' = held /\ reloaded' = reloaded /\ won' = won
  BY DEF Arrive
<1>3. Typed /\ \A t \in Ships : Cool(work[t]) /\ (t \notin here => work[t] = Idle)
  BY DEF IInv
<1>4. \A t \in Ships : (Cool(work[t]) /\ (t \notin here => work[t] = Idle))'
  BY <1>2, <1>3 DEF Cool
<1>5. Stowed(cargo)' /\ Manned(groups, here)'
  BY <1>2, <1>3, MannedMore DEF Typed, Stowed, Manned
<1>6. inside' \subseteq here' /\ here' \subseteq Ships
  BY <1>2, <1>3 DEF Typed
<1> QED BY <1>1, <1>2, <1>3, <1>4, <1>5, <1>6 DEF IInv, Typed

LEMMA DepartKeeps == ASSUME IInv, NEW s \in Ships, Depart(s) PROVE IInv'
<1>1. /\ here' = here \ {s} /\ inside' = inside \ {s} /\ groups' = Released({s})
      /\ work' = [work EXCEPT ![s] = Idle] /\ hazard' = hazard /\ epoch' = epoch
      /\ live' = live /\ watched' = watched /\ field' = field /\ fieldEpoch' = fieldEpoch
      /\ cargo' = cargo /\ ledger' = ledger /\ bus' = bus /\ held' = held
      /\ reloaded' = reloaded /\ won' = won
  BY DEF Depart
<1>2. Typed /\ \A t \in Ships : Cool(work[t]) /\ (t \notin here => work[t] = Idle)
  BY DEF IInv
<1>3. Manned(groups, here)'
  BY <1>1, ReleasedIs DEF Manned
<1>4. work \in [Ships -> Works]
  BY <1>2 DEF Typed
<1>5. work' \in [Ships -> Works] /\ \A t \in Ships : work'[t] = IF t = s THEN Idle ELSE work[t]
  BY <1>1, <1>4, IdleIs
<1>6. \A t \in Ships : (Cool(work[t]) /\ (t \notin here => work[t] = Idle))'
  <2> SUFFICES ASSUME NEW t \in Ships PROVE Cool(work[t])' /\ (t \notin here' => work'[t] = Idle)
    OBVIOUS
  <2>1. CASE t = s
    <3>1. work'[t] = Idle /\ Cool(Idle)
      BY <1>5, <2>1, IdleIs
    <3> QED BY <1>1, <3>1 DEF Cool
  <2>2. CASE t # s
    <3>1. work'[t] = work[t] /\ Cool(work[t]) /\ (t \notin here => work[t] = Idle)
      BY <1>2, <1>5, <2>2
    <3> QED BY <1>1, <2>2, <3>1 DEF Cool
  <2> QED BY <2>1, <2>2
<1>7. inside' \subseteq here' /\ here' \subseteq Ships
  BY <1>1, <1>2 DEF Typed
<1>8. Stowed(cargo)'
  BY <1>1, <1>2 DEF Typed, Stowed
<1> QED BY <1>1, <1>2, <1>3, <1>5, <1>6, <1>7, <1>8 DEF IInv, Typed

LEMMA UnloadKeeps == ASSUME IInv, NEW s \in Ships, Unload(s) PROVE IInv'
<1> DEFINE none == [o \in Ores |-> 0]
<1>1. /\ cargo' = [cargo EXCEPT ![s] = none] /\ hazard' = hazard /\ epoch' = epoch
      /\ live' = live /\ watched' = watched /\ field' = field /\ fieldEpoch' = fieldEpoch
      /\ here' = here /\ inside' = inside /\ work' = work /\ groups' = groups
      /\ ledger' = ledger /\ bus' = bus /\ held' = held /\ reloaded' = reloaded /\ won' = won
  BY DEF Unload
<1>2. none \in Holds /\ Litres(none) = 0 /\ HoldLitres \in Nat
  BY EmptyHold, FieldAssumption
<1> HIDE DEF none
<1>3. Typed /\ \A t \in Ships : Cool(work[t]) /\ (t \notin here => work[t] = Idle)
  BY DEF IInv
<1>4. cargo \in [Ships -> Holds] /\ \A t \in Ships : Litres(cargo[t]) <= HoldLitres
  BY <1>3 DEF Typed, Stowed
<1>5. cargo' \in [Ships -> Holds] /\ \A t \in Ships : cargo'[t] = IF t = s THEN none ELSE cargo[t]
  BY <1>1, <1>2, <1>4
<1>6. Stowed(cargo')
  <2>1. \A t \in Ships : Litres(cargo'[t]) <= HoldLitres
    BY <1>2, <1>4, <1>5
  <2> QED BY <1>5, <2>1 DEF Stowed
<1>7. Stowed(cargo)' /\ Manned(groups, here)'
  BY <1>1, <1>3, <1>6 DEF Typed, Stowed, Manned
<1>8. \A t \in Ships : (Cool(work[t]) /\ (t \notin here => work[t] = Idle))'
  BY <1>1, SameWork
<1> QED BY <1>1, <1>3, <1>7, <1>8 DEF IInv, Typed

LEMMA OrderMineKeeps ==
    ASSUME IInv, NEW ms \in Selections, NEW filter \in Filters, OrderMine(ms, filter) PROVE IInv'
<1> DEFINE c == RichestCluster(field, filter)
           g == [members |-> ms, cluster |-> c, filter |-> filter, arrived |-> FALSE]
           rest == Released(ToSet(ms))
<1>1. ms # <<>> /\ ToSet(ms) \subseteq here /\ groups' = IF c = 0 THEN rest ELSE Append(rest, g)
  BY DEF OrderMine
<1>2. /\ hazard' = hazard /\ epoch' = epoch /\ live' = live /\ watched' = watched
      /\ field' = field /\ fieldEpoch' = fieldEpoch /\ here' = here /\ inside' = inside
      /\ cargo' = cargo /\ work' = work /\ ledger' = ledger /\ bus' = bus /\ held' = held
      /\ reloaded' = reloaded /\ won' = won
  BY DEF OrderMine
<1>3. Typed /\ \A t \in Ships : Cool(work[t]) /\ (t \notin here => work[t] = Idle)
  BY DEF IInv
<1>4. ms \in Seq(Ships)
  <2>1. PICK n \in 1..Cardinality(Ships) : ms \in [1..n -> Ships]
    BY DEF Selections
  <2> QED BY <2>1
<1>5. c \in {0} \cup Clusters
  BY <1>3, RichestIs DEF Typed
<1>6. Manned(rest, here)
  BY ReleasedIs, MannedMore
<1> HIDE DEF c, rest
<1>7. Manned(groups', here)
  <2>1. CASE c = 0
    BY <1>1, <1>6, <2>1
  <2>2. CASE c # 0
    <3>1. g \in MineOrders /\ g.members = ms
      BY <1>4, <1>5, <2>2 DEF MineOrders
    <3> HIDE DEF g
    <3>2. Manned(Append(rest, g), here)
      BY <1>1, <1>6, <3>1 DEF Manned
    <3> QED BY <1>1, <2>2, <3>2
  <2> QED BY <2>1, <2>2
<1>8. Stowed(cargo)' /\ Manned(groups, here)'
  BY <1>2, <1>3, <1>7 DEF Typed, Stowed, Manned
<1>9. \A t \in Ships : (Cool(work[t]) /\ (t \notin here => work[t] = Idle))'
  BY <1>2, SameWork
<1> QED BY <1>2, <1>3, <1>8, <1>9 DEF IInv, Typed

LEMMA ReachClusterKeeps ==
    ASSUME IInv, NEW k \in DOMAIN groups, ReachCluster(k) PROVE IInv'
<1>1. /\ inside' = IF hazard = "Radiation" THEN inside \cup Members(groups[k]) ELSE inside
      /\ hazard' = hazard /\ epoch' = epoch /\ live' = live /\ watched' = watched
      /\ field' = field /\ fieldEpoch' = fieldEpoch /\ here' = here /\ cargo' = cargo
      /\ work' = work /\ ledger' = ledger /\ bus' = bus /\ held' = held
      /\ reloaded' = reloaded /\ won' = won
  BY DEF ReachCluster
<1> DEFINE g == [groups[k] EXCEPT !.arrived = TRUE]
<1>2. groups' = [groups EXCEPT ![k] = g]
  BY Zenon DEF ReachCluster
<1>3. Typed /\ \A t \in Ships : Cool(work[t]) /\ (t \notin here => work[t] = Idle)
  BY DEF IInv
<1>4. Manned(groups, here) /\ groups \in Seq(MineOrders)
  BY <1>3 DEF Typed, Manned
<1>5. groups[k] \in MineOrders /\ groups[k].members # <<>> /\ ToSet(groups[k].members) \subseteq here
      /\ k \in 1..Len(groups)
  BY <1>4 DEF Manned
<1>6. g \in MineOrders /\ g.members = groups[k].members
  BY <1>5 DEF MineOrders
<1> HIDE DEF g
<1>7. Manned(groups', here)
  <2>1. groups' \in Seq(MineOrders) /\ Len(groups') = Len(groups)
        /\ \A j \in 1..Len(groups) : groups'[j] = IF j = k THEN g ELSE groups[j]
    BY <1>2, <1>4, <1>5, <1>6
  <2> QED BY <1>4, <1>5, <1>6, <2>1 DEF Manned
<1>8. Stowed(cargo)' /\ Manned(groups, here)'
  BY <1>1, <1>3, <1>7 DEF Typed, Stowed, Manned
<1>9. \A t \in Ships : (Cool(work[t]) /\ (t \notin here => work[t] = Idle))'
  BY <1>1, SameWork
<1>10. inside' \subseteq here'
  BY <1>1, <1>3, <1>5 DEF Typed, Members
<1> QED BY <1>1, <1>3, <1>8, <1>9, <1>10 DEF IInv, Typed

LEMMA OrderAwayKeeps == ASSUME IInv, NEW s \in Ships, OrderAway(s) PROVE IInv'
<1>1. /\ groups' = Released({s}) /\ inside' = inside \ {s}
      /\ hazard' = hazard /\ epoch' = epoch /\ live' = live /\ watched' = watched
      /\ field' = field /\ fieldEpoch' = fieldEpoch /\ here' = here /\ cargo' = cargo
      /\ work' = work /\ ledger' = ledger /\ bus' = bus /\ held' = held
      /\ reloaded' = reloaded /\ won' = won
  BY DEF OrderAway
<1>2. Typed
  BY DEF IInv
<1>3. Manned(groups', here)
  BY <1>1, ReleasedIs, MannedMore
<1>4. Stowed(cargo)' /\ Manned(groups, here)'
  BY <1>1, <1>2, <1>3 DEF Typed, Stowed, Manned
<1>5. \A t \in Ships : (Cool(work[t]) /\ (t \notin here => work[t] = Idle))'
  BY <1>1, SameWork
<1>6. inside' \subseteq here'
  BY <1>1, <1>2 DEF Typed
<1> QED BY <1>1, <1>2, <1>4, <1>5, <1>6 DEF IInv, Typed

LEMMA WatchKeeps == ASSUME IInv, Watch PROVE IInv'
<1>1. field' \in Pools /\ fieldEpoch' \in Epochs /\ ledger' \in Rows \cup {NoLedger}
  BY SpinUpIs DEF Watch
<1>2. /\ live' = TRUE /\ watched' = TRUE /\ hazard' = hazard /\ epoch' = epoch /\ here' = here
      /\ inside' = inside /\ cargo' = cargo /\ work' = work /\ groups' = groups /\ bus' = bus
      /\ held' = held /\ reloaded' = reloaded /\ won' = won
  BY DEF Watch
<1>3. Typed
  BY DEF IInv
<1>4. \A t \in Ships : (Cool(work[t]) /\ (t \notin here => work[t] = Idle))'
  BY <1>2, SameWork
<1>5. Stowed(cargo)' /\ Manned(groups, here)'
  BY <1>2, <1>3 DEF Typed, Stowed, Manned
<1> QED BY <1>1, <1>2, <1>3, <1>4, <1>5 DEF IInv, Typed

LEMMA RestartKeeps == ASSUME IInv, Restart PROVE IInv'
<1>1. /\ live' = (here # {}) /\ watched' = FALSE
      /\ field' = IF here # {} THEN Books(ledger, epoch) ELSE Nothing
      /\ fieldEpoch' = IF here # {} THEN epoch ELSE 0
      /\ ledger' = IF here # {} THEN KeptLedger ELSE ledger
      /\ work' = [s \in Ships |-> Idle] /\ groups' = <<>>
      /\ bus' = <<>> /\ held' = held \o bus /\ reloaded' = TRUE
      /\ hazard' = hazard /\ epoch' = epoch /\ here' = here /\ inside' = inside
      /\ cargo' = cargo /\ won' = won
  BY DEF Restart
<1>2. Typed
  BY DEF IInv
<1>3. Books(ledger, epoch) \in Pools
  BY <1>2, BooksAre DEF Typed
<1>4. field' \in Pools /\ fieldEpoch' \in Epochs /\ ledger' \in Rows \cup {NoLedger}
  BY <1>1, <1>2, <1>3, NothingIs, EpochsAre DEF Typed, KeptLedger
<1>5. work' \in [Ships -> Works] /\ \A t \in Ships : work'[t] = Idle
  BY <1>1, IdleIs
<1>6. \A t \in Ships : (Cool(work[t]) /\ (t \notin here => work[t] = Idle))'
  BY <1>1, <1>5, IdleIs DEF Cool
<1>7. held' \in Seq(Debits) /\ bus' \in Seq(Debits)
  <2>1. held \in Seq(Debits) /\ bus \in Seq(Debits)
    BY <1>2 DEF Typed
  <2>2. held \o bus \in Seq(Debits) /\ <<>> \in Seq(Debits)
    BY <2>1
  <2> QED BY <1>1, <2>2
<1>8. Manned(groups, here)'
  BY <1>1 DEF Manned
<1>9. Stowed(cargo)'
  BY <1>1, <1>2 DEF Typed, Stowed
<1> QED BY <1>1, <1>2, <1>4, <1>5, <1>6, <1>7, <1>8, <1>9 DEF IInv, Typed

LEMMA NextKeeps == IInv /\ [Next]_vars => IInv'
<1> SUFFICES ASSUME IInv, [Next]_vars PROVE IInv'
  OBVIOUS
<1>1. CASE Tick
  BY <1>1, TickKeeps
<1>2. CASE Watch
  BY <1>2, WatchKeeps
<1>3. CASE Unwatch
  <2>1. /\ watched' = FALSE /\ hazard' = hazard /\ epoch' = epoch /\ live' = live
        /\ field' = field /\ fieldEpoch' = fieldEpoch /\ here' = here /\ inside' = inside
        /\ cargo' = cargo /\ work' = work /\ groups' = groups /\ ledger' = ledger
        /\ bus' = bus /\ held' = held /\ reloaded' = reloaded /\ won' = won
    BY <1>3 DEF Unwatch
  <2>2. \A t \in Ships : (Cool(work[t]) /\ (t \notin here => work[t] = Idle))'
    BY <2>1, SameWork
  <2>3. Stowed(cargo)' /\ Manned(groups, here)'
    BY <2>1 DEF IInv, Typed, Stowed, Manned
  <2> QED BY <2>1, <2>2, <2>3 DEF IInv, Typed
<1>4. CASE Restart
  BY <1>4, RestartKeeps
<1>5. ASSUME NEW s \in Ships, Arrive(s) \/ Depart(s) \/ Unload(s) \/ OrderAway(s) PROVE IInv'
  BY <1>5, ArriveKeeps, DepartKeeps, UnloadKeeps, OrderAwayKeeps
<1>6. ASSUME NEW k \in DOMAIN groups, ReachCluster(k) PROVE IInv'
  BY <1>6, ReachClusterKeeps
<1>7. ASSUME NEW ms \in Selections, NEW filter \in Filters, OrderMine(ms, filter) PROVE IInv'
  BY <1>7, OrderMineKeeps
<1>8. CASE UNCHANGED vars
  <2>1. /\ watched' = watched /\ hazard' = hazard /\ epoch' = epoch /\ live' = live
        /\ field' = field /\ fieldEpoch' = fieldEpoch /\ here' = here /\ inside' = inside
        /\ cargo' = cargo /\ work' = work /\ groups' = groups /\ ledger' = ledger
        /\ bus' = bus /\ held' = held /\ reloaded' = reloaded /\ won' = won
    BY <1>8 DEF vars
  <2>2. \A t \in Ships : (Cool(work[t]) /\ (t \notin here => work[t] = Idle))'
    BY <2>1, SameWork
  <2>3. Stowed(cargo)' /\ Manned(groups, here)'
    BY <2>1 DEF IInv, Typed, Stowed, Manned
  <2> QED BY <2>1, <2>2, <2>3 DEF IInv, Typed
<1> QED BY <1>1, <1>2, <1>3, <1>4, <1>5, <1>6, <1>7, <1>8 DEF Next

LEMMA AlwaysIInv == Spec => []IInv
<1>1. Init => IInv
  BY InitHolds
<1>2. IInv /\ [Next]_vars => IInv'
  BY NextKeeps
<1> QED BY <1>1, <1>2, PTL DEF Spec

LEMMA IInvImplies == IInv => TypeOK /\ CoolWhileCycling
<1> SUFFICES ASSUME IInv PROVE TypeOK /\ CoolWhileCycling
  OBVIOUS
<1>1. Typed /\ \A s \in Ships : Cool(work[s])
  BY DEF IInv
<1>2. work \in [Ships -> Works] /\ here \subseteq Ships
  BY <1>1 DEF Typed
<1>3. \A s \in Ships :
          /\ work[s].left \in NotCycling..(CycleTicks + StackCap * SlowTicks)
          /\ work[s].cluster \in Clusters /\ work[s].stacks \in 0..StackCap
          /\ work[s].outside \in 0..(DecayTicks - 1) /\ work[s].heat \in Nat
          /\ work[s].lockout \in 0..LockoutTicks
  BY <1>2 DEF Works
<1>4. \A k \in DOMAIN groups :
          /\ Members(groups[k]) \subseteq here /\ groups[k].members # <<>>
          /\ groups[k].cluster \in Clusters /\ groups[k].filter \in Filters
  <2>1. /\ groups \in Seq(MineOrders)
        /\ \A k \in 1..Len(groups) :
               groups[k].members # <<>> /\ ToSet(groups[k].members) \subseteq here
    BY <1>1 DEF Typed, Manned
  <2>2. DOMAIN groups = 1..Len(groups) /\ \A k \in 1..Len(groups) : groups[k] \in MineOrders
    BY <2>1
  <2>3. \A g \in MineOrders : g.cluster \in Clusters /\ g.filter \in Filters
    BY DEF MineOrders
  <2> QED BY <2>1, <2>2, <2>3 DEF Members
<1>5. cargo \in [Ships -> [Ores -> Nat]] /\ \A s \in Ships : Litres(cargo[s]) <= HoldLitres
  BY <1>1 DEF Typed, Stowed, Holds
<1>6. ledger # NoLedger => ledger.units \in [Clusters -> [Ores -> Nat]]
  BY <1>1 DEF Typed, Rows, Pools
<1>7. TypeOK
  BY <1>1, <1>3, <1>4, <1>5, <1>6 DEF Typed, Pools, TypeOK
<1>8. ASSUME NEW s \in here, work[s].left > 0 PROVE work[s].heat < HeatThreshold
  <2>1. work[s].left # NotCycling
    BY <1>8 DEF NotCycling
  <2>2. Cool(work[s])
    BY <1>1, <1>2
  <2> QED BY <2>1, <2>2 DEF Cool
<1> QED BY <1>7, <1>8 DEF CoolWhileCycling

\* The state is well formed in every reachable state: holds keep to their
\* litres, orders name ships that are on the grid, and a MiningState keeps to
\* its clocks.
THEOREM MiningTyped == Spec => []TypeOK
<1>1. IInv => TypeOK
  BY IInvImplies
<1> QED BY <1>1, AlwaysIInv, PTL

\* No laser runs on a ship at the heat that locks it out, whatever the wings,
\* the orders that replace one another and the loads: a lockout is over no
\* sooner than the heat of the hottest cycle is shed (PayHazard, Upkeep).
THEOREM LasersRunCool == Spec => []CoolWhileCycling
<1>1. IInv => CoolWhileCycling
  BY IInvImplies
<1> QED BY <1>1, AlwaysIInv, PTL

-----------------------------------------------------------------------------
(* The two books.                                                            *)

LEMMA BooksIs ==
    BooksInv => LedgerFollowsField /\ NothingMinedTwice
<1> SUFFICES ASSUME BooksInv PROVE LedgerFollowsField /\ NothingMinedTwice
  OBVIOUS
<1>1. \A e, c, o : Pending(e, c, o) = OnBus(bus, e, c, o)
  BY DEF Pending, OnBus, Parts
<1> QED BY <1>1 DEF BooksInv, LedgerFollowsField, NothingMinedTwice

\* An epoch nobody has mined in is as it was laid out.
LEMMA FreshEpoch ==
    ASSUME NEW book \in Rows \cup {NoLedger}, NEW w \in Rows, NEW e \in Epochs, NEW f \in Epochs,
           f < e, book # NoLedger => book.epoch <= f, w.epoch <= f,
           NEW c \in Clusters, NEW o \in Ores
    PROVE  Books(book, e)[c][o] + WonIn(w, e)[c][o] = Pristine[e][c][o]
<1>1. e \in Nat /\ f \in Nat /\ (book # NoLedger => book.epoch \in Nat) /\ w.epoch \in Nat
  BY EpochsAre DEF Rows
<1>2. Books(book, e) = Pristine[e]
  BY <1>1 DEF Books
<1>3. WonIn(w, e) = Nothing
  BY <1>1 DEF WonIn
<1>4. Pristine[e][c][o] \in Nat
  BY FieldAssumption
<1>5. Pristine[e][c][o] + 0 = Pristine[e][c][o]
  BY <1>4
<1> QED BY <1>2, <1>3, <1>5, NothingIs

\* The debits of the bus bring the ledger to where the field was when they
\* were filed.
LEMMA Collected ==
    ASSUME IInv, BooksInv, live
    PROVE  /\ FoldDebits(ledger, bus) # NoLedger => FoldDebits(ledger, bus).epoch <= fieldEpoch
           /\ \A c \in Clusters, o \in Ores :
                  Books(FoldDebits(ledger, bus), fieldEpoch)[c][o] = field[c][o]
<1> DEFINE V == Rows \cup {NoLedger}
           n == Len(bus)
           e == fieldEpoch
<1>1. ledger \in V /\ bus \in Seq(Debits) /\ e \in Epochs /\ field \in Pools
  BY DEF IInv, Typed
<1>2. n \in Nat /\ DOMAIN bus = 1..n
      /\ \A k \in 1..n : bus[k] \in Debits /\ bus[k].epoch = e
  BY <1>1 DEF BooksInv
<1>3. \A b \in V : \A k \in 1..n : ApplyMineYield(b, bus[k]) \in V
  BY <1>2, DebitIs
<1>4. e \in Nat
  BY <1>1, EpochsAre
<1>5. ledger # NoLedger => ledger.epoch <= e
  BY DEF BooksInv, ThisEpoch
<1> HIDE DEF V, n, e
<1>6. PICK run : IsDebitRun(run, n, V, ledger, bus)
  BY <1>1, <1>2, <1>3, DebitRun
<1>7. /\ run \in [0..n -> V] /\ run[0] = ledger /\ run[n] = FoldDebits(ledger, bus)
      /\ \A k \in 1..n : run[k] = ApplyMineYield(run[k - 1], bus[k])
  BY <1>6 DEF IsDebitRun
<1>8. ASSUME NEW k \in 1..n, run[k - 1] # NoLedger => run[k - 1].epoch <= e
      PROVE  /\ run[k] # NoLedger /\ run[k].epoch = e
             /\ \A c \in Clusters, o \in Ores :
                    LET was == Books(run[k - 1], e)[c][o]
                        some == OfPool(bus[k], e, c, o)
                    IN  Books(run[k], e)[c][o] = IF some <= was THEN was - some ELSE 0
  <2> DEFINE book == run[k - 1]
             rec == bus[k]
  <2>1. book \in V /\ rec \in Debits /\ rec.epoch = e /\ run[k] = ApplyMineYield(book, rec)
    <3>1. k - 1 \in 0..n
      BY <1>2
    <3> QED BY <1>2, <1>7, <3>1
  <2>2. book = NoLedger \/ ~ (book.epoch > e)
    <3>1. book # NoLedger => book.epoch \in Nat
      BY <2>1, EpochsAre DEF V, Rows
    <3> QED BY <1>4, <1>8, <3>1
  <2> HIDE DEF book, rec
  <2>3. /\ run[k] \in Rows /\ run[k].epoch = e
        /\ \A c \in Clusters, o \in Ores :
               LET was == Books(book, e)[c][o]
                   some == OfPool(rec, e, c, o)
               IN  run[k].units[c][o] = IF some <= was THEN was - some ELSE 0
    BY <2>1, <2>2, DebitIs DEF V
  <2>4. run[k] # NoLedger
    BY <2>3, RowsAreLedgers
  <2>5. Books(run[k], e) = run[k].units
    BY <2>3, <2>4 DEF Books
  <2> QED BY <2>3, <2>4, <2>5 DEF book, rec
<1>9. \A k \in Nat : k <= n => (run[k] # NoLedger => run[k].epoch <= e)
  <2> DEFINE Good == {k \in Nat : k <= n => (run[k] # NoLedger => run[k].epoch <= e)}
  <2>1. 0 \in Good
    BY <1>5, <1>7
  <2>2. ASSUME NEW k \in Nat, k \in Good PROVE k + 1 \in Good
    <3> SUFFICES ASSUME k + 1 <= n PROVE run[k + 1].epoch <= e
      OBVIOUS
    <3>1. k + 1 \in 1..n /\ (k + 1) - 1 = k /\ (run[k] # NoLedger => run[k].epoch <= e)
      BY <1>2, <2>2
    <3>2. run[k + 1].epoch = e
      BY <1>8, <3>1
    <3> QED BY <1>4, <3>2
  <2> HIDE DEF Good
  <2>3. \A k \in Nat : k \in Good
    BY <2>1, <2>2, NumberInduction
  <2> QED BY <2>3 DEF Good
<1>10. ASSUME NEW c \in Clusters, NEW o \in Ores
       PROVE  Books(run[n], e)[c][o] = field[c][o]
  <2> DEFINE seq == Parts(bus, e, c, o)
             all == Books(ledger, e)[c][o]
             at == [k \in 0..n |-> Books(run[k], e)[c][o]]
  <2>1. seq \in Seq(Nat) /\ Len(seq) = n /\ \A k \in 1..n : seq[k] = OfPool(bus[k], e, c, o)
    BY <1>1, OnBusIs DEF n
  <2>2. field[c][o] + Total(seq) = all /\ field[c][o] \in Nat
    <3>1. field[c][o] + OnBus(bus, e, c, o) = Books(ledger, e)[c][o]
      BY DEF BooksInv, e
    <3> QED BY <1>1, <3>1 DEF OnBus, Pools
  <2> HIDE DEF seq
  <2>3. PICK sum : IsCount(sum, seq) /\ Total(seq) = sum[n]
    BY <2>1, TotalIs
  <2>4. /\ \A k \in 0..n : sum[k] \in Nat
        /\ sum[0] = 0 /\ \A k \in 1..n : sum[k] = sum[k - 1] + seq[k]
    BY <2>1, <2>3 DEF IsCount
  <2>5. \A k \in 0..n : sum[k] <= sum[n]
    BY <2>1, <2>3, CountsGrow
  <2>6. \A k \in 0..n : at[k] \in Nat
    <3> SUFFICES ASSUME NEW k \in 0..n PROVE Books(run[k], e)[c][o] \in Nat
      OBVIOUS
    <3>1. run[k] \in Rows \cup {NoLedger}
      BY <1>7 DEF V
    <3>2. Books(run[k], e) \in Pools
      BY <1>1, <3>1, BooksAre
    <3> QED BY <3>2 DEF Pools
  <2>7. at[0] = all
    BY <1>2, <1>7
  <2>8. \A k \in 1..n : at[k] = IF seq[k] <= at[k - 1] THEN at[k - 1] - seq[k] ELSE 0
    <3> SUFFICES ASSUME NEW k \in 1..n
                 PROVE  at[k] = IF seq[k] <= at[k - 1] THEN at[k - 1] - seq[k] ELSE 0
      OBVIOUS
    <3>1. k - 1 \in Nat /\ k - 1 <= n /\ k - 1 \in 0..n /\ k \in 0..n
      BY <1>2
    <3>2. run[k - 1] # NoLedger => run[k - 1].epoch <= e
      BY <1>9, <3>1
    <3>3. Books(run[k], e)[c][o] =
              IF OfPool(bus[k], e, c, o) <= Books(run[k - 1], e)[c][o]
              THEN Books(run[k - 1], e)[c][o] - OfPool(bus[k], e, c, o) ELSE 0
      BY <1>8, <3>2
    <3> QED BY <2>1, <3>1, <3>3
  <2>9. at[n] = Books(run[n], e)[c][o]
    BY <1>2
  <2> HIDE DEF at, all
  <2> DEFINE Good == {k \in Nat : k <= n => at[k] + sum[k] = all}
  <2>10. 0 \in Good
    BY <1>2, <2>4, <2>6, <2>7
  <2>11. ASSUME NEW k \in Nat, k \in Good PROVE k + 1 \in Good
    <3> SUFFICES ASSUME k + 1 <= n PROVE at[k + 1] + sum[k + 1] = all
      OBVIOUS
    <3>1. k + 1 \in 1..n /\ (k + 1) - 1 = k /\ k \in 0..n /\ k + 1 \in 0..n /\ n \in 0..n
          /\ at[k] + sum[k] = all
      BY <1>2, <2>11
    <3>2. sum[k + 1] = sum[k] + seq[k + 1] /\ sum[k + 1] <= sum[n]
      BY <2>4, <2>5, <3>1
    <3>3. at[k + 1] = IF seq[k + 1] <= at[k] THEN at[k] - seq[k + 1] ELSE 0
      BY <2>8, <3>1
    <3>4. seq[k + 1] \in Nat /\ at[k] \in Nat /\ sum[k] \in Nat /\ sum[n] \in Nat
      BY <2>1, <2>4, <2>6, <3>1
    <3> DEFINE a0 == at[k]
               s0 == sum[k]
               x == seq[k + 1]
               sn == sum[n]
               f == field[c][o]
    <3>5. /\ a0 \in Nat /\ s0 \in Nat /\ x \in Nat /\ sn \in Nat /\ f \in Nat
          /\ a0 + s0 = all /\ f + sn = all /\ s0 + x <= sn
          /\ at[k + 1] = IF x <= a0 THEN a0 - x ELSE 0
          /\ sum[k + 1] = s0 + x
      BY <2>2, <2>3, <3>1, <3>2, <3>3, <3>4
    <3> HIDE DEF a0, s0, x, sn, f
    <3>6. x <= a0
      BY <3>5
    <3>7. (a0 - x) + (s0 + x) = all
      BY <3>5
    <3> QED BY <3>5, <3>6, <3>7
  <2>12. n \in Good
    <3> HIDE DEF Good
    <3> QED BY <1>2, <2>10, <2>11, NumberInduction
  <2>13. at[n] + sum[n] = all /\ field[c][o] + sum[n] = all
    BY <1>2, <2>2, <2>3, <2>12
  <2>14. at[n] \in Nat /\ sum[n] \in Nat
    BY <1>2, <2>4, <2>6
  <2>15. at[n] = field[c][o]
    <3> DEFINE a == at[n]
               s == sum[n]
               f == field[c][o]
    <3>1. a \in Nat /\ s \in Nat /\ f \in Nat /\ a + s = all /\ f + s = all
      BY <2>2, <2>13, <2>14
    <3> HIDE DEF a, s, f
    <3>2. a = f
      BY <3>1
    <3> QED BY <3>2 DEF a, f
  <2> QED BY <2>9, <2>15
<1>11. run[n] # NoLedger => run[n].epoch <= e
  BY <1>2, <1>9
<1> QED BY <1>7, <1>10, <1>11 DEF e

\* An empty bus leaves the ledger as it is.
LEMMA NoDebits ==
    ASSUME NEW book \in Rows \cup {NoLedger}
    PROVE  FoldDebits(book, <<>>) = book
<1> DEFINE V == Rows \cup {NoLedger}
           seq == <<>>
<1>1. DOMAIN seq = 1..0 /\ 0 \in Nat /\ book \in V
      /\ \A b \in V : \A k \in 1..0 : ApplyMineYield(b, seq[k]) \in V
  OBVIOUS
<1> HIDE DEF V, seq
<1>2. PICK run : IsDebitRun(run, 0, V, book, seq)
  BY <1>1, DebitRun
<1> QED BY <1>2 DEF IsDebitRun, seq

\* A book of another epoch is as good as none.
LEMMA KeptIs ==
    ASSUME IInv
    PROVE  /\ KeptLedger \in Rows \cup {NoLedger} /\ Books(KeptLedger, epoch) = Books(ledger, epoch)
           /\ KeptLedger # NoLedger => KeptLedger.epoch = epoch
  BY DEF IInv, Typed, KeptLedger, Books

LEMMA InitBooks == Init => BooksInv
<1> SUFFICES ASSUME Init PROVE BooksInv
  OBVIOUS
<1>1. /\ live = FALSE /\ watched = FALSE /\ reloaded = FALSE /\ here = {} /\ ledger = NoLedger
      /\ bus = <<>> /\ held = <<>> /\ epoch = 0 /\ fieldEpoch = 0
      /\ won = [epoch |-> 0, units |-> Nothing]
  BY DEF Init
<1>2. ThisEpoch = 0 /\ Left = Pristine[0] /\ WonIn(won, 0) = Nothing /\ Len(bus) = 0
      /\ won.epoch = 0 /\ won.units = Nothing
  BY <1>1 DEF ThisEpoch, Left, Books, WonIn
<1>3. \A c \in Clusters, o \in Ores :
          Pristine[0][c][o] \in Nat /\ Nothing[c][o] = 0 /\ 0 \in Epochs
  BY FieldAssumption, EpochsAre, NothingIs
<1>4. \A c \in Clusters, o \in Ores :
          /\ Left[c][o] + WonIn(won, ThisEpoch)[c][o] = Pristine[ThisEpoch][c][o]
          /\ won.units[c][o] <= Pristine[won.epoch][c][o]
  BY <1>2, <1>3
<1>5. won.epoch <= ThisEpoch /\ fieldEpoch <= epoch
  BY <1>1, <1>2
<1> QED BY <1>1, <1>2, <1>4, <1>5 DEF BooksInv

\* A grid that spins up lays out what the book says, and one that is live is
\* left alone.
LEMMA SpinUpBooks ==
    ASSUME IInv, BooksInv, SpinUp, live', epoch' = epoch, bus' = bus, held' = held,
           reloaded' = reloaded, won' = won
    PROVE  BooksInv'
<1>1. CASE live
  <2>1. /\ field' = field /\ fieldEpoch' = fieldEpoch /\ ledger' = ledger
    BY <1>1 DEF SpinUp
  <2>2. ThisEpoch' = ThisEpoch /\ Left' = Left
    BY <1>1, <2>1 DEF ThisEpoch, Left
  <2>3. \A c \in Clusters, o \in Ores :
            /\ Left[c][o] + WonIn(won, ThisEpoch)[c][o] = Pristine[ThisEpoch][c][o]
            /\ field[c][o] + OnBus(bus, fieldEpoch, c, o) = Books(ledger, fieldEpoch)[c][o]
            /\ won.units[c][o] <= Pristine[won.epoch][c][o]
    BY <1>1 DEF BooksInv
  <2>4. \A c \in Clusters, o \in Ores :
            /\ Left'[c][o] + WonIn(won', ThisEpoch')[c][o] = Pristine[ThisEpoch'][c][o]
            /\ field'[c][o] + OnBus(bus', fieldEpoch', c, o) = Books(ledger', fieldEpoch')[c][o]
            /\ won'.units[c][o] <= Pristine[won'.epoch][c][o]
    BY <2>1, <2>2, <2>3
  <2>5. /\ held' = <<>> /\ (reloaded' => epoch' = 0)
        /\ \A k \in 1..Len(bus') : bus'[k].epoch = fieldEpoch'
        /\ fieldEpoch' <= epoch' /\ won'.epoch <= ThisEpoch'
        /\ ledger' # NoLedger => ledger'.epoch <= ThisEpoch'
    BY <2>1, <2>2 DEF BooksInv
  <2> QED BY <2>4, <2>5 DEF BooksInv
<1>2. CASE ~ live
  <2>1. field' = Books(ledger, epoch) /\ fieldEpoch' = epoch /\ ledger' = KeptLedger
    BY <1>2 DEF SpinUp
  <2>2. /\ bus = <<>> /\ held = <<>> /\ (reloaded => epoch = 0) /\ won.epoch <= epoch
        /\ \A c \in Clusters, o \in Ores :
               /\ Books(ledger, epoch)[c][o] + WonIn(won, epoch)[c][o] = Pristine[epoch][c][o]
               /\ won.units[c][o] <= Pristine[won.epoch][c][o]
    BY <1>2 DEF BooksInv, ThisEpoch, Left
  <2>3. epoch \in Nat /\ epoch \in Epochs
    BY EpochsAre DEF IInv, Typed
  <2>4. ThisEpoch' = epoch /\ Left' = Books(ledger, epoch) /\ Len(bus') = 0
    BY <2>1, <2>2 DEF ThisEpoch, Left
  <2>5. ledger' # NoLedger => ledger'.epoch = epoch
    BY <2>1, KeptIs
  <2>6. Books(ledger', epoch) = Books(ledger, epoch) /\ Books(ledger, epoch) \in Pools
    BY <2>1, <2>3, KeptIs, BooksAre DEF IInv, Typed
  <2>7. \A c \in Clusters, o \in Ores :
            field'[c][o] + OnBus(bus', fieldEpoch', c, o) = Books(ledger', fieldEpoch')[c][o]
    <3> SUFFICES ASSUME NEW c \in Clusters, NEW o \in Ores
                 PROVE  field'[c][o] + OnBus(bus', fieldEpoch', c, o)
                            = Books(ledger', fieldEpoch')[c][o]
      OBVIOUS
    <3>1. OnBus(bus', fieldEpoch', c, o) = 0
      BY <2>2, NothingOnBus
    <3>2. Books(ledger, epoch)[c][o] \in Nat
      BY <2>6 DEF Pools
    <3>3. Books(ledger, epoch)[c][o] + 0 = Books(ledger, epoch)[c][o]
      BY <3>2
    <3> QED BY <2>1, <2>6, <3>1, <3>3
  <2>8. \A c \in Clusters, o \in Ores :
            /\ Left'[c][o] + WonIn(won', ThisEpoch')[c][o] = Pristine[ThisEpoch'][c][o]
            /\ won'.units[c][o] <= Pristine[won'.epoch][c][o]
    BY <2>2, <2>4
  <2>9. fieldEpoch' <= epoch' /\ won'.epoch <= ThisEpoch'
        /\ (ledger' # NoLedger => ledger'.epoch <= ThisEpoch')
    BY <2>1, <2>2, <2>3, <2>4, <2>5
  <2> QED BY <2>2, <2>4, <2>7, <2>8, <2>9 DEF BooksInv
<1> QED BY <1>1, <1>2

\* What the debits of a tick leave on the book is the field they were filed
\* against, or the book as it was when there is none.
LEMMA BookSettles ==
    ASSUME IInv, BooksInv
    PROVE  LET book == FoldDebits(ledger, bus) IN
           /\ book \in Rows \cup {NoLedger} /\ (book # NoLedger => book.epoch <= ThisEpoch)
           /\ \A c \in Clusters, o \in Ores : Books(book, ThisEpoch)[c][o] = Left[c][o]
<1>1. ledger \in Rows \cup {NoLedger} /\ bus \in Seq(Debits)
  BY DEF IInv, Typed
<1>2. FoldDebits(ledger, bus) \in Rows \cup {NoLedger}
  BY <1>1, DebitsKeep
<1>3. CASE live
  BY <1>2, <1>3, Collected DEF ThisEpoch, Left
<1>4. CASE ~ live
  <2>1. bus = <<>> /\ (ledger # NoLedger => ledger.epoch <= ThisEpoch)
    BY <1>4 DEF BooksInv
  <2>2. FoldDebits(ledger, bus) = ledger
    BY <1>1, <2>1, NoDebits
  <2>3. ThisEpoch = epoch /\ Left = Books(ledger, epoch)
    BY <1>4 DEF ThisEpoch, Left
  <2> QED BY <1>1, <2>1, <2>2, <2>3
<1> QED BY <1>3, <1>4

\* A tick: the debits of the last one reach the book before the field yields
\* more, the field is forgotten only with nobody on the grid and nothing filed,
\* and the calendar lays out an epoch that nobody has mined in.
LEMMA TickBooks == ASSUME IInv, BooksInv, Tick PROVE BooksInv'
<1> DEFINE m == Mined
           book == FoldDebits(ledger, bus)
<1>1. /\ epoch' \in IF reloaded THEN {0} ELSE {epoch, epoch + 1} \cap Epochs
      /\ reloaded' = FALSE /\ bus' = m.filed /\ won' = m.won
      /\ live' = (here # {} \/ watched)
      /\ field' = IF live' THEN m.field ELSE Nothing
      /\ fieldEpoch' = IF live' THEN fieldEpoch ELSE 0
      /\ watched' = watched /\ here' = here
  BY DEF Tick
<1>2. held = <<>> /\ bus \in Seq(Debits)
  BY DEF BooksInv, IInv, Typed
<1>3. ledger' = book /\ held' = <<>>
  <2>1. PICK due \in {<<>>, held} :
            /\ ledger' = FoldLeft(ApplyMineYield, ledger, due \o bus)
            /\ held' = IF due = held THEN <<>> ELSE held
    BY DEF Tick
  <2>2. due = <<>> /\ <<>> \o bus = bus
    BY <1>2, <2>1
  <2> QED BY <1>2, <2>1, <2>2 DEF FoldDebits
<1>4. Mid(m) /\ (here = {} => m.filed = <<>> /\ m.won = won)
  BY MinedKeeps
<1>5. /\ book \in Rows \cup {NoLedger} /\ (book # NoLedger => book.epoch <= ThisEpoch)
      /\ \A c \in Clusters, o \in Ores : Books(book, ThisEpoch)[c][o] = Left[c][o]
  BY BookSettles
<1> HIDE DEF m, book
<1>6. /\ epoch \in Nat /\ fieldEpoch \in Nat /\ epoch' \in Nat /\ epoch' \in Epochs
      /\ epoch <= epoch' /\ ThisEpoch \in Epochs /\ ThisEpoch \in Nat /\ ThisEpoch <= epoch'
      /\ 0 <= epoch'
  <2>1. /\ epoch \in Epochs /\ fieldEpoch \in Epochs /\ epoch \in Nat /\ fieldEpoch \in Nat
        /\ 0 \in Epochs
    BY EpochsAre DEF IInv, Typed
  <2>2. (reloaded => epoch = 0) /\ fieldEpoch <= epoch
    BY DEF BooksInv
  <2>3. epoch' \in Epochs /\ epoch' \in Nat /\ epoch <= epoch'
    BY <1>1, <2>1, <2>2, EpochsAre
  <2> QED BY <2>1, <2>2, <2>3 DEF ThisEpoch
<1>7. CASE live'
  <2>1. live
    BY <1>1, <1>7 DEF BooksInv
  <2>2. MidBooks(m) /\ ThisEpoch = fieldEpoch /\ Left = field
    BY <1>4, <2>1 DEF Mid, ThisEpoch, Left
  <2>3. field' = m.field /\ fieldEpoch' = fieldEpoch
    BY <1>1, <1>7
  <2>4. ThisEpoch' = fieldEpoch /\ Left' = m.field
    BY <1>7, <2>3 DEF ThisEpoch, Left
  <2>5. \A c \in Clusters, o \in Ores :
            /\ Left'[c][o] + WonIn(won', ThisEpoch')[c][o] = Pristine[ThisEpoch'][c][o]
            /\ field'[c][o] + OnBus(bus', fieldEpoch', c, o) = Books(ledger', fieldEpoch')[c][o]
            /\ won'.units[c][o] <= Pristine[won'.epoch][c][o]
    BY <1>1, <1>3, <1>5, <2>2, <2>3, <2>4 DEF MidBooks
  <2>6. /\ \A k \in 1..Len(bus') : bus'[k].epoch = fieldEpoch'
        /\ won'.epoch <= ThisEpoch' /\ (ledger' # NoLedger => ledger'.epoch <= ThisEpoch')
        /\ fieldEpoch' <= epoch'
    BY <1>1, <1>3, <1>5, <1>6, <2>2, <2>3, <2>4 DEF MidBooks
  <2> QED BY <1>1, <1>3, <1>7, <2>5, <2>6 DEF BooksInv
<1>8. CASE ~ live'
  <2>1. here = {} /\ ~ watched /\ bus' = <<>> /\ won' = won /\ fieldEpoch' = 0 /\ Len(bus') = 0
    BY <1>1, <1>4, <1>8
  <2>2. ThisEpoch' = epoch' /\ Left' = Books(book, epoch')
    BY <1>3, <1>8 DEF ThisEpoch, Left
  <2>3. /\ won.epoch <= ThisEpoch /\ won \in Rows
        /\ \A c \in Clusters, o \in Ores :
               /\ Left[c][o] + WonIn(won, ThisEpoch)[c][o] = Pristine[ThisEpoch][c][o]
               /\ won.units[c][o] <= Pristine[won.epoch][c][o]
    BY DEF BooksInv, IInv, Typed
  <2>4. ASSUME NEW c \in Clusters, NEW o \in Ores
        PROVE  Books(book, epoch')[c][o] + WonIn(won, epoch')[c][o] = Pristine[epoch'][c][o]
    <3>1. CASE epoch' = ThisEpoch
      BY <1>5, <2>3, <3>1
    <3>2. CASE epoch' # ThisEpoch
      <4>1. ThisEpoch < epoch'
        BY <1>6, <3>2
      <4> QED BY <1>5, <1>6, <2>3, <4>1, FreshEpoch
    <3> QED BY <3>1, <3>2
  <2>5. won'.epoch <= ThisEpoch' /\ (ledger' # NoLedger => ledger'.epoch <= ThisEpoch')
    <3>1. won.epoch \in Nat /\ (book # NoLedger => book.epoch \in Nat)
      BY <1>5, <2>3, EpochsAre DEF Rows
    <3>2. won.epoch <= epoch' /\ (book # NoLedger => book.epoch <= epoch')
      BY <1>5, <1>6, <2>3, <3>1
    <3> QED BY <1>3, <2>1, <2>2, <3>2
  <2>6. \A c \in Clusters, o \in Ores :
            /\ Left'[c][o] + WonIn(won', ThisEpoch')[c][o] = Pristine[ThisEpoch'][c][o]
            /\ won'.units[c][o] <= Pristine[won'.epoch][c][o]
    BY <2>1, <2>2, <2>3, <2>4
  <2>7. fieldEpoch' <= epoch'
    BY <1>6, <2>1
  <2> QED BY <1>1, <1>3, <1>8, <2>1, <2>5, <2>6, <2>7 DEF BooksInv
<1> QED BY <1>7, <1>8

\* A load, before the calendar first turns and with nothing on the bus.
LEMMA RestartBooks ==
    ASSUME AnyLoad = FALSE, IInv, BooksInv, Restart
    PROVE  BooksInv'
<1>1. /\ bus = <<>> /\ held = <<>> /\ epoch = 0
      /\ live' = (here # {}) /\ watched' = FALSE
      /\ field' = IF here # {} THEN Books(ledger, epoch) ELSE Nothing
      /\ fieldEpoch' = IF here # {} THEN epoch ELSE 0
      /\ ledger' = IF here # {} THEN KeptLedger ELSE ledger
      /\ bus' = <<>> /\ held' = held \o bus /\ reloaded' = TRUE
      /\ epoch' = epoch /\ here' = here /\ won' = won
  BY DEF Restart
<1>2. held' = <<>> /\ fieldEpoch' = 0 /\ epoch' = 0 /\ Len(bus') = 0 /\ ThisEpoch' = 0
  BY <1>1 DEF ThisEpoch
<1>3. ThisEpoch = 0 /\ fieldEpoch \in Nat /\ ledger \in Rows \cup {NoLedger} /\ won \in Rows
  <2>1. fieldEpoch \in Nat /\ ledger \in Rows \cup {NoLedger} /\ won \in Rows
    BY EpochsAre DEF IInv, Typed
  <2>2. fieldEpoch = 0
    BY <1>1, <2>1 DEF BooksInv
  <2> QED BY <1>1, <2>1, <2>2 DEF ThisEpoch
<1>4. /\ won.epoch <= 0 /\ (ledger # NoLedger => ledger.epoch <= 0)
      /\ \A c \in Clusters, o \in Ores :
             /\ Left[c][o] + WonIn(won, 0)[c][o] = Pristine[0][c][o]
             /\ won.units[c][o] <= Pristine[won.epoch][c][o]
  BY <1>3 DEF BooksInv
<1>5. /\ Books(ledger, 0) \in Pools /\ Books(ledger', 0) = Books(ledger, 0)
      /\ Left' = Books(ledger, 0)
  <2>1. Books(KeptLedger, 0) = Books(ledger, 0) /\ Books(ledger, 0) \in Pools
    BY <1>1, <1>3, KeptIs, BooksAre, EpochsAre
  <2>2. Books(ledger', 0) = Books(ledger, 0)
    BY <1>1, <2>1
  <2>3. CASE here # {}
    BY <1>1, <2>1, <2>2, <2>3 DEF Left
  <2>4. CASE here = {}
    BY <1>1, <2>1, <2>2, <2>4 DEF Left
  <2> QED BY <2>1, <2>2, <2>3, <2>4
<1>6. ledger' # NoLedger => ledger'.epoch <= 0
  BY <1>1, <1>4, KeptIs
<1>7. \A c \in Clusters, o \in Ores : Books(ledger, 0)[c][o] = Left[c][o]
  <2>1. FoldDebits(ledger, bus) = ledger
    BY <1>1, <1>3, NoDebits
  <2> QED BY <1>3, <2>1, BookSettles
<1>8. ASSUME NEW c \in Clusters, NEW o \in Ores
      PROVE  /\ Left'[c][o] + WonIn(won', ThisEpoch')[c][o] = Pristine[ThisEpoch'][c][o]
             /\ live' => field'[c][o] + OnBus(bus', fieldEpoch', c, o)
                             = Books(ledger', fieldEpoch')[c][o]
             /\ won'.units[c][o] <= Pristine[won'.epoch][c][o]
  <2>1. OnBus(bus', fieldEpoch', c, o) = 0
    BY <1>1, NothingOnBus
  <2>2. Books(ledger, 0)[c][o] \in Nat
    BY <1>5 DEF Pools
  <2>3. Books(ledger, 0)[c][o] + 0 = Books(ledger, 0)[c][o]
    BY <2>2
  <2>4. live' => field' = Books(ledger, 0)
    BY <1>1
  <2>5. live' => field'[c][o] + OnBus(bus', fieldEpoch', c, o) = Books(ledger', fieldEpoch')[c][o]
    BY <1>2, <1>5, <2>1, <2>3, <2>4
  <2> QED BY <1>1, <1>2, <1>4, <1>5, <1>7, <2>5
<1>9. /\ (here' # {} \/ watched' => live') /\ (bus' # <<>> => live')
      /\ \A k \in 1..Len(bus') : bus'[k].epoch = fieldEpoch'
  <2>1. here' = here /\ watched' = FALSE /\ live' = (here # {}) /\ bus' = <<>> /\ Len(bus') = 0
    BY <1>1, <1>2
  <2>2. here' # {} \/ watched' => live'
    BY Zenon, <2>1
  <2> QED BY <2>1, <2>2
<1>10. /\ (reloaded' => epoch' = 0) /\ fieldEpoch' <= epoch' /\ won'.epoch <= ThisEpoch'
       /\ ledger' # NoLedger => ledger'.epoch <= ThisEpoch'
  BY <1>1, <1>2, <1>4, <1>6
<1> QED BY <1>2, <1>8, <1>9, <1>10 DEF BooksInv

\* The orders and the flights leave both books alone.
LEMMA SameBooks ==
    ASSUME BooksInv, here' \subseteq here, watched' => watched, live' = live,
           field' = field, fieldEpoch' = fieldEpoch, epoch' = epoch, ledger' = ledger,
           bus' = bus, held' = held, reloaded' = reloaded, won' = won
    PROVE  BooksInv'
<1>1. ThisEpoch' = ThisEpoch /\ Left' = Left
  BY DEF ThisEpoch, Left
<1>2. here' # {} \/ watched' => live'
  BY DEF BooksInv
<1>3. \A c \in Clusters, o \in Ores :
          /\ Left'[c][o] + WonIn(won', ThisEpoch')[c][o] = Pristine[ThisEpoch'][c][o]
          /\ live' => field'[c][o] + OnBus(bus', fieldEpoch', c, o)
                          = Books(ledger', fieldEpoch')[c][o]
          /\ won'.units[c][o] <= Pristine[won'.epoch][c][o]
  BY <1>1 DEF BooksInv
<1>4. /\ held' = <<>> /\ (reloaded' => epoch' = 0) /\ (bus' # <<>> => live')
      /\ \A k \in 1..Len(bus') : bus'[k].epoch = fieldEpoch'
      /\ fieldEpoch' <= epoch' /\ won'.epoch <= ThisEpoch'
      /\ ledger' # NoLedger => ledger'.epoch <= ThisEpoch'
  BY <1>1 DEF BooksInv
<1> QED BY <1>2, <1>3, <1>4 DEF BooksInv

LEMMA NextBooks ==
    ASSUME AnyLoad = FALSE, IInv, BooksInv, [Next]_vars
    PROVE  BooksInv'
<1>1. CASE Tick
  BY <1>1, TickBooks
<1>2. CASE Watch
  BY <1>2, SpinUpBooks DEF Watch
<1>3. CASE Unwatch
  BY <1>3, SameBooks DEF Unwatch
<1>4. CASE Restart
  BY <1>4, RestartBooks
<1>5. ASSUME NEW s \in Ships, Arrive(s) PROVE BooksInv'
  BY <1>5, SpinUpBooks DEF Arrive
<1>6. ASSUME NEW s \in Ships, Depart(s) PROVE BooksInv'
  BY <1>6, SameBooks DEF Depart
<1>7. ASSUME NEW s \in Ships, Unload(s) PROVE BooksInv'
  BY <1>7, SameBooks DEF Unload
<1>8. ASSUME NEW s \in Ships, OrderAway(s) PROVE BooksInv'
  BY <1>8, SameBooks DEF OrderAway
<1>9. ASSUME NEW k \in DOMAIN groups, ReachCluster(k) PROVE BooksInv'
  BY <1>9, SameBooks DEF ReachCluster
<1>10. ASSUME NEW ms \in Selections, NEW filter \in Filters, OrderMine(ms, filter)
       PROVE  BooksInv'
  BY <1>10, SameBooks DEF OrderMine
<1>11. CASE UNCHANGED vars
  BY <1>11, SameBooks DEF vars
<1> QED BY <1>1, <1>2, <1>3, <1>4, <1>5, <1>6, <1>7, <1>8, <1>9, <1>10, <1>11 DEF Next

LEMMA AlwaysBooks == ASSUME AnyLoad = FALSE PROVE Spec => [](IInv /\ BooksInv)
<1>1. Init => IInv /\ BooksInv
  BY InitHolds, InitBooks
<1>2. IInv /\ BooksInv /\ [Next]_vars => (IInv /\ BooksInv)'
  BY NextKeeps, NextBooks
<1> QED BY <1>1, <1>2, PTL DEF Spec

\* What holds took out of an epoch's pools was laid out in it: whatever tears
\* the grid down between the tick that filed a debit and the one that applies
\* it (WorldRegistry::Tick, SpinUp, ApplyMineYield), no rock is mined twice,
\* as long as a shard is loaded with no debit on its bus and before the
\* calendar first turns.
THEOREM NothingIsMinedTwice == ASSUME AnyLoad = FALSE PROVE Spec => []NothingMinedTwice
<1>1. IInv /\ BooksInv => NothingMinedTwice
  BY BooksIs
<1> QED BY <1>1, AlwaysBooks, PTL

\* On the same terms the field of a live grid and its ledger are one book once
\* the debits on the bus are counted (World::m_site, WorldRegistry's
\* m_siteLedgers and the TransferBus).
THEOREM BooksAgree == ASSUME AnyLoad = FALSE PROVE Spec => []LedgerFollowsField
<1>1. IInv /\ BooksInv => LedgerFollowsField
  BY BooksIs
<1> QED BY <1>1, AlwaysBooks, PTL

-----------------------------------------------------------------------------
(***************************************************************************)
(* Module ClientFeed.  Its proofs stand here for the theory of folds above: *)
(* a frame folds the answers it hears, and a plan the hops of its route.   *)
(***************************************************************************)
\* An order that carries a leg of a route, and where the route's plan stands with it:
\* a leg that is on its way or was accepted is behind the plan's hop, or is the one
\* the plan waits for.
IsLeg(m) == m.type = "order" /\ m.tag[1] # 0
Behind(tag, c) ==
    /\ tag \in Nat \X Nat /\ tag[1] <= c.acts
    /\ tag[1] = c.route.plan => /\ c.route.state = "Ready" => tag[2] < c.route.hop
                                /\ c.route.state = "Flying" => tag[2] <= c.route.hop
Apart(tag, later) == tag[1] = later[1] => tag[2] < later[2]

RouteStands(c) ==
    /\ (c.route.state = "Flying") = (c.route.seq # 0)
    /\ c.route.state = "Ready" => c.route.hop <= Len(c.route.legs)
    /\ c.route.plan <= c.acts
Informed(c, acc) ==
    /\ \A g \in c.ghosts : g.state = "UnderWay" => g.seq \in acc
    /\ \A o \in c.view.orders : o.seq \in acc
LegsBehind(c) ==
    /\ \A i \in DOMAIN c.out : IsLeg(c.out[i]) => Behind(c.out[i].tag, c)
    /\ \A i, j \in DOMAIN c.out : i < j /\ IsLeg(c.out[i]) /\ IsLeg(c.out[j])
                                    => Apart(c.out[i].tag, c.out[j].tag)
FlownBehind(c, fl) ==
    /\ \A i \in DOMAIN fl : Behind(fl[i], c)
    /\ \A i \in DOMAIN fl, j \in DOMAIN c.out :
         IsLeg(c.out[j]) => Apart(fl[i], c.out[j].tag)
Sound(c, acc, fl) ==
    c \in Client /\ RouteStands(c) /\ Informed(c, acc) /\ LegsBehind(c) /\ FlownBehind(c, fl)

\* The numbers of the orders that are, or were, on the shard.
Known == accepted \cup GivenByOthers

ShardSound ==
    /\ others \in [Strangers -> Standing]
    /\ fleet \in [at : Anchors, to : Anchors \cup {Nowhere}]
    /\ order \in [seq : 0..MaxSeq, dest : Anchors \cup {Nowhere}, done : BOOLEAN]
    /\ session \in [grid : Anchors, last : 0..MaxSeq]
    /\ order # NoOrder => order.seq \in accepted
    /\ accepted \subseteq Seqs /\ \A seq \in accepted : seq <= session.last
AnswersSound ==
    /\ answers \in Seq(Answer)
    /\ \A i \in DOMAIN answers : answers[i].type = "ack" /\ answers[i].ok => answers[i].seq \in accepted
FlownSound ==
    /\ flown \in Seq(Nat \X Nat)
    /\ \A i, j \in DOMAIN flown : i < j => Apart(flown[i], flown[j])
FeedInv == Sound(client, Known, flown) /\ ShardSound /\ AnswersSound /\ FlownSound

-----------------------------------------------------------------------------
(* What one step of the client's frame keeps.                              *)

\* The answers the client takes are about what the authority accepted.
Heard(m, acc) == m \in Answer /\ (m.type = "ack" /\ m.ok => m.seq \in acc)

LEMMA KnownUnchanged == ASSUME UNCHANGED <<accepted, others>> PROVE Known' = Known
BY DEF Known, GivenByOthers

LEMMA KnownGrows == ASSUME accepted \subseteq accepted', UNCHANGED others PROVE Known \subseteq Known'
BY DEF Known, GivenByOthers

LEMMA ClientFields ==
    ASSUME NEW c \in Client
    PROVE  /\ c.acts \in Nat /\ c.acts <= MaxActs /\ c.nextSeq \in Nat \ {0}
           /\ c.nextSeq <= MaxSeq => c.nextSeq \in Seqs
           /\ c.out \in Seq(Message) /\ c.view \in Picture
           /\ c.block \in [anchor : Anchors, crossing : BOOLEAN]
           /\ c.ghosts \subseteq Ghost
<1>1. MaxActs \in Nat /\ MaxSeq \in Nat
  BY AnchorAssumption
<1>2. c.acts \in 0..MaxActs /\ c.nextSeq \in 1..MaxSeq + 1
  BY DEF Client
<1>3. /\ c.out \in Seq(Message) /\ c.view \in Picture
      /\ c.block \in [anchor : Anchors, crossing : BOOLEAN]
      /\ c.ghosts \subseteq Ghost
  BY DEF Client
<1> QED BY <1>1, <1>2, <1>3 DEF Seqs

LEMMA RouteFields ==
    ASSUME NEW c \in Client
    PROVE  /\ c.route.plan \in Nat /\ c.route.plan <= MaxActs /\ c.route.hop \in Nat \ {0}
           /\ c.route.seq \in Nat /\ c.route.legs \in Seq(Anchors)
           /\ c.route \in Route
<1>1. MaxActs \in Nat /\ MaxSeq \in Nat
  BY AnchorAssumption
<1>2. c.route \in Route
  BY DEF Client
<1>3. /\ c.route.plan \in 0..MaxActs /\ c.route.hop \in Nat \ {0}
      /\ c.route.seq \in 0..MaxSeq /\ c.route.legs \in Seq(Anchors)
  BY <1>2 DEF Route
<1> QED BY <1>1, <1>2, <1>3

\* A client that has sent what a sound one has, and whose route leaves what is sent
\* behind it as well, is sound.
LEMMA SoundMoved ==
    ASSUME NEW acc, NEW fl, NEW c, Sound(c, acc, fl), NEW d \in Client,
           d.out = c.out, RouteStands(d), Informed(d, acc),
           \A tag : Behind(tag, c) => Behind(tag, d)
    PROVE  Sound(d, acc, fl)
<1>1. LegsBehind(d)
  BY DEF Sound, LegsBehind
<1>2. FlownBehind(d, fl)
  BY DEF Sound, FlownBehind
<1> QED BY <1>1, <1>2 DEF Sound

LEMMA BehindLater ==
    ASSUME NEW c \in Client, NEW d \in Client, c.acts <= d.acts, d.route = c.route,
           NEW tag, Behind(tag, c)
    PROVE  Behind(tag, d)
<1>1. c.acts \in Nat /\ d.acts \in Nat
  BY ClientFields
<1>2. tag[1] \in Nat /\ tag[1] <= c.acts /\ tag \in Nat \X Nat
  BY DEF Behind
<1>3. tag[1] <= d.acts
  BY <1>1, <1>2
<1> QED BY <1>2, <1>3 DEF Behind

\* One that differs from a sound client in what it sees, and neither in what it has
\* sent nor in its route, is sound if it claims nothing new.
LEMMA SoundAlike ==
    ASSUME NEW acc, NEW fl, NEW c, Sound(c, acc, fl), NEW d \in Client,
           c.acts <= d.acts, d.out = c.out, d.route = c.route, Informed(d, acc)
    PROVE  Sound(d, acc, fl)
<1>1. c \in Client /\ RouteStands(c)
  BY DEF Sound
<1>2. \A tag : Behind(tag, c) => Behind(tag, d)
  BY <1>1, BehindLater
<1>3. RouteStands(d)
  <2>1. c.acts \in Nat /\ d.acts \in Nat /\ c.route.plan \in Nat
    BY <1>1, ClientFields, RouteFields
  <2>2. c.route.plan <= d.acts
    BY <1>1, <2>1 DEF RouteStands
  <2> QED BY <1>1, <2>2 DEF RouteStands
<1> QED BY <1>2, <1>3, SoundMoved

\* What the shard sends is a picture of orders it has or had.
LEMMA SnapshotInformed ==
    ASSUME ShardSound
    PROVE  Snapshot \in Picture /\ \A o \in Snapshot.orders : o.seq \in Known
<1> DEFINE os == OwnRecords \cup OtherRecords
<1>1. OwnRecords \in SUBSET [seq : Seqs, finished : BOOLEAN] /\ \A o \in OwnRecords : o.seq \in Known
  BY DEF ShardSound, OwnRecords, Seqs, Known
<1>2. ASSUME NEW o \in OtherRecords PROVE o \in [seq : Seqs, finished : BOOLEAN] /\ o.seq \in Known
  <2>1. PICK s \in Listed : o = [seq |-> s[2], finished |-> others[s] = "done"]
    BY Zenon DEF OtherRecords
  <2>2. s \in Strangers /\ others[s] # "unborn"
    BY DEF Listed
  <2>3. s[2] \in Seqs
    BY <2>2, AnchorAssumption DEF Seqs
  <2>4. s[2] \in GivenByOthers
    BY <2>2 DEF GivenByOthers
  <2>5. o.seq = s[2] /\ o \in [seq : Seqs, finished : BOOLEAN]
    BY <2>1, <2>3
  <2> QED BY <2>4, <2>5 DEF Known
<1>3. Snapshot = [grid |-> session.grid, ships |-> FleetIsThere,
                  last |-> session.last, orders |-> os] /\ FleetIsThere \in BOOLEAN
  BY DEF Snapshot, FleetIsThere
<1>4. os \in SUBSET [seq : Seqs, finished : BOOLEAN] /\ \A o \in os : o.seq \in Known
  BY <1>1, <1>2
<1> HIDE DEF os
<1>5. [grid |-> session.grid, ships |-> FleetIsThere,
       last |-> session.last, orders |-> os] \in Picture
  BY <1>3, <1>4 DEF ShardSound, Picture
<1> QED BY <1>3, <1>4, <1>5

LEMMA SummaryIs ==
    ASSUME ShardSound
    PROVE  Summary \in [anchor : Anchors, crossing : BOOLEAN]
BY AnchorAssumption DEF ShardSound, Summary, Crossing

\* ApplyFrame: the ghosts are as they were, the records of the picture are of orders.
LEMMA ApplyFrameKeeps ==
    ASSUME ShardSound, NEW c, Sound(c, Known, flown)
    PROVE  Sound(ApplyFrame(c), Known, flown)
<1> DEFINE d == ApplyFrame(c)
<1>1. Snapshot \in Picture /\ \A o \in Snapshot.orders : o.seq \in Known
  BY SnapshotInformed
<1>2. /\ c \in Client /\ c.view \in Picture /\ c.acts \in Nat
      /\ \A g \in c.ghosts : g.state = "UnderWay" => g.seq \in Known
  BY ClientFields DEF Sound, Informed
<1>3. d \in Client
  <2> DEFINE b == IF Snapshot.grid = c.view.grid THEN c.view.ships ELSE Snapshot.ships
             q == Snapshot
  <2>1. b \in BOOLEAN /\ q \in Picture
    BY <1>1, <1>2 DEF Picture
  <2>2. d = [c EXCEPT !.trail = b, !.view = q]
    BY DEF ApplyFrame
  <2> HIDE DEF b, q, d
  <2> QED BY <1>2, <2>1, <2>2 DEF Client
<1>4. c.acts <= d.acts /\ d.out = c.out /\ d.route = c.route /\ d.ghosts = c.ghosts /\ d.view = Snapshot
  BY <1>2 DEF ApplyFrame, Client
<1> HIDE DEF d
<1>5. Informed(d, Known)
  BY <1>1, <1>2, <1>4 DEF Informed
<1>6. Sound(d, Known, flown)
  BY <1>3, <1>4, <1>5, SoundAlike
<1> QED BY <1>6 DEF d

LEMMA SummedKeeps ==
    ASSUME ShardSound, NEW c, Sound(c, Known, flown)
    PROVE  Sound([c EXCEPT !.block = Summary], Known, flown)
<1> DEFINE d == [c EXCEPT !.block = Summary]
<1>1. Summary \in [anchor : Anchors, crossing : BOOLEAN]
  BY SummaryIs
<1>2. c \in Client /\ Informed(c, Known) /\ c.acts \in Nat
  BY ClientFields DEF Sound
<1>3. d \in Client
  BY <1>1, <1>2 DEF Client
<1>4. c.acts <= d.acts /\ d.out = c.out /\ d.route = c.route /\ d.ghosts = c.ghosts /\ d.view = c.view
  BY <1>2 DEF Client
<1> HIDE DEF d
<1>5. Informed(d, Known)
  BY <1>2, <1>4 DEF Informed
<1>6. Sound(d, Known, flown)
  BY <1>3, <1>4, <1>5, SoundAlike
<1> QED BY <1>6 DEF d

\* OnViewChanged: an acceptance clears the ghosts.
LEMMA TakeViewChangeKeeps ==
    ASSUME NEW acc, NEW fl, NEW c, Sound(c, acc, fl), NEW m, Heard(m, acc)
    PROVE  Sound(TakeViewChange(c, m), acc, fl)
<1> DEFINE d == TakeViewChange(c, m)
<1>1. c \in Client /\ Informed(c, acc) /\ c.acts \in Nat
  BY ClientFields DEF Sound
<1>2. m.type = "view" => m.grid \in Anchors
  BY DEF Heard, Answer
<1>3. d \in Client
  BY <1>1, <1>2 DEF TakeViewChange, Client
<1>4. c.acts <= d.acts /\ d.out = c.out /\ d.route = c.route /\ d.ghosts \subseteq c.ghosts /\ d.view = c.view
  BY <1>1 DEF TakeViewChange, Client
<1> HIDE DEF d
<1>5. Informed(d, acc)
  BY <1>1, <1>4 DEF Informed
<1>6. Sound(d, acc, fl)
  BY <1>3, <1>4, <1>5, SoundAlike
<1> QED BY <1>6 DEF d

\* The verdicts: an acceptance promotes, and what it promotes was accepted.
LEMMA OnVerdictKeeps ==
    ASSUME NEW acc, NEW fl, NEW c, Sound(c, acc, fl), NEW m, Heard(m, acc)
    PROVE  Sound(OnVerdict(c, m), acc, fl)
<1> DEFINE Judged(g) == IF g.seq # m.seq \/ g.state = "Rejected" THEN g
                        ELSE [g EXCEPT !.state = IF m.ok THEN "UnderWay" ELSE "Rejected"]
           gs == {Judged(g) : g \in c.ghosts}
           d == OnVerdict(c, m)
<1>1. c \in Client /\ Informed(c, acc) /\ c.ghosts \subseteq Ghost /\ c.acts \in Nat
  BY ClientFields DEF Sound
<1>2. CASE m.type # "ack"
  BY <1>2 DEF OnVerdict
<1>3. CASE m.type = "ack"
  <2>1. \A g \in Ghost : Judged(g) \in Ghost
    BY DEF Ghost
  <2>2. \A g \in c.ghosts : Judged(g).state = "UnderWay" => Judged(g).seq \in acc
    BY <1>1, <1>3 DEF Informed, Heard, Ghost
  <2>3. d = [c EXCEPT !.ghosts = gs]
    BY <1>3 DEF OnVerdict
  <2> HIDE DEF Judged, d
  <2>4. gs \in SUBSET Ghost /\ \A g \in gs : g.state = "UnderWay" => g.seq \in acc
    BY <1>1, <2>1, <2>2
  <2> HIDE DEF gs
  <2>5. d \in Client
    BY <1>1, <2>3, <2>4 DEF Client
  <2>6. c.acts <= d.acts /\ d.out = c.out /\ d.route = c.route /\ d.ghosts = gs /\ d.view = c.view
    BY <1>1, <2>3 DEF Client
  <2>7. Informed(d, acc)
    BY <1>1, <2>4, <2>6 DEF Informed
  <2>8. Sound(d, acc, fl)
    BY <2>5, <2>6, <2>7, SoundAlike
  <2> QED BY <2>8 DEF d
<1> QED BY <1>2, <1>3

\* One that says something more which is not a leg.
LEMMA SoundSaying ==
    ASSUME NEW acc, NEW fl, NEW c, Sound(c, acc, fl), NEW d \in Client, NEW m, ~IsLeg(m),
           c.acts <= d.acts, d.out = Append(c.out, m), d.route = c.route, Informed(d, acc)
    PROVE  Sound(d, acc, fl)
<1> DEFINE e == [d EXCEPT !.out = c.out]
<1>1. c \in Client /\ c.out \in Seq(Message)
  BY ClientFields DEF Sound
<1>2. e \in Client /\ c.acts <= e.acts /\ e.out = c.out /\ e.route = c.route /\ e.acts = d.acts
      /\ e.ghosts = d.ghosts /\ e.view = d.view
  BY <1>1 DEF Client
<1> HIDE DEF e
<1>3. Informed(e, acc)
  BY <1>2 DEF Informed
<1>4. Sound(e, acc, fl)
  BY <1>2, <1>3, SoundAlike
<1>5. \A tag : Behind(tag, e) <=> Behind(tag, d)
  BY <1>2 DEF Behind
<1>6. \A i \in DOMAIN d.out : IsLeg(d.out[i]) => i \in DOMAIN e.out /\ e.out[i] = d.out[i]
  BY <1>1, <1>2
<1>7. RouteStands(d)
  BY <1>2, <1>4 DEF Sound, RouteStands
<1>8. LegsBehind(d)
  BY <1>4, <1>5, <1>6 DEF Sound, LegsBehind
<1>9. FlownBehind(d, fl)
  BY <1>4, <1>5, <1>6 DEF Sound, FlownBehind
<1> QED BY <1>7, <1>8, <1>9 DEF Sound

\* One that sends the leg its plan is ready with, and waits for it.
LEMMA SoundSending ==
    ASSUME NEW acc, NEW fl, NEW c, Sound(c, acc, fl), NEW d \in Client, NEW m,
           c.route.state = "Ready", m.tag = <<c.route.plan, c.route.hop>>,
           d.acts = c.acts, d.out = Append(c.out, m), Informed(d, acc),
           d.route.plan = c.route.plan, d.route.hop = c.route.hop,
           d.route.state = "Flying", d.route.seq # 0
    PROVE  Sound(d, acc, fl)
<1> DEFINE t == m.tag
<1>1. /\ c \in Client /\ c.out \in Seq(Message) /\ c.route.plan \in Nat
      /\ c.route.hop \in Nat \ {0} /\ c.acts \in Nat
  BY ClientFields, RouteFields DEF Sound
<1>2. RouteStands(d)
  BY DEF Sound, RouteStands
<1>3. t \in Nat \X Nat /\ t[1] = c.route.plan /\ t[2] = c.route.hop
  BY <1>1
<1>4. Behind(t, d)
  <2>1. t[1] <= d.acts
    BY <1>3 DEF Sound, RouteStands
  <2> QED BY <1>1, <1>3, <2>1 DEF Behind
<1>5. ASSUME NEW tag, Behind(tag, c) PROVE Behind(tag, d) /\ Apart(tag, t)
  <2>1. tag \in Nat \X Nat /\ tag[1] <= d.acts
    BY <1>5 DEF Behind
  <2>2. tag[1] = c.route.plan => tag[2] < c.route.hop
    BY <1>5 DEF Behind
  <2> QED BY <1>1, <1>3, <2>1, <2>2 DEF Behind, Apart
<1> HIDE DEF t
<1>6. /\ \A i \in DOMAIN d.out : i \in DOMAIN c.out \/ i = Len(c.out) + 1
      /\ \A i \in DOMAIN c.out : d.out[i] = c.out[i]
      /\ d.out[Len(c.out) + 1].tag = t
  BY <1>1 DEF t
<1>7. \A i, j \in DOMAIN d.out : i < j => i \in DOMAIN c.out
  BY <1>1
<1>8. LegsBehind(c) /\ FlownBehind(c, fl)
  BY DEF Sound
<1>9. LegsBehind(d)
  <2>1. ASSUME NEW i \in DOMAIN d.out, IsLeg(d.out[i]) PROVE Behind(d.out[i].tag, d)
    BY <1>4, <1>5, <1>6, <1>8, <2>1 DEF LegsBehind
  <2>2. ASSUME NEW i \in DOMAIN d.out, NEW j \in DOMAIN d.out, i < j,
               IsLeg(d.out[i]), IsLeg(d.out[j])
        PROVE  Apart(d.out[i].tag, d.out[j].tag)
    <3>1. i \in DOMAIN c.out /\ d.out[i] = c.out[i] /\ Behind(c.out[i].tag, c)
      BY <1>6, <1>7, <1>8, <2>2 DEF LegsBehind
    <3>2. CASE j = Len(c.out) + 1
      BY <1>5, <1>6, <3>1, <3>2
    <3>3. CASE j \in DOMAIN c.out
      BY <1>6, <1>8, <2>2, <3>1, <3>3 DEF LegsBehind
    <3> QED BY <1>6, <3>2, <3>3
  <2> QED BY <2>1, <2>2 DEF LegsBehind
<1>10. FlownBehind(d, fl)
  <2>1. \A i \in DOMAIN fl : Behind(fl[i], d)
    BY <1>5, <1>8 DEF FlownBehind
  <2>2. ASSUME NEW i \in DOMAIN fl, NEW j \in DOMAIN d.out, IsLeg(d.out[j])
        PROVE  Apart(fl[i], d.out[j].tag)
    <3>1. CASE j = Len(c.out) + 1
      BY <1>5, <1>6, <1>8, <3>1 DEF FlownBehind
    <3>2. CASE j \in DOMAIN c.out
      BY <1>6, <1>8, <2>2, <3>2 DEF FlownBehind
    <3> QED BY <1>6, <3>1, <3>2
  <2> QED BY <2>1, <2>2 DEF FlownBehind
<1> QED BY <1>2, <1>9, <1>10 DEF Sound

\* Auto-follow asks for a view of the grid the fleet is said to be on.
LEMMA AdvanceAutoFollowKeeps ==
    ASSUME NEW acc, NEW fl, NEW c, Sound(c, acc, fl)
    PROVE  Sound(AdvanceAutoFollow(c), acc, fl)
<1> DEFINE t == FollowTarget(c)
           m == [type |-> "view", grid |-> t]
           d == [c EXCEPT !.requested = t, !.out = Append(@, m)]
<1>1. c \in Client /\ c.out \in Seq(Message) /\ Informed(c, acc) /\ c.acts \in Nat
  BY ClientFields DEF Sound
<1>2. CASE AdvanceAutoFollow(c) = c
  BY <1>2
<1>3. CASE AdvanceAutoFollow(c) # c
  <2>1. AdvanceAutoFollow(c) = d /\ t # Nowhere
    BY <1>3 DEF AdvanceAutoFollow
  <2>2. t \in Anchors
    BY <1>1, <2>1 DEF FollowTarget, Client
  <2> HIDE DEF t
  <2>3. m \in Message /\ ~IsLeg(m)
    BY <2>2 DEF Message, IsLeg
  <2> HIDE DEF m
  <2>4. Append(c.out, m) \in Seq(Message)
    BY <1>1, <2>3, AppendProperties
  <2>5. d \in Client
    BY <1>1, <2>2, <2>4 DEF Client
  <2>6. /\ c.acts <= d.acts /\ d.out = Append(c.out, m) /\ d.route = c.route /\ d.ghosts = c.ghosts
        /\ d.view = c.view
    BY <1>1 DEF Client
  <2> HIDE DEF d
  <2>7. Informed(d, acc)
    BY <1>1, <2>6 DEF Informed
  <2> QED BY <2>1, <2>3, <2>5, <2>6, <2>7, SoundSaying
<1> QED BY <1>2, <1>3

\* OnFeedback: a ghost is promoted by a record of the picture, and those are of
\* accepted orders.
LEMMA OnFeedbackKeeps ==
    ASSUME NEW acc, NEW fl, NEW c, Sound(c, acc, fl)
    PROVE  Sound(OnFeedback(c), acc, fl)
<1> DEFINE settled == {g \in c.ghosts : g.state # "Rejected" /\
                         (Finished(c, g.seq)
                            \/ (g.state = "UnderWay" /\ Decided(c, g.seq)))}
           Told(g) == IF g.state = "Rejected" THEN g
                      ELSE IF Reports(c, g.seq) # {} THEN [g EXCEPT !.state = "UnderWay"]
                      ELSE [g EXCEPT !.due = @ \/ Decided(c, g.seq)]
           gs == {Told(g) : g \in c.ghosts \ settled}
           d == OnFeedback(c)
<1>1. c \in Client /\ Informed(c, acc) /\ c.ghosts \subseteq Ghost /\ c.acts \in Nat
  BY ClientFields DEF Sound
<1>2. d = [c EXCEPT !.ghosts = gs]
  BY DEF OnFeedback
<1>3. \A g \in Ghost : Told(g) \in Ghost
  <2>1. \A seq : Decided(c, seq) \in BOOLEAN
    BY DEF Decided
  <2> QED BY <2>1 DEF Ghost
<1>4. \A g \in c.ghosts : Told(g).state = "UnderWay" => Told(g).seq \in acc
  <2> SUFFICES ASSUME NEW g \in c.ghosts, Told(g).state = "UnderWay" PROVE Told(g).seq \in acc
    OBVIOUS
  <2>1. g \in Ghost /\ Told(g).seq = g.seq
    BY <1>1 DEF Ghost
  <2>2. CASE g.state = "UnderWay"
    BY <1>1, <2>1, <2>2 DEF Informed
  <2>3. CASE g.state # "UnderWay"
    <3>1. Reports(c, g.seq) # {}
      BY <2>1, <2>3 DEF Ghost
    <3> QED BY <1>1, <2>1, <3>1 DEF Reports, Informed
  <2> QED BY <2>2, <2>3
<1> HIDE DEF Told, settled, d
<1>5. gs \in SUBSET Ghost /\ \A g \in gs : g.state = "UnderWay" => g.seq \in acc
  BY <1>1, <1>3, <1>4
<1> HIDE DEF gs
<1>6. d \in Client
  BY <1>1, <1>2, <1>5 DEF Client
<1>7. c.acts <= d.acts /\ d.out = c.out /\ d.route = c.route /\ d.ghosts = gs /\ d.view = c.view
  BY <1>1, <1>2 DEF Client
<1>8. Informed(d, acc)
  BY <1>1, <1>5, <1>7 DEF Informed
<1>9. Sound(d, acc, fl)
  BY <1>6, <1>7, <1>8, SoundAlike
<1> QED BY <1>9 DEF d

\* Advance: a timer only removes ghosts.
LEMMA AdvanceKeeps ==
    ASSUME NEW acc, NEW fl, NEW c, Sound(c, acc, fl), NEW late
    PROVE  Sound(Advance(c, late), acc, fl)
<1> DEFINE d == Advance(c, late)
<1>1. c \in Client /\ Informed(c, acc) /\ c.acts \in Nat
  BY ClientFields DEF Sound
<1>2. d \in Client
  BY <1>1 DEF Advance, Client
<1>3. c.acts <= d.acts /\ d.out = c.out /\ d.route = c.route /\ d.ghosts \subseteq c.ghosts /\ d.view = c.view
  BY <1>1 DEF Advance, Client
<1> HIDE DEF d
<1>4. Informed(d, acc)
  BY <1>1, <1>3 DEF Informed
<1>5. Sound(d, acc, fl)
  BY <1>2, <1>3, <1>4, SoundAlike
<1> QED BY <1>5 DEF d

\* A client whose route alone moved on.
LEMMA RouteMoved ==
    ASSUME NEW acc, NEW fl, NEW c, Sound(c, acc, fl), NEW r \in Route,
           r.plan = c.route.plan, (r.state = "Flying") = (r.seq # 0),
           r.state = "Ready" => r.hop <= Len(r.legs),
           \A n \in Nat : /\ c.route.state = "Flying" => n <= c.route.hop
                          /\ c.route.state = "Ready" => n < c.route.hop
                          => /\ r.state = "Ready" => n < r.hop
                             /\ r.state = "Flying" => n <= r.hop
    PROVE  Sound([c EXCEPT !.route = r], acc, fl)
<1> DEFINE d == [c EXCEPT !.route = r]
<1>1. c \in Client /\ Informed(c, acc) /\ RouteStands(c)
  BY DEF Sound
<1>2. d \in Client
  BY <1>1 DEF Client
<1>3. d.acts = c.acts /\ d.out = c.out /\ d.route = r /\ d.ghosts = c.ghosts /\ d.view = c.view
  BY <1>1 DEF Client
<1> HIDE DEF d
<1>4. Informed(d, acc)
  BY <1>1, <1>3 DEF Informed
<1>5. RouteStands(d)
  BY <1>1, <1>3 DEF RouteStands
<1>6. ASSUME NEW tag, Behind(tag, c) PROVE Behind(tag, d)
  <2>1. tag \in Nat \X Nat /\ tag[1] <= d.acts /\ tag[2] \in Nat
    BY <1>3, <1>6 DEF Behind
  <2>2. ASSUME tag[1] = d.route.plan
        PROVE  /\ d.route.state = "Ready" => tag[2] < d.route.hop
               /\ d.route.state = "Flying" => tag[2] <= d.route.hop
    <3>1. /\ c.route.state = "Ready" => tag[2] < c.route.hop
          /\ c.route.state = "Flying" => tag[2] <= c.route.hop
      BY <1>3, <1>6, <2>2 DEF Behind
    <3> QED BY <1>3, <2>1, <3>1
  <2> QED BY <2>1, <2>2 DEF Behind
<1>7. Sound(d, acc, fl)
  BY <1>2, <1>3, <1>4, <1>5, <1>6, SoundMoved
<1> QED BY <1>7 DEF d

\* NoteFeedback: the hop is passed when the plan lets go of the leg it waited for.
LEMMA NoteFeedbackKeeps ==
    ASSUME NEW acc, NEW fl, NEW c, Sound(c, acc, fl)
    PROVE  Sound(NoteFeedback(c), acc, fl)
<1> DEFINE r == [c.route EXCEPT !.hop = @ + 1, !.seq = 0,
                     !.state = IF c.route.hop < Len(c.route.legs) THEN "Ready" ELSE "None"]
<1>1. CASE NoteFeedback(c) = c
  BY <1>1
<1>2. CASE NoteFeedback(c) # c
  <2>1. c.route.state = "Flying" /\ NoteFeedback(c) = [c EXCEPT !.route = r]
    BY <1>2 DEF NoteFeedback
  <2>2. /\ c.route \in Route /\ c.route.hop \in Nat \ {0} /\ c.route.legs \in Seq(Anchors)
        /\ MaxSeq \in Nat
    BY RouteFields, AnchorAssumption DEF Sound
  <2>3. r \in Route
    <3> DEFINE st == IF c.route.hop < Len(c.route.legs) THEN "Ready" ELSE "None"
               hop == c.route.hop + 1
    <3>1. st \in {"None", "Ready", "Flying", "Halted"} /\ hop \in Nat \ {0} /\ 0 \in 0..MaxSeq
      BY <2>2
    <3>2. r = [c.route EXCEPT !.hop = hop, !.seq = 0, !.state = st]
      OBVIOUS
    <3> HIDE DEF st, hop, r
    <3> QED BY <2>2, <3>1, <3>2 DEF Route
  <2>4. /\ r.plan = c.route.plan /\ r.hop = c.route.hop + 1 /\ r.seq = 0 /\ r.legs = c.route.legs
        /\ r.state \in {"Ready", "None"} /\ (r.state = "Ready" => c.route.hop < Len(c.route.legs))
    BY <2>2 DEF Route
  <2> HIDE DEF r
  <2>5. r.state = "Ready" => r.hop <= Len(r.legs)
    BY <2>2, <2>4
  <2>6. \A n \in Nat : n <= c.route.hop => n < r.hop
    BY <2>2, <2>4
  <2>7. Sound([c EXCEPT !.route = r], acc, fl)
    BY <2>1, <2>3, <2>4, <2>5, <2>6, RouteMoved
  <2> QED BY <2>1, <2>7
<1> QED BY <1>1, <1>2

\* FeedRoutePlan: the leg goes out with the next number, or the plan halts.
LEMMA FeedRoutePlanKeeps ==
    ASSUME NEW acc, NEW fl, NEW c, Sound(c, acc, fl)
    PROVE  Sound(FeedRoutePlan(c), acc, fl)
<1> DEFINE leg == c.route.legs[c.route.hop]
           r == [c.route EXCEPT !.state = "Halted"]
           m == [type |-> "order", seq |-> c.nextSeq, dest |-> leg,
                 tag |-> <<c.route.plan, c.route.hop>>]
           d == NoteSent(SendOrder(c, leg, <<c.route.plan, c.route.hop>>), c.nextSeq)
<1>1. /\ c \in Client /\ Informed(c, acc) /\ RouteStands(c)
      /\ MaxSeq \in Nat /\ Nowhere \notin Anchors
  BY AnchorAssumption DEF Sound
<1>2. /\ c.route \in Route /\ c.route.hop \in Nat \ {0} /\ c.route.plan \in Nat
      /\ c.route.legs \in Seq(Anchors) /\ c.route.seq \in Nat
  BY <1>1, RouteFields
<1>3. c.out \in Seq(Message) /\ c.nextSeq \in Nat \ {0} /\ c.acts \in Nat
  BY <1>1, ClientFields
<1>4. CASE FeedRoutePlan(c) = c
  BY <1>4
<1>5. CASE FeedRoutePlan(c) = [c EXCEPT !.route = r] /\ c.route.state = "Ready"
  <2>1. r \in Route
    BY <1>2 DEF Route
  <2>2. r.plan = c.route.plan /\ r.seq = c.route.seq /\ r.state = "Halted"
    BY <1>2 DEF Route
  <2>3. r.seq = 0
    BY <1>1, <1>5, <2>2 DEF RouteStands
  <2> HIDE DEF r
  <2>4. Sound([c EXCEPT !.route = r], acc, fl)
    BY <2>1, <2>2, <2>3, RouteMoved
  <2> QED BY <1>5, <2>4
<1>6. CASE FeedRoutePlan(c) = d /\ c.route.state = "Ready" /\ c.nextSeq <= MaxSeq
  <2>1. leg \in Anchors
    <3>1. c.route.hop \in 1..Len(c.route.legs)
      BY <1>1, <1>2, <1>6 DEF RouteStands
    <3> QED BY <1>2, <3>1
  <2>2. c.nextSeq \in Seqs /\ c.nextSeq + 1 \in 1..MaxSeq + 1
    BY <1>1, <1>3, <1>6 DEF Seqs
  <2>3. m \in Message /\ m.tag = <<c.route.plan, c.route.hop>>
    BY <1>2, <2>1, <2>2 DEF Message
  <2> DEFINE s == [c.route EXCEPT !.seq = c.nextSeq, !.state = "Flying"]
             out == Append(c.out, m)
  <2>13. c.nextSeq \in 0..MaxSeq
    BY <1>1, <2>2 DEF Seqs
  <2>4. s \in Route /\ s.plan = c.route.plan /\ s.hop = c.route.hop /\ s.state = "Flying" /\ s.seq = c.nextSeq
    BY <1>2, <2>13 DEF Route
  <2>5. d = [c EXCEPT !.nextSeq = c.nextSeq + 1, !.out = out, !.route = s]
    BY <1>1 DEF NoteSent, SendOrder, Client
  <2> HIDE DEF m, s, d, leg
  <2>6. out \in Seq(Message)
    BY <1>3, <2>3, AppendProperties
  <2> HIDE DEF out
  <2>7. d \in Client
    BY <1>1, <2>2, <2>4, <2>5, <2>6 DEF Client
  <2>8. d.acts = c.acts /\ d.out = out /\ d.ghosts = c.ghosts /\ d.view = c.view /\ d.route = s
    BY <1>1, <2>5 DEF Client
  <2>9. Informed(d, acc)
    BY <1>1, <2>8 DEF Informed
  <2>10. /\ d.route.plan = c.route.plan /\ d.route.hop = c.route.hop
         /\ d.route.state = "Flying" /\ d.route.seq # 0
    BY <1>3, <2>4, <2>8
  <2>11. d.out = Append(c.out, m)
    BY <2>8 DEF out
  <2>12. c.route.state = "Ready" /\ m.tag = <<c.route.plan, c.route.hop>> /\ d.acts = c.acts
    BY <1>6, <2>3, <2>8
  <2>14. Sound(d, acc, fl)
    BY <2>7, <2>9, <2>10, <2>11, <2>12, SoundSending
  <2> QED BY <1>6, <2>14
<1>7. \/ FeedRoutePlan(c) = c
      \/ FeedRoutePlan(c) = [c EXCEPT !.route = r] /\ c.route.state = "Ready"
      \/ FeedRoutePlan(c) = d /\ c.route.state = "Ready" /\ c.nextSeq <= MaxSeq
  BY <1>1, <1>3 DEF FeedRoutePlan
<1> QED BY <1>4, <1>5, <1>6, <1>7

LEMMA ExtractSceneKeeps ==
    ASSUME NEW acc, NEW fl, NEW c, Sound(c, acc, fl), NEW shown,
           NEW settled \in BOOLEAN
    PROVE  Sound(ExtractScene(c, shown, settled), acc, fl)
<1> DEFINE d == ExtractScene(c, shown, settled)
<1>1. /\ c \in Client /\ Informed(c, acc) /\ c.acts \in Nat /\ c.view.ships \in BOOLEAN
      /\ c.trail \in BOOLEAN /\ c.settling \in BOOLEAN
  BY ClientFields DEF Sound, Client, Picture
<1>2. d \in Client
  <2> DEFINE scene == IF shown = "now" THEN c.view.ships ELSE c.trail
             settling == c.settling /\ ~settled
  <2>1. scene \in BOOLEAN /\ settling \in BOOLEAN
    BY <1>1
  <2>2. d = c \/ d = [c EXCEPT !.scene = scene, !.settling = settling]
    BY DEF ExtractScene
  <2> HIDE DEF scene, settling, d
  <2>3. ASSUME NEW x \in BOOLEAN, NEW y \in BOOLEAN
        PROVE  [c EXCEPT !.scene = x, !.settling = y] \in Client
    BY <1>1 DEF Client
  <2> QED BY <1>1, <2>1, <2>2, <2>3
<1>3. c.acts <= d.acts /\ d.out = c.out /\ d.route = c.route /\ d.ghosts = c.ghosts /\ d.view = c.view
  BY <1>1 DEF ExtractScene, Client
<1> HIDE DEF d
<1>4. Informed(d, acc)
  BY <1>1, <1>3 DEF Informed
<1>5. Sound(d, acc, fl)
  BY <1>2, <1>3, <1>4, SoundAlike
<1> QED BY <1>5 DEF d

-----------------------------------------------------------------------------
(* The frame: the answers one after another, then its steps.               *)

\* The view changes a frame hears of.
LEMMA ViewRun ==
    ASSUME NEW V, NEW n \in Nat, NEW seq, DOMAIN seq = 1..n, NEW base \in V,
           \A m \in V : \A k \in 1..n : TakeViewChange(m, seq[k]) \in V
    PROVE  TakeViewChanges(base, seq) \in V /\ (n = 0 => TakeViewChanges(base, seq) = base)
<1> DEFINE step == [x \in (1..n) \X V |-> TakeViewChange(x[2], seq[x[1]])]
           Solves(it) == it = [S \in SUBSET (1..n) |->
               IF S = {} THEN base ELSE TakeViewChange(it[S \ {Max(S)}], seq[Max(S)])]
           it == CHOOSE f : Solves(f)
           run == Beginnings(it, n)
<1>1. step \in [(1..n) \X V -> V]
  OBVIOUS
<1>2. \A k \in 1..n : \A m \in V : step[<<k, m>>] = TakeViewChange(m, seq[k])
  OBVIOUS
<1> HIDE DEF step
<1>3. \A S \in SUBSET (1..n) : S # {} => Max(S) \in 1..n /\ S \ {Max(S)} \in SUBSET (1..n)
  BY HasMax
<1>4. \E f : Solves(f)
  <2>1. PICK f : IsSolution(f, n, V, base, step)
    BY <1>1, FoldSolution
  <2>2. \A S \in SUBSET (1..n) : Taken(S, base, step, f) =
            IF S = {} THEN base ELSE TakeViewChange(f[S \ {Max(S)}], seq[Max(S)])
    BY <1>2, <1>3, <2>1 DEF Taken, IsSolution
  <2>3. Solves(f)
    BY <2>1, <2>2 DEF IsSolution
  <2> QED BY <2>3
<1>5. Solves(it)
  BY <1>4
<1>6. TakeViewChanges(base, seq) = it[1..n]
  BY DEF TakeViewChanges, FoldLeft, MapThenFoldSet, Max
<1>7. it[{}] = base
  BY <1>5
<1>8. \A S \in SUBSET (1..n) : S # {} => it[S] = TakeViewChange(it[S \ {Max(S)}], seq[Max(S)])
  BY <1>5
<1> HIDE DEF it, Solves
<1>9. IsRun(run, n, V, base, step)
  <2>1. Follows(it, n, V, base, step)
    BY <1>2, <1>3, <1>7, <1>8 DEF Follows
  <2> QED BY <1>1, <2>1, FoldPrefixes
<1>10. run[n] = it[1..n]
  BY DEF Beginnings
<1> HIDE DEF run
<1>11. n \in 0..n
  OBVIOUS
<1> QED BY <1>6, <1>9, <1>10, <1>11 DEF IsRun

\* The verdicts a frame hears of.
LEMMA VerdictRun ==
    ASSUME NEW V, NEW n \in Nat, NEW seq, DOMAIN seq = 1..n, NEW base \in V,
           \A m \in V : \A k \in 1..n : OnVerdict(m, seq[k]) \in V
    PROVE  OnVerdicts(base, seq) \in V /\ (n = 0 => OnVerdicts(base, seq) = base)
<1> DEFINE step == [x \in (1..n) \X V |-> OnVerdict(x[2], seq[x[1]])]
           Solves(it) == it = [S \in SUBSET (1..n) |->
               IF S = {} THEN base ELSE OnVerdict(it[S \ {Max(S)}], seq[Max(S)])]
           it == CHOOSE f : Solves(f)
           run == Beginnings(it, n)
<1>1. step \in [(1..n) \X V -> V]
  OBVIOUS
<1>2. \A k \in 1..n : \A m \in V : step[<<k, m>>] = OnVerdict(m, seq[k])
  OBVIOUS
<1> HIDE DEF step
<1>3. \A S \in SUBSET (1..n) : S # {} => Max(S) \in 1..n /\ S \ {Max(S)} \in SUBSET (1..n)
  BY HasMax
<1>4. \E f : Solves(f)
  <2>1. PICK f : IsSolution(f, n, V, base, step)
    BY <1>1, FoldSolution
  <2>2. \A S \in SUBSET (1..n) : Taken(S, base, step, f) =
            IF S = {} THEN base ELSE OnVerdict(f[S \ {Max(S)}], seq[Max(S)])
    BY <1>2, <1>3, <2>1 DEF Taken, IsSolution
  <2>3. Solves(f)
    BY <2>1, <2>2 DEF IsSolution
  <2> QED BY <2>3
<1>5. Solves(it)
  BY <1>4
<1>6. OnVerdicts(base, seq) = it[1..n]
  BY DEF OnVerdicts, FoldLeft, MapThenFoldSet, Max
<1>7. it[{}] = base
  BY <1>5
<1>8. \A S \in SUBSET (1..n) : S # {} => it[S] = OnVerdict(it[S \ {Max(S)}], seq[Max(S)])
  BY <1>5
<1> HIDE DEF it, Solves
<1>9. IsRun(run, n, V, base, step)
  <2>1. Follows(it, n, V, base, step)
    BY <1>2, <1>3, <1>7, <1>8 DEF Follows
  <2> QED BY <1>1, <2>1, FoldPrefixes
<1>10. run[n] = it[1..n]
  BY DEF Beginnings
<1> HIDE DEF run
<1>11. n \in 0..n
  OBVIOUS
<1> QED BY <1>6, <1>9, <1>10, <1>11 DEF IsRun

\* The hops of a route.
LEMMA HopRun ==
    ASSUME NEW V, NEW n \in Nat, NEW seq, DOMAIN seq = 1..n, NEW base \in V,
           \A m \in V : \A k \in 1..n : Hop(m, seq[k]) \in V
    PROVE  Hops(base, seq) \in V /\ (n = 0 => Hops(base, seq) = base)
<1> DEFINE step == [x \in (1..n) \X V |-> Hop(x[2], seq[x[1]])]
           Solves(it) == it = [S \in SUBSET (1..n) |->
               IF S = {} THEN base ELSE Hop(it[S \ {Max(S)}], seq[Max(S)])]
           it == CHOOSE f : Solves(f)
           run == Beginnings(it, n)
<1>1. step \in [(1..n) \X V -> V]
  OBVIOUS
<1>2. \A k \in 1..n : \A m \in V : step[<<k, m>>] = Hop(m, seq[k])
  OBVIOUS
<1> HIDE DEF step
<1>3. \A S \in SUBSET (1..n) : S # {} => Max(S) \in 1..n /\ S \ {Max(S)} \in SUBSET (1..n)
  BY HasMax
<1>4. \E f : Solves(f)
  <2>1. PICK f : IsSolution(f, n, V, base, step)
    BY <1>1, FoldSolution
  <2>2. \A S \in SUBSET (1..n) : Taken(S, base, step, f) =
            IF S = {} THEN base ELSE Hop(f[S \ {Max(S)}], seq[Max(S)])
    BY <1>2, <1>3, <2>1 DEF Taken, IsSolution
  <2>3. Solves(f)
    BY <2>1, <2>2 DEF IsSolution
  <2> QED BY <2>3
<1>5. Solves(it)
  BY <1>4
<1>6. Hops(base, seq) = it[1..n]
  BY DEF Hops, FoldLeft, MapThenFoldSet, Max
<1>7. it[{}] = base
  BY <1>5
<1>8. \A S \in SUBSET (1..n) : S # {} => it[S] = Hop(it[S \ {Max(S)}], seq[Max(S)])
  BY <1>5
<1> HIDE DEF it, Solves
<1>9. IsRun(run, n, V, base, step)
  <2>1. Follows(it, n, V, base, step)
    BY <1>2, <1>3, <1>7, <1>8 DEF Follows
  <2> QED BY <1>1, <2>1, FoldPrefixes
<1>10. run[n] = it[1..n]
  BY DEF Beginnings
<1> HIDE DEF run
<1>11. n \in 0..n
  OBVIOUS
<1> QED BY <1>6, <1>9, <1>10, <1>11 DEF IsRun

\* What a frame can hear.
Hearable(heard, acc) ==
    heard \in Seq(Answer) /\ \A k \in 1..Len(heard) : Heard(heard[k], acc)

LEMMA ViewsKeep ==
    ASSUME NEW acc, NEW fl, NEW c, Sound(c, acc, fl), NEW heard, Hearable(heard, acc)
    PROVE  Sound(TakeViewChanges(c, heard), acc, fl)
<1> DEFINE V == {x \in Client : Sound(x, acc, fl)}
           n == Len(heard)
<1>1. n \in Nat /\ DOMAIN heard = 1..n
  BY DEF Hearable
<1>2. c \in V
  BY DEF Sound
<1>3. \A x \in V : \A k \in 1..n : TakeViewChange(x, heard[k]) \in V
  <2> SUFFICES ASSUME NEW x \in V, NEW k \in 1..n PROVE TakeViewChange(x, heard[k]) \in V
    OBVIOUS
  <2>1. Sound(TakeViewChange(x, heard[k]), acc, fl)
    BY TakeViewChangeKeeps DEF Hearable
  <2> QED BY <2>1 DEF Sound
<1> HIDE DEF V, n
<1>4. TakeViewChanges(c, heard) \in V
  BY <1>1, <1>2, <1>3, ViewRun
<1> QED BY <1>4 DEF V

LEMMA VerdictsKeep ==
    ASSUME NEW acc, NEW fl, NEW c, Sound(c, acc, fl), NEW heard, Hearable(heard, acc)
    PROVE  Sound(OnVerdicts(c, heard), acc, fl)
<1> DEFINE V == {x \in Client : Sound(x, acc, fl)}
           n == Len(heard)
<1>1. n \in Nat /\ DOMAIN heard = 1..n
  BY DEF Hearable
<1>2. c \in V
  BY DEF Sound
<1>3. \A x \in V : \A k \in 1..n : OnVerdict(x, heard[k]) \in V
  <2> SUFFICES ASSUME NEW x \in V, NEW k \in 1..n PROVE OnVerdict(x, heard[k]) \in V
    OBVIOUS
  <2>1. Sound(OnVerdict(x, heard[k]), acc, fl)
    BY OnVerdictKeeps DEF Hearable
  <2> QED BY <2>1 DEF Sound
<1> HIDE DEF V, n
<1>4. OnVerdicts(c, heard) \in V
  BY <1>1, <1>2, <1>3, VerdictRun
<1> QED BY <1>4 DEF V

LEMMA FrameStepsKeep ==
    ASSUME ShardSound, Sound(client, Known, flown),
           NEW heard, Hearable(heard, Known), NEW framed, NEW summed, NEW late, NEW shown,
           NEW settled \in BOOLEAN
    PROVE  Sound(AfterFrame(heard, framed, summed, late, shown, settled), Known, flown)
<1> DEFINE c1 == IF framed THEN ApplyFrame(client) ELSE client
           c2 == IF summed THEN [c1 EXCEPT !.block = Summary] ELSE c1
           c3 == TakeViewChanges(c2, heard)
           c4 == AdvanceAutoFollow(c3)
           c5 == OnVerdicts(c4, heard)
           c6 == OnFeedback(c5)
           c7 == Advance(c6, late)
           c8 == FeedRoutePlan(NoteFeedback(c7))
           c9 == ExtractScene(c8, shown, settled)
<1>1. c9 = AfterFrame(heard, framed, summed, late, shown, settled)
  <2>1. c3 = PollNetwork(client, heard, framed, summed)
    BY DEF PollNetwork
  <2> HIDE DEF c3
  <2>2. c8 = UpdateOrders(c4, heard, late)
    BY DEF UpdateOrders
  <2> HIDE DEF c4, c8
  <2> QED BY <2>1, <2>2 DEF AfterFrame, c4
<1>2. Sound(c1, Known, flown)
  BY ApplyFrameKeeps
<1> HIDE DEF c1
<1>3. Sound(c2, Known, flown)
  BY <1>2, SummedKeeps
<1> HIDE DEF c2
<1>4. Sound(c3, Known, flown)
  BY <1>3, ViewsKeep
<1> HIDE DEF c3
<1>5. Sound(c4, Known, flown)
  BY <1>4, AdvanceAutoFollowKeeps
<1> HIDE DEF c4
<1>6. Sound(c5, Known, flown)
  BY <1>5, VerdictsKeep
<1> HIDE DEF c5
<1>7. Sound(c6, Known, flown)
  BY <1>6, OnFeedbackKeeps
<1> HIDE DEF c6
<1>8. Sound(c7, Known, flown)
  BY <1>7, AdvanceKeeps
<1> HIDE DEF c7
<1>9. Sound(c8, Known, flown)
  BY <1>8, NoteFeedbackKeeps, FeedRoutePlanKeeps
<1> HIDE DEF c8
<1>10. Sound(c9, Known, flown)
  BY <1>9, ExtractSceneKeeps
<1> QED BY <1>1, <1>10

\* What the actions that leave a part of the state alone leave of it.
LEMMA ShardUnchanged ==
    ASSUME ShardSound, UNCHANGED <<fleet, order, others, session, accepted>> PROVE ShardSound'
BY DEF ShardSound

LEMMA FlownUnchanged == ASSUME FlownSound, UNCHANGED flown PROVE FlownSound'
BY DEF FlownSound

LEMMA AnswersUnchanged == ASSUME AnswersSound, UNCHANGED <<answers, accepted>> PROVE AnswersSound'
BY DEF AnswersSound

LEMMA FrameKeeps ==
    ASSUME FeedInv, NEW hears \in BOOLEAN, NEW framed \in BOOLEAN,
           NEW summed \in BOOLEAN, NEW late \in BOOLEAN, NEW shown, NEW settled \in BOOLEAN,
           Frame(hears, framed, summed, late, shown, settled)
    PROVE  FeedInv'
<1> DEFINE heard == IF hears THEN answers ELSE <<>>
           d == AfterFrame(heard, framed, summed, late, shown, settled)
<1>1. /\ client' = d /\ answers' = (IF hears THEN <<>> ELSE answers)
      /\ UNCHANGED <<fleet, order, others, session, accepted, flown>>
  BY DEF Frame
<1>2. Sound(client, Known, flown) /\ ShardSound /\ AnswersSound /\ FlownSound
  BY DEF FeedInv
<1>3. Hearable(heard, Known)
  BY <1>2 DEF AnswersSound, Hearable, Heard, Known
<1> HIDE DEF heard
<1>4. Sound(d, Known, flown)
  BY <1>2, <1>3, FrameStepsKeep
<1> HIDE DEF d
<1>5. Sound(client, Known, flown)'
  BY <1>1, <1>4, KnownUnchanged
<1>6. AnswersSound'
  BY <1>1, <1>2 DEF AnswersSound
<1> QED BY <1>1, <1>2, <1>5, <1>6, ShardUnchanged, FlownUnchanged DEF FeedInv

-----------------------------------------------------------------------------
(* The player.                                                             *)

LEMMA PlaysKeeps ==
    ASSUME FeedInv, NEW d, Sound(d, Known, flown), Plays(d) PROVE FeedInv'
<1>1. client' = d /\ UNCHANGED <<fleet, order, others, session, answers, accepted, flown>>
  BY DEF Plays
<1>2. Sound(client, Known, flown)'
  BY <1>1, KnownUnchanged
<1> QED BY <1>1, <1>2, ShardUnchanged, FlownUnchanged, AnswersUnchanged DEF FeedInv

\* The action is counted, and nothing else.
LEMMA ActedKeeps ==
    ASSUME NEW acc, NEW fl, NEW c, Sound(c, acc, fl), c.acts < MaxActs
    PROVE  Sound(Acted(c), acc, fl)
<1> DEFINE d == Acted(c)
<1>1. c \in Client /\ Informed(c, acc) /\ c.acts \in Nat /\ MaxActs \in Nat
  BY ClientFields, AnchorAssumption DEF Sound
<1>2. c.acts + 1 \in 0..MaxActs
  BY <1>1
<1>3. d \in Client
  BY <1>1, <1>2 DEF Acted, Client
<1>4. /\ d.acts = c.acts + 1 /\ d.out = c.out /\ d.route = c.route /\ d.ghosts = c.ghosts
      /\ d.view = c.view
  BY <1>1 DEF Acted, Client
<1> HIDE DEF d
<1>5. Informed(d, acc)
  BY <1>1, <1>4 DEF Informed
<1>6. c.acts <= d.acts
  BY <1>1, <1>4
<1>7. Sound(d, acc, fl)
  BY <1>3, <1>4, <1>5, <1>6, SoundAlike
<1> QED BY <1>7 DEF d

LEMMA TogglePinKeeps == ASSUME FeedInv, TogglePin PROVE FeedInv'
<1> DEFINE c == Acted(client)
           d == [c EXCEPT !.pinned = ~@]
<1>1. Plays(d) /\ client.acts < MaxActs
  BY DEF TogglePin, MayAct
<1>2. Sound(c, Known, flown)
  BY <1>1, ActedKeeps DEF FeedInv
<1> HIDE DEF c
<1>3. c \in Client /\ Informed(c, Known) /\ c.acts \in Nat
  BY <1>2, ClientFields DEF Sound
<1>4. d \in Client
  BY <1>3 DEF Client
<1>5. c.acts <= d.acts /\ d.out = c.out /\ d.route = c.route /\ d.ghosts = c.ghosts /\ d.view = c.view
  BY <1>3 DEF Client
<1> HIDE DEF d
<1>6. Informed(d, Known)
  BY <1>3, <1>5 DEF Informed
<1>7. Sound(d, Known, flown)
  BY <1>2, <1>4, <1>5, <1>6, SoundAlike
<1> QED BY <1>1, <1>7, PlaysKeeps

LEMMA RequestViewKeeps ==
    ASSUME FeedInv, NEW a \in Anchors, RequestView(a) PROVE FeedInv'
<1> DEFINE c == Acted(client)
           m == [type |-> "view", grid |-> a]
           d == [c EXCEPT !.out = Append(@, m)]
<1>1. Plays(d) /\ client.acts < MaxActs
  BY DEF RequestView, MayAct
<1>2. Sound(c, Known, flown)
  BY <1>1, ActedKeeps DEF FeedInv
<1> HIDE DEF c
<1>3. c \in Client /\ Informed(c, Known) /\ c.acts \in Nat /\ c.out \in Seq(Message)
  BY <1>2, ClientFields DEF Sound
<1>4. m \in Message /\ ~IsLeg(m)
  BY DEF Message, IsLeg
<1> HIDE DEF m
<1>5. Append(c.out, m) \in Seq(Message)
  BY <1>3, <1>4, AppendProperties
<1>6. d \in Client
  BY <1>3, <1>5 DEF Client
<1>7. /\ c.acts <= d.acts /\ d.out = Append(c.out, m) /\ d.route = c.route /\ d.ghosts = c.ghosts
      /\ d.view = c.view
  BY <1>3 DEF Client
<1> HIDE DEF d
<1>8. Informed(d, Known)
  BY <1>3, <1>7 DEF Informed
<1>9. Sound(d, Known, flown)
  BY <1>2, <1>4, <1>6, <1>7, <1>8, SoundSaying
<1> QED BY <1>1, <1>9, PlaysKeeps

\* CommitOrder: a ghost is new, so nothing is promised; a Move or a warp of the
\* player's carries no leg.
LEMMA CommitOrderKeeps ==
    ASSUME FeedInv, NEW dest \in Anchors \cup {Nowhere}, CommitOrder(dest)
    PROVE  FeedInv'
<1> DEFINE a == Acted(client)
           ok == PreCheck(client, dest)
           ghost == [seq |-> client.nextSeq, due |-> FALSE,
                     state |-> IF ok THEN "Pending" ELSE "Rejected"]
           c == [a EXCEPT !.ghosts = @ \cup {ghost}]
           m == [type |-> "order", seq |-> client.nextSeq, dest |-> dest, tag |-> <<0, 0>>]
           d1 == [c EXCEPT !.nextSeq = @ + 1, !.out = Append(@, m)]
           d2 == [c EXCEPT !.nextSeq = @ + 1]
<1>1. client.acts < MaxActs /\ client.nextSeq <= MaxSeq
  BY DEF CommitOrder, MayAct
<1>2. /\ client \in Client /\ client.nextSeq \in Seqs
      /\ client.nextSeq + 1 \in 1..MaxSeq + 1
  <2>1. client \in Client /\ MaxSeq \in Nat
    BY AnchorAssumption DEF FeedInv, Sound
  <2>2. client.nextSeq \in Nat \ {0} /\ client.nextSeq \in Seqs
    BY <1>1, <2>1, ClientFields
  <2> QED BY <1>1, <2>1, <2>2
<1>3. Sound(a, Known, flown) /\ a.nextSeq = client.nextSeq
  <2>1. Sound(client, Known, flown)
    BY DEF FeedInv
  <2>2. a.nextSeq = client.nextSeq
    BY <1>2 DEF Acted, Client
  <2> QED BY <1>1, <2>1, <2>2, ActedKeeps
<1>4. Plays(IF ok THEN SendOrder(c, dest, <<0, 0>>) ELSE d2)
  BY DEF CommitOrder
<1> HIDE DEF a, ok
<1>5. /\ a \in Client /\ Informed(a, Known) /\ a.acts \in Nat
      /\ a.out \in Seq(Message) /\ a.ghosts \subseteq Ghost
  BY <1>3, ClientFields DEF Sound
<1>6. ghost \in Ghost /\ ghost.state # "UnderWay"
  <2> DEFINE st == IF ok THEN "Pending" ELSE "Rejected"
  <2>1. st \in {"Pending", "UnderWay", "Rejected"} /\ st # "UnderWay"
    OBVIOUS
  <2>2. ghost = [seq |-> client.nextSeq, due |-> FALSE, state |-> st]
    OBVIOUS
  <2> HIDE DEF st
  <2> QED BY <1>2, <2>1, <2>2 DEF Ghost
<1>7. m \in Message /\ ~IsLeg(m)
  BY <1>2 DEF Message, IsLeg
<1> HIDE DEF ghost
<1>8. /\ c \in Client /\ c.acts = a.acts /\ c.out = a.out /\ c.route = a.route
      /\ c.ghosts = a.ghosts \cup {ghost} /\ c.view = a.view /\ c.nextSeq = client.nextSeq
  BY <1>3, <1>5, <1>6 DEF Client
<1>9. SendOrder(c, dest, <<0, 0>>) = d1
  BY <1>8 DEF SendOrder
<1> HIDE DEF m, c
<1>10. Informed(c, Known)
  BY <1>5, <1>6, <1>8 DEF Informed
<1>11. Sound(c, Known, flown)
  <2>1. a.acts <= c.acts
    BY <1>5, <1>8
  <2> QED BY <1>3, <1>8, <1>10, <2>1, SoundAlike
<1>12. Append(c.out, m) \in Seq(Message)
  BY <1>5, <1>7, <1>8, AppendProperties
<1>13. Sound(d1, Known, flown)
  <2>1. d1 \in Client
    BY <1>2, <1>8, <1>12 DEF Client
  <2>2. /\ d1.acts = c.acts /\ d1.out = Append(c.out, m) /\ d1.route = c.route
        /\ d1.ghosts = c.ghosts /\ d1.view = c.view
    BY <1>8 DEF Client
  <2> HIDE DEF d1
  <2>3. Informed(d1, Known) /\ c.acts <= d1.acts
    BY <1>5, <1>8, <1>10, <2>2 DEF Informed
  <2> QED BY <1>7, <1>11, <2>1, <2>2, <2>3, SoundSaying
<1>14. Sound(d2, Known, flown)
  <2>1. d2 \in Client
    BY <1>2, <1>8 DEF Client
  <2>2. /\ d2.acts = c.acts /\ d2.out = c.out /\ d2.route = c.route
        /\ d2.ghosts = c.ghosts /\ d2.view = c.view
    BY <1>8 DEF Client
  <2> HIDE DEF d2
  <2>3. Informed(d2, Known) /\ c.acts <= d2.acts
    BY <1>5, <1>8, <1>10, <2>2 DEF Informed
  <2> QED BY <1>11, <2>1, <2>2, <2>3, SoundAlike
<1> HIDE DEF d1, d2
<1>15. CASE ok
  <2>1. Plays(d1)
    BY <1>4, <1>9, <1>15
  <2> QED BY <1>13, <2>1, PlaysKeeps
<1>16. CASE ~ok
  <2>1. Plays(d2)
    BY <1>4, <1>16
  <2> QED BY <1>14, <2>1, PlaysKeeps
<1> QED BY <1>15, <1>16

\* A plan is made of anchors, however the route goes.
LEMMA PlanOfAnchors ==
    ASSUME NEW from \in Anchors, NEW to \in {System[a] : a \in Anchors}
    PROVE  BuildRoutePlan(from, to) \in Seq(Anchors)
<1> DEFINE V == {p \in [at : Anchors \cup {Nowhere}, legs : Seq(Anchors)] : TRUE}
           base == [at |-> from, legs |-> <<>>]
           systems == {System[a] : a \in Anchors}
           route == RouteOf[<<System[from], to>>]
           n == Len(Tail(route))
<1>1. base \in V
  OBVIOUS
<1>2. ASSUME NEW p \in V, NEW next PROVE Hop(p, next) \in V
  <2> DEFINE g == IF p.at = Nowhere THEN Nowhere ELSE GateAnchorTowards(System[p.at], next)
             first == IF p.at = g THEN <<>> ELSE <<g>>
  <2>1. CASE g = Nowhere
    <3>1. Hop(p, next) = [at |-> Nowhere, legs |-> <<>>]
      BY <2>1 DEF Hop
    <3> QED BY <3>1
  <2>2. CASE g # Nowhere
    <3> DEFINE gates == {h \in DOMAIN Pair : System[h] = System[p.at] /\ System[Pair[h]] = next}
    <3>1. gates # {} /\ g = CHOOSE h \in gates : TRUE
      BY <2>2 DEF GateAnchorTowards
    <3>2. g \in DOMAIN Pair
      BY <3>1
    <3>3. g \in Anchors /\ Pair[g] \in Anchors
      BY <3>2, AnchorAssumption
    <3>4. Hop(p, next) = [at |-> Pair[g], legs |-> p.legs \o first \o <<Pair[g]>>]
      BY <2>2 DEF Hop
    <3> HIDE DEF g
    <3>5. first \in Seq(Anchors) /\ <<Pair[g]>> \in Seq(Anchors) /\ p.legs \in Seq(Anchors)
      BY <3>3
    <3> HIDE DEF first
    <3>6. p.legs \o first \in Seq(Anchors)
      BY <3>5, ConcatProperties
    <3>7. p.legs \o first \o <<Pair[g]>> \in Seq(Anchors)
      BY <3>5, <3>6, ConcatProperties
    <3> QED BY <3>3, <3>4, <3>7
  <2> QED BY <2>1, <2>2
<1>3. System[from] \in systems /\ to \in systems
  OBVIOUS
<1>4. route \in Seq(systems)
  BY <1>3, AnchorAssumption
<1> HIDE DEF V, base, route, systems
<1>5. CASE Len(route) < 2
  <2>1. BuildRoutePlan(from, to) = <<>>
    BY <1>5 DEF BuildRoutePlan, route
  <2> QED BY <2>1
<1>6. CASE ~(Len(route) < 2)
  <2>1. Tail(route) \in Seq(systems)
    BY <1>4, <1>6
  <2>2. n \in Nat /\ DOMAIN Tail(route) = 1..n
    BY <2>1
  <2> HIDE DEF n
  <2>3. Hops(base, Tail(route)) \in V
    BY <1>1, <1>2, <2>2, HopRun
  <2>4. BuildRoutePlan(from, to) = Hops(base, Tail(route)).legs
    BY <1>6 DEF BuildRoutePlan, route, base
  <2> QED BY <2>3, <2>4 DEF V
<1> QED BY <1>5, <1>6

\* SetRouteDestination: the new plan's number is new, so no leg is another of it.
LEMMA SetRouteDestinationKeeps ==
    ASSUME FeedInv, NEW to \in {System[a] : a \in Anchors},
           SetRouteDestination(to)
    PROVE  FeedInv'
<1> DEFINE a == Acted(client)
           legs == BuildRoutePlan(client.view.grid, to)
           r == [state |-> "Ready", legs |-> legs, hop |-> 1, seq |-> 0, plan |-> client.acts + 1]
           new == IF legs = <<>> THEN NoRoute ELSE r
           d == [a EXCEPT !.route = new]
<1>1. client.acts < MaxActs /\ Plays(d)
  BY DEF SetRouteDestination, MayAct
<1>2. /\ client \in Client /\ client.acts \in Nat /\ client.view.grid \in Anchors
      /\ MaxActs \in Nat /\ MaxSeq \in Nat /\ Sound(client, Known, flown)
  BY ClientFields, AnchorAssumption DEF FeedInv, Sound, Picture
<1>3. legs \in Seq(Anchors)
  BY <1>2, PlanOfAnchors
<1>4. Sound(a, Known, flown) /\ a.acts = client.acts + 1
  <2>1. a.acts = client.acts + 1
    BY <1>2 DEF Acted, Client
  <2> QED BY <1>1, <1>2, <2>1, ActedKeeps
<1> HIDE DEF a, legs
<1>5. r \in Route /\ (legs # <<>> => 1 <= Len(legs))
  BY <1>1, <1>2, <1>3 DEF Route
<1>6. NoRoute \in Route
  BY <1>2 DEF Route, NoRoute
<1>7. /\ new \in Route /\ new.seq = 0 /\ new.state # "Flying"
      /\ new.state = "Ready" => new.plan = client.acts + 1 /\ new.hop <= Len(new.legs)
      /\ new.plan <= client.acts + 1
  BY <1>2, <1>5, <1>6 DEF NoRoute
<1> HIDE DEF new
<1>8. a \in Client /\ Informed(a, Known)
  BY <1>4 DEF Sound
<1>9. d \in Client
  BY <1>7, <1>8 DEF Client
<1>10. /\ d.acts = client.acts + 1 /\ d.out = a.out /\ d.route = new /\ d.ghosts = a.ghosts
       /\ d.view = a.view
  BY <1>4, <1>8 DEF Client
<1>11. a.out = client.out
  BY <1>2 DEF Acted, Client, a
<1> HIDE DEF d
<1>12. Informed(d, Known)
  BY <1>8, <1>10 DEF Informed
<1>13. RouteStands(d)
  BY <1>7, <1>10 DEF RouteStands
<1>14. ASSUME NEW tag, Behind(tag, client) PROVE Behind(tag, d)
  <2>1. tag \in Nat \X Nat /\ tag[1] \in Nat /\ tag[1] <= client.acts
    BY <1>14 DEF Behind
  <2>2. tag[1] <= d.acts /\ tag[1] # client.acts + 1
    BY <1>2, <1>10, <2>1
  <2>3. ~(tag[1] = d.route.plan /\ d.route.state = "Ready") /\ d.route.state # "Flying"
    BY <1>7, <1>10, <2>2
  <2> QED BY <2>1, <2>2, <2>3 DEF Behind
<1>15. Sound(d, Known, flown)
  BY <1>2, <1>9, <1>10, <1>11, <1>12, <1>13, <1>14, SoundMoved
<1> QED BY <1>1, <1>15, PlaysKeeps

-----------------------------------------------------------------------------
(* The shard.                                                              *)

\* What the authority accepts, it does not take back.
LEMMA MoreAccepted ==
    ASSUME NEW acc, NEW more, acc \subseteq more, NEW fl, NEW c, Sound(c, acc, fl)
    PROVE  Sound(c, more, fl)
BY DEF Sound, Informed

\* The oldest message leaves the queue; if it is a leg, those behind it are later
\* legs, and those that went before it were earlier ones.
LEMMA Taking ==
    ASSUME NEW acc, NEW fl, fl \in Seq(Nat \X Nat), NEW c, Sound(c, acc, fl),
           c.out # <<>>
    PROVE  LET m == Head(c.out)
               d == [c EXCEPT !.out = Tail(@)]
           IN  /\ m \in Message /\ Sound(d, acc, fl)
               /\ IsLeg(m) => /\ m.tag \in Nat \X Nat
                              /\ \A i \in DOMAIN fl : Apart(fl[i], m.tag)
                              /\ Sound(d, acc, Append(fl, m.tag))
<1> DEFINE m == Head(c.out)
           d == [c EXCEPT !.out = Tail(@)]
           rest == Tail(c.out)
<1>1. c \in Client /\ c.out \in Seq(Message) /\ Len(c.out) \in Nat /\ Len(c.out) > 0
  <2>1. c \in Client /\ c.out \in Seq(Message)
    BY ClientFields DEF Sound
  <2> QED BY <2>1, EmptySeq
<1>2. 1 \in DOMAIN c.out /\ m = c.out[1] /\ m \in Message
  BY <1>1
<1>3. rest \in Seq(Message)
  BY <1>1
<1>4. \A i \in DOMAIN rest : i \in Nat /\ i + 1 \in DOMAIN c.out /\ rest[i] = c.out[i + 1] /\ 1 < i + 1
  BY <1>1
<1> HIDE DEF rest, m
<1>5. d = [c EXCEPT !.out = rest]
  BY DEF rest
<1>6. /\ d \in Client /\ d.out = rest /\ d.route = c.route /\ d.acts = c.acts
      /\ d.ghosts = c.ghosts /\ d.view = c.view
  BY <1>1, <1>3, <1>5 DEF Client
<1> HIDE DEF d
<1>7. RouteStands(d) /\ Informed(d, acc)
  BY <1>6 DEF Sound, RouteStands, Informed
<1>8. \A tag : Behind(tag, d) <=> Behind(tag, c)
  BY <1>6 DEF Behind
<1>9. LegsBehind(c) /\ FlownBehind(c, fl)
  BY DEF Sound
<1>10. LegsBehind(d)
  <2>1. \A i \in DOMAIN d.out : IsLeg(d.out[i]) => Behind(d.out[i].tag, d)
    BY <1>4, <1>6, <1>8, <1>9 DEF LegsBehind
  <2>2. ASSUME NEW i \in DOMAIN d.out, NEW j \in DOMAIN d.out, i < j, IsLeg(d.out[i]), IsLeg(d.out[j])
        PROVE  Apart(d.out[i].tag, d.out[j].tag)
    <3>1. i + 1 \in DOMAIN c.out /\ j + 1 \in DOMAIN c.out /\ i + 1 < j + 1
      BY <1>4, <1>6, <2>2
    <3>2. d.out[i] = c.out[i + 1] /\ d.out[j] = c.out[j + 1]
      BY <1>4, <1>6
    <3> QED BY <1>9, <2>2, <3>1, <3>2 DEF LegsBehind
  <2> QED BY <2>1, <2>2 DEF LegsBehind
<1>11. FlownBehind(d, fl)
  BY <1>4, <1>6, <1>8, <1>9 DEF FlownBehind
<1>12. Sound(d, acc, fl)
  BY <1>6, <1>7, <1>10, <1>11 DEF Sound
<1>13. ASSUME IsLeg(m)
       PROVE  /\ m.tag \in Nat \X Nat /\ \A i \in DOMAIN fl : Apart(fl[i], m.tag)
              /\ Sound(d, acc, Append(fl, m.tag))
  <2> DEFINE g == Append(fl, m.tag)
  <2>1. Behind(m.tag, c)
    BY <1>2, <1>9, <1>13 DEF LegsBehind
  <2>2. m.tag \in Nat \X Nat
    BY <2>1 DEF Behind
  <2>3. \A i \in DOMAIN fl : Apart(fl[i], m.tag)
    BY <1>2, <1>9, <1>13 DEF FlownBehind
  <2>4. \A i \in DOMAIN g : (i \in DOMAIN fl /\ g[i] = fl[i]) \/ g[i] = m.tag
    BY <2>2
  <2> HIDE DEF g
  <2>5. \A i \in DOMAIN g : Behind(g[i], d)
    BY <1>8, <1>9, <2>1, <2>4 DEF FlownBehind
  <2>6. ASSUME NEW i \in DOMAIN g, NEW j \in DOMAIN d.out, IsLeg(d.out[j])
        PROVE  Apart(g[i], d.out[j].tag)
    <3>1. j + 1 \in DOMAIN c.out /\ d.out[j] = c.out[j + 1] /\ 1 < j + 1
      BY <1>4, <1>6
    <3>2. CASE g[i] = m.tag
      BY <1>2, <1>9, <1>13, <2>6, <3>1, <3>2 DEF LegsBehind
    <3>3. CASE i \in DOMAIN fl /\ g[i] = fl[i]
      BY <1>9, <2>6, <3>1, <3>3 DEF FlownBehind
    <3> QED BY <2>4, <3>2, <3>3
  <2>7. FlownBehind(d, g)
    BY <2>5, <2>6 DEF FlownBehind
  <2>8. Sound(d, acc, g)
    BY <1>6, <1>7, <1>10, <2>7 DEF Sound
  <2> QED BY <2>2, <2>3, <2>8 DEF g
<1> QED BY <1>2, <1>12, <1>13 DEF m, d

\* The history grows by a leg that is later than those of its plan.
LEMMA FlownGrows ==
    ASSUME FlownSound, NEW tag \in Nat \X Nat, \A i \in DOMAIN flown : Apart(flown[i], tag)
    PROVE  LET g == Append(flown, tag)
           IN  g \in Seq(Nat \X Nat) /\ \A i, j \in DOMAIN g : i < j => Apart(g[i], g[j])
<1> DEFINE g == Append(flown, tag)
           n == Len(flown)
<1>1. flown \in Seq(Nat \X Nat) /\ n \in Nat /\ DOMAIN flown = 1..n
  BY DEF FlownSound
<1>2. g \in Seq(Nat \X Nat) /\ DOMAIN g = 1..(n + 1) /\ g[n + 1] = tag /\ \A i \in 1..n : g[i] = flown[i]
  BY <1>1
<1> HIDE DEF g, n
<1>3. ASSUME NEW i \in DOMAIN g, NEW j \in DOMAIN g, i < j PROVE Apart(g[i], g[j])
  <2>1. i \in 1..n
    BY <1>1, <1>2, <1>3
  <2>2. CASE j = n + 1
    BY <1>1, <1>2, <2>1, <2>2
  <2>3. CASE j \in 1..n
    BY <1>1, <1>2, <1>3, <2>1, <2>3 DEF FlownSound
  <2> QED BY <1>1, <1>2, <2>2, <2>3
<1> QED BY <1>2, <1>3 DEF g

\* One more answer, which promises nothing that was not accepted.
LEMMA AnswerAdded ==
    ASSUME AnswersSound, accepted \subseteq accepted', NEW m \in Answer,
           m.type = "ack" /\ m.ok => m.seq \in accepted', answers' = Append(answers, m)
    PROVE  AnswersSound'
<1> DEFINE n == Len(answers)
<1>1. answers \in Seq(Answer) /\ n \in Nat /\ DOMAIN answers = 1..n
  BY DEF AnswersSound
<1>2. /\ answers' \in Seq(Answer) /\ DOMAIN (answers') = 1..(n + 1) /\ answers'[n + 1] = m
      /\ \A i \in 1..n : answers'[i] = answers[i]
  BY <1>1
<1> HIDE DEF n
<1>3. ASSUME NEW i \in DOMAIN (answers'), answers'[i].type = "ack", answers'[i].ok
      PROVE  answers'[i].seq \in accepted'
  <2>1. CASE i = n + 1
    BY <1>2, <1>3, <2>1
  <2>2. CASE i \in 1..n
    <3>1. answers'[i] = answers[i] /\ i \in DOMAIN answers
      BY <1>1, <1>2, <2>2
    <3> QED BY <1>3, <3>1 DEF AnswersSound
  <2> QED BY <1>1, <1>2, <2>1, <2>2
<1> QED BY <1>2, <1>3 DEF AnswersSound

\* ApplyOrder: an accepted leg joins the history, an accepted order the records.
LEMMA ApplyOrderKeeps == ASSUME FeedInv, ApplyOrder PROVE FeedInv'
<1> DEFINE m == Head(client.out)
           d == [client EXCEPT !.out = Tail(@)]
           ack == [type |-> "ack", seq |-> m.seq, ok |-> Accepts(m)]
<1>1. Sound(client, Known, flown) /\ ShardSound /\ AnswersSound /\ FlownSound /\ flown \in Seq(Nat \X Nat)
  BY DEF FeedInv, FlownSound
<1>2. client.out # <<>> /\ m.type = "order" /\ client' = d /\ UNCHANGED <<fleet, others>> /\ answers' = Append(answers, ack)
  BY DEF ApplyOrder
<1>3. /\ m \in Message /\ Sound(d, Known, flown)
      /\ IsLeg(m) => /\ m.tag \in Nat \X Nat /\ \A i \in DOMAIN flown : Apart(flown[i], m.tag)
                     /\ Sound(d, Known, Append(flown, m.tag))
  BY <1>1, <1>2, Taking
<1>4. \/ /\ Accepts(m)
         /\ order' = [seq |-> m.seq, dest |-> m.dest, done |-> FALSE]
         /\ session' = [session EXCEPT !.last = IF m.seq > @ THEN m.seq ELSE @]
         /\ accepted' = accepted \cup {m.seq}
         /\ flown' = IF m.tag[1] = 0 THEN flown ELSE Append(flown, m.tag)
      \/ ~Accepts(m) /\ UNCHANGED <<order, session, accepted, flown>>
  BY DEF ApplyOrder
<1> HIDE DEF m, d
<1>5. m.seq \in Seqs /\ m.dest \in Anchors \cup {Nowhere}
  BY <1>2, <1>3 DEF Message
<1>6. Accepts(m) \in BOOLEAN
  BY DEF Accepts
<1>7. ack \in Answer /\ ack.seq = m.seq /\ ack.ok = Accepts(m)
  BY <1>5, <1>6 DEF Answer
<1> HIDE DEF ack
<1>8. CASE /\ Accepts(m)
           /\ order' = [seq |-> m.seq, dest |-> m.dest, done |-> FALSE]
           /\ session' = [session EXCEPT !.last = IF m.seq > @ THEN m.seq ELSE @]
           /\ accepted' = accepted \cup {m.seq}
           /\ flown' = IF m.tag[1] = 0 THEN flown ELSE Append(flown, m.tag)
  <2>1. ShardSound'
    <3>1. accepted' \subseteq Seqs /\ m.seq \in 0..MaxSeq /\ m.seq \in accepted'
      BY <1>1, <1>5, <1>8, AnchorAssumption DEF ShardSound, Seqs
    <3>2. order' \in [seq : 0..MaxSeq, dest : Anchors \cup {Nowhere}, done : BOOLEAN] /\ order'.seq = m.seq
      BY <1>5, <1>8, <3>1
    <3>3. session' \in [grid : Anchors, last : 0..MaxSeq]
      BY <1>1, <1>8, <3>1 DEF ShardSound
    <3>4. \A seq \in accepted' : seq <= session'.last
      <4>1. session.last \in Nat /\ m.seq \in Nat /\ \A seq \in accepted : seq \in Nat /\ seq <= session.last
        <5>1. MaxSeq \in Nat /\ session.last \in 0..MaxSeq /\ accepted \subseteq Seqs
          BY <1>1, AnchorAssumption DEF ShardSound
        <5>2. \A seq \in accepted : seq <= session.last
          BY <1>1 DEF ShardSound
        <5>3. m.seq \in 1..MaxSeq /\ accepted \subseteq 1..MaxSeq
          BY <1>5, <5>1 DEF Seqs
        <5>4. 0..MaxSeq \subseteq Nat /\ 1..MaxSeq \subseteq Nat
          BY <5>1
        <5> QED BY <5>1, <5>2, <5>3, <5>4
      <4>2. session'.last = IF m.seq > session.last THEN m.seq ELSE session.last
        BY <1>1, <1>8 DEF ShardSound
      <4> QED BY <1>8, <4>1, <4>2
    <3> QED BY <1>1, <1>2, <3>1, <3>2, <3>3, <3>4 DEF ShardSound
  <2>2. AnswersSound'
    BY <1>1, <1>2, <1>7, <1>8, AnswerAdded
  <2>3. Sound(client, Known, flown)' /\ FlownSound'
    <3>1. CASE m.tag[1] = 0
      <4>1. Sound(d, Known', flown')
        BY <1>2, <1>3, <1>8, <3>1, KnownGrows, MoreAccepted
      <4> QED BY <1>1, <1>2, <1>8, <3>1, <4>1, FlownUnchanged
    <3>2. CASE m.tag[1] # 0
      <4>1. IsLeg(m) /\ flown' = Append(flown, m.tag)
        BY <1>2, <1>8, <3>2 DEF IsLeg
      <4>2. Sound(d, Known, flown')
        BY <1>3, <4>1
      <4>3. Sound(d, Known', flown')
        BY <1>2, <1>8, <4>2, KnownGrows, MoreAccepted
      <4>4. flown' \in Seq(Nat \X Nat) /\ \A i, j \in DOMAIN (flown') : i < j => Apart(flown'[i], flown'[j])
        BY <1>1, <1>3, <4>1, FlownGrows
      <4> QED BY <1>2, <4>3, <4>4 DEF FlownSound
    <3> QED BY <3>1, <3>2
  <2> QED BY <2>1, <2>2, <2>3 DEF FeedInv
<1>9. CASE ~Accepts(m) /\ UNCHANGED <<order, session, accepted, flown>>
  <2>1. Sound(client, Known, flown)'
    BY <1>2, <1>3, <1>9, KnownUnchanged
  <2>2. AnswersSound'
    BY <1>1, <1>2, <1>7, <1>9, AnswerAdded
  <2> QED BY <1>1, <1>2, <1>9, <2>1, <2>2, ShardUnchanged, FlownUnchanged DEF FeedInv
<1> QED BY <1>4, <1>8, <1>9

LEMMA ApplyViewRequestKeeps ==
    ASSUME FeedInv, ApplyViewRequest PROVE FeedInv'
<1> DEFINE m == Head(client.out)
           d == [client EXCEPT !.out = Tail(@)]
           granted == fleet.at = m.grid
           grant == [type |-> "view", grid |-> m.grid, ok |-> granted]
<1>1. Sound(client, Known, flown) /\ ShardSound /\ AnswersSound /\ FlownSound /\ flown \in Seq(Nat \X Nat)
  BY DEF FeedInv, FlownSound
<1>2. /\ client.out # <<>> /\ m.type = "view" /\ client' = d /\ answers' = Append(answers, grant)
      /\ session' = [session EXCEPT !.grid = IF granted THEN m.grid ELSE @]
      /\ UNCHANGED <<fleet, order, others, accepted, flown>>
  BY DEF ApplyViewRequest
<1>3. m \in Message /\ Sound(d, Known, flown)
  BY <1>1, <1>2, Taking
<1> HIDE DEF m, d
<1>4. m.grid \in Anchors
  BY <1>2, <1>3 DEF Message
<1>5. grant \in Answer /\ grant.type = "view"
  BY <1>4 DEF Answer
<1> HIDE DEF grant
<1>6. Sound(client, Known, flown)'
  BY <1>2, <1>3, KnownUnchanged
<1>7. AnswersSound'
  BY <1>1, <1>2, <1>5, AnswerAdded
<1>8. session' \in [grid : Anchors, last : 0..MaxSeq] /\ session'.last = session.last
  BY <1>1, <1>2, <1>4 DEF ShardSound
<1>9. ShardSound'
  BY <1>1, <1>2, <1>8 DEF ShardSound
<1> QED BY <1>1, <1>2, <1>6, <1>7, <1>9, FlownUnchanged DEF FeedInv

\* The fleet's own steps.
LEMMA FleetKeeps ==
    ASSUME FeedInv, MoveEnds \/ FleetDeparts \/ FleetArrives PROVE FeedInv'
<1>1. UNCHANGED <<client, others, answers, accepted, flown, session>>
  BY DEF MoveEnds, FleetDeparts, FleetArrives
<1>2. Sound(client, Known, flown) /\ ShardSound /\ AnswersSound /\ FlownSound /\ MaxSeq \in Nat
  BY AnchorAssumption DEF FeedInv
<1>3. Sound(client, Known, flown)'
  BY <1>1, <1>2, KnownUnchanged
<1>4. NoOrder \in [seq : 0..MaxSeq, dest : Anchors \cup {Nowhere}, done : BOOLEAN]
  BY <1>2 DEF NoOrder
<1>5. /\ fleet' \in [at : Anchors, to : Anchors \cup {Nowhere}]
      /\ order' \in [seq : 0..MaxSeq, dest : Anchors \cup {Nowhere}, done : BOOLEAN]
      /\ order' # NoOrder => order'.seq \in accepted
  <2>1. CASE MoveEnds
    BY <1>2, <1>4, <2>1 DEF MoveEnds, ShardSound
  <2>2. CASE FleetDeparts
    BY <1>2, <1>4, <2>2 DEF FleetDeparts, ShardSound
  <2>3. CASE FleetArrives
    BY <1>2, <2>3 DEF FleetArrives, Crossing, ShardSound
  <2> QED BY <2>1, <2>2, <2>3
<1>6. ShardSound'
  BY <1>1, <1>2, <1>5 DEF ShardSound
<1> QED BY <1>1, <1>2, <1>3, <1>6, FlownUnchanged, AnswersUnchanged DEF FeedInv

\* An order of another commander's: what was given stays given.
LEMMA OthersKeep == ASSUME FeedInv, Others PROVE FeedInv'
<1>1. PICK s \in Strangers : OtherOrders(s) \/ OtherArrives(s) \/ OtherLeaves(s)
  BY DEF Others
<1>2. PICK to \in {"running", "done", "gone"} :
        others' = [others EXCEPT ![s] = to] /\ UNCHANGED <<client, fleet, order, session, answers, accepted, flown>>
  BY <1>1 DEF OtherOrders, OtherArrives, OtherLeaves, OtherStands
<1>3. Sound(client, Known, flown) /\ ShardSound /\ AnswersSound /\ FlownSound
  BY DEF FeedInv
<1>4. others \in [Strangers -> Standing]
  BY <1>3 DEF ShardSound
<1>5. Known \subseteq Known'
  <2> SUFFICES ASSUME NEW t \in Strangers, others[t] # "unborn" PROVE others'[t] # "unborn"
    BY <1>2 DEF Known, GivenByOthers
  <2> QED BY <1>2, <1>4
<1>6. Sound(client, Known, flown)'
  BY <1>2, <1>3, <1>5, MoreAccepted
<1>7. others' \in [Strangers -> Standing]
  BY <1>2, <1>4 DEF Standing
<1>8. ShardSound'
  BY <1>2, <1>3, <1>7 DEF ShardSound
<1> QED BY <1>2, <1>3, <1>6, <1>8, FlownUnchanged, AnswersUnchanged DEF FeedInv

-----------------------------------------------------------------------------
(* The specification.                                                      *)

LEMMA FeedInitHolds == ASSUME FeedInit PROVE FeedInv
<1>1. /\ fleet = [at |-> Start, to |-> Nowhere] /\ order = NoOrder
      /\ others = [s \in Strangers |-> "unborn"]
      /\ session = [grid |-> Start, last |-> 0]
      /\ answers = <<>> /\ accepted = {} /\ flown = <<>>
      /\ MaxSeq \in Nat /\ MaxActs \in Nat /\ Start \in Anchors
  BY AnchorAssumption DEF FeedInit
<1>2. ShardSound /\ AnswersSound /\ FlownSound
  BY <1>1 DEF ShardSound, AnswersSound, FlownSound, NoOrder, Standing
<1>3. /\ Snapshot \in Picture /\ \A o \in Snapshot.orders : o.seq \in Known
      /\ Summary \in [anchor : Anchors, crossing : BOOLEAN]
  BY <1>2, SnapshotInformed, SummaryIs
<1>4. NoRoute \in Route
  BY <1>1 DEF NoRoute, Route
<1>5. client = [nextSeq |-> 1, acts |-> 0, out |-> <<>>,
                view |-> Snapshot, trail |-> TRUE, scene |-> TRUE, block |-> Summary,
                requested |-> Nowhere, refused |-> Nowhere, settling |-> FALSE,
                pinned |-> FALSE, ghosts |-> {}, route |-> NoRoute]
  BY DEF FeedInit
<1>6. 1 \in 1..MaxSeq + 1 /\ 0 \in 0..MaxActs
  BY <1>1
<1>7. client \in Client
  BY <1>3, <1>4, <1>5, <1>6 DEF Client
<1>8. client.route = NoRoute /\ client.out = <<>> /\ client.acts = 0 /\ client.ghosts = {}
      /\ client.view = Snapshot
  BY <1>5
<1>9. RouteStands(client)
  BY <1>8 DEF RouteStands, NoRoute
<1>10. Informed(client, Known) /\ LegsBehind(client) /\ FlownBehind(client, flown)
  BY <1>1, <1>3, <1>8 DEF Informed, LegsBehind, FlownBehind
<1> QED BY <1>2, <1>7, <1>9, <1>10 DEF FeedInv, Sound

LEMMA FeedNextKeeps == ASSUME FeedInv, [FeedNext]_feedVars PROVE FeedInv'
<1>1. CASE Frames
  <2>1. PICK hears, framed, timers \in BOOLEAN, shown \in Shown :
          Frame(hears, framed, framed, timers, shown, timers)
    BY <1>1 DEF Frames
  <2> QED BY <2>1, FrameKeeps
<1>2. CASE Player
  BY <1>2, CommitOrderKeeps, SetRouteDestinationKeeps, RequestViewKeeps, TogglePinKeeps DEF Player
<1>3. CASE Shard
  BY <1>3, ApplyOrderKeeps, ApplyViewRequestKeeps, FleetKeeps, OthersKeep DEF Shard
<1>4. CASE UNCHANGED feedVars
  <2>1. UNCHANGED <<client, fleet, order, others, session, answers, accepted, flown>>
    BY <1>4 DEF feedVars
  <2>2. Sound(client, Known, flown)'
    BY <2>1, KnownUnchanged DEF FeedInv
  <2> QED BY <2>1, <2>2, ShardUnchanged, FlownUnchanged, AnswersUnchanged DEF FeedInv
<1> QED BY <1>1, <1>2, <1>3, <1>4 DEF FeedNext

LEMMA AlwaysFeedInv == FeedSpec => []FeedInv
<1>1. FeedInit => FeedInv
  BY FeedInitHolds
<1>2. FeedInv /\ [FeedNext]_feedVars => FeedInv'
  BY FeedNextKeeps
<1> QED BY <1>1, <1>2, PTL DEF FeedSpec

\* The client's record, the messages on the wire and the shard's side of them are
\* well formed, a plan waits for a number exactly while it flies, and one that is
\* ready has a leg to feed.
THEOREM FeedTyped == FeedSpec => []FeedTypeOK
<1>1. FeedInv => FeedTypeOK
  BY DEF FeedInv, Sound, RouteStands, ShardSound, AnswersSound, FlownSound, FeedTypeOK
<1>2. FeedSpec => []FeedInv
  BY AlwaysFeedInv
<1> QED BY <1>1, <1>2, PTL

\* The legs of a plan reach the authority in their order, none of them twice, for
\* any universe and any routes, whatever the player and the network do.
THEOREM RouteLegsInOrder == FeedSpec => []LegsInOrder
<1>1. FeedInv => LegsInOrder
  BY DEF FeedInv, FlownSound, Apart, LegsInOrder
<1>2. FeedSpec => []FeedInv
  BY AlwaysFeedInv
<1> QED BY <1>1, <1>2, PTL

\* A ghost under way stands for an order the authority accepted from this commander,
\* or for one that another commander gave under the same number on some grid: the
\* client cannot tell the two apart, and is misled by nothing else.
THEOREM GhostsPromise == FeedSpec => []PromotedMeansAnOrder
<1>1. FeedInv => PromotedMeansAnOrder
  BY DEF FeedInv, Sound, Informed, Known, PromotedMeansAnOrder
<1>2. FeedSpec => []FeedInv
  BY AlwaysFeedInv
<1> QED BY <1>1, <1>2, PTL

-----------------------------------------------------------------------------
(* What a frame does to a leg the plan waits for.                          *)

\* The snapshot shows a running order with this number, the fleet's or another's.
ShownRunning(seq) ==
    \/ FleetIsThere /\ order.seq = seq /\ ~order.done
    \/ \E s \in Listed : s[2] = seq /\ others[s] = "running"

\* A frame that has a snapshot waits on for an accepted leg only if the snapshot
\* shows an order of its number running.
WaitsForTheRunning ==
    [][\A hears, summed, late, settled \in BOOLEAN, shown \in Shown :
         /\ Frame(hears, TRUE, summed, late, shown, settled)
         /\ client.route.state = "Flying" /\ client.route.seq \in accepted
         /\ client'.route.hop = client.route.hop
         => ShownRunning(client.route.seq)]_feedVars

\* Up to NoteFeedback a frame changes neither the route nor the picture it took.
RouteAndView(c, r, v) == c \in Client /\ c.route = r /\ c.view = v

LEMMA TakeViewChangesHold ==
    ASSUME NEW c, NEW r, NEW v, RouteAndView(c, r, v),
           NEW heard, heard \in Seq(Answer)
    PROVE  RouteAndView(TakeViewChanges(c, heard), r, v)
<1> DEFINE V == {x \in Client : x.route = r /\ x.view = v}
           n == Len(heard)
<1>1. n \in Nat /\ DOMAIN heard = 1..n /\ \A k \in 1..n : heard[k] \in Answer
  OBVIOUS
<1>2. c \in V
  BY DEF RouteAndView
<1>3. ASSUME NEW x \in V, NEW m \in Answer PROVE TakeViewChange(x, m) \in V
  <2> DEFINE d == TakeViewChange(x, m)
  <2>1. m.type = "view" => m.grid \in Anchors
    BY DEF Answer
  <2>2. d \in Client
    BY <2>1 DEF TakeViewChange, Client
  <2>3. d.route = x.route /\ d.view = x.view
    BY DEF TakeViewChange, Client
  <2> QED BY <2>2, <2>3
<1> HIDE DEF V, n
<1>4. TakeViewChanges(c, heard) \in V
  BY <1>1, <1>2, <1>3, ViewRun
<1> QED BY <1>4 DEF V, RouteAndView

LEMMA OnVerdictsHold ==
    ASSUME NEW c, NEW r, NEW v, RouteAndView(c, r, v),
           NEW heard, heard \in Seq(Answer)
    PROVE  RouteAndView(OnVerdicts(c, heard), r, v)
<1> DEFINE V == {x \in Client : x.route = r /\ x.view = v}
           n == Len(heard)
<1>1. n \in Nat /\ DOMAIN heard = 1..n /\ \A k \in 1..n : heard[k] \in Answer
  OBVIOUS
<1>2. c \in V
  BY DEF RouteAndView
<1>3. ASSUME NEW x \in V, NEW m \in Answer PROVE OnVerdict(x, m) \in V
  <2> DEFINE Judged(g) == IF g.seq # m.seq \/ g.state = "Rejected" THEN g
                          ELSE [g EXCEPT !.state = IF m.ok THEN "UnderWay" ELSE "Rejected"]
             gs == {Judged(g) : g \in x.ghosts}
             d == OnVerdict(x, m)
  <2>1. x \in Client /\ x.ghosts \subseteq Ghost
    BY ClientFields
  <2>2. \A g \in Ghost : Judged(g) \in Ghost
    BY DEF Ghost
  <2>3. d = x \/ d = [x EXCEPT !.ghosts = gs]
    BY DEF OnVerdict
  <2> HIDE DEF Judged, d
  <2>4. gs \in SUBSET Ghost
    BY <2>1, <2>2
  <2> HIDE DEF gs
  <2>5. d \in Client /\ d.route = x.route /\ d.view = x.view
    BY <2>1, <2>3, <2>4 DEF Client
  <2> QED BY <2>5 DEF d
<1> HIDE DEF V, n
<1>4. OnVerdicts(c, heard) \in V
  BY <1>1, <1>2, <1>3, VerdictRun
<1> QED BY <1>4 DEF V, RouteAndView

LEMMA BetweenHold ==
    ASSUME NEW c, NEW r, NEW v, RouteAndView(c, r, v), NEW late
    PROVE  /\ AdvanceAutoFollow(c).route = r /\ AdvanceAutoFollow(c).view = v
           /\ Advance(OnFeedback(c), late).route = r
           /\ Advance(OnFeedback(c), late).view = v
<1>1. c \in Client /\ c.route = r /\ c.view = v
  BY DEF RouteAndView
<1>2. AdvanceAutoFollow(c).route = r /\ AdvanceAutoFollow(c).view = v
  BY <1>1 DEF AdvanceAutoFollow, Client
<1> DEFINE gs == {IF g.state = "Rejected" THEN g
                  ELSE IF Reports(c, g.seq) # {} THEN [g EXCEPT !.state = "UnderWay"]
                  ELSE [g EXCEPT !.due = @ \/ Decided(c, g.seq)] :
                  g \in c.ghosts \ {g \in c.ghosts : g.state # "Rejected" /\
                     (Finished(c, g.seq) \/ (g.state = "UnderWay" /\ Decided(c, g.seq)))}}
           d == OnFeedback(c)
<1>3. d = [c EXCEPT !.ghosts = gs]
  BY DEF OnFeedback
<1> HIDE DEF gs, d
<1>4. /\ d.route = r /\ d.view = v
      /\ Advance(d, late) = d \/ \E left : Advance(d, late) = [c EXCEPT !.ghosts = left]
  BY <1>1, <1>3 DEF Client, Advance
<1>5. Advance(d, late).route = r /\ Advance(d, late).view = v
  BY <1>1, <1>4 DEF Client
<1> QED BY <1>2, <1>5 DEF d

\* The plan's hop is the sign that it let go.
LEMMA HopPassed ==
    ASSUME NEW c \in Client, c.route.state = "Flying", LegOver(c),
           NEW shown, NEW settled
    PROVE  ExtractScene(FeedRoutePlan(NoteFeedback(c)), shown, settled).route.hop
             = c.route.hop + 1
<1> DEFINE r == [c.route EXCEPT !.hop = @ + 1, !.seq = 0,
                     !.state = IF c.route.hop < Len(c.route.legs) THEN "Ready" ELSE "None"]
           e == NoteFeedback(c)
           f == FeedRoutePlan(e)
           hop == c.route.hop + 1
<1>1. c.route \in Route
  BY DEF Client
<1>2. r.hop = hop /\ "hop" \in DOMAIN r /\ "state" \in DOMAIN r /\ "seq" \in DOMAIN r
  BY <1>1 DEF Route
<1>3. e = [c EXCEPT !.route = r]
  BY DEF NoteFeedback
<1> HIDE DEF r, hop, e
<1>4. e.route = r /\ {"route", "nextSeq", "out", "scene", "settling"} \subseteq DOMAIN e
  BY <1>3 DEF Client
<1>5. /\ f.route.hop = hop
      /\ "route" \in DOMAIN f /\ "scene" \in DOMAIN f /\ "settling" \in DOMAIN f
  <2>1. CASE f = e
    BY <1>2, <1>4, <2>1
  <2>2. ASSUME NEW q, f = [e EXCEPT !.route = [e.route EXCEPT !.state = q]] PROVE <1>5!:
    BY <1>2, <1>4, <2>2
  <2>3. ASSUME NEW m, f = NoteSent([e EXCEPT !.nextSeq = @ + 1, !.out = Append(@, m)], e.nextSeq)
        PROVE  <1>5!:
    <3> DEFINE s == [e EXCEPT !.nextSeq = @ + 1, !.out = Append(@, m)]
    <3>1. s.route = r /\ {"route", "scene", "settling"} \subseteq DOMAIN s
      BY <1>4
    <3> HIDE DEF s
    <3>2. f = [s EXCEPT !.route = [s.route EXCEPT !.seq = e.nextSeq, !.state = "Flying"]]
      BY <2>3 DEF s, NoteSent
    <3> QED BY <1>2, <3>1, <3>2
  <2> QED BY <2>1, <2>2, <2>3 DEF FeedRoutePlan, SendOrder
<1> HIDE DEF f
<1>6. ExtractScene(f, shown, settled).route = f.route
  BY <1>5 DEF ExtractScene
<1> QED BY <1>5, <1>6 DEF f, e, hop

LEMMA FrameWaits ==
    ASSUME FeedInv, NEW hears \in BOOLEAN, NEW summed \in BOOLEAN,
           NEW late \in BOOLEAN, NEW shown, NEW settled \in BOOLEAN,
           Frame(hears, TRUE, summed, late, shown, settled),
           client.route.state = "Flying", client.route.seq \in accepted,
           client'.route.hop = client.route.hop
    PROVE  ShownRunning(client.route.seq)
<1> DEFINE heard == IF hears THEN answers ELSE <<>>
           r == client.route
           v == Snapshot
           c1 == ApplyFrame(client)
           c2 == IF summed THEN [c1 EXCEPT !.block = Summary] ELSE c1
           c3 == TakeViewChanges(c2, heard)
           c4 == AdvanceAutoFollow(c3)
           c5 == OnVerdicts(c4, heard)
           c7 == Advance(OnFeedback(c5), late)
           c9 == ExtractScene(FeedRoutePlan(NoteFeedback(c7)), shown, settled)
<1>1. client' = c9
  <2>1. client' = AfterFrame(heard, TRUE, summed, late, shown, settled)
    BY DEF Frame
  <2>2. c3 = PollNetwork(client, heard, TRUE, summed)
    BY DEF PollNetwork
  <2> HIDE DEF c3
  <2> QED BY <2>1, <2>2 DEF AfterFrame, UpdateOrders
<1>2. Sound(client, Known, flown) /\ ShardSound /\ AnswersSound
  BY DEF FeedInv
<1>3. heard \in Seq(Answer) /\ Hearable(heard, Known)
  BY <1>2 DEF AnswersSound, Hearable, Heard, Known
<1> HIDE DEF heard
<1>4. Sound(c1, Known, flown) /\ c1.route = r /\ c1.view = v
  <2>1. client \in Client
    BY <1>2 DEF Sound
  <2>2. c1.route = r /\ c1.view = v
    BY <2>1 DEF ApplyFrame, Client
  <2> QED BY <1>2, <2>2, ApplyFrameKeeps
<1> HIDE DEF c1, r, v
<1>5. Sound(c2, Known, flown) /\ RouteAndView(c2, r, v)
  <2>1. Sound(c2, Known, flown)
    BY <1>2, <1>4, SummedKeeps
  <2>2. c1 \in Client
    BY <1>4 DEF Sound
  <2>3. c2.route = r /\ c2.view = v
    BY <1>4, <2>2 DEF Client
  <2> QED BY <2>1, <2>3 DEF RouteAndView, Sound
<1> HIDE DEF c2
<1>6. Sound(c3, Known, flown) /\ RouteAndView(c3, r, v)
  BY <1>3, <1>5, ViewsKeep, TakeViewChangesHold
<1> HIDE DEF c3
<1>7. Sound(c4, Known, flown) /\ RouteAndView(c4, r, v)
  <2>1. Sound(c4, Known, flown)
    BY <1>6, AdvanceAutoFollowKeeps
  <2>2. c4.route = r /\ c4.view = v
    BY <1>6, BetweenHold
  <2> HIDE DEF c4
  <2> QED BY <2>1, <2>2 DEF RouteAndView, Sound
<1> HIDE DEF c4
<1>8. Sound(c5, Known, flown) /\ RouteAndView(c5, r, v)
  BY <1>3, <1>7, VerdictsKeep, OnVerdictsHold
<1> HIDE DEF c5
<1>9. c7 \in Client /\ c7.route = r /\ c7.view = v
  <2>1. Sound(c7, Known, flown)
    <3>1. Sound(OnFeedback(c5), Known, flown)
      BY <1>8, OnFeedbackKeeps
    <3> QED BY <3>1, AdvanceKeeps
  <2>2. c7.route = r /\ c7.view = v
    BY <1>8, BetweenHold
  <2> HIDE DEF c7
  <2> QED BY <2>1, <2>2 DEF Sound
<1> HIDE DEF c7
<1>10. ~LegOver(c7)
  <2> SUFFICES ASSUME LegOver(c7) PROVE FALSE
    OBVIOUS
  <2>1. c7.route.state = "Flying" /\ c9.route.hop = c7.route.hop
    BY <1>1, <1>9 DEF r
  <2>2. c9.route.hop = c7.route.hop + 1
    BY <1>9, <2>1, HopPassed
  <2>3. c7.route.hop \in Nat
    BY <1>9, RouteFields
  <2> HIDE DEF c9
  <2> QED BY <2>1, <2>2, <2>3
<1>11. r.seq \in accepted /\ r.seq <= session.last
  BY <1>2 DEF r, ShardSound
<1>12. \E o \in Reports(c7, r.seq) : ~o.finished
  <2>1. v.last = session.last
    BY DEF v, Snapshot
  <2> QED BY <1>9, <1>10, <1>11, <2>1 DEF LegOver, Finished, Decided
<1>13. PICK o \in v.orders : o.seq = r.seq /\ ~o.finished
  BY <1>9, <1>12 DEF Reports
<1>14. o \in OwnRecords \cup OtherRecords
  BY <1>13 DEF v, Snapshot
<1>15. CASE o \in OwnRecords
  BY <1>13, <1>15 DEF r, OwnRecords, ShownRunning
<1>16. CASE o \in OtherRecords
  <2>1. PICK s \in Listed : o = [seq |-> s[2], finished |-> others[s] = "done"]
    BY <1>16 DEF OtherRecords
  <2>2. others[s] = "running" /\ s[2] = r.seq
    BY <1>13, <2>1 DEF Listed
  <2> QED BY <2>2 DEF r, ShownRunning
<1> QED BY <1>14, <1>15, <1>16

\* A frame that has a snapshot lets go of every accepted leg whose number the snapshot
\* does not show running: what AcceptedLegsEnd asks of a frame, without its fairness.
THEOREM FrameLetsGo == FeedSpec => WaitsForTheRunning
<1>1. FeedInv /\ [FeedNext]_feedVars =>
        [\A hears, summed, late, settled \in BOOLEAN, shown \in Shown :
           /\ Frame(hears, TRUE, summed, late, shown, settled)
           /\ client.route.state = "Flying" /\ client.route.seq \in accepted
           /\ client'.route.hop = client.route.hop
           => ShownRunning(client.route.seq)]_feedVars
  <2> SUFFICES ASSUME FeedInv
      PROVE  \A hears, summed, late, settled \in BOOLEAN, shown \in Shown :
               /\ Frame(hears, TRUE, summed, late, shown, settled)
               /\ client.route.state = "Flying" /\ client.route.seq \in accepted
               /\ client'.route.hop = client.route.hop
               => ShownRunning(client.route.seq)
    OBVIOUS
  <2> TAKE hears, summed, late, settled \in BOOLEAN, shown \in Shown
  <2> HAVE /\ Frame(hears, TRUE, summed, late, shown, settled)
           /\ client.route.state = "Flying" /\ client.route.seq \in accepted
           /\ client'.route.hop = client.route.hop
  <2> QED BY FrameWaits
<1>2. FeedSpec => []FeedInv
  BY AlwaysFeedInv
<1> QED BY <1>1, <1>2, PTL DEF FeedSpec, WaitsForTheRunning
=============================================================================
