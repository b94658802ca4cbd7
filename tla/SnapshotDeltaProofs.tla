------------------------ MODULE SnapshotDeltaProofs ------------------------
(* Proofs about module SnapshotDelta: for any world, any rings and budgets   *)
(* and any loss and reordering of datagrams, an acknowledged view is the     *)
(* same at both ends and shows the grid, as long as no departure is left     *)
(* owed, which none is if part zero has room for all of them.                *)
EXTENDS SnapshotDelta, FiniteSetTheorems, SequenceTheorems, TLAPS

Flying(t) == {d \in parts : d.tick = t}
Indices(t) == {d.index : d \in Flying(t)}
Named(t, s) == \E d \in Flying(t) : s \in DOMAIN d.records \/ s \in d.left
Same(f, g, s) == (s \in DOMAIN f <=> s \in DOMAIN g) /\ (s \in DOMAIN f => f[s] = g[s])

\* Nothing that is still under way says more about tick t.
Settled(t) == (\A d \in parts : d.tick # t) /\ (\A i \in 1..Len(bulk) : bulk[i].tick # t)

Clocked ==
    /\ \A d \in parts : d.tick <= tick /\ d.base <= tick
    /\ \A i \in 1..Len(bulk) : bulk[i].tick <= tick
    /\ \A a \in acks : a.tick <= tick
    /\ \A i \in Slots : sent[i].tick <= tick
    /\ acked <= tick /\ newest <= tick

\* The datagrams: a tick is a keyframe or a set of numbered parts, and what
\* has been acknowledged, and so may be a base, is complete.
InTransit ==
    /\ \A d, e \in parts : d.tick = e.tick =>
         d.count = e.count /\ d.base = e.base /\ (d.index = e.index => d = e)
    /\ \A d \in parts : d.index < d.count
    /\ \A d \in parts : Settled(d.base)
    /\ \A a \in acks : Settled(a.tick)
    /\ Settled(acked)
    /\ \A d \in parts : \A i \in 1..Len(bulk) : bulk[i].tick # d.tick
    /\ \A i, k \in 1..Len(bulk) : bulk[i].tick = bulk[k].tick => i = k

\* What they say is what the sender's ring says.
Truthful ==
    /\ \A i \in 1..Len(bulk) : Holds(sent, bulk[i].tick) => ViewAt(sent, bulk[i].tick) = bulk[i].view
    /\ \A d \in parts : Holds(sent, d.tick) =>
         /\ \A s \in DOMAIN d.records :
              s \in DOMAIN ViewAt(sent, d.tick) /\ ViewAt(sent, d.tick)[s] = d.records[s]
         /\ \A s \in d.left : s \notin DOMAIN ViewAt(sent, d.tick)

\* All the parts of a tick together make its view out of its base.
Encoded ==
    \A d \in parts :
        Holds(sent, d.tick) /\ holding = grid /\ Holds(held, d.base)
          /\ Cardinality(Indices(d.tick)) >= d.count =>
            \A s \in Ships :
                Same(ViewAt(held, d.base), ViewAt(sent, d.tick), s) \/ Named(d.tick, s)

\* The tick being assembled: what is still to come makes it whole, if it all comes.
Assembling ==
    /\ newest > 0 => Holds(held, newest)
    /\ \A d \in Flying(newest) : d.index \notin seen /\ seen \subseteq 0..d.count - 1
    /\ \A d \in Flying(newest) :
         Holds(sent, newest) /\ holding = grid
           /\ Cardinality(seen \cup Indices(newest)) >= d.count =>
             \A s \in Ships :
                 Same(ViewAt(held, newest), ViewAt(sent, newest), s) \/ Named(newest, s)

\* The sender's ring is about the grid as it was.
SentShows ==
    \A i \in Slots : sent[i].tick > 0 =>
        /\ DOMAIN sent[i].view \subseteq DOMAIN sent[i].truth
        /\ \A s \in Owned \cap DOMAIN sent[i].truth :
             s \in DOMAIN sent[i].view /\ sent[i].view[s] = sent[i].truth[s]

IInv ==
    /\ TypeOK /\ pending = <<>> /\ Clocked /\ InTransit /\ Truthful /\ Encoded /\ Assembling
    /\ SentShows /\ ViewsAgree

-----------------------------------------------------------------------------
(* Views. *)

LEMMA ViewIs ==
    ASSUME NEW v
    PROVE  v \in Views <=> DOMAIN v \subseteq Ships /\ v \in [DOMAIN v -> States]
<1>1. ASSUME v \in Views PROVE DOMAIN v \subseteq Ships /\ v \in [DOMAIN v -> States]
  <2>1. PICK ids \in SUBSET Ships : v \in [ids -> States]
    BY <1>1 DEF Views
  <2> QED
    BY <2>1
<1>2. ASSUME DOMAIN v \subseteq Ships, v \in [DOMAIN v -> States] PROVE v \in Views
  BY <1>2 DEF Views
<1> QED
  BY <1>1, <1>2

LEMMA SameViews ==
    ASSUME NEW v \in Views, NEW w \in Views, \A s \in Ships : Same(v, w, s)
    PROVE  v = w
<1>1. /\ DOMAIN v \subseteq Ships /\ v \in [DOMAIN v -> States]
      /\ DOMAIN w \subseteq Ships /\ w \in [DOMAIN w -> States]
  BY ViewIs
<1>2. DOMAIN v = DOMAIN w /\ \A s \in DOMAIN v : v[s] = w[s]
  BY <1>1 DEF Same
<1> QED
  BY <1>1, <1>2

\* View u is view v without the ids, brought up to date with the records r.
IsUpdate(u, v, ids, r) ==
    /\ u \in Views
    /\ DOMAIN u = (DOMAIN v \ ids) \cup DOMAIN r
    /\ \A s \in DOMAIN r : u[s] = r[s]
    /\ \A s \in DOMAIN v : s \notin ids /\ s \notin DOMAIN r => u[s] = v[s]

LEMMA UpdatedIs ==
    ASSUME NEW v \in Views, NEW ids \in SUBSET Ships, NEW r \in Views
    PROVE  IsUpdate(Updated(Without(v, ids), r), v, ids, r)
<1> DEFINE w == Without(v, ids)
<1>1. /\ DOMAIN v \subseteq Ships /\ v \in [DOMAIN v -> States]
      /\ DOMAIN r \subseteq Ships /\ r \in [DOMAIN r -> States]
  BY ViewIs
<1>2. DOMAIN w = DOMAIN v \ ids /\ \A s \in DOMAIN w : w[s] = v[s]
  BY DEF Without, Restrict
<1> HIDE DEF w
<1> DEFINE u == Updated(w, r)
<1>3. /\ u = [s \in DOMAIN w \cup DOMAIN r |-> IF s \in DOMAIN r THEN r[s] ELSE w[s]]
  BY DEF Updated
<1>4. DOMAIN u = DOMAIN w \cup DOMAIN r /\ (\A s \in DOMAIN r : u[s] = r[s])
      /\ \A s \in DOMAIN w : s \notin DOMAIN r => u[s] = w[s]
  BY <1>3
<1>5. u \in [DOMAIN u -> States]
  <2>1. \A s \in DOMAIN u : u[s] \in States
    BY <1>1, <1>2, <1>4
  <2> QED
    BY <1>3, <1>4, <2>1
<1> HIDE DEF u
<1>6. u \in Views
  BY <1>1, <1>2, <1>4, <1>5, ViewIs
<1> QED
  BY <1>2, <1>4, <1>6 DEF u, w, IsUpdate

LEMMA TrueViewIs ==
    ASSUME TypeOK, NEW ids \in SUBSET Ships
    PROVE  /\ TrueView(ids) \in Views /\ DOMAIN TrueView(ids) = ids
           /\ \A s \in ids : TrueView(ids)[s] = world[s].state
<1>1. \A s \in ids : world[s].state \in States
  BY DEF TypeOK
<1>2. DOMAIN TrueView(ids) = ids /\ TrueView(ids) \in [ids -> States]
      /\ \A s \in ids : TrueView(ids)[s] = world[s].state
  BY <1>1 DEF TrueView
<1> QED
  BY <1>2, ViewIs

LEMMA EmptyIsView == EmptyView \in Views /\ DOMAIN EmptyView = {}
<1>1. DOMAIN EmptyView = {} /\ EmptyView \in [{} -> States]
  BY DEF EmptyView
<1> QED
  BY <1>1, ViewIs

LEMMA SlotIs == ASSUME NEW t \in Nat PROVE SlotOf(t) \in Slots
  BY DeltaAssumption DEF SlotOf, Slots

-----------------------------------------------------------------------------
(* Sequences of a set, and the parts they are cut into. *)

LEMMA MinMaxIs ==
    ASSUME NEW a \in Int, NEW b \in Int
    PROVE  /\ Min({a, b}) = IF a <= b THEN a ELSE b
           /\ Max({a, b}) = IF a >= b THEN a ELSE b
<1>1. Min({a, b}) = IF a <= b THEN a ELSE b
  BY DEF Min
<1>2. Max({a, b}) = IF a >= b THEN a ELSE b
  BY DEF Max
<1> QED
  BY <1>1, <1>2

LEMMA SetToSeqIs ==
    ASSUME NEW S, IsFiniteSet(S)
    PROVE  /\ SetToSeq(S) \in Seq(S) /\ Len(SetToSeq(S)) = Cardinality(S)
           /\ \A x \in S : \E i \in 1..Cardinality(S) : SetToSeq(S)[i] = x
<1> DEFINE n == Cardinality(S)
           q == SetToSeq(S)
<1>1. n \in Nat /\ ExistsBijection(1..n, S)
  BY FS_CardinalityType
<1>2. PICK f : f \in Bijection(1..n, S)
  BY <1>1 DEF ExistsBijection
<1>3. f \in [1..n -> S] /\ IsInjective(f)
  BY <1>2 DEF Bijection, Injection, IsInjective
<1>4. q \in [1..n -> S] /\ IsInjective(q)
  BY <1>3 DEF SetToSeq
<1> HIDE DEF q
<1>5. q \in Injection(1..n, S)
  BY <1>4 DEF Injection, IsInjective
<1>6. q \in Surjection(1..n, S)
  <2>1. IsFiniteSet(1..n) /\ Cardinality(1..n) = n
    <3> HIDE DEF n
    <3>1. 1 \in Int /\ n \in Int
      BY <1>1
    <3>2. Cardinality(1..n) = IF 1 > n THEN 0 ELSE n - 1 + 1
      BY <3>1, FS_Interval
    <3> QED
      BY <1>1, <3>1, <3>2, FS_Interval
  <2> QED
    BY <1>5, <2>1, FS_Injection
<1>7. q \in Seq(S) /\ Len(q) = n
  BY <1>1, <1>4
<1> QED
  BY <1>6, <1>7 DEF q, Surjection


LEMMA DivIs ==
    ASSUME NEW a \in Nat, NEW p \in Nat \ {0}
    PROVE  /\ a \div p \in Nat
           /\ (a \div p) * p <= a
           /\ a < (a \div p) * p + p
  OBVIOUS

LEMMA TimesIs ==
    ASSUME NEW x \in Nat, NEW y \in Nat, NEW p \in Nat, x <= y
    PROVE  x * p <= y * p
<1>1. PICK z \in Nat : y = x + z
  <2>1. y - x \in Nat /\ y = x + (y - x)
    OBVIOUS
  <2> QED
    BY <2>1
<1>2. y * p = x * p + z * p
  BY <1>1
<1>3. z * p \in Nat /\ x * p \in Nat
  BY <1>1
<1> QED
  BY <1>2, <1>3

\* No tick needs more parts than one for each record and one for the departures.
LEMMA PartCountIs ==
    ASSUME NEW n \in Nat
    PROVE  PartCount(n) \in 1..(n + 1)
<1>1. FirstRoom \in Nat /\ PartRoom \in Nat \ {0}
  BY DeltaAssumption
<1>2. CASE n <= FirstRoom
  BY <1>2 DEF PartCount
<1>3. CASE ~(n <= FirstRoom)
  <2> DEFINE m == n - FirstRoom
             c == (m + PartRoom - 1) \div PartRoom
  <2>1. m \in Nat \ {0} /\ m <= n /\ m + PartRoom - 1 \in Nat
    BY <1>1, <1>3
  <2>2. PartCount(n) = 1 + c
    BY <1>1, <1>3 DEF PartCount
  <2>3. c \in Nat /\ c * PartRoom <= m + PartRoom - 1
    <3> HIDE DEF m
    <3> QED
      BY <1>1, <2>1, DivIs
  <2> HIDE DEF m, c
  <2>4. c <= m
    <3> SUFFICES ASSUME m + 1 <= c PROVE FALSE
      BY <2>1, <2>3
    <3>1. (m + 1) * PartRoom <= c * PartRoom
      BY <1>1, <2>1, <2>3, TimesIs
    <3>2. (m + 1) * PartRoom = m * PartRoom + PartRoom
      BY <1>1, <2>1
    <3>3. m <= m * PartRoom
      <4>1. 1 * m <= PartRoom * m
        BY <1>1, <2>1, TimesIs
      <4> QED
        BY <1>1, <2>1, <4>1
    <3>4. m * PartRoom \in Nat /\ c * PartRoom \in Nat
      BY <1>1, <2>1, <2>3
    <3> QED
      BY <1>1, <2>1, <2>3, <3>1, <3>2, <3>3, <3>4
  <2> QED
    BY <2>1, <2>2, <2>3, <2>4
<1> QED
  BY <1>2, <1>3

\* What a slice of a sequence holds.
LEMMA SliceIs ==
    ASSUME NEW S, NEW q \in Seq(S), NEW a \in Nat \ {0}, NEW b \in Nat, b <= Len(q)
    PROVE  ToSet(SubSeq(q, a, b)) = {q[k] : k \in a..b}
<1>1. \A x : x \in ToSet(SubSeq(q, a, b)) => x \in {q[k] : k \in a..b}
  <2> TAKE x
  <2> HAVE x \in ToSet(SubSeq(q, a, b))
  <2>1. PICK j \in DOMAIN SubSeq(q, a, b) : x = SubSeq(q, a, b)[j]
    BY DEF ToSet
  <2>2. j \in 1..(b - a + 1) /\ SubSeq(q, a, b)[j] = q[a + j - 1]
    BY <2>1
  <2>3. a + j - 1 \in a..b
    BY <2>2
  <2> QED
    BY <2>1, <2>2, <2>3
<1>2. \A k \in a..b : q[k] \in ToSet(SubSeq(q, a, b))
  <2> TAKE k \in a..b
  <2>1. k - a + 1 \in DOMAIN SubSeq(q, a, b) /\ SubSeq(q, a, b)[k - a + 1] = q[k]
    OBVIOUS
  <2> QED
    BY <2>1 DEF ToSet
<1> QED
  BY <1>1, <1>2

\* A part carries records of the tick, and every record of it is in some part.
LEMMA PartsCover ==
    ASSUME NEW S, NEW order \in Seq(S)
    PROVE  /\ \A i \in Nat : InPart(order, i) \subseteq S
           /\ \A k \in 1..Len(order) :
                \E i \in 0..PartCount(Len(order)) - 1 : order[k] \in InPart(order, i)
<1> DEFINE n == Len(order)
           first(i) == FirstRoom + (i - 1) * PartRoom
<1>1. FirstRoom \in Nat /\ PartRoom \in Nat \ {0} /\ n \in Nat
  BY DeltaAssumption
<1>2. InPart(order, 0) = {order[k] : k \in 1..Min({FirstRoom, n})}
  <2> DEFINE l == Min({FirstRoom, n})
  <2>1. l \in Nat /\ l <= n
    BY <1>1, MinMaxIs
  <2>2. InPart(order, 0) = ToSet(SubSeq(order, 1, l))
    BY DEF InPart
  <2> HIDE DEF l
  <2>3. 1 \in Nat \ {0}
    OBVIOUS
  <2>4. ToSet(SubSeq(order, 1, l)) = {order[k] : k \in 1..l}
    BY <2>1, <2>3, SliceIs
  <2>5. InPart(order, 0) = {order[k] : k \in 1..l}
    BY <2>2, <2>4
  <2> QED
    BY <2>5 DEF l
<1>3. \A i \in Nat \ {0} :
        /\ first(i) \in Nat
        /\ InPart(order, i) = {order[k] : k \in first(i) + 1..Min({first(i) + PartRoom, n})}
  <2> TAKE i \in Nat \ {0}
  <2> DEFINE f == first(i)
             l == Min({f + PartRoom, n})
  <2>1. f \in Nat
    <3>1. i - 1 \in Nat
      OBVIOUS
    <3>2. (i - 1) * PartRoom \in Nat
      BY <1>1, <3>1
    <3> QED
      BY <1>1, <3>2
  <2>2. l \in Nat /\ l <= n
    <3> HIDE DEF f
    <3> QED
      BY <1>1, <2>1, MinMaxIs
  <2>3. InPart(order, i) = ToSet(SubSeq(order, f + 1, l))
    BY DEF InPart
  <2> HIDE DEF f, l
  <2>4. f + 1 \in Nat \ {0}
    BY <2>1
  <2>5. ToSet(SubSeq(order, f + 1, l)) = {order[k] : k \in f + 1..l}
    BY <2>2, <2>4, SliceIs
  <2>6. f \in Nat /\ InPart(order, i) = {order[k] : k \in f + 1..l}
    BY <2>1, <2>3, <2>5
  <2> QED
    BY <2>6 DEF f, l
<1>4. \A k \in 1..n : order[k] \in S
  OBVIOUS
<1> HIDE DEF first
<1>5. ASSUME NEW i \in Nat PROVE InPart(order, i) \subseteq S
  <2>1. CASE i = 0
    <3>1. Min({FirstRoom, n}) <= n /\ Min({FirstRoom, n}) \in Nat
      BY <1>1, MinMaxIs
    <3> QED
      BY <1>1, <1>2, <1>4, <2>1, <3>1
  <2>2. CASE i # 0
    <3>1. first(i) \in Nat
      BY <1>3, <2>2
    <3>2. Min({first(i) + PartRoom, n}) <= n /\ Min({first(i) + PartRoom, n}) \in Nat
      BY <1>1, <3>1, MinMaxIs
    <3>3. InPart(order, i) = {order[k] : k \in first(i) + 1..Min({first(i) + PartRoom, n})}
      BY <1>3, <2>2
    <3> QED
      BY <1>1, <1>4, <3>1, <3>2, <3>3
  <2> QED
    BY <2>1, <2>2
<1>6. ASSUME NEW k \in 1..n
      PROVE  \E i \in 0..PartCount(n) - 1 : order[k] \in InPart(order, i)
  <2>1. PartCount(n) \in Nat \ {0}
    <3> HIDE DEF n
    <3>1. PartCount(n) \in 1..(n + 1)
      BY <1>1, PartCountIs
    <3> QED
      BY <1>1, <3>1
  <2>2. CASE k <= FirstRoom
    <3>1. k \in 1..Min({FirstRoom, n})
      BY <1>1, <2>2, MinMaxIs
    <3>2. order[k] \in InPart(order, 0) /\ 0 \in 0..PartCount(n) - 1
      BY <1>2, <2>1, <3>1
    <3> QED
      BY <3>2
  <2>3. CASE ~(k <= FirstRoom)
    <3> DEFINE q == (k - FirstRoom - 1) \div PartRoom
               c == (n - FirstRoom + PartRoom - 1) \div PartRoom
    <3>1. k - FirstRoom - 1 \in Nat /\ n - FirstRoom + PartRoom - 1 \in Nat
      BY <1>1, <2>3
    <3>2. q \in Nat /\ q * PartRoom <= k - FirstRoom - 1 /\ k - FirstRoom - 1 < q * PartRoom + PartRoom
      BY <1>1, <3>1, DivIs
    <3>3. c \in Nat /\ n - FirstRoom + PartRoom - 1 < c * PartRoom + PartRoom
      BY <1>1, <3>1, DivIs
    <3>4. PartCount(n) = 1 + c
      BY <1>1, <2>3 DEF PartCount
    <3> HIDE DEF q, c
    <3>5. q * PartRoom \in Nat /\ c * PartRoom \in Nat
      BY <1>1, <3>2, <3>3
    <3>6. q < c
      <4> SUFFICES ASSUME c <= q PROVE FALSE
        BY <3>2, <3>3
      <4>1. c * PartRoom <= q * PartRoom
        BY <1>1, <3>2, <3>3, TimesIs
      <4> QED
        BY <1>1, <3>2, <3>3, <3>5, <4>1
    <3>7. first(q + 1) = FirstRoom + q * PartRoom
      <4>1. (q + 1) - 1 = q
        BY <3>2
      <4> QED
        BY <4>1 DEF first
    <3>8. k \in first(q + 1) + 1..Min({first(q + 1) + PartRoom, n})
      <4>1. first(q + 1) \in Nat /\ first(q + 1) + 1 <= k /\ k <= first(q + 1) + PartRoom
        BY <1>1, <3>2, <3>5, <3>7
      <4>2. k <= Min({first(q + 1) + PartRoom, n}) /\ Min({first(q + 1) + PartRoom, n}) \in Nat
        BY <1>1, <4>1, MinMaxIs
      <4> QED
        BY <4>1, <4>2
    <3>9. order[k] \in InPart(order, q + 1) /\ q + 1 \in 0..PartCount(n) - 1
      <4>1. q + 1 \in Nat \ {0}
        BY <3>2
      <4>2. order[k] \in InPart(order, q + 1)
        BY <1>3, <3>8, <4>1
      <4> QED
        BY <3>2, <3>3, <3>4, <3>6, <4>2
    <3> QED
      BY <3>9
  <2> QED
    BY <2>2, <2>3
<1> QED
  BY <1>5, <1>6


-----------------------------------------------------------------------------
(* Types: these hold whatever part zero has room for. *)

LEMMA PartTyped ==
    ASSUME TypeOK, NEW d \in parts
    PROVE  /\ d.tick \in 1..MaxTick /\ d.base \in 1..MaxTick /\ d.grid \in Grids
           /\ d.index \in 0..Cardinality(Ships) /\ d.count \in 1..(Cardinality(Ships) + 1)
           /\ d.records \in Views /\ d.left \subseteq Ships
           /\ Cardinality(Ships) \in Nat
<1>1. Cardinality(Ships) \in Nat
  BY DeltaAssumption, FS_CardinalityType
<1>2. d \in Part
  BY DEF TypeOK
<1> QED
  BY <1>1, <1>2 DEF Part

LEMMA BulkTyped ==
    ASSUME TypeOK
    PROVE  Len(bulk) \in Nat /\ \A i \in 1..Len(bulk) : bulk[i].tick \in 1..MaxTick
<1> DEFINE K == [tick : 1..MaxTick, grid : Grids, view : Views]
<1>1. bulk \in Seq(K)
  BY DEF TypeOK
<1>2. \A k \in K : k.tick \in 1..MaxTick
  OBVIOUS
<1> HIDE DEF K
<1>3. Len(bulk) \in Nat /\ \A i \in 1..Len(bulk) : bulk[i] \in K
  BY <1>1
<1> QED
  BY <1>2, <1>3

LEMMA PartApplied ==
    ASSUME TypeOK, NEW d \in parts, NEW v \in Views
    PROVE  IsUpdate(Updated(Without(v, d.left), d.records), v, d.left, d.records)
<1>1. d.records \in Views /\ d.left \in SUBSET Ships
  BY PartTyped
<1> QED
  BY <1>1, UpdatedIs

\* What a delta is cut into, for the ships that changed.
LEMMA DeltaParts ==
    ASSUME NEW changed \in SUBSET Ships
    PROVE  /\ PartCount(Cardinality(changed)) \in 1..(Cardinality(Ships) + 1)
           /\ \A i \in Nat : InPart(SetToSeq(changed), i) \subseteq changed
           /\ \A s \in changed :
                \E i \in 0..PartCount(Cardinality(changed)) - 1 : s \in InPart(SetToSeq(changed), i)
<1> DEFINE order == SetToSeq(changed)
           n == Cardinality(changed)
<1>1. IsFiniteSet(changed) /\ n \in Nat /\ Cardinality(Ships) \in Nat /\ n <= Cardinality(Ships)
  BY DeltaAssumption, FS_Subset, FS_CardinalityType
<1>2. order \in Seq(changed) /\ Len(order) = n /\ \A s \in changed : \E k \in 1..n : order[k] = s
  BY <1>1, SetToSeqIs
<1> HIDE DEF order, n
<1>3. PartCount(n) \in 1..(n + 1)
  BY <1>1, PartCountIs
<1>4. PartCount(n) \in 1..(Cardinality(Ships) + 1)
  BY <1>1, <1>3
<1>5. \A i \in Nat : InPart(order, i) \subseteq changed
  BY <1>2, PartsCover
<1>6. \A k \in 1..n : \E i \in 0..PartCount(n) - 1 : order[k] \in InPart(order, i)
  <2>1. \A k \in 1..Len(order) : \E i \in 0..PartCount(Len(order)) - 1 : order[k] \in InPart(order, i)
    BY <1>2, PartsCover
  <2> QED
    BY <1>2, <2>1
<1>7. \A s \in changed : \E i \in 0..PartCount(n) - 1 : s \in InPart(order, i)
  BY <1>2, <1>6
<1> QED
  BY <1>4, <1>5, <1>7 DEF order, n

\* A slot of a ring is given to a tick: the tick is held, and of the others nothing changed
\* but that the one that had the slot is gone.
LEMMA SlotGiven ==
    ASSUME NEW ring, NEW t \in Nat \ {0}, NEW r, r.tick = t,
           NEW new, \A i \in Slots : new[i] = IF i = SlotOf(t) THEN r ELSE ring[i]
    PROVE  /\ Holds(new, t) /\ ViewAt(new, t) = r.view
           /\ \A u \in Nat : u # t /\ Holds(new, u) =>
                Holds(ring, u) /\ ViewAt(new, u) = ViewAt(ring, u)
           /\ \A u \in Nat : Holds(ring, u) /\ SlotOf(u) # SlotOf(t) =>
                Holds(new, u) /\ ViewAt(new, u) = ViewAt(ring, u)
<1>1. SlotOf(t) \in Slots /\ \A u \in Nat : SlotOf(u) \in Slots
  BY SlotIs
<1>3. Holds(new, t) /\ ViewAt(new, t) = r.view
  BY <1>1 DEF Holds, ViewAt
<1>4. \A u \in Nat : u # t /\ Holds(new, u) => SlotOf(u) # SlotOf(t)
  BY <1>1 DEF Holds
<1>5. \A u \in Nat : SlotOf(u) # SlotOf(t) => new[SlotOf(u)] = ring[SlotOf(u)]
  BY <1>1
<1> QED
  BY <1>3, <1>4, <1>5 DEF Holds, ViewAt

\* A slot of the sender's ring is given to tick n.
LEMMA RecordTyped ==
    ASSUME TypeOK, NEW n \in 1..MaxTick, NEW view \in Views, NEW truth \in Views,
           sent' = [sent EXCEPT ![SlotOf(n)] = [tick |-> n, view |-> view, truth |-> truth]]
    PROVE  /\ sent' \in [Slots -> [tick : 0..MaxTick, view : Views, truth : Views]]
           /\ \A i \in Slots : sent'[i].tick = 0 \/ SlotOf(sent'[i].tick) = i
<1> DEFINE r == [tick |-> n, view |-> view, truth |-> truth]
           X == [tick : 0..MaxTick, view : Views, truth : Views]
<1>1. /\ MaxTick \in Nat /\ sent \in [Slots -> X]
      /\ \A i \in Slots : sent[i].tick = 0 \/ SlotOf(sent[i].tick) = i
  BY DeltaAssumption DEF TypeOK
<1>2. r.tick = n /\ r \in X /\ sent' = [sent EXCEPT ![SlotOf(n)] = r]
  BY <1>1
<1>3. SlotOf(n) \in Slots
  BY <1>1, SlotIs
<1> HIDE DEF r, X
<1>4. sent' \in [Slots -> X] /\ \A i \in Slots : sent'[i] = IF i = SlotOf(n) THEN r ELSE sent[i]
  BY <1>1, <1>2, <1>3
<1>5. \A i \in Slots : sent'[i].tick = 0 \/ SlotOf(sent'[i].tick) = i
  BY <1>1, <1>2, <1>4
<1> QED
  BY <1>4, <1>5 DEF X

\* What is recorded of a tick is typed.
LEMMA SendTyped ==
    ASSUME TypeOK, tick < MaxTick, tick' = tick + 1, NEW view \in Views, Record(view),
           UNCHANGED <<world, changes, grid, acked, switches, acks, receiverVars>>,
           pending' \in Seq(Ships), parts' \subseteq Part,
           bulk' \in Seq([tick : 1..MaxTick, grid : Grids, view : Views])
    PROVE  TypeOK'
<1>1. /\ world' = world /\ changes' = changes /\ grid' = grid /\ acked' = acked /\ acks' = acks
      /\ holding' = holding /\ newest' = newest /\ seen' = seen /\ held' = held
      /\ switches' = switches
  BY DEF receiverVars
<1>2. tick + 1 \in 1..MaxTick /\ tick' \in 0..MaxTick
  BY DeltaAssumption DEF TypeOK
<1>3. TrueView(OnGrid(grid)) \in Views
  <2>1. OnGrid(grid) \in SUBSET Ships
    BY DEF OnGrid
  <2> QED
    BY <2>1, TrueViewIs
<1>4. /\ sent' \in [Slots -> [tick : 0..MaxTick, view : Views, truth : Views]]
      /\ \A i \in Slots : sent'[i].tick = 0 \/ SlotOf(sent'[i].tick) = i
  <2> DEFINE n == tick + 1
             truth == TrueView(OnGrid(grid))
  <2>1. n \in 1..MaxTick /\ truth \in Views
    BY <1>2, <1>3
  <2>2. sent' = [sent EXCEPT ![SlotOf(n)] = [tick |-> n, view |-> view, truth |-> truth]]
    BY DEF Record
  <2> HIDE DEF n, truth
  <2> QED
    BY <2>1, <2>2, RecordTyped
<1>5. \A i \in Slots : /\ sent'[i].tick = 0 \/ SlotOf(sent'[i].tick) = i
                       /\ held'[i].tick = 0 \/ SlotOf(held'[i].tick) = i
  BY <1>1, <1>4 DEF TypeOK
<1> QED
  BY <1>1, <1>2, <1>4, <1>5 DEF TypeOK

LEMMA TypedSendKeyframe ==
    ASSUME TypeOK, tick < MaxTick, tick' = tick + 1, NEW ids \in SUBSET Ships, SendKeyframe(ids),
           UNCHANGED <<world, changes, grid, acked, switches, acks, receiverVars>>
    PROVE  TypeOK'
<1> DEFINE v == TrueView(ids)
           k == [tick |-> tick + 1, grid |-> grid, view |-> v]
           K == [tick : 1..MaxTick, grid : Grids, view : Views]
<1>1. v \in Views
  BY TrueViewIs
<1>2. Record(v) /\ pending' = <<>> /\ bulk' = Append(bulk, k) /\ parts' = parts
  BY DEF SendKeyframe
<1>3. k \in K
  <2>1. tick + 1 \in 1..MaxTick /\ grid \in Grids
    BY DeltaAssumption DEF TypeOK
  <2> HIDE DEF v
  <2> QED
    BY <1>1, <2>1
<1>4. bulk' \in Seq(K)
  <2>1. bulk \in Seq(K)
    BY DEF TypeOK
  <2> HIDE DEF k, K
  <2> QED
    BY <1>2, <1>3, <2>1
<1>5. pending' \in Seq(Ships) /\ parts' \subseteq Part
  BY <1>2 DEF TypeOK
<1> HIDE DEF v
<1> QED
  BY <1>1, <1>2, <1>4, <1>5, SendTyped

LEMMA TypedSendDelta ==
    ASSUME TypeOK, tick < MaxTick, tick' = tick + 1, NEW ids \in SUBSET Ships, HasBaseline,
           SendDelta(ids), UNCHANGED <<world, changes, grid, acked, switches, acks, receiverVars>>
    PROVE  TypeOK'
<1>0. PICK base, changed, left, order, count, owed, named, view :
        /\ base = ViewAt(sent, acked) /\ changed = Changed(base, ids) /\ left = Departed(base)
        /\ order = SetToSeq(changed) /\ count = PartCount(Cardinality(changed))
        /\ owed = pending \o SetToSeq(left) /\ named = Min({Len(owed), LeftRoom})
        /\ view = Updated(Without(base, left), TrueView(changed))
  OBVIOUS
<1> DEFINE part(i) ==
             [tick |-> tick + 1, base |-> acked, grid |-> grid, index |-> i, count |-> count,
              records |-> TrueView(InPart(order, i)),
              left |-> IF i = 0 THEN ToSet(SubSeq(owed, 1, named)) ELSE {}]
<1>1. /\ Record(view) /\ pending' = SubSeq(owed, named + 1, Len(owed)) /\ bulk' = bulk
      /\ parts' = parts \cup {part(i) : i \in 0..count - 1}
  BY <1>0 DEF SendDelta
<1>2. /\ tick + 1 \in 1..MaxTick /\ acked \in 1..MaxTick /\ acked \in Nat /\ grid \in Grids
      /\ Cardinality(Ships) \in Nat
  BY DeltaAssumption, FS_CardinalityType DEF TypeOK, HasBaseline, Holds
<1>3. base \in Views /\ DOMAIN base \subseteq Ships
  <2>1. SlotOf(acked) \in Slots
    BY <1>2, SlotIs
  <2>2. base \in Views
    BY <1>0, <2>1 DEF TypeOK, ViewAt
  <2> QED
    BY <2>2, ViewIs
<1>4. changed \in SUBSET Ships /\ left \in SUBSET Ships
  BY <1>0, <1>3 DEF Changed, Departed
<1>5. view \in Views
  <2>1. TrueView(changed) \in Views
    BY <1>4, TrueViewIs
  <2>2. IsUpdate(Updated(Without(base, left), TrueView(changed)), base, left, TrueView(changed))
    BY <1>3, <1>4, <2>1, UpdatedIs
  <2> QED
    BY <1>0, <2>2 DEF IsUpdate
<1>6. owed \in Seq(Ships) /\ named \in Nat /\ named <= Len(owed)
  <2>1. SetToSeq(left) \in Seq(left)
    <3>1. IsFiniteSet(left)
      BY <1>4, DeltaAssumption, FS_Subset
    <3> QED
      BY <3>1, SetToSeqIs
  <2>2. SetToSeq(left) \in Seq(Ships)
    BY <1>4, <2>1
  <2>3. owed \in Seq(Ships) /\ Len(owed) \in Nat
    <3>1. pending \in Seq(Ships)
      BY DEF TypeOK
    <3> QED
      BY <1>0, <2>2, <3>1
  <2>4. LeftRoom \in Nat
    BY DeltaAssumption
  <2>5. named = Min({Len(owed), LeftRoom})
    BY <1>0
  <2>6. named = IF Len(owed) <= LeftRoom THEN Len(owed) ELSE LeftRoom
    BY <2>3, <2>4, <2>5, MinMaxIs
  <2>7. named \in Nat /\ named <= Len(owed)
    BY <2>3, <2>4, <2>6
  <2> QED
    BY <2>3, <2>7
<1>7. pending' \in Seq(Ships)
  BY <1>1, <1>6
<1>8. ToSet(SubSeq(owed, 1, named)) \in SUBSET Ships
  <2>1. 1 \in Nat \ {0}
    OBVIOUS
  <2>2. ToSet(SubSeq(owed, 1, named)) = {owed[k] : k \in 1..named}
    BY <1>6, <2>1, SliceIs
  <2> QED
    BY <1>6, <2>2
<1>9. parts' \subseteq Part
  <2>1. count \in 1..(Cardinality(Ships) + 1) /\ \A i \in Nat : InPart(order, i) \subseteq changed
    BY <1>0, <1>4, DeltaParts
  <2>2. ASSUME NEW i \in 0..count - 1 PROVE part(i) \in Part
    <3>1. TrueView(InPart(order, i)) \in Views
      <4>1. InPart(order, i) \in SUBSET Ships
        BY <1>4, <2>1
      <4> QED
        BY <4>1, TrueViewIs
    <3>2. i \in 0..Cardinality(Ships)
      BY <1>2, <2>1
    <3>3. (IF i = 0 THEN ToSet(SubSeq(owed, 1, named)) ELSE {}) \in SUBSET Ships
      BY <1>8
    <3> QED
      BY <1>2, <2>1, <3>1, <3>2, <3>3 DEF Part
  <2>3. parts \subseteq Part
    BY DEF TypeOK
  <2> HIDE DEF part
  <2> QED
    BY <1>1, <2>2, <2>3
<1>10. bulk' \in Seq([tick : 1..MaxTick, grid : Grids, view : Views])
  BY <1>1 DEF TypeOK
<1> QED
  BY <1>1, <1>5, <1>7, <1>9, <1>10, SendTyped

LEMMA TypedKeyframe == ASSUME TypeOK, ReceiveKeyframe PROVE TypeOK'
<1>0. PICK k : k = Head(bulk)
  OBVIOUS
<1> DEFINE slot == [tick |-> k.tick, view |-> k.view]
           ack == [grid |-> k.grid, tick |-> k.tick]
           K == [tick : 1..MaxTick, grid : Grids, view : Views]
<1>1. /\ tick' = tick /\ acked' = acked /\ sent' = sent /\ grid' = grid /\ parts' = parts
      /\ pending' = pending /\ world' = world /\ changes' = changes /\ switches' = switches
      /\ bulk # <<>> /\ bulk' = Tail(bulk)
      /\ holding' = k.grid /\ newest' = k.tick /\ seen' = {0}
      /\ held' = [[i \in Slots |-> Unused] EXCEPT ![SlotOf(k.tick)] = slot]
      /\ acks' = acks \cup {ack}
  BY <1>0 DEF ReceiveKeyframe, senderVars
<1>2. MaxTick \in Nat /\ Cardinality(Ships) \in Nat
  BY DeltaAssumption, FS_CardinalityType
<1>3. k \in K /\ bulk' \in Seq(K)
  <2>1. bulk \in Seq(K)
    BY DEF TypeOK
  <2> HIDE DEF K
  <2> QED
    BY <1>0, <1>1, <2>1
<1>4. k.tick \in 1..MaxTick /\ k.tick \in Nat /\ k.tick \in 0..MaxTick /\ k.grid \in Grids /\ k.view \in Views
  BY <1>2, <1>3
<1>5. SlotOf(k.tick) \in Slots
  BY <1>4, SlotIs
<1>6. Unused.tick = 0 /\ Unused \in [tick : 0..MaxTick, view : Views]
  BY <1>2, EmptyIsView DEF Unused
<1>7. slot.tick = k.tick /\ slot \in [tick : 0..MaxTick, view : Views]
      /\ ack \in [grid : Grids, tick : 1..MaxTick]
  BY <1>4
<1> HIDE DEF slot, ack
<1>8. /\ \A i \in Slots : held'[i] = IF i = SlotOf(k.tick) THEN slot ELSE Unused
      /\ held' \in [Slots -> [tick : 0..MaxTick, view : Views]]
  BY <1>1, <1>5, <1>6, <1>7
<1>9. seen' \subseteq 0..Cardinality(Ships)
  BY <1>1, <1>2
<1>10. \A i \in Slots : /\ sent'[i].tick = 0 \/ SlotOf(sent'[i].tick) = i
                        /\ held'[i].tick = 0 \/ SlotOf(held'[i].tick) = i
  BY <1>1, <1>6, <1>7, <1>8 DEF TypeOK
<1>11. acks' \subseteq [grid : Grids, tick : 1..MaxTick]
  BY <1>1, <1>7 DEF TypeOK
<1> QED
  BY <1>1, <1>3, <1>4, <1>8, <1>9, <1>10, <1>11 DEF TypeOK

\* Letting go of a ring.
LEMMA UnusedTyped ==
    /\ [i \in Slots |-> Unused] \in [Slots -> [tick : 0..MaxTick, view : Views]]
    /\ [i \in Slots |-> UnusedSent] \in [Slots -> [tick : 0..MaxTick, view : Views, truth : Views]]
    /\ Unused.tick = 0 /\ UnusedSent.tick = 0
<1>1. 0 \in 0..MaxTick
  BY DeltaAssumption
<1>2. Unused \in [tick : 0..MaxTick, view : Views]
      /\ UnusedSent \in [tick : 0..MaxTick, view : Views, truth : Views]
  BY <1>1, EmptyIsView DEF Unused, UnusedSent
<1> QED
  BY <1>2 DEF Unused, UnusedSent

LEMMA TypedPart == ASSUME TypeOK, NEW d \in parts, ReceivePart(d) PROVE TypeOK'
<1>1. /\ parts' = parts \ {d} /\ bulk' = bulk /\ world' = world /\ changes' = changes
      /\ tick' = tick /\ grid' = grid /\ acked' = acked /\ sent' = sent /\ pending' = pending
      /\ switches' = switches
  BY DEF ReceivePart, senderVars
<1>2. /\ MaxTick \in Nat /\ newest \in 0..MaxTick /\ d.tick \in 1..MaxTick /\ d.tick \in Nat
      /\ d.tick \in 0..MaxTick /\ d.base \in Nat /\ d.grid \in Grids
      /\ d.index \in 0..Cardinality(Ships)
  <2>1. /\ d.tick \in 1..MaxTick /\ d.base \in 1..MaxTick /\ d.grid \in Grids
        /\ d.index \in 0..Cardinality(Ships)
    BY PartTyped
  <2>2. MaxTick \in Nat /\ newest \in 0..MaxTick
    BY DeltaAssumption DEF TypeOK
  <2> QED
    BY <2>1, <2>2
<1>3. SUFFICES /\ acks' \subseteq [grid : Grids, tick : 1..MaxTick]
               /\ holding' \in Grids \cup {NoGrid} /\ newest' \in 0..MaxTick
               /\ seen' \subseteq 0..Cardinality(Ships)
               /\ held' \in [Slots -> [tick : 0..MaxTick, view : Views]]
               /\ \A i \in Slots : held'[i].tick = 0 \/ SlotOf(held'[i].tick) = i
  BY <1>1 DEF TypeOK
<1>4. CASE LosePlace(d)
  <2>1. /\ holding' = NoGrid /\ newest' = 0 /\ seen' = {} /\ held' = [i \in Slots |-> Unused]
        /\ acks' = acks
    BY <1>4 DEF LosePlace
  <2>2. \A i \in Slots : held'[i].tick = 0
    BY <2>1, UnusedTyped
  <2> QED
    BY <1>2, <2>1, <2>2, UnusedTyped DEF TypeOK
<1>5. CASE OrphanPart(d)
  <2>1. acks' = acks /\ holding' = holding /\ newest' = newest /\ seen' = seen /\ held' = held
    BY <1>5 DEF OrphanPart, receiverVars
  <2> QED
    BY <2>1 DEF TypeOK
<1>6. CASE ApplyPart(d)
  <2> DEFINE now == IF d.tick > newest THEN {d.index}
                    ELSE IF d.tick = newest THEN seen \cup {d.index} ELSE seen
             slot == [tick |-> d.tick, view |-> Applied(d)]
             ack == [grid |-> d.grid, tick |-> d.tick]
  <2>1. /\ held' = [held EXCEPT ![SlotOf(d.tick)] = slot] /\ newest' = Max({newest, d.tick})
        /\ seen' = now /\ acks' = (IF Whole(d, now) THEN acks \cup {ack} ELSE acks)
        /\ holding' = holding
    BY <1>6 DEF ApplyPart
  <2>2. SlotOf(d.tick) \in Slots /\ SlotOf(d.base) \in Slots
    BY <1>2, SlotIs
  <2>3. Applied(d) \in Views
    <3>1. ViewAt(held, d.base) \in Views /\ ViewAt(held, d.tick) \in Views
      BY <2>2 DEF TypeOK, ViewAt
    <3>2. CASE d.tick > newest
      <4>1. Applied(d) = Updated(Without(ViewAt(held, d.base), d.left), d.records)
        BY <3>2 DEF Applied
      <4> QED
        BY <3>1, <4>1, PartApplied DEF IsUpdate
    <3>3. CASE ~(d.tick > newest)
      <4>1. Applied(d) = Updated(Without(ViewAt(held, d.tick), d.left), d.records)
        BY <3>3 DEF Applied
      <4> QED
        BY <3>1, <4>1, PartApplied DEF IsUpdate
    <3> QED
      BY <3>2, <3>3
  <2>4. slot.tick = d.tick /\ slot \in [tick : 0..MaxTick, view : Views]
        /\ ack \in [grid : Grids, tick : 1..MaxTick]
    BY <1>2, <2>3
  <2>5. seen' \subseteq 0..Cardinality(Ships)
    BY <1>2, <2>1 DEF TypeOK
  <2> HIDE DEF slot, ack, now
  <2>6. /\ held' \in [Slots -> [tick : 0..MaxTick, view : Views]]
        /\ \A i \in Slots : held'[i] = IF i = SlotOf(d.tick) THEN slot ELSE held[i]
    BY <2>1, <2>2, <2>4 DEF TypeOK
  <2>7. \A i \in Slots : held'[i].tick = 0 \/ SlotOf(held'[i].tick) = i
    BY <2>4, <2>6 DEF TypeOK
  <2>8. newest' \in 0..MaxTick
    <3>1. newest \in Int /\ d.tick \in Int
      BY <1>2
    <3>2. newest' = newest \/ newest' = d.tick
      BY <2>1, <3>1, MinMaxIs
    <3> QED
      BY <1>2, <3>2
  <2>9. acks' \subseteq [grid : Grids, tick : 1..MaxTick] /\ holding' \in Grids \cup {NoGrid}
    BY <2>1, <2>4 DEF TypeOK
  <2> QED
    BY <2>5, <2>6, <2>7, <2>8, <2>9
<1> QED
  BY <1>4, <1>5, <1>6 DEF ReceivePart

LEMMA TypeKept == ASSUME TypeOK, [Next]_vars PROVE TypeOK'
<1>1. ASSUME NEW s \in Ships, NEW g \in Grids, WorldChanges(s, g) PROVE TypeOK'
  <2>1. /\ UNCHANGED <<senderVars, wireVars, receiverVars>>
        /\ changes' = changes + 1 /\ changes < MaxChange
        /\ world' = [world EXCEPT ![s] = [grid |-> g, state |-> changes + 1]]
    BY <1>1 DEF WorldChanges
  <2>2. changes' \in 0..MaxChange /\ changes + 1 \in States
    BY <2>1, DeltaAssumption DEF TypeOK, States
  <2>3. [grid |-> g, state |-> changes + 1] \in [grid : Grids, state : States]
    BY <2>2
  <2>4. world' \in [Ships -> [grid : Grids, state : States]]
    BY <2>1, <2>3 DEF TypeOK
  <2> QED
    BY <2>1, <2>2, <2>4 DEF TypeOK, senderVars, wireVars, receiverVars
<1>2. CASE Send
  BY <1>2, TypedSendKeyframe, TypedSendDelta DEF Send
<1>3. ASSUME NEW a \in acks, NoteAck(a) PROVE TypeOK'
  <2>1. /\ tick' = tick /\ sent' = sent /\ grid' = grid /\ bulk' = bulk
        /\ parts' = parts /\ holding' = holding /\ newest' = newest /\ seen' = seen
        /\ held' = held /\ pending' = pending /\ switches' = switches /\ world' = world
        /\ changes' = changes /\ acks' = acks \ {a} /\ (acked' = a.tick \/ acked' = acked)
    BY <1>3 DEF NoteAck, receiverVars
  <2>2. a.tick \in 0..MaxTick
    BY DeltaAssumption DEF TypeOK
  <2>3. acked' \in 0..MaxTick /\ acks' \subseteq [grid : Grids, tick : 1..MaxTick]
    BY <2>1, <2>2 DEF TypeOK
  <2> QED
    BY <2>1, <2>3 DEF TypeOK
<1>4. ASSUME NEW g \in Grids, SwitchView(g) PROVE TypeOK'
  <2>1. /\ tick' = tick /\ bulk' = bulk /\ parts' = parts /\ acks' = acks /\ holding' = holding
        /\ newest' = newest /\ seen' = seen /\ held' = held /\ world' = world /\ changes' = changes
        /\ switches < MaxSwitch /\ switches' = switches + 1 /\ grid' = g
        /\ sent' = [i \in Slots |-> UnusedSent] /\ pending' = <<>> /\ acked' = 0
    BY <1>4 DEF SwitchView, wireVars, receiverVars
  <2>2. switches' \in 0..MaxSwitch /\ acked' \in 0..MaxTick /\ pending' \in Seq(Ships)
    BY <2>1, DeltaAssumption DEF TypeOK
  <2>3. \A i \in Slots : sent'[i].tick = 0
    BY <2>1, UnusedTyped
  <2>4. \A i \in Slots : /\ sent'[i].tick = 0 \/ SlotOf(sent'[i].tick) = i
                         /\ held'[i].tick = 0 \/ SlotOf(held'[i].tick) = i
    BY <2>1, <2>3 DEF TypeOK
  <2>5. sent' \in [Slots -> [tick : 0..MaxTick, view : Views, truth : Views]]
    BY <2>1, UnusedTyped
  <2> QED
    BY <2>1, <2>2, <2>4, <2>5 DEF TypeOK
<1>5. CASE ReceiveKeyframe
  BY <1>5, TypedKeyframe
<1>6. ASSUME NEW d \in parts, ReceivePart(d) PROVE TypeOK'
  BY <1>6, TypedPart
<1>7. CASE UNCHANGED vars
  BY <1>7 DEF vars, senderVars, wireVars, receiverVars, TypeOK
<1> QED
  BY <1>1, <1>2, <1>3, <1>4, <1>5, <1>6, <1>7 DEF Next

-----------------------------------------------------------------------------
(* A part is received: it counts no more, and neither does what it said. *)

LEMMA CountsShort ==
    ASSUME NEW n \in Nat, NEW I, I \subseteq 0..n - 1, NEW i \in 0..n - 1, i \notin I
    PROVE  Cardinality(I) < n /\ Cardinality(I) \in Nat
<1> DEFINE N == 0..n - 1
<1>1. IsFiniteSet(N) /\ Cardinality(N) = n
  <2>1. 0 \in Int /\ n - 1 \in Int /\ (0 > n - 1 <=> n = 0) /\ (n - 1) - 0 + 1 = n
    OBVIOUS
  <2>2. IsFiniteSet(0..n - 1) /\ Cardinality(0..n - 1) = IF 0 > n - 1 THEN 0 ELSE (n - 1) - 0 + 1
    BY <2>1, FS_Interval
  <2> QED
    BY <2>1, <2>2
<1> HIDE DEF N
<1>2. I \subseteq N /\ i \in N
  BY DEF N
<1>3. IsFiniteSet(I) /\ Cardinality(I) \in Nat
  BY <1>1, <1>2, FS_Subset, FS_CardinalityType
<1>4. Cardinality(I \cup {i}) = Cardinality(I) + 1
  BY <1>3, FS_AddElement
<1>5. I \cup {i} \subseteq N
  BY <1>2
<1>6. Cardinality(I \cup {i}) <= Cardinality(N)
  BY <1>1, <1>5, FS_Subset
<1> QED
  BY <1>1, <1>3, <1>4, <1>6

LEMMA IndicesIn ==
    ASSUME TypeOK, InTransit, NEW d \in parts
    PROVE  Indices(d.tick) \subseteq 0..d.count - 1 /\ d.index \in Indices(d.tick)
<1>1. \A e \in parts : e.index \in 0..Cardinality(Ships) /\ e.count \in 1..(Cardinality(Ships) + 1)
  BY PartTyped
<1>2. Cardinality(Ships) \in Nat
  BY PartTyped
<1>3. \A e \in parts : e.tick = d.tick => e.index \in 0..d.count - 1
  BY <1>1, <1>2 DEF InTransit
<1> QED
  BY <1>3 DEF Indices, Flying

LEMMA PartTaken ==
    ASSUME NEW d \in parts, parts' = parts \ {d}, InTransit
    PROVE  /\ \A t : t # d.tick => Flying(t)' = Flying(t) /\ Indices(t)' = Indices(t)
           /\ \A t, s : t # d.tick => (Named(t, s)' <=> Named(t, s))
           /\ Indices(d.tick)' = Indices(d.tick) \ {d.index}
           /\ \A s : Named(d.tick, s) => Named(d.tick, s)' \/ s \in DOMAIN d.records \/ s \in d.left
<1>1. \A t : t # d.tick => Flying(t)' = Flying(t)
  BY DEF Flying
<1>2. \A t : t # d.tick => Indices(t)' = Indices(t)
  BY <1>1 DEF Indices
<1>3. \A t, s : t # d.tick => (Named(t, s)' <=> Named(t, s))
  BY <1>1 DEF Named
<1>4. Flying(d.tick)' = Flying(d.tick) \ {d}
  BY DEF Flying
<1>5. Indices(d.tick)' = Indices(d.tick) \ {d.index}
  <2>1. \A e \in Flying(d.tick) : e.index = d.index => e = d
    BY DEF Flying, InTransit
  <2>2. Indices(d.tick)' = {e.index : e \in Flying(d.tick) \ {d}}
    BY <1>4 DEF Indices
  <2>3. d \in Flying(d.tick)
    BY DEF Flying
  <2> QED
    BY <2>1, <2>2, <2>3 DEF Indices
<1>6. ASSUME NEW s, Named(d.tick, s)
      PROVE  Named(d.tick, s)' \/ s \in DOMAIN d.records \/ s \in d.left
  <2>1. PICK e \in Flying(d.tick) : s \in DOMAIN e.records \/ s \in e.left
    BY <1>6 DEF Named
  <2>2. CASE e = d
    BY <2>1, <2>2
  <2>3. CASE e # d
    <3>1. e \in Flying(d.tick)'
      BY <1>4, <2>3
    <3> QED
      BY <2>1, <3>1 DEF Named
  <2> QED
    BY <2>2, <2>3
<1> QED
  BY <1>1, <1>2, <1>3, <1>5, <1>6

\* A tick one of whose parts has been taken cannot be made whole by the others.
LEMMA PartMissed ==
    ASSUME TypeOK, InTransit, NEW d \in parts, NEW I,
           I \subseteq 0..d.count - 1, d.index \notin I
    PROVE  ~(Cardinality(I) >= d.count)
<1>1. d.count \in Nat /\ d.index \in 0..d.count - 1
  <2>1. d.count \in 1..(Cardinality(Ships) + 1) /\ Cardinality(Ships) \in Nat
    BY PartTyped
  <2>2. Indices(d.tick) \subseteq 0..d.count - 1 /\ d.index \in Indices(d.tick)
    BY IndicesIn
  <2> QED
    BY <2>1, <2>2
<1>2. Cardinality(I) < d.count /\ Cardinality(I) \in Nat
  BY <1>1, CountsShort
<1> QED
  BY <1>1, <1>2

\* What taking a part leaves of the invariant, whatever the receiver does with it.
LEMMA WireAfterPart ==
    ASSUME IInv, NEW d \in parts, parts' = parts \ {d}, bulk' = bulk, UNCHANGED senderVars,
           newest' <= tick,
           \A a \in acks' :
              a \in acks \/ (a.tick = d.tick /\ \A e \in parts : e.tick = d.tick => e = d)
    PROVE  pending' = <<>> /\ InTransit' /\ Truthful' /\ Clocked' /\ SentShows'
<1>1. /\ tick' = tick /\ acked' = acked /\ sent' = sent /\ pending' = pending /\ grid' = grid
  BY DEF senderVars
<1>2. TypeOK /\ Clocked /\ InTransit /\ Truthful /\ SentShows /\ pending = <<>>
  BY DEF IInv
<1>3. \A t : Settled(t) => Settled(t)'
  BY DEF Settled
<1>4. ASSUME \A e \in parts : e.tick = d.tick => e = d PROVE Settled(d.tick)'
  <2>1. \A i \in 1..Len(bulk) : bulk[i].tick # d.tick
    BY <1>2 DEF InTransit
  <2> QED
    BY <1>4, <2>1 DEF Settled
<1>5. InTransit'
  <2>1. \A a \in acks' : Settled(a.tick)'
    <3> TAKE a \in acks'
    <3>1. CASE a \in acks
      BY <1>2, <1>3, <3>1 DEF InTransit
    <3>2. CASE a \notin acks
      <4>1. a.tick = d.tick /\ Settled(d.tick)'
        BY <1>4, <3>2
      <4> QED
        BY <4>1
    <3> QED
      BY <3>1, <3>2
  <2>2. \A e \in parts' : Settled(e.base)'
    BY <1>2, <1>3 DEF InTransit
  <2>3. Settled(acked)'
    <3>1. Settled(acked)
      BY <1>2 DEF InTransit
    <3> QED
      BY <1>1, <3>1 DEF Settled
  <2>4. /\ \A e, f \in parts' : e.tick = f.tick =>
             e.count = f.count /\ e.base = f.base /\ (e.index = f.index => e = f)
        /\ \A e \in parts' : e.index < e.count
        /\ \A e \in parts' : \A i \in 1..Len(bulk') : bulk'[i].tick # e.tick
        /\ \A i, k \in 1..Len(bulk') : bulk'[i].tick = bulk'[k].tick => i = k
    BY <1>2 DEF InTransit
  <2> QED
    BY <2>1, <2>2, <2>3, <2>4 DEF InTransit
<1>6. Truthful'
  <2>1. \A t : (Holds(sent, t)' <=> Holds(sent, t)) /\ ViewAt(sent, t)' = ViewAt(sent, t)
    BY <1>1 DEF Holds, ViewAt
  <2>2. \A e \in parts' : e \in parts
    OBVIOUS
  <2> QED
    BY <1>1, <1>2, <2>1, <2>2 DEF Truthful, Holds, ViewAt
<1>7. Clocked'
  <2>1. d.tick <= tick
    BY <1>2 DEF Clocked
  <2>2. \A a \in acks' : a.tick <= tick
    BY <1>2, <2>1 DEF Clocked
  <2> QED
    BY <1>1, <1>2, <2>2 DEF Clocked
<1>8. SentShows'
  BY <1>1, <1>2 DEF SentShows
<1> QED
  BY <1>1, <1>2, <1>5, <1>6, <1>7, <1>8

\* Applying a part to any view brings it to what was sent, but for what other
\* parts of the tick name.
LEMMA PartSays ==
    ASSUME IInv, NEW d \in parts, parts' = parts \ {d}, Holds(sent, d.tick), NEW v \in Views,
           NEW s \in Ships, Same(v, ViewAt(sent, d.tick), s) \/ Named(d.tick, s)
    PROVE  Same(Updated(Without(v, d.left), d.records), ViewAt(sent, d.tick), s) \/ Named(d.tick, s)'
<1> DEFINE u == Updated(Without(v, d.left), d.records)
           w == ViewAt(sent, d.tick)
<1>1. TypeOK /\ InTransit /\ Truthful
  BY DEF IInv
<1>2. d.records \in Views /\ d.left \in SUBSET Ships
  BY <1>1, PartTyped
<1>3. /\ DOMAIN u = (DOMAIN v \ d.left) \cup DOMAIN d.records
      /\ \A x \in DOMAIN d.records : u[x] = d.records[x]
      /\ \A x \in DOMAIN v : x \notin d.left /\ x \notin DOMAIN d.records => u[x] = v[x]
  <2>1. IsUpdate(u, v, d.left, d.records)
    BY <1>1, PartApplied
  <2> QED
    BY <2>1 DEF IsUpdate
<1>4. /\ \A x \in DOMAIN d.records : x \in DOMAIN w /\ w[x] = d.records[x]
      /\ \A x \in d.left : x \notin DOMAIN w
  BY <1>1 DEF Truthful
<1> HIDE DEF u, w
<1>5. CASE s \in DOMAIN d.records
  BY <1>3, <1>4, <1>5 DEF Same, u, w
<1>6. CASE s \notin DOMAIN d.records /\ s \in d.left
  <2>1. s \notin DOMAIN u /\ s \notin DOMAIN w
    BY <1>3, <1>4, <1>6
  <2> QED
    BY <2>1 DEF Same, u, w
<1>7. CASE s \notin DOMAIN d.records /\ s \notin d.left
  <2>1. CASE Named(d.tick, s)
    BY <1>1, <1>7, <2>1, PartTaken
  <2>2. CASE Same(v, w, s)
    <3>1. Same(u, w, s)
      BY <1>3, <1>7, <2>2 DEF Same
    <3> QED
      BY <3>1 DEF u, w
  <2> QED
    BY <2>1, <2>2 DEF w
<1> QED
  BY <1>5, <1>6, <1>7

\* The part is dropped, at the receiver's end or for want of a base.
LEMMA StepOrphan ==
    ASSUME IInv, NEW d \in parts, parts' = parts \ {d}, OrphanPart(d),
           UNCHANGED <<world, changes, senderVars, bulk>>
    PROVE  IInv'
<1>1. /\ TypeOK /\ Clocked /\ InTransit /\ Truthful /\ Encoded /\ Assembling /\ ViewsAgree
  BY DEF IInv
<1>2. /\ tick' = tick /\ acked' = acked /\ sent' = sent /\ grid' = grid /\ bulk' = bulk
      /\ acks' = acks /\ holding' = holding /\ newest' = newest /\ seen' = seen /\ held' = held
      /\ pending' = pending /\ world' = world /\ changes' = changes /\ switches' = switches
  BY DEF OrphanPart, senderVars, receiverVars
<1>3. pending' = <<>> /\ InTransit' /\ Truthful' /\ Clocked' /\ SentShows'
  <2>1. newest' <= tick
    BY <1>1, <1>2 DEF Clocked
  <2> QED
    BY <1>2, <2>1, WireAfterPart
<1>4. TypeOK'
  <2>1. ReceivePart(d)
    BY DEF ReceivePart
  <2> QED
    BY <1>1, <2>1, TypedPart
<1>5. ViewsAgree'
  BY <1>1, <1>2 DEF ViewsAgree, Agreed, Holds, ViewAt
<1>6. Indices(d.tick) \subseteq 0..d.count - 1 /\ Indices(d.tick)' = Indices(d.tick) \ {d.index}
  BY <1>1, IndicesIn, PartTaken
<1>7. Encoded'
  <2> SUFFICES ASSUME NEW e \in parts', Holds(sent, e.tick)', holding' = grid',
                      Holds(held, e.base)', Cardinality(Indices(e.tick)') >= e.count
               PROVE  \A s \in Ships :
                        Same(ViewAt(held, e.base), ViewAt(sent, e.tick), s)' \/ Named(e.tick, s)'
    BY DEF Encoded
  <2>1. e \in parts
    OBVIOUS
  <2>2. e.tick # d.tick
    <3> SUFFICES ASSUME e.tick = d.tick PROVE FALSE
      OBVIOUS
    <3>1. e.count = d.count
      BY <1>1, <2>1 DEF InTransit
    <3>2. Indices(e.tick)' \subseteq 0..d.count - 1 /\ d.index \notin Indices(e.tick)'
      BY <1>6
    <3>3. ~(Cardinality(Indices(e.tick)') >= d.count)
      BY <1>1, <3>2, PartMissed
    <3> QED
      BY <3>1, <3>3
  <2>3. Indices(e.tick)' = Indices(e.tick) /\ \A s : Named(e.tick, s)' <=> Named(e.tick, s)
    BY <1>1, <2>2, PartTaken
  <2>4. Holds(sent, e.tick) /\ holding = grid /\ Holds(held, e.base) /\ Cardinality(Indices(e.tick)) >= e.count
    BY <1>2, <2>3 DEF Holds
  <2>5. \A s \in Ships : Same(ViewAt(held, e.base), ViewAt(sent, e.tick), s) \/ Named(e.tick, s)
    BY <1>1, <2>1, <2>4 DEF Encoded
  <2> QED
    BY <1>2, <2>3, <2>5 DEF ViewAt, Same
<1>8. Assembling'
  <2>1. (newest > 0 => Holds(held, newest))'
    BY <1>1, <1>2 DEF Assembling, Holds
  <2>2. Flying(newest)' \subseteq Flying(newest)
    BY <1>2 DEF Flying
  <2>3. \A e \in Flying(newest)' : e.index \notin seen' /\ seen' \subseteq 0..e.count - 1
    BY <1>1, <1>2, <2>2 DEF Assembling
  <2>4. ASSUME NEW e \in Flying(newest)', Holds(sent, newest)', holding' = grid',
               Cardinality(seen' \cup Indices(newest)') >= e.count
        PROVE  \A s \in Ships :
                 Same(ViewAt(held, newest), ViewAt(sent, newest), s)' \/ Named(newest, s)'
    <3>1. e \in Flying(newest) /\ e \in parts /\ e.tick = newest
      BY <2>2 DEF Flying
    <3>2. newest # d.tick
      <4> SUFFICES ASSUME newest = d.tick PROVE FALSE
        OBVIOUS
      <4>1. e.count = d.count
        BY <1>1, <3>1 DEF InTransit
      <4>2. d \in Flying(newest)
        BY DEF Flying
      <4>3. d.index \notin seen /\ seen \subseteq 0..d.count - 1
        BY <1>1, <4>2 DEF Assembling
      <4>4. Indices(newest)' = Indices(d.tick)'
        BY <1>2 DEF Indices, Flying
      <4> DEFINE I == seen' \cup Indices(newest)'
      <4>5. I \subseteq 0..d.count - 1 /\ d.index \notin I
        BY <1>2, <1>6, <4>3, <4>4
      <4> HIDE DEF I
      <4>6. ~(Cardinality(I) >= d.count)
        BY <1>1, <4>5, PartMissed
      <4> QED
        BY <2>4, <4>1, <4>6 DEF I
    <3>3. Indices(newest)' = Indices(newest) /\ \A s : Named(newest, s)' <=> Named(newest, s)
      <4>1. \A t : t # d.tick => Indices(t)' = Indices(t) /\ \A s : Named(t, s)' <=> Named(t, s)
        BY <1>1, PartTaken
      <4>2. Indices(newest)' = {f.index : f \in {g \in parts' : g.tick = newest}}
        BY <1>2 DEF Indices, Flying
      <4> QED
        BY <1>2, <3>2, <4>1 DEF Indices, Flying, Named
    <3>4. Holds(sent, newest) /\ holding = grid /\ Cardinality(seen \cup Indices(newest)) >= e.count
      BY <1>2, <2>4, <3>3 DEF Holds
    <3>5. \A s \in Ships : Same(ViewAt(held, newest), ViewAt(sent, newest), s) \/ Named(newest, s)
      BY <1>1, <3>1, <3>4 DEF Assembling
    <3> QED
      BY <1>2, <3>3, <3>5 DEF ViewAt, Same
  <2> QED
    BY <2>1, <2>3, <2>4 DEF Assembling
<1> QED
  BY <1>3, <1>4, <1>5, <1>7, <1>8 DEF IInv


\* The part is of another grid: the receiver lets go of everything.
LEMMA StepLose ==
    ASSUME IInv, NEW d \in parts, parts' = parts \ {d}, LosePlace(d),
           UNCHANGED <<world, changes, senderVars, bulk>>
    PROVE  IInv'
<1>1. TypeOK /\ Clocked
  BY DEF IInv
<1>2. /\ tick' = tick /\ acked' = acked /\ sent' = sent /\ grid' = grid /\ bulk' = bulk
      /\ acks' = acks /\ holding' = NoGrid /\ newest' = 0 /\ seen' = {}
      /\ held' = [i \in Slots |-> Unused]
      /\ pending' = pending /\ world' = world /\ changes' = changes /\ switches' = switches
  BY DEF LosePlace, senderVars
<1>3. MaxTick \in Nat /\ RingTicks \in Nat \ {0} /\ tick \in 0..MaxTick
  BY <1>1, DeltaAssumption DEF TypeOK
<1>4. pending' = <<>> /\ InTransit' /\ Truthful' /\ Clocked' /\ SentShows'
  <2>1. newest' <= tick
    BY <1>2, <1>3
  <2> QED
    BY <1>2, <2>1, WireAfterPart
<1>5. Unused \in [tick : 0..MaxTick, view : Views] /\ Unused.tick = 0
  BY <1>3, EmptyIsView DEF Unused
<1>6. held' \in [Slots -> [tick : 0..MaxTick, view : Views]] /\ \A i \in Slots : held'[i].tick = 0
  BY <1>2, <1>5
<1>7. TypeOK'
  <2>1. ReceivePart(d)
    BY DEF ReceivePart
  <2> QED
    BY <1>1, <2>1, TypedPart
<1>8. \A t \in Nat : ~Holds(held, t)'
  <2>1. \A t \in Nat : SlotOf(t) \in Slots
    BY SlotIs
  <2> QED
    BY <1>6, <2>1 DEF Holds
<1>9. \A e \in parts' : e.tick \in Nat \ {0} /\ e.base \in Nat
  <2>1. \A e \in parts : e.tick \in 1..MaxTick /\ e.base \in 1..MaxTick
    BY <1>1, PartTyped
  <2> QED
    BY <1>3, <2>1
<1>10. Encoded'
  BY <1>8, <1>9 DEF Encoded
<1>11. Assembling'
  <2>1. Flying(newest)' = {}
    BY <1>2, <1>9 DEF Flying
  <2> QED
    BY <1>2, <2>1 DEF Assembling
<1>12. ViewsAgree'
  <2>1. \A t \in Agreed' : t \in Nat
    <3>1. acked' \in Nat /\ \A a \in acks' : a.tick \in Nat
      BY <1>1, <1>2, <1>3 DEF TypeOK
    <3> QED
      BY <3>1 DEF Agreed
  <2>2. Agreed' = {}
    BY <1>8, <2>1 DEF Agreed
  <2> QED
    BY <2>2 DEF ViewsAgree
<1> QED
  BY <1>4, <1>7, <1>10, <1>11, <1>12 DEF IInv


\* The indices seen once part d has been applied.
Now(d) == IF d.tick > newest THEN {d.index}
          ELSE IF d.tick = newest THEN seen \cup {d.index} ELSE seen

\* The part is applied, to its base if it begins a tick and to the tick otherwise.
LEMMA StepApply ==
    ASSUME IInv, NEW d \in parts, parts' = parts \ {d}, ApplyPart(d),
           UNCHANGED <<world, changes, senderVars, bulk>>
    PROVE  IInv'
<1>1. /\ TypeOK /\ Clocked /\ InTransit /\ Truthful /\ Encoded /\ Assembling /\ ViewsAgree
  BY DEF IInv
<1> DEFINE new == [tick |-> d.tick, view |-> Applied(d)]
           t == d.tick
           ack == [grid |-> d.grid, tick |-> d.tick]
<1>2. /\ tick' = tick /\ acked' = acked /\ sent' = sent /\ grid' = grid /\ bulk' = bulk
      /\ pending' = pending /\ world' = world /\ changes' = changes /\ switches' = switches
      /\ holding' = holding /\ d.grid = holding /\ Holds(held, d.base)
      /\ (t < newest => Holds(held, t))
      /\ held' = [held EXCEPT ![SlotOf(t)] = new]
      /\ newest' = Max({newest, t})
      /\ seen' = Now(d)
      /\ acks' = IF Whole(d, Now(d)) THEN acks \cup {ack} ELSE acks
  BY DEF ApplyPart, senderVars, Now
<1>3. /\ MaxTick \in Nat /\ tick \in 0..MaxTick /\ newest \in 0..MaxTick /\ newest <= tick
      /\ t \in 1..MaxTick /\ t <= tick /\ d.base \in 1..MaxTick
      /\ d.index \in 0..Cardinality(Ships) /\ d.count \in 1..(Cardinality(Ships) + 1)
      /\ Cardinality(Ships) \in Nat /\ d.grid \in Grids
  BY <1>1, PartTyped, DeltaAssumption DEF TypeOK, Clocked
<1>4. newest' = IF newest >= t THEN newest ELSE t
  <2>1. newest \in Int /\ t \in Int /\ newest' = Max({newest, t})
    BY <1>2, <1>3
  <2> HIDE DEF t
  <2> QED
    BY <2>1, MinMaxIs
<1>5. /\ d.index \in 0..d.count - 1 /\ d.index \in Indices(t) /\ Indices(t) \subseteq 0..d.count - 1
      /\ Indices(t)' = Indices(t) \ {d.index}
  BY <1>1, IndicesIn, PartTaken
<1>6. held \in [Slots -> [tick : 0..MaxTick, view : Views]]
  BY <1>1 DEF TypeOK
<1>7. \A u \in Nat : Holds(held, u) => ViewAt(held, u) \in Views
  <2> TAKE u \in Nat
  <2>1. SlotOf(u) \in Slots
    BY SlotIs
  <2> QED
    BY <1>6, <2>1 DEF ViewAt
<1>8. Applied(d) \in Views
  <2>1. ViewAt(held, d.base) \in Views /\ (t <= newest => ViewAt(held, t) \in Views)
    <3>1. t <= newest => Holds(held, t)
      BY <1>1, <1>2, <1>3 DEF Assembling
    <3> QED
      BY <1>2, <1>3, <1>7, <3>1
  <2>2. CASE t > newest
    <3>1. Applied(d) = Updated(Without(ViewAt(held, d.base), d.left), d.records)
      BY <2>2 DEF Applied
    <3> QED
      BY <1>1, <2>1, <3>1, PartApplied DEF IsUpdate
  <2>3. CASE ~(t > newest)
    <3>1. Applied(d) = Updated(Without(ViewAt(held, t), d.left), d.records)
      BY <2>3 DEF Applied
    <3>2. t <= newest
      BY <1>3, <2>3
    <3> QED
      BY <1>1, <2>1, <3>1, <3>2, PartApplied DEF IsUpdate
  <2> QED
    BY <2>2, <2>3
<1>9. new.tick = t /\ new.view = Applied(d) /\ new \in [tick : 0..MaxTick, view : Views]
  BY <1>3, <1>8
<1> HIDE DEF new
<1>10. /\ Holds(held, t)' /\ ViewAt(held, t)' = Applied(d)
       /\ \A i \in Slots : held'[i] = IF i = SlotOf(t) THEN new ELSE held[i]
       /\ \A u \in Nat : u # t /\ Holds(held, u)' =>
            Holds(held, u) /\ ViewAt(held, u)' = ViewAt(held, u)
       /\ \A u \in Nat : Holds(held, u) /\ SlotOf(u) # SlotOf(t) =>
            Holds(held, u)' /\ ViewAt(held, u)' = ViewAt(held, u)
  <2> DEFINE h == held'
  <2>1. t \in Nat \ {0} /\ new.tick = t
    BY <1>3, <1>9
  <2>2. \A i \in Slots : h[i] = IF i = SlotOf(t) THEN new ELSE held[i]
    BY <1>2, <1>6
  <2> HIDE DEF h, t
  <2>3. Holds(h, t) /\ ViewAt(h, t) = new.view
    BY <2>1, <2>2, SlotGiven
  <2>4. \A u \in Nat : u # t /\ Holds(h, u) => Holds(held, u) /\ ViewAt(h, u) = ViewAt(held, u)
    BY <2>1, <2>2, SlotGiven
  <2>5. \A u \in Nat : Holds(held, u) /\ SlotOf(u) # SlotOf(t) => Holds(h, u) /\ ViewAt(h, u) = ViewAt(held, u)
    BY <2>1, <2>2, SlotGiven
  <2> QED
    BY <1>9, <2>2, <2>3, <2>4, <2>5 DEF h, Holds, ViewAt
\* What the other parts do not name is as it was sent, if all of them are there.
<1>11. ASSUME t >= newest, Holds(sent, t), holding = grid, Cardinality(Now(d) \cup Indices(t)) >= d.count
       PROVE  \A s \in Ships : Same(Applied(d), ViewAt(sent, t), s) \/ Named(t, s)'
  <2>1. CASE t > newest
    <3>1. Now(d) \cup Indices(t) = Indices(t)
      BY <1>5, <2>1 DEF Now
    <3>2. \A s \in Ships : Same(ViewAt(held, d.base), ViewAt(sent, t), s) \/ Named(t, s)
      BY <1>1, <1>2, <1>11, <3>1 DEF Encoded
    <3>3. Applied(d) = Updated(Without(ViewAt(held, d.base), d.left), d.records)
      BY <2>1 DEF Applied
    <3>4. ViewAt(held, d.base) \in Views
      BY <1>2, <1>3, <1>7
    <3> QED
      BY <1>11, <3>2, <3>3, <3>4, PartSays
  <2>2. CASE t = newest
    <3>1. Now(d) \cup Indices(t) = seen \cup Indices(newest)
      BY <1>3, <1>5, <2>2 DEF Now
    <3>2. d \in Flying(newest)
      BY <2>2 DEF Flying
    <3>3. \A s \in Ships : Same(ViewAt(held, t), ViewAt(sent, t), s) \/ Named(t, s)
      BY <1>1, <1>11, <2>2, <3>1, <3>2 DEF Assembling
    <3>4. Applied(d) = Updated(Without(ViewAt(held, t), d.left), d.records)
      BY <1>3, <2>2 DEF Applied
    <3>5. Holds(held, t)
      BY <1>1, <1>3, <2>2 DEF Assembling
    <3>6. ViewAt(held, t) \in Views
      BY <1>3, <1>7, <3>5
    <3> QED
      BY <1>11, <3>3, <3>4, <3>6, PartSays
  <2> QED
    BY <1>3, <1>11, <2>1, <2>2
<1>12. t >= newest => Now(d) \subseteq 0..d.count - 1
  <2>1. CASE t > newest
    BY <1>5, <2>1 DEF Now
  <2>2. CASE t = newest
    <3>1. d \in Flying(newest)
      BY <2>2 DEF Flying
    <3> QED
      BY <1>1, <1>3, <1>5, <2>2, <3>1 DEF Now, Assembling
  <2> QED
    BY <1>3, <2>1, <2>2
<1>13. ASSUME Whole(d, Now(d)) PROVE \A e \in parts : e.tick = t => e = d
  <2>1. t >= newest /\ Cardinality(Now(d)) >= d.count
    BY <1>13 DEF Whole
  <2> SUFFICES ASSUME NEW e \in parts, e.tick = t, e # d PROVE FALSE
    OBVIOUS
  <2>2. e.index \in Indices(t) /\ e.index # d.index /\ e.index \in 0..d.count - 1
    BY <1>1, <1>5 DEF Indices, Flying, InTransit
  <2>3. e.index \notin Now(d)
    <3>1. CASE t > newest
      BY <2>2, <3>1 DEF Now
    <3>2. CASE t = newest
      <4>1. e \in Flying(newest)
        BY <3>2 DEF Flying
      <4>2. e.index \notin seen
        BY <1>1, <4>1 DEF Assembling
      <4> QED
        BY <1>3, <2>2, <3>2, <4>2 DEF Now
    <3> QED
      BY <1>3, <2>1, <3>1, <3>2
  <2>4. Cardinality(Now(d)) < d.count /\ Cardinality(Now(d)) \in Nat
    <3> DEFINE N == Now(d)
               n == d.count
               i == e.index
    <3>1. n \in Nat /\ N \subseteq 0..n - 1 /\ i \in 0..n - 1 /\ i \notin N
      BY <1>3, <1>12, <2>1, <2>2, <2>3
    <3> HIDE DEF N, n, i
    <3>2. Cardinality(N) < n /\ Cardinality(N) \in Nat
      BY <3>1, CountsShort
    <3> QED
      BY <3>2 DEF N, n
  <2> QED
    BY <1>3, <2>1, <2>4
<1>14. pending' = <<>> /\ InTransit' /\ Truthful' /\ Clocked' /\ SentShows'
  <2>1. newest' <= tick
    BY <1>3, <1>4
  <2>2. \A a \in acks' :
          a \in acks \/ (a.tick = d.tick /\ \A e \in parts : e.tick = d.tick => e = d)
    <3>1. CASE Whole(d, Now(d))
      <4>1. ack.tick = d.tick
        OBVIOUS
      <4> QED
        BY <1>2, <1>13, <3>1, <4>1
    <3>2. CASE ~Whole(d, Now(d))
      BY <1>2, <3>2
    <3> QED
      BY <3>1, <3>2
  <2>3. UNCHANGED senderVars
    OBVIOUS
  <2> QED
    BY <1>2, <2>1, <2>2, <2>3, WireAfterPart
<1>15. TypeOK'
  <2>1. ReceivePart(d)
    BY DEF ReceivePart
  <2> QED
    BY <1>1, <2>1, TypedPart
<1>16. Encoded'
  <2> SUFFICES ASSUME NEW e \in parts', Holds(sent, e.tick)', holding' = grid',
                      Holds(held, e.base)', Cardinality(Indices(e.tick)') >= e.count
               PROVE  \A s \in Ships :
                        Same(ViewAt(held, e.base), ViewAt(sent, e.tick), s)' \/ Named(e.tick, s)'
    BY DEF Encoded
  <2>1. e \in parts /\ e.base \in Nat
    <3>1. e \in parts /\ e.base \in 1..MaxTick
      BY <1>1, PartTyped
    <3> QED
      BY <1>3, <3>1
  <2>2. e.tick # t
    <3> SUFFICES ASSUME e.tick = t PROVE FALSE
      OBVIOUS
    <3>1. e.count = d.count
      BY <1>1, <2>1 DEF InTransit
    <3>2. Indices(e.tick)' \subseteq 0..d.count - 1 /\ d.index \notin Indices(e.tick)'
      BY <1>5
    <3>3. ~(Cardinality(Indices(e.tick)') >= d.count)
      BY <1>1, <3>2, PartMissed
    <3> QED
      BY <3>1, <3>3
  <2>3. Indices(e.tick)' = Indices(e.tick) /\ \A s : Named(e.tick, s)' <=> Named(e.tick, s)
    BY <1>1, <2>2, PartTaken
  <2>4. e.base # t
    BY <1>1, <2>1 DEF InTransit, Settled
  <2>5. Holds(held, e.base) /\ ViewAt(held, e.base)' = ViewAt(held, e.base)
    BY <1>10, <2>1, <2>4
  <2>6. Holds(sent, e.tick) /\ holding = grid /\ Cardinality(Indices(e.tick)) >= e.count
    BY <1>2, <2>3 DEF Holds
  <2>7. \A s \in Ships : Same(ViewAt(held, e.base), ViewAt(sent, e.tick), s) \/ Named(e.tick, s)
    BY <1>1, <2>1, <2>5, <2>6 DEF Encoded
  <2>8. ViewAt(sent, e.tick)' = ViewAt(sent, e.tick)
    BY <1>2 DEF ViewAt
  <2> QED
    BY <2>3, <2>5, <2>7, <2>8 DEF Same
<1>17. Assembling'
  <2>1. (newest > 0 => Holds(held, newest))'
    <3>1. CASE t >= newest
      <4>1. newest' = t
        BY <1>3, <1>4, <3>1
      <4> QED
        BY <1>10, <4>1 DEF Holds
    <3>2. CASE t < newest
      <4>1. newest' = newest /\ newest \in Nat /\ Holds(held, newest)
        BY <1>1, <1>3, <1>4, <3>2 DEF Assembling
      <4>2. SlotOf(newest) # SlotOf(t)
        BY <1>2, <1>3, <3>2, <4>1 DEF Holds
      <4>3. Holds(held, newest)'
        BY <1>10, <4>1, <4>2 DEF Holds
      <4> QED
        BY <4>3
    <3> QED
      BY <1>3, <3>1, <3>2
  <2>2. CASE t >= newest
    <3>1. newest' = t
      BY <1>3, <1>4, <2>2
    <3>2. Flying(newest)' = Flying(t)' /\ Indices(newest)' = Indices(t)' /\ \A s : Named(newest, s)' <=> Named(t, s)'
      BY <3>1 DEF Flying, Indices, Named
    <3>3. ASSUME NEW e \in Flying(newest)'
          PROVE  /\ e \in parts /\ e.tick = t /\ e # d /\ e.count = d.count /\ e.index # d.index
                 /\ e.index \notin seen' /\ seen' \subseteq 0..e.count - 1
      <4>1. e \in parts /\ e # d /\ e.tick = t
        BY <3>2 DEF Flying
      <4>2. e.count = d.count /\ e.index # d.index
        BY <1>1, <4>1 DEF InTransit
      <4>3. e.index \notin Now(d)
        <5>1. CASE t > newest
          BY <4>2, <5>1 DEF Now
        <5>2. CASE t = newest
          <6>1. e \in Flying(newest)
            BY <4>1, <5>2 DEF Flying
          <6>2. e.index \notin seen
            BY <1>1, <6>1 DEF Assembling
          <6> QED
            BY <1>3, <4>2, <5>2, <6>2 DEF Now
        <5> QED
          BY <1>3, <2>2, <5>1, <5>2
      <4> QED
        BY <1>2, <1>12, <2>2, <4>1, <4>2, <4>3
    <3>4. ASSUME NEW e \in Flying(newest)', Holds(sent, newest)', holding' = grid',
                 Cardinality(seen' \cup Indices(newest)') >= e.count
          PROVE  \A s \in Ships :
                   Same(ViewAt(held, newest), ViewAt(sent, newest), s)' \/ Named(newest, s)'
      <4>1. Holds(sent, t) /\ holding = grid
        BY <1>2, <3>1, <3>4 DEF Holds
      <4>2. e.count = d.count
        BY <3>3
      <4>3. d.index \in Now(d)
        BY <1>3, <2>2 DEF Now
      <4>4. seen' \cup Indices(newest)' = Now(d) \cup Indices(t)
        BY <1>2, <1>5, <3>2, <4>3
      <4>5. \A s \in Ships : Same(Applied(d), ViewAt(sent, t), s) \/ Named(t, s)'
        BY <1>11, <2>2, <3>4, <4>1, <4>2, <4>4
      <4>6. ViewAt(held, newest)' = Applied(d) /\ ViewAt(sent, newest)' = ViewAt(sent, t)
        BY <1>2, <1>10, <3>1 DEF ViewAt
      <4> QED
        BY <3>2, <4>5, <4>6 DEF Same
    <3> QED
      BY <2>1, <3>3, <3>4 DEF Assembling
  <2>3. CASE t < newest
    <3>1. newest' = newest /\ newest \in Nat /\ seen' = seen /\ newest > 0
      BY <1>2, <1>3, <1>4, <2>3 DEF Now
    <3>2. Holds(held, newest) /\ SlotOf(newest) # SlotOf(t)
      BY <1>1, <1>2, <1>3, <2>3, <3>1 DEF Assembling, Holds
    <3>3. ViewAt(held, newest)' = ViewAt(held, newest) /\ ViewAt(sent, newest)' = ViewAt(sent, newest)
      BY <1>2, <1>10, <3>1, <3>2 DEF ViewAt
    <3>4. \A u : u # t => Flying(u)' = Flying(u) /\ Indices(u)' = Indices(u) /\ \A s : Named(u, s)' <=> Named(u, s)
      BY <1>1, PartTaken
    <3>5. Flying(newest)' = Flying(newest) /\ Indices(newest)' = Indices(newest)
          /\ \A s : Named(newest, s)' <=> Named(newest, s)
      <4>1. newest # t
        BY <1>3, <2>3
      <4> QED
        BY <3>1, <3>4, <4>1 DEF Flying, Indices, Named
    <3>6. \A e \in Flying(newest)' : e.index \notin seen' /\ seen' \subseteq 0..e.count - 1
      BY <1>1, <3>1, <3>5 DEF Assembling
    <3>7. ASSUME NEW e \in Flying(newest)', Holds(sent, newest)', holding' = grid',
                 Cardinality(seen' \cup Indices(newest)') >= e.count
          PROVE  \A s \in Ships :
                   Same(ViewAt(held, newest), ViewAt(sent, newest), s)' \/ Named(newest, s)'
      <4>1. Holds(sent, newest) /\ holding = grid /\ Cardinality(seen \cup Indices(newest)) >= e.count
        BY <1>2, <3>1, <3>5, <3>7 DEF Holds
      <4>2. \A s \in Ships : Same(ViewAt(held, newest), ViewAt(sent, newest), s) \/ Named(newest, s)
        BY <1>1, <3>5, <4>1 DEF Assembling
      <4> QED
        BY <3>3, <3>5, <4>2 DEF Same
    <3> QED
      BY <2>1, <3>6, <3>7 DEF Assembling
  <2> QED
    BY <1>3, <2>2, <2>3
<1>18. ViewsAgree'
  <2> SUFFICES ASSUME NEW u \in Agreed' PROVE ViewAt(held, u)' = ViewAt(sent, u)'
    BY DEF ViewsAgree, ViewAt
  <2>1. u \in Nat /\ Holds(sent, u) /\ holding = grid /\ Holds(held, u)'
    <3>1. acked' \in Nat /\ \A a \in acks' : a.tick \in Nat
      BY <1>3, <1>15 DEF TypeOK
    <3>2. u \in Nat
      BY <3>1 DEF Agreed
    <3> QED
      BY <1>2, <3>2 DEF Agreed, Holds
  <2>2. ViewAt(sent, u)' = ViewAt(sent, u)
    BY <1>2 DEF ViewAt
  <2>3. CASE u # t
    <3>1. u \in {acked} \cup {a.tick : a \in {b \in acks : b.grid = grid}}
      <4>1. u \in {acked'} \cup {a.tick : a \in {b \in acks' : b.grid = grid'}}
        BY DEF Agreed
      <4>2. \A a \in acks' : a \in acks \/ a.tick = t
        BY <1>2
      <4> QED
        BY <1>2, <2>3, <4>1, <4>2
    <3>2. Holds(held, u) /\ ViewAt(held, u)' = ViewAt(held, u)
      BY <1>10, <2>1, <2>3
    <3>3. u \in Agreed
      BY <2>1, <3>1, <3>2 DEF Agreed
    <3>4. ViewAt(held, u) = ViewAt(sent, u)
      BY <1>1, <3>3 DEF ViewsAgree
    <3> QED
      BY <2>2, <3>2, <3>4
  <2>4. CASE u = t
    <3>1. Whole(d, Now(d))
      <4> SUFFICES ASSUME ~Whole(d, Now(d)) PROVE FALSE
        OBVIOUS
      <4>1. acks' = acks
        BY <1>2
      <4>2. t \in {acked} \cup {a.tick : a \in {b \in acks : b.grid = grid}}
        BY <1>2, <2>4, <4>1 DEF Agreed
      <4>3. Settled(t)
        BY <1>1, <4>2 DEF InTransit
      <4> QED
        BY <4>3 DEF Settled
    <3>2. t >= newest /\ Cardinality(Now(d)) >= d.count
      BY <3>1 DEF Whole
    <3>3. Now(d) \cup Indices(t) = Now(d)
      <4>1. Indices(t) \subseteq {d.index}
        BY <1>13, <3>1 DEF Indices, Flying
      <4>2. d.index \in Now(d)
        BY <1>3, <3>2 DEF Now
      <4> QED
        BY <4>1, <4>2
    <3>4. \A s : ~Named(t, s)'
      BY <1>13, <3>1 DEF Named, Flying
    <3>5. \A s \in Ships : Same(Applied(d), ViewAt(sent, t), s)
      BY <1>11, <2>1, <2>4, <3>2, <3>3, <3>4
    <3>6. ViewAt(sent, t) \in Views
      <4>1. t \in Nat
        BY <1>3
      <4>2. SlotOf(t) \in Slots
        BY <4>1, SlotIs
      <4>3. sent \in [Slots -> [tick : 0..MaxTick, view : Views, truth : Views]]
        BY <1>1 DEF TypeOK
      <4> QED
        BY <4>2, <4>3 DEF ViewAt
    <3>7. Applied(d) = ViewAt(sent, t)
      BY <1>8, <3>5, <3>6, SameViews
    <3> QED
      BY <1>10, <2>2, <2>4, <3>7
  <2> QED
    BY <2>3, <2>4
<1> QED
  BY <1>14, <1>15, <1>16, <1>17, <1>18 DEF IInv

LEMMA StepPart == ASSUME IInv, NEW d \in parts, ReceivePart(d) PROVE IInv'
<1>1. parts' = parts \ {d} /\ UNCHANGED <<world, changes, senderVars, bulk>>
  BY DEF ReceivePart
<1>2. CASE LosePlace(d)
  BY <1>1, <1>2, StepLose
<1>3. CASE OrphanPart(d)
  BY <1>1, <1>3, StepOrphan
<1>4. CASE ApplyPart(d)
  BY <1>1, <1>4, StepApply
<1> QED
  BY <1>2, <1>3, <1>4 DEF ReceivePart

-----------------------------------------------------------------------------
(* The other steps of the receiver, of the world and of the sender's books. *)

LEMMA StepWorld == ASSUME IInv, NEW s \in Ships, NEW g \in Grids, WorldChanges(s, g) PROVE IInv'
<1>1. TypeOK /\ Clocked /\ InTransit /\ Truthful /\ Encoded /\ Assembling /\ SentShows /\ ViewsAgree
      /\ pending = <<>>
  BY DEF IInv
<1>2. /\ tick' = tick /\ acked' = acked /\ sent' = sent /\ grid' = grid /\ bulk' = bulk
      /\ parts' = parts /\ acks' = acks /\ holding' = holding /\ newest' = newest /\ seen' = seen
      /\ held' = held /\ pending' = pending /\ switches' = switches
      /\ changes' = changes + 1 /\ changes < MaxChange
      /\ world' = [world EXCEPT ![s] = [grid |-> g, state |-> changes + 1]]
  BY DEF WorldChanges, senderVars, wireVars, receiverVars
<1>3. TypeOK'
  <2>1. Next
    BY DEF Next
  <2> QED
    BY <1>1, <2>1, TypeKept
<1>4. Clocked'
  BY <1>1, <1>2 DEF Clocked
<1>5. InTransit'
  BY <1>1, <1>2 DEF InTransit, Settled
<1>6. Truthful'
  BY <1>1, <1>2 DEF Truthful, Holds, ViewAt
<1>7. Encoded'
  BY <1>1, <1>2 DEF Encoded, Holds, ViewAt, Indices, Flying, Named, Same
<1>8. Assembling'
  BY <1>1, <1>2 DEF Assembling, Holds, ViewAt, Indices, Flying, Named, Same
<1>9. SentShows' /\ ViewsAgree'
  BY <1>1, <1>2 DEF SentShows, ViewsAgree, Agreed, Holds, ViewAt
<1> QED
  BY <1>1, <1>2, <1>3, <1>4, <1>5, <1>6, <1>7, <1>8, <1>9 DEF IInv

LEMMA StepAck == ASSUME IInv, NEW a \in acks, NoteAck(a) PROVE IInv'
<1>1. TypeOK /\ Clocked /\ InTransit /\ Truthful /\ Encoded /\ Assembling /\ SentShows /\ ViewsAgree
      /\ pending = <<>>
  BY DEF IInv
<1>2. /\ tick' = tick /\ sent' = sent /\ grid' = grid /\ bulk' = bulk
      /\ parts' = parts /\ holding' = holding /\ newest' = newest /\ seen' = seen
      /\ held' = held /\ pending' = pending /\ switches' = switches /\ world' = world
      /\ changes' = changes /\ acks' = acks \ {a}
      /\ acked' = IF a.grid = grid /\ a.tick > acked THEN a.tick ELSE acked
  BY DEF NoteAck, receiverVars
<1>3. acked' = acked \/ (acked' = a.tick /\ a.grid = grid)
  BY <1>2
<1>4. TypeOK'
  <2>1. Next
    BY DEF Next
  <2> QED
    BY <1>1, <2>1, TypeKept
<1>5. Clocked'
  <2>1. acked' <= tick
    BY <1>1, <1>3 DEF Clocked
  <2> QED
    BY <1>1, <1>2, <2>1 DEF Clocked
<1>6. InTransit'
  <2>1. Settled(acked)'
    <3>1. Settled(acked) /\ Settled(a.tick)
      BY <1>1 DEF InTransit
    <3> QED
      BY <1>2, <1>3, <3>1 DEF Settled
  <2>2. \A t : Settled(t)' <=> Settled(t)
    BY <1>2 DEF Settled
  <2> QED
    BY <1>1, <1>2, <2>1, <2>2 DEF InTransit
<1>7. Truthful'
  BY <1>1, <1>2 DEF Truthful, Holds, ViewAt
<1>8. Encoded'
  BY <1>1, <1>2 DEF Encoded, Holds, ViewAt, Indices, Flying, Named, Same
<1>9. Assembling'
  BY <1>1, <1>2 DEF Assembling, Holds, ViewAt, Indices, Flying, Named, Same
<1>10. SentShows'
  BY <1>1, <1>2 DEF SentShows
<1>11. ViewsAgree'
  <2>1. Agreed' \subseteq Agreed
    BY <1>2, <1>3 DEF Agreed, Holds
  <2> QED
    BY <1>1, <1>2, <2>1 DEF ViewsAgree, ViewAt
<1> QED
  BY <1>1, <1>2, <1>4, <1>5, <1>6, <1>7, <1>8, <1>9, <1>10, <1>11 DEF IInv

LEMMA StepSwitch == ASSUME IInv, NEW g \in Grids, SwitchView(g) PROVE IInv'
<1>1. TypeOK /\ Clocked /\ InTransit /\ Assembling
  BY DEF IInv
<1>2. /\ tick' = tick /\ bulk' = bulk /\ parts' = parts /\ acks' = acks /\ holding' = holding
      /\ newest' = newest /\ seen' = seen /\ held' = held /\ world' = world /\ changes' = changes
      /\ switches < MaxSwitch /\ switches' = switches + 1 /\ grid' = g
      /\ sent' = [i \in Slots |-> UnusedSent] /\ pending' = <<>> /\ acked' = 0
  BY DEF SwitchView, wireVars, receiverVars
<1>3. MaxTick \in Nat /\ MaxSwitch \in Nat /\ tick \in 0..MaxTick
  BY <1>1, DeltaAssumption DEF TypeOK
<1>4. UnusedSent \in [tick : 0..MaxTick, view : Views, truth : Views] /\ UnusedSent.tick = 0
  BY <1>3, EmptyIsView DEF UnusedSent
<1>5. /\ sent' \in [Slots -> [tick : 0..MaxTick, view : Views, truth : Views]]
      /\ \A i \in Slots : sent'[i].tick = 0
  BY <1>2, <1>4
<1>6. TypeOK'
  <2>1. Next
    BY DEF Next
  <2> QED
    BY <1>1, <2>1, TypeKept
<1>7. \A t \in Nat : ~Holds(sent, t)'
  <2>1. \A t \in Nat : SlotOf(t) \in Slots
    BY SlotIs
  <2> QED
    BY <1>5, <2>1 DEF Holds
<1>8. /\ \A d \in parts : d.tick \in Nat \ {0} /\ d.base \in Nat
      /\ \A i \in 1..Len(bulk) : bulk[i].tick \in Nat \ {0}
      /\ newest \in Nat
  <2>1. \A d \in parts : d.tick \in 1..MaxTick /\ d.base \in 1..MaxTick
    BY <1>1, PartTyped
  <2>2. \A i \in 1..Len(bulk) : bulk[i].tick \in 1..MaxTick
    BY <1>1, BulkTyped
  <2> QED
    BY <1>1, <1>3, <2>1, <2>2 DEF TypeOK
<1>9. Clocked'
  BY <1>1, <1>2, <1>3, <1>5 DEF Clocked
<1>10. InTransit'
  <2>1. Settled(acked)'
    BY <1>2, <1>8 DEF Settled
  <2>2. \A t : Settled(t)' <=> Settled(t)
    BY <1>2 DEF Settled
  <2> QED
    BY <1>1, <1>2, <2>1, <2>2 DEF InTransit
<1>11. Truthful'
  BY <1>2, <1>7, <1>8 DEF Truthful
<1>12. Encoded'
  BY <1>2, <1>7, <1>8 DEF Encoded
<1>13. Assembling'
  <2>1. ~Holds(sent, newest)'
    BY <1>2, <1>7, <1>8
  <2>2. (newest > 0 => Holds(held, newest))'
    BY <1>1, <1>2 DEF Assembling, Holds
  <2>3. (\A d \in Flying(newest) : d.index \notin seen /\ seen \subseteq 0..d.count - 1)'
    BY <1>1, <1>2 DEF Assembling, Flying
  <2> QED
    BY <2>1, <2>2, <2>3 DEF Assembling
<1>14. SentShows'
  BY <1>5 DEF SentShows
<1>15. ViewsAgree'
  <2>1. \A t \in Agreed' : t \in Nat
    <3>1. acked' \in Nat /\ \A a \in acks' : a.tick \in Nat
      BY <1>1, <1>2, <1>3 DEF TypeOK
    <3> QED
      BY <3>1 DEF Agreed
  <2>2. Agreed' = {}
    BY <1>7, <2>1 DEF Agreed
  <2> QED
    BY <2>2 DEF ViewsAgree
<1> QED
  BY <1>2, <1>6, <1>9, <1>10, <1>11, <1>12, <1>13, <1>14, <1>15 DEF IInv


\* A keyframe is what the sender's ring says, and the receiver keeps nothing else.
LEMMA StepKeyframe == ASSUME IInv, ReceiveKeyframe PROVE IInv'
<1>1. TypeOK /\ Clocked /\ InTransit /\ Truthful /\ Encoded /\ Assembling /\ SentShows /\ ViewsAgree
      /\ pending = <<>>
  BY DEF IInv
<1>0. PICK k : k = Head(bulk)
  OBVIOUS
<1> DEFINE t == k.tick
           slot == [tick |-> k.tick, view |-> k.view]
           ack == [grid |-> k.grid, tick |-> k.tick]
<1>2. /\ tick' = tick /\ acked' = acked /\ sent' = sent /\ grid' = grid /\ parts' = parts
      /\ pending' = pending /\ world' = world /\ changes' = changes /\ switches' = switches
      /\ bulk # <<>> /\ bulk' = Tail(bulk)
      /\ holding' = k.grid /\ newest' = t /\ seen' = {0}
      /\ held' = [[i \in Slots |-> Unused] EXCEPT ![SlotOf(t)] = slot]
      /\ acks' = acks \cup {ack}
  BY <1>0 DEF ReceiveKeyframe, senderVars
<1>3. /\ MaxTick \in Nat /\ tick \in 0..MaxTick /\ Cardinality(Ships) \in Nat
      /\ bulk \in Seq([tick : 1..MaxTick, grid : Grids, view : Views])
  BY <1>1, DeltaAssumption, FS_CardinalityType DEF TypeOK
<1>4. /\ Len(bulk) \in Nat \ {0} /\ k = bulk[1] /\ k \in [tick : 1..MaxTick, grid : Grids, view : Views]
      /\ \A i \in 1..Len(Tail(bulk)) : Tail(bulk)[i] = bulk[i + 1] /\ i + 1 \in 1..Len(bulk)
      /\ Tail(bulk) \in Seq([tick : 1..MaxTick, grid : Grids, view : Views])
  <2> DEFINE K == [tick : 1..MaxTick, grid : Grids, view : Views]
  <2>1. bulk \in Seq(K) /\ bulk # <<>> /\ k = Head(bulk)
    BY <1>0, <1>2, <1>3
  <2> HIDE DEF K
  <2>2. Len(bulk) \in Nat \ {0} /\ k = bulk[1] /\ k \in K
    BY <2>1
  <2>3. Tail(bulk) \in Seq(K) /\ Len(Tail(bulk)) = Len(bulk) - 1
    BY <2>1
  <2>4. \A i \in 1..Len(Tail(bulk)) : Tail(bulk)[i] = bulk[i + 1] /\ i + 1 \in 1..Len(bulk)
    BY <2>1, <2>2, <2>3
  <2> QED
    BY <2>2, <2>3, <2>4 DEF K
<1>5. t \in 1..MaxTick /\ k.grid \in Grids /\ k.view \in Views /\ t \in Nat \ {0} /\ t \in 0..MaxTick
  BY <1>3, <1>4
<1>6. SlotOf(t) \in Slots
  BY <1>5, SlotIs
<1>7. Unused.tick = 0 /\ Unused \in [tick : 0..MaxTick, view : Views]
  BY <1>3, EmptyIsView DEF Unused
<1>8. /\ slot.tick = t /\ slot.view = k.view /\ slot \in [tick : 0..MaxTick, view : Views]
      /\ ack.tick = t /\ ack.grid = k.grid /\ ack \in [grid : Grids, tick : 1..MaxTick]
  BY <1>5
<1> HIDE DEF t, slot, ack
<1>9. /\ \A i \in Slots : held'[i] = IF i = SlotOf(t) THEN slot ELSE Unused
      /\ held' \in [Slots -> [tick : 0..MaxTick, view : Views]]
  BY <1>2, <1>6, <1>7, <1>8
<1>10. /\ Holds(held, t)' /\ ViewAt(held, t)' = k.view
       /\ \A u \in Nat : Holds(held, u)' => u = t
  <2>1. Holds(held', t) /\ ViewAt(held', t) = k.view
    BY <1>5, <1>6, <1>8, <1>9 DEF Holds, ViewAt
  <2>2. \A u \in Nat : Holds(held', u) => u = t
    <3>1. \A u \in Nat : SlotOf(u) \in Slots
      BY SlotIs
    <3> QED
      BY <1>7, <1>8, <1>9, <3>1 DEF Holds
  <2> QED
    BY <1>2, <2>1, <2>2 DEF Holds, ViewAt
<1>11. Settled(t)'
  <2>1. \A d \in parts : d.tick # t
    <3>1. bulk[1].tick = t /\ 1 \in 1..Len(bulk)
      BY <1>4 DEF t
    <3> QED
      BY <1>1, <3>1 DEF InTransit
  <2>2. \A i \in 1..Len(bulk') : bulk'[i].tick # t
    <3> TAKE i \in 1..Len(bulk')
    <3>1. bulk'[i] = bulk[i + 1] /\ i + 1 \in 1..Len(bulk) /\ 1 \in 1..Len(bulk) /\ i + 1 # 1
      BY <1>2, <1>4
    <3>2. bulk[1].tick = t
      BY <1>4 DEF t
    <3> QED
      BY <1>1, <3>1, <3>2 DEF InTransit
  <2> QED
    BY <1>2, <2>1, <2>2 DEF Settled
<1>12. \A i \in 1..Len(bulk') : \E j \in 1..Len(bulk) : bulk'[i] = bulk[j]
  BY <1>2, <1>4
<1>13. \A u : Settled(u) => Settled(u)'
  BY <1>2, <1>12 DEF Settled
<1>14. TypeOK'
  BY <1>1, TypedKeyframe
<1>15. Clocked'
  <2>1. t <= tick
    BY <1>1, <1>4 DEF Clocked, t
  <2>2. \A i \in 1..Len(bulk') : bulk'[i].tick <= tick
    BY <1>1, <1>12 DEF Clocked
  <2> QED
    BY <1>1, <1>2, <1>8, <2>1, <2>2 DEF Clocked
<1>16. InTransit'
  <2>1. \A a \in acks' : Settled(a.tick)'
    BY <1>1, <1>2, <1>8, <1>11, <1>13 DEF InTransit
  <2>2. (\A d \in parts' : Settled(d.base)') /\ Settled(acked)'
    BY <1>1, <1>2, <1>13 DEF InTransit
  <2>3. \A d \in parts' : \A i \in 1..Len(bulk') : bulk'[i].tick # d.tick
    BY <1>1, <1>2, <1>12 DEF InTransit
  <2>4. \A i, j \in 1..Len(bulk') : bulk'[i].tick = bulk'[j].tick => i = j
    <3> TAKE i, j \in 1..Len(bulk')
    <3>1. /\ bulk'[i] = bulk[i + 1] /\ i + 1 \in 1..Len(bulk)
          /\ bulk'[j] = bulk[j + 1] /\ j + 1 \in 1..Len(bulk)
      BY <1>2, <1>4
    <3>2. bulk'[i].tick = bulk'[j].tick => i + 1 = j + 1
      BY <1>1, <3>1 DEF InTransit
    <3> QED
      BY <3>2
  <2> QED
    BY <1>1, <1>2, <2>1, <2>2, <2>3, <2>4 DEF InTransit
<1>17. Truthful'
  <2>1. \A u : (Holds(sent, u)' <=> Holds(sent, u)) /\ ViewAt(sent, u)' = ViewAt(sent, u)
    BY <1>2 DEF Holds, ViewAt
  <2>2. \A i \in 1..Len(bulk') : Holds(sent, bulk'[i].tick) => ViewAt(sent, bulk'[i].tick) = bulk'[i].view
    BY <1>1, <1>12 DEF Truthful
  <2> QED
    BY <1>1, <1>2, <2>1, <2>2 DEF Truthful
<1>18. Encoded'
  <2> SUFFICES ASSUME NEW d \in parts, Holds(held, d.base)' PROVE FALSE
    BY <1>2 DEF Encoded
  <2>1. d.base \in Nat
    <3>1. d.base \in 1..MaxTick
      BY <1>1, PartTyped
    <3> QED
      BY <1>3, <3>1
  <2>2. d.base = t
    BY <1>10, <2>1 DEF Holds
  <2>3. Settled(d.base)
    BY <1>1 DEF InTransit
  <2>4. bulk[1].tick = t /\ 1 \in 1..Len(bulk)
    BY <1>4 DEF t
  <2> QED
    BY <2>2, <2>3, <2>4 DEF Settled
<1>19. Assembling'
  <2>1. Flying(newest)' = {}
    BY <1>2, <1>11 DEF Flying, Settled
  <2>2. (newest > 0 => Holds(held, newest))'
    BY <1>2, <1>10 DEF Holds
  <2> QED
    BY <2>1, <2>2 DEF Assembling
<1>20. SentShows'
  BY <1>1, <1>2 DEF SentShows
<1>21. ViewsAgree'
  <2> SUFFICES ASSUME NEW u \in Agreed' PROVE ViewAt(held, u)' = ViewAt(sent, u)'
    BY DEF ViewsAgree, ViewAt
  <2>1. u \in Nat
    <3>1. acked' \in Nat /\ \A a \in acks' : a.tick \in Nat
      BY <1>3, <1>14 DEF TypeOK
    <3> QED
      BY <3>1 DEF Agreed
  <2>2. u = t /\ Holds(sent, t)
    <3>1. Holds(held, u)' /\ Holds(sent, u)
      BY <1>2 DEF Agreed, Holds
    <3> QED
      BY <1>10, <2>1, <3>1
  <2>3. ViewAt(sent, t) = k.view
    <3>1. bulk[1].tick = t /\ bulk[1].view = k.view /\ 1 \in 1..Len(bulk)
      BY <1>4 DEF t
    <3> QED
      BY <1>1, <2>2, <3>1 DEF Truthful
  <2> QED
    BY <1>2, <1>10, <2>2, <2>3 DEF ViewAt
<1> QED
  BY <1>1, <1>2, <1>14, <1>15, <1>16, <1>17, <1>18, <1>19, <1>20, <1>21 DEF IInv


-----------------------------------------------------------------------------
(* A tick is sent: it is new at both ends, and what is older is as it was. *)

LEMMA RingSent ==
    ASSUME TypeOK, Clocked, NEW n, n = tick + 1, tick < MaxTick,
           NEW view \in Views, NEW truth \in Views,
           sent' = [sent EXCEPT ![SlotOf(n)] = [tick |-> n, view |-> view, truth |-> truth]]
    PROVE  /\ sent' \in [Slots -> [tick : 0..MaxTick, view : Views, truth : Views]]
           /\ \A i \in Slots : sent'[i].tick = 0 \/ SlotOf(sent'[i].tick) = i
           /\ \A i \in Slots : sent'[i].tick <= n
           /\ \A i \in Slots :
                \/ sent'[i].tick = sent[i].tick /\ sent'[i].view = sent[i].view
                     /\ sent'[i].truth = sent[i].truth
                \/ sent'[i].tick = n /\ sent'[i].view = view /\ sent'[i].truth = truth
           /\ Holds(sent, n)' /\ ViewAt(sent, n)' = view
           /\ \A u \in Nat : u # n /\ Holds(sent, u)' =>
                Holds(sent, u) /\ ViewAt(sent, u)' = ViewAt(sent, u)
<1>1. /\ MaxTick \in Nat /\ tick \in 0..MaxTick /\ n \in Nat \ {0} /\ n \in 0..MaxTick
      /\ sent \in [Slots -> [tick : 0..MaxTick, view : Views, truth : Views]]
      /\ \A i \in Slots : sent[i].tick = 0 \/ SlotOf(sent[i].tick) = i
      /\ \A i \in Slots : sent[i].tick <= tick
  BY DeltaAssumption DEF TypeOK, Clocked
<1> DEFINE r == [tick |-> n, view |-> view, truth |-> truth]
           X == [tick : 0..MaxTick, view : Views, truth : Views]
           h == sent'
<1>2. /\ r.tick = n /\ r.view = view /\ r.truth = truth /\ r \in X
      /\ sent \in [Slots -> X] /\ h = [sent EXCEPT ![SlotOf(n)] = r]
  BY <1>1
<1>3. \A x \in X : x.tick \in Int
  OBVIOUS
<1> HIDE DEF r, X, h
<1>4. SlotOf(n) \in Slots
  BY <1>1, SlotIs
<1>5. h \in [Slots -> X] /\ \A i \in Slots : h[i] = IF i = SlotOf(n) THEN r ELSE sent[i]
  BY <1>2, <1>4
<1>5a. n \in Nat \ {0} /\ r.tick = n
  BY <1>1, <1>2
<1>5b. \A i \in Slots : h[i] = IF i = SlotOf(n) THEN r ELSE sent[i]
  BY <1>5
<1>6. Holds(h, n) /\ ViewAt(h, n) = r.view
  BY <1>5a, <1>5b, SlotGiven
<1>7. \A u \in Nat : u # n /\ Holds(h, u) => Holds(sent, u) /\ ViewAt(h, u) = ViewAt(sent, u)
  BY <1>5a, <1>5b, SlotGiven
<1>8. \A i \in Slots : h[i].tick = 0 \/ SlotOf(h[i].tick) = i
  BY <1>1, <1>2, <1>5
<1>9. \A i \in Slots : h[i].tick <= n
  <2> TAKE i \in Slots
  <2>1. CASE i = SlotOf(n)
    BY <1>1, <1>2, <1>5, <2>1
  <2>2. CASE i # SlotOf(n)
    <3>1. h[i] = sent[i] /\ sent[i].tick \in Int /\ sent[i].tick <= tick
      BY <1>1, <1>2, <1>3, <1>5, <2>2
    <3> QED
      BY <1>1, <3>1
  <2> QED
    BY <2>1, <2>2
<1>10. \A i \in Slots : h[i] = sent[i] \/ h[i] = r
  BY <1>5
<1> QED
  BY <1>2, <1>5, <1>6, <1>7, <1>8, <1>9, <1>10 DEF h, X, Holds, ViewAt

LEMMA SendKeeps ==
    ASSUME IInv, NEW n, n = tick + 1, tick < MaxTick, tick' = n, NEW view \in Views, Record(view),
           DOMAIN view \subseteq OnGrid(grid),
           \A s \in Owned \cap OnGrid(grid) : s \in DOMAIN view /\ view[s] = world[s].state,
           UNCHANGED <<world, changes, grid, acked, switches, acks, receiverVars>>,
           parts \subseteq parts', \A d \in parts' : d \in parts \/ d.tick = n,
           \A i \in 1..Len(bulk') : bulk'[i].tick = n \/ \E j \in 1..Len(bulk) : bulk'[i] = bulk[j]
    PROVE  /\ sent' \in [Slots -> [tick : 0..MaxTick, view : Views, truth : Views]]
           /\ \A i \in Slots : sent'[i].tick = 0 \/ SlotOf(sent'[i].tick) = i
           /\ \A i \in Slots : sent'[i].tick <= n
           /\ Holds(sent, n)' /\ ViewAt(sent, n)' = view
           /\ \A u \in Nat : u <= tick /\ Holds(sent, u)' =>
                Holds(sent, u) /\ ViewAt(sent, u)' = ViewAt(sent, u)
           /\ \A u \in Nat : u <= tick /\ Settled(u) => Settled(u)'
           /\ \A d \in parts :
                Holds(sent, d.tick)' /\ holding' = grid' /\ Holds(held, d.base)'
                  /\ Cardinality(Indices(d.tick)') >= d.count =>
                    \A s \in Ships :
                      Same(ViewAt(held, d.base), ViewAt(sent, d.tick), s)' \/ Named(d.tick, s)'
           /\ SentShows' /\ Assembling' /\ ViewsAgree'
<1>1. /\ TypeOK /\ Clocked /\ InTransit /\ Truthful /\ Encoded /\ Assembling /\ SentShows
      /\ ViewsAgree
  BY DEF IInv
<1>2. /\ world' = world /\ changes' = changes /\ grid' = grid /\ acked' = acked /\ acks' = acks
      /\ holding' = holding /\ newest' = newest /\ seen' = seen /\ held' = held
  BY DEF receiverVars
<1>3. MaxTick \in Nat /\ tick \in 0..MaxTick /\ newest \in 0..MaxTick /\ newest <= tick /\ n \in Nat
  BY <1>1, DeltaAssumption DEF TypeOK, Clocked
<1> DEFINE here == OnGrid(grid)
           truth == TrueView(here)
<1>4. here \subseteq Ships /\ truth \in Views /\ DOMAIN truth = here
      /\ \A s \in here : truth[s] = world[s].state
  <2>1. here \subseteq Ships
    BY DEF OnGrid
  <2> HIDE DEF here
  <2> QED
    BY <1>1, <2>1, TrueViewIs
<1>5. sent' = [sent EXCEPT ![SlotOf(n)] = [tick |-> n, view |-> view, truth |-> truth]]
  BY DEF Record
<1> HIDE DEF here, truth
<1>6. /\ sent' \in [Slots -> [tick : 0..MaxTick, view : Views, truth : Views]]
      /\ \A i \in Slots : sent'[i].tick = 0 \/ SlotOf(sent'[i].tick) = i
      /\ \A i \in Slots : sent'[i].tick <= n
      /\ \A i \in Slots :
                \/ sent'[i].tick = sent[i].tick /\ sent'[i].view = sent[i].view
                     /\ sent'[i].truth = sent[i].truth
                \/ sent'[i].tick = n /\ sent'[i].view = view /\ sent'[i].truth = truth
      /\ Holds(sent, n)' /\ ViewAt(sent, n)' = view
      /\ \A u \in Nat : u # n /\ Holds(sent, u)' =>
                Holds(sent, u) /\ ViewAt(sent, u)' = ViewAt(sent, u)
  BY ZenonT(40), <1>1, <1>4, <1>5, RingSent
<1>7. \A u \in Nat : u <= tick /\ Holds(sent, u)' =>
                Holds(sent, u) /\ ViewAt(sent, u)' = ViewAt(sent, u)
  <2>1. \A u \in Nat : u <= tick => u # n
    BY <1>3
  <2> QED
    BY <1>6, <2>1
<1>8. \A u \in Nat : u <= tick => Flying(u)' = Flying(u)
  BY <1>3 DEF Flying
<1>9. \A u \in Nat : u <= tick => Indices(u)' = Indices(u) /\ \A s : Named(u, s)' <=> Named(u, s)
  BY <1>8 DEF Indices, Named
<1>10. \A u \in Nat : u <= tick /\ Settled(u) => Settled(u)'
  BY <1>3 DEF Settled
<1>11. \A d \in parts : d.tick \in Nat /\ d.tick <= tick /\ d.base \in Nat
  <2>1. \A d \in parts : d.tick \in 1..MaxTick /\ d.base \in 1..MaxTick
    BY <1>1, PartTyped
  <2> QED
    BY <1>1, <1>3, <2>1 DEF Clocked
<1>12. ASSUME NEW d \in parts, Holds(sent, d.tick)', holding' = grid', Holds(held, d.base)',
              Cardinality(Indices(d.tick)') >= d.count
       PROVE  \A s \in Ships :
                Same(ViewAt(held, d.base), ViewAt(sent, d.tick), s)' \/ Named(d.tick, s)'
  <2>1. Holds(sent, d.tick) /\ ViewAt(sent, d.tick)' = ViewAt(sent, d.tick)
    BY <1>7, <1>11, <1>12
  <2>2. Indices(d.tick)' = Indices(d.tick) /\ \A s : Named(d.tick, s)' <=> Named(d.tick, s)
    BY <1>9, <1>11
  <2>3. \A s \in Ships : Same(ViewAt(held, d.base), ViewAt(sent, d.tick), s) \/ Named(d.tick, s)
    BY <1>1, <1>2, <1>12, <2>1, <2>2 DEF Encoded, Holds
  <2> QED
    BY <1>2, <2>1, <2>2, <2>3 DEF Same, ViewAt
<1>13. SentShows'
  <2> SUFFICES ASSUME NEW i \in Slots, sent'[i].tick > 0
               PROVE  /\ DOMAIN sent'[i].view \subseteq DOMAIN sent'[i].truth
                      /\ \A s \in Owned \cap DOMAIN sent'[i].truth :
                           s \in DOMAIN sent'[i].view /\ sent'[i].view[s] = sent'[i].truth[s]
    BY DEF SentShows
  <2>1. CASE sent'[i].tick = sent[i].tick /\ sent'[i].view = sent[i].view
               /\ sent'[i].truth = sent[i].truth
    BY <1>1, <2>1 DEF SentShows
  <2>2. CASE sent'[i].tick = n /\ sent'[i].view = view /\ sent'[i].truth = truth
    BY <1>4, <2>2 DEF here
  <2> QED
    BY <1>6, <2>1, <2>2
<1>14. Assembling'
  <2>1. newest \in Nat /\ newest <= tick
    BY <1>3
  <2>2. Flying(newest)' = Flying(newest) /\ Indices(newest)' = Indices(newest)
        /\ \A s : Named(newest, s)' <=> Named(newest, s)
    BY <1>2, <1>8, <1>9, <2>1 DEF Flying, Indices, Named
  <2>3. (newest > 0 => Holds(held, newest))'
    BY <1>1, <1>2 DEF Assembling, Holds
  <2>4. \A d \in Flying(newest)' : d.index \notin seen' /\ seen' \subseteq 0..d.count - 1
    BY <1>1, <1>2, <2>2 DEF Assembling
  <2>5. ASSUME NEW d \in Flying(newest)', Holds(sent, newest)', holding' = grid',
               Cardinality(seen' \cup Indices(newest)') >= d.count
        PROVE  \A s \in Ships :
                 Same(ViewAt(held, newest), ViewAt(sent, newest), s)' \/ Named(newest, s)'
    <3>1. Holds(sent, newest) /\ ViewAt(sent, newest)' = ViewAt(sent, newest)
      BY <1>2, <1>7, <2>1, <2>5 DEF Holds, ViewAt
    <3>2. \A s \in Ships : Same(ViewAt(held, newest), ViewAt(sent, newest), s) \/ Named(newest, s)
      BY <1>1, <1>2, <2>2, <2>5, <3>1 DEF Assembling
    <3> QED
      BY <1>2, <2>2, <3>1, <3>2 DEF Same, ViewAt
  <2> QED
    BY <2>3, <2>4, <2>5 DEF Assembling
<1>15. ViewsAgree'
  <2> SUFFICES ASSUME NEW u \in Agreed' PROVE ViewAt(held, u)' = ViewAt(sent, u)'
    BY DEF ViewsAgree, ViewAt
  <2>1. u \in Nat /\ u <= tick
    <3>1. acked \in Nat /\ acked <= tick /\ \A a \in acks : a.tick \in Nat /\ a.tick <= tick
      BY <1>1, <1>3 DEF TypeOK, Clocked
    <3> QED
      BY <1>2, <3>1 DEF Agreed
  <2>2. Holds(sent, u) /\ ViewAt(sent, u)' = ViewAt(sent, u)
    <3>1. Holds(sent, u)'
      BY DEF Agreed, Holds
    <3> QED
      BY <1>7, <2>1, <3>1
  <2>3. u \in Agreed
    BY <1>2, <2>2 DEF Agreed, Holds
  <2> QED
    BY <1>1, <1>2, <2>2, <2>3 DEF ViewsAgree, ViewAt
<1> QED
  BY <1>6, <1>7, <1>10, <1>12, <1>13, <1>14, <1>15


LEMMA StepSendKeyframe ==
    ASSUME IInv, tick < MaxTick, tick' = tick + 1, NEW ids \in SUBSET Ships, Interest(ids),
           SendKeyframe(ids), UNCHANGED <<world, changes, grid, acked, switches, acks, receiverVars>>
    PROVE  IInv'
<1>1. TypeOK /\ Clocked /\ InTransit /\ Truthful
  BY DEF IInv
<1>0. PICK n : n = tick + 1
  OBVIOUS
<1>2. /\ world' = world /\ changes' = changes /\ grid' = grid /\ acked' = acked /\ acks' = acks
      /\ holding' = holding /\ newest' = newest /\ seen' = seen /\ held' = held
      /\ switches' = switches /\ parts' = parts /\ pending' = <<>> /\ tick' = n
      /\ Record(TrueView(ids))
      /\ bulk' = Append(bulk, [tick |-> n, grid |-> grid, view |-> TrueView(ids)])
  BY <1>0 DEF SendKeyframe, receiverVars
<1>3. MaxTick \in Nat /\ tick \in 0..MaxTick /\ newest <= tick /\ n \in 1..MaxTick /\ n \in Nat
      /\ n \in 0..MaxTick
  BY SMTT(30), <1>0, <1>1, DeltaAssumption DEF TypeOK, Clocked
<1> DEFINE v == TrueView(ids)
           k == [tick |-> n, grid |-> grid, view |-> v]
           K == [tick : 1..MaxTick, grid : Grids, view : Views]
<1>4. /\ v \in Views /\ DOMAIN v = ids /\ \A s \in ids : v[s] = world[s].state
  BY <1>1, TrueViewIs
<1>5. /\ DOMAIN v \subseteq OnGrid(grid)
      /\ \A s \in Owned \cap OnGrid(grid) : s \in DOMAIN v /\ v[s] = world[s].state
  BY <1>4 DEF Interest
<1>6. k.tick = n /\ k.view = v /\ k \in K /\ bulk \in Seq(K)
  BY <1>1, <1>3, <1>4 DEF TypeOK
<1>7. bulk' = Append(bulk, k)
  BY <1>2
<1> HIDE DEF k, K
<1>8. /\ bulk' \in Seq(K) /\ Len(bulk) \in Nat /\ Len(bulk') = Len(bulk) + 1
      /\ \A i \in 1..Len(bulk) : bulk'[i] = bulk[i]
      /\ bulk'[Len(bulk) + 1] = k
  BY <1>6, <1>7
<1>9. \A i \in 1..Len(bulk') :
        (i = Len(bulk) + 1 /\ bulk'[i] = k) \/ (i \in 1..Len(bulk) /\ bulk'[i] = bulk[i])
  BY <1>8
<1>10. \A i \in 1..Len(bulk') : bulk'[i].tick = n \/ \E j \in 1..Len(bulk) : bulk'[i] = bulk[j]
  BY <1>6, <1>9
<1> HIDE DEF v
<1>11. /\ sent' \in [Slots -> [tick : 0..MaxTick, view : Views, truth : Views]]
       /\ \A i \in Slots : sent'[i].tick = 0 \/ SlotOf(sent'[i].tick) = i
       /\ \A i \in Slots : sent'[i].tick <= n
       /\ Holds(sent, n)' /\ ViewAt(sent, n)' = v
       /\ \A u \in Nat : u <= tick /\ Holds(sent, u)' =>
                Holds(sent, u) /\ ViewAt(sent, u)' = ViewAt(sent, u)
       /\ \A u \in Nat : u <= tick /\ Settled(u) => Settled(u)'
       /\ \A d \in parts :
                Holds(sent, d.tick)' /\ holding' = grid' /\ Holds(held, d.base)'
                  /\ Cardinality(Indices(d.tick)') >= d.count =>
                    \A s \in Ships :
                      Same(ViewAt(held, d.base), ViewAt(sent, d.tick), s)' \/ Named(d.tick, s)'
       /\ SentShows' /\ Assembling' /\ ViewsAgree'
  <2>1. Record(v) /\ (parts \subseteq parts') /\ (\A d \in parts' : d \in parts \/ d.tick = n)
    BY <1>2 DEF v
  <2> QED
    BY <1>0, <1>2, <1>4, <1>5, <1>10, <2>1, SendKeeps
<1>12. /\ \A d \in parts : d.tick \in Nat /\ d.tick <= tick /\ d.base \in Nat /\ d.base <= tick
       /\ \A i \in 1..Len(bulk) : bulk[i].tick \in Nat /\ bulk[i].tick <= tick
       /\ \A a \in acks : a.tick \in Nat /\ a.tick <= tick
       /\ acked \in Nat /\ acked <= tick
  <2>1. \A d \in parts : d.tick \in 1..MaxTick /\ d.base \in 1..MaxTick
    BY <1>1, PartTyped
  <2>2. \A i \in 1..Len(bulk) : bulk[i].tick \in 1..MaxTick
    BY <1>1, BulkTyped
  <2>3. acked \in Nat /\ \A a \in acks : a.tick \in Nat
    BY <1>1, <1>3 DEF TypeOK
  <2> QED
    BY <1>1, <1>3, <2>1, <2>2, <2>3 DEF Clocked
<1>13. TypeOK'
  BY <1>1, TypedSendKeyframe
<1>14. Clocked'
  <2>1. \A i \in 1..Len(bulk') : bulk'[i].tick <= tick'
    BY <1>0, <1>2, <1>3, <1>6, <1>9, <1>12
  <2>2. \A d \in parts' : d.tick <= tick' /\ d.base <= tick'
    BY <1>0, <1>2, <1>3, <1>12
  <2>3. (\A a \in acks' : a.tick <= tick') /\ acked' <= tick' /\ newest' <= tick'
    BY <1>0, <1>1, <1>2, <1>3, <1>12 DEF TypeOK
  <2>4. \A i \in Slots : sent'[i].tick <= tick'
    BY <1>2, <1>11
  <2> QED
    BY <2>1, <2>2, <2>3, <2>4 DEF Clocked
<1>15. InTransit'
  <2>1. (\A d \in parts : Settled(d.base)') /\ (\A a \in acks : Settled(a.tick)')
    BY <1>1, <1>11, <1>12 DEF InTransit
  <2>2. Settled(acked)'
    BY <1>1, <1>2, <1>11, <1>12 DEF InTransit, Settled
  <2>3. \A d \in parts' : \A i \in 1..Len(bulk') : bulk'[i].tick # d.tick
    <3> TAKE d \in parts'
    <3> TAKE i \in 1..Len(bulk')
    <3>1. d \in parts /\ d.tick # n
      BY <1>0, <1>2, <1>3, <1>12
    <3>2. CASE i \in 1..Len(bulk) /\ bulk'[i] = bulk[i]
      BY <1>1, <3>1, <3>2 DEF InTransit
    <3> QED
      BY <1>6, <1>9, <3>1, <3>2
  <2>4. \A i, j \in 1..Len(bulk') : bulk'[i].tick = bulk'[j].tick => i = j
    <3> TAKE i, j \in 1..Len(bulk')
    <3>1. \A m \in 1..Len(bulk) : bulk[m].tick # n
      BY <1>0, <1>3, <1>12
    <3>2. CASE i \in 1..Len(bulk) /\ bulk'[i] = bulk[i]
      <4>1. CASE j \in 1..Len(bulk) /\ bulk'[j] = bulk[j]
        BY <1>1, <3>2, <4>1 DEF InTransit
      <4> QED
        BY <1>6, <1>9, <3>1, <3>2, <4>1
    <3>3. CASE i = Len(bulk) + 1 /\ bulk'[i] = k
      <4>1. CASE j \in 1..Len(bulk) /\ bulk'[j] = bulk[j]
        BY <1>6, <3>1, <3>3, <4>1
      <4> QED
        BY <1>9, <3>3, <4>1
    <3> QED
      BY <1>9, <3>2, <3>3
  <2> QED
    BY <1>1, <1>2, <2>1, <2>2, <2>3, <2>4 DEF InTransit
<1>16. Truthful'
  <2>1. \A i \in 1..Len(bulk') :
          Holds(sent', bulk'[i].tick) => ViewAt(sent', bulk'[i].tick) = bulk'[i].view
    <3> TAKE i \in 1..Len(bulk')
    <3>1. CASE bulk'[i] = k
      <4>1. ViewAt(sent', n) = v
        BY <1>11 DEF ViewAt
      <4> QED
        BY <1>6, <3>1, <4>1
    <3>2. CASE i \in 1..Len(bulk) /\ bulk'[i] = bulk[i]
      <4>1. PICK u : u = bulk[i].tick
        OBVIOUS
      <4>2. Holds(sent, u) => ViewAt(sent, u) = bulk[i].view
        BY <1>1, <3>2, <4>1 DEF Truthful
      <4>3. u \in Nat /\ u <= tick
        BY <1>12, <3>2, <4>1
      <4>4. Holds(sent', u) => Holds(sent, u) /\ ViewAt(sent', u) = ViewAt(sent, u)
        BY <1>11, <4>3 DEF Holds, ViewAt
      <4> QED
        BY <3>2, <4>1, <4>2, <4>4
    <3> QED
      BY <1>9, <3>1, <3>2
  <2>2. \A d \in parts : Holds(sent', d.tick) =>
          Holds(sent, d.tick) /\ ViewAt(sent', d.tick) = ViewAt(sent, d.tick)
    BY <1>11, <1>12 DEF Holds, ViewAt
  <2>3. \A d \in parts' : Holds(sent', d.tick) =>
         /\ \A s \in DOMAIN d.records :
              s \in DOMAIN ViewAt(sent', d.tick) /\ ViewAt(sent', d.tick)[s] = d.records[s]
         /\ \A s \in d.left : s \notin DOMAIN ViewAt(sent', d.tick)
    BY <1>1, <1>2, <2>2 DEF Truthful
  <2> QED
    BY <2>1, <2>3 DEF Truthful
<1>17. Encoded'
  BY <1>2, <1>11 DEF Encoded
<1> QED
  BY <1>2, <1>11, <1>13, <1>14, <1>15, <1>16, <1>17 DEF IInv


\* If none is owed afterwards, part zero has named every departure.
LEMMA AllNamed ==
    ASSUME NEW left \in SUBSET Ships, NEW owed, owed = <<>> \o SetToSeq(left),
           NEW named, named = Min({Len(owed), LeftRoom}),
           SubSeq(owed, named + 1, Len(owed)) = <<>>
    PROVE  ToSet(SubSeq(owed, 1, named)) = left
<1>1. IsFiniteSet(left) /\ Cardinality(left) \in Nat /\ LeftRoom \in Nat
  BY DeltaAssumption, FS_Subset, FS_CardinalityType
<1>2. /\ SetToSeq(left) \in Seq(left) /\ Len(SetToSeq(left)) = Cardinality(left)
      /\ \A x \in left : \E i \in 1..Cardinality(left) : SetToSeq(left)[i] = x
  BY <1>1, SetToSeqIs
<1> DEFINE q == SetToSeq(left)
           n == Cardinality(left)
<1> HIDE DEF q, n
<1>3. /\ q \in Seq(left) /\ Len(q) = n /\ n \in Nat
      /\ \A x \in left : \E i \in 1..n : q[i] = x
  BY <1>1, <1>2 DEF q, n
<1>4. owed = q
  <2>1. owed = <<>> \o q
    BY DEF q
  <2> QED
    BY <1>3, <2>1
<1>5. named = n
  <2>1. named = IF n <= LeftRoom THEN n ELSE LeftRoom
    BY <1>1, <1>3, <1>4, MinMaxIs
  <2>2. Len(SubSeq(q, named + 1, n)) = 0
    <3>1. Len(owed) = n
      BY <1>3, <1>4
    <3>2. SubSeq(q, named + 1, n) = <<>>
      BY <1>4, <3>1, Zenon
    <3> QED
      BY <3>2
  <2>3. named < n => Len(SubSeq(q, named + 1, n)) = n - named
    BY <1>1, <1>3, <2>1
  <2> QED
    BY <1>1, <1>3, <2>1, <2>2, <2>3
<1>6. 1 \in Nat \ {0} /\ n <= Len(q)
  BY <1>3
<1>7. ToSet(SubSeq(q, 1, n)) = {q[k] : k \in 1..n}
  BY <1>3, <1>6, SliceIs
<1>8. \A k \in 1..n : q[k] \in left
  BY <1>3
<1>9. {q[k] : k \in 1..n} = left
  BY <1>3, <1>8
<1> QED
  BY <1>4, <1>5, <1>7, <1>9

LEMMA StepSendDelta ==
    ASSUME IInv, pending' = <<>>, tick < MaxTick, tick' = tick + 1,
           NEW ids \in SUBSET Ships, Interest(ids), HasBaseline, SendDelta(ids),
           UNCHANGED <<world, changes, grid, acked, switches, acks, receiverVars>>
    PROVE  IInv'
<1>1. TypeOK /\ Clocked /\ InTransit /\ Truthful /\ Encoded /\ ViewsAgree /\ pending = <<>>
  BY DEF IInv
<1>0. PICK n, here, base, changed, left, order, count, owed, named, view :
        /\ n = tick + 1 /\ here = OnGrid(grid) /\ base = ViewAt(sent, acked)
        /\ changed = Changed(base, ids) /\ left = Departed(base) /\ order = SetToSeq(changed)
        /\ count = PartCount(Cardinality(changed)) /\ owed = pending \o SetToSeq(left)
        /\ named = Min({Len(owed), LeftRoom})
        /\ view = Updated(Without(base, left), TrueView(changed))
  OBVIOUS
<1>2. /\ world' = world /\ changes' = changes /\ grid' = grid /\ acked' = acked /\ acks' = acks
      /\ holding' = holding /\ newest' = newest /\ seen' = seen /\ held' = held
      /\ switches' = switches /\ tick' = n /\ bulk' = bulk
  BY <1>0 DEF SendDelta, receiverVars
<1> DEFINE part(i) ==
             [tick |-> n, base |-> acked, grid |-> grid, index |-> i, count |-> count,
              records |-> TrueView(InPart(order, i)),
              left |-> IF i = 0 THEN ToSet(SubSeq(owed, 1, named)) ELSE {}]
<1>3. /\ Record(view) /\ pending' = SubSeq(owed, named + 1, Len(owed))
      /\ parts' = parts \cup {part(i) : i \in 0..count - 1}
  BY <1>0 DEF SendDelta
<1>4. MaxTick \in Nat /\ tick \in 0..MaxTick /\ newest <= tick /\ n \in 1..MaxTick /\ n \in Nat
      /\ n \in 0..MaxTick /\ acked \in 1..MaxTick /\ acked <= tick /\ acked \in Nat
      /\ Cardinality(Ships) \in Nat /\ tick < n
  BY SMTT(30), <1>0, <1>1, DeltaAssumption, FS_CardinalityType DEF TypeOK, Clocked, HasBaseline, Holds
<1>5. base \in Views /\ DOMAIN base \subseteq Ships
  <2>1. SlotOf(acked) \in Slots
    BY <1>4, SlotIs
  <2>2. base \in Views
    BY <1>0, <1>1, <2>1 DEF TypeOK, ViewAt
  <2> QED
    BY <2>2, ViewIs
<1>6. /\ here \subseteq Ships /\ ids \subseteq here /\ Owned \cap here \subseteq ids
      /\ changed \subseteq ids /\ changed \in SUBSET Ships /\ left \in SUBSET Ships
      /\ left = DOMAIN base \ here
      /\ \A s \in ids : s \notin changed => s \in DOMAIN base /\ base[s] = world[s].state
  BY <1>0, <1>5 DEF OnGrid, Interest, Changed, Departed
<1>7. /\ count \in 1..(Cardinality(Ships) + 1)
      /\ \A i \in Nat : InPart(order, i) \subseteq changed
      /\ \A s \in changed : \E i \in 0..count - 1 : s \in InPart(order, i)
  BY <1>0, <1>6, DeltaParts
<1>8. ToSet(SubSeq(owed, 1, named)) = left
  <2>1. owed = <<>> \o SetToSeq(left) /\ SubSeq(owed, named + 1, Len(owed)) = <<>>
    BY <1>0, <1>1, <1>3
  <2> QED
    BY <1>0, <1>6, <2>1, AllNamed
<1>9. \A i \in 0..count - 1 :
        /\ TrueView(InPart(order, i)) \in Views
        /\ DOMAIN TrueView(InPart(order, i)) = InPart(order, i)
        /\ InPart(order, i) \subseteq changed
        /\ \A s \in InPart(order, i) : TrueView(InPart(order, i))[s] = world[s].state
  <2> TAKE i \in 0..count - 1
  <2>1. InPart(order, i) \subseteq changed
    BY <1>7
  <2>2. InPart(order, i) \in SUBSET Ships
    BY <1>6, <2>1
  <2> QED
    BY <1>1, <2>1, <2>2, TrueViewIs
<1>10. \A i \in 0..count - 1 :
         /\ part(i).tick = n /\ part(i).base = acked /\ part(i).index = i /\ part(i).count = count
         /\ DOMAIN part(i).records = InPart(order, i) /\ InPart(order, i) \subseteq changed
         /\ \A s \in InPart(order, i) : part(i).records[s] = world[s].state
         /\ part(i).left \subseteq left /\ (i = 0 => part(i).left = left)
         /\ part(i) \in Part
  <2> TAKE i \in 0..count - 1
  <2>1. i \in 0..Cardinality(Ships)
    BY <1>4, <1>7
  <2>2. part(i).left \subseteq left /\ (i = 0 => part(i).left = left) /\ part(i).left \subseteq Ships
    BY <1>6, <1>8
  <2>3. part(i).records = TrueView(InPart(order, i))
    OBVIOUS
  <2>4. part(i) \in Part
    <3>1. grid \in Grids
      BY <1>1 DEF TypeOK
    <3>2. (IF i = 0 THEN ToSet(SubSeq(owed, 1, named)) ELSE {}) \in SUBSET Ships
      BY <1>6, <1>8
    <3>3. TrueView(InPart(order, i)) \in Views
      BY <1>9
    <3> QED
      BY <1>4, <1>7, <2>1, <3>1, <3>2, <3>3 DEF Part
  <2> QED
    BY <1>9, <2>2, <2>3, <2>4
<1> HIDE DEF part
<1>11. \A d \in parts' : d \in parts \/ \E i \in 0..count - 1 : d = part(i)
  BY <1>3
<1>12. \A i \in 0..count - 1 : part(i) \in parts'
  BY <1>3
<1>13. /\ view \in Views /\ DOMAIN view = (DOMAIN base \ left) \cup changed
       /\ \A s \in changed : view[s] = world[s].state
       /\ \A s \in DOMAIN base : s \notin left /\ s \notin changed => view[s] = base[s]
  <2>1. /\ TrueView(changed) \in Views /\ DOMAIN TrueView(changed) = changed
        /\ \A s \in changed : TrueView(changed)[s] = world[s].state
    BY <1>1, <1>6, TrueViewIs
  <2> DEFINE r == TrueView(changed)
  <2>2. r \in Views /\ view = Updated(Without(base, left), r)
        /\ base \in Views /\ left \in SUBSET Ships
    BY <1>0, <1>5, <1>6, <2>1
  <2> HIDE DEF r
  <2>3. IsUpdate(view, base, left, r)
    BY <2>2, UpdatedIs
  <2> QED
    BY <2>1, <2>3 DEF r, IsUpdate
<1>14. /\ DOMAIN view \subseteq OnGrid(grid)
       /\ \A s \in Owned \cap OnGrid(grid) : s \in DOMAIN view /\ view[s] = world[s].state
  <2>1. DOMAIN view \subseteq here
    BY <1>6, <1>13
  <2>2. ASSUME NEW s \in Owned \cap here PROVE s \in DOMAIN view /\ view[s] = world[s].state
    <3>1. s \in ids /\ s \notin left
      BY <1>6
    <3> QED
      BY <1>6, <1>13, <3>1
  <2> QED
    BY <1>0, <2>1, <2>2
<1>15. /\ sent' \in [Slots -> [tick : 0..MaxTick, view : Views, truth : Views]]
       /\ \A i \in Slots : sent'[i].tick = 0 \/ SlotOf(sent'[i].tick) = i
       /\ \A i \in Slots : sent'[i].tick <= n
       /\ Holds(sent, n)' /\ ViewAt(sent, n)' = view
       /\ \A u \in Nat : u <= tick /\ Holds(sent, u)' =>
                Holds(sent, u) /\ ViewAt(sent, u)' = ViewAt(sent, u)
       /\ \A u \in Nat : u <= tick /\ Settled(u) => Settled(u)'
       /\ \A d \in parts :
                Holds(sent, d.tick)' /\ holding' = grid' /\ Holds(held, d.base)'
                  /\ Cardinality(Indices(d.tick)') >= d.count =>
                    \A s \in Ships :
                      Same(ViewAt(held, d.base), ViewAt(sent, d.tick), s)' \/ Named(d.tick, s)'
       /\ SentShows' /\ Assembling' /\ ViewsAgree'
  <2>1. (parts \subseteq parts') /\ (\A d \in parts' : d \in parts \/ d.tick = n)
    BY <1>3, <1>10, <1>11
  <2>2. \A i \in 1..Len(bulk') : bulk'[i].tick = n \/ \E j \in 1..Len(bulk) : bulk'[i] = bulk[j]
    BY <1>2
  <2> QED
    BY <1>0, <1>2, <1>3, <1>13, <1>14, <2>1, <2>2, SendKeeps
<1>16. /\ \A d \in parts : d.tick \in Nat /\ d.tick <= tick /\ d.base \in Nat /\ d.base <= tick
                           /\ d.tick # n
       /\ \A i \in 1..Len(bulk) : bulk[i].tick \in Nat /\ bulk[i].tick <= tick /\ bulk[i].tick # n
       /\ \A a \in acks : a.tick \in Nat /\ a.tick <= tick
  <2>1. \A d \in parts : d.tick \in 1..MaxTick /\ d.base \in 1..MaxTick
    BY <1>1, PartTyped
  <2>2. \A i \in 1..Len(bulk) : bulk[i].tick \in 1..MaxTick
    BY <1>1, BulkTyped
  <2>3. \A a \in acks : a.tick \in Nat
    BY <1>1, <1>4 DEF TypeOK
  <2>4. \A d \in parts : d.tick \in Nat /\ d.tick <= tick /\ d.base \in Nat /\ d.base <= tick
    BY <1>1, <1>4, <2>1 DEF Clocked
  <2>5. \A i \in 1..Len(bulk) : bulk[i].tick \in Nat /\ bulk[i].tick <= tick
    BY <1>1, <1>4, <2>2 DEF Clocked
  <2>6. \A u \in Nat : u <= tick => u # n
    BY <1>4
  <2> QED
    BY <1>1, <2>3, <2>4, <2>5, <2>6 DEF Clocked
<1>17. TypeOK'
  BY <1>1, TypedSendDelta
<1>18. Clocked'
  <2>1. \A u \in Nat : u <= tick => u <= n
    BY <1>4
  <2>2. \A d \in parts' : d.tick <= n /\ d.base <= n
    <3> TAKE d \in parts'
    <3>1. CASE d \in parts
      BY <1>16, <2>1, <3>1
    <3>2. CASE \E i \in 0..count - 1 : d = part(i)
      <4>1. d.tick = n /\ d.base = acked
        BY <1>10, <3>2
      <4> QED
        BY <1>4, <2>1, <4>1
    <3> QED
      BY <1>11, <3>1, <3>2
  <2>3. newest \in Nat
    BY <1>1, <1>4 DEF TypeOK
  <2>4. (\A a \in acks : a.tick <= n) /\ (\A i \in 1..Len(bulk) : bulk[i].tick <= n)
        /\ acked <= n /\ newest <= n
    BY <1>4, <1>16, <2>1, <2>3
  <2> QED
    BY <1>2, <1>15, <2>2, <2>4 DEF Clocked
<1>19. InTransit'
  <2>1. Settled(acked)'
    BY <1>1, <1>2, <1>4, <1>15 DEF InTransit, Settled
  <2>2. \A a \in acks' : Settled(a.tick)'
    BY <1>1, <1>2, <1>15, <1>16 DEF InTransit
  <2>3. \A d \in parts' : Settled(d.base)'
    <3> TAKE d \in parts'
    <3>1. CASE d \in parts
      BY <1>1, <1>15, <1>16, <3>1 DEF InTransit
    <3>2. CASE \E i \in 0..count - 1 : d = part(i)
      <4>1. d.base = acked
        BY <1>10, <3>2
      <4> QED
        BY <1>2, <2>1, <4>1 DEF Settled
    <3> QED
      BY <1>11, <3>1, <3>2
  <2>4. \A d \in parts' : d.index < d.count
    <3>1. \A i \in 0..count - 1 : i < count
      BY <1>4, <1>7
    <3> QED
      BY <1>1, <1>10, <1>11, <3>1 DEF InTransit
  <2>5. \A d \in parts' : \A i \in 1..Len(bulk') : bulk'[i].tick # d.tick
    BY <1>1, <1>2, <1>10, <1>11, <1>16 DEF InTransit
  <2>6. \A d, e \in parts' : d.tick = e.tick =>
          d.count = e.count /\ d.base = e.base /\ (d.index = e.index => d = e)
    <3> SUFFICES ASSUME NEW d \in parts', NEW e \in parts', d.tick = e.tick
                 PROVE  d.count = e.count /\ d.base = e.base /\ (d.index = e.index => d = e)
      OBVIOUS
    <3>1. CASE d \in parts /\ e \in parts
      BY <1>1, <3>1 DEF InTransit
    <3>2. CASE (\E i \in 0..count - 1 : d = part(i)) /\ (\E i \in 0..count - 1 : e = part(i))
      BY <1>10, <3>2
    <3>3. CASE d \in parts /\ \E i \in 0..count - 1 : e = part(i)
      BY <1>10, <1>16, <3>3
    <3>4. CASE e \in parts /\ \E i \in 0..count - 1 : d = part(i)
      BY <1>10, <1>16, <3>4
    <3> QED
      BY <1>11, <3>1, <3>2, <3>3, <3>4
  <2> QED
    BY <1>1, <1>2, <2>1, <2>2, <2>3, <2>4, <2>5, <2>6 DEF InTransit
<1>20. Truthful'
  <2>1. \A i \in 1..Len(bulk) :
          Holds(sent', bulk[i].tick) => ViewAt(sent', bulk[i].tick) = bulk[i].view
    <3> TAKE i \in 1..Len(bulk)
    <3>1. PICK u : u = bulk[i].tick
      OBVIOUS
    <3>2. u \in Nat /\ u <= tick
      BY <1>16, <3>1
    <3>3. Holds(sent', u) => Holds(sent, u) /\ ViewAt(sent', u) = ViewAt(sent, u)
      BY <1>15, <3>2 DEF Holds, ViewAt
    <3> QED
      BY <1>1, <3>1, <3>3 DEF Truthful
  <2>2. \A d \in parts : Holds(sent', d.tick) =>
          Holds(sent, d.tick) /\ ViewAt(sent', d.tick) = ViewAt(sent, d.tick)
    BY <1>15, <1>16 DEF Holds, ViewAt
  <2>3. ASSUME NEW d \in parts', Holds(sent', d.tick)
        PROVE  /\ \A s \in DOMAIN d.records :
                    s \in DOMAIN ViewAt(sent', d.tick) /\ ViewAt(sent', d.tick)[s] = d.records[s]
               /\ \A s \in d.left : s \notin DOMAIN ViewAt(sent', d.tick)
    <3>1. CASE d \in parts
      BY <1>1, <2>2, <2>3, <3>1 DEF Truthful
    <3>2. CASE \E i \in 0..count - 1 : d = part(i)
      <4>1. ViewAt(sent', d.tick) = view
        BY <1>10, <1>15, <3>2 DEF ViewAt
      <4>2. /\ \A s \in DOMAIN d.records : s \in changed /\ d.records[s] = world[s].state
            /\ d.left \subseteq left
        BY <1>10, <3>2
      <4>3. \A s \in left : s \notin DOMAIN view
        BY <1>6, <1>13
      <4> QED
        BY <1>13, <4>1, <4>2, <4>3
    <3> QED
      BY <1>11, <3>1, <3>2
  <2> QED
    BY <1>2, <2>1, <2>3 DEF Truthful
<1>21. Encoded'
  <2> SUFFICES ASSUME NEW d \in parts', Holds(sent, d.tick)', holding' = grid',
                      Holds(held, d.base)', Cardinality(Indices(d.tick)') >= d.count
               PROVE  \A s \in Ships :
                        Same(ViewAt(held, d.base), ViewAt(sent, d.tick), s)' \/ Named(d.tick, s)'
    BY DEF Encoded
  <2>1. CASE d \in parts
    BY <1>15, <2>1
  <2>2. CASE \E i \in 0..count - 1 : d = part(i)
    <3>1. d.tick = n /\ d.base = acked
      BY <1>10, <2>2
    <3>2. acked \in Agreed
      BY <1>2, <3>1 DEF Agreed, HasBaseline, Holds
    <3>3. ViewAt(held, acked) = base
      BY <1>0, <1>1, <3>2 DEF ViewsAgree
    <3>4. ViewAt(held', d.base) = base /\ ViewAt(sent', d.tick) = view
      BY <1>2, <1>15, <3>1, <3>3 DEF ViewAt
    <3>5. ASSUME NEW s \in changed PROVE Named(n, s)'
      <4>1. PICK i \in 0..count - 1 : s \in InPart(order, i)
        BY <1>7
      <4>2. part(i) \in parts' /\ part(i).tick = n /\ s \in DOMAIN part(i).records
        BY <1>10, <1>12, <4>1
      <4> QED
        BY <4>2 DEF Named, Flying
    <3>6. ASSUME NEW s \in left PROVE Named(n, s)'
      <4>1. 0 \in 0..count - 1
        BY <1>4, <1>7
      <4>2. part(0) \in parts' /\ part(0).tick = n /\ s \in part(0).left
        BY <1>10, <1>12, <4>1
      <4> QED
        BY <4>2 DEF Named, Flying
    <3>7. \A s \in Ships : s \notin changed /\ s \notin left => Same(base, view, s)
      BY <1>13 DEF Same
    <3>8. \A s \in Ships : Same(base, view, s) \/ Named(n, s)'
      BY <3>5, <3>6, <3>7
    <3> QED
      BY <3>1, <3>4, <3>8 DEF Same, ViewAt, Named, Flying
  <2> QED
    BY <1>11, <2>1, <2>2
<1> QED
  BY <1>8, <1>15, <1>17, <1>18, <1>19, <1>20, <1>21 DEF IInv


LEMMA StepSend == ASSUME IInv, pending' = <<>>, Send PROVE IInv'
<1>1. /\ tick < MaxTick /\ tick' = tick + 1
      /\ UNCHANGED <<world, changes, grid, acked, switches, acks, receiverVars>>
  BY DEF Send
<1>2. PICK ids \in SUBSET Ships :
        /\ Interest(ids)
        /\ (~HasBaseline /\ SendKeyframe(ids)) \/ (HasBaseline /\ SendDelta(ids))
  BY DEF Send
<1>3. CASE SendKeyframe(ids)
  BY <1>1, <1>2, <1>3, StepSendKeyframe
<1>4. CASE HasBaseline /\ SendDelta(ids)
  BY <1>1, <1>2, <1>4, StepSendDelta
<1> QED
  BY <1>2, <1>3, <1>4

-----------------------------------------------------------------------------
(* The invariant. *)

LEMMA Starts == Init => IInv
<1> SUFFICES ASSUME Init PROVE IInv
  OBVIOUS
<1>1. /\ tick = 0 /\ changes = 0 /\ switches = 0 /\ acked = 0 /\ pending = <<>> /\ bulk = <<>>
      /\ parts = {} /\ acks = {} /\ holding = NoGrid /\ newest = 0 /\ seen = {} /\ grid = HomeGrid
      /\ world \in [Ships -> [grid : Grids, state : {0}]]
      /\ sent = [i \in Slots |-> UnusedSent] /\ held = [i \in Slots |-> Unused]
  BY DEF Init
<1>2. {MaxTick, MaxChange, MaxSwitch} \subseteq Nat /\ HomeGrid \in Grids /\ RingTicks \in Nat \ {0}
  BY DeltaAssumption
<1>3. /\ Unused \in [tick : 0..MaxTick, view : Views] /\ Unused.tick = 0
      /\ UnusedSent \in [tick : 0..MaxTick, view : Views, truth : Views] /\ UnusedSent.tick = 0
  BY <1>2, EmptyIsView DEF Unused, UnusedSent
<1>4. /\ sent \in [Slots -> [tick : 0..MaxTick, view : Views, truth : Views]]
      /\ held \in [Slots -> [tick : 0..MaxTick, view : Views]]
      /\ \A i \in Slots : sent[i].tick = 0 /\ held[i].tick = 0
  BY <1>1, <1>3
<1>5. TypeOK
  <2>1. world \in [Ships -> [grid : Grids, state : States]]
    <3>1. 0 \in States
      BY <1>2 DEF States
    <3>2. \A s \in Ships : world[s] \in [grid : Grids, state : States]
      BY <1>1, <3>1
    <3> QED
      BY <1>1, <3>2
  <2>2. pending \in Seq(Ships) /\ bulk \in Seq([tick : 1..MaxTick, grid : Grids, view : Views])
    BY <1>1
  <2>3. /\ tick \in 0..MaxTick /\ changes \in 0..MaxChange /\ switches \in 0..MaxSwitch
        /\ acked \in 0..MaxTick /\ newest \in 0..MaxTick
    BY <1>1, <1>2
  <2> QED
    BY <1>1, <1>2, <1>4, <2>1, <2>2, <2>3 DEF TypeOK
<1>6. 1..Len(bulk) = {}
  BY <1>1
<1>7. Clocked
  BY <1>1, <1>4, <1>6 DEF Clocked
<1>8. InTransit
  BY <1>1, <1>6 DEF InTransit, Settled
<1>9. Truthful /\ Encoded
  BY <1>1, <1>6 DEF Truthful, Encoded
<1>10. Assembling
  BY <1>1 DEF Assembling, Flying
<1>11. SentShows
  BY <1>4 DEF SentShows
<1>12. ViewsAgree
  <2>1. Agreed = {}
    BY <1>1 DEF Agreed, Holds
  <2> QED
    BY <2>1 DEF ViewsAgree
<1> QED
  BY <1>1, <1>5, <1>7, <1>8, <1>9, <1>10, <1>11, <1>12 DEF IInv

LEMMA Keeps == ASSUME IInv, pending' = <<>>, [Next]_vars PROVE IInv'
<1>1. ASSUME NEW s \in Ships, NEW g \in Grids, WorldChanges(s, g) PROVE IInv'
  BY <1>1, StepWorld
<1>2. CASE Send
  BY <1>2, StepSend
<1>3. ASSUME NEW a \in acks, NoteAck(a) PROVE IInv'
  BY <1>3, StepAck
<1>4. ASSUME NEW g \in Grids, SwitchView(g) PROVE IInv'
  BY <1>4, StepSwitch
<1>5. CASE ReceiveKeyframe
  BY <1>5, StepKeyframe
<1>6. ASSUME NEW d \in parts, ReceivePart(d) PROVE IInv'
  BY <1>6, StepPart
<1>7. CASE UNCHANGED vars
  <2>1. /\ tick' = tick /\ acked' = acked /\ sent' = sent /\ grid' = grid /\ bulk' = bulk
        /\ parts' = parts /\ acks' = acks /\ holding' = holding /\ newest' = newest /\ seen' = seen
        /\ held' = held /\ pending' = pending /\ switches' = switches /\ world' = world
        /\ changes' = changes
    BY <1>7 DEF vars, senderVars, wireVars, receiverVars
  <2>2. /\ TypeOK /\ pending = <<>> /\ Clocked /\ InTransit /\ Truthful /\ Encoded /\ Assembling
        /\ SentShows /\ ViewsAgree
    BY DEF IInv
  <2>3. TypeOK'
    BY <2>1, <2>2 DEF TypeOK
  <2>4. Clocked' /\ InTransit'
    BY <2>1, <2>2 DEF Clocked, InTransit, Settled
  <2>5. Truthful'
    BY <2>1, <2>2 DEF Truthful, Holds, ViewAt
  <2>6. Encoded'
    BY <2>1, <2>2 DEF Encoded, Holds, ViewAt, Indices, Flying, Named, Same
  <2>7. Assembling'
    BY <2>1, <2>2 DEF Assembling, Holds, ViewAt, Indices, Flying, Named, Same
  <2>8. SentShows' /\ ViewsAgree'
    BY <2>1, <2>2 DEF SentShows, ViewsAgree, Agreed, Holds, ViewAt
  <2> QED
    BY <2>1, <2>2, <2>3, <2>4, <2>5, <2>6, <2>7, <2>8 DEF IInv
<1> QED
  BY <1>1, <1>2, <1>3, <1>4, <1>5, <1>6, <1>7 DEF Next

LEMMA Shows == IInv => ShowsTheGrid
<1> SUFFICES ASSUME IInv, NEW t \in Agreed
             PROVE  /\ DOMAIN ViewAt(held, t) \subseteq DOMAIN sent[SlotOf(t)].truth
                    /\ \A s \in Owned \cap DOMAIN sent[SlotOf(t)].truth :
                         s \in DOMAIN ViewAt(held, t)
                           /\ ViewAt(held, t)[s] = sent[SlotOf(t)].truth[s]
  BY DEF ShowsTheGrid
<1>1. TypeOK /\ SentShows /\ ViewsAgree
  BY DEF IInv
<1>2. t \in Nat
  <2>1. MaxTick \in Nat
    BY DeltaAssumption
  <2>2. acked \in Nat /\ \A a \in acks : a.tick \in Nat
    BY <1>1, <2>1 DEF TypeOK
  <2> QED
    BY <2>2 DEF Agreed
<1>3. ViewAt(held, t) = sent[SlotOf(t)].view
  BY <1>1 DEF ViewsAgree, ViewAt
<1>4. SlotOf(t) \in Slots /\ sent[SlotOf(t)].tick > 0
  BY <1>2, SlotIs DEF Agreed, Holds
<1> QED
  BY <1>1, <1>3, <1>4 DEF SentShows

\* DeltaReceiver and SnapshotSender keep to their types: every slot of either ring
\* holds a tick that belongs there, and no more parts are cut than there are records.
THEOREM DeltaTyped == Spec => []TypeOK
<1>1. Init => TypeOK
  BY Starts DEF IInv
<1>2. TypeOK /\ [Next]_vars => TypeOK'
  BY TypeKept
<1> QED
  BY <1>1, <1>2, PTL DEF Spec

\* Whatever is lost, overtaken or meant for another grid, a view the receiver has
\* acknowledged is what the sender's ring says it is, so that what is encoded
\* against it decodes (the baseline of SnapshotSender::SendDelta and
\* DeltaReceiver::OnDeltaPart); as long as no tick leaves departures owed, which a
\* later part would name too late.
THEOREM AcknowledgedViewsAgree == Spec /\ [](pending = <<>>) => []ViewsAgree
<1>1. Init => IInv
  BY Starts
<1>2. IInv /\ (pending = <<>>)' /\ [Next]_vars => IInv'
  BY Keeps
<1>3. IInv => ViewsAgree
  BY DEF IInv
<1> QED
  BY <1>1, <1>2, <1>3, PTL DEF Spec

\* And it shows the grid as it was at its tick: no ship that had gone, and the
\* viewer's own all there and up to date (SnapshotSender::BuildInterest, SendDelta).
THEOREM AcknowledgedViewsShowTheGrid == Spec /\ [](pending = <<>>) => []ShowsTheGrid
<1>1. Init => IInv
  BY Starts
<1>2. IInv /\ (pending = <<>>)' /\ [Next]_vars => IInv'
  BY Keeps
<1>3. IInv => ShowsTheGrid
  BY Shows
<1> QED
  BY <1>1, <1>2, <1>3, PTL DEF Spec

\* Departures are never owed when part zero has room for every ship there is, so
\* that the two theorems above hold of every behaviour then.
THEOREM NoneOwed == LeftRoom >= Cardinality(Ships) => (Spec => [](pending = <<>>))
<1> SUFFICES ASSUME LeftRoom >= Cardinality(Ships) PROVE Spec => [](pending = <<>>)
  OBVIOUS
<1>1. Init => TypeOK /\ pending = <<>>
  BY Starts DEF IInv
<1>2. TypeOK /\ pending = <<>> /\ [Next]_vars => TypeOK' /\ (pending = <<>>)'
  <2> SUFFICES ASSUME TypeOK, pending = <<>>, [Next]_vars PROVE pending' = <<>>
    BY TypeKept
  <2>1. CASE Send
    <3>1. PICK ids \in SUBSET Ships : SendKeyframe(ids) \/ (HasBaseline /\ SendDelta(ids))
      BY <2>1 DEF Send
    <3>2. CASE SendKeyframe(ids)
      BY <3>2 DEF SendKeyframe
    <3>3. CASE HasBaseline /\ SendDelta(ids)
      <4>1. PICK left, owed, named :
              /\ left = Departed(ViewAt(sent, acked)) /\ owed = pending \o SetToSeq(left)
              /\ named = Min({Len(owed), LeftRoom})
              /\ pending' = SubSeq(owed, named + 1, Len(owed))
        BY <3>3 DEF SendDelta
      <4>2. left \in SUBSET Ships
        <5>1. acked \in Nat
          BY DeltaAssumption DEF TypeOK
        <5>2. SlotOf(acked) \in Slots
          BY <5>1, SlotIs
        <5>3. ViewAt(sent, acked) \in Views
          BY <5>2 DEF TypeOK, ViewAt
        <5>4. DOMAIN ViewAt(sent, acked) \subseteq Ships
          BY <5>3, ViewIs
        <5> QED
          BY <4>1, <5>4 DEF Departed
      <4>3. /\ IsFiniteSet(left) /\ Cardinality(left) \in Nat /\ Cardinality(Ships) \in Nat
            /\ Cardinality(left) <= Cardinality(Ships) /\ LeftRoom \in Nat
        BY <4>2, DeltaAssumption, FS_Subset, FS_CardinalityType
      <4>4. SetToSeq(left) \in Seq(left) /\ Len(SetToSeq(left)) = Cardinality(left)
        BY <4>3, SetToSeqIs
      <4>5. owed \in Seq(left) /\ Len(owed) = Cardinality(left)
        BY <4>1, <4>4
      <4>6. named = Len(owed)
        BY <4>1, <4>3, <4>5, MinMaxIs
      <4> QED
        BY <4>1, <4>3, <4>5, <4>6
    <3> QED
      BY <3>1, <3>2, <3>3
  <2>2. CASE ~Send
    BY <2>2 DEF Next, WorldChanges, NoteAck, SwitchView, ReceiveKeyframe, ReceivePart, vars, senderVars
  <2> QED
    BY <2>1, <2>2
<1> QED
  BY <1>1, <1>2, PTL DEF Spec

=============================================================================
