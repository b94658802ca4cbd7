------------------------- MODULE DurableStoreProofs -------------------------
(* Proofs about module DurableStore: for any outcomes, faults and number of  *)
(* boots, and either caller, the snapshot and the journal can be read back   *)
(* and say what the caller had, and the store implements the abstract log.   *)
EXTENDS DurableStore, FiniteSetTheorems, SequenceTheorems, WellFoundedInduction, TLAPS

All == frames \o buffered

\* What a snapshot and a journal of good frames make when one is loaded and the
\* other applied on top of it.
Loaded(file, journal) == file.state \o OutcomesOf(Newer(journal, file.tick))

InOrder(journal) == \A i, j \in 1..Len(journal) : i < j => journal[i].tick < journal[j].tick

\* Frames are stamped by a clock that only goes on: in order, since one, to now.
StampedBy(journal, now) ==
    /\ \A i \in 1..Len(journal) : journal[i] # TornFrame => journal[i].tick \in 1..now
    /\ \A i, j \in 1..Len(journal) :
         i < j /\ journal[i] # TornFrame /\ journal[j] # TornFrame =>
             journal[i].tick < journal[j].tick

\* Of a recorder that goes for the snapshot too; a shard's clock starts again.
Stamped == StampedBy(All, tick) /\ (caller = "recorder" => snapshot.tick <= tick)

\* The shard records nothing.
NoRecords == caller = "shard" => frames = <<>> /\ buffered = <<>>

\* The floor a boot takes, from either file, is the snapshot's tick.
Floors ==
    /\ ~snapshot.there => /\ snapshot.tick = 0 /\ snapshotTick = 0
                          /\ header \in {0, None, Torn}
                          /\ mode \notin {"rotating", "heading"}
    /\ mode \in {"starting", "opened"} => snapshotTick = snapshot.tick

\* Where the program is says what the files are like.
Stages ==
    /\ ~Up => buffered = <<>>
    /\ Up => \A i \in 1..Len(All) : All[i] # TornFrame
    /\ Up /\ ~open => mode = "running" /\ missed /\ buffered = <<>>
    /\ mode \in {"rotating", "heading"} => snapshot.state = state /\ snapshot.tick = tick
    /\ mode = "heading" => frames = <<>> /\ buffered = <<>>

\* A death leaves a beginning of what the caller had, with all that was safe in it
\* unless the disk has lost some.
Begins(some, all, least) == \E kept \in least..Len(all) : some = SubSeq(all, 1, kept)
Beginning == Begins(Loaded(snapshot, GoodPart(frames)), state, IF sound THEN safe ELSE 0)

\* And without a death, while a recorder has its journal, nothing is missing.
Whole == Up /\ open /\ caller = "recorder" => state = Loaded(snapshot, All)

\* Once the snapshot is replaced, and once a boot has loaded it, all is safe.
Clean ==
    /\ leaving => caller = "shard"
    /\ mode \in {"restoring", "rotating", "heading"} => safe = Len(state)
    /\ CleanStop

TornAtTheEnd == sound => \A i \in 1..Len(frames) : frames[i] = TornFrame => i = Len(frames)

IInv ==
    TypeOK /\ Stamped /\ NoRecords /\ Floors /\ Stages /\ Beginning /\ Whole /\ TornAtTheEnd /\ Clean

-----------------------------------------------------------------------------
(* What the operators on journals return. *)

LEMMA Least ==
    ASSUME NEW T, T \subseteq Nat, T # {}
    PROVE  \E n \in T : \A m \in T : n <= m
<1> DEFINE R == StrictSubsetOrdering(Nat)
           D == {1..n : n \in T}
<1>1. IsWellFoundedOn(R, FiniteSubsetsOf(Nat))
  BY FS_StrictSubsetOrderingWellFounded
<1>2. ASSUME NEW n \in T PROVE 1..n \in FiniteSubsetsOf(Nat)
  <2>1. n \in Nat /\ n \in Int /\ 1 \in Int
    OBVIOUS
  <2>2. IsFiniteSet(1..n)
    BY <2>1, FS_Interval
  <2> QED BY <2>1, <2>2 DEF FiniteSubsetsOf
<1>3. D \subseteq FiniteSubsetsOf(Nat) /\ D # {}
  BY <1>2
<1>4. \E x \in D : \A y \in D : ~ (<<y, x>> \in R)
  <2> HIDE DEF R, D
  <2> QED BY <1>1, <1>3, WFMin
<1>5. PICK n \in T : \A m \in T : ~ (<<1..m, 1..n>> \in R)
  BY <1>4
<1>6. ASSUME NEW m \in Nat, m < n PROVE <<1..m, 1..n>> \in R
  <2>1. n \in 1..n /\ n \notin 1..m /\ 1..m \subseteq 1..n /\ 1..n \subseteq Nat
    BY <1>6
  <2> QED BY <2>1 DEF StrictSubsetOrdering
<1>7. \A m \in T : ~ (m < n)
  <2> HIDE DEF R, D
  <2> QED BY <1>5, <1>6
<1> QED BY <1>7

LEMMA IntervalSize ==
    ASSUME NEW a \in Nat, NEW b \in Nat, a <= b + 1
    PROVE  Cardinality(a..b) = b + 1 - a
<1>1. a \in Int /\ b \in Int
  OBVIOUS
<1>2. Cardinality(a..b) = IF a > b THEN 0 ELSE b - a + 1
  BY <1>1, FS_Interval
<1> QED BY <1>2

Frames == Seq(Frame \cup {TornFrame})

\* The good part of a journal is its first n frames.
GoodUpTo(journal, n) ==
    /\ n \in 0..Len(journal)
    /\ \A i \in 1..n : journal[i] # TornFrame
    /\ n < Len(journal) => journal[n + 1] = TornFrame

LEMMA FirstBadIs ==
    ASSUME NEW journal \in Frames, NEW n, GoodUpTo(journal, n)
    PROVE  FirstBad(journal) = IF n = Len(journal) THEN 0 ELSE n + 1
<1> DEFINE I == {i \in 1..Len(journal) : journal[i] = TornFrame}
<1>1. FirstBad(journal) = IF I # {} THEN Min(I) ELSE 0
  BY DEF FirstBad, SelectInSeq
<1>2. Len(journal) \in Nat /\ n \in Nat /\ n <= Len(journal)
  BY LenProperties DEF GoodUpTo, Frames
<1>3. CASE n = Len(journal)
  <2>1. I = {}
    BY <1>2, <1>3 DEF GoodUpTo
  <2> QED BY <1>1, <1>3, <2>1
<1>4. CASE n # Len(journal)
  <2>1. n + 1 \in I
    BY <1>2, <1>4 DEF GoodUpTo
  <2>2. \A i \in I : i \in Nat /\ n + 1 <= i
    BY <1>2 DEF GoodUpTo
  <2>3. Min(I) = n + 1
    <3> HIDE DEF I
    <3> QED BY <1>2, <2>1, <2>2 DEF Min
  <2> QED BY <1>1, <1>4, <2>1, <2>3
<1> QED BY <1>3, <1>4

LEMMA GoodPartIs ==
    ASSUME NEW journal \in Frames, NEW n, GoodUpTo(journal, n)
    PROVE  /\ GoodPart(journal) = SubSeq(journal, 1, n)
           /\ GoodPart(journal) \in Seq(Frame) /\ Len(GoodPart(journal)) = n
           /\ \A i \in 1..n : GoodPart(journal)[i] = journal[i]
<1>1. Len(journal) \in Nat /\ n \in Nat /\ n <= Len(journal)
      /\ \A i \in 1..Len(journal) : journal[i] \in Frame \cup {TornFrame}
  BY LenProperties, ElementOfSeq DEF GoodUpTo, Frames
<1>2. GoodPart(journal) = SubSeq(journal, 1, n)
  <2>1. CASE n = Len(journal)
    <3>1. GoodPart(journal) = journal
      BY <2>1, FirstBadIs DEF GoodPart
    <3>2. SubSeq(journal, 1, Len(journal)) = journal
      <4>1. journal \in Seq(Frame \cup {TornFrame})
        BY DEF Frames
      <4> QED BY <4>1, SubSeqFull, Zenon
    <3> QED BY <2>1, <3>1, <3>2
  <2>2. CASE n # Len(journal)
    <3>1. FirstBad(journal) = n + 1
      BY <2>2, FirstBadIs
    <3>2. FirstBad(journal) # 0 /\ FirstBad(journal) - 1 = n
      BY <1>1, <3>1
    <3>3. GoodPart(journal) = SubSeq(journal, 1, FirstBad(journal) - 1)
      BY <3>2 DEF GoodPart
    <3> QED BY <3>2, <3>3
  <2> QED BY <2>1, <2>2
<1>3. \A i \in 1..n : journal[i] \in Frame
  BY <1>1 DEF GoodUpTo
<1>4. /\ SubSeq(journal, 1, n) \in Seq(Frame)
      /\ Len(SubSeq(journal, 1, n)) = IF 1 <= n THEN n - 1 + 1 ELSE 0
      /\ \A i \in 1..n - 1 + 1 : SubSeq(journal, 1, n)[i] = journal[1 + i - 1]
  BY <1>1, <1>3, SubSeqProperties
<1> QED BY <1>1, <1>2, <1>4

LEMMA GoodPartExists ==
    ASSUME NEW journal \in Frames PROVE \E n : GoodUpTo(journal, n)
<1> DEFINE I == {i \in 1..Len(journal) : journal[i] = TornFrame}
<1>1. Len(journal) \in Nat
  BY LenProperties DEF Frames
<1>2. CASE I = {}
  <2>1. GoodUpTo(journal, Len(journal))
    BY <1>1, <1>2 DEF GoodUpTo
  <2> QED BY <2>1
<1>3. CASE I # {}
  <2>1. PICK m \in I : \A i \in I : m <= i
    <3>1. I \subseteq Nat
      BY <1>1
    <3> HIDE DEF I
    <3> QED BY <1>3, <3>1, Least
  <2>2. GoodUpTo(journal, m - 1)
    BY <1>1, <2>1 DEF GoodUpTo
  <2> QED BY <2>2
<1> QED BY <1>2, <1>3

\* In a journal that is in order the frames a floor leaves out come first.
Above(journal, floor, c) ==
    /\ c \in 0..Len(journal)
    /\ \A i \in 1..Len(journal) : journal[i].tick > floor <=> i > c

LEMMA AboveExists ==
    ASSUME NEW journal \in Seq(Frame), InOrder(journal), NEW floor \in Nat
    PROVE  \E c : Above(journal, floor, c)
<1> DEFINE I == {i \in 1..Len(journal) : journal[i].tick > floor}
<1>1. Len(journal) \in Nat /\ \A i \in 1..Len(journal) : journal[i].tick \in Nat
  <2>1. Len(journal) \in Nat /\ \A i \in 1..Len(journal) : journal[i] \in Frame
    BY LenProperties, ElementOfSeq
  <2> QED BY <2>1 DEF Frame
<1>2. CASE I = {}
  <2>1. Above(journal, floor, Len(journal))
    BY <1>1, <1>2 DEF Above
  <2> QED BY <2>1
<1>3. CASE I # {}
  <2>1. PICK m \in I : \A i \in I : m <= i
    <3>1. I \subseteq Nat
      BY <1>1
    <3> HIDE DEF I
    <3> QED BY <1>3, <3>1, Least
  <2>2. ASSUME NEW i \in 1..Len(journal) PROVE journal[i].tick > floor <=> i > m - 1
    <3>1. CASE i < m
      BY <1>1, <2>1, <3>1
    <3>2. CASE i = m
      BY <1>1, <2>1, <3>2
    <3>3. CASE i > m
      <4>1. journal[m].tick < journal[i].tick
        BY <1>1, <2>1, <3>3 DEF InOrder
      <4> QED BY <1>1, <2>1, <3>3, <4>1
    <3> QED BY <1>1, <2>1, <3>1, <3>2, <3>3
  <2>3. Above(journal, floor, m - 1)
    BY <1>1, <2>1, <2>2 DEF Above
  <2> QED BY <2>3
<1> QED BY <1>2, <1>3

LEMMA NewerIs ==
    ASSUME NEW journal \in Seq(Frame), NEW floor \in Nat, NEW c, Above(journal, floor, c)
    PROVE  Newer(journal, floor) = [n \in 1..Len(journal) - c |-> journal[c + n]]
<1> DEFINE newer == {i \in DOMAIN journal : journal[i].tick > floor}
           rank(i) == Cardinality({k \in newer : k <= i})
<1>1. Len(journal) \in Nat /\ c \in Nat /\ c <= Len(journal) /\ DOMAIN journal = 1..Len(journal)
  BY LenProperties DEF Above
<1>2. newer = (c + 1)..Len(journal)
  BY <1>1 DEF Above
<1>3. Cardinality(newer) = Len(journal) - c
  <2> DEFINE lo == c + 1
  <2>1. lo \in Nat /\ lo <= Len(journal) + 1
    BY <1>1
  <2>2. Cardinality(lo..Len(journal)) = Len(journal) + 1 - lo
    <3> HIDE DEF lo
    <3> QED BY <1>1, <2>1, IntervalSize
  <2>3. Cardinality(newer) = Cardinality(lo..Len(journal))
    BY <1>2
  <2> HIDE DEF newer
  <2> QED BY <1>1, <2>2, <2>3
<1>4. ASSUME NEW i \in newer PROVE rank(i) = i - c
  <2> DEFINE lo == c + 1
  <2>1. lo \in Nat /\ i \in Nat /\ lo <= i + 1
    BY <1>1, <1>2
  <2>2. {k \in newer : k <= i} = lo..i
    BY <1>1, <1>2
  <2>3. Cardinality(lo..i) = i + 1 - lo
    <3> HIDE DEF lo, newer
    <3> QED BY <2>1, IntervalSize
  <2>4. rank(i) = Cardinality(lo..i)
    BY <2>2
  <2> HIDE DEF newer, rank
  <2> QED BY <1>1, <2>1, <2>3, <2>4
<1>5. ASSUME NEW n \in 1..Len(journal) - c
      PROVE  (CHOOSE i \in newer : rank(i) = n) = c + n
  <2>1. c + n \in newer
    BY <1>1, <1>2
  <2>2. ASSUME NEW i \in newer PROVE rank(i) = n <=> i = c + n
    <3>1. i \in Nat
      BY <1>1, <1>2
    <3>2. rank(i) = i - c
      BY <1>4
    <3> HIDE DEF rank, newer
    <3> QED BY <1>1, <3>1, <3>2
  <2> HIDE DEF rank, newer
  <2> QED BY <2>1, <2>2
<1>6. Newer(journal, floor) =
        [n \in 1..Cardinality(newer) |-> journal[CHOOSE i \in newer : rank(i) = n]]
  BY DEF Newer
<1> HIDE DEF rank, newer
<1> QED BY <1>3, <1>5, <1>6

File == [tick : Nat, state : Seq(Outcomes), there : BOOLEAN]

LEMMA FileIs ==
    ASSUME NEW file \in File PROVE file.state \in Seq(Outcomes) /\ file.tick \in Nat
BY DEF File

\* What is loaded, outcome for outcome.
LEMMA LoadedIs ==
    ASSUME NEW file \in File, NEW journal \in Seq(Frame), NEW c, Above(journal, file.tick, c)
    PROVE  /\ Loaded(file, journal) \in Seq(Outcomes)
           /\ Len(Loaded(file, journal)) = Len(file.state) + (Len(journal) - c)
           /\ \A i \in 1..Len(file.state) + (Len(journal) - c) :
                Loaded(file, journal)[i] =
                  IF i <= Len(file.state) THEN file.state[i]
                  ELSE journal[c + (i - Len(file.state))].outcome
<1> DEFINE m == Len(journal) - c
           tail == [n \in 1..m |-> journal[c + n].outcome]
<1>1. /\ Len(journal) \in Nat /\ c \in Nat /\ c <= Len(journal) /\ m \in Nat
      /\ file.tick \in Nat /\ file.state \in Seq(Outcomes) /\ Len(file.state) \in Nat
  BY FileIs, LenProperties DEF Above
<1>2. \A n \in 1..m : journal[c + n].outcome \in Outcomes
  <2>1. \A i \in 1..Len(journal) : journal[i] \in Frame
    BY ElementOfSeq
  <2>2. \A n \in 1..m : c + n \in 1..Len(journal)
    BY <1>1
  <2> HIDE DEF m
  <2> QED BY <2>1, <2>2 DEF Frame
<1>3. Newer(journal, file.tick) = [n \in 1..m |-> journal[c + n]]
  <2>1. ASSUME NEW floor \in Nat, floor = file.tick
        PROVE  Newer(journal, floor) = [n \in 1..Len(journal) - c |-> journal[c + n]]
    <3>1. Above(journal, floor, c)
      BY <2>1
    <3> QED BY <3>1, NewerIs
  <2> QED BY <1>1, <2>1
<1>4. tail \in Seq(Outcomes) /\ Len(tail) = m
  BY <1>1, <1>2
<1>5. Len(Newer(journal, file.tick)) = m
  BY <1>1, <1>3
<1>6. OutcomesOf(Newer(journal, file.tick)) = tail
  <2> HIDE DEF m
  <2> QED BY <1>3, <1>5 DEF OutcomesOf
<1>7. /\ file.state \o tail \in Seq(Outcomes)
      /\ Len(file.state \o tail) = Len(file.state) + m
      /\ \A i \in 1..Len(file.state) + m :
           (file.state \o tail)[i] =
             IF i <= Len(file.state) THEN file.state[i] ELSE tail[i - Len(file.state)]
  <2> HIDE DEF tail, m
  <2> QED BY <1>1, <1>4, ConcatProperties
<1>8. \A i \in 1..Len(file.state) + m : i > Len(file.state) =>
        tail[i - Len(file.state)] = journal[c + (i - Len(file.state))].outcome
  <2>1. \A i \in 1..Len(file.state) + m : i > Len(file.state) => i - Len(file.state) \in 1..m
    BY <1>1
  <2> HIDE DEF m
  <2> QED BY <2>1
<1>9. Loaded(file, journal) = file.state \o tail
  BY <1>6 DEF Loaded
<1> HIDE DEF tail, m
<1>10. ASSUME NEW i \in 1..Len(file.state) + m
       PROVE  Loaded(file, journal)[i] = IF i <= Len(file.state) THEN file.state[i]
                                         ELSE journal[c + (i - Len(file.state))].outcome
  <2>1. i \in Nat
    BY <1>1
  <2>2. CASE i <= Len(file.state)
    BY <1>7, <1>9, <2>2
  <2>3. CASE ~(i <= Len(file.state))
    <3>1. i > Len(file.state)
      BY <1>1, <2>1, <2>3
    <3> QED BY <1>7, <1>8, <1>9, <2>3, <3>1
  <2> QED BY <2>2, <2>3
<1>11. Loaded(file, journal) \in Seq(Outcomes) /\ Len(Loaded(file, journal)) = Len(file.state) + m
  BY <1>7, <1>9
<1>12. Len(file.state) + m = Len(file.state) + (Len(journal) - c)
  BY DEF m
<1> QED BY <1>10, <1>11, <1>12, Zenon

LEMMA PrefixIs ==
    ASSUME NEW X, NEW s \in Seq(X), NEW t \in Seq(X), Len(s) <= Len(t),
           \A i \in 1..Len(s) : s[i] = t[i]
    PROVE  s = SubSeq(t, 1, Len(s))
<1>1. Len(s) \in Nat /\ Len(t) \in Nat /\ 1 \in Int /\ Len(s) \in Int
  BY LenProperties
<1>2. \A i \in 1..Len(s) : t[i] \in X
  BY <1>1, ElementOfSeq
<1> DEFINE n == Len(s)
           u == SubSeq(t, 1, n)
<1>3. /\ u \in Seq(X)
      /\ Len(u) = IF 1 <= n THEN n - 1 + 1 ELSE 0
      /\ \A i \in 1..n - 1 + 1 : u[i] = t[1 + i - 1]
  BY <1>1, <1>2, SubSeqProperties
<1>4. Len(u) = n /\ \A i \in 1..n : u[i] = t[i]
  <2> HIDE DEF u
  <2> QED BY <1>1, <1>3
<1>5. s = u
  <2> HIDE DEF u
  <2> QED BY <1>1, <1>3, <1>4, SeqEqual
<1> QED BY <1>5

\* A longer journal loads more, and nothing else.
LEMMA LoadedGrows ==
    ASSUME NEW file \in File,
           NEW a \in Seq(Frame), NEW b \in Seq(Frame), InOrder(a \o b)
    PROVE  /\ Loaded(file, a) \in Seq(Outcomes) /\ Loaded(file, a \o b) \in Seq(Outcomes)
           /\ Len(Loaded(file, a)) <= Len(Loaded(file, a \o b))
           /\ Loaded(file, a) = SubSeq(Loaded(file, a \o b), 1, Len(Loaded(file, a)))
<1> DEFINE all == a \o b
           n == Len(file.state)
<1>1. file.state \in Seq(Outcomes) /\ file.tick \in Nat /\ n \in Nat
  BY FileIs, LenProperties
<1>2. /\ Len(a) \in Nat /\ Len(b) \in Nat /\ all \in Seq(Frame) /\ Len(all) = Len(a) + Len(b)
      /\ \A i \in 1..Len(a) : all[i] = a[i]
  BY LenProperties, ConcatProperties
<1>3. PICK c : Above(all, file.tick, c)
  BY <1>1, <1>2, AboveExists
<1> DEFINE d == IF c <= Len(a) THEN c ELSE Len(a)
<1>4. c \in Nat /\ c <= Len(all) /\ d \in Nat /\ d <= Len(a) /\ d <= c
  BY <1>2, <1>3 DEF Above
<1>5. Above(a, file.tick, d)
  <2> HIDE DEF all
  <2> QED BY <1>2, <1>3, <1>4 DEF Above
<1>6. /\ Loaded(file, a) \in Seq(Outcomes)
      /\ Len(Loaded(file, a)) = n + (Len(a) - d)
      /\ \A i \in 1..n + (Len(a) - d) :
           Loaded(file, a)[i] = IF i <= n THEN file.state[i] ELSE a[d + (i - n)].outcome
  <2> HIDE DEF d
  <2> QED BY <1>1, <1>5, LoadedIs
<1>7. /\ Loaded(file, all) \in Seq(Outcomes)
      /\ Len(Loaded(file, all)) = n + (Len(all) - c)
      /\ \A i \in 1..n + (Len(all) - c) :
           Loaded(file, all)[i] = IF i <= n THEN file.state[i] ELSE all[c + (i - n)].outcome
  <2>1. all \in Seq(Frame) /\ Above(all, file.tick, c)
    BY <1>2, <1>3
  <2> HIDE DEF all, d
  <2> QED BY <2>1, LoadedIs
<1>8. n + (Len(a) - d) <= n + (Len(all) - c)
  <2>1. CASE c <= Len(a)
    <3> HIDE DEF all, n
    <3> QED BY <1>1, <1>2, <1>4, <2>1
  <2>2. CASE ~(c <= Len(a))
    <3>1. Len(a) - d = 0 /\ Len(all) - c >= 0 /\ Len(all) - c \in Nat
      <4> HIDE DEF all
      <4> QED BY <1>2, <1>4, <2>2
    <3> HIDE DEF all, n, d
    <3> QED BY <1>1, <3>1
  <2> QED BY <2>1, <2>2
<1>9. ASSUME NEW i \in 1..Len(Loaded(file, a)) PROVE Loaded(file, a)[i] = Loaded(file, all)[i]
  <2> HIDE DEF all, n
  <2>1. i \in Nat /\ i \in 1..n + (Len(a) - d) /\ i \in 1..n + (Len(all) - c)
    BY <1>1, <1>2, <1>4, <1>6, <1>8
  <2>2. CASE i <= n
    BY <1>6, <1>7, <2>1, <2>2
  <2>3. CASE ~(i <= n)
    <3>1. d = c /\ c + (i - n) \in 1..Len(a)
      BY <1>1, <1>2, <1>4, <2>1, <2>3
    <3>2. all[c + (i - n)] = a[c + (i - n)]
      BY <1>2, <3>1
    <3>3. Loaded(file, a)[i] = a[d + (i - n)].outcome
      BY <1>6, <2>1, <2>3
    <3>4. Loaded(file, all)[i] = all[c + (i - n)].outcome
      BY <1>7, <2>1, <2>3
    <3> HIDE DEF d
    <3> QED BY <3>1, <3>2, <3>3, <3>4
  <2> QED BY <2>2, <2>3
<1>10. Len(Loaded(file, a)) <= Len(Loaded(file, all))
  <2>1. Len(Loaded(file, a)) = n + (Len(a) - d)
    BY <1>6
  <2>2. Len(Loaded(file, all)) = n + (Len(all) - c)
    BY <1>7
  <2> HIDE DEF all, n, d
  <2> QED BY <1>8, <2>1, <2>2
<1>11. Loaded(file, a) = SubSeq(Loaded(file, all), 1, Len(Loaded(file, a)))
  <2> DEFINE s == Loaded(file, a)
             t == Loaded(file, all)
  <2>1. s \in Seq(Outcomes) /\ t \in Seq(Outcomes)
    BY <1>6, <1>7
  <2>2. \A i \in 1..Len(s) : s[i] = t[i]
    BY <1>9
  <2> HIDE DEF s, t
  <2>3. s = SubSeq(t, 1, Len(s))
    BY <1>10, <2>1, <2>2, PrefixIs DEF s, t
  <2> QED BY <2>3 DEF s, t
<1> QED BY <1>6, <1>7, <1>10, <1>11

\* One more frame is one more outcome.
LEMMA LoadedAppend ==
    ASSUME NEW file \in File, NEW a \in Seq(Frame), NEW frame \in Frame,
           InOrder(a), frame.tick > file.tick
    PROVE  Loaded(file, Append(a, frame)) = Append(Loaded(file, a), frame.outcome)
<1> DEFINE all == Append(a, frame)
           n == Len(file.state)
<1>1. file.state \in Seq(Outcomes) /\ file.tick \in Nat /\ n \in Nat
  BY FileIs, LenProperties
<1>2. /\ Len(a) \in Nat /\ all \in Seq(Frame) /\ Len(all) = Len(a) + 1
      /\ \A i \in 1..Len(a) : all[i] = a[i]
      /\ all[Len(a) + 1] = frame
  BY LenProperties, AppendProperties
<1>3. PICK c : Above(a, file.tick, c)
  BY <1>1, AboveExists
<1>4. c \in Nat /\ c <= Len(a)
  BY <1>2, <1>3 DEF Above
<1>5. Above(all, file.tick, c)
  <2> HIDE DEF all
  <2>1. ASSUME NEW i \in 1..Len(all) PROVE all[i].tick > file.tick <=> i > c
    <3>1. CASE i \in 1..Len(a)
      BY <1>2, <1>3, <3>1 DEF Above
    <3>2. CASE i = Len(a) + 1
      BY <1>2, <1>4, <3>2
    <3> QED BY <1>2, <3>1, <3>2
  <2> QED BY <1>2, <1>4, <2>1 DEF Above
<1>6. /\ Loaded(file, a) \in Seq(Outcomes)
      /\ Len(Loaded(file, a)) = n + (Len(a) - c)
      /\ \A i \in 1..n + (Len(a) - c) :
           Loaded(file, a)[i] = IF i <= n THEN file.state[i] ELSE a[c + (i - n)].outcome
  BY <1>1, <1>3, LoadedIs
<1>7. /\ Loaded(file, all) \in Seq(Outcomes)
      /\ Len(Loaded(file, all)) = n + (Len(all) - c)
      /\ \A i \in 1..n + (Len(all) - c) :
           Loaded(file, all)[i] = IF i <= n THEN file.state[i] ELSE all[c + (i - n)].outcome
  <2> HIDE DEF all
  <2> QED BY <1>1, <1>2, <1>5, LoadedIs
<1> DEFINE longer == Append(Loaded(file, a), frame.outcome)
<1>8. frame.outcome \in Outcomes
  BY DEF Frame
<1>9. /\ longer \in Seq(Outcomes) /\ Len(longer) = n + (Len(a) - c) + 1
      /\ \A i \in 1..n + (Len(a) - c) : longer[i] = Loaded(file, a)[i]
      /\ longer[n + (Len(a) - c) + 1] = frame.outcome
  <2> HIDE DEF n
  <2> QED BY <1>6, <1>8, AppendProperties
<1>10. Len(Loaded(file, all)) = Len(longer)
  <2> HIDE DEF all, longer, n
  <2> QED BY <1>1, <1>2, <1>4, <1>7, <1>9
<1>11. ASSUME NEW i \in 1..Len(Loaded(file, all)) PROVE Loaded(file, all)[i] = longer[i]
  <2> HIDE DEF all, longer, n
  <2>1. i \in Nat /\ i \in 1..n + (Len(all) - c)
    BY <1>1, <1>2, <1>4, <1>7
  <2>2. CASE i <= n
    <3>1. i \in 1..n + (Len(a) - c)
      BY <1>1, <1>2, <1>4, <2>1, <2>2
    <3> QED BY <1>6, <1>7, <1>9, <2>1, <2>2, <3>1
  <2>3. CASE i > n /\ i <= n + (Len(a) - c)
    <3>1. i \in 1..n + (Len(a) - c) /\ c + (i - n) \in 1..Len(a) /\ ~(i <= n)
      BY <1>1, <1>2, <1>4, <2>1, <2>3
    <3>2. all[c + (i - n)] = a[c + (i - n)]
      BY <1>2, <3>1
    <3> QED BY <1>6, <1>7, <1>9, <2>1, <3>1, <3>2
  <2>4. CASE i = n + (Len(a) - c) + 1
    <3>1. c + (i - n) = Len(a) + 1 /\ ~(i <= n)
      BY <1>1, <1>2, <1>4, <2>4
    <3> QED BY <1>2, <1>7, <1>9, <2>1, <2>4, <3>1
  <2> QED BY <1>1, <1>2, <1>4, <2>1, <2>2, <2>3, <2>4
<1>12. Loaded(file, all) = longer
  <2> HIDE DEF all, longer
  <2> QED BY <1>7, <1>9, <1>10, <1>11, SeqEqual
<1> QED BY <1>12

\* A journal the snapshot has all of adds nothing to it.
LEMMA LoadedNothing ==
    ASSUME NEW file \in File, NEW a \in Seq(Frame),
           \A i \in 1..Len(a) : a[i].tick <= file.tick
    PROVE  Loaded(file, a) = file.state
<1>1. file.state \in Seq(Outcomes) /\ file.tick \in Nat /\ Len(file.state) \in Nat
  BY FileIs, LenProperties
<1>2. Len(a) \in Nat /\ \A i \in 1..Len(a) : a[i].tick \in Nat
  <2>1. Len(a) \in Nat /\ \A i \in 1..Len(a) : a[i] \in Frame
    BY LenProperties, ElementOfSeq
  <2> QED BY <2>1 DEF Frame
<1>3. Above(a, file.tick, Len(a))
  BY <1>1, <1>2 DEF Above
<1>4. /\ Loaded(file, a) \in Seq(Outcomes)
      /\ Len(Loaded(file, a)) = Len(file.state) + (Len(a) - Len(a))
      /\ \A i \in 1..Len(file.state) + (Len(a) - Len(a)) :
           Loaded(file, a)[i] = IF i <= Len(file.state) THEN file.state[i]
                                ELSE a[Len(a) + (i - Len(file.state))].outcome
  BY ZenonT(40), <1>1, <1>3, LoadedIs
<1> DEFINE s == Loaded(file, a)
           n == Len(file.state)
<1>5. n + (Len(a) - Len(a)) = n
  BY <1>1, <1>2
<1>6. s \in Seq(Outcomes) /\ Len(s) = n /\ \A i \in 1..n : s[i] = file.state[i]
  <2>1. s \in Seq(Outcomes) /\ Len(s) = n
    BY <1>4, <1>5
  <2>2. ASSUME NEW i \in 1..n PROVE s[i] = file.state[i]
    <3>1. i \in 1..n + (Len(a) - Len(a)) /\ i <= n
      BY <1>1, <1>5
    <3> QED BY <1>4, <3>1
  <2> QED BY <2>1, <2>2
<1>7. s = file.state
  <2> HIDE DEF s
  <2> QED BY <1>1, <1>6, SeqEqual
<1> QED BY <1>7

LEMMA GoodJournal ==
    ASSUME NEW journal \in Frames, \A i \in 1..Len(journal) : journal[i] # TornFrame
    PROVE  journal \in Seq(Frame) /\ GoodPart(journal) = journal
<1>1. Len(journal) \in Nat /\ journal \in Seq(Frame \cup {TornFrame})
  BY LenProperties DEF Frames
<1>2. GoodUpTo(journal, Len(journal))
  BY <1>1 DEF GoodUpTo
<1>3. GoodPart(journal) = SubSeq(journal, 1, Len(journal)) /\ GoodPart(journal) \in Seq(Frame)
  BY <1>2, GoodPartIs
<1>4. SubSeq(journal, 1, Len(journal)) = journal
  BY <1>1, SubSeqFull, Zenon
<1> QED BY <1>3, <1>4

\* Losing frames, or having them torn, leaves a journal in order.
LEMMA StampedStill ==
    ASSUME NEW k, NEW j, NEW now \in Nat, StampedBy(j, now), Len(j) \in Nat, Len(k) \in Nat,
           \A i \in 1..Len(k) : k[i] = TornFrame \/ (i <= Len(j) /\ k[i] = j[i])
    PROVE  StampedBy(k, now)
<1>1. \A i \in 1..Len(k) : k[i] # TornFrame => i \in 1..Len(j) /\ k[i] = j[i]
  OBVIOUS
<1> QED BY <1>1 DEF StampedBy

\* The parts of a sequence that is cut in two.
LEMMA CutInTwo ==
    ASSUME NEW X, NEW s \in Seq(X), NEW n \in 0..Len(s)
    PROVE  /\ SubSeq(s, 1, n) \in Seq(X) /\ SubSeq(s, n + 1, Len(s)) \in Seq(X)
           /\ Len(SubSeq(s, 1, n)) = n
           /\ \A i \in 1..n : SubSeq(s, 1, n)[i] = s[i]
           /\ SubSeq(s, 1, n) \o SubSeq(s, n + 1, Len(s)) = s
<1>1. Len(s) \in Nat /\ n \in Nat /\ n \in Int /\ 1 \in Int /\ n + 1 \in Int /\ Len(s) \in Int
  BY LenProperties
<1>2. \A i \in 1..Len(s) : s[i] \in X
  BY ElementOfSeq
<1>3. (\A i \in 1..n : s[i] \in X) /\ (\A i \in n + 1..Len(s) : s[i] \in X)
  BY <1>1, <1>2
<1>4. /\ SubSeq(s, 1, n) \in Seq(X)
      /\ Len(SubSeq(s, 1, n)) = IF 1 <= n THEN n - 1 + 1 ELSE 0
      /\ \A i \in 1..n - 1 + 1 : SubSeq(s, 1, n)[i] = s[1 + i - 1]
  BY <1>1, <1>3, SubSeqProperties
<1>5. /\ SubSeq(s, n + 1, Len(s)) \in Seq(X)
  <2> DEFINE m == n + 1
  <2>1. m \in Int /\ \A i \in m..Len(s) : s[i] \in X
    BY <1>1, <1>3
  <2> HIDE DEF m
  <2>2. SubSeq(s, m, Len(s)) \in Seq(X)
    BY <1>1, <2>1, SubSeqProperties
  <2> QED BY <2>2 DEF m
<1>6. SubSeq(s, 1, n) \o SubSeq(s, n + 1, Len(s)) = SubSeq(s, 1, Len(s))
  <2>1. 1 \in 1..Len(s) + 1 /\ n \in 1 - 1..Len(s) /\ Len(s) \in n..Len(s)
    BY <1>1
  <2> QED BY <2>1, ConcatAdjacentSubSeq, Zenon
<1>7. SubSeq(s, 1, Len(s)) = s
  BY SubSeqFull, Zenon
<1>8. Len(SubSeq(s, 1, n)) = n /\ \A i \in 1..n : SubSeq(s, 1, n)[i] = s[i]
  <2> DEFINE u == SubSeq(s, 1, n)
  <2>1. /\ Len(u) = IF 1 <= n THEN n - 1 + 1 ELSE 0
        /\ \A i \in 1..n - 1 + 1 : u[i] = s[1 + i - 1]
    BY <1>4
  <2>2. Len(u) = n /\ \A i \in 1..n : u[i] = s[i]
    <3> HIDE DEF u
    <3> QED BY <1>1, <2>1
  <2> QED BY <2>2
<1> QED BY <1>4, <1>5, <1>6, <1>7, <1>8

LEMMA HistoryIs ==
    ASSUME NEW s PROVE s \in History <=> s \in Seq(Outcomes) /\ Len(s) <= MaxOutcomes
<1>1. ASSUME s \in History PROVE s \in Seq(Outcomes) /\ Len(s) <= MaxOutcomes
  <2>1. PICK m \in 0..MaxOutcomes : s \in [1..m -> Outcomes]
    BY <1>1 DEF History, BoundedSeq, SeqOf
  <2>2. m \in Nat
    BY <2>1, BoundAssumption
  <2> QED BY <2>1, <2>2, BoundAssumption
<1>2. ASSUME s \in Seq(Outcomes), Len(s) <= MaxOutcomes PROVE s \in History
  <2>1. Len(s) \in 0..MaxOutcomes /\ s \in [1..Len(s) -> Outcomes]
    BY <1>2, LenProperties, BoundAssumption
  <2> QED BY <2>1 DEF History, BoundedSeq, SeqOf
<1> QED BY <1>1, <1>2

\* What the invariant says of the journal.
LEMMA Journal ==
    ASSUME IInv
    PROVE  /\ snapshot \in File /\ state \in Seq(Outcomes) /\ tick \in Nat /\ Len(state) \in Nat
           /\ frames \in Frames /\ buffered \in Seq(Frame) /\ All \in Frames
           /\ Len(frames) \in Nat /\ Len(buffered) \in Nat /\ Len(All) = Len(frames) + Len(buffered)
           /\ \A i \in 1..Len(frames) : All[i] = frames[i]
           /\ StampedBy(frames, tick) /\ StampedBy(All, tick)
           /\ buffered = <<>> => All = frames
           /\ Up => /\ frames \in Seq(Frame) /\ All \in Seq(Frame)
                    /\ InOrder(frames) /\ InOrder(All) /\ GoodPart(frames) = frames
                    /\ \A i \in 1..Len(frames) : frames[i] # TornFrame
                    /\ \A i \in 1..Len(All) : All[i].tick <= tick /\ All[i] # TornFrame
                    /\ \A i \in 1..Len(frames) : frames[i].tick <= tick
<1>1. /\ frames \in Seq(Frame \cup {TornFrame}) /\ buffered \in Seq(Frame \cup {TornFrame})
      /\ buffered \in Seq(Frame)
  <2>1. frames \in Seq(Frame \cup {TornFrame}) /\ buffered \in Seq(Frame)
    BY DEF IInv, TypeOK
  <2> QED BY <2>1, SeqMonotonic
<1>2. /\ snapshot \in File /\ state \in Seq(Outcomes) /\ tick \in Nat
  <2>1. snapshot \in [tick : Nat, state : History, there : BOOLEAN] /\ state \in History /\ tick \in Nat
    BY DEF IInv, TypeOK
  <2> QED BY <2>1, HistoryIs DEF File
<1>3. /\ All \in Seq(Frame \cup {TornFrame})
      /\ Len(All) = Len(frames) + Len(buffered)
      /\ \A i \in 1..Len(frames) + Len(buffered) :
           All[i] = IF i <= Len(frames) THEN frames[i] ELSE buffered[i - Len(frames)]
  BY <1>1, ConcatProperties DEF All
<1>4. Len(frames) \in Nat /\ Len(buffered) \in Nat /\ Len(state) \in Nat
  BY <1>1, <1>2, LenProperties
<1>5. \A i \in 1..Len(frames) : i <= Len(All) /\ i \in 1..Len(All) /\ All[i] = frames[i]
  <2> HIDE DEF All
  <2> QED BY <1>3, <1>4
<1>6. StampedBy(All, tick)
  BY DEF IInv, Stamped
<1>7. StampedBy(frames, tick)
  <2> HIDE DEF All
  <2>1. Len(All) \in Nat
    BY <1>3, <1>4
  <2>2. \A i \in 1..Len(frames) : i <= Len(All) /\ frames[i] = All[i]
    BY <1>5
  <2> QED BY <1>2, <1>4, <1>6, <2>1, <2>2, StampedStill
<1>8. buffered = <<>> => All = frames
  BY <1>1, ConcatEmptySeq DEF All
<1>9. ASSUME Up
      PROVE  /\ frames \in Seq(Frame) /\ All \in Seq(Frame)
             /\ InOrder(frames) /\ InOrder(All) /\ GoodPart(frames) = frames
             /\ \A i \in 1..Len(frames) : frames[i] # TornFrame
             /\ \A i \in 1..Len(All) : All[i].tick <= tick /\ All[i] # TornFrame
             /\ \A i \in 1..Len(frames) : frames[i].tick <= tick
  <2>1. \A i \in 1..Len(All) : All[i] # TornFrame
    BY <1>9 DEF IInv, Stages
  <2>2. \A i \in 1..Len(frames) : frames[i] # TornFrame
    <3> HIDE DEF All
    <3> QED BY <1>5, <2>1
  <2>3. frames \in Frames /\ All \in Frames
    BY <1>1, <1>3 DEF Frames
  <2>4. frames \in Seq(Frame) /\ All \in Seq(Frame) /\ GoodPart(frames) = frames
    BY <2>1, <2>2, <2>3, GoodJournal
  <2>5. /\ InOrder(All) /\ \A i \in 1..Len(All) : All[i].tick \in 1..tick
    BY <1>6, <2>1 DEF StampedBy, InOrder
  <2>6. /\ InOrder(frames) /\ \A i \in 1..Len(frames) : frames[i].tick \in 1..tick
    BY <1>7, <2>2 DEF StampedBy, InOrder
  <2>7. \A n \in 1..tick : n <= tick
    BY <1>2
  <2> QED BY <2>1, <2>2, <2>4, <2>5, <2>6, <2>7
<1> QED BY <1>1, <1>2, <1>3, <1>4, <1>5, <1>6, <1>7, <1>8, <1>9 DEF Frames

LEMMA LoadedEmpty ==
    ASSUME NEW file \in File PROVE Loaded(file, <<>>) = file.state
<1>1. ASSUME NEW a \in Seq(Frame), Len(a) = 0 PROVE Loaded(file, a) = file.state
  <2>1. \A i \in 1..Len(a) : a[i].tick <= file.tick
    BY <1>1
  <2> QED BY <2>1, LoadedNothing
<1>2. <<>> \in Seq(Frame) /\ Len(<<>>) = 0
  BY EmptySeq
<1> QED BY <1>1, <1>2, Zenon

-----------------------------------------------------------------------------
(* What the steps leave. *)

LEMMA ReplayIs ==
    ASSUME IInv, Replay
    PROVE  /\ state' = Loaded(snapshot, GoodPart(frames)) /\ state' \in History
           /\ frames' = GoodPart(frames) /\ frames' \in Seq(Frame)
           /\ All' = frames' /\ buffered' = <<>>
           /\ \A i \in 1..Len(frames') : frames'[i] # TornFrame
           /\ tick' \in Nat /\ StampedBy(frames', tick')
           /\ caller = "recorder" => snapshot.tick <= tick'
           /\ caller = "shard" => frames' = <<>>
           /\ \E kept \in (IF sound THEN safe ELSE 0)..Len(state) :
                state' = SubSeq(state, 1, kept) /\ Len(state') = kept
<1> DEFINE good == GoodPart(frames)
<1>1. /\ snapshotTick = snapshot.tick /\ buffered = <<>> /\ snapshot.tick \in Nat
  BY Journal, FileIs DEF IInv, Floors, Stages, Replay, Up
<1>2. PICK n : GoodUpTo(frames, n)
  BY Journal, GoodPartExists
<1>3. good \in Seq(Frame) /\ Len(good) = n /\ \A i \in 1..n : good[i] = frames[i]
  BY <1>2, Journal, GoodPartIs
<1>4. /\ n \in Nat /\ n <= Len(frames) /\ Len(frames) \in Nat
      /\ \A i \in 1..n : frames[i] # TornFrame
  BY <1>2, Journal DEF GoodUpTo
<1>5. StampedBy(good, tick)
  <2>1. \A i \in 1..Len(good) : i <= Len(frames) /\ good[i] = frames[i]
    <3> HIDE DEF good
    <3> QED BY <1>3, <1>4
  <2> HIDE DEF good
  <2> QED BY <1>3, <1>4, <2>1, Journal, StampedStill
<1>6. \A i \in 1..Len(good) : good[i] # TornFrame
  <2> HIDE DEF good
  <2> QED BY <1>3, <1>4
<1>7. /\ state' = snapshot.state \o OutcomesOf(Newer(good, snapshotTick))
      /\ tick' = IF caller = "shard" THEN 0 ELSE tick
      /\ frames' = good /\ buffered' = buffered
  BY DEF Replay, Replayed, Cut
<1>8. state' = Loaded(snapshot, good)
  BY <1>1, <1>7 DEF Loaded
<1>9. ASSUME caller = "shard" PROVE tick' \in Nat /\ StampedBy(good, tick') /\ good = <<>>
  <2>1. n = 0 /\ tick' = 0
    BY <1>4, <1>7, <1>9 DEF IInv, NoRecords
  <2> HIDE DEF good
  <2>2. good = <<>> /\ Len(good) = 0
    BY <1>3, <2>1, EmptySeq
  <2>3. StampedBy(good, tick')
    BY <2>2 DEF StampedBy
  <2> QED BY <2>1, <2>2, <2>3
<1>10. PICK kept \in (IF sound THEN safe ELSE 0)..Len(state) : state' = SubSeq(state, 1, kept)
  BY <1>8 DEF IInv, Beginning, Begins
<1>11. kept \in 0..Len(state)
  <2>1. safe \in Nat
    BY Journal DEF IInv, TypeOK
  <2> QED BY <1>10, <2>1, Journal
<1>12. state' \in Seq(Outcomes) /\ Len(state') = kept
  BY <1>10, <1>11, Journal, CutInTwo
<1>13. state' \in History
  <2>1. Len(state) <= MaxOutcomes
    BY HistoryIs DEF IInv, TypeOK
  <2>2. Len(state') <= MaxOutcomes
    BY <1>11, <1>12, <2>1, Journal, BoundAssumption
  <2> QED BY <1>12, <2>2, HistoryIs
<1>14. /\ tick' \in Nat /\ StampedBy(good, tick')
       /\ caller = "recorder" => snapshot.tick <= tick'
       /\ caller = "shard" => good = <<>>
  <2>1. CASE caller = "shard"
    BY <1>7, <2>1, <1>9
  <2>2. CASE caller # "shard"
    <3>1. tick' = tick /\ tick \in Nat
      BY <1>7, <2>2, Journal
    <3>2. caller = "recorder" => snapshot.tick <= tick
      BY DEF IInv, Stamped
    <3> HIDE DEF good
    <3> QED BY <1>5, <2>2, <3>1, <3>2
  <2> QED BY <2>1, <2>2
<1>15. All' = frames'
  <2>1. frames' \in Seq(Frame) /\ buffered' = <<>>
    BY <1>1, <1>3, <1>7
  <2> QED BY <2>1, ConcatEmptySeq DEF All
<1> HIDE DEF good
<1> QED BY <1>1, <1>3, <1>6, <1>7, <1>8, <1>10, <1>12, <1>13, <1>14, <1>15 DEF good

\* A death keeps a beginning of what was buffered.
LEMMA CrashIs ==
    ASSUME IInv, Crash
    PROVE  \E part \in Seq(Frame), rest \in Seq(Frame), a \in Frames :
             /\ a = frames \o part /\ All = a \o rest
             /\ frames' = a \/ (frames' = a \o <<TornFrame>> /\ buffered # <<>>)
             /\ buffered = <<>> => a = frames
             /\ Len(a) \in Nat /\ Len(All) \in Nat
             /\ \A i \in 1..Len(a) : i <= Len(All) /\ a[i] = All[i]
<1>1. PICK kept \in 0..Len(buffered) :
          \/ frames' = frames \o SubSeq(buffered, 1, kept)
          \/ kept # Len(buffered) /\ frames' = frames \o SubSeq(buffered, 1, kept) \o <<TornFrame>>
  <2>1. PICK kept \in 0..Len(buffered) :
          frames' \in {frames \o SubSeq(buffered, 1, kept)} \cup
                     (IF kept = Len(buffered) THEN {}
                      ELSE {frames \o SubSeq(buffered, 1, kept) \o <<TornFrame>>})
    BY DEF Crash
  <2> QED BY <2>1
<1> DEFINE F == Frame \cup {TornFrame}
           part == SubSeq(buffered, 1, kept)
           rest == SubSeq(buffered, kept + 1, Len(buffered))
           a == frames \o part
<1>2. part \in Seq(Frame) /\ rest \in Seq(Frame) /\ part \o rest = buffered
  BY Journal, CutInTwo
<1>3. part \in Seq(F) /\ rest \in Seq(F) /\ frames \in Seq(F)
  <2>1. frames \in Seq(F)
    BY Journal DEF Frames
  <2> QED BY <1>2, <2>1, SeqMonotonic
<1>4. a \in Seq(F)
  <2> HIDE DEF F, part
  <2> QED BY <1>3, ConcatProperties
<1>5. ASSUME buffered = <<>> PROVE a = frames /\ kept = Len(buffered)
  <2>1. kept = 0 /\ Len(buffered) = 0
    BY <1>5
  <2>2. part = <<>>
    BY <2>1, SubSeqEmpty
  <2>3. frames \o <<>> = frames
    BY Journal, ConcatEmptySeq DEF Frames
  <2>4. a = frames
    BY <2>2, <2>3, Zenon
  <2> HIDE DEF a
  <2> QED BY <2>1, <2>4
<1>6. All = a \o rest
  <2> HIDE DEF F, part, rest
  <2>1. (frames \o part) \o rest = frames \o (part \o rest)
    <3>1. frames \in Seq(F) /\ part \in Seq(F) /\ rest \in Seq(F)
      BY <1>3
    <3> QED BY <3>1, ConcatAssociative
  <2> QED BY <1>2, <2>1 DEF All
<1>7. Len(a) \in Nat /\ Len(All) \in Nat /\ \A i \in 1..Len(a) : i <= Len(All) /\ a[i] = All[i]
  <2> HIDE DEF F, a, rest
  <2>1. /\ Len(a \o rest) = Len(a) + Len(rest)
        /\ \A i \in 1..Len(a) + Len(rest) :
             (a \o rest)[i] = IF i <= Len(a) THEN a[i] ELSE rest[i - Len(a)]
    BY <1>3, <1>4, ConcatProperties
  <2>2. Len(a) \in Nat /\ Len(rest) \in Nat
    BY <1>3, <1>4, LenProperties
  <2> QED BY <1>6, <2>1, <2>2
<1>8. frames' = a \/ (frames' = a \o <<TornFrame>> /\ buffered # <<>>)
  <2>1. frames' = a \/ (kept # Len(buffered) /\ frames' = a \o <<TornFrame>>)
    BY <1>1
  <2> HIDE DEF a
  <2> QED BY <1>5, <2>1
<1>9. a \in Frames
  BY <1>4 DEF Frames
<1>10. a = frames \o part
  OBVIOUS
<1> HIDE DEF a, part, rest, F
<1> QED BY <1>2, <1>5, <1>6, <1>7, <1>8, <1>9, <1>10

\* What is on the disk after it, frame by frame.
LEMMA CrashFrames ==
    ASSUME NEW a \in Frames, frames' = a \/ frames' = a \o <<TornFrame>>
    PROVE  /\ frames' \in Frames /\ Len(a) \in Nat /\ Len(frames') \in Nat
           /\ Len(frames') = Len(a) \/ (Len(frames') = Len(a) + 1 /\ frames'[Len(a) + 1] = TornFrame)
           /\ \A i \in 1..Len(a) : frames'[i] = a[i]
<1> DEFINE F == Frame \cup {TornFrame}
<1>1. a \in Seq(F) /\ TornFrame \in F
  BY DEF Frames
<1> HIDE DEF F
<1>2. Len(a) \in Nat /\ <<TornFrame>> \in Seq(F) /\ Len(<<TornFrame>>) = 1
  BY <1>1, LenProperties
<1>3. CASE frames' = a
  BY <1>2, <1>3
<1>4. CASE frames' = a \o <<TornFrame>>
  <2>1. /\ frames' \in Seq(F) /\ Len(frames') = Len(a) + 1
        /\ \A i \in 1..Len(a) + 1 :
             frames'[i] = IF i <= Len(a) THEN a[i] ELSE <<TornFrame>>[i - Len(a)]
    BY <1>1, <1>2, <1>4, ConcatProperties
  <2>2. \A i \in 1..Len(a) : frames'[i] = a[i]
    BY <1>2, <2>1
  <2>3. frames'[Len(a) + 1] = TornFrame
    <3>1. frames'[Len(a) + 1] = <<TornFrame>>[Len(a) + 1 - Len(a)] /\ Len(a) + 1 - Len(a) = 1
      BY <1>2, <2>1
    <3> QED BY <3>1
  <2> QED BY <1>2, <2>1, <2>2, <2>3 DEF Frames, F
<1> QED BY <1>3, <1>4

\* An accepted outcome leaves what the files say a beginning of the state.
LEMMA Accepted ==
    ASSUME IInv, NEW outcome \in Outcomes, Len(state) < MaxOutcomes,
           state' = Append(state, outcome)
    PROVE  /\ state' \in History /\ state' \in Seq(Outcomes) /\ Len(state') = Len(state) + 1
           /\ \A kept \in 0..Len(state) : SubSeq(state, 1, kept) = SubSeq(state', 1, kept)
<1>1. state' \in Seq(Outcomes) /\ Len(state') = Len(state) + 1
      /\ \A i \in 1..Len(state) : state'[i] = state[i]
  BY Journal, AppendProperties
<1>2. state' \in History
  <2>1. Len(state') <= MaxOutcomes
    BY <1>1, Journal, BoundAssumption
  <2> QED BY <1>1, <2>1, HistoryIs
<1>3. ASSUME NEW kept \in 0..Len(state) PROVE SubSeq(state, 1, kept) = SubSeq(state', 1, kept)
  <2> DEFINE s == SubSeq(state, 1, kept)
             t == SubSeq(state', 1, kept)
  <2>1. s \in Seq(Outcomes) /\ Len(s) = kept /\ \A i \in 1..kept : s[i] = state[i]
    BY Journal, CutInTwo
  <2>2. t \in Seq(Outcomes) /\ Len(t) = kept /\ \A i \in 1..kept : t[i] = state'[i]
    <3>1. kept \in 0..Len(state')
      BY <1>1, Journal
    <3> QED BY <1>1, <3>1, CutInTwo
  <2> HIDE DEF s, t
  <2>3. \A i \in 1..kept : s[i] = t[i]
    BY <1>1, <2>1, <2>2, Journal
  <2>4. s = t
    BY <2>1, <2>2, <2>3, SeqEqual
  <2> QED BY <2>4 DEF s, t
<1> QED BY <1>1, <1>2, <1>3

LEMMA ShardTickIs ==
    ASSUME IInv, NEW outcome \in Outcomes, ShardTick(outcome)
    PROVE  /\ Len(state) < MaxOutcomes /\ state' = Append(state, outcome)
           /\ tick' = tick + 1 /\ tick' \in Nat /\ caller = "shard" /\ caller' = caller
           /\ mode = "running" /\ ~leaving
           /\ frames = <<>> /\ buffered = <<>> /\ All' = All
           /\ UNCHANGED <<mode, leaving, snapshot, header, frames, buffered, open, snapshotTick,
                          safe, missed, sound, boots>>
BY Journal DEF ShardTick, storeVars, journalVars, historyVars, IInv, NoRecords, All

LEMMA AppendIs ==
    ASSUME IInv, NEW outcome \in Outcomes, AppendRecord(outcome)
    PROVE  /\ state' = Append(state, outcome) /\ state' \in History /\ Len(state') = Len(state) + 1
           /\ tick' = tick + 1 /\ tick' \in Nat
           /\ buffered' \in Seq(Frame)
           /\ ~open => buffered' = buffered /\ All' = All
           /\ open => \E frame \in Frame : /\ frame.tick = tick + 1 /\ frame.outcome = outcome
                                           /\ buffered' = Append(buffered, frame)
                                           /\ All' = Append(All, frame)
<1> DEFINE frame == [tick |-> tick', outcome |-> outcome]
<1>1. /\ state' = Append(state, outcome) /\ tick' = tick + 1 /\ Len(state) < MaxOutcomes
      /\ buffered' = IF open THEN Append(buffered, frame) ELSE buffered
      /\ frames' = frames
  BY DEF AppendRecord
<1>2. tick' \in Nat /\ frame \in Frame
  BY <1>1, Journal DEF Frame
<1>3. state' \in History /\ Len(state') = Len(state) + 1
  BY <1>1, Accepted
<1>5. buffered' \in Seq(Frame)
  <2> HIDE DEF frame
  <2>1. Append(buffered, frame) \in Seq(Frame)
    BY <1>2, Journal, AppendProperties
  <2> QED BY <1>1, <2>1, Journal
<1>6. ASSUME open PROVE All' = Append(All, frame)
  <2> HIDE DEF frame
  <2> DEFINE F == Frame \cup {TornFrame}
  <2>1. frames \in Seq(F) /\ buffered \in Seq(F) /\ frame \in F /\ <<frame>> \in Seq(F)
    <3>1. frames \in Seq(F) /\ buffered \in Seq(Frame) /\ frame \in F
      BY <1>2, Journal DEF Frames
    <3>2. buffered \in Seq(F)
      BY <3>1, SeqMonotonic
    <3> HIDE DEF F
    <3> QED BY <3>1, <3>2
  <2> HIDE DEF F
  <2>2. Append(buffered, frame) = buffered \o <<frame>>
    BY <2>1, AppendIsConcat
  <2>3. frames \o buffered \in Seq(F)
    BY <2>1, ConcatProperties
  <2>4. Append(frames \o buffered, frame) = (frames \o buffered) \o <<frame>>
    BY <2>1, <2>3, AppendIsConcat
  <2>5. (frames \o buffered) \o <<frame>> = frames \o (buffered \o <<frame>>)
    BY <2>1, ConcatAssociative
  <2>6. All' = frames \o Append(buffered, frame)
    BY <1>1, <1>6 DEF All
  <2> QED BY <2>2, <2>4, <2>5, <2>6 DEF All
<1>7. frame.tick = tick + 1 /\ frame.outcome = outcome
  BY <1>1
<1>8. ~open => buffered' = buffered /\ All' = All
  BY <1>1 DEF All
<1>9. open => buffered' = Append(buffered, frame)
  BY <1>1
<1> HIDE DEF frame
<1> QED BY <1>1, <1>2, <1>3, <1>5, <1>6, <1>7, <1>8, <1>9

LEMMA FlushIs ==
    ASSUME IInv
    PROVE  /\ frames \o SubSeq(buffered, 1, Pushed) = All
           /\ SubSeq(buffered, Pushed + 1, Len(buffered)) = <<>>
           /\ All \o <<>> = All
<1>1. SubSeq(buffered, 1, Len(buffered)) = buffered
  BY Journal, SubSeqFull, Zenon
<1>2. SubSeq(buffered, Len(buffered) + 1, Len(buffered)) = <<>>
  <2>1. Len(buffered) \in Int /\ Len(buffered) + 1 \in Int /\ Len(buffered) < Len(buffered) + 1
    BY Journal
  <2> QED BY <2>1, SubSeqEmpty, Zenon
<1>3. All \o <<>> = All
  BY Journal, ConcatEmptySeq DEF Frames
<1> QED BY <1>1, <1>2, <1>3 DEF All, Pushed

LEMMA StepTypeOK == IInv /\ [Next]_vars => TypeOK'
<1> SUFFICES ASSUME IInv, [Next]_vars PROVE TypeOK'
  OBVIOUS
<1> DEFINE F == Frame \cup {TornFrame}
<1>1. TypeOK
  BY DEF IInv
<1>2. /\ frames \in Seq(F) /\ All \in Seq(F) /\ buffered \in Seq(Frame)
      /\ Len(state) \in Nat /\ <<>> \in Seq(F) /\ <<>> \in Seq(Frame)
  BY Journal DEF Frames
<1>3. CASE Open
  <2>1. /\ boots' \in 0..MaxBoots /\ mode' \in Mode /\ open' \in BOOLEAN /\ snapshotTick' \in Nat
        /\ leaving' = FALSE /\ missed' = FALSE
    BY <1>1, <1>3, BoundAssumption DEF TypeOK, Open, Mode, Floor, Fresh
  <2>2. UNCHANGED <<caller, state, tick, snapshot, header, frames, buffered, safe, sound>>
    BY <1>3 DEF Open, journalVars
  <2> QED BY <1>1, <2>1, <2>2 DEF TypeOK
<1>4. CASE HeaderWritten
  BY <1>1, <1>4 DEF TypeOK, HeaderWritten, Mode, callerVars, historyVars
<1>5. CASE ReplayRefuses
  BY <1>1, <1>5 DEF TypeOK, ReplayRefuses, Mode, callerVars, storeVars, historyVars, journalVars
<1>6. CASE Replay
  <2>1. frames' \in Seq(F)
    <3>1. frames' \in Seq(Frame)
      BY <1>6, ReplayIs
    <3> QED BY <3>1, SeqMonotonic
  <2>2. state' \in History /\ tick' \in Nat
    BY <1>6, ReplayIs
  <2>3. safe' = Len(state') /\ Len(state') \in Nat
    <3>1. safe' = Len(state') /\ state' \in Seq(Outcomes)
      BY <1>6, <2>2, HistoryIs DEF Replay
    <3> QED BY <3>1, LenProperties
  <2>4. safe' \in 0..Len(state')
    BY <2>3
  <2>5. /\ mode' \in Mode /\ open' \in BOOLEAN
        /\ UNCHANGED <<caller, leaving, snapshot, header, buffered, snapshotTick, missed, sound, boots>>
    BY <1>6 DEF Replay, Mode
  <2> QED BY <1>1, <2>1, <2>2, <2>4, <2>5 DEF TypeOK
<1>7. ASSUME NEW outcome \in Outcomes, AppendRecord(outcome) PROVE TypeOK'
  <2>1. /\ state' \in History /\ Len(state') = Len(state) + 1 /\ tick' \in Nat
        /\ buffered' \in Seq(Frame)
    BY <1>7, AppendIs
  <2>2. UNCHANGED <<mode, caller, leaving, snapshot, header, frames, open, snapshotTick,
                   safe, missed, sound, boots>>
    BY <1>7 DEF AppendRecord, historyVars
  <2>3. safe' \in 0..Len(state')
    BY <1>1, <1>2, <2>1, <2>2 DEF TypeOK
  <2> QED BY <1>1, <2>1, <2>2, <2>3 DEF TypeOK
<1>18. ASSUME NEW outcome \in Outcomes, ShardTick(outcome) PROVE TypeOK'
  <2>1. /\ state' \in History /\ Len(state') = Len(state) + 1 /\ tick' \in Nat /\ caller' = caller
        /\ UNCHANGED <<mode, leaving, snapshot, header, frames, buffered, open, snapshotTick,
                       safe, missed, sound, boots>>
    BY <1>18, ShardTickIs, Accepted
  <2>2. safe' \in 0..Len(state')
    BY <1>1, <1>2, <2>1 DEF TypeOK
  <2> QED BY <1>1, <2>1, <2>2 DEF TypeOK
<1>8. CASE Flush
  <2>1. frames' = All /\ buffered' = <<>>
    BY <1>8, FlushIs DEF Flush
  <2>2. /\ safe' \in 0..Len(state)
        /\ UNCHANGED <<mode, caller, leaving, state, tick, snapshot, header, open, snapshotTick,
                       missed, sound, boots>>
    BY <1>1, <1>2, <1>8 DEF TypeOK, Flush, callerVars
  <2> QED BY <1>1, <1>2, <2>1, <2>2 DEF TypeOK
<1>9. CASE WriteTemporary
  BY <1>1, <1>9 DEF TypeOK, WriteTemporary, Mode, callerVars, storeVars, historyVars, journalVars
<1>10. CASE RenameOver
  BY <1>1, <1>2, <1>10 DEF TypeOK, RenameOver, Mode, callerVars, journalVars
<1>11. CASE RenameFails
  BY <1>1, <1>11 DEF TypeOK, RenameFails, Mode, callerVars, storeVars, journalVars
<1>12. CASE TruncateJournal
  <2>1. frames' = <<>> /\ buffered' = <<>> /\ header' = None /\ snapshotTick' = tick /\ mode' \in Mode
        /\ UNCHANGED <<caller, leaving, state, tick, snapshot, open, safe, missed, sound, boots>>
    BY <1>12 DEF TruncateJournal, Mode, callerVars, historyVars
  <2> QED BY <1>1, <1>2, <2>1 DEF TypeOK
<1>13. CASE ReopenFails
  <2>1. frames' = All /\ buffered' = <<>> /\ open' = FALSE /\ missed' = TRUE /\ mode' \in Mode
        /\ UNCHANGED <<caller, leaving, state, tick, snapshot, header, snapshotTick, safe, sound, boots>>
    BY <1>13 DEF ReopenFails, Mode, All, callerVars
  <2> QED BY <1>1, <1>2, <2>1 DEF TypeOK
<1>14. CASE Stop
  <2>1. frames' = All /\ buffered' = <<>> /\ open' = FALSE /\ mode' \in Mode
        /\ UNCHANGED <<caller, leaving, state, tick, snapshot, header, snapshotTick, missed, sound, boots>>
    BY <1>14 DEF Stop, Mode, All, callerVars
  <2>2. safe' \in 0..Len(state)
    BY <1>1, <1>2, <1>14 DEF TypeOK, Stop
  <2> QED BY <1>1, <1>2, <2>1, <2>2 DEF TypeOK
<1>15. CASE Crash
  <2>1. frames' \in Seq(F)
    <3>1. PICK a \in Frames : frames' = a \/ frames' = a \o <<TornFrame>>
      BY <1>15, CrashIs
    <3> QED BY <3>1, CrashFrames DEF Frames
  <2>2. header' \in Nat \cup {None, Torn}
    BY <1>1, <1>15 DEF TypeOK, Crash
  <2>3. buffered' = <<>> /\ open' = FALSE /\ mode' \in Mode
        /\ UNCHANGED <<caller, leaving, state, tick, snapshot, snapshotTick, safe, missed, sound, boots>>
    BY <1>15 DEF Crash, Mode, callerVars, historyVars
  <2> QED BY <1>1, <1>2, <2>1, <2>2, <2>3 DEF TypeOK
<1>16. CASE Damage
  <2>1. PICK i \in 1..Len(frames) : frames' = [frames EXCEPT ![i] = TornFrame]
    BY <1>16 DEF Damage
  <2>2. frames' \in Seq(F)
    <3>1. TornFrame \in F
      OBVIOUS
    <3> HIDE DEF F
    <3> QED BY <1>2, <2>1, <3>1, ExceptSeq
  <2>3. sound' = FALSE
        /\ UNCHANGED <<mode, caller, leaving, state, tick, snapshot, header, buffered, open,
                       snapshotTick, safe, missed, boots>>
    BY <1>16 DEF Damage, callerVars
  <2> QED BY <1>1, <2>2, <2>3 DEF TypeOK
<1>17. CASE UNCHANGED vars
  BY <1>1, <1>17 DEF TypeOK, vars, callerVars, storeVars, historyVars, journalVars
<1>19. CASE LastSnapshot
  BY <1>1, <1>19 DEF TypeOK, LastSnapshot, Mode, storeVars, historyVars, journalVars
<1> QED BY <1>3, <1>4, <1>5, <1>6, <1>7, <1>8, <1>9, <1>10, <1>11, <1>12, <1>13, <1>14, <1>15,
           <1>16, <1>17, <1>18, <1>19 DEF Next

LEMMA StepFloors == IInv /\ [Next]_vars => Floors'
<1> SUFFICES ASSUME IInv, [Next]_vars PROVE Floors'
  OBVIOUS
<1> USE DEF Floors
<1>1. Floors /\ TypeOK
  BY DEF IInv
<1>2. CASE Open
  BY <1>1, <1>2 DEF Open, journalVars, Floor, Fresh, TypeOK, None, Torn
<1>3. CASE HeaderWritten
  BY <1>1, <1>3 DEF HeaderWritten
<1>4. CASE ReplayRefuses
  BY <1>1, <1>4 DEF ReplayRefuses, storeVars, journalVars
<1>5. CASE Replay
  BY <1>1, <1>5 DEF Replay
<1>6. ASSUME NEW outcome \in Outcomes, AppendRecord(outcome) PROVE Floors'
  BY <1>1, <1>6 DEF AppendRecord
<1>7. CASE Flush
  BY <1>1, <1>7 DEF Flush
<1>8. CASE WriteTemporary
  BY <1>1, <1>8 DEF WriteTemporary, storeVars, journalVars
<1>9. CASE RenameOver
  BY <1>1, <1>9 DEF RenameOver, journalVars
<1>10. CASE RenameFails
  BY <1>1, <1>10 DEF RenameFails, storeVars, journalVars
<1>11. CASE TruncateJournal
  BY <1>1, <1>11 DEF TruncateJournal
<1>12. CASE ReopenFails
  BY <1>1, <1>12 DEF ReopenFails
<1>13. CASE Stop
  BY <1>1, <1>13 DEF Stop
<1>14. CASE Crash
  BY <1>1, <1>14 DEF Crash
<1>15. CASE Damage
  BY <1>1, <1>15 DEF Damage
<1>16. CASE UNCHANGED vars
  BY <1>1, <1>16 DEF vars, storeVars, journalVars
<1>17. ASSUME NEW outcome \in Outcomes, ShardTick(outcome) PROVE Floors'
  BY <1>1, <1>17 DEF ShardTick, storeVars, journalVars
<1>18. CASE LastSnapshot
  BY <1>1, <1>18 DEF LastSnapshot, storeVars, journalVars
<1> QED BY <1>2, <1>3, <1>4, <1>5, <1>6, <1>7, <1>8, <1>9, <1>10, <1>11, <1>12, <1>13, <1>14,
           <1>15, <1>16, <1>17, <1>18 DEF Next

LEMMA StepStages == IInv /\ [Next]_vars => Stages'
<1> SUFFICES ASSUME IInv, [Next]_vars PROVE Stages'
  OBVIOUS
<1> USE DEF Stages
<1>1. Stages
  BY DEF IInv
<1>2. CASE Open
  BY <1>1, <1>2 DEF Open, journalVars, Up, All
<1>3. CASE HeaderWritten
  BY <1>1, <1>3 DEF HeaderWritten, Up, All, historyVars
<1>4. CASE ReplayRefuses
  BY <1>1, <1>4 DEF ReplayRefuses, Up, All, callerVars, storeVars, historyVars, journalVars
<1>5. CASE Replay
  <2>1. /\ All' = frames' /\ buffered' = <<>>
        /\ \A i \in 1..Len(frames') : frames'[i] # TornFrame
    BY <1>5, ReplayIs
  <2>2. mode' \in {"restoring", "running"} /\ open' = TRUE
    BY <1>5 DEF Replay
  <2> QED BY <2>1, <2>2 DEF Up
<1>6. ASSUME NEW outcome \in Outcomes, AppendRecord(outcome) PROVE Stages'
  <2>1. mode' = "running" /\ mode = "running" /\ open' = open /\ missed' = missed /\ Up /\ Up'
    BY <1>6 DEF AppendRecord, Up, historyVars
  <2>2. CASE ~open
    BY <1>1, <1>6, <2>1, <2>2, AppendIs DEF Up
  <2>3. CASE open
    <3>1. PICK frame \in Frame : frame.tick = tick + 1 /\ All' = Append(All, frame)
      BY <1>6, <2>3, AppendIs
    <3>2. frame # TornFrame
      BY <3>1, Journal DEF TornFrame
    <3>3. \A i \in 1..Len(All') : All'[i] # TornFrame
      <4> DEFINE F == Frame \cup {TornFrame}
      <4>1. All \in Seq(F) /\ frame \in F /\ Len(All) \in Nat
        BY Journal DEF Frames
      <4>0. \A i \in 1..Len(All) : All[i] # TornFrame
        BY <1>1, <2>1
      <4> HIDE DEF F
      <4>2. /\ Len(All') = Len(All) + 1 /\ \A i \in 1..Len(All) : All'[i] = All[i]
            /\ All'[Len(All) + 1] = frame
        BY <3>1, <4>1, AppendProperties
      <4> QED BY <3>2, <4>0, <4>1, <4>2
    <3> QED BY <2>1, <2>3, <3>3
  <2> QED BY <2>2, <2>3
<1>7. CASE Flush
  <2>1. frames' = All /\ buffered' = <<>> /\ All' = All
    BY <1>7, FlushIs DEF Flush, All
  <2>2. mode' = mode /\ open' = open /\ missed' = missed /\ mode = "running"
    BY <1>7 DEF Flush
  <2> QED BY <1>1, <2>1, <2>2 DEF Up
<1>8. CASE WriteTemporary
  BY <1>1, <1>8 DEF WriteTemporary, Up, All, callerVars, storeVars, historyVars, journalVars
<1>9. CASE RenameOver
  BY <1>1, <1>9 DEF RenameOver, Up, All, callerVars, journalVars
<1>10. CASE RenameFails
  BY <1>1, <1>10 DEF RenameFails, Up, All, callerVars, storeVars, journalVars
<1>11. CASE TruncateJournal
  <2>1. Len(<<>> \o <<>>) = 0
    OBVIOUS
  <2> QED BY <1>1, <1>11, <2>1 DEF TruncateJournal, Up, All, callerVars, historyVars
<1>12. CASE ReopenFails
  <2>1. frames' = All /\ buffered' = <<>> /\ All' = All
    BY <1>12, FlushIs DEF ReopenFails, All
  <2>2. mode' = "running" /\ open' = FALSE /\ missed' = TRUE /\ mode = "rotating"
    BY <1>12 DEF ReopenFails
  <2> QED BY <1>1, <2>1, <2>2 DEF Up
<1>13. CASE Stop
  BY <1>1, <1>13 DEF Stop, Up
<1>14. CASE Crash
  BY <1>1, <1>14 DEF Crash, Up
<1>15. CASE Damage
  BY <1>1, <1>15 DEF Damage, Up
<1>16. CASE UNCHANGED vars
  BY <1>1, <1>16 DEF vars, Up, All, callerVars, storeVars, historyVars, journalVars
<1>17. ASSUME NEW outcome \in Outcomes, ShardTick(outcome) PROVE Stages'
  BY <1>1, <1>17, ShardTickIs DEF Up
<1>18. CASE LastSnapshot
  BY <1>1, <1>18 DEF LastSnapshot, Up, All, storeVars, historyVars, journalVars
<1> QED BY <1>2, <1>3, <1>4, <1>5, <1>6, <1>7, <1>8, <1>9, <1>10, <1>11, <1>12, <1>13, <1>14,
           <1>15, <1>16, <1>17, <1>18 DEF Next

LEMMA StepStamped == IInv /\ [Next]_vars => Stamped'
<1> SUFFICES ASSUME IInv, [Next]_vars PROVE Stamped'
  OBVIOUS
<1> USE DEF Stamped
<1>1. Stamped /\ TypeOK
  BY DEF IInv
<1>2. ASSUME All' = All, tick' = tick, caller' = caller, snapshot' = snapshot \/ snapshot'.tick = tick
      PROVE  Stamped'
  BY <1>1, <1>2, Journal
<1>3. CASE Open \/ HeaderWritten \/ ReplayRefuses \/ WriteTemporary \/ RenameOver \/ RenameFails
           \/ LastSnapshot \/ UNCHANGED vars
  BY <1>2, <1>3 DEF Open, HeaderWritten, ReplayRefuses, WriteTemporary, RenameOver, RenameFails,
                    LastSnapshot, vars, callerVars, storeVars, journalVars, All
<1>4. CASE Replay
  <2>1. snapshot' = snapshot /\ caller' = caller
    BY <1>4 DEF Replay
  <2> QED BY <1>4, <2>1, ReplayIs
<1>11. ASSUME NEW outcome \in Outcomes, ShardTick(outcome) PROVE Stamped'
  <2>1. caller' = "shard" /\ Len(All') = 0
    <3>1. All = <<>> /\ All' = All /\ caller' = "shard"
      BY <1>11, ShardTickIs, Journal
    <3> QED BY <3>1
  <2> QED BY <2>1 DEF StampedBy
<1>5. ASSUME NEW outcome \in Outcomes, AppendRecord(outcome) PROVE Stamped'
  <2>1. /\ snapshot' = snapshot /\ caller' = caller /\ tick' = tick + 1 /\ tick \in Nat
        /\ snapshot.tick \in Nat
    BY <1>5, AppendIs, Journal, FileIs DEF AppendRecord
  <2>2. ASSUME NEW n, n \in 1..tick PROVE n \in 1..tick + 1
    BY <2>1, <2>2
  <2>3. CASE ~open
    <3>1. All' = All
      BY <1>5, <2>3, AppendIs
    <3> QED BY <1>1, <2>1, <2>2, <3>1 DEF StampedBy
  <2>4. CASE open
    <3>1. PICK frame \in Frame : frame.tick = tick + 1 /\ All' = Append(All, frame)
      BY <1>5, <2>4, AppendIs
    <3> DEFINE F == Frame \cup {TornFrame}
               n == Len(All)
    <3>2. All \in Seq(F) /\ frame \in F /\ n \in Nat
      BY Journal DEF Frames
    <3>3. /\ Len(All') = n + 1 /\ \A i \in 1..n : All'[i] = All[i]
          /\ All'[n + 1] = frame
      <4> HIDE DEF F
      <4> QED BY <3>1, <3>2, AppendProperties
    <3>4. \A i \in 1..n + 1 : All'[i] # TornFrame => All'[i].tick \in 1..tick + 1
      <4> HIDE DEF F, n
      <4>1. \A i \in 1..n : All'[i] # TornFrame => All'[i].tick \in 1..tick + 1
        BY <1>1, <2>2, <3>3 DEF StampedBy, n
      <4>2. All'[n + 1].tick \in 1..tick + 1
        BY <2>1, <3>1, <3>3
      <4> QED BY <3>2, <4>1, <4>2
    <3>5. ASSUME NEW i \in 1..n + 1, NEW j \in 1..n + 1, i < j,
                 All'[i] # TornFrame, All'[j] # TornFrame
          PROVE  All'[i].tick < All'[j].tick
      <4> HIDE DEF F, n
      <4>1. i \in 1..n
        BY <3>2, <3>5
      <4>2. All'[i] = All[i] /\ All[i].tick \in 1..tick
        BY <1>1, <3>3, <3>5, <4>1 DEF StampedBy, n
      <4>3. CASE j \in 1..n
        BY <1>1, <3>3, <3>5, <4>1, <4>2, <4>3 DEF StampedBy, n
      <4>4. CASE j = n + 1
        BY <2>1, <3>1, <3>3, <4>2, <4>4
      <4> QED BY <3>2, <4>3, <4>4
    <3>6. StampedBy(All', tick + 1)
      <4> HIDE DEF F, n
      <4> QED BY <3>3, <3>4, <3>5 DEF StampedBy
    <3> QED BY <1>1, <2>1, <3>6
  <2> QED BY <2>3, <2>4
<1>6. CASE Flush
  <2>1. All' = All /\ tick' = tick /\ caller' = caller /\ snapshot' = snapshot
    BY <1>6, FlushIs DEF Flush, All, callerVars
  <2> QED BY <1>2, <2>1
<1>7. CASE ReopenFails \/ Stop
  <2>1. All' = All /\ tick' = tick /\ caller' = caller /\ snapshot' = snapshot
    BY <1>7, FlushIs DEF ReopenFails, Stop, All, callerVars
  <2> QED BY <1>2, <2>1
<1>8. CASE TruncateJournal
  <2>1. All' = <<>> \o <<>> /\ tick' = tick /\ caller' = caller /\ snapshot' = snapshot
    BY <1>8 DEF TruncateJournal, All, callerVars
  <2>2. Len(All') = 0
    BY <2>1
  <2>3. StampedBy(All', tick)
    BY <2>2 DEF StampedBy
  <2> QED BY <1>1, <2>1, <2>3
<1>9. CASE Crash
  <2>1. PICK a \in Frames :
          /\ frames' = a \/ frames' = a \o <<TornFrame>>
          /\ Len(a) \in Nat /\ Len(All) \in Nat
          /\ \A i \in 1..Len(a) : i <= Len(All) /\ a[i] = All[i]
    BY <1>9, CrashIs
  <2>2. /\ frames' \in Frames /\ Len(frames') \in Nat
        /\ Len(frames') = Len(a) \/ (Len(frames') = Len(a) + 1 /\ frames'[Len(a) + 1] = TornFrame)
        /\ \A i \in 1..Len(a) : frames'[i] = a[i]
    BY <2>1, CrashFrames
  <2>3. \A i \in 1..Len(frames') :
          frames'[i] = TornFrame \/ (i <= Len(All) /\ frames'[i] = All[i])
    BY <2>1, <2>2
  <2>4. StampedBy(frames', tick)
    <3>1. tick \in Nat /\ StampedBy(All, tick)
      BY Journal
    <3> QED BY <2>1, <2>2, <2>3, <3>1, StampedStill
  <2>5. All' = frames' /\ tick' = tick /\ caller' = caller /\ snapshot' = snapshot
    <3>1. frames' \in Seq(Frame \cup {TornFrame})
      BY <2>2 DEF Frames
    <3>2. buffered' = <<>> /\ tick' = tick /\ caller' = caller /\ snapshot' = snapshot
      BY <1>9 DEF Crash, callerVars
    <3> QED BY <3>1, <3>2, ConcatEmptySeq DEF All
  <2> QED BY <1>1, <2>4, <2>5
<1>10. CASE Damage
  <2>1. PICK i \in 1..Len(frames) : frames' = [frames EXCEPT ![i] = TornFrame]
    BY <1>10 DEF Damage
  <2>2. /\ mode = "down" /\ buffered' = buffered /\ tick' = tick /\ caller' = caller
        /\ snapshot' = snapshot
    BY <1>10 DEF Damage, callerVars
  <2>3. buffered = <<>> /\ buffered' = <<>>
    BY <2>2 DEF IInv, Stages, Up
  <2>4. Len(frames') = Len(frames) /\ \A k \in 1..Len(frames') : frames'[k] = TornFrame \/ frames'[k] = frames[k]
    <3> DEFINE F == Frame \cup {TornFrame}
    <3>1. frames \in Seq(F) /\ TornFrame \in F
      BY Journal DEF Frames
    <3> HIDE DEF F
    <3>2. /\ Len([frames EXCEPT ![i] = TornFrame]) = Len(frames)
          /\ \A k \in 1..Len(frames) : [frames EXCEPT ![i] = TornFrame][k] =
                                         IF k = i THEN TornFrame ELSE frames[k]
      BY <3>1, ExceptSeq
    <3> QED BY <2>1, <3>2
  <2>5. StampedBy(frames', tick)
    <3>1. Len(frames) \in Nat /\ tick \in Nat /\ StampedBy(frames, tick)
      BY Journal
    <3> QED BY <2>4, <3>1, StampedStill
  <2>6. All' = frames'
    <3>1. frames' \in Seq(Frame \cup {TornFrame})
      BY <1>10, StepTypeOK DEF TypeOK, Next
    <3> QED BY <2>3, <3>1, ConcatEmptySeq DEF All
  <2> QED BY <1>1, <2>2, <2>5, <2>6
<1> QED BY <1>3, <1>4, <1>5, <1>6, <1>7, <1>8, <1>9, <1>10, <1>11 DEF Next

LEMMA StepNoRecords == IInv /\ [Next]_vars => NoRecords'
<1> SUFFICES ASSUME IInv, [Next]_vars, caller' = "shard" PROVE frames' = <<>> /\ buffered' = <<>>
  BY DEF NoRecords
<1>1. caller' = caller
  BY DEF Next, Open, HeaderWritten, ReplayRefuses, Replay, ShardTick, AppendRecord, Flush,
         WriteTemporary, RenameOver, RenameFails, TruncateJournal, ReopenFails, LastSnapshot, Stop,
         Crash, Damage, vars, callerVars
<1>2. caller = "shard" /\ frames = <<>> /\ buffered = <<>>
  BY <1>1 DEF IInv, NoRecords
<1>3. All = <<>>
  BY <1>2, Journal
<1>4. CASE Open \/ HeaderWritten \/ ReplayRefuses \/ WriteTemporary \/ RenameOver \/ RenameFails
           \/ LastSnapshot \/ UNCHANGED vars
  BY <1>2, <1>4 DEF Open, HeaderWritten, ReplayRefuses, WriteTemporary, RenameOver, RenameFails,
                    LastSnapshot, vars, storeVars, journalVars
<1>5. CASE Replay
  BY <1>2, <1>5, ReplayIs
<1>6. ASSUME NEW outcome \in Outcomes, ShardTick(outcome) PROVE frames' = <<>> /\ buffered' = <<>>
  BY <1>2, <1>6, ShardTickIs
<1>7. ~Flush /\ \A outcome \in Outcomes : ~AppendRecord(outcome)
  BY <1>2 DEF Flush, AppendRecord
<1>8. CASE TruncateJournal
  BY <1>8 DEF TruncateJournal
<1>9. CASE ReopenFails \/ Stop
  BY <1>3, <1>9 DEF ReopenFails, Stop, All
<1>10. CASE Crash
  <2>1. frames' = frames
    BY <1>2, <1>10, CrashIs
  <2> QED BY <1>2, <1>10, <2>1 DEF Crash
<1>11. CASE Damage
  BY <1>2, <1>11 DEF Damage
<1> QED BY <1>4, <1>5, <1>6, <1>7, <1>8, <1>9, <1>10, <1>11 DEF Next

LEMMA StepClean == IInv /\ [Next]_vars => Clean'
<1> SUFFICES ASSUME IInv, [Next]_vars PROVE Clean'
  OBVIOUS
<1> USE DEF Clean, CleanStop
<1>1. Clean /\ Stages
  BY DEF IInv
<1>2. CASE Open \/ Crash \/ Stop
  BY <1>1, <1>2 DEF Open, Crash, Stop, callerVars
<1>3. CASE HeaderWritten
  BY <1>1, <1>3 DEF HeaderWritten, callerVars, historyVars, IInv
<1>4. CASE ReplayRefuses \/ WriteTemporary \/ RenameFails \/ TruncateJournal \/ ReopenFails
  BY <1>1, <1>4 DEF ReplayRefuses, WriteTemporary, RenameFails, TruncateJournal, ReopenFails,
                    callerVars, historyVars
<1>5. CASE Replay
  BY <1>1, <1>5 DEF Replay
<1>6. CASE RenameOver
  BY <1>1, <1>6 DEF RenameOver, callerVars
<1>7. ASSUME NEW outcome \in Outcomes, ShardTick(outcome) \/ AppendRecord(outcome) PROVE Clean'
  <2>1. ~leaving /\ leaving' = leaving /\ mode' = "running"
    BY <1>1, <1>7 DEF ShardTick, AppendRecord
  <2> QED BY <2>1
<1>8. CASE Flush
  <2>1. ~leaving /\ leaving' = leaving /\ mode' = "running"
    BY <1>1, <1>8 DEF Flush, callerVars
  <2> QED BY <2>1
<1>9. CASE LastSnapshot
  BY <1>1, <1>9 DEF LastSnapshot, Stages, Up, historyVars
<1>10. CASE Damage
  BY <1>1, <1>10 DEF Damage, callerVars
<1>11. CASE UNCHANGED vars
  BY <1>1, <1>11 DEF vars, callerVars, historyVars
<1> QED BY <1>2, <1>3, <1>4, <1>5, <1>6, <1>7, <1>8, <1>9, <1>10, <1>11 DEF Next

LEMMA StepTornAtTheEnd == IInv /\ [Next]_vars => TornAtTheEnd'
<1> SUFFICES ASSUME IInv, [Next]_vars PROVE TornAtTheEnd'
  OBVIOUS
<1> USE DEF TornAtTheEnd
<1>1. TornAtTheEnd
  BY DEF IInv
<1>2. ASSUME frames' = All, Up PROVE TornAtTheEnd'
  BY <1>2, Journal
<1>3. CASE Open \/ HeaderWritten \/ ReplayRefuses \/ WriteTemporary \/ RenameOver \/ RenameFails
           \/ LastSnapshot \/ UNCHANGED vars
  BY <1>1, <1>3 DEF Open, HeaderWritten, ReplayRefuses, WriteTemporary, RenameOver, RenameFails,
                    LastSnapshot, vars, storeVars, journalVars, historyVars
<1>4. CASE Replay
  BY <1>4, ReplayIs
<1>5. ASSUME NEW outcome \in Outcomes, AppendRecord(outcome) PROVE TornAtTheEnd'
  BY <1>1, <1>5 DEF AppendRecord, historyVars
<1>12. ASSUME NEW outcome \in Outcomes, ShardTick(outcome) PROVE TornAtTheEnd'
  BY <1>1, <1>12, ShardTickIs
<1>6. CASE Flush
  BY <1>2, <1>6, FlushIs DEF Flush, Up
<1>7. CASE Stop
  BY <1>2, <1>7 DEF Stop, Up, All
<1>8. CASE ReopenFails
  BY <1>2, <1>8 DEF ReopenFails, Up, All
<1>9. CASE TruncateJournal
  <2>1. frames' = <<>>
    BY <1>9 DEF TruncateJournal
  <2> QED BY <2>1
<1>10. CASE Crash
  <2>1. PICK a \in Frames :
          /\ frames' = a \/ (frames' = a \o <<TornFrame>> /\ buffered # <<>>)
          /\ buffered = <<>> => a = frames
          /\ Len(a) \in Nat /\ Len(All) \in Nat
          /\ \A i \in 1..Len(a) : i <= Len(All) /\ a[i] = All[i]
    BY <1>10, CrashIs
  <2>2. CASE buffered = <<>>
    BY <1>1, <1>10, <2>1, <2>2 DEF Crash, historyVars
  <2>3. CASE buffered # <<>>
    <3>1. Up
      BY <2>3 DEF IInv, Stages
    <3>2. \A i \in 1..Len(a) : a[i] # TornFrame
      BY <2>1, <3>1, Journal
    <3>3. /\ Len(frames') \in Nat
          /\ Len(frames') = Len(a) \/ (Len(frames') = Len(a) + 1 /\ frames'[Len(a) + 1] = TornFrame)
          /\ \A i \in 1..Len(a) : frames'[i] = a[i]
      BY <2>1, CrashFrames
    <3> QED BY <2>1, <3>2, <3>3
  <2> QED BY <2>2, <2>3
<1>11. CASE Damage
  BY <1>11 DEF Damage
<1> QED BY <1>3, <1>4, <1>5, <1>6, <1>7, <1>8, <1>9, <1>10, <1>11, <1>12 DEF Next

LEMMA BeginsAll ==
    ASSUME NEW s \in Seq(Outcomes), NEW least \in Nat, least <= Len(s)
    PROVE  Begins(s, s, least)
<1>1. Len(s) \in least..Len(s) /\ s = SubSeq(s, 1, Len(s))
  <2>1. Len(s) \in Nat
    BY LenProperties
  <2>2. SubSeq(s, 1, Len(s)) = s
    BY SubSeqFull, Zenon
  <2> QED BY <2>1, <2>2
<1> QED BY <1>1 DEF Begins

\* Nothing is asked of what was safe where the disk has lost some.
Least0 == IF sound THEN safe ELSE 0

LEMMA BeginningIs ==
    ASSUME IInv
    PROVE  /\ Least0 \in Nat /\ Least0 <= Len(state)
           /\ \E kept \in Least0..Len(state) :
                /\ Loaded(snapshot, GoodPart(frames)) = SubSeq(state, 1, kept)
                /\ Loaded(snapshot, GoodPart(frames)) \in Seq(Outcomes)
                /\ Len(Loaded(snapshot, GoodPart(frames))) = kept
<1>1. Least0 \in Nat /\ Least0 <= Len(state)
  BY Journal DEF Least0, IInv, TypeOK
<1>2. PICK kept \in Least0..Len(state) :
          Loaded(snapshot, GoodPart(frames)) = SubSeq(state, 1, kept)
  BY DEF IInv, Beginning, Begins, Least0
<1>3. kept \in 0..Len(state)
  BY <1>1, Journal
<1>4. SubSeq(state, 1, kept) \in Seq(Outcomes) /\ Len(SubSeq(state, 1, kept)) = kept
  BY <1>3, Journal, CutInTwo
<1> QED BY <1>1, <1>2, <1>4

\* After a death between flushes.
LEMMA CrashBeginning ==
    ASSUME IInv, Crash, Up, open, caller = "recorder" PROVE Beginning'
<1>1. PICK part \in Seq(Frame), rest \in Seq(Frame), a \in Frames :
          /\ a = frames \o part /\ All = a \o rest
          /\ frames' = a \/ frames' = a \o <<TornFrame>>
          /\ Len(a) \in Nat /\ Len(All) \in Nat
          /\ \A i \in 1..Len(a) : i <= Len(All) /\ a[i] = All[i]
  BY CrashIs
<1>2. \A i \in 1..Len(a) : a[i] # TornFrame
  BY <1>1, Journal
<1>3. a \in Seq(Frame)
  BY <1>2, GoodJournal
<1>4. InOrder(a) /\ InOrder(All)
  <2>1. InOrder(All)
    BY Journal
  <2> QED BY SMTT(30), <1>1, <2>1 DEF InOrder
<1>5. GoodPart(frames') = a
  <2>1. /\ frames' \in Frames /\ Len(frames') \in Nat
        /\ Len(frames') = Len(a) \/ (Len(frames') = Len(a) + 1 /\ frames'[Len(a) + 1] = TornFrame)
        /\ \A i \in 1..Len(a) : frames'[i] = a[i]
    BY <1>1, CrashFrames
  <2>2. GoodUpTo(frames', Len(a))
    <3>1. Len(a) \in 0..Len(frames') /\ (Len(a) < Len(frames') => frames'[Len(a) + 1] = TornFrame)
      BY <1>1, <2>1
    <3>2. \A i \in 1..Len(a) : frames'[i] # TornFrame
      BY <1>2, <2>1
    <3> QED BY <3>1, <3>2 DEF GoodUpTo
  <2>3. /\ GoodPart(frames') \in Seq(Frame) /\ Len(GoodPart(frames')) = Len(a)
        /\ \A i \in 1..Len(a) : GoodPart(frames')[i] = frames'[i]
    BY <2>1, <2>2, GoodPartIs
  <2> QED BY <1>3, <2>1, <2>3, SeqEqual
<1> DEFINE some == Loaded(snapshot, a)
<1>6. /\ some \in Seq(Outcomes) /\ Len(some) <= Len(Loaded(snapshot, All))
      /\ some = SubSeq(Loaded(snapshot, All), 1, Len(some))
  <2>1. snapshot \in File
    BY Journal
  <2> QED BY <1>1, <1>3, <1>4, <2>1, LoadedGrows
<1>7. Len(Loaded(snapshot, frames)) <= Len(some)
  <2>1. snapshot \in File /\ frames \in Seq(Frame)
    BY Journal
  <2> QED BY <1>1, <1>4, <2>1, LoadedGrows
<1>8. Loaded(snapshot, All) = state
  BY DEF IInv, Whole
<1>9. Least0 <= Len(Loaded(snapshot, frames)) /\ Least0 \in Nat
      /\ Len(Loaded(snapshot, frames)) \in Nat
  <2>1. GoodPart(frames) = frames
    BY Journal
  <2> QED BY <2>1, BeginningIs
<1>10. Len(some) \in Least0..Len(state)
  <2>1. Len(some) \in Nat /\ Len(state) \in Nat
    BY <1>6, LenProperties, Journal
  <2> HIDE DEF some
  <2> QED BY <1>6, <1>7, <1>8, <1>9, <2>1
<1>11. Begins(some, state, Least0)
  <2> HIDE DEF some
  <2> QED BY <1>6, <1>8, <1>10 DEF Begins
<1>12. snapshot' = snapshot /\ state' = state /\ sound' = sound /\ safe' = safe
  BY DEF Crash, callerVars, historyVars
<1> QED BY <1>5, <1>11, <1>12 DEF Beginning, Least0

\* After a frame is lost.
LEMMA DamageBeginning ==
    ASSUME IInv, Damage PROVE Beginning'
<1>1. PICK i \in 1..Len(frames) : frames' = [frames EXCEPT ![i] = TornFrame]
  BY DEF Damage
<1>2. PICK n : GoodUpTo(frames, n)
  BY Journal, GoodPartExists
<1> DEFINE F == Frame \cup {TornFrame}
           m == IF i <= n THEN i - 1 ELSE n
           good == GoodPart(frames)
           left == GoodPart(frames')
<1>3. Len(frames) \in Nat /\ n \in Nat /\ n <= Len(frames) /\ m \in Nat /\ m <= n /\ i \in Nat
  BY <1>2, Journal DEF GoodUpTo
<1>4. /\ frames' \in Frames /\ Len(frames') = Len(frames)
      /\ \A k \in 1..Len(frames) : frames'[k] = IF k = i THEN TornFrame ELSE frames[k]
  <2>1. frames \in Seq(F) /\ TornFrame \in F
    BY Journal DEF Frames
  <2>2. frames' \in Seq(F)
    <3> HIDE DEF F
    <3> QED BY <1>1, <2>1, ExceptSeq
  <2>3. /\ Len(frames') = Len(frames)
        /\ \A k \in 1..Len(frames) : frames'[k] = IF k = i THEN TornFrame ELSE frames[k]
    <3> HIDE DEF F
    <3> QED BY <1>1, <2>1, ExceptSeq
  <2> QED BY <2>2, <2>3 DEF Frames
<1>5. GoodUpTo(frames', m)
  <2>1. CASE i <= n
    <3>1. m = i - 1 /\ m + 1 = i /\ m < Len(frames)
      BY <1>3, <2>1
    <3>2. \A k \in 1..m : k # i /\ k \in 1..n /\ k \in 1..Len(frames)
      BY <1>3, <2>1, <3>1
    <3>3. \A k \in 1..m : frames'[k] # TornFrame
      <4> HIDE DEF m
      <4> QED BY <1>2, <1>4, <3>2 DEF GoodUpTo
    <3>4. frames'[i] = TornFrame
      BY <1>4
    <3> HIDE DEF m
    <3> QED BY <1>3, <1>4, <3>1, <3>3, <3>4 DEF GoodUpTo
  <2>2. CASE ~(i <= n)
    <3>1. m = n /\ n < Len(frames) /\ n + 1 \in 1..Len(frames)
      BY <1>3, <2>2
    <3>2. \A k \in 1..n : k # i /\ k \in 1..Len(frames)
      BY <1>3, <2>2
    <3>3. \A k \in 1..n : frames'[k] # TornFrame
      BY <1>2, <1>4, <3>2 DEF GoodUpTo
    <3>4. frames'[n + 1] = TornFrame
      BY <1>2, <1>4, <3>1 DEF GoodUpTo
    <3> HIDE DEF m
    <3> QED BY <1>3, <1>4, <3>1, <3>3, <3>4 DEF GoodUpTo
  <2> QED BY <2>1, <2>2
<1>6. good \in Seq(Frame) /\ Len(good) = n /\ \A k \in 1..n : good[k] = frames[k]
  BY <1>2, Journal, GoodPartIs
<1>7. left \in Seq(Frame) /\ Len(left) = m /\ \A k \in 1..m : left[k] = frames'[k]
  <2> HIDE DEF m
  <2> QED BY <1>4, <1>5, GoodPartIs
<1>8. \A k \in 1..m : left[k] = good[k]
  <2>1. \A k \in 1..m : k # i /\ k \in 1..n /\ k \in 1..Len(frames)
    BY <1>3
  <2> HIDE DEF left, good, m
  <2> QED BY <1>4, <1>6, <1>7, <2>1
<1> DEFINE rest == SubSeq(good, m + 1, Len(good))
<1>9. rest \in Seq(Frame) /\ left \o rest = good
  <2> HIDE DEF left, good, m
  <2>1. m \in 0..Len(good)
    BY <1>3, <1>6
  <2>2. /\ SubSeq(good, 1, m) \in Seq(Frame) /\ Len(SubSeq(good, 1, m)) = m
        /\ \A k \in 1..m : SubSeq(good, 1, m)[k] = good[k]
        /\ SubSeq(good, 1, m) \o rest = good /\ rest \in Seq(Frame)
    BY <1>6, <2>1, CutInTwo
  <2>3. SubSeq(good, 1, m) = left
    <3> DEFINE u == SubSeq(good, 1, m)
    <3>1. u \in Seq(Frame) /\ Len(u) = m /\ \A k \in 1..m : u[k] = good[k]
      BY <2>2
    <3> HIDE DEF u
    <3>2. u = left
      BY <1>7, <1>8, <3>1, SeqEqual
    <3> QED BY <3>2 DEF u
  <2> QED BY <2>2, <2>3
<1>10. InOrder(good)
  <2>1. StampedBy(frames, tick)
    BY Journal
  <2> HIDE DEF good
  <2>2. \A k \in 1..n : k \in 1..Len(frames) /\ good[k] = frames[k] /\ frames[k] # TornFrame
    BY <1>2, <1>3, <1>6 DEF GoodUpTo
  <2> QED BY <1>6, <2>1, <2>2 DEF StampedBy, InOrder
<1> DEFINE some == Loaded(snapshot, left)
           more == Loaded(snapshot, good)
<1>11. /\ some \in Seq(Outcomes) /\ more \in Seq(Outcomes) /\ Len(some) <= Len(more)
       /\ some = SubSeq(more, 1, Len(some))
  <2>1. snapshot \in File
    BY Journal
  <2> HIDE DEF left, good, rest
  <2> QED BY <1>7, <1>9, <1>10, <2>1, LoadedGrows
<1>12. PICK kept \in Least0..Len(state) : more = SubSeq(state, 1, kept) /\ Len(more) = kept
  BY BeginningIs
<1>13. Len(some) \in 0..Len(state) /\ \A k \in 1..Len(some) : some[k] = state[k]
  <2>1. Len(some) \in Nat /\ Len(more) \in Nat /\ Len(state) \in Nat /\ Least0 \in Nat
    BY <1>11, LenProperties, Journal, BeginningIs
  <2>2. kept \in 0..Len(state) /\ Len(some) <= kept
    BY <1>11, <1>12, <2>1
  <2>3. \A k \in 1..kept : more[k] = state[k]
    BY <1>12, <2>2, Journal, CutInTwo
  <2>4. \A k \in 1..Len(some) : some[k] = more[k]
    <3> HIDE DEF some, more
    <3>1. Len(some) \in 0..Len(more)
      BY <1>11, <2>1
    <3>2. \A k \in 1..Len(some) : SubSeq(more, 1, Len(some))[k] = more[k]
      BY <1>11, <3>1, CutInTwo
    <3> QED BY <1>11, <3>2
  <2> HIDE DEF some, more
  <2> QED BY <2>1, <2>2, <2>3, <2>4
<1>14. some = SubSeq(state, 1, Len(some))
  <2> HIDE DEF some, more
  <2>1. state \in Seq(Outcomes) /\ Len(some) <= Len(state)
    BY <1>13, Journal
  <2> QED BY <1>11, <1>13, <2>1, PrefixIs
<1>15. snapshot' = snapshot /\ state' = state /\ sound' = FALSE
  BY DEF Damage, callerVars
<1>16. Begins(some, state, 0)
  <2> HIDE DEF some
  <2> QED BY <1>13, <1>14 DEF Begins
<1> QED BY <1>15, <1>16 DEF Beginning

LEMMA StepLoads == IInv /\ [Next]_vars => Beginning' /\ Whole'
<1> SUFFICES ASSUME IInv, [Next]_vars PROVE Beginning' /\ Whole'
  OBVIOUS
<1>1. Beginning /\ Whole /\ Stages /\ Stamped /\ NoRecords /\ caller \in Caller
  BY DEF IInv, TypeOK
<1>2. ASSUME UNCHANGED <<caller, state, snapshot, frames, buffered, safe, sound>>, Up' /\ open' => Up /\ open
      PROVE  Beginning' /\ Whole'
  BY <1>1, <1>2 DEF Beginning, Whole, All
<1>3. CASE Open \/ HeaderWritten \/ ReplayRefuses \/ WriteTemporary \/ RenameFails \/ LastSnapshot
           \/ UNCHANGED vars
  BY <1>2, <1>3 DEF Open, HeaderWritten, ReplayRefuses, WriteTemporary, RenameFails, LastSnapshot,
                    vars, callerVars, storeVars, historyVars, journalVars, Up
<1>4. CASE Replay
  <2>1. /\ state' = Loaded(snapshot, GoodPart(frames)) /\ frames' = GoodPart(frames)
        /\ All' = frames' /\ frames' \in Seq(Frame) /\ state' \in Seq(Outcomes)
        /\ \A i \in 1..Len(frames') : frames'[i] # TornFrame
    BY <1>4, ReplayIs, HistoryIs
  <2>2. snapshot' = snapshot /\ safe' = Len(state') /\ Len(state') \in Nat
    BY <1>4, <2>1, LenProperties DEF Replay
  <2>3. GoodPart(frames') = frames'
    <3>1. frames' \in Frames
      BY <2>1, SeqMonotonic DEF Frames
    <3> QED BY <2>1, <3>1, GoodJournal
  <2>4. Begins(state', state', IF sound' THEN safe' ELSE 0)
    BY <2>1, <2>2, BeginsAll
  <2>5. state' = Loaded(snapshot', GoodPart(frames')) /\ state' = Loaded(snapshot', All')
    BY <2>1, <2>2, <2>3
  <2> QED BY <2>4, <2>5 DEF Beginning, Whole
<1>14. ASSUME NEW outcome \in Outcomes, Len(state) < MaxOutcomes, state' = Append(state, outcome),
              UNCHANGED <<snapshot, frames, safe, sound>>
       PROVE  Beginning'
  <2>1. PICK kept \in Least0..Len(state) : Loaded(snapshot, GoodPart(frames)) = SubSeq(state, 1, kept)
    BY BeginningIs
  <2>2. Len(state') = Len(state) + 1 /\ \A k \in 0..Len(state) : SubSeq(state, 1, k) = SubSeq(state', 1, k)
    BY <1>14, Accepted
  <2>3. kept \in 0..Len(state) /\ kept \in Least0..Len(state')
    BY <2>1, <2>2, Journal, BeginningIs
  <2>4. SubSeq(state, 1, kept) = SubSeq(state', 1, kept)
    BY <2>2, <2>3
  <2> QED BY <1>14, <2>1, <2>3, <2>4 DEF Beginning, Begins, Least0
<1>15. ASSUME NEW outcome \in Outcomes, ShardTick(outcome) PROVE Beginning' /\ Whole'
  <2>1. /\ Len(state) < MaxOutcomes /\ state' = Append(state, outcome) /\ caller' = "shard"
        /\ UNCHANGED <<snapshot, frames, safe, sound>>
    BY <1>15, ShardTickIs
  <2>2. Beginning'
    BY <1>14, <2>1
  <2> QED BY <2>1, <2>2 DEF Whole
<1>5. ASSUME NEW outcome \in Outcomes, AppendRecord(outcome) PROVE Beginning' /\ Whole'
  <2>1. state' = Append(state, outcome) /\ Len(state) < MaxOutcomes /\ caller = "recorder"
    BY <1>5 DEF AppendRecord
  <2>2. UNCHANGED <<caller, snapshot, frames, safe, sound, open, mode>> /\ mode = "running"
    BY <1>5 DEF AppendRecord, historyVars
  <2>3. Beginning'
    BY <1>14, <2>1, <2>2
  <2>4. ASSUME open PROVE Whole'
    <3>1. PICK frame \in Frame : frame.tick = tick + 1 /\ frame.outcome = outcome /\ All' = Append(All, frame)
      BY <1>5, <2>4, AppendIs
    <3>2. Up
      BY <2>2 DEF Up
    <3>3. All \in Seq(Frame) /\ InOrder(All) /\ snapshot \in File /\ tick \in Nat
      BY <3>2, Journal
    <3>4. frame.tick > snapshot.tick
      BY <1>1, <2>1, <3>1, <3>3, FileIs DEF Stamped
    <3>5. Loaded(snapshot, Append(All, frame)) = Append(Loaded(snapshot, All), outcome)
      BY <3>1, <3>3, <3>4, LoadedAppend
    <3>6. Loaded(snapshot, All) = state
      BY <1>1, <2>1, <2>4, <3>2 DEF Whole
    <3> QED BY <2>1, <2>2, <3>1, <3>5, <3>6 DEF Whole
  <2> QED BY <2>2, <2>3, <2>4 DEF Whole
\* What has all been written can be read back.
<1>6. ASSUME Up, frames' = All, UNCHANGED <<state, snapshot, sound>>, safe' \in Nat,
             safe' <= Len(state),
             (open /\ caller = "recorder") \/ (safe' = safe /\ buffered = <<>>)
      PROVE  Beginning'
  <2>1. All \in Seq(Frame) /\ GoodPart(All) = All
    <3>1. All \in Frames /\ \A i \in 1..Len(All) : All[i] # TornFrame
      BY <1>6, Journal
    <3> QED BY <3>1, GoodJournal
  <2>2. CASE open /\ caller = "recorder"
    <3>1. Loaded(snapshot, All) = state
      BY <1>1, <1>6, <2>2 DEF Whole
    <3>2. Begins(state, state, IF sound THEN safe' ELSE 0)
      <4>1. state \in Seq(Outcomes) /\ Len(state) \in Nat
        BY Journal
      <4> QED BY <1>6, <4>1, BeginsAll
    <3> QED BY <1>6, <2>1, <3>1, <3>2 DEF Beginning
  <2>3. CASE safe' = safe /\ buffered = <<>>
    <3>1. All = frames
      BY <2>3, Journal
    <3> QED BY <1>1, <1>6, <2>3, <3>1 DEF Beginning
  <2> QED BY <1>6, <2>2, <2>3
<1>16. safe \in Nat /\ safe <= Len(state) /\ Len(state) \in Nat /\ Len(state) <= Len(state)
  BY Journal DEF IInv, TypeOK
\* A shard has nothing buffered, and neither has a store that lost its journal.
<1>17. ASSUME Up, ~(open /\ caller = "recorder") PROVE buffered = <<>>
  BY <1>1, <1>17 DEF Stages, NoRecords, Caller
<1>7. CASE Flush
  <2>1. /\ UNCHANGED <<caller, state, snapshot, sound, mode, open>> /\ caller = "recorder"
        /\ Up /\ frames' = All /\ All' = All
        /\ safe' = IF open THEN Len(state) ELSE safe
    BY <1>7, FlushIs DEF Flush, Up, All, callerVars
  <2>2. Beginning'
    BY <1>6, <1>16, <1>17, <2>1
  <2>3. Whole'
    BY <1>1, <2>1 DEF Whole, Up
  <2> QED BY <2>2, <2>3
<1>8. CASE Stop
  <2>1. Up /\ frames' = All /\ open' = FALSE /\ UNCHANGED <<state, snapshot, sound>>
        /\ safe' = IF caller = "recorder" /\ open THEN Len(state) ELSE safe
    BY <1>8 DEF Stop, Up, All, callerVars
  <2>2. Beginning'
    BY <1>6, <1>16, <1>17, <2>1
  <2> QED BY <2>1, <2>2 DEF Whole
<1>9. CASE RenameOver
  <2>1. /\ snapshot' = [tick |-> tick, state |-> state, there |-> TRUE]
        /\ safe' = Len(state) /\ UNCHANGED <<state, frames, buffered, open, sound>> /\ Up
    BY <1>9 DEF RenameOver, callerVars, journalVars, Up
  <2>2. snapshot' \in File /\ snapshot'.state = state /\ snapshot'.tick = tick
    BY <2>1, Journal DEF File
  <2>3. Loaded(snapshot', All) = state /\ Loaded(snapshot', frames) = state
    <3>1. /\ All \in Seq(Frame) /\ frames \in Seq(Frame)
          /\ \A i \in 1..Len(All) : All[i].tick <= tick
          /\ \A i \in 1..Len(frames) : frames[i].tick <= tick
      BY <2>1, Journal
    <3> QED BY <2>2, <3>1, LoadedNothing
  <2>4. GoodPart(frames) = frames /\ state \in Seq(Outcomes) /\ Len(state) \in Nat
    BY <2>1, Journal
  <2>5. Begins(state, state, IF sound THEN safe' ELSE 0)
    BY <2>1, <2>4, BeginsAll
  <2>6. Beginning'
    BY <2>1, <2>3, <2>4, <2>5 DEF Beginning
  <2>7. Whole'
    BY <2>1, <2>3 DEF Whole, All
  <2> QED BY <2>6, <2>7
<1>10. CASE TruncateJournal
  <2>1. /\ frames' = <<>> /\ buffered' = <<>> /\ safe' = safe
        /\ UNCHANGED <<state, snapshot, sound>> /\ mode = "rotating"
    BY <1>10 DEF TruncateJournal, callerVars, historyVars
  <2>2. snapshot.state = state /\ snapshot \in File /\ state \in Seq(Outcomes)
    BY <1>1, <2>1, Journal DEF Stages
  <2>3. <<>> \in Seq(Frame) /\ Len(<<>>) = 0 /\ <<>> \o <<>> = <<>> /\ <<>> \in Frames
    BY DEF Frames
  <2>4. Loaded(snapshot, <<>>) = state
    BY <2>2, LoadedEmpty
  <2>5. GoodPart(<<>>) = <<>>
    BY <2>3, GoodJournal
  <2>6. Begins(state, state, Least0)
    BY <2>2, BeginsAll, BeginningIs
  <2>7. Beginning'
    BY <2>1, <2>4, <2>5, <2>6 DEF Beginning, Least0
  <2>8. Whole'
    BY <2>1, <2>3, <2>4 DEF Whole, All
  <2> QED BY <2>7, <2>8
<1>11. CASE ReopenFails
  <2>1. /\ frames' = All /\ open' = FALSE /\ Up /\ mode = "rotating"
        /\ UNCHANGED <<state, snapshot, safe, sound>>
    BY <1>11 DEF ReopenFails, Up, All, callerVars
  <2>2. All \in Frames /\ All \in Seq(Frame) /\ \A i \in 1..Len(All) : All[i].tick <= tick /\ All[i] # TornFrame
    BY <2>1, Journal
  <2>3. GoodPart(All) = All
    BY <2>2, GoodJournal
  <2>4. snapshot \in File /\ snapshot.tick = tick /\ snapshot.state = state
    BY <1>1, <2>1, Journal DEF Stages
  <2>5. Loaded(snapshot, All) = state
    BY <2>2, <2>4, LoadedNothing
  <2>6. Begins(state, state, Least0)
    BY Journal, BeginsAll, BeginningIs
  <2> QED BY <2>1, <2>3, <2>5, <2>6 DEF Beginning, Whole, Least0
<1>12. CASE Crash
  <2>1. ~Up'
    BY <1>12 DEF Crash, Up
  <2>2. CASE Up /\ open /\ caller = "recorder"
    BY <1>12, <2>1, <2>2, CrashBeginning DEF Whole
  <2>3. CASE ~(Up /\ open /\ caller = "recorder")
    <3>1. buffered = <<>>
      BY <1>1, <1>17, <2>3 DEF Stages
    <3>2. frames' = frames
      BY <1>12, <3>1, CrashIs
    <3>3. snapshot' = snapshot /\ state' = state /\ sound' = sound /\ safe' = safe
      BY <1>12 DEF Crash, callerVars, historyVars
    <3> QED BY <1>1, <2>1, <3>2, <3>3 DEF Beginning, Whole
  <2> QED BY <2>2, <2>3
<1>13. CASE Damage
  <2>1. ~Up'
    BY <1>13 DEF Damage, Up
  <2> QED BY <1>13, <2>1, DamageBeginning DEF Whole
<1> QED BY <1>3, <1>4, <1>5, <1>7, <1>8, <1>9, <1>10, <1>11, <1>12, <1>13, <1>15 DEF Next

-----------------------------------------------------------------------------
(* The theorems. *)

\* A caller that has nothing yet.
LEMMA NothingYet ==
    /\ <<>> \in History /\ Begins(<<>>, <<>>, 0) /\ GoodPart(<<>>) = <<>>
    /\ NoFile \in File /\ Loaded(NoFile, <<>>) = <<>>
<1>1. <<>> \in Seq(Outcomes) /\ Len(<<>>) = 0 /\ <<>> \in Frames
  BY EmptySeq DEF Frames
<1>2. ASSUME NEW s \in Seq(Outcomes), Len(s) = 0 PROVE s \in History /\ Begins(s, s, 0)
  <2>1. s \in Seq(Outcomes) /\ Len(s) <= MaxOutcomes /\ 0 \in Nat /\ 0 <= Len(s)
    BY <1>2, BoundAssumption
  <2>2. s \in History
    BY <2>1, HistoryIs
  <2>3. Begins(s, s, 0)
    BY <2>1, BeginsAll
  <2> QED BY <2>2, <2>3
<1>3. <<>> \in History /\ Begins(<<>>, <<>>, 0)
  BY <1>1, <1>2, Zenon
<1>4. ASSUME NEW s \in Frames, Len(s) = 0 PROVE GoodPart(s) = s
  BY <1>4, GoodJournal
<1>5. GoodPart(<<>>) = <<>>
  BY <1>1, <1>4, Zenon
<1>6. NoFile \in File /\ NoFile.state = <<>>
  BY <1>1 DEF NoFile, File
<1>7. Loaded(NoFile, <<>>) = <<>>
  BY <1>6, LoadedEmpty
<1> QED BY <1>3, <1>5, <1>6, <1>7

LEMMA InitIInv == Init => IInv
<1> SUFFICES ASSUME Init PROVE IInv
  OBVIOUS
<1> USE DEF Init
<1>1. <<>> \in Seq(Outcomes) /\ <<>> \in Seq(Frame) /\ Len(<<>>) = 0 /\ <<>> \o <<>> = <<>>
      /\ <<>> \in Seq(Frame \cup {TornFrame})
  OBVIOUS
<1>2. <<>> \in History
  BY NothingYet
<1>3. TypeOK
  <2>1. snapshot \in [tick : Nat, state : History, there : BOOLEAN]
    BY <1>2 DEF NoFile
  <2>2. safe \in 0..Len(state) /\ boots \in 0..MaxBoots
    BY <1>1, BoundAssumption
  <2>3. caller \in Caller
    BY CallerAssumption
  <2> QED BY <1>1, <1>2, <2>1, <2>2, <2>3 DEF TypeOK, Mode
<1>4. Stamped /\ NoRecords /\ Floors /\ Stages /\ Whole /\ TornAtTheEnd /\ Clean
  <2>1. All = <<>> /\ Len(All) = 0 /\ \A i \in 1..Len(All) : FALSE
    BY <1>1 DEF All
  <2>2. Stamped
    BY <2>1 DEF Stamped, StampedBy, NoFile
  <2>3. Floors
    BY DEF Floors, NoFile
  <2>4. Stages /\ Whole
    BY DEF Stages, Whole, Up
  <2>5. TornAtTheEnd
    BY <1>1 DEF TornAtTheEnd
  <2>6. NoRecords /\ Clean
    BY DEF NoRecords, Clean, CleanStop
  <2> QED BY <2>2, <2>3, <2>4, <2>5, <2>6
<1>5. Beginning
  BY NothingYet DEF Beginning
<1> QED BY <1>3, <1>4, <1>5 DEF IInv

LEMMA StepIInv == IInv /\ [Next]_vars => IInv'
BY StepTypeOK, StepStamped, StepNoRecords, StepFloors, StepStages, StepLoads, StepTornAtTheEnd,
   StepClean DEF IInv

LEMMA Kept == Spec => []IInv
BY InitIInv, StepIInv, PTL DEF Spec

\* The store's files, buffer and clock are well formed in every reachable state,
\* for any outcomes, any faults and any number of boots.
THEOREM StoreTyped == Spec => []TypeOK
<1>1. IInv => TypeOK
  BY DEF IInv
<1> QED BY <1>1, Kept, PTL

\* Whoever calls it, the store's files can be read back.  While the disk keeps what
\* it was given, the snapshot, the journal and the buffer say all a recorder has at
\* every step of appends, flushes, rotations that fail part way and boots, and of the
\* shard, and of a store without a journal, a beginning with all that was safe in it.
\* A torn frame is never anywhere but at the end; and when the shard's last snapshot
\* has been tried and none has failed since the boot, all of its state is safe.
THEOREM FilesCoverTheState == Spec => []FilesReadBack
<1>1. IInv => FilesReadBack
  <2> SUFFICES ASSUME IInv PROVE FilesReadBack
    OBVIOUS
  <2>1. Covered
    <3> SUFFICES ASSUME Up, sound
                 PROVE  IF caller = "recorder" /\ open THEN state = Said
                        ELSE \E kept \in safe..Len(state) : Said = SubSeq(state, 1, kept)
      BY DEF Covered
    <3>1. Said = Loaded(snapshot, All)
      <4>1. Floor = snapshot.tick
        BY DEF Floor, IInv, Floors, TypeOK, None, Torn
      <4> QED BY <4>1 DEF Said, Loaded, All
    <3>2. CASE caller = "recorder" /\ open
      BY <3>1, <3>2 DEF IInv, Whole
    <3>3. CASE ~(caller = "recorder" /\ open)
      <4>1. buffered = <<>>
        BY <3>3 DEF IInv, TypeOK, Caller, Stages, NoRecords
      <4>2. All = frames /\ GoodPart(frames) = frames
        BY <4>1, Journal
      <4>3. \E kept \in safe..Len(state) : Loaded(snapshot, frames) = SubSeq(state, 1, kept)
        BY <4>2 DEF IInv, Beginning, Begins
      <4> QED BY <3>1, <3>3, <4>2, <4>3
    <3> QED BY <3>2, <3>3
  <2>2. TornOnlyAtTheEnd
    <3>1. ASSUME sound, Corrupt PROVE FALSE
      <4>1. PICK n : GoodUpTo(frames, n)
        BY Journal, GoodPartExists
      <4>2. FirstBad(frames) = n + 1 /\ n # Len(frames)
        BY <3>1, <4>1, Journal, FirstBadIs DEF Corrupt
      <4>3. n + 1 = Len(frames) /\ frames[n + 1] = TornFrame
        BY <3>1, <4>1, <4>2, Journal DEF GoodUpTo, IInv, TornAtTheEnd
      <4>4. PICK i \in n + 1..Len(frames) : frames[i] # TornFrame
        BY <3>1, <4>2 DEF Corrupt, AnyGoodFrameAfter
      <4> QED BY <4>1, <4>3, <4>4, Journal DEF GoodUpTo
    <3> QED BY <3>1 DEF TornOnlyAtTheEnd
  <2>3. CleanStop
    BY DEF IInv, Clean
  <2> QED BY <2>1, <2>2, <2>3 DEF FilesReadBack
<1> QED BY <1>1, Kept, PTL

\* The store implements the abstract log for both of its callers: every step of it
\* accepts an outcome, commits, stops, dies, loses some of the disk, or is none of
\* the log's business, and a boot brings back a beginning with all that was safe in it.
THEOREM StoreImplementsLog == Spec => Promise
<1>1. Init => Log!Init
  BY DEF Init, Log!Init, Up
<1>2. IInv /\ [Next]_vars => [Log!Next]_Log!vars
  <2> SUFFICES ASSUME IInv, [Next]_vars PROVE [Log!Next]_Log!vars
    OBVIOUS
  <2> USE DEF Log!Next, Log!vars
  <2>1. CASE Open \/ HeaderWritten \/ ReplayRefuses \/ WriteTemporary \/ RenameFails
             \/ TruncateJournal \/ ReopenFails \/ LastSnapshot \/ UNCHANGED vars
    BY <2>1 DEF Open, HeaderWritten, ReplayRefuses, WriteTemporary, RenameFails, TruncateJournal,
                ReopenFails, LastSnapshot, vars, callerVars, historyVars, Up
  <2>2. CASE Replay
    <3>1. PICK kept \in (IF sound THEN safe ELSE 0)..Len(state) :
              state' = SubSeq(state, 1, kept) /\ Len(state') = kept
      BY <2>2, ReplayIs
    <3>2. ~Up /\ Up' /\ safe' = kept /\ sound' = sound
      BY <2>2, <3>1 DEF Replay, Up
    <3>3. Log!Recover
      BY <3>1, <3>2 DEF Log!Recover
    <3> QED BY <3>3
  <2>3. ASSUME NEW outcome \in Outcomes, ShardTick(outcome) \/ AppendRecord(outcome)
        PROVE  Log!Accept
    BY <2>3 DEF ShardTick, AppendRecord, historyVars, Log!Accept, Up
  <2>4. CASE Flush
    BY <2>4 DEF Flush, callerVars, Log!Commit, Up
  <2>5. CASE RenameOver
    BY <2>5 DEF RenameOver, callerVars, Log!Commit, Up
  <2>6. CASE Stop
    BY <2>6 DEF Stop, callerVars, Log!Stop, Log!Crash, Up
  <2>7. CASE Crash
    BY <2>7 DEF Crash, callerVars, historyVars, Log!Crash, Up
  <2>8. CASE Damage
    BY <2>8 DEF Damage, callerVars, Log!DiskFails, Up
  <2> QED BY <2>1, <2>2, <2>3, <2>4, <2>5, <2>6, <2>7, <2>8 DEF Next
<1> QED BY <1>1, <1>2, Kept, PTL DEF Spec, Promise, Log!Spec

=============================================================================
