---------------------------- MODULE OrdersProofs ----------------------------
(* Proofs about module Orders: for any ships, places and clocks, and every *)
(* batch of orders, ships and ids stay apart, plans fit, plans are flown,  *)
(* and every order runs down.                                              *)
EXTENDS Orders, FiniteSetTheorems, WellFoundedInduction, TLAPS

\* Orders are named in turn, an append only when it has joined nothing.
Named ==
    /\ nextOrderId >= 1
    /\ \A i \in DOMAIN pending :
         ~pending[i].append =>
           /\ pending[i].id \in 1..(nextOrderId - 1)
           /\ \A j \in DOMAIN pending :
                ~pending[j].append /\ pending[j].id = pending[i].id => i = j

\* Where a plan can stand: only a Mine or a Warp is under way without a leg, one
\* that is on its next leg has it, and a leg that is appended to none is fresh.
Standing(g) ==
    /\ g.state # "Done" /\ g.kind \notin {"Mine", "Warp"} => g.legIndex < Len(g.legs)
    /\ g.state = "Arriving" => g.legIndex < Len(g.legs)
    /\ g.state # "Done" /\ g.legIndex >= Len(g.legs) => g.fresh = TRUE

\* A plan that has been solved was solved for all its members, or more: a group
\* only ever loses ships.
Counted(g) == g.fresh = FALSE => Cardinality(g.members) <= g.solved

Leg(g) == g.legs[g.legIndex + 1]
Here(g) == g.members \cap OnGrid

Steering(g) ==
    /\ \E s \in Here(g) : guide[s] = Leg(g)
    /\ \A s \in Here(g) : guide[s] \in {Leg(g), Nowhere}

\* ShipsFlyTheirPlan through the ingest as well, where the stale plans are the
\* ones that are still to be solved.
Flown == \A g \in groups : Flying(g) /\ (phase = "ingest" => ~Stale(g)) => Steering(g)

Manned ==
    phase = "idle" =>
      \A g \in groups : g.state # "Done" /\ g.kind # "Warp" => g.members \cap OnGrid # {}

GroupsWell == IsFiniteSet(groups) /\ \A g \in groups : Standing(g) /\ Counted(g)

\* A ship that is not here holds, so that one that comes back does.
Parked ==
    \A s \in Ships : /\ pos[s] = Nowhere => guide[s] = Nowhere
                     /\ pos[s] = Nowhere <=> left[s] # "no"

IInv == TypeOK /\ PlansFit /\ OrdersApart /\ Named /\ GroupsWell /\ Parked /\ Flown /\ Manned

-----------------------------------------------------------------------------
(* The slowest spool of a fleet is one of its ships'. *)

LEMMA MemberCount ==
    ASSUME NEW S \in SUBSET Ships
    PROVE  IsFiniteSet(S) /\ Cardinality(S) \in Nat
BY ShipAssumption, FS_Subset, FS_CardinalityType

LEMMA SlowestSpoolType ==
    ASSUME NEW S \in SUBSET Ships
    PROVE  SlowestSpool(S) \in Nat
<1> DEFINE slower(s) == {x \in S : SpoolTicks[x] > SpoolTicks[s]}
           sizes == {Cardinality(slower(s)) : s \in S}
<1>1. \A s \in S : SpoolTicks[s] \in Nat
  BY TimerAssumption
<1>2. \A s \in S : slower(s) \in SUBSET Ships /\ Cardinality(slower(s)) \in Nat
  BY MemberCount
<1>3. CASE S = {}
  BY <1>3 DEF SlowestSpool
<1>4. CASE S # {}
  <2>1. sizes \subseteq Nat /\ sizes # {}
    BY <1>2, <1>4
  <2>2. PICK least \in sizes : \A n \in sizes : <<n, least>> \notin OpToRel(<, Nat)
    <3> HIDE DEF sizes
    <3> QED BY <2>1, WFMin, NatLessThanWellFounded
  <2>3. \A n \in sizes : ~(n < least)
    BY <2>1, <2>2 DEF OpToRel
  <2>4. PICK s \in S : least = Cardinality(slower(s))
    BY <2>2
  <2>5. ASSUME NEW x \in S, SpoolTicks[x] > SpoolTicks[s] PROVE FALSE
    <3>1. slower(x) \subseteq slower(s) /\ x \in slower(s) /\ x \notin slower(x)
      BY <1>1, <2>5
    <3>2. slower(x) # slower(s)
      BY <3>1
    <3>3. IsFiniteSet(slower(s)) /\ slower(x) \in SUBSET slower(s)
      BY <3>1, MemberCount
    <3> HIDE DEF slower
    <3>4. Cardinality(slower(x)) <= Cardinality(slower(s)) /\ Cardinality(slower(x)) # Cardinality(slower(s))
      BY <3>2, <3>3, FS_Subset
    <3>5. Cardinality(slower(x)) < Cardinality(slower(s))
      BY <1>2, <3>4
    <3> QED BY <2>3, <2>4, <3>5
  <2>6. \A x \in S : SpoolTicks[x] <= SpoolTicks[s]
    BY <1>1, <2>5
  <2>7. \E n \in {SpoolTicks[x] : x \in S} : \A x \in S : SpoolTicks[x] <= n
    BY <2>6
  <2>8. (CHOOSE n \in {SpoolTicks[x] : x \in S} : \A x \in S : SpoolTicks[x] <= n)
            \in {SpoolTicks[x] : x \in S}
    BY <2>7
  <2> QED BY <1>1, <1>4, <2>8 DEF SlowestSpool
<1> QED BY <1>3, <1>4

-----------------------------------------------------------------------------
(* What the steps do to one group. *)

\* The same order, whatever else has changed.
Same(h, g) == h.id = g.id /\ h.kind = g.kind /\ h.members = g.members

LEMMA FinishedGroup ==
    ASSUME NEW g \in Group
    PROVE  /\ Finished(g) \in Group /\ Same(Finished(g), g)
           /\ Finished(g).state = "Done" /\ Finished(g).legs = g.legs
           /\ Finished(g).legIndex = g.legIndex
           /\ Finished(g).fresh = g.fresh /\ Finished(g).solved = g.solved
BY TimerAssumption DEF Finished, Group, Same

LEMMA SolvedGroup ==
    ASSUME NEW g \in Group
    PROVE  /\ Solved(g) \in Group /\ Same(Solved(g), g)
           /\ Solved(g).legs = g.legs /\ Solved(g).legIndex = g.legIndex
           /\ Here(g) = {} => Solved(g) = Finished(g)
           /\ Here(g) # {} => /\ Solved(g).state = g.state /\ Solved(g).fresh = FALSE
                              /\ Solved(g).solved = Cardinality(g.members)
<1>1. Cardinality(g.members) \in Nat
  BY MemberCount DEF Group
<1>2. CASE Here(g) = {}
  BY <1>2, FinishedGroup DEF Solved, Here
<1>3. CASE Here(g) # {}
  BY <1>1, <1>3, TimerAssumption DEF Solved, Here, Group, Same
<1> QED BY <1>2, <1>3

LEMMA NextLegGroup ==
    ASSUME NEW g \in Group
    PROVE  /\ NextLeg(g) \in Group /\ Same(NextLeg(g), g)
           /\ NextLeg(g).legs = g.legs /\ NextLeg(g).legIndex = g.legIndex + 1
           /\ NextLeg(g).state = g.state /\ NextLeg(g).fresh = TRUE
           /\ NextLeg(g).solved = g.solved
<1>1. g.legIndex + 1 \in Nat /\ 0 \in Nat
  BY DEF Group
<1> QED BY <1>1 DEF NextLeg, Group, Same

LEMMA TickedGroup ==
    ASSUME NEW g \in Group
    PROVE  /\ Ticked(g) \in Group /\ Same(Ticked(g), g)
           /\ Ticked(g).legs = g.legs /\ Ticked(g).legIndex = g.legIndex
           /\ Ticked(g).state = g.state /\ Ticked(g).fresh = g.fresh
           /\ Ticked(g).solved = g.solved
<1>1. \A n \in Nat : CountDown(n) \in Nat
  BY DEF CountDown
<1> QED BY <1>1 DEF Ticked, Group, Same

Smaller(g, S) == [g EXCEPT !.members = @ \ S]

LEMMA SmallerGroup ==
    ASSUME NEW g \in Group, NEW S \in SUBSET Ships
    PROVE  /\ Smaller(g, S) \in Group /\ Smaller(g, S).id = g.id /\ Smaller(g, S).kind = g.kind
           /\ Smaller(g, S).members = g.members \ S /\ Smaller(g, S).legs = g.legs
           /\ Smaller(g, S).legIndex = g.legIndex /\ Smaller(g, S).state = g.state
           /\ Smaller(g, S).fresh = g.fresh /\ Smaller(g, S).solved = g.solved
BY DEF Smaller, Group

LEMMA GrownGroup ==
    ASSUME NEW g \in Group, NEW place \in Targets
    PROVE  /\ Grown(g, place) \in Group /\ Same(Grown(g, place), g)
           /\ Grown(g, place).legs = Append(g.legs, place)
           /\ Grown(g, place).legIndex = g.legIndex
           /\ Grown(g, place).state = "Underway" /\ Grown(g, place).solved = g.solved
           /\ Grown(g, place).fresh = (g.fresh \/ g.state = "Done")
<1>1. Append(g.legs, place) \in Seq(Targets)
  BY DEF Group
<1> QED BY <1>1 DEF Grown, Group, Same

Restated(g, state) == [g EXCEPT !.state = state]

LEMMA RestatedGroup ==
    ASSUME NEW g \in Group, NEW state \in {"Underway", "Arriving"}
    PROVE  /\ Restated(g, state) \in Group /\ Same(Restated(g, state), g)
           /\ Restated(g, state).legs = g.legs /\ Restated(g, state).legIndex = g.legIndex
           /\ Restated(g, state).state = state /\ Restated(g, state).fresh = g.fresh
           /\ Restated(g, state).solved = g.solved
BY DEF Restated, Group, Same

LEMMA LegType ==
    ASSUME NEW g \in Group, g.legIndex < Len(g.legs)
    PROVE  Leg(g) \in Targets /\ Leg(g) # Nowhere
<1>1. g.legs \in Seq(Targets) /\ g.legIndex \in Nat
  BY DEF Group
<1>2. Leg(g) \in Targets
  BY <1>1 DEF Leg
<1> QED BY <1>2, PlaceAssumption

\* A group's turn: it is over, it flies the leg it flew, or it is on the next.
LEMMA AdvancedGroup ==
    ASSUME NEW g \in Group, g.legIndex <= Len(g.legs), Len(g.legs) <= MaxLegs,
           Standing(g), Counted(g)
    PROVE  /\ Advanced(g) \in Group /\ Same(Advanced(g), g)
           /\ Advanced(g).legs = g.legs /\ Advanced(g).legIndex <= Len(g.legs)
           /\ Standing(Advanced(g)) /\ Counted(Advanced(g))
           /\ \/ ~Flying(Advanced(g))
              \/ Flying(g) /\ Advanced(g).state = "Underway" /\ Advanced(g).legIndex = g.legIndex
              \/ Flying(g) /\ Here(g) # {} /\ Advanced(g).state = "Arriving"
<1> DEFINE n == NextLeg(g)
<1>0. g.legIndex \in Nat /\ Len(g.legs) \in Nat
  BY DEF Group
<1>1. CASE ~Flying(g)
  BY <1>1 DEF Advanced, Same
<1>2. CASE Flying(g) /\ g.members \cap OnGrid = {}
  <2>1. Advanced(g) = Finished(g)
    BY <1>2 DEF Advanced
  <2> QED BY <2>1, FinishedGroup DEF Standing, Counted, Flying, Same
<1>3. CASE Flying(g) /\ g.members \cap OnGrid # {}
  <2>0. g.legIndex < Len(g.legs) /\ Here(g) # {}
    BY <1>3 DEF Flying, Here
  <2>1. CASE ~Arrived(g) /\ g.deadline > 0
    <3>1. Advanced(g) = Restated(g, "Underway")
      BY <1>3, <2>1 DEF Advanced, Restated
    <3>2. /\ Advanced(g) \in Group /\ Same(Advanced(g), g) /\ Advanced(g).legs = g.legs
          /\ Advanced(g).legIndex = g.legIndex /\ Advanced(g).state = "Underway"
          /\ Advanced(g).fresh = g.fresh /\ Advanced(g).solved = g.solved
      BY <3>1, RestatedGroup
    <3>3. Counted(Advanced(g))
      BY <3>2 DEF Counted, Same
    <3>4. Standing(Advanced(g))
      BY <1>0, <2>0, <3>2 DEF Standing
    <3> QED BY <1>3, <2>0, <3>2, <3>3, <3>4
  <2>2. CASE ~(~Arrived(g) /\ g.deadline > 0) /\ g.legIndex + 1 < Len(g.legs)
    <3>1. Advanced(g) = Restated(Solved(n), "Arriving")
      BY <1>3, <2>2 DEF Advanced, Restated
    <3>2. n \in Group /\ Same(n, g) /\ n.legs = g.legs /\ n.legIndex = g.legIndex + 1
      BY NextLegGroup
    <3>3. Here(n) = Here(g)
      BY <3>2 DEF Here, Same
    <3> HIDE DEF n
    <3>4. /\ Solved(n) \in Group /\ Same(Solved(n), n) /\ Solved(n).legs = n.legs
          /\ Solved(n).legIndex = n.legIndex /\ Solved(n).fresh = FALSE
          /\ Solved(n).solved = Cardinality(n.members)
      BY <2>0, <3>2, <3>3, SolvedGroup
    <3>5. /\ Advanced(g) \in Group /\ Same(Advanced(g), Solved(n))
          /\ Advanced(g).legs = g.legs /\ Advanced(g).legIndex = g.legIndex + 1
          /\ Advanced(g).state = "Arriving" /\ Advanced(g).fresh = FALSE
          /\ Advanced(g).solved = Cardinality(n.members)
      BY <3>1, <3>2, <3>4, RestatedGroup
    <3>6. Same(Advanced(g), g)
      BY <3>2, <3>4, <3>5 DEF Same
    <3>7. Standing(Advanced(g))
      BY <1>0, <2>2, <3>5 DEF Standing
    <3>8. Counted(Advanced(g))
      <4>1. Cardinality(n.members) \in Nat /\ Advanced(g).members = n.members
        BY <3>2, <3>4, <3>5, MemberCount DEF Group, Same
      <4> QED BY <3>5, <4>1 DEF Counted
    <3> QED BY <1>0, <1>3, <2>0, <2>2, <3>5, <3>6, <3>7, <3>8
  <2>3. CASE /\ ~(~Arrived(g) /\ g.deadline > 0) /\ ~(g.legIndex + 1 < Len(g.legs))
             /\ g.kind = "Mine"
    <3>1. Advanced(g) = Restated(n, "Underway")
      BY <1>3, <2>3 DEF Advanced, Restated
    <3>2. /\ n \in Group /\ Same(n, g) /\ n.legs = g.legs /\ n.legIndex = g.legIndex + 1
          /\ n.fresh = TRUE
      BY NextLegGroup
    <3> HIDE DEF n
    <3>3. /\ Advanced(g) \in Group /\ Same(Advanced(g), n) /\ Advanced(g).legs = n.legs
          /\ Advanced(g).legIndex = n.legIndex /\ Advanced(g).state = "Underway"
          /\ Advanced(g).fresh = n.fresh
      BY <3>1, <3>2, RestatedGroup
    <3>4. Same(Advanced(g), g) /\ Advanced(g).kind = "Mine"
      BY <2>3, <3>2, <3>3 DEF Same
    <3>5. ~Flying(Advanced(g)) /\ Advanced(g).legIndex <= Len(g.legs)
      BY <1>0, <2>0, <2>3, <3>2, <3>3 DEF Flying
    <3>6. Standing(Advanced(g)) /\ Counted(Advanced(g))
      BY <3>2, <3>3, <3>4 DEF Standing, Counted
    <3> QED BY <3>2, <3>3, <3>4, <3>5, <3>6
  <2>4. CASE /\ ~(~Arrived(g) /\ g.deadline > 0) /\ ~(g.legIndex + 1 < Len(g.legs))
             /\ g.kind # "Mine"
    <3>1. Advanced(g) = Finished(n)
      BY <1>3, <2>4 DEF Advanced
    <3>2. /\ n \in Group /\ Same(n, g) /\ n.legs = g.legs /\ n.legIndex = g.legIndex + 1
          /\ n.fresh = TRUE
      BY NextLegGroup
    <3> HIDE DEF n
    <3>3. /\ Advanced(g) \in Group /\ Same(Advanced(g), n) /\ Advanced(g).legs = n.legs
          /\ Advanced(g).legIndex = n.legIndex /\ Advanced(g).state = "Done"
          /\ Advanced(g).fresh = n.fresh
      BY <3>1, <3>2, FinishedGroup
    <3>4. Same(Advanced(g), g)
      BY <3>2, <3>3 DEF Same
    <3>5. ~Flying(Advanced(g)) /\ Standing(Advanced(g)) /\ Counted(Advanced(g))
      BY <3>2, <3>3 DEF Flying, Standing, Counted
    <3>6. Advanced(g).legIndex <= Len(g.legs)
      BY <1>0, <2>0, <2>4, <3>2, <3>3
    <3> QED BY <3>2, <3>3, <3>4, <3>5, <3>6
  <2> QED BY <2>1, <2>2, <2>3, <2>4
<1> QED BY <1>1, <1>2, <1>3

LEMMA NewGroupFor ==
    ASSUME TypeOK, NEW o \in Order, NEW id \in Nat, o.kind # "Dock"
    PROVE  /\ GroupFor(o, id) \in Group /\ GroupFor(o, id).id = id
           /\ GroupFor(o, id).members = o.ships /\ GroupFor(o, id).legIndex = 0
           /\ Len(GroupFor(o, id).legs) <= MaxLegs /\ GroupFor(o, id).fresh = TRUE
           /\ Standing(GroupFor(o, id)) /\ Counted(GroupFor(o, id))
<1> DEFINE base(legs) == NewGroup(o, id, legs)
           g == GroupFor(o, id)
<1>0. /\ MaxLegs >= 1 /\ MaxLegs \in Nat /\ ore \in Nat
      /\ o.kind \in {"Move", "Dock", "Warp", "Mine"}
  BY TimerAssumption DEF TypeOK, Order, Kinds
<1>1. ASSUME NEW legs \in Seq(Targets)
      PROVE  /\ base(legs) \in Group /\ base(legs).id = id /\ base(legs).members = o.ships
             /\ base(legs).kind = o.kind /\ base(legs).legs = legs /\ base(legs).legIndex = 0
             /\ base(legs).state = "Underway" /\ base(legs).fresh = TRUE
  BY DEF NewGroup, Group, Order
<1>2. /\ <<o.place>> \in Seq(Targets) /\ Len(<<o.place>>) = 1
      /\ <<Cluster>> \in Seq(Targets) /\ Len(<<Cluster>>) = 1
      /\ <<>> \in Seq(Targets) /\ Len(<<>>) = 0
  BY DEF Order, Targets
<1> HIDE DEF base
<1> DEFINE Shape == /\ g \in Group /\ g.id = id /\ g.members = o.ships /\ g.kind = o.kind
                    /\ g.legIndex = 0 /\ g.fresh = TRUE
<1>3. CASE o.kind = "Move"
  <2>1. g = base(<<o.place>>)
    BY <1>3 DEF GroupFor, base
  <2> HIDE DEF g
  <2>2. Shape /\ g.legs = <<o.place>> /\ g.state = "Underway"
    BY <1>1, <1>2, <2>1
  <2> QED BY <1>0, <1>2, <1>3, <2>2 DEF Standing, Counted, g
<1>4. CASE o.kind = "Mine" /\ ore > 0
  <2>1. g = base(<<Cluster>>)
    BY <1>4 DEF GroupFor, base
  <2> HIDE DEF g
  <2>2. Shape /\ g.legs = <<Cluster>> /\ g.state = "Underway"
    BY <1>1, <1>2, <2>1
  <2> QED BY <1>0, <1>2, <1>4, <2>2 DEF Standing, Counted, g
<1>5. CASE o.kind = "Mine" /\ ore = 0
  <2>1. g = Finished(base(<<>>))
    BY <1>5 DEF GroupFor, base
  <2>2. base(<<>>) \in Group
    BY <1>1, <1>2
  <2> HIDE DEF g
  <2>3. /\ g \in Group /\ Same(g, base(<<>>)) /\ g.state = "Done" /\ g.legs = base(<<>>).legs
        /\ g.legIndex = base(<<>>).legIndex /\ g.fresh = base(<<>>).fresh
    BY <2>1, <2>2, FinishedGroup
  <2>4. Shape /\ g.legs = <<>> /\ g.state = "Done"
    BY <1>1, <1>2, <2>3 DEF Same
  <2> QED BY <1>0, <1>2, <2>4 DEF Standing, Counted, g
<1>6. CASE o.kind = "Warp"
  <2> DEFINE spool == SlowestSpool(o.ships \cap OnGrid)
  <2>1. g = [base(<<>>) EXCEPT !.spool = spool]
    BY <1>6 DEF GroupFor, base
  <2>2. spool \in Nat
    BY SlowestSpoolType DEF Order
  <2>3. base(<<>>) \in Group
    BY <1>1, <1>2
  <2> HIDE DEF spool, g
  <2>4. /\ g \in Group /\ g.id = base(<<>>).id /\ g.members = base(<<>>).members
        /\ g.kind = base(<<>>).kind /\ g.legs = base(<<>>).legs
        /\ g.legIndex = base(<<>>).legIndex /\ g.state = base(<<>>).state
        /\ g.fresh = base(<<>>).fresh
    BY <2>1, <2>2, <2>3 DEF Group
  <2>5. Shape /\ g.legs = <<>> /\ g.state = "Underway"
    BY <1>1, <1>2, <2>4
  <2> QED BY <1>0, <1>2, <1>6, <2>5 DEF Standing, Counted, g
<1>7. (o.kind = "Mine") => (ore > 0 \/ ore = 0)
  BY <1>0
<1> QED BY ONLY <1>0, <1>3, <1>4, <1>5, <1>6, <1>7, o.kind # "Dock"

-----------------------------------------------------------------------------
(* What the steps do to all of them: a group becomes at most one group, of the *)
(* same id and with no new member, and the pending list at most loses its head. *)

LEMMA GroupsKept ==
    ASSUME TypeOK, OrdersApart, Named, GroupsWell,
           NEW F \in [groups -> Group], groups' \subseteq {F[g] : g \in groups},
           \A g \in groups : F[g].id = g.id /\ F[g].members \subseteq g.members,
           NEW d \in {0, 1}, pending' \in Seq(Order),
           \A i \in DOMAIN pending' : i + d \in DOMAIN pending /\ pending'[i] = pending[i + d],
           nextOrderId' = nextOrderId
    PROVE  OrdersApart' /\ Named' /\ IsFiniteSet(groups') /\ groups' \in SUBSET Group
<1>0. \A h \in groups' : \E g \in groups : h = F[g]
  OBVIOUS
<1>1. OneGroupPerShip'
  BY <1>0 DEF OrdersApart, OneGroupPerShip
<1>2. DOMAIN pending' = 1..Len(pending') /\ DOMAIN pending = 1..Len(pending)
  BY DEF TypeOK
<1>3. OneOrderPerId'
  <2>1. \A g, h \in groups' : g.id = h.id => g = h
    BY <1>0 DEF OrdersApart, OneOrderPerId
  <2>2. \A g \in groups' : g.id \in 1..(nextOrderId' - 1)
    BY <1>0 DEF OrdersApart, OneOrderPerId
  <2>3. ASSUME NEW i \in 1..Len(pending'), ~pending'[i].append, NEW h \in groups'
        PROVE  h.id # pending'[i].id
    <3>1. i + d \in 1..Len(pending) /\ pending'[i] = pending[i + d]
      BY <1>2
    <3> QED BY <1>0, <2>3, <3>1 DEF OrdersApart, OneOrderPerId
  <2> QED BY <2>1, <2>2, <2>3 DEF OneOrderPerId
<1>4. Named'
  <2>1. ASSUME NEW i \in DOMAIN pending', ~pending'[i].append
        PROVE  /\ pending'[i].id \in 1..(nextOrderId' - 1)
               /\ \A j \in DOMAIN pending' :
                    ~pending'[j].append /\ pending'[j].id = pending'[i].id => i = j
    <3>1. i + d \in DOMAIN pending /\ pending'[i] = pending[i + d]
      OBVIOUS
    <3>2. ASSUME NEW j \in DOMAIN pending', ~pending'[j].append, pending'[j].id = pending'[i].id
          PROVE  i = j
      <4>1. j + d \in DOMAIN pending /\ pending'[j] = pending[j + d]
        OBVIOUS
      <4>2. i + d = j + d
        BY <2>1, <3>1, <3>2, <4>1 DEF Named
      <4>3. i \in Nat /\ j \in Nat
        BY <1>2
      <4> QED BY <4>2, <4>3
    <3> QED BY <2>1, <3>1, <3>2 DEF Named
  <2> QED BY <2>1 DEF Named
<1>5. IsFiniteSet(groups')
  <2> DEFINE T == {F[g] : g \in groups}
  <2>1. F \in Surjection(groups, T)
    BY DEF Surjection
  <2>2. IsFiniteSet(T)
    <3> HIDE DEF T
    <3> QED BY <2>1, FS_Surjection DEF GroupsWell
  <2> QED BY <2>2, FS_Subset
<1> QED BY <1>0, <1>1, <1>3, <1>4, <1>5 DEF OrdersApart

LEMMA TailPending ==
    ASSUME TypeOK, pending # <<>>, pending' = Tail(pending)
    PROVE  /\ pending' \in Seq(Order) /\ Head(pending) \in Order
           /\ Head(pending) = pending[1] /\ 1 \in DOMAIN pending
           /\ \A i \in DOMAIN pending' : i + 1 \in DOMAIN pending /\ pending'[i] = pending[i + 1]
BY DEF TypeOK

LEMMA SamePending ==
    ASSUME TypeOK, pending' = pending
    PROVE  /\ pending' \in Seq(Order)
           /\ \A i \in DOMAIN pending' : i + 0 \in DOMAIN pending /\ pending'[i] = pending[i + 0]
BY DEF TypeOK

\* A new order: named if it is to replace, nameless if it may join.
LEMMA QueuedOrder ==
    ASSUME TypeOK, OrdersApart, Named, groups' = groups,
           NEW o \in Order, pending' = Append(pending, o),
           o.append => nextOrderId' = nextOrderId,
           ~o.append => o.id = nextOrderId /\ nextOrderId' = nextOrderId + 1
    PROVE  OrdersApart' /\ Named' /\ pending' \in Seq(Order) /\ nextOrderId' \in Nat
<1> DEFINE n == Len(pending)
<1>0. n \in Nat /\ DOMAIN pending = 1..n /\ nextOrderId \in Nat /\ nextOrderId >= 1
  BY DEF TypeOK, Named
<1>1. /\ pending' \in Seq(Order) /\ Len(pending') = n + 1 /\ DOMAIN pending' = 1..(n + 1)
      /\ pending'[n + 1] = o /\ \A i \in 1..n : pending'[i] = pending[i]
  BY DEF TypeOK
<1> HIDE DEF n
<1>2. nextOrderId' \in Nat /\ nextOrderId' >= nextOrderId
  BY <1>0
<1>3. \A i \in 1..(n + 1) : i \in 1..n \/ i = n + 1
  BY <1>0
<1>4. OneGroupPerShip'
  BY DEF OrdersApart, OneGroupPerShip
<1>5. \A g \in groups : g.id \in 1..(nextOrderId - 1)
  BY DEF OrdersApart, OneOrderPerId
<1>6. OneOrderPerId'
  <2>1. \A g \in groups' : g.id \in 1..(nextOrderId' - 1)
    BY <1>0, <1>2, <1>5
  <2>2. ASSUME NEW i \in 1..(n + 1), ~pending'[i].append, NEW g \in groups'
        PROVE  g.id # pending'[i].id
    <3>1. CASE i \in 1..n
      BY <1>1, <2>2, <3>1 DEF OrdersApart, OneOrderPerId, n
    <3>2. CASE i = n + 1
      BY <1>0, <1>1, <1>5, <2>2, <3>2
    <3> QED BY <1>3, <3>1, <3>2
  <2> QED BY <1>1, <2>1, <2>2 DEF OrdersApart, OneOrderPerId
<1>7. Named'
  <2>1. ASSUME NEW i \in 1..(n + 1), ~pending'[i].append
        PROVE  /\ pending'[i].id \in 1..(nextOrderId' - 1)
               /\ i \in 1..n => pending'[i].id < nextOrderId
    <3>1. CASE i \in 1..n
      <4>1. pending[i].id \in 1..(nextOrderId - 1)
        BY <1>0, <1>1, <2>1, <3>1 DEF Named
      <4> QED BY <1>0, <1>1, <1>2, <3>1, <4>1
    <3>2. CASE i = n + 1
      BY <1>0, <1>1, <2>1, <3>2
    <3> QED BY <1>3, <3>1, <3>2
  <2>2. ASSUME NEW i \in 1..(n + 1), ~pending'[i].append,
               NEW j \in 1..(n + 1), ~pending'[j].append, pending'[j].id = pending'[i].id
        PROVE  i = j
    <3>1. CASE i \in 1..n /\ j \in 1..n
      BY <1>0, <1>1, <2>2, <3>1 DEF Named
    <3>2. CASE i = n + 1 /\ j \in 1..n
      BY <1>0, <1>1, <2>1, <2>2, <3>2
    <3>3. CASE i \in 1..n /\ j = n + 1
      BY <1>0, <1>1, <2>1, <2>2, <3>3
    <3> QED BY <1>3, <3>1, <3>2, <3>3
  <2> QED BY <1>0, <1>1, <1>2, <2>1, <2>2 DEF Named
<1> QED BY <1>1, <1>2, <1>4, <1>6, <1>7 DEF OrdersApart

-----------------------------------------------------------------------------
(* The clients' orders and the registry's. *)

LEMMA SubmitKeeps ==
    ASSUME IInv, NEW kind \in Kinds, NEW append \in BOOLEAN, NEW S \in SUBSET Ships,
           NEW lead \in Ships, NEW place \in Targets, Submit(kind, append, lead, S, place)
    PROVE  IInv'
<1> DEFINE o == [kind |-> kind, append |-> append, lead |-> lead, ships |-> S,
                 place |-> place, id |-> IF append THEN 0 ELSE nextOrderId]
<1>1. /\ phase = "idle" /\ pending' = Append(pending, o)
      /\ nextOrderId' = IF append THEN nextOrderId ELSE nextOrderId + 1
      /\ UNCHANGED <<phase, pos, guide, groups, ore, left>>
  BY DEF Submit
<1>2. o \in Order
  BY DEF Order, IInv, TypeOK
<1>3. /\ o.append => nextOrderId' = nextOrderId
      /\ ~o.append => o.id = nextOrderId /\ nextOrderId' = nextOrderId + 1
  BY <1>1
<1> HIDE DEF o
<1>4. OrdersApart' /\ Named' /\ pending' \in Seq(Order) /\ nextOrderId' \in Nat
  BY <1>1, <1>2, <1>3, QueuedOrder DEF IInv
<1>5. TypeOK' /\ PlansFit' /\ GroupsWell' /\ Parked' /\ Flown' /\ Manned'
  BY <1>1, <1>4
     DEF IInv, TypeOK, PlansFit, GroupsWell, Parked, Flown, Manned, Steering, Here, OnGrid
<1> QED BY <1>4, <1>5 DEF IInv

LEMMA UndockedKeeps ==
    ASSUME IInv, NEW S \in SUBSET Ships, Undocked(S)
    PROVE  IInv'
<1>1. /\ phase = "idle" /\ S # {} /\ \A s \in S : left[s] = "docked"
      /\ pos' = [s \in Ships |-> IF s \in S THEN Space ELSE pos[s]]
      /\ left' = [s \in Ships |-> IF s \in S THEN "no" ELSE left[s]]
      /\ UNCHANGED <<phase, guide, groups, ore>>
  BY DEF Undocked
<1>2. OrdersApart' /\ Named' /\ pending' \in Seq(Order) /\ nextOrderId' \in Nat
  <2>1. CASE UNCHANGED <<pending, nextOrderId>>
    BY <1>1, <2>1 DEF IInv, TypeOK, OrdersApart, OneGroupPerShip, OneOrderPerId, Named
  <2>2. ASSUME NEW berth \in {Station} \cup Points,
               pending' = Append(pending,
                 [kind |-> "Move", append |-> FALSE, lead |-> FirstOf(S), ships |-> S,
                  place |-> berth, id |-> nextOrderId]),
               nextOrderId' = nextOrderId + 1
        PROVE  OrdersApart' /\ Named' /\ pending' \in Seq(Order) /\ nextOrderId' \in Nat
    <3> DEFINE o == [kind |-> "Move", append |-> FALSE, lead |-> FirstOf(S), ships |-> S,
                     place |-> berth, id |-> nextOrderId]
    <3>1. FirstOf(S) \in Ships
      BY <1>1 DEF FirstOf
    <3>2. o \in Order
      BY <3>1 DEF Order, Kinds, Targets, IInv, TypeOK
    <3>3. o.append = FALSE /\ o.id = nextOrderId /\ pending' = Append(pending, o)
      BY <2>2
    <3> HIDE DEF o
    <3> QED BY <1>1, <2>2, <3>2, <3>3, QueuedOrder DEF IInv
  <2> QED BY <2>1, <2>2 DEF Undocked
<1>3. TypeOK' /\ PlansFit' /\ GroupsWell'
  BY <1>1, <1>2 DEF IInv, TypeOK, PlansFit, GroupsWell
<1>4. Parked'
  BY <1>1, PlaceAssumption DEF IInv, TypeOK, Parked
<1>5. \A s \in S : guide[s] = Nowhere /\ pos[s] = Nowhere
  BY <1>1 DEF IInv, Parked
<1>6. OnGrid' = OnGrid \cup S
  BY <1>1, PlaceAssumption DEF IInv, TypeOK, OnGrid
<1>7. Flown'
  <2> SUFFICES ASSUME NEW g \in groups, Flying(g)
               PROVE  Steering(g)'
    BY <1>1 DEF Flown
  <2>1. Steering(g)
    BY <1>1 DEF IInv, Flown
  <2> QED BY <1>1, <1>5, <1>6, <2>1 DEF Steering, Here
<1>8. Manned'
  BY <1>1, <1>6 DEF IInv, Manned
<1> QED BY <1>2, <1>3, <1>4, <1>7, <1>8 DEF IInv

LEMMA BeginTickKeeps ==
    ASSUME IInv, BeginTick
    PROVE  IInv'
<1>1. phase' = "ingest" /\ UNCHANGED <<pos, guide, groups, pending, nextOrderId, ore, left>>
  BY DEF BeginTick
<1>2. TypeOK' /\ PlansFit' /\ OrdersApart' /\ Named' /\ GroupsWell' /\ Parked' /\ Manned'
  BY <1>1 DEF IInv, TypeOK, PlansFit, OrdersApart, OneGroupPerShip, OneOrderPerId, Named,
              GroupsWell, Parked, Manned
<1>3. Flown'
  BY <1>1 DEF BeginTick, IInv, Flown, Steering, Here, OnGrid
<1> QED BY <1>2, <1>3 DEF IInv

-----------------------------------------------------------------------------
(* The ingest. *)

\* A plan that has lost no ship flies on; one that has is stale.
LEMMA ForgottenGroup ==
    ASSUME IInv, phase = "ingest", NEW g \in groups, NEW S \in SUBSET Ships,
           \A s \in Ships \ S : guide'[s] = guide[s] /\ pos'[s] = pos[s]
    PROVE  LET h == Smaller(g, S)
           IN  /\ Standing(h) /\ Counted(h) /\ h.legIndex <= Len(h.legs) /\ Len(h.legs) <= MaxLegs
               /\ Flying(h) /\ ~Stale(h) => Steering(h)'
<1> DEFINE h == Smaller(g, S)
<1>1. g \in Group /\ Standing(g) /\ Counted(g) /\ g.members \in SUBSET Ships
  BY DEF IInv, TypeOK, GroupsWell, Group
<1>2. /\ h \in Group /\ h.kind = g.kind /\ h.members = g.members \ S /\ h.legs = g.legs
      /\ h.legIndex = g.legIndex /\ h.state = g.state /\ h.fresh = g.fresh /\ h.solved = g.solved
  BY <1>1, SmallerGroup
<1> HIDE DEF h
<1>3. h.legIndex <= Len(h.legs) /\ Len(h.legs) <= MaxLegs
  BY <1>2 DEF IInv, PlansFit
<1>4. Standing(h)
  BY <1>1, <1>2 DEF Standing
<1>5. /\ Cardinality(h.members) \in Nat /\ Cardinality(g.members) \in Nat
      /\ Cardinality(h.members) <= Cardinality(g.members)
      /\ Cardinality(h.members) = Cardinality(g.members) => h.members = g.members
  <2>1. h.members \in SUBSET g.members /\ IsFiniteSet(g.members)
    BY <1>1, <1>2, MemberCount
  <2>2. h.members \in SUBSET Ships
    BY <1>1, <1>2
  <2> QED BY <1>1, <2>1, <2>2, FS_Subset, MemberCount
<1>6. g.solved \in Nat
  BY <1>1 DEF Group
<1>7. Counted(h)
  BY <1>1, <1>2, <1>5, <1>6 DEF Counted
<1>8. ASSUME Flying(h), ~Stale(h)
      PROVE  Steering(h)'
  <2>0. g.fresh \in BOOLEAN
    BY <1>1 DEF Group
  <2>1. h.fresh = FALSE /\ h.solved = Cardinality(h.members)
    BY <1>2, <1>8, <2>0 DEF Stale
  <2>2. Cardinality(h.members) = Cardinality(g.members)
    BY <1>1, <1>2, <1>5, <2>1 DEF Counted
  <2>3. h.members = g.members
    BY <1>5, <2>2
  <2>4. Flying(g) /\ ~Stale(g)
    BY <1>2, <1>8, <2>3 DEF Flying, Stale
  <2>5. Steering(g)
    BY <2>4 DEF IInv, Flown
  <2>6. \A s \in g.members : guide'[s] = guide[s] /\ pos'[s] = pos[s]
    BY <1>1, <1>2, <2>3
  <2>7. h.members \cap OnGrid' = g.members \cap OnGrid
    BY <1>1, <2>3, <2>6 DEF OnGrid
  <2> QED BY <1>2, <2>5, <2>6, <2>7 DEF Steering, Here, Leg
<1> QED BY <1>3, <1>4, <1>7, <1>8 DEF h

LEMMA IngestDockKeeps ==
    ASSUME IInv, IngestDock
    PROVE  IInv'
<1> DEFINE S == Head(pending).ships \cap OnGrid
           F == [g \in groups |-> Smaller(g, S)]
<1>1. /\ phase = "ingest" /\ phase' = "ingest" /\ pending # <<>> /\ pending' = Tail(pending)
      /\ groups' = Forget(groups, S)
      /\ pos' = [s \in Ships |-> IF s \in S THEN Nowhere ELSE pos[s]]
      /\ guide' = [s \in Ships |-> IF s \in S THEN Nowhere ELSE guide[s]]
      /\ left' = [s \in Ships |-> IF s \in S THEN "docked" ELSE left[s]]
      /\ UNCHANGED <<nextOrderId, ore>>
  BY DEF IngestDock, LeaveGrid
<1>2. S \in SUBSET Ships
  BY DEF OnGrid
<1> HIDE DEF S
<1>3. F \in [groups -> Group] /\ \A g \in groups : F[g].id = g.id /\ F[g].members \subseteq g.members
  BY <1>2, SmallerGroup DEF IInv, TypeOK
<1>4. groups' \subseteq {F[g] : g \in groups}
  BY <1>1 DEF Forget, Smaller
<1>5. \A h \in groups' : \E g \in groups : h = Smaller(g, S)
  BY <1>4
<1> HIDE DEF F
<1>6. OrdersApart' /\ Named' /\ IsFiniteSet(groups') /\ groups' \in SUBSET Group /\ pending' \in Seq(Order)
  <2>1. 1 \in {0, 1}
    OBVIOUS
  <2> QED BY <1>1, <1>3, <1>4, <2>1, GroupsKept, TailPending DEF IInv
<1>7. TypeOK'
  BY <1>1, <1>6 DEF IInv, TypeOK
<1>8. \A s \in Ships \ S : guide'[s] = guide[s] /\ pos'[s] = pos[s]
  BY <1>1
<1>9. PlansFit' /\ GroupsWell' /\ Flown'
  <2>1. ASSUME NEW h \in groups'
        PROVE  /\ Standing(h) /\ Counted(h) /\ h.legIndex <= Len(h.legs) /\ Len(h.legs) <= MaxLegs
               /\ Flying(h) /\ ~Stale(h) => Steering(h)'
    BY <1>1, <1>2, <1>5, <1>8, ForgottenGroup
  <2> QED BY <1>1, <1>6, <2>1 DEF PlansFit, GroupsWell, Flown
<1>10. Parked'
  BY <1>1 DEF IInv, TypeOK, Parked
<1>11. Manned'
  BY <1>1 DEF Manned
<1> QED BY <1>6, <1>7, <1>9, <1>10, <1>11 DEF IInv

LEMMA IngestAppendKeeps ==
    ASSUME IInv, IngestAppend
    PROVE  IInv'
<1> DEFINE place == Head(pending).place
           joined == Joinable(Head(pending))
           F == [g \in groups |-> IF g \in joined THEN Grown(g, place) ELSE g]
<1>1. /\ phase = "ingest" /\ phase' = "ingest" /\ pending # <<>> /\ pending' = Tail(pending)
      /\ groups' = {IF g \in joined THEN Grown(g, place) ELSE g : g \in groups}
      /\ UNCHANGED <<pos, guide, nextOrderId, ore, left>>
  BY DEF IngestAppend
<1>2. place \in Targets /\ \A g \in joined : Len(g.legs) < MaxLegs
  BY <1>1, TailPending DEF IInv, Order, Joinable
<1> HIDE DEF joined, place
<1>3. ASSUME NEW g \in groups
      PROVE  F[g] \in Group /\ F[g].id = g.id /\ F[g].members = g.members
  BY <1>2, GrownGroup DEF IInv, TypeOK, Same
<1>4. F \in [groups -> Group] /\ \A g \in groups : F[g].id = g.id /\ F[g].members \subseteq g.members
  BY <1>3
<1>5. groups' \subseteq {F[g] : g \in groups}
  BY <1>1
<1>6. \A h \in groups' : \E g \in groups : h = IF g \in joined THEN Grown(g, place) ELSE g
  BY <1>1
<1> HIDE DEF F
<1>7. OrdersApart' /\ Named' /\ IsFiniteSet(groups') /\ groups' \in SUBSET Group /\ pending' \in Seq(Order)
  <2>1. 1 \in {0, 1}
    OBVIOUS
  <2> QED BY <1>1, <1>4, <1>5, <2>1, GroupsKept, TailPending DEF IInv
<1>8. TypeOK' /\ Parked' /\ Manned'
  BY <1>1, <1>7 DEF IInv, TypeOK, Parked, Manned
<1>9. PlansFit' /\ GroupsWell' /\ Flown'
  <2>1. ASSUME NEW h \in groups'
        PROVE  /\ Standing(h) /\ Counted(h) /\ h.legIndex <= Len(h.legs) /\ Len(h.legs) <= MaxLegs
               /\ Flying(h) /\ ~Stale(h) => Steering(h)'
    <3>1. PICK g \in groups : h = IF g \in joined THEN Grown(g, place) ELSE g
      BY <1>6
    <3>2. /\ g \in Group /\ Standing(g) /\ Counted(g) /\ g.legIndex <= Len(g.legs)
          /\ Len(g.legs) <= MaxLegs /\ g.legIndex \in Nat /\ g.legs \in Seq(Targets)
          /\ g.fresh \in BOOLEAN
      BY DEF IInv, TypeOK, GroupsWell, PlansFit, Group
    <3>3. Flying(g) /\ ~Stale(g) => Steering(g)'
      BY <1>1 DEF IInv, Flown, Steering, Here, OnGrid
    <3>4. CASE g \notin joined
      BY <3>1, <3>2, <3>3, <3>4
    <3>5. CASE g \in joined
      <4>1. /\ h \in Group /\ h.members = g.members /\ h.kind = g.kind
            /\ h.legs = Append(g.legs, place) /\ h.legIndex = g.legIndex
            /\ h.state = "Underway" /\ h.solved = g.solved
            /\ h.fresh = (g.fresh \/ g.state = "Done")
        BY <1>2, <3>1, <3>2, <3>5, GrownGroup DEF Same
      <4>2. /\ Len(h.legs) = Len(g.legs) + 1 /\ Len(g.legs) < MaxLegs /\ Len(g.legs) \in Nat
            /\ \A i \in 1..Len(g.legs) : h.legs[i] = g.legs[i]
        BY <1>2, <3>2, <3>5, <4>1
      <4>3. h.legIndex <= Len(h.legs) /\ Len(h.legs) <= MaxLegs /\ h.legIndex < Len(h.legs)
        BY <3>2, <4>1, <4>2, TimerAssumption
      <4>4. Standing(h)
        <5>1. ~(h.legIndex >= Len(h.legs))
          BY <3>2, <4>1, <4>2, <4>3
        <5> QED BY <4>3, <5>1 DEF Standing
      <4>5. Counted(h)
        BY <3>2, <4>1 DEF Counted
      <4>6. ASSUME Flying(h), ~Stale(h) PROVE Steering(h)'
        <5>1. h.fresh = FALSE /\ h.solved = Cardinality(h.members)
          BY <4>1, <4>6 DEF Stale, Group
        <5>2. g.fresh = FALSE /\ g.state # "Done"
          BY <3>2, <4>1, <5>1
        <5>3. ~(g.legIndex >= Len(g.legs))
          BY <3>2, <5>2 DEF Standing
        <5>4. g.legIndex < Len(g.legs)
          BY <3>2, <4>2, <5>3
        <5>5. Flying(g) /\ ~Stale(g)
          BY <4>1, <5>1, <5>2, <5>4 DEF Flying, Stale
        <5>6. Leg(h) = Leg(g)
          BY <3>2, <4>1, <4>2, <5>4 DEF Leg
        <5> QED BY <3>3, <4>1, <5>5, <5>6 DEF Steering, Here
      <4> QED BY <4>3, <4>4, <4>5, <4>6
    <3> QED BY <3>4, <3>5
  <2> QED BY <1>1, <1>7, <2>1 DEF PlansFit, GroupsWell, Flown
<1> QED BY <1>7, <1>8, <1>9 DEF IInv

LEMMA IngestPlanKeeps ==
    ASSUME IInv, IngestPlan
    PROVE  IInv'
<1> DEFINE o == Head(pending)
           S == o.ships
           new == GroupFor(o, IdFor(o))
           old == Forget(groups, S)
<1>1. /\ phase = "ingest" /\ phase' = "ingest" /\ pending # <<>> /\ pending' = Tail(pending)
      /\ o.kind # "Dock" /\ groups' = old \cup {new}
      /\ guide' = [s \in Ships |-> IF o.kind = "Warp" /\ s \in o.ships
                                   THEN Nowhere ELSE guide[s]]
      /\ nextOrderId' = IF o.append THEN nextOrderId + 1 ELSE nextOrderId
      /\ UNCHANGED <<pos, ore, left>>
  BY DEF IngestPlan
<1>2. /\ o \in Order /\ o = pending[1] /\ 1 \in DOMAIN pending /\ pending' \in Seq(Order)
      /\ \A i \in DOMAIN pending' : i + 1 \in DOMAIN pending /\ pending'[i] = pending[i + 1]
  BY <1>1, TailPending DEF IInv
<1>3. /\ S \in SUBSET Ships /\ IdFor(o) \in Nat /\ nextOrderId \in Nat /\ nextOrderId >= 1
      /\ DOMAIN pending = 1..Len(pending) /\ DOMAIN pending' = 1..Len(pending')
  BY <1>2 DEF Order, IdFor, IInv, TypeOK, Named
<1>4. /\ new \in Group /\ new.id = IdFor(o) /\ new.members = S /\ new.legIndex = 0
      /\ Len(new.legs) <= MaxLegs /\ new.fresh = TRUE /\ Standing(new) /\ Counted(new)
  BY <1>1, <1>2, <1>3, NewGroupFor DEF IInv
<1>5. \A h \in old : \E g \in groups : h = Smaller(g, S)
  BY DEF Forget, Smaller
<1>6. /\ Named /\ OneOrderPerId /\ OneGroupPerShip /\ groups \in SUBSET Group /\ IsFiniteSet(groups)
  BY DEF IInv, OrdersApart, TypeOK, GroupsWell
<1> HIDE DEF o, S, new, old
<1>7. \A h \in old : \E g \in groups : /\ h \in Group /\ h.id = g.id /\ h.members = g.members \ S
                                       /\ h = Smaller(g, S)
  BY <1>3, <1>5, <1>6, SmallerGroup
<1>8. OneGroupPerShip'
  <2>1. \A g, h \in old, s \in Ships : s \in g.members /\ s \in h.members => g = h
    BY <1>6, <1>7 DEF OneGroupPerShip
  <2>2. \A h \in old, s \in Ships : ~(s \in h.members /\ s \in new.members)
    BY <1>4, <1>7
  <2> QED BY <1>1, <2>1, <2>2 DEF OneGroupPerShip
<1>9. \A g \in groups : g.id \in 1..(nextOrderId - 1) /\ g.id # IdFor(o)
  BY <1>2, <1>3, <1>6 DEF OneOrderPerId, IdFor
<1>10. IdFor(o) \in 1..(nextOrderId' - 1) /\ nextOrderId' >= nextOrderId /\ nextOrderId' \in Nat
  <2>1. CASE o.append
    BY <1>1, <1>3, <2>1 DEF IdFor
  <2>2. CASE ~o.append
    BY <1>1, <1>2, <1>3, <1>6, <2>2 DEF IdFor, Named
  <2> QED BY <2>1, <2>2
<1>11. ASSUME NEW i \in DOMAIN pending', ~pending'[i].append
       PROVE  /\ pending'[i].id \in 1..(nextOrderId - 1) /\ pending'[i].id # IdFor(o)
              /\ \A g \in groups : g.id # pending'[i].id
              /\ \A j \in DOMAIN pending' :
                   ~pending'[j].append /\ pending'[j].id = pending'[i].id => i = j
  <2>1. i + 1 \in DOMAIN pending /\ pending'[i] = pending[i + 1] /\ i + 1 # 1 /\ i \in Nat
    BY <1>2, <1>3
  <2>2. pending'[i].id \in 1..(nextOrderId - 1)
    BY <1>6, <1>11, <2>1 DEF Named
  <2>3. \A g \in groups : g.id # pending'[i].id
    BY <1>3, <1>6, <1>11, <2>1 DEF OneOrderPerId
  <2>4. ASSUME NEW j \in DOMAIN pending', ~pending'[j].append, pending'[j].id = pending'[i].id
        PROVE  i = j
    <3>1. j + 1 \in DOMAIN pending /\ pending'[j] = pending[j + 1] /\ j \in Nat
      BY <1>2, <1>3
    <3>2. i + 1 = j + 1
      BY <1>6, <1>11, <2>1, <2>4, <3>1 DEF Named
    <3> QED BY <2>1, <3>1, <3>2
  <2>5. pending'[i].id # IdFor(o)
    <3>1. CASE o.append
      BY <1>3, <2>2, <3>1 DEF IdFor
    <3>2. CASE ~o.append
      <4>1. IdFor(o) = pending[1].id /\ ~pending[1].append
        BY <1>2, <3>2 DEF IdFor
      <4> QED BY <1>2, <1>6, <1>11, <2>1, <4>1 DEF Named
    <3> QED BY <3>1, <3>2
  <2> QED BY <2>2, <2>3, <2>4, <2>5
<1>12. OneOrderPerId'
  <2>1. \A g, h \in groups' : g.id = h.id => g = h
    BY <1>1, <1>4, <1>6, <1>7, <1>9 DEF OneOrderPerId
  <2>2. \A g \in groups' : g.id \in 1..(nextOrderId' - 1)
    <3>1. ASSUME NEW h \in old PROVE h.id \in 1..(nextOrderId' - 1)
      BY <1>3, <1>7, <1>9, <1>10
    <3> QED BY <1>1, <1>4, <1>10, <3>1
  <2>3. ASSUME NEW i \in 1..Len(pending'), ~pending'[i].append, NEW h \in groups'
        PROVE  h.id # pending'[i].id
    <3>0. i \in DOMAIN pending'
      BY <1>3
    <3>1. CASE h \in old
      BY <1>7, <1>11, <2>3, <3>0, <3>1
    <3>2. CASE h = new
      BY <1>4, <1>11, <2>3, <3>0, <3>2
    <3> QED BY <1>1, <3>1, <3>2
  <2> QED BY <2>1, <2>2, <2>3 DEF OneOrderPerId
<1>13. Named'
  <2>1. \A i \in DOMAIN pending' : ~pending'[i].append => pending'[i].id \in 1..(nextOrderId' - 1)
    BY <1>3, <1>10, <1>11
  <2>2. nextOrderId' >= 1
    BY <1>3, <1>10
  <2> QED BY <1>11, <2>1, <2>2 DEF Named
<1>14. IsFiniteSet(groups') /\ groups' \in SUBSET Group
  <2> DEFINE T == {Smaller(g, S) : g \in groups}
             F == [g \in groups |-> Smaller(g, S)]
  <2>1. F \in Surjection(groups, T)
    BY DEF Surjection
  <2>2. old \in SUBSET T
    BY <1>5
  <2> HIDE DEF T, F
  <2>3. IsFiniteSet(T)
    BY <1>6, <2>1, FS_Surjection
  <2>4. IsFiniteSet(old)
    BY <2>2, <2>3, FS_Subset
  <2>5. IsFiniteSet(old \cup {new})
    BY <2>4, FS_AddElement
  <2> QED BY <1>1, <1>4, <1>7, <2>5
<1>15. TypeOK' /\ Parked' /\ Manned'
  BY <1>1, <1>2, <1>10, <1>14 DEF IInv, TypeOK, Parked, Manned
<1>16. PlansFit' /\ GroupsWell' /\ Flown'
  <2>1. ASSUME NEW h \in old
        PROVE  /\ Standing(h) /\ Counted(h) /\ h.legIndex <= Len(h.legs) /\ Len(h.legs) <= MaxLegs
               /\ Flying(h) /\ ~Stale(h) => Steering(h)'
    <3>1. \A s \in Ships \ S : guide'[s] = guide[s] /\ pos'[s] = pos[s]
      BY <1>1 DEF S
    <3> QED BY <1>1, <1>3, <1>5, <3>1, ForgottenGroup
  <2>2. new.legIndex <= Len(new.legs)
    BY <1>4 DEF Group
  <2>3. Flying(new) => Stale(new)
    BY <1>4 DEF Stale
  <2> QED BY <1>1, <1>4, <1>14, <2>1, <2>2, <2>3 DEF PlansFit, GroupsWell, Flown
<1> QED BY <1>8, <1>12, <1>13, <1>15, <1>16 DEF IInv, OrdersApart

\* Where the ships of a set of plans with no ship in common are sent.
LEMMA SteeredShips ==
    ASSUME NEW G, \A g, h \in G : \A s \in Ships : s \in g.members /\ s \in h.members => g = h
    PROVE  /\ DOMAIN Steered(G) = Ships
           /\ \A g \in G : \A s \in Ships : s \in g.members /\ s \in OnGrid => Steered(G)[s] = Leg(g)
           /\ \A s \in Ships : s \notin OnGrid \/ (\A g \in G : s \notin g.members)
                => Steered(G)[s] = guide[s]
<1>1. ASSUME NEW g \in G, NEW s \in Ships, s \in g.members, s \in OnGrid
      PROVE  Steered(G)[s] = Leg(g)
  <2>1. (CHOOSE h \in G : s \in h.members) = g
    BY <1>1
  <2> QED BY <1>1, <2>1 DEF Steered, Leg
<1> QED BY <1>1 DEF Steered

LEMMA SteeredType ==
    ASSUME TypeOK, NEW G, \A g \in G : Leg(g) \in Targets,
           \A g, h \in G : \A s \in Ships : s \in g.members /\ s \in h.members => g = h
    PROVE  Steered(G) \in [Ships -> Targets \cup {Nowhere}]
<1>1. \A s \in Ships : Steered(G)[s] \in Targets \cup {Nowhere}
  BY SteeredShips DEF TypeOK
<1> QED BY <1>1 DEF Steered

LEMMA SolveStaleKeeps ==
    ASSUME IInv, SolveStale
    PROVE  IInv'
<1> DEFINE stale == {g \in groups : Stale(g)}
           F == [g \in groups |-> IF g \in stale THEN Solved(g) ELSE g]
<1>1. /\ phase = "ingest" /\ phase' = "depart" /\ guide' = Steered(stale)
      /\ groups' = (groups \ stale) \cup {Solved(g) : g \in stale}
      /\ UNCHANGED <<pos, pending, nextOrderId, ore, left>>
  BY DEF SolveStale
<1>2. /\ groups \in SUBSET Group /\ stale \in SUBSET groups /\ OneGroupPerShip
      /\ \A g \in stale : Stale(g) /\ Flying(g)
      /\ \A g \in groups \ stale : ~Stale(g)
  BY DEF IInv, TypeOK, OrdersApart, Stale
<1> HIDE DEF stale
<1>3. ASSUME NEW g \in groups
      PROVE  F[g] \in Group /\ F[g].id = g.id /\ F[g].members = g.members
  BY <1>2, SolvedGroup DEF Same
<1>4. F \in [groups -> Group] /\ \A g \in groups : F[g].id = g.id /\ F[g].members \subseteq g.members
  BY <1>3
<1>5. groups' \subseteq {F[g] : g \in groups}
  BY <1>1, <1>2
<1>6. \A h \in groups' : \E g \in groups : h = IF g \in stale THEN Solved(g) ELSE g
  BY <1>1, <1>2
<1> HIDE DEF F
<1>7. OrdersApart' /\ Named' /\ IsFiniteSet(groups') /\ groups' \in SUBSET Group /\ pending' \in Seq(Order)
  <2>1. 0 \in {0, 1}
    OBVIOUS
  <2> QED BY <1>1, <1>4, <1>5, <2>1, GroupsKept, SamePending DEF IInv
<1>8. \A g, h \in stale : \A s \in Ships : s \in g.members /\ s \in h.members => g = h
  BY <1>2 DEF OneGroupPerShip
<1>9. \A g \in stale : Leg(g) \in Targets
  BY <1>2, LegType DEF Flying
<1>10. TypeOK'
  BY <1>1, <1>7, <1>8, <1>9, SteeredType DEF IInv, TypeOK
<1>11. Parked' /\ Manned'
  BY <1>1, <1>8, SteeredShips DEF IInv, Parked, Manned, OnGrid
<1>12. PlansFit' /\ GroupsWell' /\ Flown'
  <2>1. ASSUME NEW h \in groups'
        PROVE  /\ Standing(h) /\ Counted(h) /\ h.legIndex <= Len(h.legs) /\ Len(h.legs) <= MaxLegs
               /\ Flying(h) => Steering(h)'
    <3>1. PICK g \in groups : h = IF g \in stale THEN Solved(g) ELSE g
      BY <1>6
    <3>2. /\ g \in Group /\ Standing(g) /\ Counted(g) /\ g.legIndex <= Len(g.legs)
          /\ Len(g.legs) <= MaxLegs /\ g.legIndex \in Nat /\ Len(g.legs) \in Nat
          /\ g.members \in SUBSET Ships
      BY DEF IInv, TypeOK, GroupsWell, PlansFit, Group
    <3>3. CASE g \notin stale
      <4>1. h = g
        BY <3>1, <3>3
      <4>2. ASSUME Flying(h) PROVE Steering(h)'
        <5>1. Steering(g)
          BY <1>2, <3>3, <4>1, <4>2 DEF IInv, Flown
        <5>2. \A s \in g.members : \A f \in stale : s \notin f.members
          BY <1>2, <3>2, <3>3 DEF OneGroupPerShip
        <5>3. \A s \in g.members : guide'[s] = guide[s]
          BY <1>1, <1>8, <3>2, <5>2, SteeredShips
        <5> QED BY <1>1, <4>1, <5>1, <5>3 DEF Steering, Here, OnGrid
      <4> QED BY <3>2, <4>1, <4>2
    <3>4. CASE g \in stale /\ Here(g) = {}
      <4>1. h = Finished(g)
        BY <3>1, <3>2, <3>4, SolvedGroup
      <4>2. /\ h \in Group /\ Same(h, g) /\ h.state = "Done" /\ h.legs = g.legs
            /\ h.legIndex = g.legIndex /\ h.fresh = g.fresh /\ h.solved = g.solved
        BY <3>2, <4>1, FinishedGroup
      <4>3. Standing(h) /\ ~Flying(h)
        BY <4>2 DEF Standing, Flying
      <4>4. Counted(h)
        BY <3>2, <4>2 DEF Counted, Same
      <4> QED BY <3>2, <4>2, <4>3, <4>4
    <3>5. CASE g \in stale /\ Here(g) # {}
      <4>1. /\ h \in Group /\ Same(h, g) /\ h.legs = g.legs /\ h.legIndex = g.legIndex
            /\ h.state = g.state /\ h.fresh = FALSE /\ h.solved = Cardinality(g.members)
        BY <3>1, <3>2, <3>5, SolvedGroup
      <4>2. g.legIndex < Len(g.legs)
        BY <1>2, <3>5 DEF Flying
      <4>3. Standing(h)
        BY <3>2, <4>1, <4>2 DEF Standing
      <4>4. Counted(h)
        <5>1. Cardinality(g.members) \in Nat /\ h.members = g.members
          BY <3>2, <4>1, MemberCount DEF Same
        <5> QED BY <4>1, <5>1 DEF Counted
      <4>5. \A s \in Here(g) : guide'[s] = Leg(g)
        BY <1>1, <1>8, <3>2, <3>5, SteeredShips DEF Here
      <4>6. Steering(h)'
        BY <1>1, <3>5, <4>1, <4>5 DEF Steering, Here, OnGrid, Leg, Same
      <4> QED BY <3>2, <4>1, <4>3, <4>4, <4>6
    <3> QED BY <3>3, <3>4, <3>5
  <2> QED BY <1>1, <1>7, <2>1 DEF PlansFit, GroupsWell, Flown
<1> QED BY <1>7, <1>10, <1>11, <1>12 DEF IInv

-----------------------------------------------------------------------------
(* The advance, and the end of the tick. *)

LEMMA DepartFinishedWarpsKeeps ==
    ASSUME IInv, DepartFinishedWarps
    PROVE  IInv'
<1> DEFINE leaving == {g \in groups : g.kind = "Warp" /\ g.state # "Done" /\ g.spool = 0}
           S == (UNION {g.members : g \in leaving}) \cap OnGrid
           marked(g) == IF g \in leaving THEN Finished(g) ELSE g
           F == [g \in groups |-> Smaller(marked(g), S)]
<1>1. /\ phase = "depart" /\ phase' = "advance"
      /\ groups' = Forget({IF g \in leaving THEN Finished(g) ELSE g : g \in groups}, S)
      /\ pos' = [s \in Ships |-> IF s \in S THEN Nowhere ELSE pos[s]]
      /\ guide' = [s \in Ships |-> IF s \in S THEN Nowhere ELSE guide[s]]
      /\ left' = [s \in Ships |-> IF s \in S THEN "warped" ELSE left[s]]
      /\ UNCHANGED <<pending, nextOrderId, ore>>
  BY DEF DepartFinishedWarps, LeaveGrid
<1>2. /\ S \in SUBSET Ships /\ groups \in SUBSET Group /\ OneGroupPerShip
      /\ leaving \in SUBSET groups
      /\ \A s \in S : \E g \in leaving : s \in g.members
  <2>1. leaving \in SUBSET groups
    OBVIOUS
  <2> HIDE DEF leaving
  <2>2. \A s \in S : \E g \in leaving : s \in g.members
    OBVIOUS
  <2>3. S \subseteq OnGrid /\ OnGrid \subseteq Ships
    BY DEF OnGrid
  <2> HIDE DEF S
  <2> QED BY <2>1, <2>2, <2>3 DEF IInv, TypeOK, OrdersApart
<1> HIDE DEF leaving, S
<1>3. ASSUME NEW g \in groups
      PROVE  /\ marked(g) \in Group /\ Same(marked(g), g) /\ marked(g).legs = g.legs
             /\ marked(g).legIndex = g.legIndex /\ marked(g).fresh = g.fresh
             /\ marked(g).solved = g.solved
             /\ marked(g).state = "Done" \/ (g \notin leaving /\ marked(g) = g)
  BY <1>2, FinishedGroup DEF Same
<1>4. \A h \in groups' : \E g \in groups : h = Smaller(marked(g), S)
  BY <1>1 DEF Forget, Smaller
<1> HIDE DEF marked
<1>5. ASSUME NEW g \in groups
      PROVE  /\ F[g] \in Group /\ F[g].id = g.id /\ F[g].members = g.members \ S
             /\ F[g] = Smaller(marked(g), S)
  BY <1>2, <1>3, SmallerGroup DEF Same
<1>6. F \in [groups -> Group] /\ \A g \in groups : F[g].id = g.id /\ F[g].members \subseteq g.members
  BY <1>5
<1>7. groups' \subseteq {F[g] : g \in groups}
  BY <1>4, <1>5
<1> HIDE DEF F
<1>8. OrdersApart' /\ Named' /\ IsFiniteSet(groups') /\ groups' \in SUBSET Group /\ pending' \in Seq(Order)
  <2>1. 0 \in {0, 1}
    OBVIOUS
  <2> QED BY <1>1, <1>6, <1>7, <2>1, GroupsKept, SamePending DEF IInv
<1>9. TypeOK' /\ Parked' /\ Manned'
  BY <1>1, <1>2, <1>8 DEF IInv, TypeOK, Parked, Manned
<1>10. PlansFit' /\ GroupsWell' /\ Flown'
  <2>1. ASSUME NEW h \in groups'
        PROVE  /\ Standing(h) /\ Counted(h) /\ h.legIndex <= Len(h.legs) /\ Len(h.legs) <= MaxLegs
               /\ Flying(h) => Steering(h)'
    <3>1. PICK g \in groups : h = Smaller(marked(g), S)
      BY <1>4
    <3>2. /\ g \in Group /\ Standing(g) /\ Counted(g) /\ g.legIndex <= Len(g.legs)
          /\ Len(g.legs) <= MaxLegs /\ g.members \in SUBSET Ships /\ g.solved \in Nat
      BY DEF IInv, TypeOK, GroupsWell, PlansFit, Group
    <3>3. /\ h.kind = g.kind /\ h.members = g.members \ S /\ h.legs = g.legs
          /\ h.legIndex = g.legIndex /\ h.fresh = g.fresh /\ h.solved = g.solved
          /\ h.state = "Done" \/ (g \notin leaving /\ h.state = g.state)
      BY <1>2, <1>3, <3>1, SmallerGroup DEF Same
    <3>4. Standing(h)
      BY <3>2, <3>3 DEF Standing
    <3>5. Counted(h)
      <4>1. /\ Cardinality(h.members) \in Nat /\ Cardinality(g.members) \in Nat
            /\ Cardinality(h.members) <= Cardinality(g.members)
        <5>1. h.members \in SUBSET g.members /\ IsFiniteSet(g.members)
          BY <3>2, <3>3, MemberCount
        <5>2. h.members \in SUBSET Ships
          BY <3>2, <3>3
        <5> QED BY <3>2, <5>1, <5>2, FS_Subset, MemberCount
      <4> QED BY <3>2, <3>3, <4>1 DEF Counted
    <3>6. ASSUME Flying(h) PROVE Steering(h)'
      <4>1. g \notin leaving /\ Flying(g)
        BY <3>3, <3>6 DEF Flying
      <4>2. Steering(g)
        BY <1>1, <4>1 DEF IInv, Flown
      <4>3. \A s \in g.members : s \notin S
        BY <1>2, <3>2, <4>1 DEF OneGroupPerShip
      <4>4. /\ \A s \in g.members : guide'[s] = guide[s] /\ pos'[s] = pos[s]
            /\ h.members = g.members
        BY <1>1, <3>2, <3>3, <4>3
      <4>5. h.members \cap OnGrid' = g.members \cap OnGrid
        BY <3>2, <4>4 DEF OnGrid
      <4> QED BY <3>3, <4>2, <4>4, <4>5 DEF Steering, Here, Leg
    <3> QED BY <3>2, <3>3, <3>4, <3>5, <3>6
  <2> QED BY <1>1, <1>8, <2>1 DEF PlansFit, GroupsWell, Flown
<1> QED BY <1>8, <1>9, <1>10 DEF IInv

LEMMA GroupAdvanceKeeps ==
    ASSUME IInv, GroupAdvance
    PROVE  IInv'
<1> DEFINE advanced == {Advanced(g) : g \in groups}
           onward == {g \in advanced : g.state = "Arriving"}
           F == [g \in groups |-> Advanced(g)]
<1>1. /\ phase = "advance" /\ phase' = "move" /\ guide' = Steered(onward)
      /\ groups' \subseteq advanced
      /\ UNCHANGED <<pos, pending, nextOrderId, ore, left>>
  BY DEF GroupAdvance
<1>2. groups \in SUBSET Group /\ OneGroupPerShip
  BY DEF IInv, TypeOK, OrdersApart
<1>3. ASSUME NEW g \in groups
      PROVE  /\ Advanced(g) \in Group /\ Same(Advanced(g), g)
             /\ Advanced(g).legs = g.legs /\ Advanced(g).legIndex <= Len(g.legs)
             /\ Standing(Advanced(g)) /\ Counted(Advanced(g)) /\ Len(g.legs) <= MaxLegs
             /\ \/ ~Flying(Advanced(g))
                \/ Flying(g) /\ Advanced(g).state = "Underway" /\ Advanced(g).legIndex = g.legIndex
                \/ Flying(g) /\ Here(g) # {} /\ Advanced(g).state = "Arriving"
  <2>1. g \in Group /\ g.legIndex <= Len(g.legs) /\ Len(g.legs) <= MaxLegs /\ Standing(g) /\ Counted(g)
    BY <1>2 DEF IInv, PlansFit, GroupsWell
  <2> QED BY <2>1, AdvancedGroup
<1>4. \A h \in advanced : \E g \in groups : h = Advanced(g)
  OBVIOUS
<1>5. \A h \in onward : h \in advanced /\ h.state = "Arriving"
  OBVIOUS
<1>6. F \in [groups -> Group] /\ \A g \in groups : F[g].id = g.id /\ F[g].members \subseteq g.members
  BY <1>3 DEF Same
<1>7. groups' \subseteq {F[g] : g \in groups}
  BY <1>1
<1>8. \A h \in advanced : h.state = "Arriving" => h \in onward
  OBVIOUS
<1> HIDE DEF F, onward, advanced
<1>9. OrdersApart' /\ Named' /\ IsFiniteSet(groups') /\ groups' \in SUBSET Group /\ pending' \in Seq(Order)
  <2>1. 0 \in {0, 1}
    OBVIOUS
  <2> QED BY <1>1, <1>6, <1>7, <2>1, GroupsKept, SamePending DEF IInv
<1>10. \A g, h \in advanced : \A s \in Ships : s \in g.members /\ s \in h.members => g = h
  BY <1>2, <1>3, <1>4 DEF Same, OneGroupPerShip
<1>11. \A g, h \in onward : \A s \in Ships : s \in g.members /\ s \in h.members => g = h
  BY <1>5, <1>10
<1>12. ASSUME NEW h \in onward PROVE Leg(h) \in Targets
  <2>1. h \in Group /\ Standing(h) /\ h.state = "Arriving"
    BY <1>3, <1>4, <1>5
  <2>2. h.legIndex < Len(h.legs)
    BY <2>1 DEF Standing
  <2> QED BY <2>1, <2>2, LegType
<1>13. TypeOK'
  BY <1>1, <1>9, <1>11, <1>12, SteeredType DEF IInv, TypeOK
<1>14. Parked' /\ Manned'
  BY <1>1, <1>11, SteeredShips DEF IInv, Parked, Manned, OnGrid
<1>15. PlansFit' /\ GroupsWell' /\ Flown'
  <2>1. ASSUME NEW h \in groups'
        PROVE  /\ Standing(h) /\ Counted(h) /\ h.legIndex <= Len(h.legs) /\ Len(h.legs) <= MaxLegs
               /\ Flying(h) => Steering(h)'
    <3>1. PICK g \in groups : h = Advanced(g)
      BY <1>1, <1>4
    <3>2. h \in advanced /\ g \in Group /\ g.members \in SUBSET Ships
      BY <1>1, <1>2 DEF Group
    <3>3. CASE Flying(g) /\ h.state = "Underway" /\ h.legIndex = g.legIndex
      <4>1. Steering(g)
        BY <1>1, <3>3 DEF IInv, Flown
      <4>2. h.members = g.members /\ h.legs = g.legs
        BY <1>3, <3>1 DEF Same
      <4>3. \A s \in g.members : \A f \in onward : s \notin f.members
        BY <1>5, <1>10, <3>2, <3>3, <4>2
      <4>4. \A s \in g.members : guide'[s] = guide[s]
        BY <1>1, <1>11, <3>2, <4>3, SteeredShips
      <4>5. Steering(h)'
        BY <1>1, <3>3, <4>1, <4>2, <4>4 DEF Steering, Here, OnGrid, Leg
      <4> QED BY <1>3, <3>1, <4>5
    <3>4. CASE Here(g) # {} /\ h.state = "Arriving"
      <4>1. h \in onward /\ h.members = g.members
        BY <1>3, <1>8, <3>1, <3>2, <3>4 DEF Same
      <4>2. \A s \in Here(g) : guide'[s] = Leg(h)
        BY <1>1, <1>11, <3>2, <4>1, SteeredShips DEF Here
      <4>3. Steering(h)'
        BY <1>1, <3>4, <4>1, <4>2 DEF Steering, Here, OnGrid, Leg
      <4> QED BY <1>3, <3>1, <4>3
    <3> QED BY <1>3, <3>1, <3>3, <3>4
  <2> QED BY <1>1, <1>9, <2>1 DEF PlansFit, GroupsWell, Flown
<1> QED BY <1>9, <1>13, <1>14, <1>15 DEF IInv

LEMMA EndTickKeeps ==
    ASSUME IInv, EndTick
    PROVE  IInv'
<1>1. /\ phase = "move" /\ phase' = "idle" /\ pos' \in [Ships -> Targets \cup {Space, Nowhere}]
      /\ \A s \in Ships : pos'[s] \in Moved(s)
      /\ ore' = LeftAfter(Cardinality(Mining))
      /\ UNCHANGED <<guide, pending, nextOrderId, left>>
  BY DEF EndTick
<1>2. PICK full \in SUBSET Mining :
        groups' = {Ticked(IF Working(g) /\ (g \in full \/ g \notin Mining \/ ore' = 0)
                          THEN Finished(g) ELSE g) : g \in groups}
  BY DEF EndTick
<1> DEFINE over(g) == Working(g) /\ (g \in full \/ g \notin Mining \/ ore' = 0)
           F == [g \in groups |-> Ticked(IF over(g) THEN Finished(g) ELSE g)]
<1>3. groups \in SUBSET Group
  BY DEF IInv, TypeOK
<1>4. ASSUME NEW g \in groups
      PROVE  /\ F[g] \in Group /\ Same(F[g], g) /\ F[g].legs = g.legs
             /\ F[g].legIndex = g.legIndex /\ F[g].fresh = g.fresh /\ F[g].solved = g.solved
             /\ F[g].state = IF over(g) THEN "Done" ELSE g.state
  <2>1. CASE over(g)
    <3>1. Finished(g) \in Group /\ F[g] = Ticked(Finished(g))
      BY <1>3, <2>1, FinishedGroup
    <3> HIDE DEF F
    <3>2. /\ F[g] \in Group /\ Same(F[g], Finished(g)) /\ F[g].legs = Finished(g).legs
          /\ F[g].legIndex = Finished(g).legIndex /\ F[g].fresh = Finished(g).fresh
          /\ F[g].solved = Finished(g).solved /\ F[g].state = Finished(g).state
      BY <3>1, TickedGroup
    <3> QED BY <1>3, <2>1, <3>2, FinishedGroup DEF Same
  <2>2. CASE ~over(g)
    <3>1. F[g] = Ticked(g)
      BY <2>2
    <3> HIDE DEF F
    <3> QED BY <1>3, <2>2, <3>1, TickedGroup
  <2> QED BY <2>1, <2>2
<1>5. groups' \subseteq {F[g] : g \in groups}
  BY <1>2
<1>6. \A h \in groups' : \E g \in groups : h = F[g]
  BY <1>5
<1>7. F \in [groups -> Group] /\ \A g \in groups : F[g].id = g.id /\ F[g].members \subseteq g.members
  BY <1>4 DEF Same
<1>8. \A g \in groups : Working(g) /\ g.members \cap OnGrid = {} => over(g)
  BY DEF Mining
<1> HIDE DEF F, over
<1>9. OrdersApart' /\ Named' /\ IsFiniteSet(groups') /\ groups' \in SUBSET Group /\ pending' \in Seq(Order)
  <2>1. 0 \in {0, 1}
    OBVIOUS
  <2> QED BY <1>1, <1>5, <1>7, <2>1, GroupsKept, SamePending DEF IInv
<1>10. ore' \in Nat
  <2>1. IsFiniteSet(Mining)
    BY FS_Subset DEF Mining, IInv, GroupsWell
  <2>2. Cardinality(Mining) \in Nat /\ ore \in Nat
    BY <2>1, FS_CardinalityType DEF IInv, TypeOK
  <2> DEFINE taken == Cardinality(Mining)
  <2>3. taken \in Nat /\ ore' = LeftAfter(taken)
    BY <1>1, <2>2
  <2> HIDE DEF taken
  <2> QED BY <2>2, <2>3 DEF LeftAfter
<1>11. TypeOK'
  BY <1>1, <1>9, <1>10 DEF IInv, TypeOK
<1>12. \A s \in Ships : pos'[s] = Nowhere <=> pos[s] = Nowhere
  BY <1>1, PlaceAssumption DEF Moved, OnGrid, IInv, TypeOK
<1>13. Parked' /\ OnGrid' = OnGrid
  BY <1>1, <1>12 DEF IInv, Parked, OnGrid
<1>14. ASSUME NEW h \in groups'
       PROVE  /\ Standing(h) /\ Counted(h) /\ h.legIndex <= Len(h.legs) /\ Len(h.legs) <= MaxLegs
              /\ Flying(h) => Steering(h)'
              /\ h.state # "Done" /\ h.kind # "Warp" => h.members \cap OnGrid # {}
  <2>1. PICK g \in groups : h = F[g]
    BY <1>6
  <2>2. /\ g \in Group /\ Standing(g) /\ Counted(g) /\ g.legIndex <= Len(g.legs)
        /\ Len(g.legs) <= MaxLegs /\ g.legIndex \in Nat /\ Len(g.legs) \in Nat
    BY <1>3 DEF IInv, GroupsWell, PlansFit, Group
  <2>3. /\ h.members = g.members /\ h.kind = g.kind /\ h.legs = g.legs /\ h.legIndex = g.legIndex
        /\ h.fresh = g.fresh /\ h.solved = g.solved
        /\ h.state = IF over(g) THEN "Done" ELSE g.state
    BY <1>4, <2>1 DEF Same
  <2>4. Standing(h) /\ Counted(h)
    BY <2>2, <2>3 DEF Standing, Counted
  <2>5. ASSUME Flying(h) PROVE Steering(h)'
    <3>1. Flying(g)
      BY <2>3, <2>5 DEF Flying
    <3>2. Steering(g)
      BY <1>1, <3>1 DEF IInv, Flown
    <3> QED BY <1>1, <1>13, <2>3, <3>2 DEF Steering, Here, Leg
  <2>6. ASSUME h.state # "Done", h.kind # "Warp" PROVE h.members \cap OnGrid # {}
    <3>1. ~over(g) /\ g.state # "Done" /\ g.kind # "Warp"
      BY <2>3, <2>6
    <3>2. CASE g.legIndex < Len(g.legs)
      <4>1. Steering(g)
        BY <1>1, <3>1, <3>2 DEF IInv, Flown, Flying
      <4> QED BY <2>3, <4>1 DEF Steering, Here
    <3>3. CASE ~(g.legIndex < Len(g.legs))
      <4>1. g.kind = "Mine"
        BY <2>2, <3>1, <3>3 DEF Standing
      <4>2. g.legIndex >= Len(g.legs)
        BY <2>2, <3>3
      <4> QED BY <1>8, <2>3, <3>1, <4>1, <4>2 DEF Working
    <3> QED BY <3>2, <3>3
  <2> QED BY <2>2, <2>3, <2>4, <2>5, <2>6
<1>15. PlansFit' /\ GroupsWell' /\ Flown' /\ Manned'
  BY <1>1, <1>9, <1>13, <1>14 DEF PlansFit, GroupsWell, Flown, Manned
<1> QED BY <1>9, <1>11, <1>13, <1>15 DEF IInv

-----------------------------------------------------------------------------
LEMMA InitIInv == Init => IInv
<1> SUFFICES ASSUME Init PROVE IInv
  OBVIOUS
<1>1. TypeOK
  BY TimerAssumption DEF Init, TypeOK
<1>2. pending = <<>> /\ groups = {} /\ nextOrderId = 1 /\ Len(pending) = 0 /\ DOMAIN pending = {}
  BY DEF Init
<1>3. OrdersApart /\ Named /\ PlansFit /\ Flown /\ Manned
  BY <1>2 DEF OrdersApart, OneGroupPerShip, OneOrderPerId, Named, PlansFit, Flown, Manned
<1>4. GroupsWell
  BY <1>2, FS_EmptySet DEF GroupsWell
<1>5. Parked
  BY PlaceAssumption DEF Init, Parked
<1> QED BY <1>1, <1>3, <1>4, <1>5 DEF IInv

LEMMA NextIInv == IInv /\ [Next]_vars => IInv'
<1> SUFFICES ASSUME IInv, [Next]_vars PROVE IInv'
  OBVIOUS
<1>1. CASE UNCHANGED vars
  BY <1>1 DEF vars, IInv, TypeOK, PlansFit, OrdersApart, OneGroupPerShip, OneOrderPerId, Named,
              GroupsWell, Parked, Flown, Steering, Here, OnGrid, Manned
<1>2. CASE Command
  BY <1>2, SubmitKeeps, UndockedKeeps DEF Command
<1>3. CASE Tick
  BY <1>3, BeginTickKeeps, IngestDockKeeps, IngestAppendKeeps, IngestPlanKeeps, SolveStaleKeeps,
     DepartFinishedWarpsKeeps, GroupAdvanceKeeps, EndTickKeeps DEF Tick
<1> QED BY <1>1, <1>2, <1>3 DEF Next

LEMMA SpecIInv == Spec => []IInv
BY InitIInv, NextIInv, PTL DEF Spec

\* Type correctness of the order pipeline (WorldOrders.cpp, World.cpp Tick).
THEOREM OrdersTyped == Spec => []TypeOK
<1>1. IInv => TypeOK
  BY DEF IInv
<1> QED BY <1>1, SpecIInv, PTL

\* A ship is in one group at most, so no two plans write its guidance, and an id
\* names one order, queued or running, however replaces, appends, docks and
\* departures fall within a batch (IngestOrders, ForgetShipInGroups).
THEOREM ShipsAnswerToOneOrder == Spec => []OrdersApart
<1>1. IInv => OrdersApart
  BY DEF IInv
<1> QED BY <1>1, SpecIInv, PTL

\* No batch of appends outgrows the leg array, and no plan is past its last leg:
\* the check that counts is the one ingest makes, not the one at submit.
THEOREM PlansStayWithinTheirLegs == Spec => []PlansFit
<1>1. IInv => PlansFit
  BY DEF IInv
<1> QED BY <1>1, SpecIInv, PTL

\* From the solve to the next tick every plan under way is flown by a ship that is
\* here, and no ship flies a finished leg or a replaced order; between ticks no
\* order but a spooling warp is left without a ship (SolveStale, GroupAdvance).
THEOREM PlansAreFlown == Spec => []ShipsFlyTheirPlan
<1>1. IInv => ShipsFlyTheirPlan
  BY DEF IInv, Flown, Manned, Steering, Here, Leg, ShipsFlyTheirPlan
<1> QED BY <1>1, SpecIInv, PTL

-----------------------------------------------------------------------------
(* An order runs down: what EveryOrderEnds asks of a step, without the       *)
(* fairness of the tick.                                                     *)

\* How far an order has come: it flies, it works or spools, it is over.
Stage(g) == IF g.state = "Done" THEN 0 ELSE IF Flying(g) THEN 2 ELSE 1

\* What is left of the clock it is on.  A working group is on the ore there is.
Clock(g, units) ==
    IF g.state = "Done" THEN g.linger
    ELSE IF Flying(g) THEN IF g.fresh THEN LegTicks + 1 ELSE g.deadline
    ELSE IF g.kind = "Warp" THEN g.spool ELSE units

\* A step brings the order that was g and is h no further from its end...
AsNear(h, g) ==
    /\ Len(h.legs) = Len(g.legs) /\ h.legIndex = g.legIndex /\ Stage(h) = Stage(g)
    /\ Clock(h, ore') = Clock(g, ore)

\* ...or nearer to it: by a leg more, of which there are MaxLegs at most, by a leg
\* behind it, by a stage, or by its clock.
Nearer(h, g) ==
    \/ Len(h.legs) > Len(g.legs)
    \/ Len(h.legs) = Len(g.legs) /\ h.legIndex > g.legIndex
    \/ Len(h.legs) = Len(g.legs) /\ h.legIndex = g.legIndex /\ Stage(h) < Stage(g)
    \/ /\ Len(h.legs) = Len(g.legs) /\ h.legIndex = g.legIndex /\ Stage(h) = Stage(g)
       /\ Clock(h, ore') < Clock(g, ore)

\* No step ever takes an order further from its end, and every tick brings every
\* order that is still in the table nearer to it.
OrdersRunDown ==
    [][\A g \in groups, h \in groups' : h.id = g.id =>
         /\ AsNear(h, g) \/ Nearer(h, g)
         /\ EndTick => Nearer(h, g)]_vars

\* Once the tick has solved and retired what it has to, every clock that the end of
\* the tick winds is running.
OnTheClock ==
    /\ phase \in {"depart", "advance", "move"} => \A g \in groups : Flying(g) => g.fresh = FALSE
    /\ phase \in {"advance", "move"} =>
         \A g \in groups : g.kind = "Warp" /\ g.state # "Done" => g.spool > 0
    /\ phase = "move" =>
         \A g \in groups : /\ Flying(g) => g.deadline > 0
                           /\ g.state = "Done" => g.linger > 0

LEMMA GroupNumbers ==
    ASSUME NEW g \in Group
    PROVE  /\ g.legs \in Seq(Targets) /\ Len(g.legs) \in Nat /\ g.legIndex \in Nat
           /\ g.deadline \in Nat /\ g.spool \in Nat /\ g.linger \in Nat /\ g.fresh \in BOOLEAN
           /\ g.kind \in Kinds /\ g.state \in {"Underway", "Arriving", "Done"}
  BY DEF Group

\* What is over is nearer than what was not.
LEMMA OverIsNearer ==
    ASSUME NEW g, NEW h, g.state # "Done", h.state = "Done", h.legs = g.legs, h.legIndex = g.legIndex
    PROVE  Nearer(h, g)
<1>1. Stage(h) = 0 /\ (Stage(g) = 1 \/ Stage(g) = 2)
  BY DEF Stage
<1> QED BY <1>1 DEF Nearer

\* Ships that leave a group do not touch its clocks.
LEMMA ForgottenAsNear ==
    ASSUME NEW g \in Group, NEW S, ore' = ore
    PROVE  LET h == [g EXCEPT !.members = @ \ S]
           IN  /\ h.id = g.id /\ AsNear(h, g) /\ Stage(h) = Stage(g) /\ h.state = g.state
               /\ h.kind = g.kind /\ h.spool = g.spool /\ h.fresh = g.fresh /\ h.deadline = g.deadline
               /\ h.legs = g.legs /\ h.legIndex = g.legIndex /\ h.linger = g.linger
<1> DEFINE h == [g EXCEPT !.members = @ \ S]
<1>1. /\ h.id = g.id /\ h.state = g.state /\ h.kind = g.kind /\ h.spool = g.spool
      /\ h.fresh = g.fresh /\ h.deadline = g.deadline /\ h.legs = g.legs
      /\ h.legIndex = g.legIndex /\ h.linger = g.linger
  BY DEF Group
<1> HIDE DEF h
<1>2. Stage(h) = Stage(g) /\ Clock(h, ore') = Clock(g, ore)
  BY <1>1 DEF Stage, Clock, Flying
<1> QED BY <1>1, <1>2 DEF AsNear, h

\* A finished group keeps its legs and lingers.
LEMMA FinishedIs ==
    ASSUME NEW g \in Group
    PROVE  LET h == Finished(g)
           IN  /\ h.id = g.id /\ h.kind = g.kind /\ h.state = "Done" /\ h.linger = LingerTicks
               /\ h.legs = g.legs /\ h.legIndex = g.legIndex /\ h.spool = g.spool
  BY DEF Finished, Group

LEMMA SolvedIs ==
    ASSUME NEW g \in Group
    PROVE  LET h == Solved(g)
           IN  /\ h.id = g.id /\ h.kind = g.kind /\ h.legs = g.legs /\ h.legIndex = g.legIndex
               /\ h.spool = g.spool
               /\ \/ h.state = "Done" /\ h.linger = LingerTicks
                  \/ /\ h.state = g.state /\ h.fresh = FALSE
                     /\ h.deadline = IF g.fresh THEN LegTicks ELSE g.deadline
               /\ Here(g) # {} => h.state = g.state /\ h.fresh = FALSE
                                  /\ h.deadline = IF g.fresh THEN LegTicks ELSE g.deadline
<1>1. CASE Here(g) = {}
  BY <1>1, FinishedIs DEF Solved, Here
<1>2. CASE Here(g) # {}
  BY <1>2 DEF Solved, Here, Group
<1> QED BY <1>1, <1>2

\* One group's turn, told by its clocks.
LEMMA Turn ==
    ASSUME NEW g \in Group, g.legIndex <= Len(g.legs)
    PROVE  LET h == Advanced(g)
           IN  /\ h.id = g.id /\ h.kind = g.kind /\ h.legs = g.legs /\ h.spool = g.spool
               /\ \/ ~Flying(g) /\ h = g
                  \/ /\ Flying(g) /\ h.state = "Done" /\ h.linger = LingerTicks
                     /\ h.legIndex \in {g.legIndex, g.legIndex + 1}
                  \/ /\ Flying(g) /\ h.state = "Underway" /\ h.legIndex = g.legIndex
                     /\ h.fresh = g.fresh /\ h.deadline = g.deadline /\ g.deadline > 0
                  \/ /\ Flying(g) /\ h.state = "Arriving" /\ h.legIndex = g.legIndex + 1
                     /\ h.fresh = FALSE /\ h.deadline = LegTicks
                  \/ /\ Flying(g) /\ h.state = "Underway" /\ h.legIndex = g.legIndex + 1
                     /\ ~Flying(h)
<1> DEFINE n == NextLeg(g)
           h == Advanced(g)
<1>0. g.legIndex \in Nat /\ Len(g.legs) \in Nat
  BY GroupNumbers
<1>1. CASE ~Flying(g)
  BY <1>1 DEF Advanced
<1>2. CASE Flying(g) /\ g.members \cap OnGrid = {}
  <2>1. h = Finished(g)
    BY <1>2 DEF Advanced
  <2> QED BY <1>2, <2>1, FinishedIs
<1>3. CASE Flying(g) /\ g.members \cap OnGrid # {}
  <2>1. /\ n \in Group /\ n.id = g.id /\ n.kind = g.kind /\ n.members = g.members
        /\ n.legs = g.legs /\ n.legIndex = g.legIndex + 1 /\ n.fresh = TRUE /\ n.spool = g.spool
        /\ n.state = g.state
    <3>1. n.spool = g.spool
      BY DEF NextLeg, Group
    <3> QED BY <3>1, NextLegGroup DEF Same
  <2>2. Here(n) # {}
    BY <1>3, <2>1 DEF Here
  <2>3. CASE ~Arrived(g) /\ g.deadline > 0
    <3>1. h = [g EXCEPT !.state = "Underway"]
      BY <1>3, <2>3 DEF Advanced
    <3>2. /\ h.id = g.id /\ h.kind = g.kind /\ h.legs = g.legs /\ h.spool = g.spool
          /\ h.state = "Underway" /\ h.legIndex = g.legIndex /\ h.fresh = g.fresh
          /\ h.deadline = g.deadline
      BY <3>1 DEF Group
    <3> QED BY <1>3, <2>3, <3>2
  <2>4. CASE ~(~Arrived(g) /\ g.deadline > 0) /\ g.legIndex + 1 < Len(g.legs)
    <3>1. h = [Solved(n) EXCEPT !.state = "Arriving"]
      BY <1>3, <2>4 DEF Advanced
    <3> HIDE DEF n
    <3>2. Solved(n) \in Group
      BY <2>1, SolvedGroup
    <3>3. /\ h.id = Solved(n).id /\ h.kind = Solved(n).kind /\ h.legs = Solved(n).legs
          /\ h.spool = Solved(n).spool /\ h.state = "Arriving" /\ h.legIndex = Solved(n).legIndex
          /\ h.fresh = Solved(n).fresh /\ h.deadline = Solved(n).deadline
      BY <3>1, <3>2 DEF Group
    <3>4. /\ Solved(n).id = n.id /\ Solved(n).kind = n.kind /\ Solved(n).legs = n.legs
          /\ Solved(n).spool = n.spool /\ Solved(n).legIndex = n.legIndex
          /\ Solved(n).fresh = FALSE /\ Solved(n).deadline = LegTicks
      BY <2>1, <2>2, SolvedIs
    <3> HIDE DEF h
    <3>5. /\ h.id = g.id /\ h.kind = g.kind /\ h.legs = g.legs /\ h.spool = g.spool
          /\ h.state = "Arriving" /\ h.legIndex = g.legIndex + 1 /\ h.fresh = FALSE
          /\ h.deadline = LegTicks
      BY <2>1, <3>3, <3>4
    <3> QED BY <1>3, <3>5 DEF h
  <2>5. CASE /\ ~(~Arrived(g) /\ g.deadline > 0) /\ ~(g.legIndex + 1 < Len(g.legs))
             /\ g.kind = "Mine"
    <3>1. h = [n EXCEPT !.state = "Underway"]
      BY <1>3, <2>5 DEF Advanced
    <3> HIDE DEF n
    <3>2. /\ h.id = n.id /\ h.kind = n.kind /\ h.legs = n.legs /\ h.spool = n.spool
          /\ h.state = "Underway" /\ h.legIndex = n.legIndex
      BY <2>1, <3>1 DEF Group
    <3> HIDE DEF h
    <3>3. ~Flying(h)
      BY <1>0, <2>1, <2>5, <3>2 DEF Flying
    <3> QED BY <1>3, <2>1, <3>2, <3>3 DEF h
  <2>6. CASE /\ ~(~Arrived(g) /\ g.deadline > 0) /\ ~(g.legIndex + 1 < Len(g.legs))
             /\ g.kind # "Mine"
    <3>1. h = Finished(n)
      BY <1>3, <2>6 DEF Advanced
    <3> HIDE DEF n
    <3> QED BY <1>3, <2>1, <3>1, FinishedIs
  <2> QED BY <2>3, <2>4, <2>5, <2>6
<1> QED BY <1>1, <1>2, <1>3

\* The clocks of a working group are wound down, and nothing else.
LEMMA TickedIs ==
    ASSUME NEW g \in Group
    PROVE  LET h == Ticked(g)
           IN  /\ h.id = g.id /\ h.kind = g.kind /\ h.legs = g.legs /\ h.legIndex = g.legIndex
               /\ h.state = g.state /\ h.fresh = g.fresh
               /\ g.deadline > 0 => h.deadline < g.deadline
               /\ g.spool > 0 => h.spool < g.spool
               /\ g.linger > 0 => h.linger < g.linger
<1>1. \A n \in Nat : n > 0 => CountDown(n) < n
  BY DEF CountDown
<1>2. LET h == Ticked(g)
      IN  /\ h.id = g.id /\ h.kind = g.kind /\ h.legs = g.legs /\ h.legIndex = g.legIndex
          /\ h.state = g.state /\ h.fresh = g.fresh /\ h.deadline = CountDown(g.deadline)
          /\ h.spool = CountDown(g.spool) /\ h.linger = CountDown(g.linger)
  BY DEF Ticked, Group
<1> QED BY <1>1, <1>2, GroupNumbers

-----------------------------------------------------------------------------
(* One step of the order table at a time.                                    *)

\* What a step does to the order it finds and leaves.
RunsDown == \A g \in groups, h \in groups' : h.id = g.id => AsNear(h, g) \/ Nearer(h, g)

LEMMA StandsAsNear ==
    ASSUME NEW g, ore' = ore
    PROVE  AsNear(g, g)
  BY DEF AsNear, Stage, Clock

LEMMA SameRunsDown ==
    ASSUME IInv, groups' = groups, ore' = ore
    PROVE  RunsDown
<1>1. \A g, h \in groups : h.id = g.id => h = g
  BY DEF IInv, OrdersApart, OneOrderPerId
<1> QED BY <1>1, StandsAsNear DEF RunsDown

\* It is enough to know each order that was there: an id is one order's.
LEMMA EachRunsDown ==
    ASSUME IInv,
           \A h \in groups' : \E g \in groups :
             h.id = g.id /\ (AsNear(h, g) \/ Nearer(h, g))
    PROVE  RunsDown
<1>1. \A g, h \in groups : h.id = g.id => h = g
  BY DEF IInv, OrdersApart, OneOrderPerId
<1>2. ASSUME NEW g \in groups, NEW h \in groups', h.id = g.id
      PROVE  AsNear(h, g) \/ Nearer(h, g)
  <2>1. PICK f \in groups : h.id = f.id /\ (AsNear(h, f) \/ Nearer(h, f))
    OBVIOUS
  <2>2. f = g
    BY <1>1, <1>2, <2>1
  <2> QED BY <2>1, <2>2
<1> QED BY <1>2 DEF RunsDown

LEMMA IngestDockRunsDown ==
    ASSUME IInv, IngestDock
    PROVE  RunsDown
<1> DEFINE S == Head(pending).ships \cap OnGrid
<1>1. groups' = Forget(groups, S) /\ ore' = ore
  BY DEF IngestDock, LeaveGrid
<1> HIDE DEF S
<1>2. \A h \in groups' : \E g \in groups : h = [g EXCEPT !.members = @ \ S]
  BY <1>1 DEF Forget
<1>3. groups \in SUBSET Group
  BY DEF IInv, TypeOK
<1>4. ASSUME NEW h \in groups'
      PROVE  \E g \in groups : h.id = g.id /\ AsNear(h, g)
  <2>1. PICK g \in groups : h = [g EXCEPT !.members = @ \ S]
    BY <1>2
  <2>2. g \in Group
    BY <1>3
  <2>3. h.id = g.id /\ AsNear(h, g)
    BY <1>1, <2>1, <2>2, ForgottenAsNear
  <2> QED BY <2>3
<1> QED BY <1>4, EachRunsDown

LEMMA IngestAppendRunsDown ==
    ASSUME IInv, IngestAppend
    PROVE  RunsDown
<1> DEFINE place == Head(pending).place
           joined == Joinable(Head(pending))
<1>1. /\ pending # <<>> /\ pending' = Tail(pending) /\ ore' = ore
      /\ groups' = {IF g \in joined THEN Grown(g, place) ELSE g : g \in groups}
  BY DEF IngestAppend
<1>2. place \in Targets
  BY <1>1, TailPending DEF IInv, Order
<1> HIDE DEF place, joined
<1>3. ASSUME NEW h \in groups'
      PROVE  \E g \in groups : h.id = g.id /\ (AsNear(h, g) \/ Nearer(h, g))
  <2>1. PICK g \in groups : h = IF g \in joined THEN Grown(g, place) ELSE g
    BY <1>1
  <2>2. g \in Group
    BY DEF IInv, TypeOK
  <2>3. CASE g \in joined
    <3>1. h.id = g.id /\ h.legs = Append(g.legs, place)
      BY <1>2, <2>1, <2>2, <2>3, GrownGroup DEF Same
    <3>2. Len(h.legs) > Len(g.legs)
      BY <1>2, <2>2, <3>1, GroupNumbers
    <3> QED BY <3>1, <3>2 DEF Nearer
  <2>4. CASE g \notin joined
    BY <1>1, <2>1, <2>4, StandsAsNear
  <2> QED BY <2>3, <2>4
<1> QED BY <1>3, EachRunsDown

\* The order that is new is nobody's successor: its id is.
LEMMA IngestPlanRunsDown ==
    ASSUME IInv, IngestPlan
    PROVE  RunsDown
<1> DEFINE o == Head(pending)
           S == o.ships
           new == GroupFor(o, IdFor(o))
<1>1. /\ pending # <<>> /\ pending' = Tail(pending) /\ o.kind # "Dock" /\ ore' = ore
      /\ groups' = Forget(groups, S) \cup {new}
  BY DEF IngestPlan
<1>2. o \in Order /\ o = pending[1] /\ 1 \in DOMAIN pending /\ DOMAIN pending = 1..Len(pending)
  BY <1>1, TailPending DEF IInv, TypeOK
<1>3. IdFor(o) \in Nat /\ nextOrderId \in Nat
  BY <1>2 DEF Order, IdFor, IInv, TypeOK
<1>4. new.id = IdFor(o)
  BY <1>1, <1>2, <1>3, NewGroupFor DEF IInv
<1> HIDE DEF o, S, new
<1>5. \A g \in groups : g.id # IdFor(o)
  BY <1>2, <1>3 DEF OneOrderPerId, OrdersApart, IInv, IdFor
<1>6. \A g, h \in groups : h.id = g.id => h = g
  BY DEF IInv, OrdersApart, OneOrderPerId
<1>7. ASSUME NEW g \in groups, NEW h \in groups', h.id = g.id
      PROVE  AsNear(h, g)
  <2>1. h \in Forget(groups, S)
    BY <1>1, <1>4, <1>5, <1>7
  <2>2. PICK f \in groups : h = [f EXCEPT !.members = @ \ S]
    BY <2>1 DEF Forget
  <2>3. f \in Group
    BY DEF IInv, TypeOK
  <2>4. h.id = f.id /\ AsNear(h, f)
    BY <1>1, <2>2, <2>3, ForgottenAsNear
  <2>5. f = g
    BY <1>6, <1>7, <2>4
  <2> QED BY <2>4, <2>5
<1> QED BY <1>7 DEF RunsDown

\* Solving starts the clock of a leg that had none.
LEMMA SolveStaleRunsDown ==
    ASSUME IInv, SolveStale
    PROVE  RunsDown /\ OnTheClock'
<1> DEFINE stale == {g \in groups : Stale(g)}
<1>1. /\ groups' = (groups \ stale) \cup {Solved(g) : g \in stale}
      /\ phase' = "depart" /\ ore' = ore
  BY DEF SolveStale
<1>2. ASSUME NEW h \in groups'
      PROVE  /\ \E g \in groups : h.id = g.id /\ (AsNear(h, g) \/ Nearer(h, g))
             /\ Flying(h) => h.fresh = FALSE
  <2>1. CASE h \in groups \ stale
    <3>1. h \in Group
      BY <2>1 DEF IInv, TypeOK
    <3>2. Flying(h) => h.fresh = FALSE
      BY <2>1, <3>1, GroupNumbers DEF Stale
    <3> QED BY <1>1, <2>1, <3>2, StandsAsNear
  <2>2. CASE \E g \in stale : h = Solved(g)
    <3>1. PICK g \in groups : Stale(g) /\ h = Solved(g)
      BY <2>2
    <3>2. g \in Group /\ Flying(g)
      BY <3>1 DEF IInv, TypeOK, Stale
    <3>3. g.state # "Done" /\ g.legIndex < Len(g.legs)
      BY <3>2 DEF Flying
    <3>4. /\ h.id = g.id /\ h.legs = g.legs /\ h.legIndex = g.legIndex
          /\ \/ h.state = "Done"
             \/ /\ h.state = g.state /\ h.fresh = FALSE
                /\ h.deadline = IF g.fresh THEN LegTicks ELSE g.deadline
      BY <3>1, <3>2, SolvedIs
    <3>5. CASE h.state = "Done"
      BY <3>3, <3>4, <3>5, OverIsNearer DEF Flying
    <3>6. CASE h.state # "Done"
      <4>1. Flying(h) /\ Stage(h) = Stage(g)
        BY <3>2, <3>3, <3>4, <3>6 DEF Flying, Stage
      <4>2. Clock(h, ore') = IF g.fresh THEN LegTicks ELSE g.deadline
        BY <3>4, <3>6, <4>1 DEF Clock
      <4>3. Clock(g, ore) = IF g.fresh THEN LegTicks + 1 ELSE g.deadline
        BY <3>2, <3>3 DEF Clock
      <4>4. LegTicks < LegTicks + 1
        BY TimerAssumption
      <4>5. AsNear(h, g) \/ Nearer(h, g)
        BY <1>1, <3>4, <4>1, <4>2, <4>3, <4>4 DEF AsNear, Nearer
      <4> QED BY <3>4, <3>6, <4>5
    <3> QED BY <3>5, <3>6
  <2> QED BY <1>1, <2>1, <2>2
<1>3. RunsDown
  BY <1>2, EachRunsDown
<1>4. OnTheClock'
  BY <1>1, <1>2 DEF OnTheClock, Flying
<1> QED BY <1>3, <1>4

\* A warp departs on the tick its spool runs out, so those that stay still spool.
LEMMA DepartFinishedWarpsRunsDown ==
    ASSUME IInv, OnTheClock, DepartFinishedWarps
    PROVE  RunsDown /\ OnTheClock'
<1> DEFINE leaving == {g \in groups : g.kind = "Warp" /\ g.state # "Done" /\ g.spool = 0}
           S == (UNION {g.members : g \in leaving}) \cap OnGrid
<1>1. /\ groups' = Forget({IF g \in leaving THEN Finished(g) ELSE g : g \in groups}, S)
      /\ phase = "depart" /\ phase' = "advance" /\ ore' = ore
  BY DEF DepartFinishedWarps, LeaveGrid
<1>2. \A g \in groups : g \in leaving <=> g.kind = "Warp" /\ g.state # "Done" /\ g.spool = 0
  OBVIOUS
<1> HIDE DEF leaving, S
<1>3. \A h \in groups' : \E g \in groups :
        h = [(IF g \in leaving THEN Finished(g) ELSE g) EXCEPT !.members = @ \ S]
  BY <1>1 DEF Forget
<1>4. ASSUME NEW h \in groups'
      PROVE  /\ \E g \in groups : h.id = g.id /\ (AsNear(h, g) \/ Nearer(h, g))
             /\ Flying(h) => h.fresh = FALSE
             /\ h.kind = "Warp" /\ h.state # "Done" => h.spool > 0
  <2>1. PICK g \in groups :
          h = [(IF g \in leaving THEN Finished(g) ELSE g) EXCEPT !.members = @ \ S]
    BY <1>3
  <2>2. g \in Group
    BY DEF IInv, TypeOK
  <2>3. CASE g \in leaving
    <3>1. Finished(g) \in Group /\ h = [Finished(g) EXCEPT !.members = @ \ S]
      BY <2>1, <2>2, <2>3, FinishedGroup
    <3>2. /\ h.id = Finished(g).id /\ h.state = Finished(g).state
          /\ h.legs = Finished(g).legs /\ h.legIndex = Finished(g).legIndex
      BY <1>1, <3>1, ForgottenAsNear
    <3>3. h.id = g.id /\ h.state = "Done" /\ h.legs = g.legs /\ h.legIndex = g.legIndex
      BY <2>2, <3>2, FinishedIs
    <3> QED BY <1>2, <2>3, <3>3, OverIsNearer DEF Flying
  <2>4. CASE g \notin leaving
    <3>1. h = [g EXCEPT !.members = @ \ S]
      BY <2>1, <2>4
    <3>2. /\ h.id = g.id /\ AsNear(h, g) /\ h.state = g.state /\ h.kind = g.kind
          /\ h.spool = g.spool /\ h.fresh = g.fresh /\ h.legs = g.legs /\ h.legIndex = g.legIndex
      BY <1>1, <2>2, <3>1, ForgottenAsNear
    <3>3. Flying(h) => h.fresh = FALSE
      BY <1>1, <3>2 DEF OnTheClock, Flying
    <3>4. h.kind = "Warp" /\ h.state # "Done" => h.spool > 0
      <4>1. g.spool \in Nat
        BY <2>2, GroupNumbers
      <4>2. g.kind = "Warp" /\ g.state # "Done" => g.spool # 0
        BY <1>2, <2>4
      <4> QED BY <3>2, <4>1, <4>2
    <3> QED BY <3>2, <3>3, <3>4
  <2> QED BY <2>3, <2>4
<1>5. RunsDown
  BY <1>4, EachRunsDown
<1>6. OnTheClock'
  BY <1>1, <1>4 DEF OnTheClock, Flying
<1> QED BY <1>5, <1>6

\* A leg that is flown on has time left, and an order that is over lingers.
LEMMA GroupAdvanceRunsDown ==
    ASSUME IInv, OnTheClock, GroupAdvance
    PROVE  RunsDown /\ OnTheClock'
<1>1. /\ groups' = {h \in {Advanced(g) : g \in groups} : ~Retired(h)}
      /\ phase = "advance" /\ phase' = "move" /\ ore' = ore
  BY DEF GroupAdvance
<1>2. ASSUME NEW h \in groups'
      PROVE  /\ \E g \in groups : h.id = g.id /\ (AsNear(h, g) \/ Nearer(h, g))
             /\ Flying(h) => h.fresh = FALSE /\ h.deadline > 0
             /\ h.kind = "Warp" /\ h.state # "Done" => h.spool > 0
             /\ h.state = "Done" => h.linger > 0
  <2>1. PICK g \in groups : h = Advanced(g) /\ ~Retired(h)
    BY <1>1
  <2>2. g \in Group /\ g.legIndex <= Len(g.legs)
    BY DEF IInv, TypeOK, PlansFit
  <2>3. g.legIndex \in Nat /\ Len(g.legs) \in Nat /\ g.linger \in Nat
    BY <2>2, GroupNumbers
  <2>4. /\ Flying(g) => g.fresh = FALSE
        /\ g.kind = "Warp" /\ g.state # "Done" => g.spool > 0
    BY <1>1 DEF OnTheClock
  <2>5. /\ h.id = g.id /\ h.kind = g.kind /\ h.legs = g.legs /\ h.spool = g.spool
        /\ \/ ~Flying(g) /\ h = g
           \/ /\ Flying(g) /\ h.state = "Done" /\ h.linger = LingerTicks
              /\ h.legIndex \in {g.legIndex, g.legIndex + 1}
           \/ /\ Flying(g) /\ h.state = "Underway" /\ h.legIndex = g.legIndex
              /\ h.fresh = g.fresh /\ h.deadline = g.deadline /\ g.deadline > 0
           \/ /\ Flying(g) /\ h.state = "Arriving" /\ h.legIndex = g.legIndex + 1
              /\ h.fresh = FALSE /\ h.deadline = LegTicks
           \/ /\ Flying(g) /\ h.state = "Underway" /\ h.legIndex = g.legIndex + 1
              /\ ~Flying(h)
    BY <2>1, <2>2, Turn
  <2>6. CASE ~Flying(g) /\ h = g
    <3>1. h.state = "Done" => h.linger > 0
      BY <2>1, <2>3, <2>6 DEF Retired
    <3> QED BY <1>1, <2>4, <2>6, <3>1, StandsAsNear
  <2>7. CASE Flying(g) /\ h.state = "Done" /\ h.linger = LingerTicks
             /\ h.legIndex \in {g.legIndex, g.legIndex + 1}
    <3>1. g.state # "Done" /\ ~Flying(h) /\ h.linger > 0
      BY <2>7, TimerAssumption DEF Flying
    <3>2. CASE h.legIndex = g.legIndex
      BY <2>5, <2>7, <3>1, <3>2, OverIsNearer
    <3>3. CASE h.legIndex = g.legIndex + 1
      BY <2>3, <2>5, <2>7, <3>1, <3>3 DEF Nearer
    <3> QED BY <2>7, <3>2, <3>3
  <2>8. CASE Flying(g) /\ h.state = "Underway" /\ h.legIndex = g.legIndex
             /\ h.fresh = g.fresh /\ h.deadline = g.deadline /\ g.deadline > 0
    <3>1. Flying(h) /\ Stage(h) = Stage(g) /\ Clock(h, ore') = Clock(g, ore)
      BY <2>5, <2>8 DEF Flying, Stage, Clock
    <3>2. AsNear(h, g)
      BY <2>5, <2>8, <3>1 DEF AsNear
    <3> QED BY <2>4, <2>5, <2>8, <3>2 DEF Flying
  <2>9. CASE /\ Flying(g) /\ h.state = "Arriving" /\ h.legIndex = g.legIndex + 1
             /\ h.fresh = FALSE /\ h.deadline = LegTicks
    <3>1. Nearer(h, g)
      BY <2>3, <2>5, <2>9 DEF Nearer
    <3> QED BY <2>4, <2>5, <2>9, <3>1, TimerAssumption DEF Flying
  <2>10. CASE Flying(g) /\ h.state = "Underway" /\ h.legIndex = g.legIndex + 1 /\ ~Flying(h)
    <3>1. Nearer(h, g)
      BY <2>3, <2>5, <2>10 DEF Nearer
    <3> QED BY <2>4, <2>5, <2>10, <3>1 DEF Flying
  <2> QED BY <2>5, <2>6, <2>7, <2>8, <2>9, <2>10
<1>3. RunsDown
  BY <1>2, EachRunsDown
<1>4. OnTheClock'
  BY <1>1, <1>2 DEF OnTheClock, Flying
<1> QED BY <1>3, <1>4

\* The end of a tick winds every clock there is, or ends the order.
LEMMA EndTickRunsDown ==
    ASSUME IInv, OnTheClock, EndTick
    PROVE  \A g \in groups, h \in groups' : h.id = g.id => Nearer(h, g)
<1>1. phase = "move" /\ ore' = LeftAfter(Cardinality(Mining))
  BY DEF EndTick
<1>2. PICK full \in SUBSET Mining :
        groups' = {Ticked(IF Working(g) /\ (g \in full \/ g \notin Mining \/ ore' = 0)
                          THEN Finished(g) ELSE g) : g \in groups}
  BY DEF EndTick
<1> DEFINE over(g) == Working(g) /\ (g \in full \/ g \notin Mining \/ ore' = 0)
<1>3. \A h \in groups' : \E g \in groups : h = Ticked(IF over(g) THEN Finished(g) ELSE g)
  BY <1>2
<1>4. \A g \in groups : over(g) => g.state # "Done"
  BY DEF Working
<1>5. \A g \in groups : Working(g) /\ ~over(g) => g \in Mining /\ ore' # 0
  OBVIOUS
<1> HIDE DEF over
<1>6. Mining # {} /\ ore' # 0 => ore' < ore
  <2>1. IsFiniteSet(Mining)
    BY FS_Subset DEF Mining, IInv, GroupsWell
  <2>2. Cardinality(Mining) \in Nat /\ ore \in Nat /\ (Mining # {} => Cardinality(Mining) # 0)
    BY <2>1, FS_CardinalityType, FS_EmptySet DEF IInv, TypeOK
  <2> DEFINE taken == Cardinality(Mining)
  <2>3. taken \in Nat /\ (Mining # {} => taken # 0) /\ ore' = LeftAfter(taken)
    BY <1>1, <2>2
  <2> HIDE DEF taken
  <2> QED BY <2>2, <2>3 DEF LeftAfter
<1>7. ASSUME NEW h \in groups'
      PROVE  \E g \in groups : h.id = g.id /\ Nearer(h, g)
  <2>1. PICK g \in groups : h = Ticked(IF over(g) THEN Finished(g) ELSE g)
    BY <1>3
  <2>2. g \in Group /\ Standing(g)
    BY DEF IInv, TypeOK, GroupsWell
  <2>3. CASE over(g)
    <3>1. Finished(g) \in Group /\ h = Ticked(Finished(g))
      BY <2>1, <2>2, <2>3, FinishedGroup
    <3>2. /\ h.id = Finished(g).id /\ h.state = Finished(g).state
          /\ h.legs = Finished(g).legs /\ h.legIndex = Finished(g).legIndex
      BY <3>1, TickedIs
    <3>3. h.id = g.id /\ h.state = "Done" /\ h.legs = g.legs /\ h.legIndex = g.legIndex
      BY <2>2, <3>2, FinishedIs
    <3> QED BY <1>4, <2>3, <3>3, OverIsNearer
  <2>4. CASE ~over(g)
    <3>1. h = Ticked(g)
      BY <2>1, <2>4
    <3>2. /\ h.id = g.id /\ h.kind = g.kind /\ h.legs = g.legs /\ h.legIndex = g.legIndex
          /\ h.state = g.state /\ h.fresh = g.fresh
          /\ g.deadline > 0 => h.deadline < g.deadline
          /\ g.spool > 0 => h.spool < g.spool
          /\ g.linger > 0 => h.linger < g.linger
      BY <2>2, <3>1, TickedIs
    <3>3. (Flying(h) <=> Flying(g)) /\ Stage(h) = Stage(g)
      BY <3>2 DEF Flying, Stage
    <3>4. /\ Flying(g) => g.fresh = FALSE /\ g.deadline > 0
          /\ g.kind = "Warp" /\ g.state # "Done" => g.spool > 0
          /\ g.state = "Done" => g.linger > 0
      BY <1>1 DEF OnTheClock
    <3>5. Clock(h, ore') < Clock(g, ore)
      <4>1. CASE g.state = "Done"
        BY <3>2, <3>4, <4>1 DEF Clock
      <4>2. CASE Flying(g)
        BY <3>2, <3>3, <3>4, <4>2 DEF Clock, Flying
      <4>3. CASE g.state # "Done" /\ ~Flying(g) /\ g.kind = "Warp"
        BY <3>2, <3>3, <3>4, <4>3 DEF Clock
      <4>4. CASE g.state # "Done" /\ ~Flying(g) /\ g.kind # "Warp"
        <5>1. g.legIndex >= Len(g.legs) /\ ~(g.legIndex < Len(g.legs))
          BY <2>2, <4>4, GroupNumbers DEF Flying
        <5>2. Working(g)
          BY <2>2, <4>4, <5>1 DEF Standing, Working
        <5>3. ore' < ore
          BY <1>5, <1>6, <2>4, <5>2
        <5> QED BY <3>2, <3>3, <4>4, <5>3 DEF Clock
      <4> QED BY <4>1, <4>2, <4>3, <4>4
    <3> QED BY <3>2, <3>3, <3>5 DEF Nearer
  <2> QED BY <2>3, <2>4
<1>8. \A g, h \in groups : h.id = g.id => h = g
  BY DEF IInv, OrdersApart, OneOrderPerId
<1>9. ASSUME NEW g \in groups, NEW h \in groups', h.id = g.id
      PROVE  Nearer(h, g)
  <2>1. PICK f \in groups : h.id = f.id /\ Nearer(h, f)
    BY <1>7
  <2>2. f = g
    BY <1>8, <1>9, <2>1
  <2> QED BY <2>1, <2>2
<1> QED BY <1>9

LEMMA NextRunsDown ==
    ASSUME IInv, OnTheClock, [Next]_vars
    PROVE  RunsDown /\ OnTheClock'
<1>1. CASE UNCHANGED vars
  BY <1>1, SameRunsDown DEF vars, OnTheClock, Flying
<1>2. CASE Command
  <2>1. groups' = groups /\ ore' = ore /\ phase' = "idle"
    <3>1. ASSUME NEW kind, NEW append, NEW lead, NEW S, NEW place, Submit(kind, append, lead, S, place)
          PROVE  groups' = groups /\ ore' = ore /\ phase' = "idle"
      BY <3>1 DEF Submit
    <3>2. ASSUME NEW S, Undocked(S)
          PROVE  groups' = groups /\ ore' = ore /\ phase' = "idle"
      BY <3>2 DEF Undocked
    <3> QED BY <1>2, <3>1, <3>2 DEF Command
  <2> QED BY <2>1, SameRunsDown DEF OnTheClock
<1>3. CASE BeginTick \/ IngestDock \/ IngestAppend \/ IngestPlan
  <2>1. phase' = "ingest"
    BY <1>3 DEF BeginTick, IngestDock, IngestAppend, IngestPlan
  <2>2. OnTheClock'
    BY <2>1 DEF OnTheClock
  <2>3. CASE BeginTick
    BY <2>2, <2>3, SameRunsDown DEF BeginTick
  <2> QED BY <1>3, <2>2, <2>3, IngestDockRunsDown, IngestAppendRunsDown, IngestPlanRunsDown
<1>4. CASE SolveStale \/ DepartFinishedWarps \/ GroupAdvance
  BY <1>4, SolveStaleRunsDown, DepartFinishedWarpsRunsDown, GroupAdvanceRunsDown
<1>5. CASE EndTick
  <2>1. phase' = "idle"
    BY <1>5 DEF EndTick
  <2> QED BY <1>5, <2>1, EndTickRunsDown DEF OnTheClock, RunsDown
<1> QED BY <1>1, <1>2, <1>3, <1>4, <1>5 DEF Next, Tick

\* However orders are queued, joined, replaced and abandoned, no step takes an order
\* further from its end, and each tick brings every order in the table nearer: the
\* legs are bounded (PlansStayWithinTheirLegs), so this is all of EveryOrderEnds but
\* the fairness of the tick (GroupAdvance, World::Tick).
THEOREM OrdersOnlyRunDown == Spec => OrdersRunDown
<1>1. Init => OnTheClock
  BY DEF Init, OnTheClock
<1>2. IInv /\ OnTheClock /\ [Next]_vars => OnTheClock'
  BY NextRunsDown
<1>3. IInv /\ OnTheClock /\ [Next]_vars =>
        [\A g \in groups, h \in groups' : h.id = g.id =>
           /\ AsNear(h, g) \/ Nearer(h, g)
           /\ EndTick => Nearer(h, g)]_vars
  BY NextRunsDown, EndTickRunsDown DEF RunsDown
<1> QED BY <1>1, <1>2, <1>3, SpecIInv, PTL DEF Spec, OrdersRunDown

=============================================================================
