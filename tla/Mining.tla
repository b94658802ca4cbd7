------------------------------- MODULE Mining -------------------------------
(***************************************************************************)
(* GameLogic/WorldMining and the ledgers of WorldRegistry: one mining site,*)
(* its field, the wings that work it and the book the shard keeps of it.   *)
(*                                                                         *)
(* The ore of a site is counted twice.  A live grid mines out of a field   *)
(* of its own (World::m_site), and every completed cycle files a debit     *)
(* that the transfer bus carries to the site's ledger before the next      *)
(* tick.  The field is built from the ledger when the grid spins up, and   *)
(* forgotten when it is torn down.  Every so often the calendar turns and  *)
(* the site's pools are re-formed, but only for a grid not yet live.       *)
(*                                                                         *)
(* One WorldRegistry::Tick is one action.  Clocks count down: a cycle, a   *)
(* lockout and the time spent outside the field are what is left of them,  *)
(* so that a behaviour needs no last tick.  A second is a tick here.       *)
(***************************************************************************)
EXTENDS Integers, Sequences, SequencesExt, FiniteSets, FiniteSetsExt

CONSTANTS
    Miners,       \* the Miners, by ship id
    Escorts,      \* other hulls a Mine order may name
    Clusters,     \* 1..n, the clusters of a field
    Ores,         \* 1..n, in OreId order
    Volume,       \* Volume[o]: litres one unit of o takes in a hold
    PerCycle,     \* PerCycle[o]: units one cycle yields at most
    HoldLitres,   \* the Miner's ore hold
    Pristine,     \* Pristine[e][c][o]: what epoch e lays out
    Hazards,      \* the archetypes of a run: "None", "Radiation", "Nebula"
    CycleTicks,   \* a cycle at no radiation
    SlowTicks,    \* ticks each radiation stack adds to a cycle
    StackCap,     \* RADIATION_STACK_CAP
    DecayTicks,   \* ticks outside the field that shed one stack
    HeatPerCycle, HeatThreshold, HeatDecay, LockoutTicks,
    Filters,      \* the ore filters a commander asks for: AnyOre or one ore
    AnyLoad,      \* FALSE: a run loads a shard only with no debit on its bus and
                  \* before the calendar first turns
    MaxGroups,    \* a bound: Mine orders at a time
    NoLedger      \* a site nobody has mined in any epoch on the books

Ships == Miners \cup Escorts
Epochs == DOMAIN Pristine
AnyOre == 0
NotCycling == -1

ASSUME FieldAssumption ==
    /\ Max(Epochs) \in Nat /\ Epochs = 0..Max(Epochs)
    /\ Max(Clusters) \in Nat \ {0} /\ Clusters = 1..Max(Clusters)
    /\ Max(Ores) \in Nat \ {0} /\ Ores = 1..Max(Ores)
    /\ Pristine \in [Epochs -> [Clusters -> [Ores -> Nat]]]
    /\ Volume \in [Ores -> Nat \ {0}] /\ PerCycle \in [Ores -> Nat \ {0}]
    /\ HoldLitres \in Nat /\ Filters \subseteq {AnyOre} \cup Ores
    /\ Ships \subseteq Nat /\ IsFiniteSet(Ships) /\ Miners \cap Escorts = {}
    /\ NoLedger \notin [epoch : Epochs, units : [Clusters -> [Ores -> Nat]]]

\* The authored numbers of Economy.json keep this: a lockout sheds more heat
\* than the hottest cycle can leave above the threshold.
ASSUME HazardAssumption ==
    /\ Hazards \subseteq {"None", "Radiation", "Nebula"}
    /\ CycleTicks \in Nat \ {0} /\ SlowTicks \in Nat /\ StackCap \in Nat
    /\ DecayTicks \in Nat \ {0} /\ HeatThreshold \in Nat \ {0}
    /\ {HeatPerCycle, HeatDecay, LockoutTicks} \subseteq Nat
    /\ HeatPerCycle - 1 < LockoutTicks * HeatDecay

VARIABLES
    hazard,     \* the site's archetype, fixed
    epoch,      \* EpochNow: the epoch the calendar is in
    live,       \* the grid has a World
    watched,    \* somebody's view holds the grid
    field,      \* World::m_site, what is left in it
    fieldEpoch, \* LiveWorld::fieldEpoch, and World::m_fieldEpoch
    here,       \* ships on the grid
    inside,     \* ships on the grid within the field's radius
    cargo,      \* cargo[s][o]: World::m_cargo, wherever the ship is
    work,       \* work[s]: World::m_mining, the MiningState of a ship
    groups,     \* World::m_groups, the Mine orders among them, in table order
    ledger,     \* the row of m_siteLedgers for this site, or NoLedger
    bus,        \* the debits filed by the last tick, applied by the next
    held,       \* debits loaded with the shard, due at the tick it was saved at
    reloaded,   \* the next tick is the first of a shard that was loaded
    won         \* history: units credited to holds in the last epoch mined

vars == <<hazard, epoch, live, watched, field, fieldEpoch, here, inside, cargo,
          work, groups, ledger, bus, held, reloaded, won>>

Nothing == [c \in Clusters |-> [o \in Ores |-> 0]]
Idle == [left |-> NotCycling, cluster |-> 1, stacks |-> 0, outside |-> 0,
         heat |-> 0, lockout |-> 0]
Members(g) == ToSet(g.members)

-----------------------------------------------------------------------------
(* The pure questions of the field. *)

Total(seq) ==
    LET sum[k \in 0..Len(seq)] == IF k = 0 THEN 0 ELSE sum[k - 1] + seq[k]
    IN  sum[Len(seq)]

\* So much of an ore more in a cluster, or in a hold.
Plus(pool, a, ore, units) == [pool EXCEPT ![a][ore] = @ + units]

\* What a hold carries, in litres.
Litres(hold) == Total([o \in Ores |-> hold[o] * Volume[o]])

\* Mutant: the room of an empty hold.
RoomOfAnEmptyHold(hold) == HoldLitres

\* World::OreHoldFreeLitres.
Room(hold) == IF HoldLitres > Litres(hold) THEN HoldLitres - Litres(hold) ELSE 0

\* Mining's nextOre: what a ship with this much room may take from a cluster,
\* and the ore it takes: the most plentiful, ties by OreId.
Takeable(rocks, room, filter) ==
    {o \in Ores : rocks[o] > 0 /\ Volume[o] <= room /\ filter \in {AnyOre, o}}
NextOre(rocks, room, filter) ==
    CHOOSE o \in Takeable(rocks, room, filter) :
        \A p \in Takeable(rocks, room, filter) :
            rocks[p] < rocks[o] \/ (rocks[p] = rocks[o] /\ o <= p)

\* RichestCluster: a tie keeps the lower index; 0 for a field with nothing.
Matching(rocks, filter) ==
    Total([o \in Ores |-> IF filter \in {AnyOre, o} THEN rocks[o] ELSE 0])
RichestCluster(f, filter) ==
    LET some == {c \in Clusters : Matching(f[c], filter) > 0}
    IN  IF some = {} THEN 0
        ELSE CHOOSE c \in some : \A d \in some :
                 \/ Matching(f[d], filter) < Matching(f[c], filter)
                 \/ Matching(f[d], filter) = Matching(f[c], filter) /\ c <= d

MiningCycleTicks(stacks) ==
    CycleTicks + (IF hazard = "Radiation" THEN stacks * SlowTicks ELSE 0)

-----------------------------------------------------------------------------
TypeOK ==
    /\ hazard \in Hazards /\ epoch \in Epochs /\ fieldEpoch \in Epochs
    /\ reloaded \in BOOLEAN /\ live \in BOOLEAN /\ watched \in BOOLEAN
    /\ field \in [Clusters -> [Ores -> Nat]]
    /\ inside \subseteq here /\ here \subseteq Ships
    /\ cargo \in [Ships -> [Ores -> Nat]] /\ \A s \in Ships : Litres(cargo[s]) <= HoldLitres
    /\ \A s \in Ships :
        /\ work[s].left \in NotCycling..(CycleTicks + StackCap * SlowTicks)
        /\ work[s].cluster \in Clusters /\ work[s].stacks \in 0..StackCap
        /\ work[s].outside \in 0..(DecayTicks - 1) /\ work[s].heat \in Nat
        /\ work[s].lockout \in 0..LockoutTicks
    /\ \A k \in DOMAIN groups :
        /\ Members(groups[k]) \subseteq here /\ groups[k].members # <<>>
        /\ groups[k].cluster \in Clusters /\ groups[k].filter \in Filters
    /\ ledger # NoLedger => ledger.units \in [Clusters -> [Ores -> Nat]]

Init ==
    /\ hazard \in Hazards
    /\ epoch = 0 /\ live = FALSE /\ watched = FALSE
    /\ field = Nothing /\ fieldEpoch = 0
    /\ here = {} /\ inside = {}
    /\ cargo = [s \in Ships |-> [o \in Ores |-> 0]]
    /\ work = [s \in Ships |-> Idle]
    /\ groups = <<>> /\ ledger = NoLedger /\ bus = <<>> /\ held = <<>> /\ reloaded = FALSE
    /\ won = [epoch |-> 0, units |-> Nothing]

-----------------------------------------------------------------------------
(* The book: ResolveField, SpinUp, ApplyMineYield. *)

\* What the shard would lay out for an epoch: the bake's pools, with the
\* ledger written over them when it is a ledger of that epoch.
Books(book, e) ==
    IF book # NoLedger /\ book.epoch = e THEN book.units ELSE Pristine[e]

\* SpinUp drops a ledger of another epoch: no ledger is a full field.
KeptLedger == IF ledger # NoLedger /\ ledger.epoch = epoch THEN ledger ELSE NoLedger

\* Mutant: a grid that spins up is a full field.
SpinUpFull ==
    IF live THEN UNCHANGED <<field, fieldEpoch, ledger>>
    ELSE field' = Pristine[epoch] /\ fieldEpoch' = epoch /\ ledger' = NoLedger

\* SpinUp of the site's grid, in the epoch of the calendar.
SpinUp ==
    IF live THEN UNCHANGED <<field, fieldEpoch, ledger>>
    ELSE /\ field' = Books(ledger, epoch)
         /\ fieldEpoch' = epoch
         /\ ledger' = KeptLedger

\* One debit: a ledger of a later epoch refuses it, a missing or an earlier
\* one is seeded from the record's own epoch, and the count stops at zero.
ApplyMineYield(book, rec) ==
    IF book # NoLedger /\ book.epoch > rec.epoch THEN book
    ELSE LET units == Books(book, rec.epoch)
         IN  [epoch |-> rec.epoch,
              units |-> Plus(units, rec.cluster, rec.ore,
                             -Min({units[rec.cluster][rec.ore], rec.units}))]

-----------------------------------------------------------------------------
(* World::Mining, over the state of one tick:                              *)
(*   m.field, m.cargo, m.work, m.won as the variables, m.filed the debits. *)

\* What holds have taken out of an epoch's pool, by the history variable.
WonIn(w, e) == IF w.epoch = e THEN w.units ELSE Nothing

\* Units of an ore pass from a cluster to a hold, and a debit is filed.
Pay(m, s, ore, units, debit) ==
    LET c == m.work[s].cluster
    IN  [m EXCEPT !.field = Plus(@, c, ore, -units),
                  !.cargo = Plus(@, s, ore, units),
                  !.won = [epoch |-> fieldEpoch,
                           units |-> Plus(WonIn(@, fieldEpoch), c, ore, units)],
                  !.filed = Append(@, [cluster |-> c, ore |-> ore, units |-> debit,
                                       epoch |-> fieldEpoch])]

CycleYield(rocks, room, ore) == Min({PerCycle[ore], rocks[ore], room \div Volume[ore]})

\* Mutant: the debit is the whole cycle, whatever the hold had room for.
CreditFilesTheCycle(m, s, g) ==
    LET rocks == m.field[m.work[s].cluster]
        room == Room(m.cargo[s])
    IN  IF Takeable(rocks, room, g.filter) = {} THEN m
        ELSE LET ore == NextOre(rocks, room, g.filter)
             IN  Pay(m, s, ore, CycleYield(rocks, room, ore), PerCycle[ore])

\* A cycle that has come due, credited out of the cluster the ship was
\* cycling on, by the filter of the order it is under now.
Credit(m, s, g) ==
    LET rocks == m.field[m.work[s].cluster]
        room == Room(m.cargo[s])
    IN  IF Takeable(rocks, room, g.filter) = {} THEN m
        ELSE LET ore == NextOre(rocks, room, g.filter)
                 units == CycleYield(rocks, room, ore)
             IN  Pay(m, s, ore, units, units)

\* Mutant: heat never locks the laser out.
PayHazardUnlocked(w, isInside) ==
    IF hazard = "Nebula" THEN [w EXCEPT !.heat = @ + HeatPerCycle]
    ELSE IF isInside /\ w.stacks < StackCap THEN [w EXCEPT !.stacks = @ + 1] ELSE w

\* The hazard is paid for running the laser, found or not.
PayHazard(w, isInside) ==
    LET heat == w.heat + HeatPerCycle
    IN  CASE hazard = "Radiation" ->
               IF isInside /\ w.stacks < StackCap THEN [w EXCEPT !.stacks = @ + 1] ELSE w
          [] hazard = "Nebula" ->
               [w EXCEPT !.heat = heat,
                         !.lockout = IF heat >= HeatThreshold THEN LockoutTicks ELSE @]
          [] OTHER -> w

\* The due cycle of one ship, if it has one.
FinishCycle(m, s, g) ==
    IF m.work[s].left # 0 THEN m
    ELSE [Credit(m, s, g) EXCEPT !.work[s] =
              PayHazard([@ EXCEPT !.left = NotCycling, !.cluster = 1], s \in inside)]

\* The next one: there is something to take, and the laser is not locked out.
CanWork(m, s, g) == Takeable(m.field[g.cluster], Room(m.cargo[s]), g.filter) # {}
StartCycle(m, s, g) ==
    IF m.work[s].left = NotCycling /\ CanWork(m, s, g) /\ m.work[s].lockout = 0
    THEN [m EXCEPT !.work[s].left = MiningCycleTicks(m.work[s].stacks),
                   !.work[s].cluster = g.cluster]
    ELSE m

\* Whether the ship gives its group a reason to stay.
NoteWorkable(m, s, g) ==
    [m EXCEPT !.workable = @ \/ CanWork(m, s, g) \/ m.work[s].left # NotCycling]

\* One member of a group.  Escorts hold their stations.
WorkShip(m, s, g) ==
    IF s \in Miners THEN NoteWorkable(StartCycle(FinishCycle(m, s, g), s, g), s, g) ELSE m

\* A group that nothing can take another cycle for is Done (the linger of a
\* Done group is in Orders).
KeepIfWorkable(m, g) == IF m.workable THEN [m EXCEPT !.groups = Append(@, g)] ELSE m

\* One group.  One that is still flying has legs left.
WorkGroup(m, g) ==
    IF ~g.arrived THEN [m EXCEPT !.groups = Append(@, g)]
    ELSE KeepIfWorkable(FoldLeft(LAMBDA n, s : WorkShip(n, s, g),
                                 [m EXCEPT !.workable = FALSE], g.members), g)

\* Upkeep, over every ship on the grid: stacks decay outside the field, heat
\* while the laser is off.
Upkeep(s, w) ==
    IF s \notin here THEN w
    ELSE CASE hazard = "Radiation" /\ w.stacks > 0 /\ s \notin inside ->
                IF w.outside + 1 >= DecayTicks
                THEN [w EXCEPT !.outside = 0, !.stacks = @ - 1]
                ELSE [w EXCEPT !.outside = @ + 1]
           [] hazard = "Nebula" /\ w.heat > 0 /\ w.left \in {NotCycling, 0} ->
                [w EXCEPT !.heat = Max({0, @ - HeatDecay})]
           [] OTHER -> w

\* A tick brings every clock one nearer.
Countdown(w) ==
    [w EXCEPT !.left = IF @ > 0 THEN @ - 1 ELSE @,
              !.lockout = IF @ > 0 THEN @ - 1 ELSE @]

Mined ==
    FoldLeft(WorkGroup,
             [field |-> field, cargo |-> cargo, won |-> won, filed |-> <<>>, groups |-> <<>>,
              work |-> [s \in Ships |-> Countdown(work[s])], workable |-> FALSE],
             groups)

-----------------------------------------------------------------------------
(* WorldRegistry::Tick: the debits of the last tick, the world's own tick, *)
(* the collection of what it filed, and the teardown of an idle grid.      *)
Tick ==
    \E m \in {Mined} :
        /\ epoch' \in IF reloaded THEN {0} ELSE {epoch, epoch + 1} \cap Epochs
        /\ reloaded' = FALSE
        /\ \E due \in {<<>>, held} :
            /\ \A k \in DOMAIN due : due[k].epoch <= epoch'
            /\ ledger' = FoldLeft(ApplyMineYield, ledger, due \o bus)
            /\ held' = IF due = held THEN <<>> ELSE held
        /\ bus' = m.filed
        /\ cargo' = m.cargo /\ won' = m.won /\ groups' = m.groups
        /\ work' = [s \in Ships |-> Upkeep(s, m.work[s])]
        /\ live' = (here # {} \/ watched)
        /\ field' = IF live' THEN m.field ELSE Nothing
        /\ fieldEpoch' = IF live' THEN fieldEpoch ELSE 0
        /\ UNCHANGED <<hazard, watched, here, inside>>

\* A crossing ends here, at the edge of the field: the grid is there from now
\* on, and the ship has done no mining on it.  Its hold came with it.
Arrive(s) ==
    /\ s \notin here
    /\ SpinUp
    /\ live' = TRUE
    /\ here' = here \cup {s}
    /\ UNCHANGED <<hazard, epoch, watched, inside, cargo, work, groups, bus, held, reloaded, won>>

\* Mutant: an order keeps the ships that left it.
ReleasedNobody(ss) == groups

\* The members leave the orders they are under; an order without any is gone.
Leave(rest, s, ss) == IF s \in ss THEN rest ELSE Append(rest, s)
Without(g, ss) ==
    [g EXCEPT !.members = FoldLeft(LAMBDA rest, s : Leave(rest, s, ss), <<>>, @)]
KeepIfManned(rest, g) == IF g.members = <<>> THEN rest ELSE Append(rest, g)
Released(ss) ==
    FoldLeft(LAMBDA rest, g : KeepIfManned(rest, Without(g, ss)), <<>>, groups)

\* A ship leaves the grid, under an order that has replaced any other.
Depart(s) ==
    /\ s \in here
    /\ here' = here \ {s} /\ inside' = inside \ {s}
    /\ groups' = Released({s})
    /\ work' = [work EXCEPT ![s] = Idle]
    /\ UNCHANGED <<hazard, epoch, live, watched, field, fieldEpoch, cargo, ledger, bus,
                   held, reloaded, won>>

\* A station is where a hold is emptied.
Unload(s) ==
    /\ s \notin here /\ cargo[s] # [o \in Ores |-> 0]
    /\ cargo' = [cargo EXCEPT ![s] = [o \in Ores |-> 0]]
    /\ UNCHANGED <<hazard, epoch, live, watched, field, fieldEpoch, here, inside, work, groups,
                   ledger, bus, held, reloaded, won>>

\* A Mine order: it names a Miner with room, it is given the richest cluster,
\* and a field with nothing the filter accepts makes it Done on the spot.
OrderMine(ms, filter) ==
    /\ ms # <<>> /\ ToSet(ms) \subseteq here
    /\ \E s \in ToSet(ms) \cap Miners : \E o \in Ores : Volume[o] <= Room(cargo[s])
    /\ LET c == RichestCluster(field, filter)
           g == [members |-> ms, cluster |-> c, filter |-> filter, arrived |-> FALSE]
           rest == Released(ToSet(ms))
       IN  groups' = IF c = 0 THEN rest ELSE Append(rest, g)
    /\ Len(groups') <= MaxGroups
    /\ UNCHANGED <<hazard, epoch, live, watched, field, fieldEpoch, here, inside, cargo, work,
                   ledger, bus, held, reloaded, won>>

\* The group reaches its cluster, among the rocks; what is left is the work.
\* (Where a ship is only matters to radiation.)
ReachCluster(k) ==
    /\ ~groups[k].arrived
    /\ groups' = [groups EXCEPT ![k].arrived = TRUE]
    /\ inside' = IF hazard = "Radiation" THEN inside \cup Members(groups[k]) ELSE inside
    /\ UNCHANGED <<hazard, epoch, live, watched, field, fieldEpoch, here, cargo, work, ledger,
                   bus, held, reloaded, won>>

\* Any other order replaces the mining, and flies the ship out of the rocks.
OrderAway(s) ==
    /\ s \in here
    /\ groups' = Released({s})
    /\ inside' = inside \ {s}
    /\ UNCHANGED <<hazard, epoch, live, watched, field, fieldEpoch, here, cargo, work, ledger,
                   bus, held, reloaded, won>>

\* A view is opened on the grid, and given up.  The index may still place a
\* ship there that has left (Registry), so an empty grid can be asked for.
Watch ==
    /\ ~watched /\ watched' = TRUE
    /\ SpinUp /\ live' = TRUE
    /\ UNCHANGED <<hazard, epoch, here, inside, cargo, work, groups, bus, held, reloaded, won>>
Unwatch ==
    /\ watched /\ watched' = FALSE
    /\ UNCHANGED <<hazard, epoch, live, field, fieldEpoch, here, inside, cargo, work, groups,
                   ledger, bus, held, reloaded, won>>

\* The durable state is written between two ticks and loaded: the ledgers, the
\* bus and the ships at rest.  Grids spin up as ships are put back on them, in
\* the epoch of the saved tick; the host counts its ticks from zero again, so
\* the first tick after that is back in epoch 0, and a debit that was on the
\* bus waits for the tick it was due at.
Restart ==
    /\ AnyLoad \/ (bus = <<>> /\ held = <<>> /\ epoch = 0)
    /\ live' = (here # {}) /\ watched' = FALSE
    /\ field' = IF here # {} THEN Books(ledger, epoch) ELSE Nothing
    /\ fieldEpoch' = IF here # {} THEN epoch ELSE 0
    /\ ledger' = IF here # {} THEN KeptLedger ELSE ledger
    /\ work' = [s \in Ships |-> Idle] /\ groups' = <<>>
    /\ bus' = <<>> /\ held' = held \o bus /\ reloaded' = TRUE
    /\ UNCHANGED <<hazard, epoch, here, inside, cargo, won>>

\* The ships a command names, in the order of their ids.
Selections ==
    UNION {{ms \in [1..n -> Ships] : \A i, k \in 1..n : i < k => ms[i] < ms[k]} :
               n \in 1..Cardinality(Ships)}

Next ==
    \/ Tick
    \/ Watch
    \/ Unwatch
    \/ Restart
    \/ \E s \in Ships : Arrive(s) \/ Depart(s) \/ Unload(s) \/ OrderAway(s)
    \/ \E k \in DOMAIN groups : ReachCluster(k)
    \/ \E ms \in Selections, filter \in Filters : OrderMine(ms, filter)

Spec == Init /\ [][Next]_vars

-----------------------------------------------------------------------------
(* Properties. *)

\* Debits of one epoch that the bus still carries.
OfPool(rec, e, c, o) ==
    IF rec.epoch = e /\ rec.cluster = c /\ rec.ore = o THEN rec.units ELSE 0
Pending(e, c, o) == Total([k \in DOMAIN bus |-> OfPool(bus[k], e, c, o)])

\* A live grid and the book agree on every cluster and ore, once the debits on
\* the bus are counted: whatever tears the grid down or turns the calendar, the
\* rocks a wing was watching are the rocks it comes back to, and the early
\* return of ApplyMineYield has nothing to drop.
LedgerFollowsField ==
    live =>
        \A c \in Clusters, o \in Ores :
            field[c][o] + Pending(fieldEpoch, c, o) = Books(ledger, fieldEpoch)[c][o]

\* What holds took out of one epoch's pool was in it.
NothingMinedTwice ==
    \A c \in Clusters, o \in Ores : won.units[c][o] <= Pristine[won.epoch][c][o]

\* No laser is running on a ship at the heat that locks it out: the lockout
\* sheds what the hottest cycle left.
CoolWhileCycling ==
    \A s \in here : work[s].left > 0 => work[s].heat < HeatThreshold

=============================================================================
