------------------------------ MODULE Refinery ------------------------------
(***************************************************************************)
(* GameLogic/WorldRegistry and Refining: one station's refinery, the Bays  *)
(* its commanders keep there, the job queue, and the upgrade project that  *)
(* everybody at the station builds together.                               *)
(*                                                                         *)
(* A station command runs whole between two ticks; WorldRegistry::Tick     *)
(* then advances the refinery by itself, whoever is online.  A clean stop  *)
(* and the boot after it are one action, Restart: the durable state is     *)
(* written and read back, and the host's own tick counter is not part of   *)
(* it (ServerHost::m_tick starts at zero, the registry's does not).        *)
(*                                                                         *)
(* One ore and one alloy stand for the five and the ten: the code treats   *)
(* each material by itself, in a loop over the enum.  One docked ship with *)
(* an ore hold stands for a commander's selection.                         *)
(***************************************************************************)
EXTENDS Integers, FiniteSets, FiniteSetsExt, Functions

CONSTANTS
    Players,      \* the commanders who use the station
    Cargo,        \* Cargo[p]: the ore aboard p's docked ship
    Stored,       \* Stored[p]: the ore p put in the Bay before that
    HoldUnits,    \* how much of the ore one hold has room for
    Batches,      \* the authored batch sizes
    OrePerUnit,   \* the recipe's input, per unit of the batch
    AlloyTier,    \* the recipe's own tier
    MaxTier,      \* REFINERY_TIER_COUNT
    AuthoredTier, \* the tier the station is baked with
    TierCap,      \* the cap of the station's security band
    RecipeCap,    \* RecipeCap[t]: the highest recipe tier t cooks
    Slots,        \* Slots[t]: jobs a commander may have running at tier t
    RefundPct,    \* RefundPct[t]: percent of the inputs tier t gives back
    JobTicks,     \* JobTicks[t][u]: what a batch of u is priced at, in ticks
    QueueDepth,   \* jobs a commander may have waiting
    ProjectCost,  \* ProjectCost[t]: alloy units that buy tier t
    MaxJobs, MaxTick, MaxRestarts   \* bounds of a run

Tiers == 1..MaxTier

ASSUME StationAssumption ==
    /\ IsFiniteSet(Players) /\ MaxTier \in Nat \ {0}
    /\ AuthoredTier \in Tiers /\ TierCap \in AuthoredTier..MaxTier
    /\ HoldUnits \in Nat
    /\ Cargo \in [Players -> 0..HoldUnits] /\ Stored \in [Players -> Nat]

ASSUME ContentAssumption ==
    /\ Batches \subseteq Nat \ {0}
    /\ OrePerUnit \in Nat \ {0}
    /\ AlloyTier \in Nat /\ RecipeCap \in [Tiers -> Nat]
    /\ Slots \in [Tiers -> Nat \ {0}]
    /\ \A t \in Tiers \ {MaxTier} : Slots[t] <= Slots[t + 1]
    /\ RefundPct \in [Tiers -> 0..100]
    /\ JobTicks \in [Tiers -> [Batches -> Nat \ {0}]]
    /\ ProjectCost \in [Tiers -> Nat \ {0}]
    /\ QueueDepth \in Nat

ASSUME BoundAssumption == {MaxJobs, MaxTick, MaxRestarts} \subseteq Nat

VARIABLES
    shardTick,  \* WorldRegistry::m_shardTick
    hostTick,   \* ServerHost::m_tick
    hold,       \* hold[p]: ore aboard p's docked ship
    bayOre,     \* bayOre[p], bayAlloy[p]: p's StationBay
    bayAlloy,
    jobs,       \* m_refineJobs
    nextJob,    \* m_nextRefineSequence
    tier,       \* TierAt(station)
    project,    \* the units in the station's row of m_projects, or NoProject
    consumed,   \* history: ore the refinery has used up
    cooked,     \* history: alloy it has made
    restarts    \* how often the shard has been restarted

clockVars == <<shardTick, hostTick, restarts>>
oreVars   == <<hold, bayOre, consumed>>
alloyVars == <<bayAlloy, cooked>>
vars == <<clockVars, oreVars, alloyVars, jobs, nextJob, tier, project>>

NoProject == -1
QUEUED == 0     \* a job's completeTick before it has one

Job == [owner : Players, sequence : Nat, units : Batches, refund : Nat,
        ticks : Nat, complete : Nat]

OreSupply == SumFunction([p \in Players |-> Cargo[p] + Stored[p]])

TypeOK ==
    /\ shardTick \in 0..MaxTick /\ hostTick \in 0..MaxTick
    /\ hold \in [Players -> 0..HoldUnits]
    /\ bayOre \in [Players -> 0..OreSupply]
    /\ bayAlloy \in [Players -> Nat]
    /\ jobs \subseteq Job
    /\ nextJob \in 1..(MaxJobs + 1)
    /\ tier \in AuthoredTier..TierCap
    /\ project \in {NoProject} \cup Nat
    /\ consumed \in 0..OreSupply /\ cooked \in Nat
    /\ restarts \in 0..MaxRestarts

Init ==
    /\ shardTick = 0 /\ hostTick = 0 /\ restarts = 0
    /\ hold = Cargo
    /\ bayOre = Stored /\ bayAlloy = [p \in Players |-> 0]
    /\ jobs = {} /\ nextJob = 1
    /\ tier = AuthoredTier /\ project = NoProject
    /\ consumed = 0 /\ cooked = 0

-----------------------------------------------------------------------------
(* The refinery's own step. *)

Running(j) == j.complete # QUEUED
JobsOf(queue, p) == {j \in queue : j.owner = p}
Input(j) == OrePerUnit * j.units

Due(queue, now) == {j \in queue : Running(j) /\ j.complete <= now}

\* The queued jobs of j's owner that were filed before it.
Ahead(queue, j) ==
    {k \in JobsOf(queue, j.owner) : ~Running(k) /\ k.sequence < j.sequence}
Behind(queue, j) ==
    {k \in JobsOf(queue, j.owner) : ~Running(k) /\ k.sequence > j.sequence}
RunningOf(queue, p) == {j \in JobsOf(queue, p) : Running(j)}

StartsForTheStation(queue, j) ==
    /\ ~Running(j)
    /\ Cardinality({k \in queue : Running(k)}) + Cardinality(Ahead(queue, j)) < Slots[tier]
StartsNewestFirst(queue, j) ==
    /\ ~Running(j)
    /\ Cardinality(RunningOf(queue, j.owner)) + Cardinality(Behind(queue, j)) < Slots[tier]
Starts(queue, j) ==
    /\ ~Running(j)
    /\ Cardinality(RunningOf(queue, j.owner)) + Cardinality(Ahead(queue, j)) < Slots[tier]

Started(queue, now) ==
    {[j EXCEPT !.complete = IF Starts(queue, j) THEN now + j.ticks ELSE @] : j \in queue}

RefundOfEverything(j) == Input(j)
Refund(j) == j.refund

Refunded(queue) == SumFunction([j \in queue |-> Refund(j)])
UnitsOf(queue) == SumFunction([j \in queue |-> j.units])

(***************************************************************************)
(* What is due is credited and leaves; then the freed slots are filled, in *)
(* the order the jobs were filed.  "ore" is the Bays before the credit.    *)
(***************************************************************************)
AdvanceRefining(queue, ore, now) ==
    LET done == Due(queue, now) IN
    /\ jobs' = Started(queue \ done, now)
    /\ bayOre' = [p \in Players |-> ore[p] + Refunded(JobsOf(done, p))]
    /\ bayAlloy' = [p \in Players |-> bayAlloy[p] + UnitsOf(JobsOf(done, p))]
    /\ consumed' = consumed + SumFunction([j \in done |-> Input(j) - j.refund])
    /\ cooked' = cooked + UnitsOf(done)

Tick ==
    /\ hostTick < MaxTick
    /\ hostTick' = hostTick + 1
    /\ shardTick' = hostTick'
    /\ AdvanceRefining(jobs, bayOre, hostTick')
    /\ UNCHANGED <<restarts, hold, nextJob, tier, project>>

-----------------------------------------------------------------------------
(***************************************************************************)
(* Station commands.  The server polls its transport before each tick, and *)
(* a session takes a round trip to open, so the first tick of a boot comes *)
(* before its first command.                                               *)
(*                                                                         *)
(* Building the view a command is judged against opens the station's       *)
(* project if it has none and the band allows another tier: every command  *)
(* does it, the refused ones too.                                          *)
(***************************************************************************)
Commanded == hostTick > 0

Opened == IF project = NoProject /\ tier < TierCap THEN 0 ELSE project

\* TransferToBay: the hold covers the amount, and a Bay has no capacity.
TransferToBay(p, units) ==
    /\ Commanded
    /\ units <= hold[p]
    /\ hold' = [hold EXCEPT ![p] = @ - units]
    /\ bayOre' = [bayOre EXCEPT ![p] = @ + units]
    /\ project' = Opened
    /\ UNCHANGED <<clockVars, consumed, alloyVars, jobs, nextJob, tier>>

\* TransferToShip: the Bay covers the amount; the hold may take less of it.
GivenWhateverFits(p, units) == units
Given(p, units) == Min({units, HoldUnits - hold[p]})

TransferToShip(p, units) ==
    /\ Commanded
    /\ units <= bayOre[p]
    /\ hold' = [hold EXCEPT ![p] = @ + Given(p, units)]
    /\ bayOre' = [bayOre EXCEPT ![p] = @ - Given(p, units)]
    /\ project' = Opened
    /\ UNCHANGED <<clockVars, consumed, alloyVars, jobs, nextJob, tier>>

Cooks == AlloyTier <= RecipeCap[tier]

HasRoom(p) == Cardinality(JobsOf(jobs, p)) < Slots[tier] + QueueDepth

\* PlanRefine: priced at the tier of the moment, and carried on the job.
Priced(p, units) ==
    [owner |-> p, sequence |-> nextJob, units |-> units,
     refund |-> (OrePerUnit * units * RefundPct[tier]) \div 100,
     ticks |-> JobTicks[tier][units], complete |-> QUEUED]

RefineStart(p, units) ==
    LET job == Priced(p, units) IN
    /\ Commanded /\ nextJob <= MaxJobs
    /\ Cooks /\ HasRoom(p)
    /\ Input(job) <= bayOre[p]
    /\ AdvanceRefining(jobs \cup {job}, [bayOre EXCEPT ![p] = @ - Input(job)], shardTick)
    /\ nextJob' = nextJob + 1
    /\ project' = Opened
    /\ UNCHANGED <<clockVars, hold, tier>>

\* RefineCancel takes back a job that has not started, inputs and all.
RefineCancel(p, job) ==
    /\ Commanded
    /\ job.owner = p /\ ~Running(job)
    /\ jobs' = jobs \ {job}
    /\ bayOre' = [bayOre EXCEPT ![p] = @ + Input(job)]
    /\ project' = Opened
    /\ UNCHANGED <<clockVars, hold, consumed, alloyVars, nextJob, tier>>

\* UpgradeProject::IsComplete.
IsComplete(units) == units >= ProjectCost[tier + 1]

Wanted == ProjectCost[tier + 1] - Opened

ProjectContribute(p, units) ==
    /\ Commanded
    /\ Opened # NoProject
    /\ units <= bayAlloy[p] /\ units <= Wanted
    /\ bayAlloy' = [bayAlloy EXCEPT ![p] = @ - units]
    /\ IF IsComplete(Opened + units)
         THEN tier' = tier + 1 /\ project' = NoProject
         ELSE tier' = tier /\ project' = Opened + units
    /\ UNCHANGED <<clockVars, oreVars, cooked, jobs, nextJob>>

\* A refused command leaves the project row behind.  (A start that is short of
\* ore also leaves its commander an empty row of m_bays, which nothing here reads.)
Refused ==
    /\ Commanded
    /\ project' = Opened
    /\ UNCHANGED <<clockVars, oreVars, alloyVars, jobs, nextJob, tier>>

StationCommand(p) ==
    \/ \E units \in 1..HoldUnits : TransferToBay(p, units) \/ TransferToShip(p, units)
    \/ \E units \in Batches : RefineStart(p, units)
    \/ \E job \in jobs : RefineCancel(p, job)
    \/ \E units \in 1..cooked : ProjectContribute(p, units)

-----------------------------------------------------------------------------
(***************************************************************************)
(* LoadDurable: everything durable comes back as it was, the job counter   *)
(* resumes past the jobs on the books, and the host counts from zero.      *)
(***************************************************************************)
NextAfterLoad == Max({0} \cup {j.sequence : j \in jobs}) + 1

Restart ==
    /\ restarts < MaxRestarts
    /\ restarts' = restarts + 1
    /\ hostTick' = 0
    /\ nextJob' = NextAfterLoad
    /\ UNCHANGED <<shardTick, oreVars, alloyVars, jobs, tier, project>>

Next ==
    \/ Tick
    \/ \E p \in Players : StationCommand(p)
    \/ Refused
    \/ Restart

Spec == Init /\ [][Next]_vars

-----------------------------------------------------------------------------
(* Properties. *)

\* Every unit of ore that ever arrived is in a hold, in a Bay, in a job that
\* has not finished, or used up: MoveOre, the debit at submission, the cancel
\* and the refund (per material, floored) between them lose and mint nothing.
OreBalances ==
    SumFunction([p \in Players |-> hold[p] + bayOre[p]])
        + SumFunction([j \in jobs |-> Input(j)]) + consumed = OreSupply

\* Every unit of alloy the refinery made is in a Bay, in the open project, or
\* in a tier that was bought at exactly its price: ProjectContribute takes no
\* unit the project would not accept, whoever completes it.
AlloyBalances ==
    SumFunction(bayAlloy)
        + (IF project = NoProject THEN 0 ELSE project)
        + SumFunctionOnSet(ProjectCost, (AuthoredTier + 1)..tier) = cooked

\* The open project always still wants something: a complete one has raised
\* the tier in the same command, so it raises it once.
ProjectStillOpen ==
    project # NoProject => tier < TierCap /\ project < ProjectCost[tier + 1]

\* The station's books: no unit is lost, minted or paid twice, whatever order the
\* commands of several commanders and the ticks come in.
BooksBalance == OreBalances /\ AlloyBalances /\ ProjectStillOpen

\* A commander never has more jobs running than the tier has slots, counting
\* those a start in the middle of a tick squeezed in.
SlotsHold ==
    \A p \in Players : Cardinality(RunningOf(jobs, p)) <= Slots[tier]

\* The queue drains in order (AdvanceRefining): no job of a commander runs
\* while one they filed earlier is still waiting.
DrainsInOrder ==
    \A j, k \in jobs :
        j.owner = k.owner /\ Running(j) /\ k.sequence < j.sequence => Running(k)

\* RefineryBusy is about your own ten: nobody gets a job past slots and depth.
QueueBounded ==
    \A p \in Players : Cardinality(JobsOf(jobs, p)) <= Slots[tier] + QueueDepth

\* A sequence is how a cancel names a job: no two live jobs share one, across
\* a restart that starts the counter again.
OneJobPerSequence ==
    \A j, k \in jobs : j.sequence = k.sequence => j = k

\* A job is gone by the tick it said it would end on.
NoOverdueJob ==
    \A j \in jobs : Running(j) => j.complete > shardTick

\* The queue of every commander: served within the tier's slots, first come first
\* served, no deeper than it may be, each job under its own number and gone in time.
QueueKept ==
    SlotsHold /\ DrainsInOrder /\ QueueBounded /\ OneJobPerSequence /\ NoOverdueJob

\* No commander waits while there is a slot free.
NoIdleSlot ==
    \A j \in jobs : ~Running(j) => Cardinality(RunningOf(jobs, j.owner)) >= Slots[tier]

\* A slot freed by a completed job, a raised tier or a restart is filled by
\* the next tick, for each commander by themselves.
TicksFillSlots == [][hostTick' > hostTick => NoIdleSlot']_vars

=============================================================================
