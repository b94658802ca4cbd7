------------------------------- MODULE Orders -------------------------------
(***************************************************************************)
(* GameLogic/World: the order pipeline of one grid.  An accepted order     *)
(* waits in the pending list until the next tick; the tick then ingests    *)
(* the list in arrival order, solves the groups whose stations are stale,  *)
(* advances every group and lets finished warps go, moves the ships, and   *)
(* mines.  The registry hears of a ship again only when it has left.       *)
(*                                                                         *)
(* Positions are places: a ship stands at the place it steers for, at some *)
(* other place, or in between ("Space").  Timers count down to zero rather *)
(* than up to a tick, which is the same comparison.                        *)
(***************************************************************************)
EXTENDS Integers, Sequences, FiniteSets

CONSTANTS
    Ships,        \* the ships an order can name
    Station,      \* where the grid's station is; a dock is judged there
    Cluster,      \* where the field's cluster is; a Mine order flies there
    Points,       \* other places a Move can name
    Space,        \* anywhere else
    Nowhere,      \* the position of a ship that is not on the grid; no target
    MaxLegs,      \* MAX_ORDER_LEGS (4 in the code)
    LegTicks,     \* a leg's deadline: estimate times factor, plus the grace
    SpoolTicks,   \* SpoolTicks[s]: the warp spool of the hull of s
    LingerTicks,  \* ORDER_DONE_LINGER_TICKS
    OreUnits,     \* units of ore in the cluster when the world spins up
    MaxOrders,    \* bound: order ids given out in a run
    MaxPending    \* bound: orders accepted between two ticks

Targets == {Station, Cluster} \cup Points

ASSUME PlaceAssumption ==
    /\ Station # Cluster
    /\ Space \notin Targets
    /\ Nowhere \notin Targets \cup {Space}

ASSUME ShipAssumption == IsFiniteSet(Ships)

ASSUME TimerAssumption ==
    /\ MaxLegs \in Nat \ {0}
    /\ LegTicks \in Nat \ {0}
    /\ SpoolTicks \in [Ships -> Nat]
    /\ LingerTicks \in Nat \ {0}
    /\ OreUnits \in Nat

VARIABLES
    phase,        \* "idle" between ticks, else the step of World::Tick to come
    pos,          \* pos[s]: the place of s, Nowhere when it has left
    guide,        \* guide[s]: the place s steers for, Nowhere when it holds
    groups,       \* m_groups
    pending,      \* m_pending
    nextOrderId,  \* m_nextOrderId
    ore,          \* what is left of the cluster
    left          \* left[s]: how s last left: "no", "docked" or "warped"

vars == <<phase, pos, guide, groups, pending, nextOrderId, ore, left>>

Kinds == {"Move", "Dock", "Warp", "Mine"}

\* An accepted order.  "lead" is the first ship the client listed: the group an
\* append joins is the lead's.
Order == [kind : Kinds, append : BOOLEAN, lead : Ships, ships : SUBSET Ships,
          place : Targets, id : Nat]

\* A group of the order table.  "fresh" is a zero legDeadlineTick, a leg that has
\* not been solved yet; "solved" is how many members it was last solved for.
Group == [id : Nat, kind : Kinds, members : SUBSET Ships, legs : Seq(Targets),
          legIndex : Nat, state : {"Underway", "Arriving", "Done"},
          fresh : BOOLEAN, deadline : Nat, solved : Nat, spool : Nat,
          linger : Nat]

TypeOK ==
    /\ phase \in {"idle", "ingest", "depart", "advance", "move"}
    /\ pos \in [Ships -> Targets \cup {Space, Nowhere}]
    /\ guide \in [Ships -> Targets \cup {Nowhere}]
    /\ groups \in SUBSET Group
    /\ pending \in Seq(Order)
    /\ nextOrderId \in Nat
    /\ ore \in Nat
    /\ left \in [Ships -> {"no", "docked", "warped"}]

Init ==
    /\ phase = "idle"
    /\ pos = [s \in Ships |-> Space]
    /\ guide = [s \in Ships |-> Nowhere]
    /\ groups = {}
    /\ pending = <<>>
    /\ nextOrderId = 1
    /\ ore = OreUnits
    /\ left = [s \in Ships |-> "no"]

-----------------------------------------------------------------------------
OnGrid == {s \in Ships : pos[s] # Nowhere}

\* FindGroupOf, as the set of what it can find.
GroupOf(s) == {g \in groups : s \in g.members}

\* A plan with a leg left to fly.
Flying(g) == g.state # "Done" /\ g.legIndex < Len(g.legs)

\* A Mine order that has reached its cluster outlives its last leg.
Working(g) == g.kind = "Mine" /\ g.state # "Done" /\ g.legIndex >= Len(g.legs)

\* ForgetShipInGroups: the ships leave every group, and a group that loses its
\* last member goes.
\* (Slips: a group is only dropped, never shrunk.)
ForgetWholeGroups(G, S) == {g \in G : g.members \ S # {}}

Forget(G, S) ==
    {g \in {[h EXCEPT !.members = @ \ S] : h \in G} : g.members # {}}

\* Done, and lingering so that snapshots can say so.  (A done order's clock is
\* read by nothing.)
Finished(g) == [g EXCEPT !.state = "Done", !.linger = LingerTicks, !.deadline = 0]

SlowestSpool(S) ==
    IF S = {} THEN 0
    ELSE CHOOSE n \in {SpoolTicks[s] : s \in S} : \A s \in S : SpoolTicks[s] <= n

-----------------------------------------------------------------------------
(* Submit: validate against the grid as it stands, and queue.              *)

\* ValidateOrder's refusals that depend on state.  queuedLegs is the length of
\* the plan the lead is flying now: the pending list is not consulted.
Accepts(o) ==
    /\ o.ships # {}
    /\ o.append => o.kind = "Move"
    /\ o.append => \A g \in GroupOf(o.lead) : Len(g.legs) < MaxLegs
    /\ o.ships \subseteq OnGrid
    /\ o.kind = "Dock" => \A s \in o.ships : pos[s] = Station

\* The ids given out, and those the queued appends may still need.
IdsPromised == nextOrderId + Cardinality({i \in DOMAIN pending : pending[i].append})

FirstOf(S) == CHOOSE s \in S : TRUE

\* An append is given no id until ingest knows whether it needs one.  (A place is
\* read of a Move only, and which ship comes first of an append only: elsewhere
\* they are fixed, to have fewer states.)
Submit(kind, append, lead, S, place) ==
    LET o == [kind |-> kind, append |-> append, lead |-> lead, ships |-> S,
              place |-> place, id |-> IF append THEN 0 ELSE nextOrderId]
    IN /\ phase = "idle"
       /\ Len(pending) < MaxPending
       /\ IdsPromised < MaxOrders
       /\ lead \in S
       /\ kind # "Move" => place = Station
       /\ ~append => lead = FirstOf(S)
       /\ Accepts(o)
       /\ pending' = Append(pending, o)
       /\ nextOrderId' = IF append THEN nextOrderId ELSE nextOrderId + 1
       /\ UNCHANGED <<phase, pos, guide, groups, ore, left>>

\* The registry lands an undocking fleet at the undock point and parks it: a
\* system order, Replace, to a berth the scan found on the ring around the
\* station, inside its dock radius or beyond it (or none, when it found none).
Undocked(S) ==
    /\ phase = "idle"
    /\ S # {}
    /\ \A s \in S : left[s] = "docked"
    /\ pos' = [s \in Ships |-> IF s \in S THEN Space ELSE pos[s]]
    /\ left' = [s \in Ships |-> IF s \in S THEN "no" ELSE left[s]]
    /\ \/ \E berth \in {Station} \cup Points :
            /\ Len(pending) < MaxPending /\ IdsPromised <= MaxOrders
            /\ pending' = Append(pending,
                 [kind |-> "Move", append |-> FALSE, lead |-> FirstOf(S), ships |-> S,
                  place |-> berth, id |-> nextOrderId])
            /\ nextOrderId' = nextOrderId + 1
       \/ UNCHANGED <<pending, nextOrderId>>
    /\ UNCHANGED <<phase, guide, groups, ore>>

-----------------------------------------------------------------------------
(* IngestOrders, one pending order a step.                                 *)

BeginTick ==
    /\ phase = "idle"
    /\ phase' = "ingest"
    /\ UNCHANGED <<pos, guide, groups, pending, nextOrderId, ore, left>>

\* TransferOut: out of the groups, then out of the world.
LeaveGrid(G, S, how) ==
    /\ groups' = Forget(G, S)
    /\ pos' = [s \in Ships |-> IF s \in S THEN Nowhere ELSE pos[s]]
    /\ guide' = [s \in Ships |-> IF s \in S THEN Nowhere ELSE guide[s]]
    /\ left' = [s \in Ships |-> IF s \in S THEN how ELSE left[s]]

\* A dock never enters the table: the fleet leaves, all at once.
IngestDock ==
    /\ phase = "ingest"
    /\ pending # <<>>
    /\ Head(pending).kind = "Dock"
    /\ LeaveGrid(groups, Head(pending).ships \cap OnGrid, "docked")
    /\ pending' = Tail(pending)
    /\ UNCHANGED <<phase, nextOrderId, ore>>

NewGroup(o, id, legs) ==
    [id |-> id, kind |-> o.kind, members |-> o.ships, legs |-> legs,
     legIndex |-> 0, state |-> "Underway", fresh |-> TRUE, deadline |-> 0,
     solved |-> 0, spool |-> 0, linger |-> 0]

\* Every other verb's group: a Move has its leg; a Mine has a leg to the cluster,
\* or is done on the spot when the field is empty; a Warp has no leg and spools
\* for as long as its slowest member takes.
GroupFor(o, id) ==
    CASE o.kind = "Move" -> NewGroup(o, id, <<o.place>>)
      [] o.kind = "Mine" /\ ore > 0 -> NewGroup(o, id, <<Cluster>>)
      [] o.kind = "Mine" /\ ore = 0 -> Finished(NewGroup(o, id, <<>>))
      [] o.kind = "Warp" -> [NewGroup(o, id, <<>>) EXCEPT
                               !.spool = SlowestSpool(o.ships \cap OnGrid)]

\* The plan an append grows: the lead's, if it has one with room.
JoinableFullOrNot(o) == {g \in GroupOf(o.lead) : o.append}
Joinable(o) == {g \in GroupOf(o.lead) : o.append /\ Len(g.legs) < MaxLegs}

\* The group keeps its id and its ships; a finished one flies again, from a leg
\* whose clock has not started.
Grown(g, place) ==
    [g EXCEPT !.legs = Append(@, place), !.state = "Underway",
              !.fresh = @ \/ g.state = "Done", !.linger = 0]

IngestAppend ==
    /\ phase = "ingest"
    /\ pending # <<>>
    /\ Joinable(Head(pending)) # {}
    /\ groups' = {IF g \in Joinable(Head(pending))
                  THEN Grown(g, Head(pending).place) ELSE g : g \in groups}
    /\ pending' = Tail(pending)
    /\ UNCHANGED <<phase, pos, guide, nextOrderId, ore, left>>

\* An append that joined nothing needs an id now; submit gave it none.
IdFor(o) == IF o.append THEN nextOrderId ELSE o.id

\* Replace, and an append with nothing to join: the members leave whatever they
\* were doing, and the order is a group of its own.
IngestPlan ==
    LET o == Head(pending)
    IN /\ phase = "ingest"
       /\ pending # <<>>
       /\ o.kind # "Dock"
       /\ Joinable(o) = {}
       /\ groups' = Forget(groups, o.ships) \cup {GroupFor(o, IdFor(o))}
       /\ guide' = [s \in Ships |-> IF o.kind = "Warp" /\ s \in o.ships
                                    THEN Nowhere ELSE guide[s]]
       /\ nextOrderId' = IF o.append THEN nextOrderId + 1 ELSE nextOrderId
       /\ pending' = Tail(pending)
       /\ UNCHANGED <<phase, pos, ore, left>>

\* ApplyLeg: the living members steer for the leg's place; a fresh leg is given
\* its deadline, and nobody living ends the order.
Solved(g) ==
    IF g.members \cap OnGrid = {} THEN Finished(g)
    ELSE [g EXCEPT !.solved = Cardinality(g.members), !.fresh = FALSE,
                   !.deadline = IF g.fresh THEN LegTicks ELSE @]

Steered(G) ==
    [s \in Ships |->
       IF s \in OnGrid /\ \E g \in G : s \in g.members
       THEN LET g == CHOOSE h \in G : s \in h.members IN g.legs[g.legIndex + 1]
       ELSE guide[s]]

\* The tail of IngestOrders solves the stale groups, and only those.
\* (By the head count alone, a finished group that flies again is not stale.)
StaleByHeadCount(g) == Flying(g) /\ g.solved # Cardinality(g.members)
Stale(g) == Flying(g) /\ (g.fresh \/ g.solved # Cardinality(g.members))

SolveStale ==
    LET stale == {g \in groups : Stale(g)}
    IN /\ phase = "ingest"
       /\ pending = <<>>
       /\ groups' = (groups \ stale) \cup {Solved(g) : g \in stale}
       /\ guide' = Steered(stale)
       /\ phase' = "depart"
       /\ UNCHANGED <<pos, pending, nextOrderId, ore, left>>

-----------------------------------------------------------------------------
(* GroupAdvance.                                                           *)

\* DepartFinishedWarps: marked done before anything is removed, then every member
\* still here goes through TransferOut.
DepartFinishedWarps ==
    LET leaving == {g \in groups :
                      g.kind = "Warp" /\ g.state # "Done" /\ g.spool = 0}
        fleet == (UNION {g.members : g \in leaving}) \cap OnGrid
    IN /\ phase = "depart"
       /\ LeaveGrid({IF g \in leaving THEN Finished(g) ELSE g : g \in groups},
                    fleet, "warped")
       /\ phase' = "advance"
       /\ UNCHANGED <<pending, nextOrderId, ore>>

Arrived(g) == \A s \in g.members \cap OnGrid : pos[s] = guide[s]

\* One group's turn: on to its next leg, or over.
NextLeg(g) == [g EXCEPT !.legIndex = @ + 1, !.fresh = TRUE, !.deadline = 0]

\* (A leg that waits for everyone, however long, is the wedge the deadline is for.)
AdvancedWithoutDeadline(g) ==
    CASE ~Flying(g) -> g
      [] Flying(g) /\ g.members \cap OnGrid = {} -> Finished(g)
      [] Flying(g) /\ g.members \cap OnGrid # {} ->
           IF ~Arrived(g) THEN [g EXCEPT !.state = "Underway"]
           ELSE IF g.legIndex + 1 < Len(g.legs)
           THEN [Solved(NextLeg(g)) EXCEPT !.state = "Arriving"]
           ELSE IF g.kind = "Mine" THEN [NextLeg(g) EXCEPT !.state = "Underway"]
           ELSE Finished(NextLeg(g))

Advanced(g) ==
    CASE ~Flying(g) -> g
      [] Flying(g) /\ g.members \cap OnGrid = {} -> Finished(g)
      [] Flying(g) /\ g.members \cap OnGrid # {} ->
           IF ~Arrived(g) /\ g.deadline > 0 THEN [g EXCEPT !.state = "Underway"]
           ELSE IF g.legIndex + 1 < Len(g.legs)
           THEN [Solved(NextLeg(g)) EXCEPT !.state = "Arriving"]
           ELSE IF g.kind = "Mine" THEN [NextLeg(g) EXCEPT !.state = "Underway"]
           ELSE Finished(NextLeg(g))

\* Retired: done, and lingered long enough.
Retired(g) == g.state = "Done" /\ g.linger = 0

GroupAdvance ==
    LET advanced == {Advanced(g) : g \in groups}
    IN /\ phase = "advance"
       /\ groups' = {g \in advanced : ~Retired(g)}
       /\ guide' = Steered({g \in advanced : g.state = "Arriving"})
       /\ phase' = "move"
       /\ UNCHANGED <<pos, pending, nextOrderId, ore, left>>

-----------------------------------------------------------------------------
(* Steering, Integrate and Separate move the ships; Mining works the field. *)

\* A ship is pushed, flies on, or reaches what it steers for.
Moved(s) ==
    IF s \notin OnGrid THEN {Nowhere}
    ELSE {pos[s], Space} \cup (IF guide[s] = Nowhere THEN {} ELSE {guide[s]})

CountDown(n) == IF n = 0 THEN 0 ELSE n - 1

Ticked(g) == [g EXCEPT !.deadline = CountDown(@), !.spool = CountDown(@),
                       !.linger = CountDown(@)]

\* The working groups with somebody here to run a laser, and what they leave.
Mining == {g \in groups : Working(g) /\ g.members \cap OnGrid # {}}
LeftAfterUnclamped(taken) == ore - taken
LeftAfter(taken) == IF ore < taken THEN 0 ELSE ore - taken

\* A working group takes a unit from the cluster a tick (its cycle is one tick
\* here), and is done when the cluster is empty, its holds are full, or nobody
\* is left to work.  Every clock runs.
EndTick ==
    /\ phase = "move"
    /\ pos' \in [Ships -> Targets \cup {Space, Nowhere}]
    /\ \A s \in Ships : pos'[s] \in Moved(s)
    /\ ore' = LeftAfter(Cardinality(Mining))
    /\ \E full \in SUBSET Mining :
         groups' = {Ticked(IF Working(g) /\ (g \in full \/ g \notin Mining \/ ore' = 0)
                           THEN Finished(g) ELSE g) : g \in groups}
    /\ phase' = "idle"
    /\ UNCHANGED <<guide, pending, nextOrderId, left>>

-----------------------------------------------------------------------------
Command ==
    \/ \E kind \in Kinds, append \in BOOLEAN, S \in SUBSET Ships, lead \in Ships,
          place \in Targets : Submit(kind, append, lead, S, place)
    \/ \E S \in SUBSET Ships : Undocked(S)

Tick ==
    \/ BeginTick
    \/ IngestDock
    \/ IngestAppend
    \/ IngestPlan
    \/ SolveStale
    \/ DepartFinishedWarps
    \/ GroupAdvance
    \/ EndTick

Next == Command \/ Tick

Spec == Init /\ [][Next]_vars

\* The host ticks every live world on a fixed step, whatever the clients do.
FairSpec == Spec /\ WF_vars(Tick)

-----------------------------------------------------------------------------
(* What must be true of it.                                                *)

\* "A ship may belong to one group at a time, or two plans would write the same
\* guidance": no interleaving of replaces, appends, docks and departures in one
\* batch leaves a ship in two groups.
OneGroupPerShip ==
    \A s \in Ships : \A g, h \in groups : s \in g.members /\ s \in h.members => g = h

\* An order is named once: no two orders, queued or running, share an id, and
\* every running one has an id the counter has given out.
OneOrderPerId ==
    /\ \A g, h \in groups : g.id = h.id => g = h
    /\ \A g \in groups : g.id \in 1..(nextOrderId - 1)
    /\ \A i \in 1..Len(pending) :
         pending[i].append \/ \A g \in groups : g.id # pending[i].id

\* So a ship answers to one order, and an order can be named by its id.
OrdersApart == OneGroupPerShip /\ OneOrderPerId

\* A plan never outgrows the leg array, however many appends one batch holds.
PlansFit == \A g \in groups : Len(g.legs) <= MaxLegs /\ g.legIndex <= Len(g.legs)

\* From the solve to the next tick a plan is being flown: some ship steers for
\* its current leg, and none for a leg that is finished or an order that was
\* replaced.  (One may hold still: it docked, an order in the same batch named it
\* all the same, and it has come out of the dock again since.)  And between ticks
\* an order under way has a ship here to carry it out, unless it is a warp, whose
\* spool is its end: orders whose ships are gone are over.
ShipsFlyTheirPlan ==
    /\ phase # "ingest" =>
         \A g \in groups : Flying(g) =>
           LET here == g.members \cap OnGrid
           IN /\ \E s \in here : guide[s] = g.legs[g.legIndex + 1]
              /\ \A s \in here : guide[s] \in {g.legs[g.legIndex + 1], Nowhere}
    /\ phase = "idle" =>
         \A g \in groups : g.state # "Done" /\ g.kind # "Warp" => g.members \cap OnGrid # {}

\* "An order never wedges, it expires" (ADR-015 section 5): whatever blocks its
\* ships, every order in the table is over and gone in the end.
EveryOrderEnds ==
    \A id \in 1..MaxOrders :
      (\E g \in groups : g.id = id) ~> ~(\E g \in groups : g.id = id)

=============================================================================
