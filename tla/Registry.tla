------------------------------ MODULE Registry ------------------------------
(***************************************************************************)
(* GameLogic/WorldRegistry: the shard's one authority on where every ship  *)
(* is.  A commissioned ship is a row of a live grid (a World), a row of a  *)
(* station roster, or a member of a record on the transfer bus; the ship   *)
(* index (location and owner by ship id) is kept beside the three.         *)
(*                                                                         *)
(* One tick of the registry is spelled as the steps WorldRegistry::Tick    *)
(* takes, in its order, each forced by "phase":                            *)
(*                                                                         *)
(*   idle -> apply -> worlds -> collect -> idle                            *)
(*                                                                         *)
(* Commands from the server (joins, views, station commands) run on the    *)
(* same thread between two ticks, so they need phase = "idle".             *)
(*                                                                         *)
(* The durable state is written right after a tick.  A process that stops, *)
(* or dies, is followed by one that loads the newest snapshot, and what    *)
(* happened after it is gone; so a stop is modelled where the snapshot is  *)
(* taken: the tick ends in "down" instead of "idle", and Restart loads.    *)
(***************************************************************************)
EXTENDS Integers, FiniteSets

CONSTANTS
    Anchors,      \* anchor ids; the worlds are kept in ascending id order
    Stations,     \* the anchors of kind Station, the ones with a roster
    StartAnchor,  \* the boot fleet's grid, held alive by the composition root
    Players,      \* commander ids
    FirstPlayer,  \* SOLE_PLAYER_ID, the commander of the boot fleet
    Ships,        \* ship ids
    Grants,       \* the fleets that may be given out
    BootGrant,    \* the fleet the shard boots with
    Fleet,        \* Fleet[g]: the block of ids AllocateShipId gives fleet g
    WingCount,    \* wings are 1..WingCount (255 in the code), 0 is "no wing"
    TransitTicks, \* TransitTicks[a][b]: ticks of a warp or jump from a to b
    MaxTick,      \* bound: the horizon of the run, in ticks of all its processes
    StopTicks,    \* bound: the ticks of that horizon a process may stop after
    NoAnchor, NoPlayer, NoRow   \* the INVALID_ values

ASSUME AnchorAssumption ==
    /\ Anchors \subseteq Nat /\ IsFiniteSet(Anchors)
    /\ Stations \subseteq Anchors
    /\ StartAnchor \in Anchors
    /\ NoAnchor \notin Anchors

ASSUME PlayerAssumption ==
    /\ Players \subseteq Nat /\ IsFiniteSet(Players)
    /\ FirstPlayer \in Players
    /\ NoPlayer \notin Players

ASSUME FleetAssumption ==
    /\ IsFiniteSet(Ships) /\ BootGrant \in Grants
    /\ Fleet \in [Grants -> SUBSET Ships]
    /\ \A g, h \in Grants : g # h => Fleet[g] \cap Fleet[h] = {}

ASSUME WingAssumption == WingCount \in Nat \ {0}

\* TRANSFER_FLOOR_TICKS: no crossing between two grids takes no time at all.
ASSUME TransitAssumption == TransitTicks \in [Anchors -> [Anchors -> Nat \ {0}]]

Wings == 0..WingCount
ASSUME RowAssumption ==
    /\ NoRow \notin Wings
    /\ NoRow \notin [wing : Wings, owner : Players \cup {NoPlayer}]

VARIABLES
    shardTick,      \* m_shardTick
    hostTick,       \* ServerHost::m_tick, from zero in every process
    phase,          \* which step of Tick runs next; "idle" between ticks
    live,           \* the anchors that have a World
    grid,           \* grid[a][s]: the wing of s on a's World, or NoRow
    rosters,        \* rosters[a][s]: [wing, owner] of s docked at a, or NoRow
    bus,            \* m_bus: the stamped transfer records
    applied,        \* records of the bus this tick has applied, not yet erased
    filed,          \* FiledTransfers of the worlds, waiting for a stamp
    arrived,        \* ships spawned onto a grid since this tick began
    locationByShip, \* m_locationByShip
    ownerByShip,    \* m_ownerByShip
    nextTransfer,   \* m_nextTransferCounter
    viewers,        \* viewers[a]: LiveWorld::viewers
    viewerGrid,     \* viewerGrid[p]: the hold the composition root keeps for p
    givenTo,        \* givenTo[g]: whom fleet g was given to, or NoPlayer
    met,            \* the commander ids this process has counted out
    ticksBefore     \* the ticks of the processes before this one

tickVars  == <<shardTick, hostTick, phase>>
placeVars == <<live, grid, rosters, bus, applied, filed, arrived>>
indexVars == <<locationByShip, ownerByShip>>
viewVars  == <<viewers, viewerGrid>>
knownVars == <<givenTo, met, ticksBefore>>
vars == <<shardTick, hostTick, phase, live, grid, rosters, bus, applied, filed,
          arrived, locationByShip, ownerByShip, nextTransfer, viewers,
          viewerGrid, givenTo, met, ticksBefore>>

Row == [wing : Wings, owner : Players \cup {NoPlayer}]

\* A stamped crossing (TransferRecord): who crosses, to or from which anchor,
\* and the tick it applies before.
Record == [id : Nat, applyTick : Nat, kind : {"Dock", "Undock", "Transit"},
           anchor : Anchors, members : [Ships -> Row \cup {NoRow}]]

\* What a world files (TransferRequest): not stamped, and no owner, because a
\* world does not know one.
Request == [from : Anchors, kind : {"Dock", "Transit"}, anchor : Anchors,
            members : [Ships -> Wings \cup {NoRow}]]

TypeOK ==
    /\ shardTick \in Nat
    /\ hostTick \in Nat
    /\ phase \in {"idle", "apply", "worlds", "collect", "down"}
    /\ live \in SUBSET Anchors
    /\ grid \in [Anchors -> [Ships -> Wings \cup {NoRow}]]
    /\ rosters \in [Anchors -> [Ships -> Row \cup {NoRow}]]
    /\ bus \in SUBSET Record
    /\ applied \in SUBSET bus
    /\ filed \in SUBSET Request
    /\ arrived \in SUBSET Ships
    /\ locationByShip \in [Ships -> Anchors \cup {NoAnchor}]
    /\ ownerByShip \in [Ships -> Players \cup {NoPlayer}]
    /\ nextTransfer \in Nat
    /\ viewers \in [Anchors -> Nat]
    /\ viewerGrid \in [Players -> Anchors \cup {NoAnchor}]
    /\ givenTo \in [Grants -> Players \cup {NoPlayer}]
    /\ met \in SUBSET Players
    /\ ticksBefore \in Nat

-----------------------------------------------------------------------------
(* The boot state: the composition root spawns the first commander's fleet *)
(* on the start grid, as its wing 1, and holds that grid alive.            *)

Init ==
    /\ shardTick = 0
    /\ hostTick = 0
    /\ phase = "idle"
    /\ live = {StartAnchor}
    /\ grid = [a \in Anchors |-> [s \in Ships |->
                 IF a = StartAnchor /\ s \in Fleet[BootGrant] THEN 1 ELSE NoRow]]
    /\ rosters = [a \in Anchors |-> [s \in Ships |-> NoRow]]
    /\ bus = {}
    /\ applied = {}
    /\ filed = {}
    /\ arrived = {}
    /\ locationByShip = [s \in Ships |->
                 IF s \in Fleet[BootGrant] THEN StartAnchor ELSE NoAnchor]
    /\ ownerByShip = [s \in Ships |->
                 IF s \in Fleet[BootGrant] THEN FirstPlayer ELSE NoPlayer]
    /\ nextTransfer = 1
    /\ viewers = [a \in Anchors |-> IF a = StartAnchor THEN 1 ELSE 0]
    /\ viewerGrid = [p \in Players |-> NoAnchor]
    /\ givenTo = [g \in Grants |-> IF g = BootGrant THEN FirstPlayer ELSE NoPlayer]
    /\ met = {}
    /\ ticksBefore = 0

-----------------------------------------------------------------------------
(* Questions the registry answers.                                         *)

ShipsOn(a) == {s \in Ships : grid[a][s] # NoRow}
DockedAt(a) == {s \in Ships : rosters[a][s] # NoRow}
MembersOf(r) == {s \in Ships : r.members[s] # NoRow}

OnGridFor(p, a) == {s \in ShipsOn(a) : ownerByShip[s] = p}
DockedFor(p, a) == {s \in DockedAt(a) : rosters[a][s].owner = p}

\* The ships commander p has been given.
FleetsOf(p) == UNION {Fleet[g] : g \in {h \in Grants : givenTo[h] = p}}

HasPresence(p, a) ==
    \E s \in Ships : locationByShip[s] = a /\ ownerByShip[s] = p

\* Summaries(p) has a row: a ship of p's on a live grid, on a roster, or in a
\* record that is a transit.  A dock or an undock gets no row.  (And what a
\* list without the bus would show.)
SummarisedGrounded(p) ==
    \/ \E a \in live : OnGridFor(p, a) # {}
    \/ \E a \in Anchors : DockedFor(p, a) # {}

Summarised(p) ==
    \/ \E a \in live : OnGridFor(p, a) # {}
    \/ \E a \in Anchors : DockedFor(p, a) # {}
    \/ \E r \in bus : /\ r.kind = "Transit"
                      /\ \E s \in MembersOf(r) : r.members[s].owner = p

\* The population as a count that overlooks the ships on the bus would have it.
WingPopulationGrounded(p, w) ==
    IF w = 0 THEN 0
    ELSE Cardinality({x \in live \X Ships :
                        grid[x[1]][x[2]] = w /\ ownerByShip[x[2]] = p})
         + Cardinality({x \in Anchors \X Ships :
                        rosters[x[1]][x[2]] = [wing |-> w, owner |-> p]})

\* Grids and rosters are walked once each; a bus record is walked whether or
\* not this tick has already applied it, because the erase comes after the loop.
WingPopulation(p, w) ==
    IF w = 0 THEN 0
    ELSE Cardinality({x \in live \X Ships :
                        grid[x[1]][x[2]] = w /\ ownerByShip[x[2]] = p})
         + Cardinality({x \in Anchors \X Ships :
                        rosters[x[1]][x[2]] = [wing |-> w, owner |-> p]})
         + Cardinality({x \in bus \X Ships :
                        x[1].members[x[2]] = [wing |-> w, owner |-> p]})

\* UnusedWingFor: the lowest wing nobody of this commander wears, or 0 when
\* every number is taken.  (A set of one, so that no choice is left open.)
UnusedWingFor(p) ==
    LET free == {w \in 1..WingCount : WingPopulation(p, w) = 0}
    IN IF free = {} THEN {0} ELSE {w \in free : \A v \in free : w <= v}

\* The wing a docking group takes: 0 means "leave the wings as they are".
WingForDockedGroup(r) ==
    LET group == MembersOf(r)
        lead  == r.members[CHOOSE s \in group : TRUE]
        uniform == \A s \in group : r.members[s].wing = lead.wing
        whole == WingPopulation(lead.owner, lead.wing) = Cardinality(group)
    IN IF group = {} \/ (uniform /\ lead.wing # 0 /\ whole)
       THEN {0}
       ELSE UnusedWingFor(lead.owner)

\* HomeAnchorFor: the start grid for the first commander; for any other, the
\* first anchor in order that is not the start grid and holds nobody's ships.
HomeAnchors(p) ==
    IF p = FirstPlayer THEN {StartAnchor}
    ELSE LET free == {a \in Anchors \ {StartAnchor} :
                        a \in live => \A s \in ShipsOn(a) : ownerByShip[s] = NoPlayer}
         IN {a \in free : \A b \in free : a <= b}

-----------------------------------------------------------------------------
(* Between ticks: what the server's message handlers call.                 *)

\* A Hello that resumes no session is given the next commander id, and ids are
\* counted from one in every process (ServerHost::m_nextPlayerId).
NextPlayer(p) ==
    /\ p \in Players \ met
    /\ \A q \in Players : q < p => q \in met

\* UniverseSimulation::PlayerJoined, for a commander the shard knows already or
\* has no grid for: nothing is spawned.
KnownPlayerJoined(p) ==
    /\ phase = "idle"
    /\ NextPlayer(p)
    /\ Summarised(p) \/ HomeAnchors(p) = {}
    /\ met' = met \cup {p}
    /\ UNCHANGED <<tickVars, placeVars, indexVars, nextTransfer, viewVars,
                   givenTo, ticksBefore>>

\* And for one with no ships to be seen: a fleet of their own, as wing 1.
NewPlayerJoined(p, g) ==
    /\ phase = "idle"
    /\ NextPlayer(p)
    /\ ~Summarised(p)
    /\ givenTo[g] = NoPlayer
    /\ \E home \in HomeAnchors(p) :
         /\ live' = live \cup {home}
         /\ grid' = [grid EXCEPT ![home] = [s \in Ships |->
                        IF s \in Fleet[g] THEN 1 ELSE @[s]]]
         /\ locationByShip' = [s \in Ships |->
                        IF s \in Fleet[g] THEN home ELSE locationByShip[s]]
    /\ ownerByShip' = [s \in Ships |-> IF s \in Fleet[g] THEN p ELSE ownerByShip[s]]
    /\ givenTo' = [givenTo EXCEPT ![g] = p]
    /\ met' = met \cup {p}
    /\ UNCHANGED <<tickVars, rosters, bus, applied, filed, arrived,
                   nextTransfer, viewVars, ticksBefore>>

\* MayView borrows the grid before it asks about presence, so even a refused
\* request spins the world up.
MayView(a) ==
    /\ phase = "idle"
    /\ live' = live \cup {a}
    /\ UNCHANGED <<tickVars, grid, rosters, bus, applied, filed, arrived,
                   indexVars, nextTransfer, viewVars, knownVars>>

\* ViewerOpened: the new grid is held before the old one is let go.  The
\* server reports it for a grid MayView allows, or for the grid a session
\* opens on, when the commander holds none.
ViewerOpened(p, a) ==
    /\ phase = "idle"
    /\ p \in met
    /\ HasPresence(p, a) \/ viewerGrid[p] = NoAnchor
    /\ viewerGrid[p] # a
    /\ live' = live \cup {a}
    /\ viewers' = [b \in Anchors |->
                     IF b = a THEN viewers[b] + 1
                     ELSE IF b = viewerGrid[p] /\ viewers[b] > 0 THEN viewers[b] - 1
                     ELSE viewers[b]]
    /\ viewerGrid' = [viewerGrid EXCEPT ![p] = a]
    /\ UNCHANGED <<tickVars, grid, rosters, bus, applied, filed, arrived,
                   indexVars, nextTransfer, knownVars>>

\* ViewerClosed: the session's socket is gone.
ViewerClosed(p) ==
    /\ phase = "idle"
    /\ viewerGrid[p] # NoAnchor
    /\ viewers' = [b \in Anchors |->
                     IF b = viewerGrid[p] /\ viewers[b] > 0 THEN viewers[b] - 1
                     ELSE viewers[b]]
    /\ viewerGrid' = [viewerGrid EXCEPT ![p] = NoAnchor]
    /\ UNCHANGED <<tickVars, placeVars, indexVars, nextTransfer, knownVars>>

\* SubmitStationCommand(AssignWing): the named ships, docked or on the grid;
\* the roster row is written first, the grid's only when there was no row.
\* The verb borrows the grid, so it spins the world up.
AssignWing(p, a, S, w) ==
    /\ phase = "idle"
    /\ p \in met
    /\ S # {}
    /\ S \subseteq (IF a \in Stations THEN DockedFor(p, a) ELSE {})
                   \cup (IF a \in live THEN OnGridFor(p, a) ELSE {})
    /\ rosters' = [rosters EXCEPT ![a] = [s \in Ships |->
                     IF s \in S /\ @[s] # NoRow
                     THEN [wing |-> w, owner |-> @[s].owner]
                     ELSE @[s]]]
    /\ grid' = [grid EXCEPT ![a] = [s \in Ships |->
                     IF s \in S /\ rosters[a][s] = NoRow /\ @[s] # NoRow THEN w
                     ELSE @[s]]]
    /\ live' = live \cup {a}
    /\ UNCHANGED <<tickVars, bus, applied, filed, arrived, indexVars,
                   nextTransfer, viewVars, knownVars>>

\* SubmitStationCommand(Undock): the roster rows become members of one record
\* due on the next tick.  The index is left pointing at the station.
Undock(p, a, S) ==
    /\ phase = "idle"
    /\ p \in met
    /\ a \in Stations
    /\ S # {}
    /\ S \subseteq DockedFor(p, a)
    /\ bus' = bus \cup {[id |-> nextTransfer, applyTick |-> shardTick + 1,
                         kind |-> "Undock", anchor |-> a,
                         members |-> [s \in Ships |->
                            IF s \in S THEN rosters[a][s] ELSE NoRow]]}
    /\ rosters' = [rosters EXCEPT ![a] = [s \in Ships |->
                     IF s \in S THEN NoRow ELSE @[s]]]
    /\ nextTransfer' = nextTransfer + 1
    /\ UNCHANGED <<tickVars, live, grid, applied, filed, arrived, indexVars,
                   viewVars, knownVars>>

-----------------------------------------------------------------------------
(* One tick.                                                               *)

\* The bounds.
TicksLeft == ticksBefore + hostTick < MaxTick
MayStop == ticksBefore + hostTick \in StopTicks

\* The registry takes its tick from the host, whatever its own was.
BeginTick ==
    /\ phase = "idle"
    /\ TicksLeft
    /\ hostTick' = hostTick + 1
    /\ shardTick' = hostTick'
    /\ phase' = "apply"
    /\ UNCHANGED <<placeVars, indexVars, nextTransfer, viewVars, knownVars>>

\* The bus order: by apply tick, then by id.
Before(r, q) ==
    r.applyTick < q.applyTick \/ (r.applyTick = q.applyTick /\ r.id < q.id)

Due == {r \in bus \ applied : r.applyTick <= shardTick}

IsNext(r) == r \in Due /\ \A q \in Due \ {r} : Before(r, q)

\* A dock: the group is formed into a wing, each member gets a roster row and
\* its index entry, and its location is the station.
ApplyDock(r) ==
    /\ phase = "apply"
    /\ IsNext(r)
    /\ r.kind = "Dock"
    /\ \E formed \in WingForDockedGroup(r) :
          rosters' = [rosters EXCEPT ![r.anchor] = [s \in Ships |->
              IF s \in MembersOf(r)
              THEN [wing |-> IF formed = 0 THEN r.members[s].wing ELSE formed,
                    owner |-> r.members[s].owner]
              ELSE @[s]]]
    /\ locationByShip' = [s \in Ships |->
              IF s \in MembersOf(r) THEN r.anchor ELSE locationByShip[s]]
    /\ ownerByShip' = [s \in Ships |->
              IF s \in MembersOf(r) THEN r.members[s].owner ELSE ownerByShip[s]]
    /\ applied' = applied \cup {r}
    /\ UNCHANGED <<tickVars, live, grid, bus, filed, arrived, nextTransfer,
                   viewVars, knownVars>>

\* ApplyTransit and ApplyUndock: the members are spawned on the anchor's grid,
\* which is spun up if need be.  World::Spawn refuses an id the grid already
\* has, and then the index is not written either.
ApplyArrival(r) ==
    LET landing == MembersOf(r) \ ShipsOn(r.anchor)
    IN /\ phase = "apply"
       /\ IsNext(r)
       /\ r.kind \in {"Transit", "Undock"}
       /\ live' = live \cup {r.anchor}
       /\ grid' = [grid EXCEPT ![r.anchor] = [s \in Ships |->
                     IF s \in landing THEN r.members[s].wing ELSE @[s]]]
       /\ locationByShip' = [s \in Ships |->
                     IF s \in landing THEN r.anchor ELSE locationByShip[s]]
       /\ ownerByShip' = [s \in Ships |->
                     IF s \in landing THEN r.members[s].owner ELSE ownerByShip[s]]
       /\ arrived' = arrived \cup landing
       /\ applied' = applied \cup {r}
       /\ UNCHANGED <<tickVars, rosters, bus, filed, nextTransfer, viewVars,
                      knownVars>>

\* Two slips of the erase: the marks are not cleared, the records stay.
EraseAppliedKeepingMarks ==
    /\ phase = "apply"
    /\ Due = {}
    /\ bus' = bus \ applied
    /\ phase' = "worlds"
    /\ UNCHANGED <<shardTick, hostTick, live, grid, rosters, applied, filed, arrived,
                   indexVars, nextTransfer, viewVars, knownVars>>

EraseNothing ==
    /\ phase = "apply"
    /\ Due = {}
    /\ applied' = {}
    /\ phase' = "worlds"
    /\ UNCHANGED <<shardTick, hostTick, live, grid, rosters, bus, filed, arrived,
                   indexVars, nextTransfer, viewVars, knownVars>>

\* The end of ApplyDueTransfers: what was applied leaves the bus.
EraseApplied ==
    /\ phase = "apply"
    /\ Due = {}
    /\ bus' = bus \ applied
    /\ applied' = {}
    /\ phase' = "worlds"
    /\ UNCHANGED <<shardTick, hostTick, live, grid, rosters, filed, arrived, indexVars,
                   nextTransfer, viewVars, knownVars>>

\* A live world's tick lets a group go: TransferOut despawns every member and
\* the request is filed.  Which orders stand is the world's business (module
\* Orders); here they are any group of one commander's ships, since the
\* composition root refuses an order that names somebody else's, and of one who
\* has joined, since no order is durable.  A ship that arrived in this very tick
\* has no order yet.
File(a, kind, to, S) ==
    /\ phase = "worlds"
    /\ a \in live
    /\ S # {}
    /\ S \subseteq ShipsOn(a) \ arrived
    /\ \E p \in met : \A s \in S : ownerByShip[s] = p
    /\ \/ kind = "Dock" /\ a \in Stations /\ to = a
       \/ kind = "Transit" /\ to # a
    /\ filed' = filed \cup {[from |-> a, kind |-> kind, anchor |-> to,
                             members |-> [s \in Ships |->
                                IF s \in S THEN grid[a][s] ELSE NoRow]]}
    /\ grid' = [grid EXCEPT ![a] = [s \in Ships |->
                  IF s \in S THEN NoRow ELSE @[s]]]
    /\ UNCHANGED <<tickVars, live, rosters, bus, applied, arrived, indexVars,
                   nextTransfer, viewVars, knownVars>>

EndWorlds ==
    /\ phase = "worlds"
    /\ phase' = "collect"
    /\ UNCHANGED <<shardTick, hostTick, placeVars, indexVars, nextTransfer, viewVars,
                   knownVars>>

\* The stamp of a request: an id, the tick it applies before, and each member's
\* owner out of the index.  (The sole commander's stamp is the rule the shard
\* had while there was one.)
StampSolePlayer(q) ==
    [id |-> nextTransfer,
     applyTick |-> IF q.kind = "Transit"
                   THEN shardTick + TransitTicks[q.from][q.anchor]
                   ELSE shardTick + 1,
     kind |-> q.kind, anchor |-> q.anchor,
     members |-> [s \in Ships |->
        IF q.members[s] = NoRow THEN NoRow
        ELSE [wing |-> q.members[s], owner |-> FirstPlayer]]]

Stamp(q) ==
    [id |-> nextTransfer,
     applyTick |-> IF q.kind = "Transit"
                   THEN shardTick + TransitTicks[q.from][q.anchor]
                   ELSE shardTick + 1,
     kind |-> q.kind, anchor |-> q.anchor,
     members |-> [s \in Ships |->
        IF q.members[s] = NoRow THEN NoRow
        ELSE [wing |-> q.members[s], owner |-> ownerByShip[s]]]]

\* CollectFiledTransfers stamps each request in world order (a world's docks
\* are filed before its transits).
Collect(q) ==
    /\ phase = "collect"
    /\ q \in filed
    /\ \A o \in filed : \/ q.from < o.from
                        \/ /\ q.from = o.from
                           /\ o.kind = "Dock" => q.kind = "Dock"
    /\ bus' = bus \cup {Stamp(q)}
    /\ nextTransfer' = nextTransfer + 1
    /\ filed' = filed \ {q}
    /\ UNCHANGED <<tickVars, live, grid, rosters, applied, arrived, indexVars,
                   viewVars, knownVars>>

\* The grids TearDownIdle lets go of: no ships and nobody watching; and what
\* the first half of the test alone would let go of.
IdleWhoeverWatches == {a \in live : ShipsOn(a) = {}}
Idle == {a \in live : ShipsOn(a) = {} /\ viewers[a] = 0}

\* The index forgets every ship it still places on such a grid, except the ones
\* docked there (a sweep that is not around the roster would take them along).
ForgottenWithDocked == {s \in Ships : locationByShip[s] \in Idle}
Forgotten == {s \in Ships : /\ locationByShip[s] \in Idle
                            /\ s \notin DockedAt(locationByShip[s])}

\* Worlds forget; and the tick is over, for this process perhaps the last one
\* that is saved.
TearDownIdle ==
    /\ phase = "collect"
    /\ filed = {}
    /\ live' = live \ Idle
    /\ grid' = [a \in Anchors |-> IF a \in Idle THEN [s \in Ships |-> NoRow]
                                  ELSE grid[a]]
    /\ locationByShip' = [s \in Ships |->
          IF s \in Forgotten THEN NoAnchor ELSE locationByShip[s]]
    /\ ownerByShip' = [s \in Ships |->
          IF s \in Forgotten THEN NoPlayer ELSE ownerByShip[s]]
    /\ arrived' = {}
    /\ phase' \in IF MayStop THEN {"idle", "down"} ELSE {"idle"}
    /\ UNCHANGED <<shardTick, hostTick, rosters, bus, applied, filed, nextTransfer,
                   viewVars, knownVars>>

-----------------------------------------------------------------------------
(* A restart: what CaptureDurableState took and LoadDurable puts back.     *)

\* Where a loaded ship stands: the grid it was saved on, the roster it is in.
PlacesOf(s) == {a \in Anchors : s \in ShipsOn(a) \cup DockedAt(a)}

\* The index is filled from both; of ships on the bus it knows nothing.
LoadedLocation(s) ==
    IF PlacesOf(s) = {} THEN NoAnchor ELSE CHOOSE a \in PlacesOf(s) : TRUE

\* A grid's ship is saved with the owner the index has, a roster row has its own.
LoadedOwner(s) ==
    IF PlacesOf(s) = {} THEN NoPlayer
    ELSE LET a == CHOOSE b \in PlacesOf(s) : TRUE
         IN IF s \in ShipsOn(a) THEN ownerByShip[s] ELSE rosters[a][s].owner

\* Ships come back on their grids and rosters, records on the bus, the transfer
\* counter past them.  Views, holds, counted ids and the host's tick do not.
Restart ==
    /\ phase = "down"
    /\ ticksBefore' = ticksBefore + hostTick
    /\ hostTick' = 0
    /\ phase' = "idle"
    /\ live' = {StartAnchor} \cup {a \in Anchors : ShipsOn(a) # {}}
    /\ locationByShip' = [s \in Ships |-> LoadedLocation(s)]
    /\ ownerByShip' = [s \in Ships |-> LoadedOwner(s)]
    /\ \E highest \in {0} \cup {r.id : r \in bus} :
         /\ \A r \in bus : r.id <= highest
         /\ nextTransfer' = highest + 1
    /\ viewers' = [a \in Anchors |-> IF a = StartAnchor THEN 1 ELSE 0]
    /\ viewerGrid' = [p \in Players |-> NoAnchor]
    /\ met' = {}
    /\ UNCHANGED <<shardTick, grid, rosters, bus, applied, filed, arrived,
                   givenTo>>

-----------------------------------------------------------------------------
Command ==
    /\ phase = "idle"
    /\ \/ \E p \in Players : KnownPlayerJoined(p) \/ ViewerClosed(p)
       \/ \E p \in Players, g \in Grants : NewPlayerJoined(p, g)
       \/ \E a \in Anchors : MayView(a)
       \/ \E p \in Players, a \in Anchors : ViewerOpened(p, a)
       \/ \E p \in met, a \in Anchors : \E S \in SUBSET FleetsOf(p) :
            \/ \E w \in Wings : AssignWing(p, a, S, w)
            \/ Undock(p, a, S)

Tick ==
    \/ BeginTick
    \/ \E r \in bus : ApplyDock(r) \/ ApplyArrival(r)
    \/ EraseApplied
    \/ \E a \in live, to \in Anchors, kind \in {"Dock", "Transit"} :
         \E S \in SUBSET (ShipsOn(a) \ arrived) : File(a, kind, to, S)
    \/ EndWorlds
    \/ \E q \in filed : Collect(q)
    \/ TearDownIdle

Next == Command \/ Tick \/ Restart

Spec == Init /\ [][Next]_vars

-----------------------------------------------------------------------------
(* What must be true of it.                                                *)

OnGrid(s, a) == grid[a][s] # NoRow
Docked(s, a) == rosters[a][s] # NoRow
InFlight(s, r) == r \in bus \ applied /\ r.members[s] # NoRow
Leaving(s, q) == q \in filed /\ q.members[s] # NoRow

InService == UNION {Fleet[g] : g \in {h \in Grants : givenTo[h] # NoPlayer}}

\* Nothing but a commissioned ship is anywhere, and every commissioned ship is
\* somewhere: no crossing, docking, teardown or refused spawn loses one.
NeverLost ==
    \A s \in Ships :
      s \in InService <=>
        \/ \E a \in Anchors : OnGrid(s, a) \/ Docked(s, a)
        \/ \E r \in bus : InFlight(s, r)
        \/ \E q \in filed : Leaving(s, q)

\* And in no two places at once: "a ship is docked or flying, never both"
\* (the comment in SubmitStationCommand), nor on two grids, nor in two records.
NeverTwice ==
    \A s \in Ships :
      /\ \A a \in Anchors : OnGrid(s, a) =>
           /\ \A b \in Anchors : (OnGrid(s, b) => a = b) /\ ~Docked(s, b)
           /\ \A r \in bus : ~InFlight(s, r)
           /\ \A q \in filed : ~Leaving(s, q)
      /\ \A a \in Anchors : Docked(s, a) =>
           /\ \A b \in Anchors : Docked(s, b) => a = b
           /\ \A r \in bus : ~InFlight(s, r)
           /\ \A q \in filed : ~Leaving(s, q)
      /\ \A r \in bus : InFlight(s, r) =>
           /\ \A t \in bus : InFlight(s, t) => r = t
           /\ \A q \in filed : ~Leaving(s, q)
      /\ \A q, o \in filed : Leaving(s, q) /\ Leaving(s, o) => q = o

\* So every ship in service is in exactly one place.
ExactlyOnePlace == NeverLost /\ NeverTwice

\* A ship never changes hands, whatever it crosses: the index knows the owner
\* of a ship on a grid (and of one that is just leaving), the roster row and
\* the transfer member carry it where the index may have been swept.
OwnerKept ==
    \A g \in Grants : \A s \in Fleet[g] :
      /\ \A a \in Anchors : OnGrid(s, a) => ownerByShip[s] = givenTo[g]
      /\ \A a \in Anchors : Docked(s, a) => rosters[a][s].owner = givenTo[g]
                                             /\ ownerByShip[s] = givenTo[g]
      /\ \A r \in bus : InFlight(s, r) => r.members[s].owner = givenTo[g]
      /\ \A q \in filed : Leaving(s, q) => ownerByShip[s] = givenTo[g]

\* The index places a ship where it is, so a commander has presence wherever
\* ships of theirs fly or are docked (ADR-017 section 7).
IndexPlacesShips ==
    \A s \in Ships, a \in Anchors :
      OnGrid(s, a) \/ Docked(s, a) => locationByShip[s] = a

\* A grid somebody watches is live, and holds are counted, not leaked: one for
\* each commander watching it, and the composition root's own on the start grid.
ViewsHoldGrids ==
    \A a \in Anchors :
      /\ viewers[a] = Cardinality({p \in Players : viewerGrid[p] = a})
                      + (IF a = StartAnchor THEN 1 ELSE 0)
      /\ viewers[a] > 0 => a \in live
      /\ (\E s \in Ships : OnGrid(s, a)) => a \in live

\* Between ticks no crossing is overdue: everything stamped for this tick or an
\* earlier one has landed, and nothing waits for a stamp.
NoOverdueCrossing ==
    phase = "idle" => /\ \A r \in bus : r.applyTick > shardTick
                      /\ filed = {}
                      /\ applied = {}

\* Ships that dock together come off the roster as one wing that no other ship
\* of that commander wears, unless every wing number is in use.
DockFormsAWing ==
    [][\A r \in bus :
         ApplyDock(r) =>
           \/ \E w \in 1..WingCount :
                /\ \A s \in MembersOf(r) : rosters'[r.anchor][s].wing = w
                /\ \A p \in Players : \A s \in FleetsOf(p) \ MembersOf(r) :
                     (\E m \in MembersOf(r) : m \in FleetsOf(p)) =>
                       /\ \A a \in Anchors : grid[a][s] # w
                       /\ \A a \in Anchors :
                            Docked(s, a) => rosters[a][s].wing # w
                       /\ \A t \in bus : InFlight(s, t) => t.members[s].wing # w
           \/ \A w \in 1..WingCount, s \in MembersOf(r) :
                WingPopulation(r.members[s].owner, w) > 0]_vars

\* Only a commander all of whose ships are docking or undocking is ever given a
\* second fleet.  ("A commander with ships anywhere is not new", says the comment
\* on PlayerJoined; with ships in a dock when the shard stopped, one is.)
SecondFleetOnlyMidDock ==
    [][\A p \in Players, g \in Grants :
         givenTo[g] # p /\ givenTo'[g] = p =>
           \A s \in FleetsOf(p) :
             \E r \in bus : r.kind \in {"Dock", "Undock"} /\ InFlight(s, r)]_vars

=============================================================================
