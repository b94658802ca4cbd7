# Outpost.Frontier: formal models

Outpost.Frontier is an online space game: an authoritative shard (`GameLogic`, hosted by
`NeuronServer`), a client (`NeuronClient`), and a program (`Outpost`) that can be either or both.
This directory holds TLA+ models of the shard's and the client's state machines, the TLC runs that
check small instances of them, and TLAPS proofs of what matters most. Everything is translated from
the C++ under `src/`; `PROJECT.json` says, definition by definition, from which lines.

To check a run: `tlc -config MCRegistry.cfg MCRegistry` (any `.cfg` below, with its module). To
check the proofs: `tlapm RegistryProofs.tla`, and the same for each `...Proofs` module.

## 1. The system

One thread, the Sim thread of `ServerHost`, owns the whole shard. A turn of its loop polls the
transport (and runs every message it finds to the end), ticks the simulation, sends snapshots,
sweeps the resume table, and now and then writes the durable snapshot; a loop that is late runs up
to two more ticks at once. There are no locks in the game's state, so the hard part is not memory
but order: what two commanders' commands, a tick's phases, a crossing that lands ticks later, a
dropped socket and a crash do to each other. The client is one thread too: every frame it polls,
decides a few things on its own, and draws what it was last sent. Real threads meet in the boot task
pool only.

| Component | State | Operations | Hard behaviour | What makes it correct |
|---|---|---|---|---|
| World registry (`WorldRegistry`, `Transfer`, `Station`) | live grids, ship index, rosters, transfer bus, viewer counts | join, assign wing, undock, view, tick: apply, worlds, collect, tear down | several crossings due in one tick; teardown under viewers and arrivals; wings chosen from counts over three places | a commissioned ship is in exactly one place, keeps its owner, and the index says where |
| World orders (`WorldOrders`, `World`, `Orders`) | groups, legs, pending batch, order ids | submit, ingest, solve, advance, depart, mine | a batch checked at submit and applied later; groups that split, merge and die within it | no ship has two plans; plans fit; every order ends |
| Refining and projects (`Refining`, `WorldRegistry`) | Bay, job queue, tier and project | store, start, cancel, contribute, tick, reload | a job finishing, starting and being cancelled at once; a tier that rises under queued jobs; absolute deadlines over a restart | ore and alloy balance; slots and queue keep their bounds; jobs drain in order |
| Mining, sites, epochs (`WorldMining`, `SiteField`, `SiteEpoch`) | the live field, the ledger, debits on the bus, cycles, heat, stacks | mine, pay a yield, deplete, spin up, tear down, re-seed, save, load | one pool kept in two books; a yield of an old epoch; an order replaced inside a cycle | ore leaves a cluster once; a locked-out laser is cold before it starts again |
| Durable store (`DurableStore`) | snapshot file, journal, its header, the buffered frames | open, replay, append, flush, rotate | a crash between any two steps; a torn tail; a rename or reopen that fails; a disk that forgets | a boot brings back everything that was safe, and a prefix of what was accepted; a clean stop loses nothing |
| Server host: sessions (`ServerHost`, `SessionResume`) | sessions, resume table, holds, tokens, next player id | hello, view request, disconnect, sweep | a cut noticed late; a claim at its deadline; a Welcome that is lost | one seat a commander; holds follow sessions; a token is worth one reconnect |
| Client connection (`ClientConnection`, `SnapshotBuffer`) | link state, player, token, grid; playback clock | connect, receive, request view, poll, disconnect | stale copies of what the server decided | the client agrees with its session once nothing is in flight |
| Snapshot sender, delta receiver | acknowledged baseline, rings of views, departures carried over | keyframe, delta in parts, acknowledge, switch grid | lost, late and overtaken datagrams; a switch while acknowledgements are in flight | a delta is applied to the view it was made from; the client shows no ghost |
| Client feed (`ClientApp`, `OrderGhost`, `RoutePlan`, `AutoFollow`) | requests in flight, ghosts, the route and its next leg, the scene | a frame; order, route, look, pin | each rule reads another vintage of the truth: newest snapshot, scene, verdict, summary | legs fly in order and once; no ghost claims what the authority did not; the feed finds the fleet |
| Task pool, ring buffer, owner thread | queue, workers, wait groups | submit, help, wait, stop | nested waits, a stop during a wait, a lost wake-up | every job runs once; nobody waits for ever |
| Order and station validation | none | judge a command | the order of the checks decides which reason is reported | nothing illegal passes |
| Transports (QUIC, delayed) | connections, channels, delayed packets | send, poll, close | callbacks on other threads; two channels with different promises | control in order, state droppable |
| Durable state encoding | none | save, load | what is restored and what is dropped | a round trip |
| Universe, economy content, formations, relevance, summaries | baked tables | route, parse, place, rank | arithmetic and ties | deterministic results |
| Screens, rendering, audio | presentation only | draw | none the shard depends on | not a question of state |
| Composition root, self test, tools | wiring, viewer table, start fleets | join, hold, boot | which commander gets which home after a restart | one fleet a commander |

They interact by calls on the Sim thread (host to simulation, simulation to registry, registry to
each world and back through the transfer requests a world files), by control messages and datagrams
(client and host), and by files (host and durable store). `PROJECT.json` lists the components with
what is and is not modelled, and the hazards of each at its line.

## 2. The modules

| Module | Models | State and actions |
|---|---|---|
| `Registry` | the world registry and the seams of `Main.cpp` that call it | `grid`, `rosters`, `bus`, `locationByShip`, `ownerByShip` are the code's tables. `WorldRegistry::Tick` is four phases (idle, apply, worlds, collect), each forced by `phase`; commands run between ticks. In the worlds phase a grid may file any dock or warp request it could: the orders that lead to one are `Orders`'. A tick may end in a stop (`down`), and `Restart` is the load of what `CaptureDurableState` takes then: ships, rosters and bus come back, the index is rebuilt, views, holds, counted ids and `hostTick` start again. A crash is a stop too, since what came after the snapshot it falls back to is gone |
| `Orders` | one grid's order pipeline | `groups` is `m_groups`, `pending` the batch. A tick ingests the batch order by order, solves stale groups, advances every group, moves ships, mines. A position is a place or the space between places; a ship may arrive, stay or be held up in any tick |
| `Refinery` | one station's Bays, queue and upgrade project | one action per station command, `Tick`, and `Restart`: a clean stop with the reload that follows. `hostTick` (the host's) starts again from zero, the registry's is saved |
| `Mining` | one site: `field` of the live grid, `ledger` of the registry, `bus` of debits | `Tick` is `WorldRegistry::Tick` from the debits applied through the worlds' mining to the debits filed; orders, arrivals, views, teardown, the turn of the calendar, and a save with the load that follows |
| `DurableLog` | the abstract promise | accept, commit, stop, crash, a disk that fails, recover; no files |
| `DurableStore` | the store file by file, and its two kinds of caller | every step between which a crash can fall is an action, `Crash` is possible in each; `Faults` names what else goes wrong: renames, the reopen after rotation, a disk that loses frames. `caller` is the shard (`ServerHost` and `Main`: whole snapshots now and then and one more when it stops, no record, a clock that starts at zero in every process) or a recorder (`DurableStoreTests`: stamped records, flushes, a clock that goes on from open to open) |
| `Sessions` | sessions, resume table, holds, and the client's half of the connection | each server action is one transport event handled whole, or one turn of the tick loop (`Turn`: a tick, the sweep, then up to `MaxCatchUp` ticks that sweep nothing). A connection is two queues; a cut keeps any prefix of what was on its way to the server and loses what was on its way to the client |
| `SnapshotDelta` | `SnapshotSender` and `DeltaReceiver` over a lossy wire | `sent` and `held` are the two rings, `pending` the departures carried over. `bulk` is the reliable stream of keyframes, `parts` and `acks` are bags of datagrams that arrive in any order or never |
| `ClientFeed` | one frame of `ClientApp`, the player, and what the shard answers | `Frame` is `UpdateConnection`'s poll, auto-follow, verdicts, snapshot feedback, ghost timers, the route's next leg and the scene extracted last, in the code's order, as a chain of functions on the record `client`. The control stream is two queues; a frame may be one without a snapshot. `others` is the orders other commanders give on the same grids, whose records `Snapshot` lists among the commander's own, as `WriteTickTail` does |
| `TaskPool` | the pool of boot jobs | `queue`, `mutex`, `asleep` and `stopping` are the pool's; a thread's jobs are a stack of frames, because a waiter runs whatever is queued. One action for each step another thread can fall between |
| `RegistryProofs`, `OrdersProofs`, `SessionsProofs`, `DurableStoreProofs`, `TaskPoolProofs`, `SnapshotDeltaProofs`, `RefineryProofs`, `MiningAndFeedProofs` | | proofs about the module each is named for; the last about `Mining` and `ClientFeed`, whose proofs rest on the same lemmas on folds |
| `MC...` | | the constants of the runs |

How they meet. `Registry`'s request filing stands for any behaviour of the orders, and `Orders`'
departures are what the registry collects. `Registry` and `Sessions` meet at `ViewerOpened`,
`ViewerClosed`, `MayView` and `PlayerJoined`; `Sessions` lets `MayView` answer either way and
`Registry` lets a commander ask at any time, so each is checked against every behaviour of the
other. `Mining` takes the grid's comings and goings from `Registry` as choices (`SpinUp`,
`TearDown`), and replaces `Orders` by a commander who orders, appends or stops whenever they like.
`ClientFeed` composes the client with a small shard, which answers orders and view requests as
`ServerHost` and `WorldOrders` do; the reordering of snapshots is `SnapshotDelta`'s alone, so the
feed reads a snapshot whole or not at all.

What is abstracted. Positions are places; timers in `Orders` and `Mining` count down rather than up.
In `Refinery` one ore and one alloy stand for the several of each, since the code treats each
material by itself in a loop, and one docked ship with a hold for a selection. In `Mining` a second
is a tick. In `DurableStore` a frame is good or torn; the hash guards, the checksum's arithmetic and
a header write that reports failure are left out, and so is a caller that appends under a clock
which starts again: there is none, and the store would not keep its promise to it (section 3). In
`Sessions` a token is a number drawn once (the code's is 64 random bits). In
`SnapshotDelta` a record is the state it was last sent with, and the ranking is any choice that puts
the viewer's own first. In `ClientFeed` the commander has one fleet; another commander's order is
its number and its state, and the sixteen records a tail has room for are never too few. The undock
protection timer is in no module.

## 3. The runs

Each finishes within about two and a half minutes on two cores, most in much less. Sizes are the distinct
states found.

**registry** (`MCRegistry.cfg`, 1.3 million). Two commanders, one with two ships; two anchors, both
stations; two wings; crossings of two ticks; three ticks, with a restart possible after the second
(`StopTicks`), when grids, rosters and the bus may all hold ships;
symmetric in that commander's two ships. The third ship is the second commander's fleet, or a second
one for the first.
Three ships are the fewest at which one commander's wing can be split, docked in parts and met by
another, and three ticks carry an undock or a warp to its landing and one more step.
`ExactlyOnePlace`: a commissioned ship is neither lost nor doubled; `OwnerKept` and
`IndexPlacesShips`: its owner and its place are right; `ViewsHoldGrids`: a watched grid stays up and
holds are counted exactly; `DockFormsAWing`: a group docks as one wing of its own;
`SecondFleetOnlyMidDock`: a commander is recognised, before and after a restart, by any ship that is
on a grid, on a roster or in a warp. (That a ship in a dock does not count is the code's, see below;
the run reaches the second fleet.)

**orders** (`MCOrders.cfg`, 0.75 million). Two ships of different spool times, up to four orders,
two pending in one tick, plans of two legs, a cluster with one unit. Two in a batch is where
submit-time checks and ingest-time facts part; four orders let a group be built, split, appended to
and replaced, and let a ship come back out of the dock into a plan that kept it. The bound counts
the ids given out and those that queued appends may still need, so it never stops a tick.
Safety: `OrdersApart` (no ship in two groups, no order in two), `PlansFit`, `ShipsFlyTheirPlan` (a
plan under way is flown by some ship here, none flies a finished leg or a replaced order, and
between ticks no order but a spooling warp is left without a ship). Liveness: `EveryOrderEnds`.

**refinery** (`MCRefinery.cfg`, 0.13 million). Two commanders with different amounts, a station of
tier one that can reach two (another slot, shorter batches, a refund), queue depth one, four jobs,
four ticks, one restart. `BooksBalance` accounts for every unit of ore and alloy through start,
cancel, refund and contribution; `QueueKept` holds the slots, the queue's depth, the order of the
jobs, their deadlines and their names; `TicksFillSlots` is the action property that a tick leaves no
slot free that a job waits for.

**mining** (`MCMining.cfg`). Two Miners, two clusters of two ores, two epochs, one hold of a litre,
both hazards. `NothingMinedTwice`: holds never took more of an epoch than it had;
`LedgerFollowsField`: the live field and the ledger with its debits on the bus are one book, through
teardown, spin-up and the calendar; `CoolWhileCycling`. A site with two clusters is the smallest at
which a yield can be taken from the wrong one, and two ores of one hold make the filter and the
least-of-three matter. A load is taken here only with no debit on the bus and before the calendar
first turns (`AnyLoad = FALSE`); see `mining_restart` for what happens otherwise.

**durable_store** (`MCDurableStore.cfg`, 3.3 million) checks `Promise`, that the store implements
`DurableLog` under `accepted <- state, up <- Up`, for the shard and for a recorder, with a crash
between any two steps, renames and reopens that fail, and a disk that loses what it had, over four
outcomes and three boots: enough for a crash in a rotation, a boot from what it left, more
outcomes, another crash and the boot that tells. After a fault of the disk the promise is the weaker
one the code can keep: a boot still brings back a prefix of what was accepted. `FilesReadBack` is
the reason why, in three parts. `Covered`: while a recorder has its journal, snapshot, journal and
buffer together say exactly what it recorded; of the shard, which records nothing, and of a store
that has lost its journal, they say a beginning with all in it that was safe. `TornOnlyAtTheEnd`: no
good frame ever stands behind a torn one. `CleanStop`: a shard whose last snapshot has been tried
has all of its state on the disk, unless a snapshot has failed since the boot.

**sessions** (`MCSessions.cfg`, about 0.8 million). Two clients, three connections, two grids, two
seats, a grace of one tick, three ticks. Three connections let a client lapse, resume and come again
while another holds the second seat or is refused; the last tick number is the horizon, so that a
deadline past it has to saturate. `OneSeatEach`, `HoldsFollowSessions`, `TokensAreSpent`,
`GraceHolds`.

**snapshot_delta** (`MCSnapshotDelta.cfg`). Three ships, one the viewer's own; two grids; rings of
two ticks; a budget of two records, one in each part; room for three departures; five ticks, two
changes of the world, one view switch. Rings of two wrap within the run, and the budget is smaller
than the grid, so a ship falls out of the deltas and comes back. `ViewsAgree`: what the sender's
ring says of an acknowledged tick is what the receiver's holds, which is what makes a delta mean the
same at both ends; `ShowsTheGrid`: a view the client holds whole shows no ship that had left.

**client_feed** (`MCClientFeed.cfg`, 0.14 million). A port and a gate in one system, the far gate in
another, so that a route has two legs; three order numbers, two gestures of the player (order,
route, look elsewhere, pin). Three numbers let an order overtake or replace another, or be the
route's second leg. A second commander may give one order at the port, under the number one: the
number of the client's own first order or leg, which may be unsent, on its way, flown, over or
refused while the other's record is in the snapshots. `LegsInOrder` is an invariant that other
commanders cannot break. `PromotedMeansAnOrder` is the other: a ghost under way stands for an order
the authority accepted from this commander, *or for one another commander gave under the same
number*; the records let a client tell no more. `AcceptedLegsEnd` (an accepted leg is in the end
over for its route) and `FollowsTheFleet` (once the player leaves it alone, the feed comes to rest
where the fleet is, or says why not) are liveness.

**task_pool** (`MCTaskPool.cfg`). Six jobs, three deep, that submit and wait inside each other; none,
one or two workers; one wake-up nobody caused; the starting thread stops the pool while jobs no one
waits for are still being submitted. `WaitMeansDone`, `JobsRunOnce` (each job is in one place, and
none is left when stop returns) and the liveness property `StopReturns`.

Deadlock checking is off where the bounds end each behaviour (no more ticks, orders or connections)
and where a pool that has stopped is done. `client_feed` checks it: frames are drawn for ever.

### Fairness

- `Orders`: weak fairness of `Tick` alone, the fixed-step loop of `ServerHost::SimThread`, which
  ticks for as long as it runs. Nothing is assumed about ships arriving, ore being found or
  commanders doing anything.
- `TaskPool`: weak fairness of each worker's next step and of the starting thread's, which is the
  operating system running every thread that can run. None of the mutex: the actions hold it between
  the steps where the code does. No fairness of a job: a script is finite.
- `ClientFeed`: the shard's loop (orders, views, movement) as above; of the client, that a frame in
  which everything on the wire has arrived and the scene is drawn happens again and again, which is
  what a link that is up and a player who looks at the world give. Frames that hear nothing may come
  between, as often as they like. An order of another commander ends in the end, since the same
  tick loop runs it down (`EveryOrderEnds`); none need ever be given. The player owes nothing.

### Where the code and its words part

Three runs check one property each, taken from a comment or a design record, and TLC finds it
violated. The counterexamples are short, and each is a sequence of calls the code accepts.

- **durable_rotations**. A crash after the journal is truncated and before its header is on the disk
  leaves a store that refuses to boot (`DurableStore.cpp:400`; ADR-025 calls every step survivable).
- **mining_restart**. A save carries the debits still on the bus. The load restores them there and
  then spins the watched grid up from the ledger they have not reached
  (`WorldRegistry.cpp:2449-2523`), so the field holds ore that a ship has already, and the late
  debit takes it from the ledger but never from the field.
- **client_route_halts**. The frame that learns from the newest snapshot that a leg is over asks
  for the next one while the scene of the frame before still shows the fleet: the plan is halted by
  the pre-check, where the comment says it holds and retries (`ClientApp.cpp:3085`).

Met while modelling and describing something a reader should know, without a run of their own:

- An order appended to a group that is spooling a warp cancels the warp (`WorldOrders.cpp:642`;
  `World.h:218` says only a replacing order does).
- An order that names a ship which a Dock earlier in the same batch took keeps the ship as a member
  (`WorldOrders.cpp:690-697`; the comment at 519-524 says a group must not hold a docked id). When
  the ship undocks it belongs to a plan that it does not fly, and its holding keeps the leg open
  until the deadline. A spooling warp whose ships have all docked spools on with nobody.
- Two appends accepted in one tick for a plan with room for one: the second, at ingest, replaces the
  plan it was to extend (`WorldOrders.cpp:637`; `Validate.cpp:190`).
- A Move appended to a mine order leads the miners away and they go on working the cluster from
  there: `WorldMining.cpp:157` reads arrival off the leg index.
- A cycle begun under one order and due under the next pays out of the cluster it was begun at, and
  chooses the ore by the filter of the new order (`WorldMining.cpp:183-188`; ADR-024 4b has a cycle
  take from the cluster being worked).
- A commander all of whose ships are in a dock (or an undock) crossing when the shard stops is given
  a second fleet at their first Hello after the boot: `PlayerJoined` asks `Summaries`, which leaves
  those records out (`WorldRegistry.cpp:2705-2713`), while `Main.cpp:856` says that a commander with
  ships anywhere is not new. It is not a matter of one tick: a crossing is stamped with the tick it
  applies before, the registry takes its tick from the host (`WorldRegistry.cpp:1792`), and the
  host's starts at zero (`ServerHost.h:244`). So everything on the bus at a stop, "a transfer filed
  last tick" included, waits until the new process has run as long as the old one had.
- In the same way an undock commanded between the boot and its first tick is stamped with the tick
  that was loaded, and waits as long.
- Commander ids are counted from one in every process (`ServerHost.cpp:206`) while fleets are
  durable: after a restart the first to arrive is commander one, and has that fleet. In the model
  fleets stay with the ids (`OwnerKept`); who is behind an id is not its business.
- Jobs are stored with absolute deadlines and the host's tick starts at zero in every process
  (`ServerHost.h:244`), so a running job waits its old deadline out again, which
  `RefiningTests.cpp:767` says must not happen; the site calendar goes back in the same way.
- A client that returns before the server has noticed that it was gone is made a new commander
  (`ServerHost.cpp:197`; `SessionResume.h:16`).
- The connection keeps the grid of its `Welcome` after an accepted view switch
  (`ClientConnection.cpp:348`), and auto-follow compares with it, so it never asks for the way home;
  a refused target is remembered, and an answer to the player's own request clears the request
  auto-follow has in flight.
- A keyframe makes the receiver forget every older view, because the server "will never send" a
  delta against one (`DeltaReceiver.cpp:283-287`). It may have sent some already, and an
  acknowledgement that arrives after the keyframe was sent is believed (`SnapshotSender.cpp:162`):
  such deltas are dropped, and the next acknowledgement or keyframe repairs it.
- When more ships leave than a part has room for, the sender's ring records them all as gone
  although only those named are (`SnapshotSender.cpp:204-233`); the run's `LeftRoom` is large enough
  for it not to happen.
- A snapshot's tail lists every group's client sequence number, whoever it belongs to
  (`Snapshot.cpp:93-97`), each client counts its own from one, and the ghosts are matched by that
  number alone (`OrderGhost.cpp:174`). So another commander's order promotes a ghost that the
  authority has not judged yet (`OrderGhost.h:24`: "the authority agreed"), and its record can hold
  a finished leg on its route for as long as it lasts, or end one that is not over.
  `PromotedMeansAnOrder` says what is left of the rule.
- A route's leg that the authority refuses is told to the ghosts and never to the route
  (`ClientApp.cpp:1419-1441`), which waits; `AcceptedLegsEnd` is about accepted ones for that reason.
- `DurableStore::Append` has no caller but its tests, and `Main`'s handler refuses any record. Were
  the shard to append as it stands, it would lose what it recorded: its tick starts at zero in every
  process (`ServerHost.h:244`), and replay skips a frame stamped no later than the snapshot
  (`DurableStore.cpp:549`), whose stamp may be of a longer run before. The log line at
  `ServerHost.cpp:611`, that after a snapshot that failed "the journal still covers everything since
  the last one", is not true today: there is nothing in it. That is why `Covered` asks less of the
  shard.
- A journal that cannot be reopened after rotation leaves a store that is not open, and the host
  writes no snapshot to one, nor says so (`ServerHost.cpp:584`): from then on nothing is saved, not
  even by the clean stop that "loses nothing" (`ServerHost.cpp:747`). `CleanStop` excepts it.
- A refused `RefineStart` has already made a Bay row (`WorldRegistry.cpp:2230`); the index places a
  ship in transit at the grid it left, so presence there outlives the ship (ADR-016).

## 4. What is proved

`RegistryProofs` proves, for every set of anchors, stations, commanders and ships, every division of
ships among commanders, every number of wings and every table of transit times:

| Theorem | Says |
|---|---|
| `TypeCorrect` | every reachable state is well typed |
| `NobodyIsLost`, `NobodyIsTwice` | the commissioned ships are exactly the ships that are somewhere; none is in two places |
| `ShipsAreSomewhereOnce` | both, as the run states them (`ExactlyOnePlace`) |
| `OwnersHold` | `OwnerKept`: whatever carries a ship carries its owner's number |
| `IndexAgrees` | `IndexPlacesShips`: the index names the place of every ship that is not crossing |
| `CrossingsLandOnTime` | `NoOverdueCrossing`: nothing due stays on the bus past its tick |
| `KnownByTheirShips` | `SecondFleetOnlyMidDock`, over any number of restarts |
| `WatchedGridsStay` | `ViewsHoldGrids`: holds are counted exactly, and a watched grid stays up |
| `GroupsDockAsWings` | `DockFormsAWing`: what docks together comes off the roster as one wing of its own |

They assume what the module's `ASSUME`s state: anchors are numbers, stations and the start grid are
anchors, commander ids are numbers, the `INVALID_` values are not values, fleets are disjoint blocks
of ids, there are finitely many anchors, commanders and ships, and a crossing
takes at least one tick (`TRANSFER_FLOOR_TICKS`).

The argument is one inductive invariant, `IInv`: the type, the four placement properties, and
`Housekeeping`. None of the four is inductive alone. That nobody is doubled by a landing needs to
know that the record being applied is the only place of its ships; that nobody is lost by teardown
needs `NeverTwice` for ships that are docked at the anchor whose grid goes; both need the index to
be right, since teardown sweeps it by place and a departure is stamped from it. `Housekeeping`
bounds the scratch state of a tick: ships stand only on live grids, records are marked applied only
inside the apply phase, requests wait only between the worlds and the stamping, and outside the
apply phase every record on the bus is still to come. A restart rebuilds the index from where the
ships are, so it needs that each is in one place. There is one lemma per action, and under each
one step per conjunct the action can disturb; `Init` and the steps are then combined with PTL.
The two last need no more state than that. `WatchedGridsStay` rests on lemmas about how the number
of watchers of a grid moves when one commander's view does. `GroupsDockAsWings` rests on what the
head count of a wing is in the middle of a tick: a wing that is all in the record that docks is
counted there and nowhere else, and that is `NeverTwice` again.

`OrdersProofs` proves, for any finite set of ships, any places, clocks, spools and length of plan,
and with no bound on orders but the one the constants name:

| Theorem | Says |
|---|---|
| `OrdersTyped` | every reachable state of the pipeline is well typed |
| `ShipsAnswerToOneOrder` | `OrdersApart`: one group a ship, one order an id |
| `PlansStayWithinTheirLegs` | `PlansFit`: appends of one batch never outgrow the leg array |
| `PlansAreFlown` | `ShipsFlyTheirPlan` |
| `OrdersOnlyRunDown` | `OrdersRunDown`: no step takes an order further from its end, and every tick brings each order nearer to it |

It assumes that the places are distinct, the ships finitely many and the clocks positive. The
property a reader wants, `ShipsFlyTheirPlan`, says nothing while orders are being ingested, which is
when it is at risk, so the invariant says what holds there: a plan is flown unless it is stale
(`Flown`). For that to survive a Dock or a Replace that takes ships out of a plan, a plan that has
lost a ship must be stale, which the head count alone tells: `Counted` says a solved plan was solved
for at least the ships it has, so a smaller plan with an equal count has lost nobody. `Standing`
says which orders can be under way with no leg to fly, and that such a one is unsolved, so that a
leg appended to it is never taken for one being flown. `Named` accounts for the ids of the orders
that are queued. `Parked` says a ship that has left holds, so that one that undocks into an old plan
flies nothing rather than something else.

`OrdersRunDown`, an action property stated beside its proof, is what `EveryOrderEnds` asks of a step.
What is left of an order is its legs still to be added (at most `MaxLegs`), its legs still to be
flown, its stage (flying, working or spooling, over) and its clock, in that order: the leg's
deadline, the spool, the linger, or the ore of the field for a group that mines. A step may leave
all of it as it is; the end of a tick may not. That needs every clock to be running when the tick
winds it (`OnTheClock`): an unsolved leg, a finished spool or a spent linger would stand still, and
the solve, the departures and the retirements each see to one of them. A number that comes down
with every tick reaches its end, so what the property leaves to the run is that ticks go on.

`SessionsProofs` proves, for any clients, grids, number of seats, grace and horizon:

| Theorem | Says |
|---|---|
| `SessionsTyped` | every reachable state of server, clients and wires is well typed |
| `SeatsAreApart` | `OneSeatEach`: a commander has one seat, and a seat one commander |
| `HoldsAreSessions` | `HoldsFollowSessions`: viewers held are exactly those of the sessions |
| `SpentForGood` | `TokensAreSpent`: whoever offers a token a second time is seated as a stranger |
| `GraceIsKept` | `GraceHolds`: a row is claimed by its deadline or given up after it, and the grid is kept |

Its assumptions are the named ones of `Sessions` (`HomeAssumption`, `NameAssumption`,
`BoundAssumption`). The invariant adds to the two state properties what they rest on: a Hello is
only ever the first message of a connection, so that a connection is given one seat however the
wires are cut (`Wires`); the tokens of sessions, of rows and of the spent are disjoint and all below
the next to be drawn (`Minted`, `TokensApart`); and, since every connection is given one name at
most, names do not run out (`Room`, `Budget`).

`DurableStoreProofs` proves, for either caller, any set of outcomes, any faults and any number of
boots:

| Theorem | Says |
|---|---|
| `StoreTyped` | every reachable state of the files, the buffer and the clock is well typed |
| `FilesCoverTheState` | `FilesReadBack`: the files and the buffer say all a recorder has, and of the shard a beginning with all that was safe; damage is at the end only; a clean stop leaves everything safe |
| `StoreImplementsLog` | `Promise`: the store implements `DurableLog` under `accepted <- state, up <- Up` |

The invariant keeps the stamps of the frames in order and, for a recorder, neither them nor the
snapshot's ahead of its clock (`Stamped`); the shard's clock may be behind its snapshot's, which does
no harm since it has no frames (`NoRecords`). It says what the snapshot's tick has to do with the
floor a boot takes (`Floors`), and what each stage of a rotation has already done, or left when it
failed (`Stages`). `Whole` is the property one wants, that loading the snapshot and applying the
journal gives the state; it holds of a recorder while it has its journal, and cannot be kept alone,
because a crash falls where only `Beginning` holds: the good part of what is on the disk makes a
beginning of the state, not shorter than what was called safe, unless the disk has lost frames.
`Clean` is what a stop rests on: once the snapshot is replaced all is safe, and the shard's loop,
which alone adds to the state, has ended. The steps that matter are the rotation's rename, after
which every frame in the old journal must be skipped (they are stamped no later than the snapshot,
so `Newer` leaves none of them), and a recorder's append, which is later than all of them. `Newer`
picks frames by rank, so what it does to a longer journal is an induction over positions; the prover
has no use for the library's induction theorems, and the module proves by least counterexample
instead (`Least`: a set of numbers that is not empty has a least one).

`TaskPoolProofs` proves, for any finite set of jobs, whatever they submit and wait for, and any number
of workers, none included:

| Theorem | Says |
|---|---|
| `PoolTyped` | the queue, counts and stacks are well typed; no group's count goes below nothing |
| `WaitsAreForAll` | `WaitMeansDone`: a wait that has returned waited for all that was submitted |
| `EveryJobRunsOnce` | `JobsRunOnce`: a job is in one place, and all have run when `Stop` has returned |
| `PoolNeverStuck` | `NeverStuck`: until `Stop` has returned, some thread has something to do other than look again |

It assumes, besides what TLC checks with, that a job is submitted by one script and is not, by way of
others, its own ancestor (`TreeAssumption`): a job is made by the call that submits it, so this is no
more than that time goes on. The invariant follows a job through its life (`InTurn`: held by the
script that will submit it, in that script's hand, in the queue, on a stack, gone) and says that it
is in one of these places at a time. `Groups` says what the counters count: a group's, the jobs of it
that are in a hand, queued or being run; `completed`, those that are gone. `Framed` and `Placed`
describe the stacks: only the top frame of a thread is not in the middle of helping, a script is on
one stack once, and nothing on top of a job is its parent, so that a helper that meets the parent's
other children never meets the parent. `Crewed` says which threads may still take a job, and
`NothingLeft` that the last to leave leaves no work, which `Stop` relies on when it returns; with no
workers at all the starting thread is the last (`Alone`).

`NeverStuck` is the part of `StopReturns` that needs no fairness. A thread is `Idle` that waits for a
group with jobs outstanding while nothing is queued, that wants the mutex while another has it, that
sleeps, has left, or joins a worker that has not. Two more invariants exclude that all are. `Told`
says that the mutex is held only by a worker about to sleep, and that none sleeps once `Stop` has
woken them: the flag is set under the mutex, so no worker finds it down and sleeps afterwards.
`Ranked` says that the scripts can be ranked so that each is above the one that submitted it and
above those it was put on top of, by when they were begun. If every thread with a job waited in
vain, the highest of them would wait for a job that is on some stack too and ranks above it; so no
two threads hold each other's jobs, however deep they help.

`SnapshotDeltaProofs` proves, for any finite set of ships, any grids, rings, budgets and part sizes,
and every loss, delay and overtaking of datagrams:

| Theorem | Says |
|---|---|
| `DeltaTyped` | rings, wire and parts are well typed, without further hypothesis |
| `AcknowledgedViewsAgree` | `ViewsAgree`, in every behaviour in which no departure is carried over |
| `AcknowledgedViewsShowTheGrid` | `ShowsTheGrid`, in the same behaviours |
| `NoneOwed` | none is ever carried over when part zero has room for as many as there are ships |

The hypothesis is `[](pending = <<>>)`, and it is needed. A departure that part zero has no room for
is named in the next tick's delta, but the ring takes it as gone at once; a receiver that
acknowledges the tick between holds a ship that the sender's ring does not have, and both properties
fail then (section 3, *Where the code and its words part*). It is not vacuous: `NoneOwed` turns it
into a condition on a constant, which the run's constants meet. The invariant says what each
datagram under way is about: parts of one tick agree on their number and base, a base or an
acknowledgement is never about a tick of which something is still to come (`InTransit`), and what
parts name is what the sender's ring says of their tick (`Truthful`). `Encoded` is the reason why a
delta works: where base and view differ, some part under way names the ship, as long as all the
parts are still to come. `Assembling` is the same for the tick the receiver is in the middle of, for
which the parts it has and those on the way have to make up the number. `SentShows` carries
`ShowsTheGrid` on the sender's side, where it does not depend on the wire.

`RefineryProofs` proves, for any finite set of commanders, any authored content that
`ContentAssumption` allows, and any number of jobs, ticks and restarts:

| Theorem | Says |
|---|---|
| `RefineryTyped` | the state is well typed, and no Bay holds more ore than ever arrived |
| `BooksAlwaysBalance` | `BooksBalance`: no unit of ore or alloy is lost, minted or paid twice |
| `QueuesAreKept` | `QueueKept`: slots, depth, order of filing, numbers and deadlines |
| `TicksFill` | `TicksFillSlots`: after a tick nobody waits while a slot of their own is free |

It assumes that the content is sane: a higher tier has no fewer slots, a batch takes at least a
tick, a refund is a percentage of at most a hundred, a tier costs something. The books are sums over
commanders and over jobs, and most of the module is a small theory of `SumFunction`. The community
modules write a fold as a recursive function chosen by `CHOOSE`, so `SumExists` first shows that
there is such a function, and `SumPicks` that a sum does not depend on the order in which it is
taken; after that a sum over two disjoint sets, over the image of a set, of two functions added, or
with one term changed is an induction over a finite set. The library's induction theorems take an
operator that this prover cannot instantiate. `SetInduction` and `NumberInduction` say the same with
the set of the cases that are good, and come from the well-foundedness of the orders.
`SumByOwner` is what `AdvanceRefining` needs: what the commanders are each credited is together what
the jobs that are done give back. The queue rests on one thought, twice: those who start are the
newest starter and some of those ahead of it, so they fit (`StartedFits`), and those ahead of the
oldest who is left waiting have all started, so the slots are full (`StartedFills`). `IInv` adds to
the properties that a job never gives back more than was put in (`AsPriced`: the refund is floored,
and carried from the moment of pricing) and that the next number is past those on the books
(`Numbered`), which a load that recounts from the books keeps.

`MiningAndFeedProofs` proves of `Mining`, for any finite set of ships, any numbers of clusters, ores and epochs, any
yields, volumes and hazard numbers that the assumptions allow, and any number of orders:

| Theorem | Says |
|---|---|
| `MiningTyped` | the state is well typed: holds keep to their litres, orders to ships on the grid |
| `LasersRunCool` | `CoolWhileCycling`: no laser runs at the heat that locks it out |
| `NothingIsMinedTwice` | `NothingMinedTwice`, if `AnyLoad = FALSE` |
| `BooksAgree` | `LedgerFollowsField`, if `AnyLoad = FALSE` |

The first two hold of every behaviour, loads at any time included. The other two need `AnyLoad =
FALSE`, which says that a shard is loaded only with no debit on its bus and before the calendar
first turns: the code does not keep them otherwise, as `mining_restart` shows. Nothing else is
restricted: the grid may come and go, views may hold it, and the calendar may turn at any tick.

`FieldAssumption` says what a baked site is (clusters, ores and epochs are counted from their
start, pools are numbers, an ore takes some room and a cycle some units). `HazardAssumption` holds
the one authored relation the proof needs, that a lockout sheds more heat than the hottest cycle can
leave above the threshold. From it comes the bound that is inductive where `CoolWhileCycling` is
not: with a lockout of `l` ticks to go, heat is below the threshold plus `l - 1` ticks of decay, and
within a tick, between the clocks and the cooling, below the threshold plus `l` (`Cool`,
`CoolWithin`).

The books rest on two identities (`BooksInv`). What is left of the current epoch (`Left`: the field
of a live grid, the book otherwise) and what holds took out of it are together what was laid out,
and for a live grid the field and the debits on the bus are together the ledger. The rest of it
says why nothing slips between them: debits are of the field's epoch, nothing is on the bus without
a live grid, nothing was ever mined in an epoch later than the current one, so one that the calendar
lays out is untouched (`FreshEpoch`), and the bus, applied debit by debit, brings the ledger to the
field it was filed against (`Collected`): `ApplyMineYield` never meets its early return, and never
has to stop at zero.

Within a tick the fold over groups and members carries `Mid`, an invariant of a tick under way, of
which every turn of a ship (`FinishCycle`, then `StartCycle`) is one step. The folds themselves are
the first part of the module: the community modules define `FoldLeft` by a recursive function chosen
by `CHOOSE` over the subsets of the positions; `FoldSolution` and `FoldPrefixes` show that there is
such a function and that it runs over the sequence from its start, once for each of the eight folds
the proofs meet (five of `Mining`, three of `ClientFeed`), since a theorem here cannot take an
operator as its parameter.

The same module proves of `ClientFeed`, for any anchors, systems, gates and routes, any start grid,
any grace, any orders of other commanders and any number of things the commander does:

| Theorem | Says |
|---|---|
| `FeedTyped` | `FeedTypeOK`: client, session, fleet and messages are well formed; a plan waits for a number exactly while it flies, and one that is ready has a leg left to feed |
| `RouteLegsInOrder` | `LegsInOrder`: the legs of a plan reach the authority in their order, none twice |
| `GhostsPromise` | `PromotedMeansAnOrder`: a ghost under way stands for an order the authority accepted, or for one another commander gave under the same number |
| `FrameLetsGo` | `WaitsForTheRunning`: a frame with a snapshot goes on waiting for an accepted leg only if the snapshot shows that order running |

`WaitsForTheRunning` is stated beside its proof: an action property, the part of `AcceptedLegsEnd`
that needs no fairness. What remains of that property for TLC is that a frame with a snapshot comes
and that the fleet's order ends.

The proof module extends both models, so `ClientFeed` calls its parts `FeedInit`, `FeedNext`,
`FeedSpec`, `FeedTypeOK` and `feedVars`. What it assumes of the universe is `AnchorAssumption`: an
anchor is in a system, gates are paired, a route is a sequence of systems, the start grid is an
anchor. The runs evaluate it.

The invariant is `FeedInv`. `LegsInOrder` speaks of what the authority received, and a leg is on its
way through three places before that: the plan, the client's queue and the wire. So `LegsBehind`
and `FlownBehind` say that every leg sent or received under the current plan is behind the leg the
plan will feed next, or is the one it waits for, and that legs on the way come after those that
arrived; a new destination gets a plan number that no leg bears (`c.route.plan <= c.acts`).
`NoteFeedback` moves the plan on when a record ends, without knowing whether the leg was received
at all, and the invariant allows that: skipping a leg keeps the order. `Informed` says that the client's newest snapshot
and its ghosts name as running only orders that were accepted or given by others (`Known`), and
`AnswersSound` that an acceptance on the wire is of one of these. That a number not past `session.last` has been judged, which is what lets `Decided` read
silence as an end, is in `ShardSound`: accepted numbers are never past the last. A frame is a chain of
functions on the client's record, so there is one lemma per function of the chain (`TakeViewChanges`,
`AdvanceAutoFollow`, `OnVerdicts`, `OnFeedback`, `Advance`, `NoteFeedback`, `FeedRoutePlan`,
`ExtractScene`), each saying that it keeps `Sound` and what it leaves of the route; `UpdateOrders`
and `Frame` combine them.

What is only model-checked: the four liveness properties `EveryOrderEnds`, `StopReturns`,
`AcceptedLegsEnd` and `FollowsTheFleet` (of the first three the parts that need
no fairness are proved), since liveness under fairness and `ENABLED` are outside this
prover's reach, and the three properties that a run shows to be violated. Every invariant and every
action property of the passing runs is stated by a theorem.

## 5. What is not modelled

- Rendering, audio, screens, parsing, universe generation and asset tools: no state the shard's
  behaviour depends on.
- Positions, steering and formation geometry: arithmetic; `Orders` lets a ship arrive or not.
- The order of refusal reasons in validation: it decides wording, not state.
- The encoding of the durable state and of messages: round trips, tested as such.
- QUIC itself: an external library; `Sessions` and `SnapshotDelta` model the promises of its
  channels.
- The ring buffer (one producer, one consumer, two atomic indices), the playback clock (arithmetic
  on times), the approach chain of the client, fleet summaries and relevance ranking.
- The snapshot cadence of the tick loop: in `Registry` every tick of
  `StopTicks` (its bound) may be the last that was saved. A load that is refused:
  the shard does not start.

## 6. What is left

1. The snapshot cadence of the tick loop with its catch-up ticks; the durable parts of `Registry`,
   `Refinery` and `Mining` saved as one through `DurableStore`.
2. `RingBuffer`.
3. Pure algorithms against reference definitions over bounded inputs: the route search, formation
   slots, the order of refusal reasons.
