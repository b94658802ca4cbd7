----------------------------- MODULE ClientFeed -----------------------------
(***************************************************************************)
(* NeuronClient/ClientApp: what one commander's client does on its own     *)
(* between the player's gestures.  Every frame it polls the network, lets  *)
(* auto-follow point the feed at the fleet, reconciles the order ghosts    *)
(* with the authority's answers, feeds the next leg of a multi-hop route,  *)
(* and extracts the scene -- in that order, so that everything before the  *)
(* last step reasons about the scene of an earlier frame.                  *)
(*                                                                         *)
(* The commander has one fleet.  Other commanders give orders on the same  *)
(* grids, of which the snapshot's tail shows the number and the state; a   *)
(* client counts its own orders from one and matches records by the number *)
(* alone.  A snapshot is read off the shard at the frame it arrives in, so *)
(* a lost one is a frame without one; SnapshotDelta is where snapshots are *)
(* reordered.  The control stream is a pair of queues.  Screens, toasts,   *)
(* audio, the approach chain and the tail's limit of sixteen records are   *)
(* left out.                                                               *)
(***************************************************************************)
EXTENDS Integers, FiniteSets, Sequences, SequencesExt

CONSTANTS
    Anchors,    \* the anchors of the universe, each with its grid
    System,     \* System[a]: the solar system of anchor a
    Pair,       \* Pair[g]: the far side of gate g, for the anchors that are gates
    RouteOf,    \* RouteOf[<<s, t>>]: the systems SolveRoute lists from s to t
    Start,      \* the grid the commander joins at
    Nowhere,    \* NO_FOLLOW_TARGET, INVALID_ROUTE_ANCHOR: no anchor
    Strangers,  \* orders that others may give, as <<grid, their client's number>>
    MaxSeq,     \* bound: sequence numbers the client spends
    MaxActs     \* bound: things the player does

ASSUME AnchorAssumption ==
    /\ Start \in Anchors /\ Nowhere \notin Anchors
    /\ DOMAIN System = Anchors
    /\ \A g \in DOMAIN Pair : g \in Anchors /\ Pair[g] \in DOMAIN Pair /\ Pair[Pair[g]] = g
    /\ LET systems == {System[a] : a \in Anchors}
       IN  \A s, t \in systems : RouteOf[<<s, t>>] \in Seq(systems)
    /\ MaxSeq \in Nat /\ MaxActs \in Nat
    /\ Strangers \subseteq Anchors \X (1..MaxSeq)

VARIABLES
    client,     \* ClientApp, with the control messages it has sent
    fleet,      \* where the fleet is, and where it is crossing to
    order,      \* the fleet's group on its grid, if it has one
    others,     \* the orders of other commanders, see Standing
    session,    \* the server's end: the grid it sends, and the highest accepted order
    answers,    \* control messages on their way to the client
    accepted,   \* history: the sequence numbers the authority accepted
    flown       \* history: the route legs it accepted, as <<plan, leg>>

feedVars == <<client, fleet, order, others, session, answers, accepted, flown>>

Seqs == 1..MaxSeq
NoRoute == [state |-> "None", legs |-> <<>>, hop |-> 1, seq |-> 0, plan |-> 0]
NoOrder == [seq |-> 0, dest |-> Nowhere, done |-> FALSE]

\* Not given; a group on its grid; a group that arrived and lingers; retired.
Standing == {"unborn", "running", "done", "gone"}

Ghost == [seq : Seqs, state : {"Pending", "UnderWay", "Rejected"}, due : BOOLEAN]
Picture == [grid : Anchors, ships : BOOLEAN, last : 0..MaxSeq,
            orders : SUBSET [seq : Seqs, finished : BOOLEAN]]
Message == [type : {"order"}, seq : Seqs, dest : Anchors \cup {Nowhere}, tag : Nat \X Nat]
           \cup [type : {"view"}, grid : Anchors]
Answer == [type : {"ack"}, seq : Seqs, ok : BOOLEAN]
          \cup [type : {"view"}, grid : Anchors, ok : BOOLEAN]
Route == [state : {"None", "Ready", "Flying", "Halted"}, legs : Seq(Anchors),
          hop : Nat \ {0}, seq : 0..MaxSeq, plan : 0..MaxActs]
Client == [nextSeq : 1..MaxSeq + 1, acts : 0..MaxActs, out : Seq(Message),
           view : Picture, trail : BOOLEAN, scene : BOOLEAN,
           block : [anchor : Anchors, crossing : BOOLEAN],
           requested : Anchors \cup {Nowhere}, refused : Anchors \cup {Nowhere},
           settling : BOOLEAN, pinned : BOOLEAN, ghosts : SUBSET Ghost, route : Route]

FeedTypeOK ==
    /\ client \in Client
    /\ (client.route.state = "Flying") = (client.route.seq # 0)
    /\ client.route.state = "Ready" => client.route.hop <= Len(client.route.legs)
    /\ answers \in Seq(Answer)
    /\ fleet \in [at : Anchors, to : Anchors \cup {Nowhere}]
    /\ order \in [seq : 0..MaxSeq, dest : Anchors \cup {Nowhere}, done : BOOLEAN]
    /\ others \in [Strangers -> Standing]
    /\ session \in [grid : Anchors, last : 0..MaxSeq]
    /\ accepted \subseteq Seqs /\ flown \in Seq(Nat \X Nat)

-----------------------------------------------------------------------------
(* The universe, as both halves ask about it.                              *)

Crossing == fleet.to # Nowhere

\* The system's other anchors, and the far side when the grid is a gate.
ReachableAnchors(a) ==
    {b \in Anchors \ {a} : System[b] = System[a]} \cup {Pair[g] : g \in {a} \cap DOMAIN Pair}

\* The gate of one system that leads to another, if there is one.
GateAnchorTowards(s, t) ==
    LET gates == {g \in DOMAIN Pair : System[g] = s /\ System[Pair[g]] = t}
    IN  IF gates = {} THEN Nowhere ELSE CHOOSE g \in gates : TRUE

\* Two orders a hop: to the gate on this side unless the fleet stands there, then
\* through it.  Without a gate the plan is refused whole.
Hop(plan, next) ==
    LET g == IF plan.at = Nowhere THEN Nowhere ELSE GateAnchorTowards(System[plan.at], next)
    IN  IF g = Nowhere THEN [at |-> Nowhere, legs |-> <<>>]
        ELSE [at   |-> Pair[g],
              legs |-> plan.legs \o (IF plan.at = g THEN <<>> ELSE <<g>>) \o <<Pair[g]>>]

Hops(plan, route) == FoldLeft(Hop, plan, route)

\* No plan for a system that is out of reach, or the one the feed is in.
BuildRoutePlan(from, to) ==
    LET route == RouteOf[<<System[from], to>>]
    IN  IF Len(route) < 2 THEN <<>>
        ELSE Hops([at |-> from, legs |-> <<>>], Tail(route)).legs

\* The newest frame of the grid the server sends: WriteEntities and WriteTickTail.
\* The tail lists every group of the grid; its high-water mark is the commander's.
FleetIsThere == fleet.at = session.grid /\ ~Crossing
OwnRecords ==
    IF FleetIsThere /\ order # NoOrder THEN {[seq |-> order.seq, finished |-> order.done]}
    ELSE {}
Listed == {s \in Strangers : s[1] = session.grid /\ others[s] \in {"running", "done"}}
OtherRecords == {[seq |-> s[2], finished |-> others[s] = "done"] : s \in Listed}

Snapshot == [grid |-> session.grid, ships |-> FleetIsThere, last |-> session.last,
             orders |-> OwnRecords \cup OtherRecords]

\* A crossing is named by where it is going.
Summary == [anchor |-> IF Crossing THEN fleet.to ELSE fleet.at, crossing |-> Crossing]

FeedInit ==
    /\ fleet = [at |-> Start, to |-> Nowhere]
    /\ order = NoOrder /\ others = [s \in Strangers |-> "unborn"]
    /\ session = [grid |-> Start, last |-> 0]
    /\ answers = <<>> /\ accepted = {} /\ flown = <<>>
    /\ client = [nextSeq |-> 1, acts |-> 0, out |-> <<>>,
                 view |-> Snapshot, trail |-> TRUE, scene |-> TRUE, block |-> Summary,
                 requested |-> Nowhere, refused |-> Nowhere, settling |-> FALSE,
                 pinned |-> FALSE, ghosts |-> {}, route |-> NoRoute]

-----------------------------------------------------------------------------
(* PollNetwork: snapshots, then summaries, then view changes.              *)

\* ReplicatedView::ApplyFrame.  A frame of another grid starts the history afresh.
ApplyFrame(c) ==
    [c EXCEPT !.trail = IF Snapshot.grid = c.view.grid THEN c.view.ships ELSE Snapshot.ships,
              !.view = Snapshot]

\* OnViewChanged, and what the loop does around it.
\* (Slips: the request is only ended by an acceptance.)
TakeViewChangeIfAccepted(c, m) ==
    IF m.type # "view" THEN c
    ELSE IF m.ok THEN [c EXCEPT !.requested = Nowhere, !.refused = Nowhere, !.ghosts = {},
                           !.settling = TRUE]
    ELSE [c EXCEPT !.refused = m.grid]

TakeViewChange(c, m) ==
    IF m.type # "view" THEN c
    ELSE IF m.ok THEN [c EXCEPT !.requested = Nowhere, !.refused = Nowhere, !.ghosts = {},
                                !.settling = TRUE]
    ELSE [c EXCEPT !.requested = Nowhere, !.refused = m.grid]

TakeViewChanges(c, heard) == FoldLeft(TakeViewChange, c, heard)

PollNetwork(c, heard, framed, summed) ==
    LET framedC == IF framed THEN ApplyFrame(c) ELSE c
        summedC == IF summed THEN [framedC EXCEPT !.block = Summary] ELSE framedC
    IN  TakeViewChanges(summedC, heard)

-----------------------------------------------------------------------------
(* UpdateHud: auto-follow.  ClientConnection::GridAnchor is set by Welcome *)
(* and by nothing else, so "here" is the grid the commander joined at.     *)

FollowTarget(c) ==
    IF c.block.anchor \in {Start, c.refused} \/ c.block.crossing THEN Nowhere
    ELSE c.block.anchor

AdvanceAutoFollow(c) ==
    IF c.settling \/ c.requested # Nowhere \/ c.pinned \/ FollowTarget(c) = Nowhere THEN c
    ELSE [c EXCEPT !.requested = FollowTarget(c),
                   !.out = Append(@, [type |-> "view", grid |-> FollowTarget(c)])]

-----------------------------------------------------------------------------
(* UpdateOrders: verdicts, feedback, the ghosts' timers, the route.        *)

\* OrderGhostList::OnVerdict and Refuse.  A bouncing ghost hears nothing more.
\* (Slips: any answer promotes.)
OnVerdictOfAnyKind(c, m) ==
    IF m.type # "ack" THEN c
    ELSE [c EXCEPT !.ghosts = {IF g.seq # m.seq THEN g ELSE [g EXCEPT !.state = "UnderWay"]
                               : g \in @}]

OnVerdict(c, m) ==
    IF m.type # "ack" THEN c
    ELSE [c EXCEPT !.ghosts =
            {IF g.seq # m.seq \/ g.state = "Rejected" THEN g
             ELSE [g EXCEPT !.state = IF m.ok THEN "UnderWay" ELSE "Rejected"] : g \in @}]

OnVerdicts(c, heard) == FoldLeft(OnVerdict, c, heard)

Reports(c, seq) == {o \in c.view.orders : o.seq = seq}
Decided(c, seq) == Reports(c, seq) = {} /\ seq <= c.view.last

\* The first record with the number decides, and the tail has the live ones first.
Finished(c, seq) == Reports(c, seq) # {} /\ \A o \in Reports(c, seq) : o.finished

\* OnFeedback: what the newest snapshot says is running.  A decided order that is
\* not running opens the grace if its ghost was never promoted.
OnFeedback(c) ==
    LET settled == {g \in c.ghosts : g.state # "Rejected" /\
                      (Finished(c, g.seq) \/ (g.state = "UnderWay" /\ Decided(c, g.seq)))}
    IN  [c EXCEPT !.ghosts =
           {IF g.state = "Rejected" THEN g
            ELSE IF Reports(c, g.seq) # {} THEN [g EXCEPT !.state = "UnderWay"]
            ELSE [g EXCEPT !.due = @ \/ Decided(c, g.seq)] : g \in @ \ settled}]

\* Advance: the bounce, the grace and the five seconds of a silent link.
Advance(c, late) ==
    IF late THEN [c EXCEPT !.ghosts = {g \in @ : g.state = "UnderWay"}] ELSE c

\* RoutePlan::NoteFeedback.  Finished in a record, or in no record and passed by
\* the high-water mark: the leg is over.
\* (Slips: a leg whose record has gone is still waited for.)
OverWhenSeen(c) == Finished(c, c.route.seq)
LegOver(c) == Finished(c, c.route.seq) \/ Decided(c, c.route.seq)

\* (Slips: the number of the leg that is over is kept.)
NoteFeedbackKeepingIt(c) ==
    IF c.route.state # "Flying" \/ ~LegOver(c) THEN c
    ELSE [c EXCEPT !.route =
            [c.route EXCEPT !.hop = @ + 1,
                            !.state = IF c.route.hop < Len(c.route.legs) THEN "Ready" ELSE "None"]]

NoteFeedback(c) ==
    IF c.route.state # "Flying" \/ ~LegOver(c) THEN c
    ELSE [c EXCEPT !.route =
            [c.route EXCEPT !.hop = @ + 1, !.seq = 0,
                            !.state = IF c.route.hop < Len(c.route.legs) THEN "Ready" ELSE "None"]]

\* The world view's pre-check of an order for the fleet: the ships of the scene, the
\* anchors reachable from the grid of the newest frame.  A Move names no anchor.
PreCheck(c, dest) == c.scene /\ (dest = Nowhere \/ dest \in ReachableAnchors(c.view.grid))

SendOrder(c, dest, tag) ==
    [c EXCEPT !.nextSeq = @ + 1,
              !.out = Append(@, [type |-> "order", seq |-> c.nextSeq, dest |-> dest, tag |-> tag])]

\* (Slips: the leg is not noted as sent.)
NoteSentNever(c, seq) == c
NoteSent(c, seq) == [c EXCEPT !.route = [c.route EXCEPT !.seq = seq, !.state = "Flying"]]

\* FeedRoutePlan: held while the fleet is not in the scene, halted when the
\* pre-check refuses the leg.
FeedRoutePlan(c) ==
    LET leg == c.route.legs[c.route.hop]
    IN  IF c.route.state # "Ready" \/ ~c.scene \/ c.nextSeq > MaxSeq THEN c
        ELSE IF ~PreCheck(c, leg) THEN [c EXCEPT !.route = [c.route EXCEPT !.state = "Halted"]]
        ELSE NoteSent(SendOrder(c, leg, <<c.route.plan, c.route.hop>>), c.nextSeq)

UpdateOrders(c, heard, late) ==
    FeedRoutePlan(NoteFeedback(Advance(OnFeedback(OnVerdicts(c, heard)), late)))

-----------------------------------------------------------------------------
(* ExtractScene: the ships of a moment between the last two frames held,   *)
(* the newer one once it is reached; and the end of the settle.  While a   *)
(* screen covers the world nothing is extracted, and the scene stays.      *)

Shown == {"covered", "behind", "now"}

ExtractScene(c, shown, settled) ==
    IF shown = "covered" THEN c
    ELSE [c EXCEPT !.scene = IF shown = "now" THEN c.view.ships ELSE c.trail,
                   !.settling = @ /\ ~settled]

\* One frame of the loop: what arrived, and what its clock has reached.
AfterFrame(heard, framed, summed, late, shown, settled) ==
    LET polled == PollNetwork(client, heard, framed, summed)
    IN  ExtractScene(UpdateOrders(AdvanceAutoFollow(polled), heard, late), shown, settled)

Frame(hears, framed, summed, late, shown, settled) ==
    /\ client' = AfterFrame(IF hears THEN answers ELSE <<>>, framed, summed, late, shown, settled)
    /\ answers' = IF hears THEN <<>> ELSE answers
    /\ UNCHANGED <<fleet, order, others, session, accepted, flown>>

\* Everything on the wire has arrived, and every clock has run out.
FullFrame == Frame(TRUE, TRUE, TRUE, TRUE, "now", TRUE)
FullFrameIdle == answers = <<>> /\ client = AfterFrame(<<>>, TRUE, TRUE, TRUE, "now", TRUE)

-----------------------------------------------------------------------------
(* The player, between two frames.                                         *)

MayAct == client.acts < MaxActs
Acted(c) == [c EXCEPT !.acts = @ + 1]
Plays(c) ==
    /\ client' = c
    /\ UNCHANGED <<fleet, order, others, session, answers, accepted, flown>>

\* CommitOrder and CommitAnchorOrder: the ghost first, then the pre-check.
CommitOrder(dest) ==
    /\ MayAct /\ client.scene /\ client.nextSeq <= MaxSeq
    /\ LET ghost == [seq |-> client.nextSeq, due |-> FALSE,
                     state |-> IF PreCheck(client, dest) THEN "Pending" ELSE "Rejected"]
           c == [Acted(client) EXCEPT !.ghosts = @ \cup {ghost}]
       IN  Plays(IF PreCheck(client, dest) THEN SendOrder(c, dest, <<0, 0>>)
                 ELSE [c EXCEPT !.nextSeq = @ + 1])

\* SET DESTINATION.  An old plan is dropped even when there is no new one.
SetRouteDestination(to) ==
    /\ MayAct /\ client.scene
    /\ LET legs == BuildRoutePlan(client.view.grid, to)
       IN  Plays([Acted(client) EXCEPT !.route =
                    IF legs = <<>> THEN NoRoute
                    ELSE [state |-> "Ready", legs |-> legs, hop |-> 1, seq |-> 0,
                          plan |-> client.acts + 1]])

\* The VIEW button, the fleet stepper and the map's VIEW.
RequestView(a) ==
    /\ MayAct /\ a # client.view.grid
    /\ Plays([Acted(client) EXCEPT !.out = Append(@, [type |-> "view", grid |-> a])])

TogglePin ==
    /\ MayAct
    /\ Plays([Acted(client) EXCEPT !.pinned = ~@])

-----------------------------------------------------------------------------
(* The shard.                                                              *)

\* ServerHost's order handler and ApplyOrderBytes: the fleet's grid decides, by
\* what it holds now.  Only an acceptance moves the high-water mark; the fleet
\* leaves the group it was in.
Accepts(m) == ~Crossing /\ (m.dest = Nowhere \/ m.dest \in ReachableAnchors(fleet.at))

ApplyOrder ==
    /\ client.out # <<>> /\ Head(client.out).type = "order"
    /\ LET m == Head(client.out) IN
       /\ answers' = Append(answers, [type |-> "ack", seq |-> m.seq, ok |-> Accepts(m)])
       /\ IF Accepts(m)
          THEN /\ order' = [seq |-> m.seq, dest |-> m.dest, done |-> FALSE]
               /\ session' = [session EXCEPT !.last = IF m.seq > @ THEN m.seq ELSE @]
               /\ accepted' = accepted \cup {m.seq}
               /\ flown' = IF m.tag[1] = 0 THEN flown ELSE Append(flown, m.tag)
          ELSE UNCHANGED <<order, session, accepted, flown>>
    /\ client' = [client EXCEPT !.out = Tail(@)]
    /\ UNCHANGED <<fleet, others>>

\* MayView: presence is where the index places the fleet, which for a crossing is
\* still the grid it left.
ApplyViewRequest ==
    /\ client.out # <<>> /\ Head(client.out).type = "view"
    /\ LET a == Head(client.out).grid IN
       /\ answers' = Append(answers, [type |-> "view", grid |-> a, ok |-> fleet.at = a])
       /\ session' = [session EXCEPT !.grid = IF fleet.at = a THEN a ELSE @]
    /\ client' = [client EXCEPT !.out = Tail(@)]
    /\ UNCHANGED <<fleet, order, others, accepted, flown>>

\* A Move arrives and lingers as done; in the end the group is retired.
MoveEnds ==
    /\ order # NoOrder /\ order.dest = Nowhere
    /\ order' = IF order.done THEN NoOrder ELSE [order EXCEPT !.done = TRUE]
    /\ UNCHANGED <<client, fleet, others, session, answers, accepted, flown>>

\* The spool ends: the ships leave the grid, and their group goes with them.
FleetDeparts ==
    /\ order # NoOrder /\ order.dest # Nowhere
    /\ fleet' = [fleet EXCEPT !.to = order.dest]
    /\ order' = NoOrder
    /\ UNCHANGED <<client, others, session, answers, accepted, flown>>

FleetArrives ==
    /\ Crossing
    /\ fleet' = [at |-> fleet.to, to |-> Nowhere]
    /\ UNCHANGED <<client, order, others, session, answers, accepted, flown>>

\* Another commander's order, as far as its record shows: accepted, arrived, gone.
\* One that leads off the grid is gone without having arrived.
OtherStands(s, from, to) ==
    /\ others[s] = from
    /\ others' = [others EXCEPT ![s] = to]
    /\ UNCHANGED <<client, fleet, order, session, answers, accepted, flown>>

OtherOrders(s) == OtherStands(s, "unborn", "running")
OtherArrives(s) == OtherStands(s, "running", "done")
OtherLeaves(s) == OtherStands(s, "running", "gone") \/ OtherStands(s, "done", "gone")

-----------------------------------------------------------------------------
Frames ==
    \E hears, framed, timers \in BOOLEAN, shown \in Shown :
      Frame(hears, framed, framed, timers, shown, timers)

Player ==
    \/ \E dest \in Anchors \cup {Nowhere} : CommitOrder(dest)
    \/ \E to \in {System[a] : a \in Anchors} : SetRouteDestination(to)
    \/ \E a \in Anchors : RequestView(a)
    \/ TogglePin

Others == \E s \in Strangers : OtherOrders(s) \/ OtherArrives(s) \/ OtherLeaves(s)

Shard == ApplyOrder \/ ApplyViewRequest \/ MoveEnds \/ FleetDeparts \/ FleetArrives \/ Others

FeedNext == Frames \/ Player \/ Shard

\* The client draws and the shard ticks for ever; now and then the player looks at
\* the world and everything on the wire has arrived by the time of a frame.  (The
\* first conjunct is WF_feedVars(FullFrame) with its ENABLED written out.)
Fairness ==
    /\ []<>FullFrameIdle \/ []<><<FullFrame>>_feedVars
    /\ WF_feedVars(ApplyOrder) /\ WF_feedVars(ApplyViewRequest)
    /\ WF_feedVars(MoveEnds) /\ WF_feedVars(FleetDeparts) /\ WF_feedVars(FleetArrives)
    /\ \A s \in Strangers : WF_feedVars(OtherLeaves(s))

FeedSpec == FeedInit /\ [][FeedNext]_feedVars /\ Fairness

-----------------------------------------------------------------------------
(* Properties.                                                             *)

\* The legs of a plan reach the authority in their order and none reaches it twice
\* (RoutePlan.h: "a queue of one"), whatever frames were lost, whatever the player
\* looked at and however often they changed their mind.
LegsInOrder ==
    \A i, j \in DOMAIN flown :
      i < j /\ flown[i][1] = flown[j][1] => flown[i][2] < flown[j][2]

\* A ghost under way stands for an order on the shard: one of this commander's that
\* was accepted, or one that another commander gave under the same number -- which
\* is all the records let a client tell, and less than OrderGhost.h promises ("the
\* authority agreed").  Nothing else promotes: no refusal, no answer to another
\* order, no snapshot of another moment.
GivenByOthers == {s[2] : s \in {t \in Strangers : others[t] # "unborn"}}
PromotedMeansAnOrder ==
    \A g \in client.ghosts : g.state = "UnderWay" => g.seq \in accepted \cup GivenByOthers

\* A leg the authority accepted is over in the end: the plan never waits for a
\* record that has been and gone (RoutePlan.cpp, NoteFeedback).
AcceptedLegsEnd ==
    \A seq \in Seqs :
      (client.route.state = "Flying" /\ client.route.seq = seq /\ seq \in accepted)
        ~> ~(client.route.state = "Flying" /\ client.route.seq = seq)

\* A fleet that comes to rest is found: the feed ends up on its grid -- unless the
\* camera is pinned, the grid is the one the commander joined at, or a request for
\* it was refused, which auto-follow does not forget.
FollowsTheFleet ==
    \A a \in Anchors \ {Start} :
      (<>[](fleet.at = a /\ ~Crossing /\ ~client.pinned))
        => <>[](session.grid = a \/ client.refused = a)

\* ClientApp.cpp, FeedRoutePlan: "from the second leg the answer is normally `no' --
\* and the plan holds and retries rather than halting", so no plan halts while its
\* fleet is on its way.
HoldsWhileCrossing ==
    [][client.route.state # "Halted" /\ client'.route.state = "Halted" => ~Crossing]_feedVars
=============================================================================
