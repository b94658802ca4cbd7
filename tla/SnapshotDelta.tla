--------------------------- MODULE SnapshotDelta ---------------------------
(***************************************************************************)
(* NeuronServer/SnapshotSender and NeuronClient/DeltaReceiver: how a       *)
(* viewer is shown a grid.  Every tick the sender sends either a keyframe, *)
(* which replaces what the client holds, on a reliable stream; or a delta, *)
(* cut into parts, each a datagram that may be lost or overtaken, against  *)
(* the newest view the client has said it holds whole.  Both ends keep the *)
(* last RingTicks views: the sender what it believes the client held after *)
(* each tick, the receiver what it did hold.                               *)
(*                                                                         *)
(* A view is a function from the ids in it to the state each was last sent *)
(* with.  A datagram that is never received is one that was lost.          *)
(***************************************************************************)
EXTENDS Integers, Sequences, FiniteSets, SequencesExt, FiniteSetsExt, Functions

CONSTANTS
    Ships,
    Owned,       \* the viewer's own, the guaranteed front of every ranking
    Grids,
    HomeGrid,    \* where the session begins
    RingTicks,   \* BASELINE_RING_TICKS
    Budget,      \* records a tick affords: m_tickBudgetBytes / ENTITY_RECORD_BYTES
    FirstRoom,   \* records part zero carries
    PartRoom,    \* RECORDS_PER_FULL_PART
    LeftRoom,    \* departures part zero carries
    MaxTick,     \* bound: ticks in a run
    MaxChange,   \* bound: changes of the world in a run
    MaxSwitch    \* bound: view switches in a run

ASSUME DeltaAssumption ==
    /\ IsFiniteSet(Ships) /\ Owned \subseteq Ships /\ HomeGrid \in Grids
    /\ RingTicks \in Nat \ {0} /\ PartRoom \in Nat \ {0}
    /\ {Budget, FirstRoom, LeftRoom, MaxTick, MaxChange, MaxSwitch} \subseteq Nat

VARIABLES
    tick,      \* the host's m_tick
    world,     \* world[s]: the grid s is on and the state it is in
    changes,   \* how often the world has changed (gives states their names)
    grid,      \* m_grid
    acked,     \* m_ackedTick, 0 while there is no ack
    sent,      \* m_ring of the sender
    pending,   \* m_pendingLeft
    switches,  \* view switches so far
    bulk,      \* keyframes on the Bulk stream
    parts,     \* delta parts in flight
    acks,      \* acknowledgements in flight
    holding,   \* the receiver's m_grid, NoGrid until a keyframe
    newest,    \* m_assemblingTick
    seen,      \* m_partsSeen
    held       \* m_ring of the receiver

senderVars   == <<tick, grid, acked, sent, pending, switches>>
wireVars     == <<bulk, parts, acks>>
receiverVars == <<holding, newest, seen, held>>
vars == <<world, changes, senderVars, wireVars, receiverVars>>

NoGrid == 0
States == 0..MaxChange
Slots == 0..RingTicks - 1
Views == UNION {[ids -> States] : ids \in SUBSET Ships}

\* SentView and Picture; tick 0 is the unused slot.  The sender's also keeps, for
\* the properties, the grid as it was.
EmptyView == [s \in {} |-> 0]
Unused == [tick |-> 0, view |-> EmptyView]
UnusedSent == [tick |-> 0, view |-> EmptyView, truth |-> EmptyView]

SlotOf(t) == t % RingTicks
Holds(ring, t) == t > 0 /\ ring[SlotOf(t)].tick = t
ViewAt(ring, t) == ring[SlotOf(t)].view

Without(view, ids) == Restrict(view, DOMAIN view \ ids)
Updated(view, records) ==
    [s \in DOMAIN view \cup DOMAIN records |-> IF s \in DOMAIN records THEN records[s] ELSE view[s]]
OnGrid(g) == {s \in Ships : world[s].grid = g}
TrueView(ids) == [s \in ids |-> world[s].state]

Part == [tick : 1..MaxTick, base : 1..MaxTick, grid : Grids, index : 0..Cardinality(Ships),
         count : 1..(Cardinality(Ships) + 1), records : Views, left : SUBSET Ships]

TypeOK ==
    /\ tick \in 0..MaxTick /\ changes \in 0..MaxChange /\ switches \in 0..MaxSwitch
    /\ world \in [Ships -> [grid : Grids, state : States]]
    /\ grid \in Grids /\ acked \in 0..MaxTick
    /\ sent \in [Slots -> [tick : 0..MaxTick, view : Views, truth : Views]]
    /\ pending \in Seq(Ships)
    /\ bulk \in Seq([tick : 1..MaxTick, grid : Grids, view : Views])
    /\ parts \subseteq Part
    /\ acks \subseteq [grid : Grids, tick : 1..MaxTick]
    /\ holding \in Grids \cup {NoGrid} /\ newest \in 0..MaxTick
    /\ seen \subseteq 0..Cardinality(Ships)
    /\ held \in [Slots -> [tick : 0..MaxTick, view : Views]]
    /\ \A i \in Slots : /\ sent[i].tick = 0 \/ SlotOf(sent[i].tick) = i
                        /\ held[i].tick = 0 \/ SlotOf(held[i].tick) = i

Init ==
    /\ tick = 0 /\ changes = 0 /\ switches = 0
    /\ world \in [Ships -> [grid : Grids, state : {0}]]
    /\ grid = HomeGrid /\ acked = 0
    /\ sent = [i \in Slots |-> UnusedSent] /\ pending = <<>>
    /\ bulk = <<>> /\ parts = {} /\ acks = {}
    /\ holding = NoGrid /\ newest = 0 /\ seen = {}
    /\ held = [i \in Slots |-> Unused]

-----------------------------------------------------------------------------
(* The game: a ship changes state where it is, or goes to another grid. *)

WorldChanges(s, g) ==
    /\ changes < MaxChange /\ tick < MaxTick
    /\ changes' = changes + 1
    /\ world' = [world EXCEPT ![s] = [grid |-> g, state |-> changes + 1]]
    /\ UNCHANGED <<senderVars, wireVars, receiverVars>>

-----------------------------------------------------------------------------
(* The sender *)

\* BuildInterest: the ids a tick carries.  The ranking puts the viewer's own first
\* and the rest in an order of the game's; the budget never cuts into the former.
Interest(ids) ==
    LET here == OnGrid(grid)
        own == Owned \cap here
    IN  /\ own \subseteq ids /\ ids \subseteq here
        /\ Cardinality(ids) = Max({Cardinality(own), Min({Cardinality(here), Budget})})

\* The last act of Send: the ring records the view as sent.
RecordUnderLastTick(view) ==
    sent' = [sent EXCEPT ![SlotOf(tick)] =
                [tick |-> tick + 1, view |-> view, truth |-> TrueView(OnGrid(grid))]]

Record(view) ==
    sent' = [sent EXCEPT ![SlotOf(tick + 1)] =
                [tick |-> tick + 1, view |-> view, truth |-> TrueView(OnGrid(grid))]]

SendKeyframe(ids) ==
    /\ Record(TrueView(ids))
    /\ pending' = <<>>
    /\ bulk' = Append(bulk, [tick |-> tick + 1, grid |-> grid, view |-> TrueView(ids)])
    /\ UNCHANGED parts

Changed(base, ids) == {s \in ids : s \notin DOMAIN base \/ base[s] # world[s].state}
DepartedUnnamed(base) == {}

Departed(base) == DOMAIN base \ OnGrid(grid)

\* SendDelta cuts the changed records into part zero and as many more as it takes.
PartCount(n) == IF n <= FirstRoom THEN 1 ELSE 1 + (n - FirstRoom + PartRoom - 1) \div PartRoom
InPart(order, i) ==
    ToSet(IF i = 0 THEN SubSeq(order, 1, Min({FirstRoom, Len(order)}))
          ELSE LET first == FirstRoom + (i - 1) * PartRoom
               IN  SubSeq(order, first + 1, Min({first + PartRoom, Len(order)})))

\* BaselineAt
HasBaseline == Holds(sent, acked)

SendDelta(ids) ==
    LET base == ViewAt(sent, acked)
        changed == Changed(base, ids)
        left == Departed(base)
        owed == pending \o SetToSeq(left)
        named == Min({Len(owed), LeftRoom})
        order == SetToSeq(changed)
        count == PartCount(Cardinality(changed))
    IN  /\ Record(Updated(Without(base, left), TrueView(changed)))
        /\ pending' = SubSeq(owed, named + 1, Len(owed))
        /\ parts' = parts \cup
             {[tick |-> tick + 1, base |-> acked, grid |-> grid, index |-> i, count |-> count,
               records |-> TrueView(InPart(order, i)),
               left |-> IF i = 0 THEN ToSet(SubSeq(owed, 1, named)) ELSE {}] : i \in 0..count - 1}
        /\ UNCHANGED bulk

\* ServerHost's tick and SnapshotSender::Send at the end of it.
Send ==
    /\ tick < MaxTick
    /\ tick' = tick + 1
    /\ \E ids \in SUBSET Ships :
         /\ Interest(ids)
         /\ \/ ~HasBaseline /\ SendKeyframe(ids)
            \/ HasBaseline /\ SendDelta(ids)
    /\ UNCHANGED <<world, changes, grid, acked, switches, acks, receiverVars>>

\* An ack names the grid it is about; only the newest of this grid counts.
NoteAck(a) ==
    /\ a \in acks
    /\ acks' = acks \ {a}
    /\ acked' = IF a.grid = grid /\ a.tick > acked THEN a.tick ELSE acked
    /\ UNCHANGED <<world, changes, tick, grid, sent, pending, switches, bulk, parts, receiverVars>>

\* RequestView, granted, and the DropBaselines it calls.
SwitchView(g) ==
    /\ switches < MaxSwitch /\ g # grid
    /\ switches' = switches + 1
    /\ grid' = g
    /\ sent' = [i \in Slots |-> UnusedSent]
    /\ pending' = <<>> /\ acked' = 0
    /\ UNCHANGED <<world, changes, tick, wireVars, receiverVars>>

-----------------------------------------------------------------------------
(* The receiver *)

\* DeltaReceiver::OnKeyframe: everything else held is dropped; whole as it stands,
\* so acknowledged at once.
ReceiveKeyframe ==
    /\ bulk # <<>>
    /\ bulk' = Tail(bulk)
    /\ LET k == Head(bulk)
       IN  /\ holding' = k.grid /\ newest' = k.tick /\ seen' = {0}
           /\ held' = [[i \in Slots |-> Unused] EXCEPT
                          ![SlotOf(k.tick)] = [tick |-> k.tick, view |-> k.view]]
           /\ acks' = acks \cup {[grid |-> k.grid, tick |-> k.tick]}
    /\ UNCHANGED <<world, changes, senderVars, parts>>

\* A part of a grid that is not held: Reset, and wait for a keyframe.
LosePlace(d) ==
    /\ d.grid # holding
    /\ holding' = NoGrid /\ newest' = 0 /\ seen' = {}
    /\ held' = [i \in Slots |-> Unused]
    /\ UNCHANGED acks

\* A part against a view that is not held, or an older tick that was never begun.
OrphanPart(d) ==
    /\ d.grid = holding
    /\ ~Holds(held, d.base) \/ (d.tick < newest /\ ~Holds(held, d.tick))
    /\ UNCHANGED <<acks, receiverVars>>

\* BeginTick copies the baseline into the tick's slot; departures, then records.
Applied(d) ==
    LET target == IF d.tick > newest THEN ViewAt(held, d.base) ELSE ViewAt(held, d.tick)
    IN  Updated(Without(target, d.left), d.records)

\* The newest tick is acknowledged once all of its parts have been seen.
WholeAtOnce(d, now) == now # {}

Whole(d, now) == d.tick >= newest /\ Cardinality(now) >= d.count

ApplyPart(d) ==
    LET now == IF d.tick > newest THEN {d.index}
               ELSE IF d.tick = newest THEN seen \cup {d.index} ELSE seen
    IN  /\ d.grid = holding /\ Holds(held, d.base)
        /\ d.tick < newest => Holds(held, d.tick)
        /\ held' = [held EXCEPT ![SlotOf(d.tick)] = [tick |-> d.tick, view |-> Applied(d)]]
        /\ newest' = Max({newest, d.tick})
        /\ seen' = now
        /\ acks' = IF Whole(d, now)
                   THEN acks \cup {[grid |-> d.grid, tick |-> d.tick]} ELSE acks
        /\ UNCHANGED holding

ReceivePart(d) ==
    /\ d \in parts
    /\ parts' = parts \ {d}
    /\ LosePlace(d) \/ OrphanPart(d) \/ ApplyPart(d)
    /\ UNCHANGED <<world, changes, senderVars, bulk>>

Next ==
    \/ \E s \in Ships, g \in Grids : WorldChanges(s, g)
    \/ Send
    \/ \E a \in acks : NoteAck(a)
    \/ \E g \in Grids : SwitchView(g)
    \/ ReceiveKeyframe
    \/ \E d \in parts : ReceivePart(d)

Spec == Init /\ [][Next]_vars

-----------------------------------------------------------------------------
(* Properties *)

\* The ticks of this view the receiver has said it holds whole, as far as both
\* ends still keep them.
Agreed ==
    {t \in {acked} \cup {a.tick : a \in {b \in acks : b.grid = grid}} :
        /\ Holds(sent, t)
        /\ holding = grid /\ Holds(held, t)}

(* A view that has been acknowledged is the same at both ends: whatever was  *)
(* lost, overtaken or sent for another grid on the way, the sender's record  *)
(* of what it sent is what the receiver holds ("a baseline both sides agree  *)
(* on", DeltaReceiver.cpp:226).  Everything after it is encoded against it.  *)
ViewsAgree == \A t \in Agreed : ViewAt(held, t) = ViewAt(sent, t)

(* What an acknowledged view shows is the grid as it was at that tick: no    *)
(* ship that had left (a ghost hull), and the viewer's own ships all there   *)
(* and up to date, whatever the budget left out.                             *)
ShowsTheGrid ==
    \A t \in Agreed :
        LET view == ViewAt(held, t)
            truth == sent[SlotOf(t)].truth
        IN  /\ DOMAIN view \subseteq DOMAIN truth
            /\ \A s \in Owned \cap DOMAIN truth : s \in DOMAIN view /\ view[s] = truth[s]

=============================================================================
