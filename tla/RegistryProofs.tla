--------------------------- MODULE RegistryProofs ---------------------------
(* Proofs about module Registry, for every set of anchors, commanders and  *)
(* ships, and every bound.                                                 *)
EXTENDS Registry, FiniteSetTheorems, TLAPS

\* Every step keeps the state well formed: one case per action.
LEMMA TypeStep ==
    ASSUME TypeOK, [Next]_vars PROVE TypeOK'
<1> USE DEF TypeOK, Row, knownVars
<1>1. ASSUME NEW p \in Players, NEW g \in Grants, NewPlayerJoined(p, g)
      PROVE TypeOK'
  <2>1. 1 \in Wings
    BY WingAssumption DEF Wings
  <2>0. HomeAnchors(p) \subseteq Anchors
    BY AnchorAssumption DEF HomeAnchors
  <2>2. PICK home \in Anchors :
           /\ live' = live \cup {home}
           /\ grid' = [grid EXCEPT ![home] = [s \in Ships |->
                          IF s \in Fleet[g] THEN 1 ELSE @[s]]]
           /\ locationByShip' = [s \in Ships |->
                          IF s \in Fleet[g] THEN home ELSE locationByShip[s]]
    BY <1>1, <2>0 DEF NewPlayerJoined
  <2>3. grid' \in [Anchors -> [Ships -> Wings \cup {NoRow}]]
    BY <2>1, <2>2
  <2> QED BY <1>1, <2>2, <2>3 DEF NewPlayerJoined, tickVars, viewVars
<1>16. ASSUME NEW p \in Players, KnownPlayerJoined(p) PROVE TypeOK'
  BY <1>16 DEF KnownPlayerJoined, tickVars, placeVars, indexVars, viewVars
<1>2. ASSUME NEW p \in Players, ViewerClosed(p) PROVE TypeOK'
  BY <1>2 DEF ViewerClosed, tickVars, placeVars, indexVars
<1>3. ASSUME NEW a \in Anchors, MayView(a) PROVE TypeOK'
  BY <1>3 DEF MayView, tickVars, indexVars, viewVars
<1>4. ASSUME NEW p \in Players, NEW a \in Anchors, ViewerOpened(p, a)
      PROVE TypeOK'
  BY <1>4 DEF ViewerOpened, tickVars, indexVars
<1>5. ASSUME NEW p \in Players, NEW a \in Anchors, NEW S \in SUBSET Ships,
             NEW w \in Wings, AssignWing(p, a, S, w)
      PROVE TypeOK'
  BY <1>5 DEF AssignWing, tickVars, indexVars, viewVars
<1>6. ASSUME NEW p \in Players, NEW a \in Anchors, NEW S \in SUBSET Ships,
             Undock(p, a, S)
      PROVE TypeOK'
  BY <1>6 DEF Undock, tickVars, indexVars, viewVars, Record
<1>7. CASE BeginTick
  BY <1>7 DEF BeginTick, placeVars, indexVars, viewVars
<1>8. ASSUME NEW r \in bus, ApplyDock(r) PROVE TypeOK'
  <2>1. WingForDockedGroup(r) \subseteq Wings
    BY WingAssumption DEF WingForDockedGroup, UnusedWingFor, Wings
  <2>2. r \in Record /\ MembersOf(r) \subseteq Ships
    BY DEF MembersOf
  <2>3. \A s \in MembersOf(r) : r.members[s] \in Row
    BY <2>2 DEF MembersOf, Record
  <2>4. r.anchor \in Anchors
    BY <2>2 DEF Record
  <2>5. PICK formed \in Wings :
          rosters' = [rosters EXCEPT ![r.anchor] = [s \in Ships |->
            IF s \in MembersOf(r)
            THEN [wing |-> IF formed = 0 THEN r.members[s].wing ELSE formed,
                  owner |-> r.members[s].owner]
            ELSE @[s]]]
    BY <1>8, <2>1 DEF ApplyDock
  <2>6. rosters' \in [Anchors -> [Ships -> Row \cup {NoRow}]]
    BY <2>3, <2>4, <2>5
  <2> QED BY <1>8, <2>3, <2>4, <2>6 DEF ApplyDock, tickVars, viewVars
<1>9. ASSUME NEW r \in bus, ApplyArrival(r) PROVE TypeOK'
  <2>1. r \in Record
    OBVIOUS
  <2>2. /\ r.anchor \in Anchors
        /\ \A s \in MembersOf(r) : r.members[s] \in Row
    BY <2>1 DEF MembersOf, Record
  <2>3. MembersOf(r) \ ShipsOn(r.anchor) \subseteq MembersOf(r)
    OBVIOUS
  <2> QED BY <1>9, <2>2, <2>3 DEF ApplyArrival, MembersOf, tickVars, viewVars
<1>10. CASE EraseApplied
  BY <1>10 DEF EraseApplied, indexVars, viewVars
<1>11. ASSUME NEW a \in Anchors, NEW to \in Anchors,
              NEW kind \in {"Dock", "Transit"}, NEW S \in SUBSET Ships,
              File(a, kind, to, S)
       PROVE TypeOK'
  <2>1. [s \in Ships |-> IF s \in S THEN grid[a][s] ELSE NoRow]
          \in [Ships -> Wings \cup {NoRow}]
    OBVIOUS
  <2>2. filed' \in SUBSET Request
    BY <1>11, <2>1 DEF File, Request
  <2>3. grid' \in [Anchors -> [Ships -> Wings \cup {NoRow}]]
    BY <1>11 DEF File
  <2> QED BY <1>11, <2>2, <2>3 DEF File, tickVars, indexVars, viewVars
<1>12. CASE EndWorlds
  BY <1>12 DEF EndWorlds, placeVars, indexVars, viewVars
<1>13. ASSUME NEW q \in filed, Collect(q) PROVE TypeOK'
  <2>1. q \in Request
    OBVIOUS
  <2>2. q.from \in Anchors /\ q.anchor \in Anchors /\ q.kind \in {"Dock", "Transit"}
    BY <2>1 DEF Request
  <2>3. q.members \in [Ships -> Wings \cup {NoRow}]
    BY <2>1 DEF Request
  <2>4. [s \in Ships |-> IF q.members[s] = NoRow THEN NoRow
                         ELSE [wing |-> q.members[s], owner |-> ownerByShip[s]]]
          \in [Ships -> Row \cup {NoRow}]
    BY <2>3
  <2>5. (IF q.kind = "Transit" THEN shardTick + TransitTicks[q.from][q.anchor]
         ELSE shardTick + 1) \in Nat
    BY <2>2, TransitAssumption
  <2>6. bus' \in SUBSET Record
    BY <1>13, <2>2, <2>4, <2>5 DEF Collect, Record, Stamp
  <2>7. applied' \in SUBSET bus'
    BY <1>13 DEF Collect
  <2> QED BY <1>13, <2>6, <2>7 DEF Collect, tickVars, indexVars, viewVars
<1>14. CASE TearDownIdle
  <2>1. grid' \in [Anchors -> [Ships -> Wings \cup {NoRow}]]
    BY <1>14 DEF TearDownIdle
  <2>2. live' \in SUBSET Anchors
    BY <1>14 DEF TearDownIdle
  <2>3. /\ locationByShip' \in [Ships -> Anchors \cup {NoAnchor}]
        /\ ownerByShip' \in [Ships -> Players \cup {NoPlayer}]
    BY <1>14 DEF TearDownIdle
  <2> QED BY <1>14, <2>1, <2>2, <2>3 DEF TearDownIdle, viewVars
<1>15. CASE UNCHANGED vars
  BY <1>15 DEF vars
<1>17. CASE Restart
  <2>1. \A s \in Ships :
           /\ LoadedLocation(s) \in Anchors \cup {NoAnchor}
           /\ LoadedOwner(s) \in Players \cup {NoPlayer}
    BY DEF LoadedLocation, LoadedOwner, PlacesOf, ShipsOn, DockedAt
  <2>2. /\ locationByShip' \in [Ships -> Anchors \cup {NoAnchor}]
        /\ ownerByShip' \in [Ships -> Players \cup {NoPlayer}]
    BY <1>17, <2>1 DEF Restart
  <2>3. nextTransfer' \in Nat
    BY <1>17 DEF Restart, Record
  <2>4. viewers' \in [Anchors -> Nat] /\ live' \in SUBSET Anchors
    BY <1>17, AnchorAssumption DEF Restart
  <2> QED BY <1>17, <2>2, <2>3, <2>4 DEF Restart
<1> HIDE DEF TypeOK, Row, knownVars
<1>18. Command => TypeOK'
  <2>1. \A p \in Players : FleetsOf(p) \subseteq Ships
    BY FleetAssumption DEF FleetsOf
  <2>2. met \subseteq Players
    BY DEF TypeOK
  <2> QED BY <1>1, <1>16, <1>2, <1>3, <1>4, <1>5, <1>6, <2>1, <2>2 DEF Command
<1>19. Tick => TypeOK'
  <2>1. live \subseteq Anchors /\ \A a \in Anchors : ShipsOn(a) \subseteq Ships
    BY DEF TypeOK, ShipsOn
  <2> QED BY <1>7, <1>8, <1>9, <1>10, <1>11, <1>12, <1>13, <1>14, <2>1 DEF Tick
<1> QED
  BY <1>15, <1>17, <1>18, <1>19 DEF Next

\* The state stays well formed: every index names a real grid or commander,
\* every record a real anchor, and what this tick applied is still on the bus.
THEOREM TypeCorrect == Spec => []TypeOK
<1>1. Init => TypeOK
  BY AnchorAssumption, PlayerAssumption, FleetAssumption, WingAssumption
     DEF Init, TypeOK, Wings, Row, Record, Request
<1> QED
  BY <1>1, TypeStep, PTL DEF Spec

-----------------------------------------------------------------------------
(* Placement.  The four places a ship can be in (a grid row, a roster row, *)
(* an unapplied record, a filed request) partition the commissioned ships, *)
(* and the index agrees.  The strengthening says when the tick's scratch   *)
(* state may be occupied: a record is skipped as applied only inside the   *)
(* apply step, a request waits only between the worlds and the stamping.   *)

Housekeeping ==
    /\ \A s \in Ships, a \in Anchors : OnGrid(s, a) => a \in live
    /\ applied # {} => phase = "apply"
    /\ filed # {} => phase \in {"worlds", "collect"}
    /\ phase # "apply" => \A r \in bus : r.applyTick > shardTick

IInv ==
    /\ TypeOK
    /\ NeverTwice
    /\ NeverLost
    /\ OwnerKept
    /\ IndexPlacesShips
    /\ Housekeeping

\* A step that leaves every ship where it is keeps the partition.
LEMMA NobodyMoves ==
    ASSUME NeverTwice, NeverLost,
           \A s \in Ships, a \in Anchors : OnGrid(s, a)' <=> OnGrid(s, a),
           \A s \in Ships, a \in Anchors : Docked(s, a)' <=> Docked(s, a),
           \A s \in Ships : \A r : InFlight(s, r)' <=> InFlight(s, r),
           \A s \in Ships : \A q : Leaving(s, q)' <=> Leaving(s, q),
           givenTo' = givenTo
    PROVE  NeverTwice' /\ NeverLost'
<1>1. \A s \in Ships : \A r : (InFlight(s, r) => r \in bus)
                              /\ (InFlight(s, r)' => r \in bus')
  BY DEF InFlight
<1>2. \A s \in Ships : \A q : (Leaving(s, q) => q \in filed)
                              /\ (Leaving(s, q)' => q \in filed')
  BY DEF Leaving
<1>3. NeverTwice'
  BY <1>1, <1>2 DEF NeverTwice
<1>4. InService' = InService
  BY DEF InService
<1>5. NeverLost'
  BY <1>1, <1>2, <1>4 DEF NeverLost
<1> QED BY <1>3, <1>5

\* Commands that touch views, worlds or the clock alone.
LEMMA ViewStepsKeep ==
    ASSUME IInv,
           \/ \E p \in Players : KnownPlayerJoined(p)
           \/ \E p \in Players : ViewerClosed(p)
           \/ \E a \in Anchors : MayView(a)
           \/ \E p \in Players, a \in Anchors : ViewerOpened(p, a)
           \/ BeginTick
           \/ EndWorlds
           \/ UNCHANGED vars
    PROVE  NeverTwice' /\ NeverLost' /\ OwnerKept' /\ IndexPlacesShips' /\ Housekeeping'
<1>1. /\ UNCHANGED <<grid, rosters, bus, applied, filed, indexVars, givenTo>>
      /\ live \subseteq live'
  BY DEF KnownPlayerJoined, ViewerClosed, MayView, ViewerOpened, BeginTick,
         EndWorlds, vars, knownVars,
         placeVars, indexVars
<1>2. NeverTwice' /\ NeverLost'
  BY <1>1, NobodyMoves DEF IInv, OnGrid, Docked, InFlight, Leaving
<1>3. OwnerKept'
  BY <1>1 DEF IInv, OwnerKept, OnGrid, Docked, InFlight, Leaving, indexVars
<1>4. IndexPlacesShips'
  BY <1>1 DEF IInv, IndexPlacesShips, OnGrid, Docked, indexVars
<1>5. Housekeeping'
  <2>1. applied' # {} => phase' = "apply"
    BY <1>1 DEF IInv, Housekeeping, KnownPlayerJoined, ViewerClosed, MayView,
                ViewerOpened, BeginTick, EndWorlds, vars, tickVars
  <2>2. filed' # {} => phase' \in {"worlds", "collect"}
    BY <1>1 DEF IInv, Housekeeping, KnownPlayerJoined, ViewerClosed, MayView,
                ViewerOpened, BeginTick, EndWorlds, vars, tickVars
  <2>3. phase' # "apply" => \A r \in bus' : r.applyTick > shardTick'
    BY <1>1 DEF IInv, Housekeeping, KnownPlayerJoined, ViewerClosed, MayView,
                ViewerOpened, BeginTick, EndWorlds, vars, tickVars
  <2> QED BY <1>1, <2>1, <2>2, <2>3 DEF IInv, Housekeeping, OnGrid
<1> QED BY <1>2, <1>3, <1>4, <1>5

\* A wing is rewritten in place: the row stays, and stays its owner's.
LEMMA AssignWingKeeps ==
    ASSUME IInv, NEW p \in Players, NEW a \in Anchors, NEW S \in SUBSET Ships,
           NEW w \in Wings, AssignWing(p, a, S, w)
    PROVE  NeverTwice' /\ NeverLost' /\ OwnerKept' /\ IndexPlacesShips' /\ Housekeeping'
<1> USE DEF IInv
<1>1. \A s \in Ships, b \in Anchors : OnGrid(s, b)' <=> OnGrid(s, b)
  BY RowAssumption DEF AssignWing, OnGrid, TypeOK
<1>2. \A s \in Ships, b \in Anchors :
         (Docked(s, b)' <=> Docked(s, b))
         /\ (Docked(s, b) => rosters'[b][s].owner = rosters[b][s].owner)
  <2>1. \A o \in Players \cup {NoPlayer} : [wing |-> w, owner |-> o] # NoRow
    BY RowAssumption
  <2>2. \A s \in Ships, b \in Anchors : rosters[b][s] # NoRow =>
           rosters[b][s].owner \in Players \cup {NoPlayer}
    BY DEF TypeOK, Row
  <2> QED BY <2>1, <2>2 DEF AssignWing, Docked, TypeOK
<1>3. UNCHANGED <<bus, applied, filed, indexVars, givenTo, tickVars>>
      /\ live \subseteq live'
  BY DEF AssignWing, knownVars
<1>4. NeverTwice' /\ NeverLost'
  BY <1>1, <1>2, <1>3, NobodyMoves DEF InFlight, Leaving
<1>5. OwnerKept'
  BY <1>1, <1>2, <1>3, FleetAssumption
     DEF OwnerKept, InFlight, Leaving, indexVars
<1>6. IndexPlacesShips'
  BY <1>1, <1>2, <1>3 DEF IndexPlacesShips, indexVars
<1>7. Housekeeping'
  BY <1>1, <1>3 DEF Housekeeping, tickVars
<1> QED BY <1>4, <1>5, <1>6, <1>7

\* The applied records leave the bus; what is left is not due yet.
LEMMA EraseAppliedKeeps ==
    ASSUME IInv, EraseApplied
    PROVE  NeverTwice' /\ NeverLost' /\ OwnerKept' /\ IndexPlacesShips' /\ Housekeeping'
<1> USE DEF IInv
<1>1. UNCHANGED <<shardTick, live, grid, rosters, filed, indexVars, givenTo>>
      /\ bus' = bus \ applied /\ applied' = {} /\ phase' = "worlds"
  BY DEF EraseApplied, knownVars
<1>2. \A s \in Ships : \A r : InFlight(s, r)' <=> InFlight(s, r)
  BY <1>1 DEF InFlight
<1>3. NeverTwice' /\ NeverLost'
  BY <1>1, <1>2, NobodyMoves DEF OnGrid, Docked, Leaving
<1>4. OwnerKept'
  BY <1>1 DEF OwnerKept, OnGrid, Docked, InFlight, Leaving, indexVars
<1>5. IndexPlacesShips'
  BY <1>1 DEF IndexPlacesShips, OnGrid, Docked, indexVars
<1>6. \A r \in bus' : r.applyTick > shardTick'
  BY <1>1 DEF EraseApplied, Due, TypeOK, Record
<1>7. Housekeeping'
  BY <1>1, <1>6 DEF Housekeeping, OnGrid
<1> QED BY <1>3, <1>4, <1>5, <1>7

\* Teardown forgets grids without ships, and index entries without ships.
LEMMA TearDownKeeps ==
    ASSUME IInv, TearDownIdle
    PROVE  NeverTwice' /\ NeverLost' /\ OwnerKept' /\ IndexPlacesShips' /\ Housekeeping'
<1> USE DEF IInv
<1>1. UNCHANGED <<shardTick, rosters, bus, applied, filed, givenTo>>
      /\ live' = live \ Idle /\ phase' \in {"idle", "down"} /\ filed = {}
  BY DEF TearDownIdle, knownVars
<1>2. \A s \in Ships, a \in Anchors : OnGrid(s, a) => a \notin Idle
  BY DEF Idle, ShipsOn, OnGrid
<1>3. \A s \in Ships, a \in Anchors : OnGrid(s, a)' <=> OnGrid(s, a)
  BY <1>2 DEF TearDownIdle, OnGrid, TypeOK
<1>4. \A s \in Ships, a \in Anchors : OnGrid(s, a) \/ Docked(s, a) =>
         locationByShip'[s] = locationByShip[s] /\ ownerByShip'[s] = ownerByShip[s]
  <2>1. SUFFICES ASSUME NEW s \in Ships, NEW a \in Anchors,
                        OnGrid(s, a) \/ Docked(s, a)
                 PROVE  ~(/\ locationByShip[s] \in Idle
                          /\ s \notin DockedAt(locationByShip[s]))
    BY DEF TearDownIdle, Forgotten
  <2>2. locationByShip[s] = a
    BY <2>1 DEF IndexPlacesShips
  <2> QED BY <1>2, <2>1, <2>2 DEF Docked, DockedAt
<1>5. NeverTwice' /\ NeverLost'
  BY <1>1, <1>3, NobodyMoves DEF Docked, InFlight, Leaving
<1>6. OwnerKept'
  BY <1>1, <1>3, <1>4, FleetAssumption DEF OwnerKept, Docked, InFlight, Leaving
<1>7. IndexPlacesShips'
  BY <1>1, <1>3, <1>4 DEF IndexPlacesShips, Docked
<1>8. Housekeeping'
  BY <1>1, <1>2, <1>3 DEF Housekeeping, TearDownIdle
<1> QED BY <1>5, <1>6, <1>7, <1>8

\* Roster rows become one record's members; the record is due next tick.
LEMMA UndockKeeps ==
    ASSUME IInv, NEW p \in Players, NEW a \in Anchors, NEW S \in SUBSET Ships,
           Undock(p, a, S)
    PROVE  NeverTwice' /\ NeverLost' /\ OwnerKept' /\ IndexPlacesShips' /\ Housekeeping'
<1> USE DEF IInv
<1> DEFINE new == [id |-> nextTransfer, applyTick |-> shardTick + 1,
                   kind |-> "Undock", anchor |-> a,
                   members |-> [s \in Ships |-> IF s \in S THEN rosters[a][s] ELSE NoRow]]
<1>1. /\ UNCHANGED <<shardTick, phase, live, grid, filed, locationByShip,
                     ownerByShip, givenTo>>
      /\ applied = {} /\ applied' = {}
      /\ bus' = bus \cup {new}
  BY DEF Undock, Housekeeping, tickVars, indexVars, knownVars
<1>2. S \subseteq Ships /\ \A s \in S : Docked(s, a) /\ rosters[a][s].owner = p
  BY DEF Undock, DockedFor, DockedAt, Docked
<1>3. \A s \in Ships, b \in Anchors :
         /\ Docked(s, b)' <=> Docked(s, b) /\ ~(b = a /\ s \in S)
         /\ Docked(s, b)' => rosters'[b][s] = rosters[b][s]
  BY DEF Undock, Docked, TypeOK
<1> HIDE DEF new
<1>4. \A s \in Ships : new.members[s] # NoRow <=> s \in S
  BY <1>2 DEF new, Docked
<1>5. \A s \in Ships : \A r : InFlight(s, r)' <=> InFlight(s, r) \/ (r = new /\ s \in S)
  BY <1>1, <1>4 DEF InFlight
<1>6. \A s \in Ships : /\ \A b \in Anchors : OnGrid(s, b)' <=> OnGrid(s, b)
                       /\ \A q : Leaving(s, q)' <=> Leaving(s, q)
  BY <1>1 DEF OnGrid, Leaving
<1>7. \A s \in Ships : \A r : (InFlight(s, r) => r \in bus)
                              /\ (InFlight(s, r)' => r \in bus')
  BY DEF InFlight
<1>8. NeverTwice'
  BY <1>1, <1>2, <1>3, <1>5, <1>6, <1>7 DEF NeverTwice
<1>9. NeverLost'
  <2>1. InService' = InService
    BY <1>1 DEF InService
  <2> QED BY <1>1, <1>2, <1>3, <1>5, <1>6, <1>7, <2>1 DEF NeverLost
<1>10. OwnerKept'
  <2>1. \A s \in S : new.members[s].owner = p
    BY <1>2 DEF new
  <2> QED BY <1>1, <1>2, <1>3, <1>5, <1>6, <1>7, <2>1, FleetAssumption DEF OwnerKept
<1>11. IndexPlacesShips'
  BY <1>1, <1>3, <1>6 DEF IndexPlacesShips
<1>12. Housekeeping'
  <2>1. new.applyTick > shardTick
    BY DEF new, TypeOK
  <2> QED BY <1>1, <1>6, <2>1 DEF Housekeeping
<1> QED BY <1>8, <1>9, <1>10, <1>11, <1>12

\* The ships of a fleet not given out yet were nowhere, so nobody is disturbed.
LEMMA NewPlayerJoinedKeeps ==
    ASSUME IInv, NEW p \in Players, NEW g \in Grants, NewPlayerJoined(p, g)
    PROVE  NeverTwice' /\ NeverLost' /\ OwnerKept' /\ IndexPlacesShips' /\ Housekeeping'
<1> USE DEF IInv
<1>1. PICK home \in Anchors :
         /\ live' = live \cup {home}
         /\ grid' = [grid EXCEPT ![home] = [s \in Ships |->
                        IF s \in Fleet[g] THEN 1 ELSE @[s]]]
         /\ locationByShip' = [s \in Ships |->
                        IF s \in Fleet[g] THEN home ELSE locationByShip[s]]
  BY AnchorAssumption DEF NewPlayerJoined, HomeAnchors
<1>2. /\ UNCHANGED <<shardTick, phase, rosters, bus, applied, filed>>
      /\ givenTo[g] = NoPlayer
      /\ givenTo' = [givenTo EXCEPT ![g] = p]
      /\ ownerByShip' = [s \in Ships |-> IF s \in Fleet[g] THEN p ELSE ownerByShip[s]]
  BY DEF NewPlayerJoined, tickVars
<1>3. Fleet[g] \subseteq Ships /\ Fleet[g] \cap InService = {}
  BY <1>2, FleetAssumption DEF InService
<1>13. /\ givenTo'[g] = p
       /\ \A h \in Grants : h # g => givenTo'[h] = givenTo[h]
  BY <1>2 DEF TypeOK
<1>4. InService' = InService \cup Fleet[g]
  BY <1>13, PlayerAssumption DEF InService
<1>5. \A s \in Ships, b \in Anchors :
         OnGrid(s, b)' <=> OnGrid(s, b) \/ (b = home /\ s \in Fleet[g])
  <2>1. 1 # NoRow
    BY RowAssumption, WingAssumption DEF Wings
  <2> QED BY <1>1, <2>1 DEF OnGrid, TypeOK
<1>6. \A s \in Ships : /\ \A b \in Anchors : Docked(s, b)' <=> Docked(s, b)
                       /\ \A r : InFlight(s, r)' <=> InFlight(s, r)
                       /\ \A q : Leaving(s, q)' <=> Leaving(s, q)
  BY <1>2 DEF Docked, InFlight, Leaving
<1>7. \A s \in Fleet[g] : /\ \A b \in Anchors : ~OnGrid(s, b) /\ ~Docked(s, b)
                          /\ \A r \in bus : ~InFlight(s, r)
                          /\ \A q \in filed : ~Leaving(s, q)
  BY <1>3 DEF NeverLost
<1>8. NeverTwice'
  BY <1>2, <1>3, <1>5, <1>6, <1>7 DEF NeverTwice
<1>9. NeverLost'
  BY <1>2, <1>3, <1>4, <1>5, <1>6 DEF NeverLost
<1>10. OwnerKept'
  <2> SUFFICES ASSUME NEW h \in Grants, NEW s \in Fleet[h]
      PROVE /\ \A a \in Anchors : OnGrid(s, a)' => ownerByShip'[s] = givenTo'[h]
            /\ \A a \in Anchors : Docked(s, a)' => rosters'[a][s].owner = givenTo'[h]
                                                   /\ ownerByShip'[s] = givenTo'[h]
            /\ \A r \in bus' : InFlight(s, r)' => r.members[s].owner = givenTo'[h]
            /\ \A o \in filed' : Leaving(s, o)' => ownerByShip'[s] = givenTo'[h]
    BY DEF OwnerKept
  <2>0. s \in Ships
    BY FleetAssumption
  <2>1. CASE h = g
    BY <1>2, <1>6, <1>7, <1>13, <2>0, <2>1
  <2>2. CASE h # g
    <3>1. s \notin Fleet[g] /\ givenTo'[h] = givenTo[h]
      BY <1>13, <2>2, FleetAssumption
    <3> QED BY <1>2, <1>5, <1>6, <2>0, <3>1 DEF OwnerKept
  <2> QED BY <2>1, <2>2
<1>11. IndexPlacesShips'
  BY <1>1, <1>5, <1>6, <1>7 DEF IndexPlacesShips
<1>12. Housekeeping'
  BY <1>1, <1>2, <1>5 DEF Housekeeping
<1> QED BY <1>8, <1>9, <1>10, <1>11, <1>12

\* A restart moves no ship.  The index it builds has the ships of the grids and
\* the rosters, each in the one place it is, and the owner it is saved with.
LEMMA RestartKeeps ==
    ASSUME IInv, Restart
    PROVE  NeverTwice' /\ NeverLost' /\ OwnerKept' /\ IndexPlacesShips' /\ Housekeeping'
<1> USE DEF IInv
<1>1. UNCHANGED <<shardTick, grid, rosters, bus, applied, filed, givenTo>>
      /\ phase = "down" /\ phase' = "idle"
      /\ live' = {StartAnchor} \cup {a \in Anchors : ShipsOn(a) # {}}
      /\ \A s \in Ships : /\ locationByShip'[s] = LoadedLocation(s)
                          /\ ownerByShip'[s] = LoadedOwner(s)
  BY DEF Restart
<1>2. applied = {} /\ filed = {}
  BY <1>1 DEF Housekeeping
<1>3. \A s \in Ships, a \in Anchors : OnGrid(s, a) \/ Docked(s, a) => PlacesOf(s) = {a}
  BY DEF PlacesOf, ShipsOn, DockedAt, NeverTwice, OnGrid, Docked
<1>4. \A s \in Ships, a \in Anchors :
         /\ OnGrid(s, a) \/ Docked(s, a) => LoadedLocation(s) = a
         /\ OnGrid(s, a) => LoadedOwner(s) = ownerByShip[s]
         /\ Docked(s, a) => LoadedOwner(s) = rosters[a][s].owner
  <2> SUFFICES ASSUME NEW s \in Ships, NEW a \in Anchors, OnGrid(s, a) \/ Docked(s, a)
               PROVE /\ LoadedLocation(s) = a
                     /\ OnGrid(s, a) => LoadedOwner(s) = ownerByShip[s]
                     /\ Docked(s, a) => LoadedOwner(s) = rosters[a][s].owner
    OBVIOUS
  <2>1. PlacesOf(s) # {} /\ (CHOOSE b \in PlacesOf(s) : TRUE) = a
    BY <1>3
  <2>2. s \in ShipsOn(a) <=> OnGrid(s, a)
    BY DEF ShipsOn, OnGrid
  <2>3. Docked(s, a) => ~OnGrid(s, a)
    BY DEF NeverTwice
  <2> QED BY <2>1, <2>2, <2>3 DEF LoadedLocation, LoadedOwner
<1>5. NeverTwice' /\ NeverLost'
  BY <1>1, NobodyMoves DEF OnGrid, Docked, InFlight, Leaving
<1>6. OwnerKept'
  BY <1>1, <1>2, <1>4, FleetAssumption DEF OwnerKept, OnGrid, Docked, InFlight, Leaving
<1>7. IndexPlacesShips'
  BY <1>1, <1>4 DEF IndexPlacesShips, OnGrid, Docked
<1>8. Housekeeping'
  BY <1>1, <1>2 DEF Housekeeping, OnGrid, ShipsOn
<1> QED BY <1>5, <1>6, <1>7, <1>8

\* The members of a docking record become roster rows of the station.
LEMMA ApplyDockKeeps ==
    ASSUME IInv, NEW r \in bus, ApplyDock(r)
    PROVE  NeverTwice' /\ NeverLost' /\ OwnerKept' /\ IndexPlacesShips' /\ Housekeeping'
<1> USE DEF IInv
<1> DEFINE moved == MembersOf(r)
<1>1. /\ UNCHANGED <<shardTick, phase, live, grid, bus, filed, givenTo>>
      /\ applied' = applied \cup {r}
      /\ phase = "apply"
      /\ r \in bus \ applied
  BY DEF ApplyDock, IsNext, Due, tickVars, knownVars
<1>2. moved \subseteq Ships /\ r.anchor \in Anchors
      /\ \A s \in Ships : s \in moved <=> InFlight(s, r)
  BY <1>1 DEF MembersOf, InFlight, TypeOK, Record
<1>3. \A s \in Ships, b \in Anchors :
         /\ Docked(s, b)' <=> Docked(s, b) \/ (b = r.anchor /\ s \in moved)
         /\ b = r.anchor /\ s \in moved => rosters'[b][s].owner = r.members[s].owner
         /\ ~(b = r.anchor /\ s \in moved) => rosters'[b][s] = rosters[b][s]
  <2>1. WingForDockedGroup(r) \subseteq Wings
    BY WingAssumption DEF WingForDockedGroup, UnusedWingFor, Wings
  <2>2. PICK f \in Wings : rosters' = [rosters EXCEPT ![r.anchor] = [s \in Ships |->
              IF s \in moved
              THEN [wing |-> IF f = 0 THEN r.members[s].wing ELSE f,
                    owner |-> r.members[s].owner]
              ELSE @[s]]]
    BY <2>1 DEF ApplyDock
  <2>3. \A s \in moved : rosters'[r.anchor][s] # NoRow
    <3> SUFFICES ASSUME NEW s \in moved PROVE rosters'[r.anchor][s] # NoRow
      OBVIOUS
    <3>1. r.members[s].wing \in Wings /\ r.members[s].owner \in Players \cup {NoPlayer}
      BY DEF MembersOf, TypeOK, Record, Row
    <3>2. rosters'[r.anchor][s] = [wing |-> IF f = 0 THEN r.members[s].wing ELSE f,
                                   owner |-> r.members[s].owner]
      BY <1>2, <2>2 DEF TypeOK
    <3>3. rosters'[r.anchor][s] \in [wing : Wings, owner : Players \cup {NoPlayer}]
      BY <3>1, <3>2
    <3> QED BY <3>3, RowAssumption
  <2> QED BY <1>2, <2>2, <2>3 DEF Docked, TypeOK
<1>4. \A s \in Ships : \A t : InFlight(s, t)' <=> InFlight(s, t) /\ t # r
  BY <1>1 DEF InFlight
<1>5. \A s \in Ships : /\ \A b \in Anchors : OnGrid(s, b)' <=> OnGrid(s, b)
                       /\ \A q : Leaving(s, q)' <=> Leaving(s, q)
  BY <1>1 DEF OnGrid, Leaving
<1>6. \A s \in Ships :
        /\ s \in moved => locationByShip'[s] = r.anchor
                          /\ ownerByShip'[s] = r.members[s].owner
        /\ s \notin moved => locationByShip'[s] = locationByShip[s]
                             /\ ownerByShip'[s] = ownerByShip[s]
  BY DEF ApplyDock
<1> HIDE DEF moved
<1>7. \A s \in Ships : \A t : (InFlight(s, t) => t \in bus)
                              /\ (InFlight(s, t)' => t \in bus')
  BY DEF InFlight
<1>8. NeverTwice'
  BY <1>1, <1>2, <1>3, <1>4, <1>5, <1>7 DEF NeverTwice
<1>9. NeverLost'
  <2>1. InService' = InService
    BY <1>1 DEF InService
  <2> QED BY <1>1, <1>2, <1>3, <1>4, <1>5, <1>7, <2>1 DEF NeverLost
<1>10. OwnerKept'
  BY <1>1, <1>2, <1>3, <1>4, <1>5, <1>6, <1>7, FleetAssumption DEF OwnerKept
<1>11. IndexPlacesShips'
  BY <1>1, <1>2, <1>3, <1>5, <1>6 DEF IndexPlacesShips, NeverTwice
<1>12. Housekeeping'
  BY <1>1, <1>5 DEF Housekeeping
<1> QED BY <1>8, <1>9, <1>10, <1>11, <1>12

\* The members of a landing record are on no grid, so none is refused and all
\* become rows of the anchor's grid.
LEMMA ApplyArrivalKeeps ==
    ASSUME IInv, NEW r \in bus, ApplyArrival(r)
    PROVE  NeverTwice' /\ NeverLost' /\ OwnerKept' /\ IndexPlacesShips' /\ Housekeeping'
<1> USE DEF IInv
<1> DEFINE moved == MembersOf(r)
<1>1. /\ UNCHANGED <<shardTick, phase, rosters, bus, filed, givenTo>>
      /\ applied' = applied \cup {r}
      /\ live' = live \cup {r.anchor}
      /\ phase = "apply"
      /\ r \in bus \ applied
  BY DEF ApplyArrival, IsNext, Due, tickVars, knownVars
<1>2. moved \subseteq Ships /\ r.anchor \in Anchors
      /\ \A s \in Ships : s \in moved <=> InFlight(s, r)
  BY <1>1 DEF MembersOf, InFlight, TypeOK, Record
<1>3. moved \ ShipsOn(r.anchor) = moved
  BY <1>1, <1>2 DEF NeverTwice, ShipsOn, OnGrid
<1>4. \A s \in Ships, b \in Anchors :
         OnGrid(s, b)' <=> OnGrid(s, b) \/ (b = r.anchor /\ s \in moved)
  <2>1. \A s \in moved : r.members[s].wing \in Wings
    BY DEF MembersOf, TypeOK, Record, Row
  <2>2. grid' = [grid EXCEPT ![r.anchor] = [s \in Ships |->
                    IF s \in moved THEN r.members[s].wing ELSE @[s]]]
    BY <1>3 DEF ApplyArrival
  <2> QED BY <1>2, <2>1, <2>2, RowAssumption DEF OnGrid, TypeOK
<1>5. \A s \in Ships : \A t : InFlight(s, t)' <=> InFlight(s, t) /\ t # r
  BY <1>1 DEF InFlight
<1>6. \A s \in Ships : /\ \A b \in Anchors : Docked(s, b)' <=> Docked(s, b)
                       /\ \A q : Leaving(s, q)' <=> Leaving(s, q)
  BY <1>1 DEF Docked, Leaving
<1>7. \A s \in Ships :
        /\ s \in moved => locationByShip'[s] = r.anchor
                          /\ ownerByShip'[s] = r.members[s].owner
        /\ s \notin moved => locationByShip'[s] = locationByShip[s]
                             /\ ownerByShip'[s] = ownerByShip[s]
  BY <1>3 DEF ApplyArrival
<1> HIDE DEF moved
<1>8. \A s \in Ships : \A t : (InFlight(s, t) => t \in bus)
                              /\ (InFlight(s, t)' => t \in bus')
  BY DEF InFlight
<1>9. NeverTwice'
  BY <1>1, <1>2, <1>4, <1>5, <1>6, <1>8 DEF NeverTwice
<1>10. NeverLost'
  <2>1. InService' = InService
    BY <1>1 DEF InService
  <2> QED BY <1>1, <1>2, <1>4, <1>5, <1>6, <1>8, <2>1 DEF NeverLost
<1>11. OwnerKept'
  BY <1>1, <1>2, <1>4, <1>5, <1>6, <1>7, <1>8, FleetAssumption
     DEF OwnerKept, NeverTwice
<1>12. IndexPlacesShips'
  BY <1>1, <1>2, <1>4, <1>6, <1>7 DEF IndexPlacesShips, NeverTwice
<1>13. Housekeeping'
  BY <1>1, <1>4 DEF Housekeeping
<1> QED BY <1>9, <1>10, <1>11, <1>12, <1>13

\* The ships of a filed request leave the grid they were on.
LEMMA FileKeeps ==
    ASSUME IInv, NEW a \in Anchors, NEW to \in Anchors,
           NEW kind \in {"Dock", "Transit"}, NEW S \in SUBSET Ships,
           File(a, kind, to, S)
    PROVE  NeverTwice' /\ NeverLost' /\ OwnerKept' /\ IndexPlacesShips' /\ Housekeeping'
<1> USE DEF IInv
<1> DEFINE new == [from |-> a, kind |-> kind, anchor |-> to,
                   members |-> [s \in Ships |-> IF s \in S THEN grid[a][s] ELSE NoRow]]
<1>1. /\ UNCHANGED <<shardTick, phase, live, rosters, bus, applied, indexVars,
                     givenTo>>
      /\ filed' = filed \cup {new}
      /\ phase = "worlds"
  BY DEF File, tickVars, knownVars
<1>2. \A s \in S : OnGrid(s, a)
  BY DEF File, ShipsOn, OnGrid
<1>3. \A s \in Ships, b \in Anchors :
         OnGrid(s, b)' <=> OnGrid(s, b) /\ ~(b = a /\ s \in S)
  BY DEF File, OnGrid, TypeOK
<1> HIDE DEF new
<1>4. \A s \in Ships : new.members[s] # NoRow <=> s \in S
  BY <1>2 DEF new, OnGrid
<1>5. \A s \in Ships : \A q : Leaving(s, q)' <=> Leaving(s, q) \/ (q = new /\ s \in S)
  BY <1>1, <1>4 DEF Leaving
<1>6. \A s \in Ships : /\ \A b \in Anchors : Docked(s, b)' <=> Docked(s, b)
                       /\ \A r : InFlight(s, r)' <=> InFlight(s, r)
  BY <1>1 DEF Docked, InFlight
<1>7. \A s \in Ships : \A q : (Leaving(s, q) => q \in filed)
                              /\ (Leaving(s, q)' => q \in filed')
  BY DEF Leaving
<1>8. NeverTwice'
  BY <1>1, <1>2, <1>3, <1>5, <1>6, <1>7 DEF NeverTwice
<1>9. NeverLost'
  <2>1. InService' = InService
    BY <1>1 DEF InService
  <2> QED BY <1>1, <1>2, <1>3, <1>5, <1>6, <1>7, <2>1 DEF NeverLost
<1>10. OwnerKept'
  BY <1>1, <1>2, <1>3, <1>5, <1>6, <1>7, FleetAssumption DEF OwnerKept, indexVars
<1>11. IndexPlacesShips'
  BY <1>1, <1>3, <1>6 DEF IndexPlacesShips, indexVars
<1>12. Housekeeping'
  BY <1>1, <1>3 DEF Housekeeping
<1> QED BY <1>8, <1>9, <1>10, <1>11, <1>12

\* A request becomes a stamped record with the owners the index gives, and the
\* record is due on a later tick.
LEMMA CollectKeeps ==
    ASSUME IInv, NEW q \in filed, Collect(q)
    PROVE  NeverTwice' /\ NeverLost' /\ OwnerKept' /\ IndexPlacesShips' /\ Housekeeping'
<1> USE DEF IInv
<1> DEFINE new == Stamp(q)
<1>1. /\ UNCHANGED <<shardTick, phase, live, grid, rosters, locationByShip,
                     ownerByShip, givenTo>>
      /\ applied = {} /\ applied' = {}
      /\ bus' = bus \cup {new}
      /\ filed' = filed \ {q}
      /\ phase = "collect"
  BY DEF Collect, Housekeeping, tickVars, indexVars, knownVars
<1>2. q \in Request
  BY DEF TypeOK
<1>3. \A s \in Ships : new.members[s] # NoRow <=> Leaving(s, q)
  <2>1. \A s \in Ships : q.members[s] # NoRow => q.members[s] \in Wings
    BY <1>2 DEF Request
  <2>2. \A s \in Ships : ownerByShip[s] \in Players \cup {NoPlayer}
    BY DEF TypeOK
  <2> SUFFICES ASSUME NEW s \in Ships, q.members[s] # NoRow
               PROVE  new.members[s] # NoRow
    BY DEF Leaving, Stamp
  <2>3. new.members[s] = [wing |-> q.members[s], owner |-> ownerByShip[s]]
    BY DEF Stamp
  <2>4. new.members[s] \in [wing : Wings, owner : Players \cup {NoPlayer}]
    BY <2>1, <2>2, <2>3
  <2> QED BY <2>4, RowAssumption
<1>4. \A s \in Ships : Leaving(s, q) => new.members[s].owner = ownerByShip[s]
  BY DEF Leaving, Stamp
<1>5. new.applyTick > shardTick
  BY <1>2, TransitAssumption DEF TypeOK, Request, Stamp
<1> HIDE DEF new
<1>6. \A s \in Ships : \A r : InFlight(s, r)' <=> InFlight(s, r) \/ (r = new /\ Leaving(s, q))
  BY <1>1, <1>3 DEF InFlight
<1>7. \A s \in Ships : \A o : Leaving(s, o)' <=> Leaving(s, o) /\ o # q
  BY <1>1 DEF Leaving
<1>8. \A s \in Ships, b \in Anchors : /\ OnGrid(s, b)' <=> OnGrid(s, b)
                                      /\ Docked(s, b)' <=> Docked(s, b)
  BY <1>1 DEF OnGrid, Docked
<1>9. \A s \in Ships : \A r : /\ (InFlight(s, r) => r \in bus)
                              /\ (InFlight(s, r)' => r \in bus')
                              /\ (Leaving(s, r) => r \in filed)
                              /\ (Leaving(s, r)' => r \in filed')
  BY DEF InFlight, Leaving
<1>10. NeverTwice'
  BY <1>1, <1>6, <1>7, <1>8, <1>9 DEF NeverTwice
<1>11. NeverLost'
  <2>1. InService' = InService
    BY <1>1 DEF InService
  <2> QED BY <1>1, <1>6, <1>7, <1>8, <1>9, <2>1 DEF NeverLost
<1>12. OwnerKept'
  BY <1>1, <1>4, <1>6, <1>7, <1>8, <1>9, FleetAssumption DEF OwnerKept
<1>13. IndexPlacesShips'
  BY <1>1, <1>8 DEF IndexPlacesShips
<1>14. Housekeeping'
  BY <1>1, <1>5, <1>8 DEF Housekeeping
<1> QED BY <1>10, <1>11, <1>12, <1>13, <1>14

-----------------------------------------------------------------------------
\* The boot state: one fleet, on the start grid, and nothing in motion.
LEMMA InitPlacement == Init => IInv
<1> SUFFICES ASSUME Init PROVE IInv
  OBVIOUS
<1>1. TypeOK
  BY AnchorAssumption, PlayerAssumption, FleetAssumption, WingAssumption
     DEF Init, TypeOK, Wings, Row, Record, Request
<1>2. \A s \in Ships, a \in Anchors :
        /\ OnGrid(s, a) <=> a = StartAnchor /\ s \in Fleet[BootGrant]
        /\ ~Docked(s, a)
  <2>1. 1 # NoRow
    BY RowAssumption, WingAssumption DEF Wings
  <2> QED BY <2>1 DEF Init, OnGrid, Docked
<1>3. bus = {} /\ filed = {} /\ applied = {} /\ InService = Fleet[BootGrant]
  <2>1. \A g \in Grants : givenTo[g] # NoPlayer <=> g = BootGrant
    BY PlayerAssumption DEF Init
  <2> QED BY <2>1, FleetAssumption DEF Init, InService
<1>4. NeverTwice
  BY <1>2, <1>3 DEF NeverTwice
<1>5. NeverLost
  BY <1>2, <1>3, AnchorAssumption DEF NeverLost
<1>6. OwnerKept
  BY <1>2, <1>3, FleetAssumption, PlayerAssumption DEF OwnerKept, Init
<1>7. IndexPlacesShips
  BY <1>2 DEF IndexPlacesShips, Init
<1>8. Housekeeping
  BY <1>2, <1>3 DEF Housekeeping, Init
<1> QED BY <1>1, <1>4, <1>5, <1>6, <1>7, <1>8 DEF IInv

\* Every step keeps the placement invariant.
LEMMA StepPlacement ==
    ASSUME IInv, [Next]_vars PROVE IInv'
<1>1. TypeOK'
  BY TypeStep DEF IInv
<1>2. NeverTwice' /\ NeverLost' /\ OwnerKept' /\ IndexPlacesShips' /\ Housekeeping'
  <2>1. CASE \/ \E p \in Players : KnownPlayerJoined(p)
             \/ \E p \in Players : ViewerClosed(p)
             \/ \E a \in Anchors : MayView(a)
             \/ \E p \in Players, a \in Anchors : ViewerOpened(p, a)
             \/ BeginTick \/ EndWorlds \/ UNCHANGED vars
    BY <2>1, ViewStepsKeep
  <2>2. CASE Command
    <3>1. \A p \in Players : FleetsOf(p) \subseteq Ships
      BY FleetAssumption DEF FleetsOf
    <3>2. met \subseteq Players
      BY DEF IInv, TypeOK
    <3>3. CASE \E p \in Players, g \in Grants : NewPlayerJoined(p, g)
      BY <3>3, NewPlayerJoinedKeeps
    <3>4. CASE \E p \in Players, a \in Anchors, S \in SUBSET Ships, w \in Wings :
                 AssignWing(p, a, S, w)
      BY <3>4, AssignWingKeeps
    <3>5. CASE \E p \in Players, a \in Anchors, S \in SUBSET Ships : Undock(p, a, S)
      BY <3>5, UndockKeeps
    <3> QED BY <2>1, <2>2, <3>1, <3>2, <3>3, <3>4, <3>5 DEF Command
  <2>3. CASE Tick
    <3>1. live \subseteq Anchors /\ \A a \in Anchors : ShipsOn(a) \subseteq Ships
      BY DEF IInv, TypeOK, ShipsOn
    <3>2. CASE \E r \in bus : ApplyDock(r)
      BY <3>2, ApplyDockKeeps
    <3>3. CASE \E r \in bus : ApplyArrival(r)
      BY <3>3, ApplyArrivalKeeps
    <3>4. CASE EraseApplied
      BY <3>4, EraseAppliedKeeps
    <3>5. CASE \E a, to \in Anchors, kind \in {"Dock", "Transit"}, S \in SUBSET Ships :
                 File(a, kind, to, S)
      BY <3>5, FileKeeps
    <3>6. CASE \E q \in filed : Collect(q)
      BY <3>6, CollectKeeps
    <3>7. CASE TearDownIdle
      BY <3>7, TearDownKeeps
    <3> QED
      BY <2>1, <2>3, <3>1, <3>2, <3>3, <3>4, <3>5, <3>6, <3>7 DEF Tick
  <2>4. CASE Restart
    BY <2>4, RestartKeeps
  <2> QED BY <2>1, <2>2, <2>3, <2>4 DEF Next
<1> QED BY <1>1, <1>2 DEF IInv

LEMMA Placement == Spec => []IInv
  BY InitPlacement, StepPlacement, PTL DEF Spec

\* Every commissioned ship is somewhere, whatever crosses, docks or is torn
\* down, and nothing else is anywhere.
THEOREM NobodyIsLost == Spec => []NeverLost
<1>1. IInv => NeverLost
  BY DEF IInv
<1> QED BY <1>1, Placement, PTL

\* No ship is in two places: two grids, two rosters, two records, or any mix.
THEOREM NobodyIsTwice == Spec => []NeverTwice
<1>1. IInv => NeverTwice
  BY DEF IInv
<1> QED BY <1>1, Placement, PTL

\* So every ship in service is in exactly one place.
THEOREM ShipsAreSomewhereOnce == Spec => []ExactlyOnePlace
<1>1. IInv => ExactlyOnePlace
  BY DEF IInv, ExactlyOnePlace
<1> QED BY <1>1, Placement, PTL

\* A ship stays its commander's through docks, undocks, transits and the
\* teardown of the grid it left.
THEOREM OwnersHold == Spec => []OwnerKept
<1>1. IInv => OwnerKept
  BY DEF IInv
<1> QED BY <1>1, Placement, PTL

\* The index places every ship that is on a grid or docked.
THEOREM IndexAgrees == Spec => []IndexPlacesShips
<1>1. IInv => IndexPlacesShips
  BY DEF IInv
<1> QED BY <1>1, Placement, PTL

\* Between ticks nothing stamped is overdue and nothing waits for a stamp.
THEOREM CrossingsLandOnTime == Spec => []NoOverdueCrossing
<1>1. IInv => NoOverdueCrossing
  BY DEF IInv, Housekeeping, NoOverdueCrossing
<1> QED BY <1>1, Placement, PTL

\* Only a commander whose every ship is docking or undocking is given a second
\* fleet: one with a ship on a grid, on a roster or in a warp is recognised,
\* however often the shard was restarted.
THEOREM KnownByTheirShips == Spec => SecondFleetOnlyMidDock
<1> DEFINE MidDock(s) == \E r \in bus : r.kind \in {"Dock", "Undock"} /\ InFlight(s, r)
<1>1. ASSUME IInv, NEW p \in Players, NEW g \in Grants, NewPlayerJoined(p, g),
             NEW s \in FleetsOf(p)
      PROVE  MidDock(s)
  <2> USE DEF IInv
  <2>1. PICK h \in Grants : givenTo[h] = p /\ s \in Fleet[h]
    BY <1>1 DEF FleetsOf
  <2>2. s \in Ships /\ s \in InService
    BY <1>1, <2>1, FleetAssumption, PlayerAssumption DEF InService
  <2>3. phase = "idle" /\ ~Summarised(p) /\ filed = {} /\ applied = {}
    BY <1>1 DEF NewPlayerJoined, Housekeeping
  <2>4. \A a \in Anchors : ~OnGrid(s, a)
    <3> SUFFICES ASSUME NEW a \in Anchors, OnGrid(s, a) PROVE FALSE
      OBVIOUS
    <3>1. a \in live /\ ownerByShip[s] = p
      BY <1>1, <2>1, <2>2 DEF Housekeeping, OwnerKept
    <3>2. s \in OnGridFor(p, a)
      BY <2>2, <3>1 DEF OnGridFor, ShipsOn, OnGrid
    <3> QED BY <2>3, <3>1, <3>2 DEF Summarised
  <2>5. \A a \in Anchors : ~Docked(s, a)
    BY <1>1, <2>1, <2>2, <2>3 DEF OwnerKept, Summarised, DockedFor, DockedAt, Docked
  <2>6. PICK r \in bus : InFlight(s, r)
    BY <1>1, <2>2, <2>3, <2>4, <2>5 DEF NeverLost
  <2>7. r.members[s].owner = p /\ s \in MembersOf(r)
    BY <1>1, <2>1, <2>2, <2>6 DEF OwnerKept, InFlight, MembersOf
  <2>8. r.kind # "Transit"
    BY <2>3, <2>7 DEF Summarised
  <2>9. r.kind \in {"Dock", "Undock", "Transit"}
    BY <1>1 DEF TypeOK, Record
  <2> QED BY <2>6, <2>8, <2>9
<1>2. ASSUME TypeOK, Next, NEW p \in Players, NEW g \in Grants,
             givenTo[g] # p, givenTo'[g] = p
      PROVE  NewPlayerJoined(p, g)
  <2>1. PICK q \in Players, h \in Grants : NewPlayerJoined(q, h)
    <3> HIDE DEF NewPlayerJoined
    <3>1. Tick => givenTo' = givenTo
      BY DEF Tick, BeginTick, ApplyDock, ApplyArrival, EraseApplied, File, EndWorlds,
         Collect, TearDownIdle, knownVars
    <3>2. Restart => givenTo' = givenTo
      BY DEF Restart
    <3>3. \A q \in Players : KnownPlayerJoined(q) \/ ViewerClosed(q) => givenTo' = givenTo
      BY DEF KnownPlayerJoined, ViewerClosed, knownVars
    <3>4. \A q \in Players, a \in Anchors : MayView(a) \/ ViewerOpened(q, a)
                                             => givenTo' = givenTo
      BY DEF MayView, ViewerOpened, knownVars
    <3>5. \A q, a, S : (\E w \in Wings : AssignWing(q, a, S, w)) \/ Undock(q, a, S)
                         => givenTo' = givenTo
      BY DEF AssignWing, Undock, knownVars
    <3>6. givenTo' # givenTo
      BY <1>2
    <3>7. Command
      BY <1>2, <3>1, <3>2, <3>6 DEF Next
    <3> QED BY <3>3, <3>4, <3>5, <3>6, <3>7, PlayerAssumption DEF Command
  <2>2. givenTo' = [givenTo EXCEPT ![h] = q]
    BY <2>1 DEF NewPlayerJoined
  <2>3. g = h /\ p = q
    BY <1>2, <2>2 DEF TypeOK
  <2> QED BY <2>1, <2>3
<1>3. IInv /\ [Next]_vars =>
        [\A p \in Players, g \in Grants :
           givenTo[g] # p /\ givenTo'[g] = p =>
             \A s \in FleetsOf(p) :
               \E r \in bus : r.kind \in {"Dock", "Undock"} /\ InFlight(s, r)]_vars
  <2> SUFFICES ASSUME IInv, Next, NEW p \in Players, NEW g \in Grants,
                      givenTo[g] # p, givenTo'[g] = p,
                      NEW s \in FleetsOf(p)
               PROVE  MidDock(s)
    OBVIOUS
  <2>1. TypeOK
    BY DEF IInv
  <2>2. NewPlayerJoined(p, g)
    BY <1>2, <2>1
  <2> QED BY <1>1, <2>2
<1> QED BY <1>3, Placement, PTL DEF SecondFleetOnlyMidDock, Spec

-----------------------------------------------------------------------------
(* Holds.  They are counted, so each step that opens or closes a view is   *)
(* one element more or less in the set of commanders that watch a grid.    *)

Watching(a) == {p \in Players : viewerGrid[p] = a}
OwnHold(a) == IF a = StartAnchor THEN 1 ELSE 0

HoldsCounted == \A a \in Anchors : viewers[a] = Cardinality(Watching(a)) + OwnHold(a)
HeldIsLive == \A a \in Anchors : viewers[a] > 0 => a \in live

LEMMA WatchingIsFinite ==
    ASSUME NEW a PROVE IsFiniteSet(Watching(a)) /\ Cardinality(Watching(a)) \in Nat
<1>1. Watching(a) \in SUBSET Players
  BY DEF Watching
<1> QED BY <1>1, PlayerAssumption, FS_Subset, FS_CardinalityType

\* A commander who turns to a grid is one more there and, if they watched
\* another, one fewer on that.
LEMMA TurnTo ==
    ASSUME TypeOK, NEW p \in Players, NEW a \in Anchors \cup {NoAnchor}, viewerGrid[p] # a,
           viewerGrid' = [viewerGrid EXCEPT ![p] = a],
           NEW b \in Anchors
    PROVE  Cardinality(Watching(b)') =
              IF b = a THEN Cardinality(Watching(b)) + 1
              ELSE IF b = viewerGrid[p] THEN Cardinality(Watching(b)) - 1
              ELSE Cardinality(Watching(b))
<1>1. IsFiniteSet(Watching(b))
  BY WatchingIsFinite
<1>2. Watching(b)' = IF b = a THEN Watching(b) \cup {p}
                     ELSE IF b = viewerGrid[p] THEN Watching(b) \ {p}
                     ELSE Watching(b)
  BY DEF Watching, TypeOK
<1>3. p \in Watching(b) <=> b = viewerGrid[p]
  BY DEF Watching
<1>4. Cardinality(Watching(b) \cup {p}) =
        IF p \in Watching(b) THEN Cardinality(Watching(b)) ELSE Cardinality(Watching(b)) + 1
  BY <1>1, FS_AddElement
<1>5. Cardinality(Watching(b) \ {p}) =
        IF p \in Watching(b) THEN Cardinality(Watching(b)) - 1 ELSE Cardinality(Watching(b))
  BY <1>1, FS_RemoveElement
<1> QED BY <1>2, <1>3, <1>4, <1>5

LEMMA ViewerOpenedKeepsHolds ==
    ASSUME IInv, HoldsCounted, HeldIsLive,
           NEW p \in Players, NEW a \in Anchors, ViewerOpened(p, a)
    PROVE  HoldsCounted' /\ HeldIsLive'
<1>1. TypeOK
  BY DEF IInv
<1>2. /\ viewerGrid[p] # a /\ live' = live \cup {a}
      /\ viewerGrid' = [viewerGrid EXCEPT ![p] = a]
      /\ \A b \in Anchors : viewers'[b] = IF b = a THEN viewers[b] + 1
                                          ELSE IF b = viewerGrid[p] /\ viewers[b] > 0
                                          THEN viewers[b] - 1 ELSE viewers[b]
  BY DEF ViewerOpened
<1>3. ASSUME NEW b \in Anchors PROVE viewers'[b] = Cardinality(Watching(b)') + OwnHold(b)
  <2>1. viewers[b] = Cardinality(Watching(b)) + OwnHold(b)
    BY DEF HoldsCounted
  <2>2. Cardinality(Watching(b)) \in Nat /\ OwnHold(b) \in {0, 1}
    BY WatchingIsFinite DEF OwnHold
  <2>3. b = viewerGrid[p] => Cardinality(Watching(b)) # 0
    <3>1. b = viewerGrid[p] => p \in Watching(b)
      BY DEF Watching
    <3> QED BY <3>1, WatchingIsFinite, FS_EmptySet
  <2>4. Cardinality(Watching(b)') =
              IF b = a THEN Cardinality(Watching(b)) + 1
              ELSE IF b = viewerGrid[p] THEN Cardinality(Watching(b)) - 1
              ELSE Cardinality(Watching(b))
    BY <1>1, <1>2, TurnTo
  <2> QED BY <1>2, <2>1, <2>2, <2>3, <2>4
<1>4. HoldsCounted'
  BY <1>3 DEF HoldsCounted, OwnHold
<1>5. HeldIsLive'
  BY <1>1, <1>2 DEF HeldIsLive, TypeOK
<1> QED BY <1>4, <1>5

LEMMA ViewerClosedKeepsHolds ==
    ASSUME IInv, HoldsCounted, HeldIsLive, NEW p \in Players, ViewerClosed(p)
    PROVE  HoldsCounted' /\ HeldIsLive'
<1>1. TypeOK
  BY DEF IInv
<1>2. /\ viewerGrid[p] # NoAnchor /\ live' = live
      /\ viewerGrid' = [viewerGrid EXCEPT ![p] = NoAnchor]
      /\ \A b \in Anchors : viewers'[b] = IF b = viewerGrid[p] /\ viewers[b] > 0
                                          THEN viewers[b] - 1 ELSE viewers[b]
  BY DEF ViewerClosed, placeVars
<1>3. ASSUME NEW b \in Anchors PROVE viewers'[b] = Cardinality(Watching(b)') + OwnHold(b)
  <2>1. viewers[b] = Cardinality(Watching(b)) + OwnHold(b)
    BY DEF HoldsCounted
  <2>2. Cardinality(Watching(b)) \in Nat /\ OwnHold(b) \in {0, 1}
    BY WatchingIsFinite DEF OwnHold
  <2>3. b = viewerGrid[p] => Cardinality(Watching(b)) # 0
    <3>1. b = viewerGrid[p] => p \in Watching(b)
      BY DEF Watching
    <3> QED BY <3>1, WatchingIsFinite, FS_EmptySet
  <2>4. b # NoAnchor
    BY AnchorAssumption
  <2>5. Cardinality(Watching(b)') = IF b = viewerGrid[p] THEN Cardinality(Watching(b)) - 1
                                    ELSE Cardinality(Watching(b))
    BY <1>1, <1>2, <2>4, TurnTo
  <2> QED BY <1>2, <2>1, <2>2, <2>3, <2>5
<1>4. HoldsCounted'
  BY <1>3 DEF HoldsCounted, OwnHold
<1>5. HeldIsLive'
  BY <1>1, <1>2 DEF HeldIsLive, TypeOK
<1> QED BY <1>4, <1>5

\* The other steps leave the holds alone, and let no grid go that is held.
LEMMA StepHolds ==
    ASSUME IInv, HoldsCounted, HeldIsLive, [Next]_vars
    PROVE  HoldsCounted' /\ HeldIsLive'
<1>1. TypeOK
  BY DEF IInv
<1>2. CASE UNCHANGED viewVars /\ live \subseteq live'
  BY <1>2 DEF viewVars, HoldsCounted, HeldIsLive, Watching, OwnHold
<1>3. CASE TearDownIdle
  <2>1. UNCHANGED viewVars /\ live' = live \ Idle
    BY <1>3 DEF TearDownIdle
  <2>2. \A a \in Idle : viewers[a] = 0
    BY DEF Idle
  <2>3. HoldsCounted'
    BY <2>1 DEF viewVars, HoldsCounted, Watching, OwnHold
  <2>4. HeldIsLive'
    BY <1>1, <2>1, <2>2 DEF viewVars, HeldIsLive, TypeOK
  <2> QED BY <2>3, <2>4
<1>4. CASE Restart
  <2>1. /\ viewers' = [a \in Anchors |-> OwnHold(a)]
        /\ viewerGrid' = [p \in Players |-> NoAnchor]
        /\ StartAnchor \in live'
    BY <1>4 DEF Restart, OwnHold
  <2>2. \A a \in Anchors : Watching(a)' = {}
    BY <2>1, AnchorAssumption DEF Watching
  <2>3. HoldsCounted'
    <3>1. \A a \in Anchors : Cardinality(Watching(a)') = 0
      BY <2>2, FS_EmptySet
    <3> QED BY <2>1, <3>1 DEF HoldsCounted, OwnHold
  <2>4. HeldIsLive'
    BY <2>1 DEF HeldIsLive, OwnHold
  <2> QED BY <2>3, <2>4
<1>5. CASE \E p \in Players, a \in Anchors : ViewerOpened(p, a)
  BY <1>5, ViewerOpenedKeepsHolds
<1>6. CASE \E p \in Players : ViewerClosed(p)
  BY <1>6, ViewerClosedKeepsHolds
<1>7. CASE \/ \E p \in Players : KnownPlayerJoined(p)
           \/ \E p \in Players, g \in Grants : NewPlayerJoined(p, g)
           \/ \E a \in Anchors : MayView(a)
           \/ \E p, a, S : (\E w \in Wings : AssignWing(p, a, S, w)) \/ Undock(p, a, S)
  BY <1>2, <1>7 DEF KnownPlayerJoined, NewPlayerJoined, MayView, AssignWing, Undock, placeVars
<1>8. CASE Tick
  BY ZenonT(40), <1>2, <1>3, <1>8 DEF Tick, BeginTick, ApplyDock, ApplyArrival, EraseApplied, File,
     EndWorlds, Collect, placeVars
<1>9. CASE UNCHANGED vars
  BY <1>2, <1>9 DEF vars, viewVars
<1>10. CASE Command
  BY <1>5, <1>6, <1>7, <1>10 DEF Command
<1> QED BY <1>4, <1>8, <1>9, <1>10 DEF Next

\* Views and the composition root's bookkeeping agree in every interleaving of
\* joins, view changes, dropped sockets and ticks: the count on a grid is exactly
\* its watchers, and no watched grid is torn down.
THEOREM WatchedGridsStay == Spec => []ViewsHoldGrids
<1>1. Init => HoldsCounted /\ HeldIsLive
  <2> SUFFICES ASSUME Init PROVE HoldsCounted /\ HeldIsLive
    OBVIOUS
  <2>1. \A a \in Anchors : Watching(a) = {}
    BY AnchorAssumption DEF Init, Watching
  <2>2. HoldsCounted
    <3>1. \A a \in Anchors : Cardinality(Watching(a)) = 0
      BY <2>1, FS_EmptySet
    <3> QED BY <3>1 DEF Init, HoldsCounted, OwnHold
  <2>3. HeldIsLive
    BY DEF Init, HeldIsLive
  <2> QED BY <2>2, <2>3
<1>2. IInv /\ HoldsCounted /\ HeldIsLive => ViewsHoldGrids
  BY DEF IInv, HoldsCounted, HeldIsLive, Housekeeping, ViewsHoldGrids, Watching, OwnHold
<1> QED BY <1>1, <1>2, Placement, StepHolds, PTL DEF Spec

-----------------------------------------------------------------------------
(* Wings.  The population of a wing is counted in three places, so that it *)
(* is nobody's, or exactly a group's, is a statement about three finite    *)
(* sets; that the count is of one commander needs a record to be one       *)
(* commander's, which nothing on the record says.                          *)

LeavingIn(q) == {s \in Ships : q.members[s] # NoRow}

OneHand ==
    /\ IsFiniteSet(bus)
    /\ \A r \in bus : \A s, t \in MembersOf(r) : r.members[s].owner = r.members[t].owner
    /\ \A q \in filed : \A s, t \in LeavingIn(q) : ownerByShip[s] = ownerByShip[t]

LEMMA UndockOneHand ==
    ASSUME IInv, OneHand, NEW p \in Players, NEW a \in Anchors, NEW S \in SUBSET Ships,
           Undock(p, a, S)
    PROVE  OneHand'
<1> DEFINE rec == [id |-> nextTransfer, applyTick |-> shardTick + 1,
                   kind |-> "Undock", anchor |-> a,
                   members |-> [s \in Ships |-> IF s \in S THEN rosters[a][s] ELSE NoRow]]
<1>1. bus' = bus \cup {rec} /\ UNCHANGED <<filed, ownerByShip>> /\ S \subseteq DockedFor(p, a)
  BY DEF Undock, indexVars
<1>2. \A s \in MembersOf(rec) : rec.members[s].owner = p
  <2>1. \A s \in MembersOf(rec) : s \in S /\ rec.members[s] = rosters[a][s]
    BY DEF MembersOf
  <2>2. \A s \in S : rosters[a][s].owner = p
    BY <1>1 DEF DockedFor
  <2> QED BY <2>1, <2>2
<1>3. IsFiniteSet(bus')
  BY <1>1, FS_AddElement DEF OneHand
<1> HIDE DEF rec
<1> QED BY <1>1, <1>2, <1>3 DEF OneHand, MembersOf, LeavingIn

LEMMA CollectOneHand ==
    ASSUME IInv, OneHand, NEW q \in filed, Collect(q)
    PROVE  OneHand'
<1>1. bus' = bus \cup {Stamp(q)} /\ filed' = filed \ {q} /\ UNCHANGED ownerByShip
  BY DEF Collect, indexVars
<1>2. \A s \in MembersOf(Stamp(q)) : /\ s \in LeavingIn(q)
                                     /\ Stamp(q).members[s].owner = ownerByShip[s]
  BY DEF Stamp, MembersOf, LeavingIn
<1>3. IsFiniteSet(bus')
  BY <1>1, FS_AddElement DEF OneHand
<1>4. \A s, t \in MembersOf(Stamp(q)) : Stamp(q).members[s].owner = Stamp(q).members[t].owner
  BY <1>2 DEF OneHand
<1> HIDE DEF Stamp
<1> QED BY <1>1, <1>3, <1>4 DEF OneHand, MembersOf, LeavingIn

LEMMA FileOneHand ==
    ASSUME IInv, OneHand, NEW a, NEW kind, NEW to, NEW S \in SUBSET Ships, File(a, kind, to, S)
    PROVE  OneHand'
<1> DEFINE req == [from |-> a, kind |-> kind, anchor |-> to,
                   members |-> [s \in Ships |-> IF s \in S THEN grid[a][s] ELSE NoRow]]
<1>1. filed' = filed \cup {req} /\ UNCHANGED <<bus, ownerByShip>>
  BY DEF File, indexVars
<1>2. LeavingIn(req) \subseteq S
  BY DEF LeavingIn
<1>3. \A s, t \in S : ownerByShip[s] = ownerByShip[t]
  BY DEF File
<1>4. \A s, t \in LeavingIn(req) : ownerByShip[s] = ownerByShip[t]
  BY <1>2, <1>3
<1> HIDE DEF req
<1> QED BY <1>1, <1>4 DEF OneHand, MembersOf, LeavingIn

LEMMA StepOneHand ==
    ASSUME IInv, OneHand, [Next]_vars
    PROVE  OneHand'
<1>1. CASE UNCHANGED <<bus, filed, ownerByShip>>
  BY <1>1 DEF OneHand, MembersOf, LeavingIn
<1>2. CASE UNCHANGED bus /\ filed = {} /\ filed' = {}
  BY <1>2 DEF OneHand, MembersOf, LeavingIn
<1>3. CASE EraseApplied
  <2>1. bus' = bus \ applied /\ UNCHANGED <<filed, ownerByShip>>
    BY <1>3 DEF EraseApplied, indexVars
  <2>2. IsFiniteSet(bus')
    BY <2>1, FS_Difference DEF OneHand
  <2> QED BY <2>1, <2>2 DEF OneHand, MembersOf, LeavingIn
<1>4. phase \notin {"worlds", "collect"} => filed = {}
  BY DEF IInv, Housekeeping
<1>5. CASE \/ \E p \in Players, g \in Grants : NewPlayerJoined(p, g)
           \/ \E r \in bus : ApplyDock(r) \/ ApplyArrival(r)
           \/ TearDownIdle \/ Restart
  BY <1>2, <1>4, <1>5 DEF NewPlayerJoined, ApplyDock, ApplyArrival, TearDownIdle, Restart
<1>6. CASE \/ \E p \in Players : KnownPlayerJoined(p) \/ ViewerClosed(p)
           \/ \E a \in Anchors : MayView(a)
           \/ \E p \in Players, a \in Anchors : ViewerOpened(p, a)
           \/ \E p, a, S : \E w \in Wings : AssignWing(p, a, S, w)
           \/ BeginTick \/ EndWorlds \/ UNCHANGED vars
  BY <1>1, <1>6 DEF KnownPlayerJoined, ViewerClosed, MayView, ViewerOpened, AssignWing,
     BeginTick, EndWorlds, vars, placeVars, indexVars
<1>7. CASE \E p \in Players, a \in Anchors, S \in SUBSET Ships : Undock(p, a, S)
  BY <1>7, UndockOneHand
<1>8. CASE \E a, kind, to : \E S \in SUBSET Ships : File(a, kind, to, S)
  BY <1>8, FileOneHand
<1>9. CASE \E q \in filed : Collect(q)
  BY <1>9, CollectOneHand
<1>10. CASE Command
  <2>1. \A p \in Players : FleetsOf(p) \subseteq Ships
    BY FleetAssumption DEF FleetsOf
  <2>2. met \subseteq Players
    BY DEF IInv, TypeOK
  <2> QED BY <1>5, <1>6, <1>7, <1>10, <2>1, <2>2 DEF Command
<1>11. CASE Tick
  <2>1. \A a : ShipsOn(a) \subseteq Ships
    BY DEF ShipsOn
  <2> QED BY <1>3, <1>5, <1>6, <1>8, <1>9, <1>11, <2>1 DEF Tick
<1> QED BY <1>5, <1>6, <1>10, <1>11 DEF Next

GridsWear(p, w) == {x \in live \X Ships : grid[x[1]][x[2]] = w /\ ownerByShip[x[2]] = p}
RostersWear(p, w) == {x \in Anchors \X Ships : rosters[x[1]][x[2]] = [wing |-> w, owner |-> p]}
BusWears(p, w) == {x \in bus \X Ships : x[1].members[x[2]] = [wing |-> w, owner |-> p]}

\* The population of a wing is the size of three finite sets.
LEMMA PopulationParts ==
    ASSUME TypeOK, IsFiniteSet(bus), NEW p, NEW w, w # 0
    PROVE  /\ IsFiniteSet(GridsWear(p, w)) /\ IsFiniteSet(RostersWear(p, w))
           /\ IsFiniteSet(BusWears(p, w))
           /\ Cardinality(GridsWear(p, w)) \in Nat /\ Cardinality(RostersWear(p, w)) \in Nat
           /\ Cardinality(BusWears(p, w)) \in Nat
           /\ WingPopulation(p, w) = Cardinality(GridsWear(p, w))
                + Cardinality(RostersWear(p, w)) + Cardinality(BusWears(p, w))
<1>1. IsFiniteSet(live)
  BY AnchorAssumption, FS_Subset DEF TypeOK
<1>2. IsFiniteSet(live \X Ships) /\ IsFiniteSet(Anchors \X Ships) /\ IsFiniteSet(bus \X Ships)
  BY <1>1, AnchorAssumption, FleetAssumption, FS_Product
<1>3. /\ GridsWear(p, w) \in SUBSET (live \X Ships)
      /\ RostersWear(p, w) \in SUBSET (Anchors \X Ships)
      /\ BusWears(p, w) \in SUBSET (bus \X Ships)
  BY DEF GridsWear, RostersWear, BusWears
<1>4. IsFiniteSet(GridsWear(p, w)) /\ IsFiniteSet(RostersWear(p, w)) /\ IsFiniteSet(BusWears(p, w))
  BY <1>2, <1>3, FS_Subset
<1>5. WingPopulation(p, w) = Cardinality(GridsWear(p, w))
                + Cardinality(RostersWear(p, w)) + Cardinality(BusWears(p, w))
  BY DEF WingPopulation, GridsWear, RostersWear, BusWears
<1> QED BY <1>4, <1>5, FS_CardinalityType

LEMMA PopulationIsNat ==
    ASSUME TypeOK, IsFiniteSet(bus), NEW p, NEW w PROVE WingPopulation(p, w) \in Nat
<1>1. CASE w = 0
  BY <1>1 DEF WingPopulation
<1>2. CASE w # 0
  BY <1>2, PopulationParts
<1> QED BY <1>1, <1>2

LEMMA NobodyWears ==
    ASSUME TypeOK, IsFiniteSet(bus), NEW p, NEW w, w # 0, WingPopulation(p, w) = 0
    PROVE  GridsWear(p, w) = {} /\ RostersWear(p, w) = {} /\ BusWears(p, w) = {}
<1>1. /\ Cardinality(GridsWear(p, w)) = 0 /\ Cardinality(RostersWear(p, w)) = 0
      /\ Cardinality(BusWears(p, w)) = 0
  BY PopulationParts
<1> QED BY <1>1, PopulationParts, FS_EmptySet

\* A group on the bus all of whose members wear a wing, and as large as the wing's
\* population, is everybody who wears it.
LEMMA OnlyTheGroupWears ==
    ASSUME TypeOK, IsFiniteSet(bus), NEW r \in bus, NEW p, NEW w, w # 0,
           \A s \in MembersOf(r) : r.members[s] = [wing |-> w, owner |-> p],
           WingPopulation(p, w) = Cardinality(MembersOf(r))
    PROVE  /\ GridsWear(p, w) = {} /\ RostersWear(p, w) = {}
           /\ \A x \in BusWears(p, w) : x[2] \in MembersOf(r)
<1> DEFINE group == {r} \X MembersOf(r)
<1>1. MembersOf(r) \in SUBSET Ships
  BY DEF MembersOf
<1>2. IsFiniteSet(MembersOf(r)) /\ Cardinality(MembersOf(r)) \in Nat
  BY <1>1, FleetAssumption, FS_Subset, FS_CardinalityType
<1>3. IsFiniteSet(group) /\ Cardinality(group) = Cardinality(MembersOf(r))
  <2>1. IsFiniteSet({r}) /\ Cardinality({r}) = 1
    BY FS_Singleton
  <2>2. IsFiniteSet(group) /\ Cardinality(group) = 1 * Cardinality(MembersOf(r))
    BY <1>2, <2>1, FS_Product
  <2> QED BY <1>2, <2>2
<1>4. group \in SUBSET BusWears(p, w)
  BY <1>1 DEF BusWears
<1>5. Cardinality(group) <= Cardinality(BusWears(p, w))
  BY <1>4, PopulationParts, FS_Subset
<1>6. /\ Cardinality(GridsWear(p, w)) = 0 /\ Cardinality(RostersWear(p, w)) = 0
      /\ Cardinality(BusWears(p, w)) = Cardinality(group)
  <2> HIDE DEF group
  <2> QED BY <1>2, <1>3, <1>5, PopulationParts
<1>7. GridsWear(p, w) = {} /\ RostersWear(p, w) = {}
  BY <1>6, PopulationParts, FS_EmptySet
<1>8. BusWears(p, w) = group
  BY <1>4, <1>6, PopulationParts, FS_Subset
<1> QED BY <1>7, <1>8

\* What the two cases have in common: no ship of p's outside a group wears w.
LEMMA NobodyElseWears ==
    ASSUME IInv, NEW group, NEW p \in Players, NEW w \in 1..WingCount,
           GridsWear(p, w) = {}, RostersWear(p, w) = {},
           \A x \in BusWears(p, w) : x[2] \in group,
           NEW s \in FleetsOf(p) \ group
    PROVE  /\ \A a \in Anchors : grid[a][s] # w
           /\ \A a \in Anchors : Docked(s, a) => rosters[a][s].wing # w
           /\ \A t \in bus : InFlight(s, t) => t.members[s].wing # w
<1>1. PICK g \in Grants : givenTo[g] = p /\ s \in Fleet[g]
  BY DEF FleetsOf
<1>2. s \in Ships /\ w # NoRow /\ w # 0
  BY <1>1, FleetAssumption, RowAssumption, WingAssumption DEF Wings
<1>3. ASSUME NEW a \in Anchors, grid[a][s] = w PROVE FALSE
  <2>1. OnGrid(s, a)
    BY <1>2, <1>3 DEF OnGrid
  <2>2. a \in live /\ ownerByShip[s] = p
    BY <1>1, <1>2, <2>1 DEF IInv, Housekeeping, OwnerKept
  <2>3. <<a, s>> \in GridsWear(p, w)
    BY <1>2, <1>3, <2>2 DEF GridsWear
  <2> QED BY <2>3
<1>4. ASSUME NEW a \in Anchors, Docked(s, a), rosters[a][s].wing = w PROVE FALSE
  <2>1. rosters[a][s].owner = p
    BY <1>1, <1>2, <1>4 DEF IInv, OwnerKept
  <2>2. rosters[a][s] \in Row
    BY <1>2, <1>4 DEF IInv, TypeOK, Docked
  <2>3. rosters[a][s] = [wing |-> w, owner |-> p]
    BY <1>4, <2>1, <2>2 DEF Row
  <2>4. <<a, s>> \in RostersWear(p, w)
    BY <1>2, <2>3 DEF RostersWear
  <2> QED BY <2>4
<1>5. ASSUME NEW t \in bus, InFlight(s, t), t.members[s].wing = w PROVE FALSE
  <2>1. t.members[s].owner = p
    BY <1>1, <1>2, <1>5 DEF IInv, OwnerKept
  <2>2. t.members[s] \in Row
    BY <1>2, <1>5 DEF IInv, TypeOK, InFlight, Record
  <2>3. t.members[s] = [wing |-> w, owner |-> p]
    BY <1>5, <2>1, <2>2 DEF Row
  <2>4. <<t, s>> \in BusWears(p, w)
    BY <1>2, <2>3 DEF BusWears
  <2> QED BY <2>4
<1> QED BY <1>3, <1>4, <1>5

\* What a dock writes down: the group under wing w, which nobody else wears.
DockedAs(r, w) ==
    /\ \A s \in MembersOf(r) : rosters'[r.anchor][s].wing = w
    /\ \A p \in Players : \A s \in FleetsOf(p) \ MembersOf(r) :
         (\E m \in MembersOf(r) : m \in FleetsOf(p)) =>
           /\ \A a \in Anchors : grid[a][s] # w
           /\ \A a \in Anchors : Docked(s, a) => rosters[a][s].wing # w
           /\ \A t \in bus : InFlight(s, t) => t.members[s].wing # w

LEMMA DockStep ==
    ASSUME IInv, OneHand, NEW r \in bus, ApplyDock(r)
    PROVE  \/ \E w \in 1..WingCount : DockedAs(r, w)
           \/ \A w \in 1..WingCount, s \in MembersOf(r) :
                WingPopulation(r.members[s].owner, w) > 0
<1> DEFINE group == MembersOf(r)
           first == CHOOSE s \in group : TRUE
           lead == r.members[first]
           uniform == \A s \in group : r.members[s].wing = lead.wing
           whole == WingPopulation(lead.owner, lead.wing) = Cardinality(group)
<1>1. TypeOK /\ IsFiniteSet(bus)
  BY DEF IInv, OneHand
<1>2. /\ r \in Record /\ r.anchor \in Anchors /\ group \subseteq Ships
      /\ \A s \in group : r.members[s] \in Row
  BY <1>1 DEF TypeOK, Record, MembersOf
<1>3. \A s \in group : InFlight(s, r)
  BY DEF ApplyDock, IsNext, Due, MembersOf, InFlight
<1>4. PICK formed \in WingForDockedGroup(r) :
          \A s \in group : rosters'[r.anchor][s] =
              [wing |-> IF formed = 0 THEN r.members[s].wing ELSE formed,
               owner |-> r.members[s].owner]
  BY <1>1, <1>2 DEF ApplyDock, TypeOK
<1>5. CASE group = {}
  <2>1. 1 \in 1..WingCount
    BY WingAssumption
  <2>2. DockedAs(r, 1)
    BY <1>5 DEF DockedAs
  <2> QED BY <2>1, <2>2
<1>6. CASE group # {}
  <2>1. first \in group
    BY <1>6
  <2>2. \A s \in group : r.members[s].owner = lead.owner
    BY <2>1 DEF OneHand
  <2>3. ASSUME NEW p \in Players, NEW m \in group, m \in FleetsOf(p) PROVE p = lead.owner
    <3>1. PICK g \in Grants : givenTo[g] = p /\ m \in Fleet[g]
      BY <2>3 DEF FleetsOf
    <3>2. r.members[m].owner = p
      BY <1>3, <2>3, <3>1 DEF IInv, OwnerKept
    <3> QED BY <2>2, <3>2
  <2>4. ASSUME NEW w \in 1..WingCount,
               \A s \in group : rosters'[r.anchor][s].wing = w,
               GridsWear(lead.owner, w) = {}, RostersWear(lead.owner, w) = {},
               \A x \in BusWears(lead.owner, w) : x[2] \in group
        PROVE  DockedAs(r, w)
    <3> HIDE DEF lead, group
    <3>1. ASSUME NEW p \in Players, NEW s \in FleetsOf(p) \ group,
                 NEW m \in group, m \in FleetsOf(p)
          PROVE  /\ \A a \in Anchors : grid[a][s] # w
                 /\ \A a \in Anchors : Docked(s, a) => rosters[a][s].wing # w
                 /\ \A t \in bus : InFlight(s, t) => t.members[s].wing # w
      <4>1. p = lead.owner
        BY <2>3, <3>1
      <4> QED BY <2>4, <4>1, NobodyElseWears
    <3> QED BY <2>4, <3>1 DEF DockedAs, group
  <2>5. CASE uniform /\ lead.wing # 0 /\ whole
    <3>1. lead.wing \in 1..WingCount
      BY <1>2, <2>1, <2>5, WingAssumption DEF Row, Wings
    <3>2. formed = 0
      BY <2>5 DEF WingForDockedGroup
    <3>3. ASSUME NEW s \in group PROVE rosters'[r.anchor][s].wing = lead.wing
      <4> HIDE DEF group, lead
      <4>1. r.members[s].wing = lead.wing
        BY <2>5
      <4>2. rosters'[r.anchor][s] = [wing |-> r.members[s].wing, owner |-> r.members[s].owner]
        BY <1>4, <3>2
      <4> QED BY <4>1, <4>2
    <3>4. \A s \in group : r.members[s] = [wing |-> lead.wing, owner |-> lead.owner]
      BY <1>2, <2>2, <2>5 DEF Row
    <3>5. /\ GridsWear(lead.owner, lead.wing) = {} /\ RostersWear(lead.owner, lead.wing) = {}
          /\ \A x \in BusWears(lead.owner, lead.wing) : x[2] \in group
      <4> HIDE DEF lead
      <4> QED BY <1>1, <2>5, <3>4, OnlyTheGroupWears
    <3> QED BY <2>4, <3>1, <3>3, <3>5
  <2>6. CASE ~(uniform /\ lead.wing # 0 /\ whole)
    <3>1. formed \in UnusedWingFor(lead.owner)
      BY <1>4, <1>6, <2>6 DEF WingForDockedGroup
    <3>2. CASE \E w \in 1..WingCount : WingPopulation(lead.owner, w) = 0
      <4>1. formed \in 1..WingCount /\ WingPopulation(lead.owner, formed) = 0
        <5> HIDE DEF lead
        <5> QED BY <3>1, <3>2 DEF UnusedWingFor
      <4>2. formed # 0
        BY <4>1, WingAssumption
      <4>3. ASSUME NEW s \in group PROVE rosters'[r.anchor][s].wing = formed
        <5> HIDE DEF group, lead
        <5>1. rosters'[r.anchor][s] = [wing |-> formed, owner |-> r.members[s].owner]
          BY <1>4, <4>2
        <5> QED BY <5>1
      <4>4. /\ GridsWear(lead.owner, formed) = {} /\ RostersWear(lead.owner, formed) = {}
            /\ BusWears(lead.owner, formed) = {}
        <5> HIDE DEF lead
        <5> QED BY <1>1, <4>1, <4>2, NobodyWears
      <4> QED BY <2>4, <4>1, <4>3, <4>4
    <3>3. CASE \A w \in 1..WingCount : WingPopulation(lead.owner, w) # 0
      <4>1. \A w : WingPopulation(lead.owner, w) \in Nat
        <5> HIDE DEF lead
        <5> QED BY <1>1, PopulationIsNat
      <4>2. ASSUME NEW w \in 1..WingCount PROVE WingPopulation(lead.owner, w) > 0
        <5> DEFINE n == WingPopulation(lead.owner, w)
        <5>1. n \in Nat /\ n # 0
          BY <3>3, <4>1
        <5> HIDE DEF n
        <5>2. n > 0
          BY <5>1
        <5> QED BY <5>2 DEF n
      <4> QED BY <2>2, <4>2
    <3> QED BY <3>2, <3>3
  <2> QED BY <2>5, <2>6
<1> QED BY <1>5, <1>6

\* Ships that dock together come off the roster as one wing of their own, over any
\* history of docks, undocks, warps and assignments: the head count that decides
\* whether they are a whole wing already is never fooled by where the others are.
THEOREM GroupsDockAsWings == Spec => DockFormsAWing
<1>1. Init => OneHand
  BY FS_EmptySet DEF Init, OneHand
<1>2. IInv /\ OneHand /\ [Next]_vars =>
        [\A r \in bus : ApplyDock(r) =>
             \/ \E w \in 1..WingCount : DockedAs(r, w)
             \/ \A w \in 1..WingCount, s \in MembersOf(r) :
                  WingPopulation(r.members[s].owner, w) > 0]_vars
  BY DockStep
<1>3. [\A r \in bus : ApplyDock(r) =>
             \/ \E w \in 1..WingCount : DockedAs(r, w)
             \/ \A w \in 1..WingCount, s \in MembersOf(r) :
                  WingPopulation(r.members[s].owner, w) > 0]_vars =>
      [\A r \in bus :
         ApplyDock(r) =>
           \/ \E w \in 1..WingCount :
                /\ \A s \in MembersOf(r) : rosters'[r.anchor][s].wing = w
                /\ \A p \in Players : \A s \in FleetsOf(p) \ MembersOf(r) :
                     (\E m \in MembersOf(r) : m \in FleetsOf(p)) =>
                       /\ \A a \in Anchors : grid[a][s] # w
                       /\ \A a \in Anchors :
                            Docked(s, a) => rosters[a][s].wing # w
                       /\ \A t \in bus : InFlight(s, t) => t.members[s].wing # w
           \/ \A w \in 1..WingCount, s \in MembersOf(r) :
                WingPopulation(r.members[s].owner, w) > 0]_vars
  BY DEF DockedAs
<1> QED BY <1>1, <1>2, <1>3, Placement, StepOneHand, PTL DEF Spec, DockFormsAWing

=============================================================================
