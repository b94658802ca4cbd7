----------------------------- MODULE MCRegistry -----------------------------
(* Two commanders; the first has two ships, so that wings form, split and  *)
(* meet; both anchors are stations, and the first is the start grid.  The  *)
(* third ship is the second commander's fleet, or, after a restart, a      *)
(* second one of the first's.                                              *)
EXTENDS Registry, TLC

CONSTANTS s1, s2, s3

MCAnchors == {1, 2}
MCStations == {1, 2}
MCShips == {s1, s2, s3}
MCPlayers == {1, 2}
MCGrants == {1, 2}
MCFleet == [g \in Grants |-> IF g = 1 THEN {s1, s2} ELSE {s3}]
MCTransitTicks == [a \in Anchors |-> [b \in Anchors |-> 2]]

\* The two ships of one commander are alike: nothing in Registry orders ships,
\* and the one ship it chooses stands for a group of one wing and one owner.
MCSymmetry == Permutations({s1, s2})

=============================================================================
