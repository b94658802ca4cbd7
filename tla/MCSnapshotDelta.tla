--------------------------- MODULE MCSnapshotDelta ---------------------------
(* The instances of SnapshotDelta that TLC checks: one ship of the viewer's  *)
(* own and two of others, which are alike.                                   *)
EXTENDS SnapshotDelta, TLC

CONSTANTS s1, s2, s3

MCShips == {s1, s2, s3}
MCOwned == {s1}
MCSymmetry == Permutations({s2, s3})
=============================================================================
