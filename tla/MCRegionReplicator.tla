------------------------- MODULE MCRegionReplicator -------------------------
(* Instances of RegionReplicator for TLC: two rows of one moment and a later one. *)
EXTENDS RegionReplicator

CONSTANTS g1, g2

ThreeRows == {<<1, 1>>, <<1, 2>>, <<2, 1>>}
=============================================================================
