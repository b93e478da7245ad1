------------------------- MODULE MC_ManifestPacking -------------------------
(***************************************************************************)
(* Two manifests with two bags each, one shipment of two parcels, and two  *)
(* stations.                                                               *)
(***************************************************************************)
EXTENDS ManifestPacking, TLC

CONSTANTS m1, m2, s1, p1, p2, w1, w2

OneShipment == [p \in Parcels |-> s1]
UnitWeight == [p \in Parcels |-> 1]
Symmetry == Permutations(Manifests) \cup Permutations(Parcels) \cup Permutations(Stations)
=============================================================================
