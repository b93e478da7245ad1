----------------------------- MODULE MC_Pickups -----------------------------
(***************************************************************************)
(* Two pickup requests for one shipment of two parcels, two attempts in    *)
(* all, and one call at a time beside the transactions.                    *)
(***************************************************************************)
EXTENDS Pickups, TLC

CONSTANTS r1, r2, s1, p1, p2, c1

OneShipment == [p \in Parcels |-> s1]

\* A bound: a behaviour is followed to the first write from a stale copy or by
\* a call that died halfway, that write included.
Undisturbed == strayed = {}

Symmetry == Permutations(Requests) \cup Permutations(Parcels)
=============================================================================
