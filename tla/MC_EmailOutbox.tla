--------------------------- MODULE MC_EmailOutbox ---------------------------
(***************************************************************************)
(* One row, which may be an operational reminder, and three workers with   *)
(* two attempts: rows meet only where a worker chooses among them, so what *)
(* can go wrong with a row goes wrong with one.  Three workers and one     *)
(* fault let a claim be taken for dead, taken over, given back by the      *)
(* worker thought dead, and taken over again; failing calls are unlimited. *)
(***************************************************************************)
EXTENDS EmailOutbox, TLC

CONSTANTS m1, w1, w2, w3

MCAddress == m1 :> "customer"
=============================================================================
