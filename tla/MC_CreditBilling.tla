-------------------------- MODULE MC_CreditBilling --------------------------
(***************************************************************************)
(* Two shipments, two periods that can be closed and one payment: enough   *)
(* for an invoice to be on one statement and its increase on another, for  *)
(* a statement to hold two invoices, and for each to be reduced, cancelled,*)
(* paid or written off before and after.                                   *)
(***************************************************************************)
EXTENDS CreditBilling, TLC

CONSTANT p1

MCPaymentAmount == p1 :> 3
\* The first shipment is repriced, the second keeps its price.
MCRevisedTotals == <<{1, 3}, {}>>
=============================================================================
