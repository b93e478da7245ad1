------------------------ MODULE MC_RazorpayPayments ------------------------
(***************************************************************************)
(* Two requests handled at the same time; in each scenario the orders that *)
(* can disturb each other: two top-ups under one daily limit, two security *)
(* deposits of one account, one credit payment, one public booking.  The   *)
(* two top-ups pay the same, so that they may be exchanged.  Next to the   *)
(* creation of two top-ups Razorpay sends two events and no handler stops: *)
(* the deposits, which are credited by the same code, have three and one.  *)
(***************************************************************************)
EXTENDS RazorpayPayments, TLC

CONSTANTS t1, t2, d1, d2, c1, p1, h1, h2

MCScenarios == {{t1, t2}, {d1, d2}, {c1}, {p1}}
MCAmount == t1 :> 2 @@ t2 :> 2
MCMaxEvents == [s \in MCScenarios |-> IF s = {t1, t2} THEN 2 ELSE 3]
MCMaxCrashes == [s \in MCScenarios |-> IF s = {t1, t2} THEN 0 ELSE 1]
Symmetry ==
    Permutations({h1, h2}) \cup Permutations({t1, t2}) \cup Permutations({d1, d2})
=============================================================================
