------------------------- MODULE MC_ShipmentBooking -------------------------
(***************************************************************************)
(* Small instances of ShipmentBooking: an active facility without prepaid  *)
(* money whose line covers the bookings, one draft, the requests for it    *)
(* and one reconciliation.                                                 *)
(***************************************************************************)
EXTENDS ShipmentBooking, TLC

CONSTANTS a1, a2, a3, r1, d1

TwoAttempts == {a1, a2}
ThreeAttempts == {a1, a2, a3}
OneDraft == {d1}
AllOfOneDraft == [a \in Attempts |-> d1]
UnitPrice == [a \in Attempts |-> 1]
MCReconciliations == {r1}
MCCallers == Attempts \cup MCReconciliations
Symmetry == Permutations(Attempts)

ActiveInit ==
    /\ account = [status |-> "ACTIVE", approvedCreditLimit |-> 2,
                  reservedCredit |-> 0, unbilledCredit |-> 0,
                  invoicedOutstanding |-> 0, customerAdvance |-> 0,
                  reservedAdvance |-> 0]
    /\ validity = "open" /\ overdueDays = NotOverdue
    /\ received = 0 /\ settled = 0
    /\ InUse /\ BookingInit

BookingSpec == ActiveInit /\ [][BookingNext]_allVars
FairBookingSpec == BookingSpec /\ Fairness
=============================================================================
