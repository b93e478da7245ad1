-------------------------- MODULE ChargeSettlement --------------------------
(***************************************************************************)
(* The two calculations by which the charge of a booked shipment changes   *)
(* afterwards: calculateAmendmentBillingAdjustment (an approved amendment  *)
(* or a final weight verification) and calculateCancellationAmounts with   *)
(* calculateCancellationSettlement (an approved cancellation).             *)
(*                                                                         *)
(* An invoice is a record with its total, the Customer Advance applied to  *)
(* it and the credit still outstanding on it.  What the two do not account *)
(* for has been settled: paid through a statement, or written off.         *)
(*                                                                         *)
(* GST is part of every amount; the split of a fee into base and tax is    *)
(* left out.                                                               *)
(***************************************************************************)
EXTENDS MinorUnits

Invoiced == [total : Nat, advance : Nat, credit : Nat]

\* What the customer has already paid against the invoice.
Settled(invoice) == invoice.total - invoice.advance - invoice.credit

-----------------------------------------------------------------------------
(* Repricing                                                               *)

\* An increase is funded from Customer Advance first, then from credit.  A
\* reduction unwinds outstanding credit first, then applied advance, then
\* value already paid, which comes back as Customer Advance.
Adjustment(invoice, amended, availableAdvance) ==
    LET increase == AtLeastZero(amended - invoice.total)
        reduction == AtLeastZero(invoice.total - amended)
        advanceUsed == Lesser(increase, AtLeastZero(availableAdvance))
        creditReduced == Lesser(reduction, invoice.credit)
        advanceRefunded == Lesser(reduction - creditReduced, invoice.advance)
    IN  [advanceUsed |-> advanceUsed,
         creditUsed |-> increase - advanceUsed,
         creditReduced |-> creditReduced,
         advanceRefunded |-> advanceRefunded,
         advanceCredited |-> reduction - creditReduced - advanceRefunded]

\* The two 402 and 409 refusals of the calculation.
Applicable(adjustment, invoice, availableCredit) ==
    /\ adjustment.creditUsed <= AtLeastZero(availableCredit)
    /\ adjustment.advanceCredited <= Settled(invoice)

\* The invoice as the revision leaves it.
Revised(invoice, amended, adjustment) ==
    [total |-> amended,
     advance |-> invoice.advance + adjustment.advanceUsed
                   - adjustment.advanceRefunded,
     credit |-> invoice.credit + adjustment.creditUsed
                  - adjustment.creditReduced]

-----------------------------------------------------------------------------
(* Cancellation                                                            *)

\* A fee never exceeds the invoice: feeWasCapped.
CancellationFee(invoice, requestedFee) == Lesser(requestedFee, invoice.total)

\* The fee is taken first from what the customer has settled, the rest stays
\* on credit.  Of the refund, what does not release credit becomes advance.
CancellationSettlement(invoice, feeTotal) ==
    LET feeCredit == AtLeastZero(feeTotal - (invoice.total - invoice.credit))
    IN  [creditReversed |-> invoice.credit,
         feeCredit |-> feeCredit,
         advanceCredited |-> invoice.total - feeTotal
                               - (invoice.credit - feeCredit)]
=============================================================================
