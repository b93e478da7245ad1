--------------------------- MODULE CreditBilling ----------------------------
(***************************************************************************)
(* Credit billing of one business account: the invoices of its booked      *)
(* shipments, the amendments, final verifications and cancellations that   *)
(* reprice them, the billing statements a closed period puts them on, and  *)
(* the payments and write-offs that settle the statements.                 *)
(*                                                                         *)
(* Every operation is one MongoDB transaction guarded by the version of    *)
(* the account document, so each is one action.  What makes the component  *)
(* hard is that seven services move the same three totals of the account   *)
(* and the same balances of invoices and statements, in any order.         *)
(*                                                                         *)
(* A booking is one step here: how its funds are held and converted is the *)
(* subject of CreditBooking.                                               *)
(***************************************************************************)
EXTENDS ChargeSettlement, Sequences

CONSTANTS
    Shipments,        \* numbered in the order in which they are booked
    BookingTotals,    \* what a booking may cost
    RevisedTotals,    \* what an amendment or a verification makes of each
    RequestedFees,    \* the cancellation fees staff may ask for
    Payments,         \* credit payments submitted by the customer
    PaymentAmount,    \* what each of them pays
    WriteOffs,        \* the sums staff may ask to write off
    InitialAdvance,   \* Customer Advance at the start
    CreditLimit,      \* approvedCreditLimitMinor
    LastPeriod,       \* bound: billing periods
    LastBooking,      \* bound: the last period in which shipments are booked
    MaxRevisions      \* bound: repricings of one invoice, with those requested

ASSUME BillingAssumption ==
    /\ Shipments \subseteq Nat /\ IsFiniteSet(Shipments)
    /\ BookingTotals \subseteq Nat
    /\ RevisedTotals \in [Shipments -> SUBSET Nat]
    /\ RequestedFees \subseteq Nat /\ WriteOffs \subseteq Nat \ {0}
    /\ IsFiniteSet(Payments) /\ PaymentAmount \in [Payments -> Nat \ {0}]
    /\ InitialAdvance \in Nat /\ CreditLimit \in Nat
    /\ LastPeriod \in Nat \ {0} /\ LastBooking \in Nat /\ MaxRevisions \in Nat

VARIABLES
    account,        \* the totals of the BusinessCreditAccount document
    period,         \* the billing period that is now
    invoice,        \* the ShipmentInvoice of each shipment
    stage,          \* how far the parcel has come
    amendment,      \* the totals that the REQUESTED amendments of each
                    \* shipment would give it
    cancellation,   \* the REQUESTED or COMPLETED ShipmentCancellation of each
    verified,       \* shipments whose final charge has been verified
    fee,            \* the CancellationFeeInvoice of each shipment
    adjustments,    \* the CreditBillingAdjustments, in order of creation
    statement,      \* the CreditBillingStatement of each period
    applied,        \* the credit payments that are VERIFIED
    forgiven        \* history: invoice value cleared by write-offs

requestVars == <<amendment, cancellation>>
vars == <<account, period, invoice, stage, amendment, cancellation, verified,
          fee, adjustments, statement, applied, forgiven>>
-----------------------------------------------------------------------------
Periods == 1 .. LastPeriod
NotYet == 0                       \* a date or a statement that is null

Stages == {"BOOKED", "COLLECTED", "RECEIVED"}
NoInvoice == [status |-> "NONE", total |-> 0, advance |-> 0, credit |-> 0,
              settledAt |-> NotYet, statement |-> NotYet, revision |-> 0,
              bookedAt |-> NotYet]
NoFee == [issuedAt |-> NotYet, total |-> 0, credit |-> 0,
          statement |-> NotYet]
NoCancellation == [status |-> "NONE", original |-> 0]
NoStatement == [status |-> "NONE", lines |-> {}, feeLines |-> {},
                adjustments |-> {}, total |-> 0, paid |-> 0, credited |-> 0,
                outstanding |-> 0]

Issued(s) == invoice[s].status = "ISSUED"
Cancelling(s) == cancellation[s].status = "REQUESTED"
NotCancelled(s) == cancellation[s].status = "NONE"
Exists(n) == statement[n].status # "NONE"

AvailableCredit == CreditLimit - account.unbilled - account.invoiced

\* The status a statement takes once its outstanding balance has moved.
StatusAfter(outstanding) == IF outstanding = 0 THEN "PAID" ELSE "PARTIALLY_PAID"

-----------------------------------------------------------------------------
(* What the documents add up to                                            *)

Documents == {"invoice", "fee"} \X Shipments

\* creditOutstandingMinor of every invoice and fee invoice.
Owed == [d \in Documents |-> IF d[1] = "invoice" THEN invoice[d[2]].credit
                                                 ELSE fee[d[2]].credit]

DocumentsOf(kind, S) == {kind} \X S

AmountOf == [i \in DOMAIN adjustments |-> adjustments[i].amount]

\* The adjustments that add to what a statement demands: a reduction has been
\* taken off the original statement already.
Due(I) == {i \in I : adjustments[i].due}

-----------------------------------------------------------------------------
Init ==
    /\ account = [advance |-> InitialAdvance, unbilled |-> 0, invoiced |-> 0]
    /\ period = 1
    /\ invoice = [s \in Shipments |-> NoInvoice]
    /\ stage = [s \in Shipments |-> "BOOKED"]
    /\ amendment = [s \in Shipments |-> {}]
    /\ cancellation = [s \in Shipments |-> NoCancellation]
    /\ verified = {}
    /\ fee = [s \in Shipments |-> NoFee]
    /\ adjustments = <<>>
    /\ statement = [n \in Periods |-> NoStatement]
    /\ applied = {}
    /\ forgiven = 0

Tick ==
    /\ period < LastPeriod
    /\ period' = period + 1
    /\ UNCHANGED <<account, invoice, stage, requestVars, verified, fee,
                   adjustments, statement, applied, forgiven>>

\* A booking of CreditBooking, from reservation to conversion.
Book(s, total) ==
    LET advance == Lesser(total, account.advance) IN
    /\ period <= LastBooking /\ invoice[s].status = "NONE"
    /\ \A t \in Shipments : t < s => invoice[t].status # "NONE"
    /\ total - advance <= AtLeastZero(AvailableCredit)
    /\ invoice' = [invoice EXCEPT ![s] =
          [NoInvoice EXCEPT !.status = "ISSUED", !.total = total,
                            !.advance = advance, !.credit = total - advance,
                            !.bookedAt = period]]
    /\ account' = [account EXCEPT !.advance = @ - advance,
                                  !.unbilled = @ + total - advance]
    /\ UNCHANGED <<period, stage, requestVars, verified, fee, adjustments,
                   statement, applied, forgiven>>

-----------------------------------------------------------------------------
(* The parcel moves, and its charge settles                                *)

\* markShipmentChargeFinalized: written once and never moved.
FinalizeCharge(s, at) ==
    [invoice EXCEPT ![s].settledAt = IF @ = NotYet THEN at ELSE @]

Progress(s, next, at) ==
    /\ stage' = [stage EXCEPT ![s] = next]
    /\ invoice' = FinalizeCharge(s, at)
    /\ UNCHANGED <<account, period, requestVars, verified, fee, adjustments,
                   statement, applied, forgiven>>

\* Staff record the collection, and may state the date it happened: not in
\* the future and not before the shipment's last recorded update.
RecordCollection(s, at) ==
    /\ Issued(s) /\ stage[s] = "BOOKED" /\ NotCancelled(s)
    /\ at \in invoice[s].bookedAt .. period
    /\ Progress(s, "COLLECTED", at)

\* A driver completes a pickup: no cancellation is looked at.
CompletePickup(s) ==
    /\ invoice[s].status # "NONE" /\ stage[s] = "BOOKED"
    /\ Progress(s, "COLLECTED", period)

ScanIn(s) ==
    /\ Issued(s) /\ stage[s] = "COLLECTED" /\ NotCancelled(s)
    /\ Progress(s, "RECEIVED", period)

-----------------------------------------------------------------------------
(* Repricing: applyShipmentBillingAdjustment and the invoice revision      *)

\* Only a reduction of an unbilled invoice comes off the unbilled total.
UnbilledReduction_both(billed, reduced) == reduced
UnbilledReduction(billed, reduced) == IF billed THEN 0 ELSE reduced

\* What a repricing of a billed invoice leaves for the next statement: an
\* increase as an amount due, a reduction as a note of what was done.
AdjustmentRecords(s, billed, amount, due) ==
    IF billed /\ amount # 0
    THEN <<[shipment |-> s, amount |-> amount, due |-> due,
            createdAt |-> period, statement |-> NotYet]>>
    ELSE <<>>

\* Take an amount off what a statement demands.
CreditStatement_note(n, amount) ==
    [statement EXCEPT ![n].credited = @ + amount]
CreditStatement(n, amount) ==
    [statement EXCEPT ![n].credited = @ + amount,
                      ![n].outstanding = @ - amount,
                      ![n].status = StatusAfter(statement[n].outstanding - amount)]

\* s is repriced to amended, unless it cannot be funded or its original
\* statement cannot take the reduction.  An unchanged price moves nothing.
Reprice(s, amended, settles) ==
    LET old == invoice[s]
        change == Adjustment(old, amended, account.advance)
        billed == old.statement # NotYet
        new == Revised(old, amended, change)
    IN
    /\ Applicable(change, old, AvailableCredit)
    /\ change.creditReduced <= IF billed THEN statement[old.statement].outstanding
                                         ELSE account.unbilled
    /\ billed => change.creditReduced <= account.invoiced
    /\ account' =
          [advance |-> account.advance + change.advanceRefunded
                         + change.advanceCredited - change.advanceUsed,
           unbilled |-> account.unbilled + change.creditUsed
                          - UnbilledReduction(billed, change.creditReduced),
           invoiced |-> account.invoiced
                          - (IF billed THEN change.creditReduced ELSE 0)]
    /\ statement' = IF billed /\ change.creditReduced > 0
                    THEN CreditStatement(old.statement, change.creditReduced)
                    ELSE statement
    /\ adjustments' = adjustments
          \o AdjustmentRecords(s, billed,
                 change.creditUsed - change.creditReduced,
                 change.creditUsed > change.creditReduced)
    /\ invoice' = [invoice EXCEPT ![s] =
          [old EXCEPT !.total = new.total, !.advance = new.advance,
                      !.credit = new.credit, !.revision = old.revision + 1,
                      !.settledAt = IF settles /\ old.settledAt = NotYet
                                    THEN period ELSE old.settledAt]]
    /\ UNCHANGED <<period, stage, cancellation, fee, applied,
                   forgiven>>

\* postParcelCollectedStatuses starts at the warehouse scan.
Amendable(s) == Issued(s) /\ stage[s] # "RECEIVED" /\ NotCancelled(s)

\* Nothing keeps a shipment from having several requests at once.
RequestAmendment(s, amended) ==
    /\ Amendable(s)
    /\ invoice[s].revision + Cardinality(amendment[s]) < MaxRevisions
    /\ Applicable(Adjustment(invoice[s], amended, account.advance),
                  invoice[s], AvailableCredit)
    /\ amendment' = [amendment EXCEPT ![s] = @ \cup {amended}]
    /\ UNCHANGED <<account, period, invoice, stage, cancellation, verified,
                   fee, adjustments, statement, applied, forgiven>>

ApproveAmendment(s, amended) ==
    /\ Amendable(s) /\ amended \in amendment[s]
    /\ invoice[s].revision < MaxRevisions
    /\ Reprice(s, amended, FALSE)
    /\ amendment' = [amendment EXCEPT ![s] = @ \ {amended}]
    /\ UNCHANGED verified

RejectAmendment(s, amended) ==
    /\ amended \in amendment[s]
    /\ amendment' = [amendment EXCEPT ![s] = @ \ {amended}]
    /\ UNCHANGED <<account, period, invoice, stage, cancellation, verified,
                   fee, adjustments, statement, applied, forgiven>>

\* The final weight of a collected parcel, verified at most once.
VerifyCharge(s, amended) ==
    /\ s \notin verified /\ Issued(s) /\ stage[s] # "BOOKED"
    /\ amendment[s] = {} /\ NotCancelled(s)
    /\ invoice[s].revision < MaxRevisions
    /\ Reprice(s, amended, TRUE)
    /\ verified' = verified \cup {s}
    /\ UNCHANGED amendment

-----------------------------------------------------------------------------
(* Cancellation                                                            *)

RequestCancellation(s) ==
    /\ Issued(s) /\ stage[s] # "RECEIVED" /\ NotCancelled(s)
    /\ amendment[s] = {}
    /\ cancellation' = [cancellation EXCEPT ![s] =
          [status |-> "REQUESTED", original |-> invoice[s].total]]
    /\ UNCHANGED <<account, period, invoice, stage, amendment, verified, fee,
                   adjustments, statement, applied, forgiven>>

\* No service ever reads a rejected request: it counts as none.
RejectCancellation(s) ==
    /\ Cancelling(s)
    /\ cancellation' = [cancellation EXCEPT ![s] = NoCancellation]
    /\ UNCHANGED <<account, period, invoice, stage, amendment, verified, fee,
                   adjustments, statement, applied, forgiven>>

\* A billed invoice is reversed on its statement and in the invoiced total.
ReversedOnStatement_never(old) == FALSE
ReversedOnStatement(old) == old.statement # NotYet

ApproveCancellation(s, requestedFee) ==
    LET old == invoice[s]
        feeTotal == CancellationFee(old, requestedFee)
        settlement == CancellationSettlement(old, feeTotal)
        billed == ReversedOnStatement(old)
    IN
    /\ Cancelling(s) /\ Issued(s) /\ stage[s] # "RECEIVED"
    /\ amendment[s] = {}
    /\ old.total = cancellation[s].original
    /\ settlement.creditReversed <=
          IF billed THEN statement[old.statement].outstanding
                    ELSE account.unbilled
    /\ billed => settlement.creditReversed <= account.invoiced
    /\ account' =
          [advance |-> account.advance + settlement.advanceCredited,
           unbilled |-> account.unbilled + settlement.feeCredit
                          - (IF billed THEN 0 ELSE settlement.creditReversed),
           invoiced |-> account.invoiced
                          - (IF billed THEN settlement.creditReversed ELSE 0)]
    /\ statement' = IF billed /\ settlement.creditReversed > 0
                    THEN CreditStatement(old.statement,
                                         settlement.creditReversed)
                    ELSE statement
    /\ adjustments' = adjustments
          \o AdjustmentRecords(s, billed, 0 - settlement.creditReversed, FALSE)
    /\ fee' = [fee EXCEPT ![s] = [issuedAt |-> period, total |-> feeTotal,
                                  credit |-> settlement.feeCredit,
                                  statement |-> NotYet]]
    /\ invoice' = [invoice EXCEPT ![s].status = "VOID", ![s].credit = 0]
    /\ cancellation' = [cancellation EXCEPT ![s].status = "COMPLETED"]
    /\ UNCHANGED <<period, stage, amendment, verified, applied,
                   forgiven>>

-----------------------------------------------------------------------------
(* Closing periods                                                         *)

\* The finalized invoices of period n, less those being cancelled.
BillableInvoices(n) ==
    {s \in Shipments : /\ Issued(s) /\ invoice[s].settledAt = n
                       /\ invoice[s].credit > 0
                       /\ invoice[s].statement = NotYet
                       /\ ~Cancelling(s)}

BillableFees(n) ==
    {s \in Shipments : /\ fee[s].issuedAt = n /\ fee[s].credit > 0
                       /\ fee[s].statement = NotYet}

BillableAdjustments_again(n) ==
    {i \in DOMAIN adjustments : adjustments[i].createdAt <= n}
BillableAdjustments(n) ==
    {i \in DOMAIN adjustments : /\ adjustments[i].statement = NotYet
                                /\ adjustments[i].createdAt <= n}

BillTotal(n) ==
    Total(DocumentsOf("invoice", BillableInvoices(n))
             \cup DocumentsOf("fee", BillableFees(n)), Owed)
      + Total(Due(BillableAdjustments(n)), AmountOf)

\* A period that has a statement is never closed again.
Closable_again(n) ==
    BillableInvoices(n) \cup BillableFees(n) # {}
      \/ BillableAdjustments(n) # {}
Closable(n) ==
    /\ ~Exists(n)
    /\ \/ BillableInvoices(n) \cup BillableFees(n) # {}
       \/ BillableAdjustments(n) # {}

\* closeCreditBillingCycle.  The nightly job and the button in the portal walk
\* the completed periods oldest first, each in a transaction of its own, and
\* skip what is not closable: anything may happen between two of them.
CloseBooks(n) ==
    LET total == BillTotal(n) IN
    /\ n < period /\ Closable(n)
    /\ total <= account.unbilled
    /\ statement' = [statement EXCEPT ![n] =
          [status |-> IF total = 0 THEN "PAID" ELSE "ISSUED",
           lines |-> BillableInvoices(n), feeLines |-> BillableFees(n),
           adjustments |-> BillableAdjustments(n), total |-> total,
           paid |-> 0, credited |-> 0, outstanding |-> total]]
    /\ account' = [account EXCEPT !.unbilled = @ - total,
                                  !.invoiced = @ + total]
    /\ invoice' = [s \in Shipments |->
          IF s \in BillableInvoices(n) THEN [invoice[s] EXCEPT !.statement = n]
                                       ELSE invoice[s]]
    /\ fee' = [s \in Shipments |->
          IF s \in BillableFees(n) THEN [fee[s] EXCEPT !.statement = n]
                                   ELSE fee[s]]
    /\ adjustments' = [i \in DOMAIN adjustments |->
          IF i \in BillableAdjustments(n)
          THEN [adjustments[i] EXCEPT !.statement = n] ELSE adjustments[i]]
    /\ UNCHANGED <<period, stage, requestVars, verified, applied, forgiven>>

MarkOverdue(n) ==
    /\ statement[n].outstanding > 0 /\ n + 1 < period
    /\ statement[n].status \in {"ISSUED", "PARTIALLY_PAID"}
    /\ statement' = [statement EXCEPT ![n].status = "OVERDUE"]
    /\ UNCHANGED <<account, period, invoice, stage, requestVars, verified,
                   fee, adjustments, applied, forgiven>>

-----------------------------------------------------------------------------
(* Settling statements                                                     *)

\* Invoices before fee invoices, each oldest first.
Before(d, e) ==
    \/ d[1] = "invoice" /\ e[1] = "fee"
    \/ d[1] = e[1] /\ d[2] < e[2]

\* What the documents owe once amount has been spread over D in that order.
Spread_each(amount, D, owed) ==
    [d \in Documents |->
        IF d \in D THEN owed[d] - Lesser(owed[d], amount) ELSE owed[d]]
Spread(amount, D, owed) ==
    [d \in Documents |->
        IF d \in D
        THEN owed[d] - Lesser(owed[d], AtLeastZero(
                 amount - Total({e \in D : Before(e, d)}, owed)))
        ELSE owed[d]]

\* The documents a payment of statement n is allocated to.
PayableDocuments(n) ==
    LET adjusted == {adjustments[i].shipment : i \in
                        {j \in Due(statement[n].adjustments) :
                            adjustments[j].amount > 0}}
    IN  DocumentsOf("invoice", {s \in statement[n].lines \cup adjusted :
                                   Issued(s)})
          \cup DocumentsOf("fee", {s \in Shipments : fee[s].statement = n})

\* A statement takes no more than its invoices can show for it.
StatementPayment_unbacked(left, outstanding, backing) ==
    Lesser(left, outstanding)
StatementPayment(left, outstanding, backing) ==
    Lesser(left, Lesser(outstanding, backing))

\* The allocation of amount after the statements 1 .. n, oldest first.
Allocation(amount) ==
    LET paidUpTo[n \in 0 .. LastPeriod] ==
          IF n = 0
          THEN [left |-> amount, owed |-> Owed,
                paid |-> [m \in Periods |-> 0]]
          ELSE LET before == paidUpTo[n - 1]
                   D == PayableDocuments(n)
                   pays == StatementPayment(before.left,
                               statement[n].outstanding, Total(D, before.owed))
               IN  [left |-> before.left - pays,
                    owed |-> Spread(pays, D, before.owed),
                    paid |-> [before.paid EXCEPT ![n] = pays]]
    IN  paidUpTo[LastPeriod]

\* Set what the invoices and fee invoices owe.
SetOwed(owed) ==
    /\ invoice' = [s \in Shipments |->
          [invoice[s] EXCEPT !.credit = owed[<<"invoice", s>>]]]
    /\ fee' = [s \in Shipments |->
          [fee[s] EXCEPT !.credit = owed[<<"fee", s>>]]]

\* applyVerifiedCreditPayment: what no statement takes becomes advance.
VerifyPayment(p) ==
    LET result == Allocation(PaymentAmount[p])
        spent == PaymentAmount[p] - result.left
    IN
    /\ p \notin applied
    /\ spent <= account.invoiced
    /\ SetOwed(result.owed)
    /\ statement' = [n \in Periods |->
          IF result.paid[n] = 0 THEN statement[n]
          ELSE [statement[n] EXCEPT
                  !.paid = @ + result.paid[n],
                  !.outstanding = @ - result.paid[n],
                  !.status = StatusAfter(statement[n].outstanding
                                           - result.paid[n])]]
    /\ account' = [account EXCEPT !.invoiced = @ - spent,
                                  !.advance = @ + result.left]
    /\ applied' = applied \cup {p}
    /\ UNCHANGED <<period, stage, requestVars, verified, adjustments,
                   forgiven>>

WrittenOff_uncounted(old, amount) == old.credited
WrittenOff(old, amount) == old.credited + amount

\* Only the statement's own lines are cleared: what was billed as an
\* adjustment stays outstanding on its invoice.
WriteOff(n, requested) ==
    LET old == statement[n]
        amount == Lesser(requested, Lesser(old.outstanding, account.invoiced))
        D == DocumentsOf("invoice", old.lines)
               \cup DocumentsOf("fee", old.feeLines)
        left == old.outstanding - amount
    IN
    /\ old.outstanding > 0 /\ amount > 0
    /\ SetOwed(Spread(amount, D, Owed))
    /\ forgiven' = forgiven + Lesser(amount, Total(D, Owed))
    /\ statement' = [statement EXCEPT ![n] =
          [old EXCEPT !.credited = WrittenOff(old, amount),
                      !.outstanding = left,
                      !.status = IF left > 0 /\ old.status = "OVERDUE"
                                 THEN "OVERDUE" ELSE StatusAfter(left)]]
    /\ account' = [account EXCEPT !.invoiced = @ - amount]
    /\ UNCHANGED <<period, stage, requestVars, verified, adjustments,
                   applied>>

-----------------------------------------------------------------------------
ShipmentStep(s) ==
    \/ \E total \in BookingTotals : Book(s, total)
    \/ \E at \in Periods : RecordCollection(s, at)
    \/ CompletePickup(s) \/ ScanIn(s)
    \/ \E total \in RevisedTotals[s] :
          \/ RequestAmendment(s, total) \/ ApproveAmendment(s, total)
          \/ RejectAmendment(s, total) \/ VerifyCharge(s, total)
    \/ RequestCancellation(s) \/ RejectCancellation(s)
    \/ \E f \in RequestedFees : ApproveCancellation(s, f)

StatementStep(n) ==
    \/ CloseBooks(n) \/ MarkOverdue(n)
    \/ \E amount \in WriteOffs : WriteOff(n, amount)

Next ==
    \/ Tick
    \/ \E s \in Shipments : ShipmentStep(s)
    \/ \E n \in Periods : StatementStep(n)
    \/ \E p \in Payments : VerifyPayment(p)

Spec == Init /\ [][Next]_vars

-----------------------------------------------------------------------------
(* Properties                                                              *)

InvoiceType ==
    [status : {"NONE", "ISSUED", "VOID"}, total : Nat, advance : Nat,
     credit : Nat, settledAt : 0 .. LastPeriod, statement : 0 .. LastPeriod,
     revision : Nat, bookedAt : 0 .. LastPeriod]
FeeType == [issuedAt : 0 .. LastPeriod, total : Nat, credit : Nat,
            statement : 0 .. LastPeriod]
AdjustmentType ==
    [shipment : Shipments, amount : Int, due : BOOLEAN, createdAt : Periods,
     statement : 0 .. LastPeriod]
StatementType ==
    [status : {"NONE", "ISSUED", "PARTIALLY_PAID", "PAID", "OVERDUE"},
     lines : SUBSET Shipments, feeLines : SUBSET Shipments,
     adjustments : SUBSET (1 .. Len(adjustments)), total : Nat, paid : Nat,
     credited : Nat, outstanding : Nat]

\* Every document has its shape, and no balance of an account, an invoice or
\* a statement is ever negative, whatever seven services subtract from it.
BillingTypeOK ==
    /\ account \in [advance : Nat, unbilled : Nat, invoiced : Nat]
    /\ period \in Periods
    /\ invoice \in [Shipments -> InvoiceType]
    /\ stage \in [Shipments -> Stages]
    /\ \A s \in Shipments : amendment[s] \subseteq RevisedTotals[s]
    /\ cancellation \in [Shipments ->
          [status : {"NONE", "REQUESTED", "COMPLETED"}, original : Nat]]
    /\ verified \subseteq Shipments
    /\ fee \in [Shipments -> FeeType]
    /\ adjustments \in Seq(AdjustmentType)
    /\ statement \in [Periods -> StatementType]
    /\ applied \subseteq Payments
    /\ forgiven \in Nat

\* The invoiced total of the account is the sum of what its statements have
\* outstanding, as creditReconciliation.service.ts expects it, and the
\* unbilled total is exactly what the invoices, fees and adjustments that
\* still wait for a statement will put on one.  If it were ever less, closing
\* a cycle would keep failing.
TotalsMatchDocuments ==
    LET waiting == {s \in Shipments : invoice[s].statement = NotYet}
        waitingFees == {s \in Shipments : fee[s].statement = NotYet}
        pending == {i \in DOMAIN adjustments :
                       adjustments[i].statement = NotYet}
    IN  /\ account.invoiced =
              Total(Periods, [n \in Periods |-> statement[n].outstanding])
        /\ account.unbilled =
              Total(DocumentsOf("invoice", waiting)
                      \cup DocumentsOf("fee", waitingFees), Owed)
                + Total(Due(pending), AmountOf)

\* What the account owes is always covered by what its invoices show as
\* owed: no repricing, cancellation, payment or write-off clears an invoice
\* and leaves the customer owing for it.
OwedIsBacked ==
    account.unbilled + account.invoiced <= Total(Documents, Owed)

\* A statement's total is accounted for by what was paid, what was credited
\* and what is outstanding, and it is PAID exactly when nothing is.
StatementsAddUp ==
    \A n \in Periods :
        /\ statement[n].total = statement[n].paid + statement[n].credited
                                  + statement[n].outstanding
        /\ Exists(n) =>
             (statement[n].status = "PAID" <=> statement[n].outstanding = 0)

\* Nothing the customer paid is lost or counted twice: initial advance,
\* payments and forgiven debt are together what is left as advance and what
\* settled the invoices and fees in force.
MoneyKept ==
    LET inForce == {s \in Shipments : Issued(s)}
    IN  InitialAdvance + Total(applied, PaymentAmount) + forgiven =
          account.advance
            + Total(inForce, [s \in Shipments |->
                                 invoice[s].total - invoice[s].credit])
            + Total(Shipments, [s \in Shipments |->
                                 fee[s].total - fee[s].credit])

\* An invoice, a fee and an adjustment are each on the statement they name
\* and on no other.
BilledOnce ==
    \A n \in Periods :
        /\ statement[n].lines = {s \in Shipments : invoice[s].statement = n}
        /\ statement[n].feeLines = {s \in Shipments : fee[s].statement = n}
        /\ statement[n].adjustments =
              {i \in DOMAIN adjustments : adjustments[i].statement = n}

\* A statement that was issued is never reissued, and what it demands only
\* ever goes down.
IssuedStatementsOnlyShrink ==
    [][\A n \in Periods : Exists(n) =>
          /\ statement'[n].lines = statement[n].lines
          /\ statement'[n].total = statement[n].total
          /\ statement'[n].outstanding <= statement[n].outstanding]_vars

\* What backfillChargeFinalizedAt.ts calls the exact failure that the date of
\* finalization exists to prevent: an invoice that is ready to be billed, in
\* a period that has its statement already and so will not be closed again.
NoneStranded ==
    \A s \in Shipments :
        /\ Issued(s) /\ invoice[s].credit > 0 /\ ~Cancelling(s)
        /\ invoice[s].settledAt # NotYet /\ invoice[s].statement = NotYet
        => ~Exists(invoice[s].settledAt)
=============================================================================
