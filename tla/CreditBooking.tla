--------------------------- MODULE CreditBooking ----------------------------
(***************************************************************************)
(* The credit booking engine of one business account: the account document *)
(* with its running totals, the balance reservations (holds), the shipment *)
(* charges and the booking entries of the credit ledger, as written by     *)
(* creditBooking.service.ts and shipmentBookingBilling.service.ts.         *)
(*                                                                         *)
(* Callers run concurrently.  A billing call reads some documents outside  *)
(* any transaction, and later runs one MongoDB transaction on what it      *)
(* read: the two are separate actions here, so that the transaction may    *)
(* find that the world has moved on.  A transaction is atomic; its caller  *)
(* may still be told that it failed.                                       *)
(*                                                                         *)
(* A definition whose name has a suffix after an underscore is a mistake   *)
(* that could have been made in the definition that follows it.  No action *)
(* uses it: it shows that the properties would notice.                     *)
(***************************************************************************)
EXTENDS MinorUnits, Sequences

CONSTANTS
    Drafts,            \* shipment drafts, each with at most one charge
    Attempts,          \* booking attempts; each mints one idempotency key
    DraftOf,           \* the draft an attempt is for
    Price,             \* what an attempt reserves, GST included
    Callers,           \* concurrent executions of the billing services
    NoHold,            \* balanceReservationId: null
    Limits,            \* the credit limits an administrator may approve
    Amounts,           \* the sums a customer may pay in
    MaxReceived,       \* bound: Customer Advance ever received
    MaxSettled,        \* bound: credit ever paid off or written off
    GracePeriodDays,   \* overdue days that only warn
    MaxOverdueDays     \* overdue days after which everything is blocked

ASSUME ConstantsAssumption ==
    /\ IsFiniteSet(Attempts) /\ NoHold \notin Attempts
    /\ DraftOf \in [Attempts -> Drafts]
    /\ Price \in [Attempts -> Nat \ {0}]
    /\ Limits \subseteq Nat /\ Amounts \subseteq Nat \ {0}
    /\ MaxReceived \in Nat /\ MaxSettled \in Nat
    /\ GracePeriodDays \in Nat /\ MaxOverdueDays \in Nat
    /\ GracePeriodDays <= MaxOverdueDays

VARIABLES
    account,       \* the BusinessCreditAccount document
    validity,      \* where now lies against validFrom and validUntil
    overdueDays,   \* age of the oldest unpaid due statement, or NotOverdue
    reservation,   \* the BalanceReservation of each attempt
    charge,        \* the ShipmentCharge of each draft
    ledger,        \* the booking entries of each reservation, in order
    call,          \* what each caller is doing
    received,      \* history: Customer Advance ever received
    settled        \* history: credit ever paid off or written off

moneyVars == <<received, settled>>
facilityVars == <<validity, overdueDays>>
vars == <<account, validity, overdueDays, reservation, charge, ledger, call,
          received, settled>>
-----------------------------------------------------------------------------
AccountStatuses == {"NOT_REQUESTED", "PENDING_REVIEW", "APPROVED", "ACTIVE",
                    "ON_HOLD", "SUSPENDED", "EXPIRED", "REJECTED", "CLOSED"}
BlockedStatuses == {"ON_HOLD", "SUSPENDED", "EXPIRED", "REJECTED", "CLOSED"}

OpenStatuses == {"ACTIVE", "CONSUMING", "REVIEW_REQUIRED"}
ReservationStatuses ==
    {"NONE", "CONVERTED", "RELEASED", "EXPIRED"} \cup OpenStatuses
ChargeStatuses ==
    {"NONE", "RESERVED", "COMPLETED", "REVERSED", "REVIEW_REQUIRED"}
LedgerTypes ==
    {"BOOKING_CONVERTED", "BOOKING_RELEASED", "BOOKING_REVIEW_REQUIRED"}
ChargeOps == {"consume", "convert", "release", "review"}

NotOverdue == -1
NoReservation ==
    [status |-> "NONE", advance |-> 0, credit |-> 0, lapsed |-> FALSE]
NoCharge == [status |-> "NONE", hold |-> NoHold]
Idle == [op |-> "none", phase |-> "idle", attempt |-> NoHold,
         allowCredit |-> FALSE]
Done == [Idle EXCEPT !.phase = "ok"]
Failed == [Idle EXCEPT !.phase = "error"]

AccountType ==
    [status : AccountStatuses, approvedCreditLimit : Nat,
     reservedCredit : Nat, unbilledCredit : Nat, invoicedOutstanding : Nat,
     customerAdvance : Nat, reservedAdvance : Nat]
ReservationType ==
    [status : ReservationStatuses, advance : Nat, credit : Nat,
     lapsed : BOOLEAN]
ChargeType == [status : ChargeStatuses, hold : Attempts \cup {NoHold}]
CallType ==
    [op : {"none", "reserve"} \cup ChargeOps,
     phase : {"idle", "called", "ok", "error"},
     attempt : Attempts \cup {NoHold}, allowCredit : BOOLEAN]

TypeOK ==
    /\ account \in AccountType
    /\ validity \in {"before", "open", "after"}
    /\ overdueDays \in NotOverdue .. (MaxOverdueDays + 1)
    /\ reservation \in [Attempts -> ReservationType]
    /\ charge \in [Drafts -> ChargeType]
    /\ ledger \in [Attempts -> Seq(LedgerTypes)]
    /\ call \in [Callers -> CallType]
    /\ received \in Nat /\ settled \in Nat

Init ==
    /\ account = [status |-> "NOT_REQUESTED", approvedCreditLimit |-> 0,
                  reservedCredit |-> 0, unbilledCredit |-> 0,
                  invoicedOutstanding |-> 0, customerAdvance |-> 0,
                  reservedAdvance |-> 0]
    /\ validity = "open"
    /\ overdueDays = NotOverdue
    /\ reservation = [a \in Attempts |-> NoReservation]
    /\ charge = [d \in Drafts |-> NoCharge]
    /\ ledger = [a \in Attempts |-> <<>>]
    /\ call = [p \in Callers |-> Idle]
    /\ received = 0 /\ settled = 0
-----------------------------------------------------------------------------
(***************************************************************************)
(* What is available (creditAccount.service.ts and the two aggregation     *)
(* expressions of creditBooking.service.ts, which agree with it).          *)
(***************************************************************************)
UsedCredit == account.reservedCredit + account.unbilledCredit
                + account.invoicedOutstanding
isCreditWindowOpen == account.status = "ACTIVE" /\ validity = "open"
AvailableAdvance_Unreserved == account.customerAdvance
AvailableAdvance ==
    AtLeastZero(account.customerAdvance - account.reservedAdvance)
AvailableCredit_Uninvoiced(allowCredit) ==
    IF allowCredit /\ isCreditWindowOpen
    THEN AtLeastZero(account.approvedCreditLimit
                        - (account.reservedCredit + account.unbilledCredit))
    ELSE 0
AvailableCredit(allowCredit) ==
    IF allowCredit /\ isCreditWindowOpen
    THEN AtLeastZero(account.approvedCreditLimit - UsedCredit)
    ELSE 0

CreditRestriction ==
    CASE overdueDays = NotOverdue -> "NONE"
      [] overdueDays \in 0 .. GracePeriodDays -> "GRACE_WARNING"
      [] overdueDays \in (GracePeriodDays + 1) .. MaxOverdueDays
            -> "CREDIT_BLOCKED"
      [] OTHER -> "ALL_BOOKINGS_BLOCKED"

OpenHolds == {a \in Attempts : reservation[a].status \in OpenStatuses}
ConvertedHolds == {a \in Attempts : reservation[a].status = "CONVERTED"}
advanceOf == [a \in Attempts |-> reservation[a].advance]
creditOf == [a \in Attempts |-> reservation[a].credit]
-----------------------------------------------------------------------------
(***************************************************************************)
(* The facility's lifecycle: clientCredit and adminCredit controllers, the *)
(* expiry job, and the passing of time.  Each is one transaction or one    *)
(* version-guarded update, hence one step.                                 *)
(***************************************************************************)
SetStatus(from, to) ==
    /\ account.status \in from
    /\ account' = [account EXCEPT !.status = to]
    /\ UNCHANGED <<facilityVars, reservation, charge, ledger, call, moneyVars>>

requestClientCredit == SetStatus({"NOT_REQUESTED", "REJECTED"}, "PENDING_REVIEW")

\* A live facility stays live when its terms are edited; the limit may not
\* drop below the credit already committed.
approveAdminCreditAccount(limit, operatorApproval) ==
    /\ account.status \notin {"CLOSED", "SUSPENDED"}
    /\ limit >= UsedCredit
    /\ \E window \in {"before", "open", "after"} :
          /\ operatorApproval => limit > 0 /\ window # "after"
          /\ validity' = window
    /\ account' = [account EXCEPT
            !.approvedCreditLimit = limit,
            !.status = IF operatorApproval \/ @ = "ACTIVE"
                       THEN "ACTIVE" ELSE "APPROVED"]
    /\ UNCHANGED <<overdueDays, reservation, charge, ledger, call, moneyVars>>

activateAdminCreditAccount ==
    /\ account.approvedCreditLimit > 0 /\ validity # "after"
    /\ SetStatus({"APPROVED"}, "ACTIVE")

suspendAdminCreditAccount == SetStatus({"ACTIVE"}, "SUSPENDED")

reactivateAdminCreditAccount ==
    /\ account.approvedCreditLimit > 0 /\ validity # "after"
    /\ SetStatus({"SUSPENDED"}, "ACTIVE")

\* Closing must not strand funds reserved for a booking still in flight.
NothingReserved_CreditOnly == account.reservedCredit = 0
NothingReserved == account.reservedCredit = 0 /\ account.reservedAdvance = 0

closeAdminCreditAccount ==
    /\ NothingReserved
    /\ SetStatus({"APPROVED", "ACTIVE", "SUSPENDED", "EXPIRED", "REJECTED"},
                 "CLOSED")

rejectAdminCreditAccount ==
    SetStatus({"NOT_REQUESTED", "PENDING_REVIEW", "APPROVED", "REJECTED"},
              "REJECTED")

expireLapsedCreditAccounts ==
    validity = "after" /\ SetStatus({"ACTIVE"}, "EXPIRED")

\* validFrom, then validUntil, passes.
ValidityPasses ==
    /\ validity # "after"
    /\ validity' = IF validity = "before" THEN "open" ELSE "after"
    /\ UNCHANGED <<account, overdueDays, reservation, charge, ledger, call,
                   moneyVars>>

\* A day passes with statements outstanding past their due date.
DayPasses ==
    /\ account.invoicedOutstanding > 0
    /\ overdueDays <= MaxOverdueDays
    /\ overdueDays' = overdueDays + 1
    /\ UNCHANGED <<account, validity, reservation, charge, ledger, call,
                   moneyVars>>
-----------------------------------------------------------------------------
(***************************************************************************)
(* Other writers of the account's balances, reduced to what they do to     *)
(* this account: a captured top-up, a closed billing cycle, a payment, a   *)
(* write-off.  Amendments and cancellations of shipments that are already  *)
(* charged write them too, invoice by invoice: they are not modelled here. *)
(***************************************************************************)
creditCapturedTopUp(n) ==
    /\ received + n <= MaxReceived
    /\ account' = [account EXCEPT !.customerAdvance = @ + n]
    /\ received' = received + n
    /\ UNCHANGED <<facilityVars, reservation, charge, ledger, call, settled>>

closeCreditBillingCycle(n) ==
    /\ n \in 1 .. account.unbilledCredit
    /\ account' = [account EXCEPT !.unbilledCredit = @ - n,
                                  !.invoicedOutstanding = @ + n]
    /\ UNCHANGED <<facilityVars, reservation, charge, ledger, call, moneyVars>>

\* Statements are settled.  Once nothing is outstanding nothing is overdue;
\* otherwise the oldest due statement may have become a younger one.
Settle(n) ==
    /\ settled + n <= MaxSettled
    /\ settled' = settled + n
    /\ overdueDays' \in IF account.invoicedOutstanding = n THEN {NotOverdue}
                        ELSE NotOverdue .. overdueDays

\* A verified payment settles statements, the oldest due first, and keeps the
\* rest as Customer Advance.
AppliedToStatements_Whole(n) == n
AppliedToStatements(n) == Lesser(n, account.invoicedOutstanding)

applyVerifiedCreditPayment(n) ==
    LET applied == AppliedToStatements(n) IN
    /\ received + (n - applied) <= MaxReceived
    /\ Settle(applied)
    /\ account' = [account EXCEPT !.invoicedOutstanding = @ - applied,
                                  !.customerAdvance = @ + (n - applied)]
    /\ received' = received + (n - applied)
    /\ UNCHANGED <<validity, reservation, charge, ledger, call>>

writeOffCreditStatement(n) ==
    /\ n \in 1 .. account.invoicedOutstanding
    /\ Settle(n)
    /\ account' = [account EXCEPT !.invoicedOutstanding = @ - n]
    /\ UNCHANGED <<validity, reservation, charge, ledger, call, received>>
-----------------------------------------------------------------------------
(***************************************************************************)
(* Billing calls.  A success is remembered with what it was about, until   *)
(* the caller's next call; an error carries nothing, nor does a success    *)
(* that promises nothing.                                                  *)
(***************************************************************************)
Busy(p) == call[p].phase = "called"
Running(p, op) == Busy(p) /\ call[p].op = op
Succeed(p) ==
    call' = [call EXCEPT ![p].phase = "ok", ![p].allowCredit = FALSE]
Fail(p) == call' = [call EXCEPT ![p] = Failed]

\* The reads a reservation makes before its transaction, in the code's order:
\* the charge, the reservation under this key, then the account and its
\* overdue restriction.  Only allowCredit outlives them: the transaction
\* repeats the other two.
ReservePreRead(a) ==
    LET answered == \/ charge[DraftOf[a]].status = "COMPLETED"
                    \/ reservation[a].status # "NONE"
        refused == \/ CreditRestriction = "ALL_BOOKINGS_BLOCKED"
                   \/ /\ CreditRestriction = "CREDIT_BLOCKED"
                      /\ AvailableAdvance < Price[a]
    IN IF answered THEN "ok" ELSE IF refused THEN "error" ELSE "called"

BeginReserve(p, a) ==
    /\ ~ Busy(p)
    /\ call' = [call EXCEPT ![p] =
                  IF ReservePreRead(a) = "error" THEN Failed
                  ELSE [op |-> "reserve", phase |-> ReservePreRead(a),
                        attempt |-> a,
                        allowCredit |-> /\ ReservePreRead(a) = "called"
                                        /\ CreditRestriction # "CREDIT_BLOCKED"]]
    /\ UNCHANGED <<account, facilityVars, reservation, charge, ledger,
                   moneyVars>>

\* Every write of the reservation's transaction goes through: the account
\* still has the capacity, no other hold of the draft is live (the unique
\* partial index), and a charge of an earlier attempt has been reversed.
CanReserve_AnyDraft(a, allowCredit) ==
    /\ account.status \notin BlockedStatuses
    /\ Price[a] <= AvailableAdvance + AvailableCredit(allowCredit)
CanReserve(a, allowCredit) ==
    /\ account.status \notin BlockedStatuses
    /\ Price[a] <= AvailableAdvance + AvailableCredit(allowCredit)
    /\ \A b \in OpenHolds : DraftOf[b] # DraftOf[a]
    /\ charge[DraftOf[a]].status \in {"NONE", "REVERSED"}

reserveBookingCapacity(p) ==
    LET a == call[p].attempt
        fromAdvance == Lesser(Price[a], AvailableAdvance)
        fromCredit == Price[a] - fromAdvance
    IN
    /\ Running(p, "reserve")
    /\ reservation[a].status = "NONE"
    /\ CanReserve(a, call[p].allowCredit)
    /\ account' = [account EXCEPT !.reservedAdvance = @ + fromAdvance,
                                  !.reservedCredit = @ + fromCredit]
    /\ reservation' = [reservation EXCEPT ![a] =
                         [status |-> "ACTIVE", advance |-> fromAdvance,
                          credit |-> fromCredit, lapsed |-> FALSE]]
    /\ charge' = [charge EXCEPT ![DraftOf[a]] =
                    [status |-> "RESERVED", hold |-> a]]
    /\ Succeed(p)
    /\ UNCHANGED <<facilityVars, ledger, moneyVars>>

\* The transaction aborts, or finds that a concurrent call of the same key won.
ReserveWithoutEffect(p) ==
    LET a == call[p].attempt IN
    /\ Running(p, "reserve")
    /\ \/ reservation[a].status # "NONE" /\ Succeed(p)
       \/ /\ reservation[a].status = "NONE"
          /\ ~ CanReserve(a, call[p].allowCredit)
          /\ Fail(p)
    /\ UNCHANGED <<account, facilityVars, reservation, charge, ledger,
                   moneyVars>>

\* The wrappers of shipmentBookingBilling.service.ts read the draft's charge
\* and answer at once when there is nothing left to do.
NothingToDo_Reversed ==
    [consume |-> ChargeStatuses \ {"RESERVED"},
     convert |-> {"COMPLETED", "REVERSED"},
     release |-> {"REVERSED"},
     review  |-> {"COMPLETED", "REVERSED"}]
NothingToDo ==
    [consume |-> ChargeStatuses \ {"RESERVED"},
     convert |-> {"COMPLETED"},
     release |-> {"REVERSED"},
     review  |-> {"COMPLETED", "REVERSED"}]

BeginOnCharge(p, op, d) ==
    /\ ~ Busy(p)
    /\ call' = [call EXCEPT ![p] =
                  IF charge[d].hold = NoHold THEN Done
                  ELSE [op |-> op, attempt |-> charge[d].hold,
                        allowCredit |-> FALSE,
                        phase |-> IF charge[d].status \in NothingToDo[op]
                                  THEN "ok" ELSE "called"]]
    /\ UNCHANGED <<account, facilityVars, reservation, charge, ledger,
                   moneyVars>>
-----------------------------------------------------------------------------
SetReservation(a, status) ==
    reservation' = [reservation EXCEPT ![a].status = status]
\* The charge update selects by reservation id: a charge that has moved on to
\* another reservation, or is in no status of from, is left alone.
SetCharge(a, from, status) ==
    charge' = [charge EXCEPT ![DraftOf[a]].status =
                 IF charge[DraftOf[a]].hold = a /\ @ \in from THEN status ELSE @]
Append1(a, type) == ledger' = [ledger EXCEPT ![a] = Append(@, type)]
\* hasBookingLedgerEntry: only a hold the ledger was told about is closed there.
AppendIfAnnounced_Always(a, type) == Append1(a, type)
AppendIfAnnounced(a, type) ==
    IF ledger[a] # <<>> THEN Append1(a, type) ELSE UNCHANGED ledger

\* The account update of a transition is guarded by the totals it decrements.
HoldIsCovered(a) ==
    /\ account.reservedAdvance >= reservation[a].advance
    /\ account.reservedCredit >= reservation[a].credit
GiveBack_CreditOnly(a) ==
    account' = [account EXCEPT !.reservedCredit = @ - reservation[a].credit]
GiveBack_AllAsCredit(a) ==
    account' = [account EXCEPT
       !.reservedCredit = @ - (reservation[a].advance + reservation[a].credit)]
GiveBack(a) ==
    account' = [account EXCEPT !.reservedAdvance = @ - reservation[a].advance,
                               !.reservedCredit = @ - reservation[a].credit]

\* Not a transaction, and its result is not looked at: a hold that is no
\* longer ACTIVE is passed over in silence.
markBookingReservationConsuming(p) ==
    LET a == call[p].attempt IN
    /\ Running(p, "consume")
    /\ \/ reservation[a].status = "ACTIVE" /\ SetReservation(a, "CONSUMING")
       \/ reservation[a].status # "ACTIVE" /\ UNCHANGED reservation
    /\ call' = [call EXCEPT ![p] = Done]
    /\ UNCHANGED <<account, facilityVars, charge, ledger, moneyVars>>

ConversionIsCovered(a) ==
    HoldIsCovered(a) /\ account.customerAdvance >= reservation[a].advance

\* Advance is spent, reserved credit becomes unbilled.
SpendHold_AdvanceKept(a) ==
    account' = [account EXCEPT
            !.reservedAdvance = @ - reservation[a].advance,
            !.reservedCredit = @ - reservation[a].credit,
            !.unbilledCredit = @ + reservation[a].credit]
SpendHold(a) ==
    account' = [account EXCEPT
            !.customerAdvance = @ - reservation[a].advance,
            !.reservedAdvance = @ - reservation[a].advance,
            !.reservedCredit = @ - reservation[a].credit,
            !.unbilledCredit = @ + reservation[a].credit]

\* A charge under review is completed like a reserved one.
Completable_Reserved == {"RESERVED"}
Completable == {"RESERVED", "REVIEW_REQUIRED"}

convertBookingReservation(p) ==
    LET a == call[p].attempt IN
    /\ Running(p, "convert")
    /\ reservation[a].status \in OpenStatuses
    /\ ConversionIsCovered(a)
    /\ SpendHold(a)
    /\ SetReservation(a, "CONVERTED")
    /\ Append1(a, "BOOKING_CONVERTED")
    /\ SetCharge(a, Completable, "COMPLETED")
    /\ Succeed(p)
    /\ UNCHANGED <<facilityVars, moneyVars>>

releaseBookingReservation(p) ==
    LET a == call[p].attempt IN
    /\ Running(p, "release")
    /\ reservation[a].status \in OpenStatuses
    /\ HoldIsCovered(a)
    /\ GiveBack(a)
    /\ SetReservation(a, "RELEASED")
    /\ AppendIfAnnounced(a, "BOOKING_RELEASED")
    /\ SetCharge(a, ChargeStatuses, "REVERSED")
    /\ Succeed(p)
    /\ UNCHANGED <<facilityVars, moneyVars>>

markBookingReservationReviewRequired(p) ==
    LET a == call[p].attempt IN
    /\ Running(p, "review")
    /\ reservation[a].status = "CONSUMING"
    /\ SetReservation(a, "REVIEW_REQUIRED")
    /\ Append1(a, "BOOKING_REVIEW_REQUIRED")
    /\ SetCharge(a, ChargeStatuses, "REVIEW_REQUIRED")
    /\ Succeed(p)
    /\ UNCHANGED <<account, facilityVars, moneyVars>>

\* The transaction of a transition finds that another call was faster: the
\* same outcome is a success, any other is an error.
TransitionIsMoot(p) ==
    LET a == call[p].attempt
        same == [convert |-> {"CONVERTED"},
                 release |-> {"RELEASED", "EXPIRED"},
                 review  |-> {"REVIEW_REQUIRED"}]
        from == [convert |-> OpenStatuses, release |-> OpenStatuses,
                 review  |-> {"CONSUMING"}]
    IN
    /\ \E op \in {"convert", "release", "review"} :
          /\ Running(p, op)
          /\ reservation[a].status \notin from[op]
          /\ IF reservation[a].status \in same[op] THEN Succeed(p) ELSE Fail(p)
    /\ UNCHANGED <<account, facilityVars, reservation, charge, ledger,
                   moneyVars>>

\* The database call fails, or it commits and the answer is lost.
CallFails(p) ==
    /\ call[p].phase \in {"called", "ok"}
    /\ Fail(p)
    /\ UNCHANGED <<account, facilityVars, reservation, charge, ledger,
                   moneyVars>>
-----------------------------------------------------------------------------
\* expiresAt passes.  The fifteen minutes are counted from the reservation.
TtlLapses(a) ==
    /\ reservation[a].status = "ACTIVE" /\ ~ reservation[a].lapsed
    /\ reservation' = [reservation EXCEPT ![a].lapsed = TRUE]
    /\ UNCHANGED <<account, facilityVars, charge, ledger, call, moneyVars>>

\* Only an ACTIVE hold is eligible for the sweep.
IsStale_Announced(a) ==
    /\ reservation[a].status = "ACTIVE" /\ reservation[a].lapsed
    /\ ledger[a] # <<>>
IsStale(a) == reservation[a].status = "ACTIVE" /\ reservation[a].lapsed

\* One reservation of the scheduled sweep.
expireStaleReservation(a) ==
    /\ IsStale(a)
    /\ HoldIsCovered(a)
    /\ GiveBack(a)
    /\ SetReservation(a, "EXPIRED")
    /\ AppendIfAnnounced(a, "BOOKING_RELEASED")
    /\ SetCharge(a, {"RESERVED"}, "REVERSED")
    /\ UNCHANGED <<facilityVars, call, moneyVars>>
-----------------------------------------------------------------------------
FacilityStep ==
    \/ requestClientCredit
    \/ \E limit \in Limits, operatorApproval \in BOOLEAN :
          approveAdminCreditAccount(limit, operatorApproval)
    \/ activateAdminCreditAccount
    \/ suspendAdminCreditAccount
    \/ reactivateAdminCreditAccount
    \/ closeAdminCreditAccount
    \/ rejectAdminCreditAccount
    \/ expireLapsedCreditAccounts
    \/ ValidityPasses
    \/ DayPasses

BalanceStep ==
    \/ \E n \in Amounts : creditCapturedTopUp(n)
    \/ \E n \in 1 .. account.unbilledCredit : closeCreditBillingCycle(n)
    \/ \E n \in Amounts : applyVerifiedCreditPayment(n)
    \/ \E n \in 1 .. account.invoicedOutstanding : writeOffCreditStatement(n)

BeginCall(p) ==
    \/ \E a \in Attempts : BeginReserve(p, a)
    \/ \E op \in ChargeOps, d \in Drafts : BeginOnCharge(p, op, d)

\* What a call does once it has begun.
CallStep(p) ==
    \/ reserveBookingCapacity(p)
    \/ ReserveWithoutEffect(p)
    \/ markBookingReservationConsuming(p)
    \/ convertBookingReservation(p)
    \/ releaseBookingReservation(p)
    \/ markBookingReservationReviewRequired(p)
    \/ TransitionIsMoot(p)
    \/ CallFails(p)

SweepStep(a) == TtlLapses(a) \/ expireStaleReservation(a)

Next ==
    \/ FacilityStep
    \/ BalanceStep
    \/ \E p \in Callers : BeginCall(p) \/ CallStep(p)
    \/ \E a \in Attempts : SweepStep(a)

Spec == Init /\ [][Next]_vars
-----------------------------------------------------------------------------
(***************************************************************************)
(* Safety.                                                                 *)
(***************************************************************************)

\* The account's reserved totals are exactly the sums over its open
\* reservations, the check creditReconciliation.service.ts makes at night:
\* no interleaving of bookings, releases and the sweep makes them drift.
HoldsBacked ==
    /\ account.reservedAdvance = Total(OpenHolds, advanceOf)
    /\ account.reservedCredit = Total(OpenHolds, creditOf)

\* Concurrent bookings never hold more Customer Advance than there is, so a
\* conversion can always be paid for.
AdvanceCovered == account.reservedAdvance <= account.customerAdvance

\* No transition of a hold is ever refused by the guards on the totals that it
\* decrements: BOOKING_RESERVATION_CONVERSION_FAILED and _RELEASE_FAILED are
\* errors that no interleaving raises for an open hold.
HoldsConvertible == \A a \in OpenHolds : ConversionIsCovered(a)

\* Reserved, unbilled and invoiced credit together never exceed the approved
\* limit, whatever callers, payments and limit changes do meanwhile.
CreditWithinLimit == UsedCredit <= account.approvedCreditLimit

\* The charge of a draft says what became of the hold it points to, and every
\* open or converted hold is the one its draft's charge points to.
ChargeFollowsHold ==
    LET follows == [RESERVED |-> {"ACTIVE", "CONSUMING"},
                    REVIEW_REQUIRED |-> {"REVIEW_REQUIRED"},
                    COMPLETED |-> {"CONVERTED"},
                    REVERSED |-> {"RELEASED", "EXPIRED"}]
    IN
    /\ \A d \in Drafts :
          IF charge[d].status = "NONE" THEN charge[d].hold = NoHold
          ELSE /\ charge[d].hold \in Attempts
               /\ DraftOf[charge[d].hold] = d
               /\ reservation[charge[d].hold].status \in follows[charge[d].status]
    /\ \A a \in OpenHolds \cup ConvertedHolds : charge[DraftOf[a]].hold = a

\* However often its booking is retried, a draft has at most one hold that is
\* open or was converted: it is never charged twice, nor charged while held.
DraftHeldOnce ==
    \A a, b \in OpenHolds \cup ConvertedHolds : DraftOf[a] = DraftOf[b] => a = b

\* The booking entries of the ledger tell exactly what happened: nothing of a
\* hold that was dropped unannounced, and never two outcomes.
LedgerTellsOutcome ==
    LET review == <<"BOOKING_REVIEW_REQUIRED">>
        tells == [NONE |-> {<<>>}, ACTIVE |-> {<<>>}, CONSUMING |-> {<<>>},
                  EXPIRED |-> {<<>>},
                  REVIEW_REQUIRED |-> {review},
                  RELEASED |-> {<<>>, review \o <<"BOOKING_RELEASED">>},
                  CONVERTED |-> {<<"BOOKING_CONVERTED">>,
                                 review \o <<"BOOKING_CONVERTED">>}]
    IN \A a \in Attempts : ledger[a] \in tells[reservation[a].status]

\* A closed facility strands no hold of a booking in flight, although bookings
\* that began before the closing go on.
ClosedHoldsNothing == account.status = "CLOSED" => OpenHolds = {}

\* Advance and debt change hands by conversion only: what was received is still
\* there or was converted, what was converted on credit is owed or was settled.
MoneyConserved ==
    /\ account.customerAdvance + Total(ConvertedHolds, advanceOf) = received
    /\ account.unbilledCredit + account.invoicedOutstanding + settled
          = Total(ConvertedHolds, creditOf)

\* A call answered with success has had its effect, by its own doing or by that
\* of a concurrent call.  Marking a hold as consuming is the exception: it
\* promises nothing.
AnswersAreTrue ==
    LET now(p) == reservation[call[p].attempt].status
        done == [reserve |-> ReservationStatuses \ {"NONE"},
                 consume |-> ReservationStatuses,
                 convert |-> {"CONVERTED"},
                 release |-> {"RELEASED", "EXPIRED"},
                 review  |-> ReservationStatuses \ {"NONE", "ACTIVE", "CONSUMING"}]
    IN \A p \in Callers :
          call[p].phase = "ok" /\ call[p].attempt # NoHold =>
             \/ now(p) \in done[call[p].op]
             \/ /\ call[p].op = "reserve"
                /\ charge[DraftOf[call[p].attempt]].status = "COMPLETED"

\* A call in progress has something to work on: strengthens TypeOK.
CallsNameHolds ==
    \A p \in Callers : call[p].phase = "called" => call[p].attempt \in Attempts
-----------------------------------------------------------------------------
(***************************************************************************)
(* The engine implements BookingFunds.                                     *)
(***************************************************************************)
Stage(status) ==
    CASE status = "NONE" -> "none"
      [] status \in OpenStatuses -> "held"
      [] status = "CONVERTED" -> "taken"
      [] status \in {"RELEASED", "EXPIRED"} -> "freed"

Funds == INSTANCE BookingFunds WITH
    purse <- account.customerAdvance,
    debt <- account.unbilledCredit + account.invoicedOutstanding,
    line <- account.approvedCreditLimit,
    hold <- [a \in Attempts |-> [stage |-> Stage(reservation[a].status),
                                 advance |-> reservation[a].advance,
                                 credit |-> reservation[a].credit]]

\* The running totals, the call protocol and the retries amount to holding,
\* taking and freeing, each at most once per attempt and never beyond capacity.
ImplementsFunds == Funds!FundsSpec
=============================================================================
