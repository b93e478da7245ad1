-------------------------- MODULE RazorpayPayments --------------------------
(***************************************************************************)
(* The payments taken through Razorpay: Customer Advance top-ups, security *)
(* deposits, online credit payments and the payments of public bookings.   *)
(*                                                                         *)
(* One payment is reported to the portal several times: by the checkout    *)
(* that returns to the browser, by a later look at the payment history and *)
(* by the webhook events payment.captured and order.paid, each delivered   *)
(* any number of times and in any order.  A failed first attempt on the    *)
(* same order may be reported after the second one has succeeded.  Each    *)
(* report is a request handled by the code below, one await at a time,     *)
(* next to the others; a handler may stop anywhere.                        *)
(***************************************************************************)
EXTENDS MinorUnits, FiniteSets

CONSTANTS
    TopUps, Deposits, CreditPayments, PublicPayments,  \* orders of each kind
    Scenarios,      \* the sets of orders that may exist together
    Amount,         \* what each top-up pays
    DailyLimit,     \* RAZORPAY_MAX_DAILY_TOPUP_MINOR
    Handlers,       \* requests handled at the same time
    MaxEvents,      \* bound, by scenario: webhook events Razorpay sends
    MaxCrashes      \* bound, by scenario: handlers that stop half way

Prepaid == TopUps \cup Deposits
Portal == Prepaid \cup CreditPayments
NoOrder == "none"
Orders == TopUps \cup Deposits \cup CreditPayments \cup PublicPayments

ASSUME PaymentsAssumption ==
    /\ IsFiniteSet(Orders) /\ IsFiniteSet(Handlers)
    /\ TopUps \cap Deposits = {} /\ Prepaid \cap CreditPayments = {}
    /\ Portal \cap PublicPayments = {}
    /\ NoOrder \notin Orders
    /\ Scenarios \subseteq SUBSET Orders
    /\ Amount \in [TopUps -> Nat \ {0}] /\ DailyLimit \in Nat
    /\ MaxEvents \in [Scenarios -> Nat] /\ MaxCrashes \in [Scenarios -> Nat]

VARIABLES
    orders,         \* the scenario: orders customers open
    gateway,        \* Razorpay: what became of the payments of an order
    payment,        \* the PaymentTopUp, CreditPayment or PublicShipmentPayment
    credited,       \* how often an order's money was applied to the account
    depositStatus,  \* BusinessAccount.depositStatus = "received"
    creating,       \* how far createClientPrepaidTopUp is with a top-up
    createdAt,      \* the creation time of a top-up, as an ordinal
    repeated,       \* top-ups whose order a repeated request was answered with
    lapsed,         \* top-ups that no longer count: unpaid too long, or failed
    booking,        \* PublicShipmentBooking.state
    shipment,       \* the shipment of a public booking
    receipt,        \* WebhookEvent.status of each event
    handler,        \* the requests being handled
    crashes,        \* handlers that have stopped half way
    overtaken,      \* history: public payments a stale document was saved over
    crossed         \* history: rows landed in another order than createdAt

creationVars == <<creating, createdAt, repeated, crossed>>
publicVars == <<booking, shipment, overtaken>>
portalVars == <<credited, depositStatus>>
vars == <<orders, gateway, payment, credited, depositStatus, creating,
          createdAt, repeated, lapsed, booking, shipment, receipt, handler,
          crashes, overtaken, crossed>>
-----------------------------------------------------------------------------
Events == [order : Orders, type : {"captured", "paid", "failed"}]
NoEvent == [order |-> "none", type |-> "none"]

Idle == [pc |-> "idle", order |-> NoOrder, event |-> NoEvent,
         loaded |-> "NONE"]
NotPaid == [failed |-> FALSE, paid |-> "no", refunded |-> FALSE]

Status(o) == payment[o]
Captured(o) == gateway[o].paid = "captured"
At(h, pc) == handler[h].pc = pc
Of(h) == handler[h].order
Goto(h, pc) == handler' = [handler EXCEPT ![h].pc = pc]
SetStatus(o, status) == payment' = [payment EXCEPT ![o] = status]

\* A request that is done: a webhook still has to record the outcome.
Leave(h, outcome) ==
    IF handler[h].event = NoEvent THEN handler' = [handler EXCEPT ![h] = Idle]
                                  ELSE Goto(h, outcome)
Done(h) == Leave(h, "settled")
Throw(h) == Leave(h, "refused")

\* Statuses of a public payment whose fulfilment has begun.
Taken == {"FULFILLING", "BOOKED", "REVIEW_REQUIRED", "REFUND_PENDING",
          "REFUNDED"}

Init ==
    /\ orders \in Scenarios
    /\ gateway = [o \in Orders |-> NotPaid]
    /\ payment = [o \in Orders |-> "NONE"]
    /\ credited = [o \in Portal |-> 0]
    /\ depositStatus = FALSE
    /\ creating = [o \in TopUps |-> "no"]
    /\ createdAt = [o \in TopUps |-> 0]
    /\ booking = [o \in PublicPayments |-> "QUOTED"]
    /\ shipment = [o \in PublicPayments |-> "NONE"]
    /\ receipt = [e \in Events |-> "NONE"]
    /\ handler = [h \in Handlers |-> Idle]
    /\ crashes = 0
    /\ repeated = {} /\ lapsed = {} /\ overtaken = {} /\ crossed = FALSE
-----------------------------------------------------------------------------
(* Creating a top-up (createClientPrepaidTopUp).                           *)

Rows == {o \in TopUps : Status(o) # "NONE"}

\* Settled statuses always count for the day; an unpaid order only while
\* it is fresh.
CountsToday(o) ==
    \/ Status(o) \in {"PROCESSING", "CAPTURED"}
    \/ Status(o) = "CREATED" /\ o \notin lapsed

Used(rows) == Total({o \in rows : CountsToday(o)}, Amount)

\* The pre-check, before an order exists at Razorpay.
RequestTopUp(o) ==
    /\ o \in TopUps \cap orders /\ creating[o] = "no"
    /\ Used(Rows) + Amount[o] <= DailyLimit
    /\ creating' = [creating EXCEPT ![o] = "ordered"]
    /\ UNCHANGED <<orders, gateway, payment, portalVars, createdAt, repeated,
                   publicVars, receipt, handler, crashes, lapsed, crossed>>

\* createdAt is set when the document is built, before the insert lands.
StampTopUp(o) ==
    /\ o \in TopUps /\ creating[o] = "ordered"
    /\ creating' = [creating EXCEPT ![o] = "stamped"]
    /\ createdAt' = [createdAt EXCEPT ![o] =
                        1 + Cardinality({t \in TopUps : createdAt[t] # 0})]
    /\ UNCHANGED <<orders, gateway, payment, portalVars, repeated, publicVars,
                   receipt, handler, crashes, lapsed, crossed>>

InsertTopUp(o) ==
    /\ o \in TopUps /\ creating[o] = "stamped"
    /\ creating' = [creating EXCEPT ![o] = "landed"]
    /\ SetStatus(o, "CREATED")
    /\ crossed' = (crossed \/ \E t \in Rows : createdAt[t] > createdAt[o])
    /\ UNCHANGED <<orders, gateway, portalVars, createdAt, repeated, publicVars,
                   receipt, handler, crashes, lapsed>>

Competing_none(o) == {o}
\* The rows a new top-up is confirmed against: those created no later.
Competing(o) == {t \in Rows : createdAt[t] <= createdAt[o]}

\* A refused row is cancelled if nothing has happened to it yet.
ConfirmTopUp(o) ==
    /\ o \in TopUps /\ creating[o] = "landed"
    /\ IF Used(Competing(o)) > DailyLimit
         THEN /\ creating' = [creating EXCEPT ![o] = "refused"]
              /\ IF Status(o) = "CREATED" THEN SetStatus(o, "CANCELLED")
                                          ELSE UNCHANGED payment
         ELSE /\ creating' = [creating EXCEPT ![o] = "offered"]
              /\ UNCHANGED payment
    /\ UNCHANGED <<orders, gateway, portalVars, createdAt, repeated, publicVars,
                   receipt, handler, crashes, lapsed, crossed>>

Confirmed(o) == creating[o] = "offered"

\* A request with the same Idempotency-Key is answered with the row as it is
\* and its order, confirmed or not; for an offered one that changes nothing.
RepeatTopUp(o) ==
    /\ o \in Rows \ repeated /\ ~Confirmed(o)
    /\ repeated' = repeated \cup {o}
    /\ UNCHANGED <<orders, gateway, payment, portalVars, creating, createdAt,
                   publicVars, receipt, handler, crashes, lapsed, crossed>>

\* RAZORPAY_TOPUP_PENDING_TTL_MINUTES pass and the order is still unpaid.
GoStale(o) ==
    /\ o \in TopUps \ lapsed /\ Status(o) = "CREATED"
    /\ lapsed' = lapsed \cup {o}
    /\ UNCHANGED <<orders, gateway, payment, portalVars, creationVars,
                   publicVars, receipt, handler, crashes>>

(* Opening the other orders.                                               *)
OpenOrder(o) ==
    /\ o \in orders \ TopUps /\ Status(o) = "NONE"
    /\ o \in Deposits => ~depositStatus
    /\ SetStatus(o, IF o \in PublicPayments THEN "ORDER_CREATED" ELSE "CREATED")
    /\ booking' = [p \in PublicPayments |->
                      IF p = o THEN "PAYMENT_PENDING" ELSE booking[p]]
    /\ UNCHANGED <<orders, gateway, portalVars, creationVars, shipment, receipt,
                   handler, crashes, overtaken, lapsed>>

\* createPublicPaymentOrder hands an open order out again.
ReopenCheckout(o) ==
    /\ o \in PublicPayments /\ Status(o) \in {"ORDER_CREATED", "FAILED"}
    /\ booking[o] # "PAYMENT_PENDING"
    /\ booking' = [booking EXCEPT ![o] = "PAYMENT_PENDING"]
    /\ UNCHANGED <<orders, gateway, payment, portalVars, creationVars, shipment,
                   receipt, handler, crashes, overtaken, lapsed>>
-----------------------------------------------------------------------------
(* Razorpay and its customers.                                             *)

\* Orders some customer has been given, and may pay.
Offered(o) == IF o \in TopUps THEN Confirmed(o) \/ o \in repeated
                              ELSE Status(o) # "NONE"

PortalKept ==
    UNCHANGED <<orders, payment, portalVars, creationVars, publicVars, receipt,
                handler, crashes, lapsed>>

AttemptFails(o) ==
    /\ Offered(o) /\ gateway[o] = NotPaid
    /\ gateway' = [gateway EXCEPT ![o].failed = TRUE]
    /\ PortalKept

Authorise(o) ==
    /\ Offered(o) /\ gateway[o].paid = "no"
    /\ gateway' = [gateway EXCEPT ![o].paid = "authorized"]
    /\ PortalKept

AutoCapture(o) ==
    /\ gateway[o].paid = "authorized"
    /\ gateway' = [gateway EXCEPT ![o].paid = "captured"]
    /\ PortalKept

\* What Razorpay has to report.
Reportable(e) == IF e.type = "failed" THEN gateway[e.order].failed
                                      ELSE Captured(e.order)
-----------------------------------------------------------------------------
(* The webhook: receipt, dispatch and outcome.                             *)

FirstStep(e) == IF e.type = "failed" THEN "fail"
                ELSE IF e.order \in Portal THEN "credit"
                ELSE "load"

Begin(h, e, pc) ==
    handler' = [handler EXCEPT ![h] = [pc |-> pc, order |-> e.order, event |-> e,
                                       loaded |-> "NONE"]]

\* recordWebhookReceipt: a new event is processed; a known one only if it
\* failed, and then its receipt is reopened by a later save.
Deliver(h, e) ==
    /\ At(h, "idle") /\ Reportable(e)
    /\ \/ /\ receipt[e] = "NONE"
          /\ Cardinality({x \in Events : receipt[x] # "NONE"}) < MaxEvents[orders]
          /\ receipt' = [receipt EXCEPT ![e] = "RECEIVED"]
          /\ Begin(h, e, FirstStep(e))
       \/ /\ receipt[e] = "FAILED"
          /\ Begin(h, e, "reopen")
          /\ UNCHANGED receipt
    /\ UNCHANGED <<orders, gateway, payment, portalVars, creationVars,
                   publicVars, crashes, lapsed>>

ReopenReceipt(h) ==
    /\ At(h, "reopen")
    /\ receipt' = [receipt EXCEPT ![handler[h].event] = "RECEIVED"]
    /\ Goto(h, FirstStep(handler[h].event))
    /\ UNCHANGED <<orders, gateway, payment, portalVars, creationVars,
                   publicVars, crashes, lapsed>>

Outcome_processed(h) == "PROCESSED"
Outcome(h) == IF At(h, "settled") THEN "PROCESSED" ELSE "FAILED"

\* markWebhookProcessed
RecordOutcome(h) ==
    /\ At(h, "settled") \/ At(h, "refused")
    /\ receipt' = [receipt EXCEPT ![handler[h].event] = Outcome(h)]
    /\ handler' = [handler EXCEPT ![h] = Idle]
    /\ UNCHANGED <<orders, gateway, payment, portalVars, creationVars,
                   publicVars, crashes, lapsed>>

(* payment.failed                                                          *)
\* What a failure report leaves alone.
KeptOnFailure(o) ==
    CASE o \in Prepaid -> {"CAPTURED"}
      [] o \in CreditPayments -> {"VERIFIED"}
      [] OTHER -> Taken \cup {"CAPTURED"}

MarkFailed(h) ==
    LET o == Of(h) IN
    /\ At(h, "fail")
    /\ IF Status(o) \in KeptOnFailure(o)
         THEN Done(h) /\ UNCHANGED <<payment, lapsed>>
         ELSE /\ SetStatus(o, "FAILED")
              /\ lapsed' = lapsed \cup ({o} \cap TopUps)
              /\ IF o \in PublicPayments THEN Goto(h, "requote") ELSE Done(h)
    /\ UNCHANGED <<orders, gateway, portalVars, creationVars, publicVars,
                   receipt, crashes>>

\* The second write of markPublicPaymentFailed, not conditional on anything.
RequoteBooking(h) ==
    /\ At(h, "requote")
    /\ booking' = [booking EXCEPT ![Of(h)] = "QUOTED"]
    /\ Done(h)
    /\ UNCHANGED <<orders, gateway, payment, portalVars, creationVars, shipment,
                   receipt, crashes, overtaken, lapsed>>
-----------------------------------------------------------------------------
(* Applying captured money to the account: one transaction each.           *)

AlreadyApplied_key(o) == FALSE
AlreadyApplied(o) == Status(o) \in {"CAPTURED", "VERIFIED"}

Apply(h, status) ==
    LET o == Of(h) IN
    /\ SetStatus(o, status)
    /\ credited' = [credited EXCEPT ![o] = @ + 1]
    /\ Done(h)

\* creditCapturedTopUp
CreditCapturedTopUp(h) ==
    LET o == Of(h) IN
    /\ At(h, "credit") /\ o \in Prepaid
    /\ \/ /\ AlreadyApplied(o)
          /\ Done(h) /\ UNCHANGED <<payment, credited, depositStatus>>
       \/ /\ ~AlreadyApplied(o) /\ o \in Deposits /\ depositStatus
          /\ Throw(h) /\ UNCHANGED <<payment, credited, depositStatus>>
       \/ /\ ~AlreadyApplied(o) /\ ~(o \in Deposits /\ depositStatus)
          /\ Apply(h, "CAPTURED")
          /\ depositStatus' = (depositStatus \/ o \in Deposits)
    /\ UNCHANGED <<orders, gateway, creationVars, publicVars, receipt, crashes,
                   lapsed>>

\* applyVerifiedCreditPayment; what it pays off is CreditBilling's VerifyPayment.
ApplyVerifiedCreditPayment(h) ==
    LET o == Of(h) IN
    /\ At(h, "credit") /\ o \in CreditPayments
    /\ \/ AlreadyApplied(o) /\ Done(h) /\ UNCHANGED <<payment, credited>>
       \/ Status(o) = "FAILED" /\ Throw(h) /\ UNCHANGED <<payment, credited>>
       \/ Status(o) \in {"CREATED", "PROCESSING"} /\ Apply(h, "VERIFIED")
    /\ UNCHANGED <<orders, gateway, depositStatus, creationVars, publicVars,
                   receipt, crashes, lapsed>>

(* The checkout returns to the browser.                                    *)
Start(h, o, pc, loaded) ==
    handler' = [handler EXCEPT ![h] = [pc |-> pc, order |-> o, event |-> NoEvent,
                                       loaded |-> loaded]]

\* verifyClientPrepaidTopUp and verifyClientOnlinePayment: a payment whose
\* status is closed keeps it.  A FAILED top-up names the failed attempt and a
\* CANCELLED one names none, so looking those up leads nowhere.
VerifyCheckout(h, o) ==
    LET closed == IF o \in Prepaid THEN {"CAPTURED", "FAILED", "CANCELLED"}
                                   ELSE {"VERIFIED", "FAILED"}
    IN
    /\ At(h, "idle") /\ o \in Portal /\ gateway[o].paid # "no"
    /\ o \in Prepaid => Status(o) \notin {"FAILED", "CANCELLED"}
    /\ SetStatus(o, IF Status(o) \in closed THEN Status(o) ELSE "PROCESSING")
    /\ Start(h, o, "reconcile", "NONE")
    /\ UNCHANGED <<orders, gateway, portalVars, creationVars, publicVars,
                   receipt, crashes, lapsed>>

\* A look at the payment history reconciles what is PROCESSING.
LookAtHistory(h, o) ==
    /\ At(h, "idle") /\ o \in Prepaid /\ Status(o) = "PROCESSING"
    /\ Start(h, o, "reconcile", "NONE")
    /\ UNCHANGED <<orders, gateway, payment, portalVars, creationVars,
                   publicVars, receipt, crashes, lapsed>>

\* reconcileRazorpayTopUp: fetch the payment, capture it if it is only
\* authorised; the lookup or the capture may fail.
Reconcile(h) ==
    /\ At(h, "reconcile")
    /\ \/ /\ gateway' = [gateway EXCEPT ![Of(h)].paid = "captured"]
          /\ Goto(h, "credit")
       \/ Done(h) /\ UNCHANGED gateway
    /\ UNCHANGED <<orders, payment, portalVars, creationVars, publicVars,
                   receipt, crashes, lapsed>>
-----------------------------------------------------------------------------
(* The payment of a public booking.                                        *)

\* confirmPublicPayment up to the claim: the document is loaded here.
ConfirmPublic(h, o) ==
    /\ At(h, "idle") /\ o \in PublicPayments /\ gateway[o].paid # "no"
    /\ \/ Status(o) \in {"CAPTURED", "FULFILLING"} /\ Start(h, o, "fulfil", "NONE")
       \/ Status(o) \in {"ORDER_CREATED", "FAILED", "VERIFYING"}
             /\ Start(h, o, "claim", Status(o))
    /\ UNCHANGED <<orders, gateway, payment, portalVars, creationVars,
                   publicVars, receipt, crashes, lapsed>>

ClaimVerification(h) ==
    LET o == Of(h) IN
    /\ At(h, "claim")
    /\ IF Status(o) \in {"ORDER_CREATED", "FAILED"}
         THEN SetStatus(o, "VERIFYING") /\ Goto(h, "lookup")
         ELSE Done(h) /\ UNCHANGED payment
    /\ UNCHANGED <<orders, gateway, portalVars, creationVars, publicVars,
                   receipt, crashes, lapsed>>

LookUp(h) ==
    /\ At(h, "lookup")
    /\ \/ /\ gateway' = [gateway EXCEPT ![Of(h)].paid = "captured"]
          /\ Goto(h, "capture")
       \/ Goto(h, "giveUp") /\ UNCHANGED gateway
    /\ UNCHANGED <<orders, payment, portalVars, creationVars, publicVars,
                   receipt, crashes, lapsed>>

\* applyCapturedPublicPaymentWebhook up to its save.
LoadPublic(h) ==
    LET o == Of(h) IN
    /\ At(h, "load")
    /\ IF Status(o) \in Taken
         THEN Done(h)
         ELSE handler' = [handler EXCEPT ![h] =
                  [pc |-> "capture", order |-> o, event |-> handler[h].event,
                   loaded |-> Status(o)]]
    /\ UNCHANGED <<orders, gateway, payment, portalVars, creationVars,
                   publicVars, receipt, crashes, lapsed>>

\* A document is saved as it was loaded, whatever it has become: only a
\* path that was modified since it was loaded is written.
SaveLoaded(h, status) ==
    LET o == Of(h) IN
    IF handler[h].loaded = status THEN UNCHANGED <<payment, overtaken>>
    ELSE /\ SetStatus(o, status)
         /\ overtaken' = IF Status(o) \in Taken \cup {"CAPTURED"}
                         THEN overtaken \cup {o} ELSE overtaken

SaveCaptured(h) ==
    /\ At(h, "capture")
    /\ SaveLoaded(h, "CAPTURED")
    /\ Goto(h, "fulfil")
    /\ UNCHANGED <<orders, gateway, portalVars, creationVars, booking, shipment,
                   receipt, crashes, lapsed>>

SaveOrderCreated(h) ==
    /\ At(h, "giveUp")
    /\ SaveLoaded(h, "ORDER_CREATED")
    /\ Done(h)
    /\ UNCHANGED <<orders, gateway, portalVars, creationVars, booking, shipment,
                   receipt, crashes, lapsed>>

(* fulfillCapturedPublicPayment                                            *)
BothAre(o, state) == SetStatus(o, state) /\ booking' = [booking EXCEPT ![o] = state]

ClaimFulfilment(h) ==
    LET o == Of(h) IN
    /\ At(h, "fulfil")
    /\ \/ Status(o) = "CAPTURED" /\ BothAre(o, "FULFILLING") /\ Goto(h, "book")
       \/ /\ Status(o) # "CAPTURED"
          /\ IF Status(o) = "BOOKED" /\ booking[o] = "BOOKED" THEN Done(h)
                                                            ELSE Throw(h)
          /\ UNCHANGED <<payment, booking>>
    /\ UNCHANGED <<orders, gateway, portalVars, creationVars, shipment, receipt,
                   crashes, overtaken, lapsed>>

\* createLabelForShipmentDraft, reduced to the states its caller can see.
Ship(h, state, pc) ==
    /\ shipment' = [shipment EXCEPT ![Of(h)] = state]
    /\ Goto(h, pc)

CreateShipment(h) ==
    LET o == Of(h) IN
    /\ \/ At(h, "book") /\ shipment[o] = "NONE" /\ Ship(h, "LOCKED", "locked")
       \/ At(h, "book") /\ shipment[o] = "COMPLETE" /\ Ship(h, "COMPLETE", "booked")
       \/ At(h, "book") /\ shipment[o] \in {"LOCKED", "RECORDED"}
            /\ Ship(h, shipment[o], "broken")
       \/ At(h, "locked") /\ Ship(h, "RECORDED", "recorded")
       \/ At(h, "locked") /\ Ship(h, "NONE", "broken")
       \/ At(h, "recorded") /\ Ship(h, "COMPLETE", "booked")
       \/ At(h, "recorded") /\ Ship(h, "RECORDED", "broken")
    /\ UNCHANGED <<orders, gateway, payment, portalVars, creationVars, booking,
                   receipt, crashes, overtaken, lapsed>>

\* The booking and the payment are saved side by side; when one of the writes
\* after the shipment fails, the other may have been made.
FinishBooking(h) ==
    LET o == Of(h) IN
    /\ At(h, "booked")
    /\ \/ BothAre(o, "BOOKED") /\ Done(h)
       \/ /\ SetStatus(o, "BOOKED") \/ UNCHANGED payment
          /\ booking' = [booking EXCEPT ![o] = "BOOKED"] \/ UNCHANGED booking
          /\ Goto(h, "broken")
    /\ UNCHANGED <<orders, gateway, portalVars, creationVars, shipment, receipt,
                   crashes, overtaken, lapsed>>

Durable_complete(o) == shipment[o] = "COMPLETE"
Durable(o) == shipment[o] \in {"RECORDED", "COMPLETE"}

FulfilmentFails(h) ==
    LET o == Of(h) IN
    /\ At(h, "broken")
    /\ \/ Durable(o) /\ BothAre(o, "REVIEW_REQUIRED") /\ Throw(h)
       \/ ~Durable(o) /\ BothAre(o, "REFUND_PENDING") /\ Goto(h, "refund")
    /\ UNCHANGED <<orders, gateway, portalVars, creationVars, shipment, receipt,
                   crashes, overtaken, lapsed>>

\* The refund is processed, pending at Razorpay, or its request fails.
RefundPayment(h) ==
    LET o == Of(h) IN
    /\ At(h, "refund")
    /\ \/ /\ gateway' = [gateway EXCEPT ![o].refunded = TRUE]
          /\ BothAre(o, "REFUNDED") \/ UNCHANGED <<payment, booking>>
       \/ UNCHANGED <<gateway, payment, booking>>
    /\ Throw(h)
    /\ UNCHANGED <<orders, portalVars, creationVars, shipment, receipt, crashes,
                   overtaken, lapsed>>

(* A handler stops half way.                                               *)
Crash(h) ==
    /\ ~At(h, "idle") /\ crashes < MaxCrashes[orders]
    /\ crashes' = crashes + 1
    /\ handler' = [handler EXCEPT ![h] = Idle]
    /\ UNCHANGED <<orders, gateway, payment, portalVars, creationVars,
                   publicVars, receipt, lapsed>>
-----------------------------------------------------------------------------
Next ==
    \/ \E o \in orders :
          \/ RequestTopUp(o) \/ StampTopUp(o) \/ InsertTopUp(o)
          \/ ConfirmTopUp(o) \/ RepeatTopUp(o) \/ GoStale(o)
          \/ OpenOrder(o) \/ ReopenCheckout(o)
          \/ AttemptFails(o) \/ Authorise(o) \/ AutoCapture(o)
    \/ \E h \in Handlers :
          \/ \E e \in Events : Deliver(h, e)
          \/ \E o \in orders : VerifyCheckout(h, o) \/ LookAtHistory(h, o)
                                  \/ ConfirmPublic(h, o)
          \/ ReopenReceipt(h) \/ RecordOutcome(h)
          \/ MarkFailed(h) \/ RequoteBooking(h)
          \/ CreditCapturedTopUp(h) \/ ApplyVerifiedCreditPayment(h)
          \/ Reconcile(h) \/ ClaimVerification(h) \/ LookUp(h) \/ LoadPublic(h)
          \/ SaveCaptured(h) \/ SaveOrderCreated(h) \/ ClaimFulfilment(h)
          \/ CreateShipment(h) \/ FinishBooking(h) \/ FulfilmentFails(h)
          \/ RefundPayment(h) \/ Crash(h)

Spec == Init /\ [][Next]_vars
-----------------------------------------------------------------------------
(* Properties.                                                             *)

\* Money is applied to the account once for each payment, when and only when
\* the payment is recorded as captured, and only for money Razorpay has
\* captured - however many reports of it arrive, in whatever order, next to
\* reports of a failed attempt.  One security deposit is received at most.
AppliedExactlyOnce ==
    /\ \A o \in Portal :
          /\ credited[o] = (IF Status(o) \in {"CAPTURED", "VERIFIED"} THEN 1 ELSE 0)
          /\ credited[o] > 0 => Captured(o)
    /\ Cardinality({o \in Deposits : credited[o] > 0}) =
          (IF depositStatus THEN 1 ELSE 0)

\* A captured event whose receipt says PROCESSED has been settled: Razorpay
\* will not send it again, so nothing else may depend on it.  For a public
\* payment settled means its fulfilment has begun (a stale save can undo
\* that: see overtaken).
ProcessedIsSettled ==
    \A e \in Events :
        receipt[e] = "PROCESSED" /\ e.type # "failed" =>
            \/ e.order \in Portal /\ credited[e.order] = 1
            \/ e.order \in PublicPayments
                 /\ (Status(e.order) \in Taken \/ e.order \in overtaken)

\* A customer who was charged for a public booking gets the shipment or the
\* money, never both, and a shipment is made for captured money only.  The
\* exception is a payment over which a handler saved the stale document it
\* had loaded: two handlers may then fulfil it.
ShippedOrRefunded ==
    \A o \in PublicPayments :
        /\ shipment[o] # "NONE" => Captured(o)
        /\ Status(o) = "BOOKED" => shipment[o] = "COMPLETE"
        /\ o \notin overtaken /\ shipment[o] \in {"RECORDED", "COMPLETE"} =>
              /\ ~gateway[o].refunded
              /\ Status(o) \notin {"REFUND_PENDING", "REFUNDED"}

\* The top-ups confirmed today and neither abandoned nor failed since do not
\* add up to more than the daily limit, although each request checks the rows
\* it can see.  The check orders rows by createdAt: when two rows land in the
\* other order both are confirmed (crossed).  Beyond the limit are the orders
\* only a repeated request was answered with: those nobody confirmed.
DailyLimitHolds ==
    ~crossed => Total({o \in TopUps : Confirmed(o) /\ o \notin lapsed},
                      Amount) <= DailyLimit
=============================================================================
