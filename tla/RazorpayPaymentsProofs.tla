----------------------- MODULE RazorpayPaymentsProofs -----------------------
(***************************************************************************)
(* What becomes of the money taken through Razorpay, for any number of     *)
(* orders, requests handled at once, reports and crashes.                  *)
(*                                                                         *)
(* The invariant has four parts, one for each property: where a request    *)
(* may be and what it may rely on there (HandlersOk), how far a top-up is  *)
(* (TopUpsOk) and when its money was applied (AppliedOk), who fulfils a    *)
(* public payment (FulfilmentOk), and which top-ups a confirmed one was    *)
(* counted together with (DailyOk).                                        *)
(***************************************************************************)
EXTENDS RazorpayPayments, MinorUnitsProofs

Statuses == Taken \cup {"NONE", "CREATED", "CANCELLED", "PROCESSING", "CAPTURED",
                        "VERIFIED", "FAILED", "ORDER_CREATED", "VERIFYING"}
Reporting == {"fail", "requote", "reopen", "load", "settled", "refused"}
Looking == {"reconcile", "claim", "lookup", "giveUp"}
Fulfilling == {"book", "locked", "recorded", "booked", "broken"}
Public == Fulfilling \cup {"requote", "load", "claim", "lookup", "giveUp",
                           "capture", "fulfil", "refund"}
Paid == Fulfilling \cup {"credit", "capture", "fulfil", "refund"}
Phases == Public \cup Paid \cup Reporting \cup Looking \cup {"idle"}

GatewayType == [failed : BOOLEAN, paid : {"no", "authorized", "captured"},
                refunded : BOOLEAN]
HandlerType == [pc : Phases, order : Orders \cup {NoOrder},
                event : Events \cup {NoEvent}, loaded : Statuses]

TypeOK ==
    /\ orders \subseteq Orders
    /\ gateway \in [Orders -> GatewayType]
    /\ payment \in [Orders -> Statuses]
    /\ credited \in [Portal -> Nat] /\ depositStatus \in BOOLEAN
    /\ creating \in [TopUps -> {"no", "ordered", "stamped", "landed", "offered",
                                "refused"}]
    /\ createdAt \in [TopUps -> Nat]
    /\ booking \in [PublicPayments -> Taken \cup {"QUOTED", "PAYMENT_PENDING"}]
    /\ shipment \in [PublicPayments -> {"NONE", "LOCKED", "RECORDED", "COMPLETE"}]
    /\ receipt \in [Events -> {"NONE", "RECEIVED", "PROCESSED", "FAILED"}]
    /\ handler \in [Handlers -> HandlerType]
    /\ crashes \in Nat
    /\ overtaken \subseteq Orders /\ crossed \in BOOLEAN
    /\ lapsed \subseteq TopUps /\ repeated \subseteq TopUps

\* A request deals with the order its event names; what it reports, and for
\* which kind of order, follows from where it is.
WellFormed(r) ==
    /\ r.pc = "idle" <=> r.order = NoOrder
    /\ r.pc = "idle" => r.event = NoEvent
    /\ r.event # NoEvent => r.event \in Events /\ r.event.order = r.order
    /\ r.pc \in Reporting => r.event # NoEvent
    /\ r.pc \in Looking => r.event = NoEvent
    /\ r.pc \in {"fail", "requote"} => r.event.type = "failed"
    /\ r.pc \in {"credit", "reconcile"} => r.order \in Portal
    /\ r.pc \in Public => r.order \in PublicPayments
    /\ r.pc \in {"credit", "load", "capture", "fulfil", "refund"} \cup Fulfilling
          => r.event.type # "failed"

\* A request that applies or fulfils a payment was told, or has seen, that
\* Razorpay captured it.
Backed(r) ==
    /\ r.order \in Orders => Offered(r.order)
    /\ r.pc \in Paid => Captured(r.order)
    /\ r.event # NoEvent => Reportable(r.event)

HandlersOk == \A h \in Handlers : WellFormed(handler[h]) /\ Backed(handler[h])

\* How far a top-up is and what its document says: it has one once the row
\* has landed, and only an order somebody was given is paid or fails.
TopUpOk(o) ==
    /\ Status(o) = "NONE" <=> creating[o] \in {"no", "ordered", "stamped"}
    /\ Status(o) = "CANCELLED" => creating[o] = "refused"
    /\ Status(o) \notin {"NONE", "CREATED", "CANCELLED"} => Offered(o)
    /\ o \in repeated => Status(o) # "NONE"
    /\ Status(o) = "FAILED" => o \in lapsed
TopUpsOk == \A o \in TopUps : TopUpOk(o)

\* Nothing happens at Razorpay to an order nobody was given, and the portal
\* believes a public payment only when it was captured.
GatewayOk ==
    /\ \A o \in Orders : ~Offered(o) => gateway[o].paid = "no" /\ ~gateway[o].failed
    /\ \A o \in PublicPayments : Status(o) \in Taken \cup {"CAPTURED"} => Captured(o)

\* Prepaid money is CAPTURED, credit payments are VERIFIED, and both mean
\* that the money was applied, once.
Unapplied == {"NONE", "CREATED", "CANCELLED", "PROCESSING", "FAILED"}
OrderApplied(o) ==
    /\ o \in Prepaid => Status(o) \in Unapplied \cup {"CAPTURED"}
    /\ o \in CreditPayments => Status(o) \in Unapplied \cup {"VERIFIED"}
    /\ credited[o] = (IF Status(o) \in {"CAPTURED", "VERIFIED"} THEN 1 ELSE 0)
    /\ credited[o] > 0 => Captured(o)
CreditedDeposits == {o \in Deposits : credited[o] > 0}
DepositsApplied ==
    IF depositStatus THEN \E o \in Deposits : CreditedDeposits = {o}
                     ELSE CreditedDeposits = {}
AppliedOk == (\A o \in Portal : OrderApplied(o)) /\ DepositsApplied

\* Settled: nothing else depends on another delivery of the event.
EventSettled(e) ==
    \/ e.order \in Portal /\ credited[e.order] = 1
    \/ e.order \in PublicPayments
         /\ (Status(e.order) \in Taken \/ e.order \in overtaken)
SettledOk ==
    /\ \A e \in Events : receipt[e] = "PROCESSED" /\ e.type # "failed" => EventSettled(e)
    /\ \A h \in Handlers :
          At(h, "settled") /\ handler[h].event.type # "failed"
             => EventSettled(handler[h].event)

\* The shipment of a public payment is made by one request at a time ...
ShipmentOk(o) ==
    /\ shipment[o] # "NONE" => Captured(o)
    /\ Status(o) = "BOOKED" => shipment[o] = "COMPLETE"
    /\ \A h \in Handlers : Of(h) = o =>
          /\ At(h, "locked") => shipment[o] = "LOCKED"
          /\ At(h, "recorded") => shipment[o] = "RECORDED"
          /\ At(h, "booked") => shipment[o] = "COMPLETE"
    /\ \A g, h \in Handlers :
          /\ Of(g) = o /\ Of(h) = o
          /\ handler[g].pc \in {"locked", "recorded"}
          /\ handler[h].pc \in {"locked", "recorded"}
          => g = h

\* ... and, unless a stale document was saved over it, only one request
\* fulfils or refunds it.  Of the two writes that end a booking the payment's
\* may have been made before the other failed.
FulfilmentOk(o) ==
    /\ \A g, h \in Handlers :
          /\ Of(g) = o /\ Of(h) = o
          /\ handler[g].pc \in Fulfilling \cup {"refund"}
          /\ handler[h].pc \in Fulfilling \cup {"refund"}
          => g = h
    /\ \A h \in Handlers : Of(h) = o =>
          /\ handler[h].pc \in Fulfilling =>
                Status(o) = "FULFILLING" \/ (At(h, "broken") /\ Status(o) = "BOOKED")
          /\ At(h, "refund") => Status(o) = "REFUND_PENDING" /\ ~Durable(o)
    /\ Durable(o) => Status(o) \in {"FULFILLING", "BOOKED", "REVIEW_REQUIRED"}
    /\ gateway[o].refunded => Status(o) \in {"REFUND_PENDING", "REFUNDED"}

ShippingOk ==
    \A o \in PublicPayments : ShipmentOk(o) /\ (o \notin overtaken => FulfilmentOk(o))

\* Creation times are handed out in order, ...
Stamped == {t \in TopUps : createdAt[t] # 0}
StampsOk ==
    /\ \A t \in TopUps : /\ createdAt[t] = 0 <=> creating[t] \in {"no", "ordered"}
                         /\ createdAt[t] <= Cardinality(Stamped)
    /\ \A s, t \in Stamped : createdAt[s] = createdAt[t] => s = t

\* ... a top-up that is about to be confirmed or is live takes part in the
\* limit of those created later, ...
Counts(t) == creating[t] \in {"landed", "offered"} /\ t \notin lapsed
Beside(t) == {r \in TopUps : Counts(r) /\ createdAt[r] <= createdAt[t]}
\* ... one of the confirmed top-ups is the latest, and until two rows land in
\* the wrong order each confirmed top-up fits beside those before it.
DailyOk ==
    /\ \/ \A t \in TopUps : ~Confirmed(t)
       \/ \E t \in TopUps : /\ Confirmed(t)
                            /\ \A r \in TopUps : Confirmed(r) => createdAt[r] <= createdAt[t]
    /\ ~crossed => \A t \in TopUps : Confirmed(t) => Total(Beside(t), Amount) <= DailyLimit

BasicInv == TypeOK /\ HandlersOk /\ TopUpsOk /\ GatewayOk
-----------------------------------------------------------------------------
(* The steps, by what they may change.                                     *)

\* The portal makes or offers an order: no request moves, nothing is paid.
OrderStep(o) ==
    \/ RequestTopUp(o) \/ StampTopUp(o) \/ InsertTopUp(o) \/ ConfirmTopUp(o)
    \/ RepeatTopUp(o) \/ GoStale(o) \/ OpenOrder(o) \/ ReopenCheckout(o)
RazorpayStep(o) == AttemptFails(o) \/ Authorise(o) \/ AutoCapture(o)

\* A request begins, ...
Begins(h) ==
    \/ \E e \in Events : Deliver(h, e)
    \/ \E o \in orders : \/ VerifyCheckout(h, o) \/ LookAtHistory(h, o)
                         \/ ConfirmPublic(h, o)
\* ... reports, looks a payment up or loads it, applies it, ...
Reports(h) ==
    ReopenReceipt(h) \/ RecordOutcome(h) \/ MarkFailed(h) \/ RequoteBooking(h)
Looks(h) ==
    \/ Reconcile(h) \/ ClaimVerification(h) \/ LookUp(h) \/ LoadPublic(h)
    \/ SaveCaptured(h) \/ SaveOrderCreated(h)
Applies(h) == CreditCapturedTopUp(h) \/ ApplyVerifiedCreditPayment(h)
\* ... or fulfils it.
Fulfils(h) ==
    \/ ClaimFulfilment(h) \/ CreateShipment(h) \/ FinishBooking(h)
    \/ FulfilmentFails(h) \/ RefundPayment(h)

HandlerStep(h) ==
    Begins(h) \/ Reports(h) \/ Looks(h) \/ Applies(h) \/ Fulfils(h) \/ Crash(h)

LEMMA NextSteps ==
    ASSUME [Next]_vars, TypeOK
    PROVE  \/ \E o \in Orders : OrderStep(o) \/ RazorpayStep(o)
           \/ \E h \in Handlers : HandlerStep(h)
           \/ UNCHANGED vars
BY DEF Next, TypeOK, OrderStep, RazorpayStep, HandlerStep, Begins, Reports,
   Looks, Applies, Fulfils

LEMMA OrderStepTypes ==
    ASSUME TypeOK, NEW o \in Orders, OrderStep(o)
    PROVE  TypeOK'
<1> USE DEF TypeOK, SetStatus, portalVars, publicVars
<1>1. CASE RequestTopUp(o)
  BY <1>1 DEF RequestTopUp
<1>2. CASE StampTopUp(o)
  <2>1. Cardinality(Stamped) \in Nat
    BY PaymentsAssumption, FS_Subset, FS_CardinalityType DEF Stamped, Orders, Prepaid, Portal
  <2> QED BY <1>2, <2>1 DEF StampTopUp, Stamped
<1>3. CASE InsertTopUp(o)
  BY <1>3 DEF InsertTopUp, Statuses
<1>4. CASE ConfirmTopUp(o)
  BY <1>4 DEF ConfirmTopUp, Statuses
<1>5. CASE RepeatTopUp(o) \/ GoStale(o)
  <2>1. CASE RepeatTopUp(o)
    BY <2>1 DEF RepeatTopUp, Rows
  <2>2. CASE GoStale(o)
    BY <2>2 DEF GoStale, creationVars
  <2> QED BY <1>5, <2>1, <2>2
<1>6. CASE OpenOrder(o)
  <2>1. payment' \in [Orders -> Statuses]
    BY <1>6 DEF OpenOrder, Statuses
  <2>2. booking' \in [PublicPayments -> Taken \cup {"QUOTED", "PAYMENT_PENDING"}]
    BY <1>6 DEF OpenOrder
  <2> QED BY <1>6, <2>1, <2>2 DEF OpenOrder, creationVars
<1>7. CASE ReopenCheckout(o)
  BY <1>7 DEF ReopenCheckout, creationVars
<1> QED BY <1>1, <1>2, <1>3, <1>4, <1>5, <1>6, <1>7 DEF OrderStep

LEMMA RazorpayStepTypes ==
    ASSUME TypeOK, NEW o \in Orders, RazorpayStep(o)
    PROVE  TypeOK'
<1>1. gateway' \in [Orders -> GatewayType]
  <2>1. CASE AttemptFails(o)
    BY <2>1 DEF TypeOK, AttemptFails, GatewayType
  <2>2. CASE Authorise(o)
    BY <2>2 DEF TypeOK, Authorise, GatewayType
  <2>3. CASE AutoCapture(o)
    BY <2>3 DEF TypeOK, AutoCapture, GatewayType
  <2> QED BY <2>1, <2>2, <2>3 DEF RazorpayStep
<1>2. PortalKept
  BY DEF RazorpayStep, AttemptFails, Authorise, AutoCapture
<1> QED BY <1>1, <1>2 DEF TypeOK, PortalKept, portalVars, publicVars, creationVars

\* Where a request can go from where it is.
LEMMA GotoTypes ==
    ASSUME TypeOK, NEW h \in Handlers, NEW pc \in Phases, Goto(h, pc)
    PROVE  /\ handler' \in [Handlers -> HandlerType]
           /\ handler'[h].pc = pc /\ handler'[h].order = Of(h)
           /\ handler'[h].event = handler[h].event
           /\ handler'[h].loaded = handler[h].loaded
           /\ \A g \in Handlers \ {h} : handler'[g] = handler[g]
BY DEF Goto, TypeOK, HandlerType, Of

LEMMA LeaveTypes ==
    ASSUME TypeOK, NEW h \in Handlers, NEW pc \in Phases, Leave(h, pc)
    PROVE  /\ handler' \in [Handlers -> HandlerType]
           /\ \/ handler[h].event = NoEvent /\ handler'[h] = Idle
              \/ /\ handler[h].event # NoEvent /\ handler'[h].pc = pc
                 /\ handler'[h].order = Of(h)
                 /\ handler'[h].event = handler[h].event
           /\ \A g \in Handlers \ {h} : handler'[g] = handler[g]
<1>1. CASE handler[h].event = NoEvent
  BY <1>1 DEF Leave, TypeOK, HandlerType, Idle, Phases, Statuses
<1>2. CASE handler[h].event # NoEvent
  BY <1>2, GotoTypes DEF Leave
<1> QED BY <1>1, <1>2

LEMMA StartTypes ==
    ASSUME TypeOK, NEW h \in Handlers, NEW pc \in Phases, NEW o \in Orders,
           NEW e \in Events \cup {NoEvent}, NEW loaded \in Statuses,
           handler' = [handler EXCEPT ![h] = [pc |-> pc, order |-> o,
                                              event |-> e, loaded |-> loaded]]
    PROVE  /\ handler' \in [Handlers -> HandlerType]
           /\ handler'[h].pc = pc /\ handler'[h].order = o
           /\ handler'[h].event = e /\ handler'[h].loaded = loaded
           /\ \A g \in Handlers \ {h} : handler'[g] = handler[g]
BY DEF TypeOK, HandlerType

LEMMA IdleTypes ==
    ASSUME TypeOK, NEW h \in Handlers, handler' = [handler EXCEPT ![h] = Idle]
    PROVE  /\ handler' \in [Handlers -> HandlerType]
           /\ handler'[h] = Idle
           /\ \A g \in Handlers \ {h} : handler'[g] = handler[g]
BY DEF TypeOK, HandlerType, Idle, Phases, Statuses

LEMMA NoEventIsNone == NoEvent \notin Events
BY PaymentsAssumption DEF NoEvent, NoOrder, Events

LEMMA BusyHasOrder ==
    ASSUME TypeOK, HandlersOk, NEW h \in Handlers, ~At(h, "idle")
    PROVE  Of(h) \in Orders
BY DEF TypeOK, HandlersOk, WellFormed, HandlerType, At, Of

\* A request that begins is new in its place and changes little else.
LEMMA BeginsTypes ==
    ASSUME TypeOK, NEW h \in Handlers, Begins(h)
    PROVE  TypeOK'
<1> USE DEF TypeOK
<1>1. ASSUME NEW e \in Events, Deliver(h, e) PROVE TypeOK'
  <2>1. e.order \in Orders /\ FirstStep(e) \in Phases /\ "reopen" \in Phases
    BY DEF Events, FirstStep, Phases, Public, Paid, Reporting
  <2>2. "NONE" \in Statuses
    BY DEF Statuses
  <2>3. receipt' \in [Events -> {"NONE", "RECEIVED", "PROCESSED", "FAILED"}]
    BY <1>1 DEF Deliver
  <2>4. PICK pc \in Phases : Begin(h, e, pc)
    BY <1>1, <2>1 DEF Deliver
  <2>5. handler' \in [Handlers -> HandlerType]
    BY <2>1, <2>2, <2>4, StartTypes DEF Begin
  <2> QED BY <1>1, <2>3, <2>5 DEF Deliver, portalVars, publicVars, creationVars
<1>2. ASSUME NEW o \in orders, VerifyCheckout(h, o) PROVE TypeOK'
  <2>1. payment' \in [Orders -> Statuses]
    BY <1>2 DEF VerifyCheckout, SetStatus, Status, Statuses
  <2>2. "NONE" \in Statuses /\ "reconcile" \in Phases
    BY DEF Statuses, Phases, Looking
  <2>3. handler' \in [Handlers -> HandlerType]
    BY <1>2, <2>2, StartTypes DEF VerifyCheckout, Start
  <2> QED BY <1>2, <2>1, <2>3 DEF VerifyCheckout, portalVars, publicVars, creationVars
<1>3. ASSUME NEW o \in orders, LookAtHistory(h, o) PROVE TypeOK'
  <2>1. "NONE" \in Statuses /\ "reconcile" \in Phases
    BY DEF Statuses, Phases, Looking
  <2>2. handler' \in [Handlers -> HandlerType]
    BY <1>3, <2>1, StartTypes DEF LookAtHistory, Start
  <2> QED BY <1>3, <2>2 DEF LookAtHistory, portalVars, publicVars, creationVars
<1>4. ASSUME NEW o \in orders, ConfirmPublic(h, o) PROVE TypeOK'
  <2>1. /\ "NONE" \in Statuses /\ Status(o) \in Statuses
        /\ "fulfil" \in Phases /\ "claim" \in Phases
    BY DEF Statuses, Status, Phases, Looking, Paid
  <2>2. handler' \in [Handlers -> HandlerType]
    BY <1>4, <2>1, StartTypes DEF ConfirmPublic, Start
  <2> QED BY <1>4, <2>2 DEF ConfirmPublic, portalVars, publicVars, creationVars
<1> QED BY <1>1, <1>2, <1>3, <1>4 DEF Begins

LEMMA ReportsTypes ==
    ASSUME TypeOK, HandlersOk, NEW h \in Handlers, Reports(h)
    PROVE  TypeOK'
<1> USE DEF TypeOK
<1>1. WellFormed(handler[h]) /\ {"settled", "refused", "requote"} \subseteq Phases
  BY DEF HandlersOk, Phases, Reporting
<1>2. handler[h].event \in Events
  BY <1>1 DEF Reports, ReopenReceipt, RecordOutcome, MarkFailed, RequoteBooking,
     At, WellFormed, Reporting
<1>3. Of(h) \in Orders
  <2>1. handler[h].event # NoEvent
    BY <1>2, NoEventIsNone
  <2> QED BY <1>1, <1>2, <2>1 DEF WellFormed, Of, Events
<1>4. CASE ReopenReceipt(h)
  <2>1. FirstStep(handler[h].event) \in Phases
    BY DEF FirstStep, Phases, Public, Paid, Reporting
  <2>2. handler' \in [Handlers -> HandlerType]
    BY <1>4, <2>1, GotoTypes DEF ReopenReceipt
  <2> QED BY <1>2, <1>4, <2>2 DEF ReopenReceipt, portalVars, publicVars, creationVars
<1>5. CASE RecordOutcome(h)
  <2>1. handler' \in [Handlers -> HandlerType]
    BY <1>5, IdleTypes DEF RecordOutcome
  <2> QED BY <1>2, <1>5, <2>1 DEF RecordOutcome, Outcome, portalVars, publicVars, creationVars
<1>6. CASE MarkFailed(h)
  <2>1. handler' \in [Handlers -> HandlerType]
    BY <1>1, <1>6, LeaveTypes, GotoTypes DEF MarkFailed, Done
  <2>2. payment' \in [Orders -> Statuses] /\ lapsed' \subseteq TopUps
    BY <1>6 DEF MarkFailed, SetStatus, Statuses
  <2> QED BY <1>6, <2>1, <2>2 DEF MarkFailed, portalVars, publicVars, creationVars
<1>7. CASE RequoteBooking(h)
  <2>1. handler' \in [Handlers -> HandlerType]
    BY <1>1, <1>7, LeaveTypes DEF RequoteBooking, Done
  <2> QED BY <1>7, <2>1 DEF RequoteBooking, portalVars, creationVars
<1> QED BY <1>4, <1>5, <1>6, <1>7 DEF Reports

LEMMA LooksTypes ==
    ASSUME TypeOK, HandlersOk, NEW h \in Handlers, Looks(h)
    PROVE  TypeOK'
<1>2. Of(h) \in Orders
  <2>1. ~At(h, "idle")
    BY DEF Looks, Reconcile, ClaimVerification, LookUp, LoadPublic,
       SaveCaptured, SaveOrderCreated, At
  <2> QED BY <2>1, BusyHasOrder
<1> USE DEF TypeOK
<1>1. /\ {"credit", "settled", "lookup", "giveUp", "capture", "fulfil"} \subseteq Phases
      /\ {"VERIFYING", "CAPTURED", "ORDER_CREATED"} \subseteq Statuses
  BY DEF Phases, Paid, Reporting, Looking, Statuses
<1>3. gateway' \in [Orders -> GatewayType]
  <2>1. CASE gateway' = [gateway EXCEPT ![Of(h)].paid = "captured"]
    BY <2>1 DEF GatewayType
  <2> QED BY <2>1 DEF Looks, Reconcile, ClaimVerification, LookUp, LoadPublic,
          SaveCaptured, SaveOrderCreated
<1>4. payment' \in [Orders -> Statuses] /\ overtaken' \subseteq Orders
  <2>1. \/ UNCHANGED <<payment, overtaken>>
        \/ /\ \E status \in Statuses : SetStatus(Of(h), status)
           /\ overtaken' \in {overtaken, overtaken \cup {Of(h)}}
    BY <1>1 DEF Looks, Reconcile, ClaimVerification, LookUp, LoadPublic,
       SaveCaptured, SaveOrderCreated, SaveLoaded, publicVars
  <2> QED BY <1>2, <2>1 DEF SetStatus
<1>5. handler' \in [Handlers -> HandlerType]
  <2>1. CASE LoadPublic(h) /\ Status(Of(h)) \notin Taken
    <3>1. Status(Of(h)) \in Statuses /\ handler[h].event \in Events \cup {NoEvent}
      BY <1>2 DEF Status, HandlerType
    <3> QED BY <1>1, <1>2, <2>1, <3>1, StartTypes DEF LoadPublic
  <2>2. CASE ~(LoadPublic(h) /\ Status(Of(h)) \notin Taken)
    <3>1. Done(h) \/ \E pc \in Phases : Goto(h, pc)
      BY <1>1, <2>2 DEF Looks, Reconcile, ClaimVerification, LookUp, LoadPublic,
         SaveCaptured, SaveOrderCreated
    <3> QED BY <1>1, <3>1, LeaveTypes, GotoTypes DEF Done
  <2> QED BY <2>1, <2>2
<1>6. UNCHANGED <<orders, portalVars, creationVars, booking, shipment, receipt,
                  crashes, lapsed>>
  BY DEF Looks, Reconcile, ClaimVerification, LookUp, LoadPublic, SaveCaptured,
     SaveOrderCreated, publicVars
<1> QED BY <1>3, <1>4, <1>5, <1>6 DEF portalVars, creationVars

LEMMA AppliesTypes ==
    ASSUME TypeOK, HandlersOk, NEW h \in Handlers, Applies(h)
    PROVE  TypeOK'
<1>2. Of(h) \in Portal /\ Of(h) \in Orders
  <2>1. handler[h].pc = "credit"
    BY DEF Applies, CreditCapturedTopUp, ApplyVerifiedCreditPayment, At
  <2>2. WellFormed(handler[h])
    BY DEF HandlersOk
  <2>3. Of(h) \in Portal
    BY <2>1, <2>2 DEF WellFormed, Of
  <2> QED BY <2>3 DEF Orders, Portal, Prepaid
<1> USE DEF TypeOK
<1>1. {"settled", "refused"} \subseteq Phases /\ {"CAPTURED", "VERIFIED"} \subseteq Statuses
  BY DEF Phases, Reporting, Statuses
<1>3. Done(h) \/ Throw(h)
  BY DEF Applies, CreditCapturedTopUp, ApplyVerifiedCreditPayment, Apply
<1>4. handler' \in [Handlers -> HandlerType]
  BY <1>1, <1>3, LeaveTypes DEF Done, Throw
<1>5. /\ payment' \in [Orders -> Statuses] /\ credited' \in [Portal -> Nat]
  BY <1>1, <1>2 DEF Applies, CreditCapturedTopUp, ApplyVerifiedCreditPayment,
     Apply, SetStatus
<1>6. depositStatus' \in BOOLEAN
  BY DEF Applies, CreditCapturedTopUp, ApplyVerifiedCreditPayment
<1>7. UNCHANGED <<orders, gateway, creationVars, publicVars, receipt, crashes, lapsed>>
  BY DEF Applies, CreditCapturedTopUp, ApplyVerifiedCreditPayment
<1> QED BY <1>4, <1>5, <1>6, <1>7 DEF publicVars, creationVars

LEMMA FulfilsTypes ==
    ASSUME TypeOK, HandlersOk, NEW h \in Handlers, Fulfils(h)
    PROVE  TypeOK'
<1> USE DEF TypeOK
<1>1. {"settled", "refused", "refund"} \cup Fulfilling \subseteq Phases
  BY DEF Phases, Paid, Reporting
<1>2. Of(h) \in PublicPayments /\ Of(h) \in Orders
  BY DEF HandlersOk, WellFormed, Fulfils, ClaimFulfilment, CreateShipment,
     FinishBooking, FulfilmentFails, RefundPayment, At, Of, Public, Fulfilling,
     Orders
<1>3. Done(h) \/ Throw(h) \/ \E pc \in Phases : Goto(h, pc)
  BY <1>1 DEF Fulfils, ClaimFulfilment, CreateShipment, FinishBooking,
     FulfilmentFails, RefundPayment, Ship, Fulfilling
<1>4. handler' \in [Handlers -> HandlerType]
  BY <1>1, <1>3, LeaveTypes, GotoTypes DEF Done, Throw
<1>5. gateway' \in [Orders -> GatewayType]
  <2>1. CASE gateway' = [gateway EXCEPT ![Of(h)].refunded = TRUE]
    BY <2>1 DEF GatewayType
  <2> QED BY <2>1 DEF Fulfils, ClaimFulfilment, CreateShipment, FinishBooking,
          FulfilmentFails, RefundPayment
<1>6. /\ payment' \in [Orders -> Statuses]
      /\ booking' \in [PublicPayments -> Taken \cup {"QUOTED", "PAYMENT_PENDING"}]
  <2>1. \/ UNCHANGED <<payment, booking>>
        \/ \E state \in Taken : BothAre(Of(h), state)
        \/ /\ SetStatus(Of(h), "BOOKED") \/ UNCHANGED payment
           /\ \/ booking' = [booking EXCEPT ![Of(h)] = "BOOKED"]
              \/ UNCHANGED booking
    BY DEF Fulfils, ClaimFulfilment, CreateShipment, FinishBooking,
       FulfilmentFails, RefundPayment, Taken
  <2>2. Taken \subseteq Statuses /\ "BOOKED" \in Taken
    BY DEF Statuses, Taken
  <2> QED BY <1>2, <2>1, <2>2 DEF BothAre, SetStatus
<1>7. shipment' \in [PublicPayments -> {"NONE", "LOCKED", "RECORDED", "COMPLETE"}]
  <2>1. \/ UNCHANGED shipment
        \/ \E state \in {"NONE", "LOCKED", "RECORDED", "COMPLETE"} :
              shipment' = [shipment EXCEPT ![Of(h)] = state]
    BY DEF Fulfils, ClaimFulfilment, CreateShipment, Ship, FinishBooking,
       FulfilmentFails, RefundPayment
  <2> QED BY <1>2, <2>1
<1>8. UNCHANGED <<orders, portalVars, creationVars, receipt, crashes, overtaken, lapsed>>
  BY DEF Fulfils, ClaimFulfilment, CreateShipment, FinishBooking,
     FulfilmentFails, RefundPayment
<1> QED BY <1>4, <1>5, <1>6, <1>7, <1>8 DEF portalVars, creationVars

LEMMA TypeNext == TypeOK /\ HandlersOk /\ [Next]_vars => TypeOK'
<1> SUFFICES ASSUME TypeOK, HandlersOk, [Next]_vars PROVE TypeOK'
  OBVIOUS
<1>1. ASSUME NEW h \in Handlers, Crash(h) PROVE TypeOK'
  <2>1. handler' \in [Handlers -> HandlerType]
    BY <1>1, IdleTypes DEF Crash
  <2> QED BY <1>1, <2>1 DEF Crash, TypeOK, portalVars, publicVars, creationVars
<1>2. CASE UNCHANGED vars
  BY <1>2 DEF vars, TypeOK
<1> QED BY <1>1, <1>2, NextSteps, OrderStepTypes, RazorpayStepTypes, BeginsTypes,
        ReportsTypes, LooksTypes, AppliesTypes, FulfilsTypes DEF HandlerStep
-----------------------------------------------------------------------------
(* What never goes back: an order that was offered, a payment that exists, *)
(* money that was captured, an attempt that failed.                        *)

LEMMA PaymentEffect ==
    ASSUME TypeOK, HandlersOk, [Next]_vars
    PROVE  \/ payment' = payment
           \/ \E o \in Orders, s \in Statuses \ {"NONE"} : SetStatus(o, s)
<1>1. Taken \subseteq Statuses \ {"NONE"}
  BY DEF Taken, Statuses
<1>2. {"CREATED", "CANCELLED", "PROCESSING", "CAPTURED", "VERIFIED", "FAILED",
       "ORDER_CREATED", "VERIFYING"} \subseteq Statuses \ {"NONE"}
  BY DEF Statuses
<1>3. ASSUME NEW o \in Orders, OrderStep(o) \/ RazorpayStep(o)
      PROVE  payment' = payment \/ \E s \in Statuses \ {"NONE"} : SetStatus(o, s)
  BY <1>2, <1>3 DEF OrderStep, RazorpayStep, RequestTopUp, StampTopUp,
     InsertTopUp, ConfirmTopUp, RepeatTopUp, GoStale, OpenOrder, ReopenCheckout,
     AttemptFails, Authorise, AutoCapture, PortalKept
<1>4. ASSUME NEW h \in Handlers, Begins(h)
      PROVE  \/ payment' = payment
             \/ \E o \in Orders, s \in Statuses \ {"NONE"} : SetStatus(o, s)
  <2>1. ASSUME NEW o \in orders, VerifyCheckout(h, o)
        PROVE  \E s \in Statuses \ {"NONE"} : SetStatus(o, s)
    BY <1>2, <2>1 DEF VerifyCheckout
  <2> QED BY <1>4, <2>1 DEF Begins, Deliver, LookAtHistory, ConfirmPublic, TypeOK
<1>5. ASSUME NEW h \in Handlers, Reports(h) \/ Looks(h) \/ Applies(h) \/ Fulfils(h)
      PROVE  \/ payment' = payment
             \/ \E o \in Orders, s \in Statuses \ {"NONE"} : SetStatus(o, s)
  <2>1. ~At(h, "idle")
    BY <1>5 DEF Reports, Looks, Applies, Fulfils, ReopenReceipt, RecordOutcome,
       MarkFailed, RequoteBooking, Reconcile, ClaimVerification, LookUp,
       LoadPublic, SaveCaptured, SaveOrderCreated, CreditCapturedTopUp,
       ApplyVerifiedCreditPayment, ClaimFulfilment, CreateShipment,
       FinishBooking, FulfilmentFails, RefundPayment, At
  <2>2. Of(h) \in Orders
    BY <2>1, BusyHasOrder
  <2>3. CASE Reports(h)
    BY <1>2, <2>2, <2>3 DEF Reports, ReopenReceipt, RecordOutcome, MarkFailed,
       RequoteBooking
  <2>4. CASE Looks(h)
    BY <1>2, <2>2, <2>4 DEF Looks, Reconcile, ClaimVerification, LookUp,
       LoadPublic, SaveCaptured, SaveOrderCreated, SaveLoaded
  <2>5. CASE Applies(h)
    BY <1>2, <2>2, <2>5 DEF Applies, CreditCapturedTopUp,
       ApplyVerifiedCreditPayment, Apply
  <2>6. CASE Fulfils(h)
    <3>1. payment' = payment \/ \E state \in Taken : SetStatus(Of(h), state)
      BY <2>6 DEF Fulfils, ClaimFulfilment, CreateShipment, FinishBooking,
         FulfilmentFails, RefundPayment, BothAre, Taken
    <3> QED BY <1>1, <2>2, <3>1
  <2> QED BY <1>5, <2>3, <2>4, <2>5, <2>6
<1>6. ASSUME NEW h \in Handlers, Crash(h) PROVE payment' = payment
  BY <1>6 DEF Crash
<1>7. CASE UNCHANGED vars
  BY <1>7 DEF vars
<1> QED BY <1>3, <1>4, <1>5, <1>6, <1>7, NextSteps DEF HandlerStep

LEMMA GatewayEffect ==
    ASSUME TypeOK, HandlersOk, [Next]_vars
    PROVE  \/ gateway' = gateway
           \/ \E o \in Orders :
                 \/ Offered(o) /\ gateway' = [gateway EXCEPT ![o].failed = TRUE]
                 \/ /\ Offered(o) /\ gateway[o].paid = "no"
                    /\ gateway' = [gateway EXCEPT ![o].paid = "authorized"]
                 \/ /\ gateway[o].paid = "authorized" \/ \E h \in Handlers : Of(h) = o
                    /\ gateway' = [gateway EXCEPT ![o].paid = "captured"]
                 \/ gateway' = [gateway EXCEPT ![o].refunded = TRUE]
<1>1. ASSUME NEW o \in Orders, OrderStep(o) PROVE gateway' = gateway
  BY <1>1 DEF OrderStep, RequestTopUp, StampTopUp, InsertTopUp, ConfirmTopUp,
     RepeatTopUp, GoStale, OpenOrder, ReopenCheckout
<1>2. ASSUME NEW o \in Orders, RazorpayStep(o)
      PROVE  \/ Offered(o) /\ gateway' = [gateway EXCEPT ![o].failed = TRUE]
             \/ /\ Offered(o) /\ gateway[o].paid = "no"
                /\ gateway' = [gateway EXCEPT ![o].paid = "authorized"]
             \/ /\ gateway[o].paid = "authorized"
                /\ gateway' = [gateway EXCEPT ![o].paid = "captured"]
  BY <1>2 DEF RazorpayStep, AttemptFails, Authorise, AutoCapture
<1>3. ASSUME NEW h \in Handlers, HandlerStep(h)
      PROVE  \/ gateway' = gateway
             \/ Of(h) \in Orders /\ gateway' = [gateway EXCEPT ![Of(h)].paid = "captured"]
             \/ Of(h) \in Orders /\ gateway' = [gateway EXCEPT ![Of(h)].refunded = TRUE]
  <2>1. CASE Begins(h) \/ Reports(h) \/ Applies(h) \/ Crash(h)
    BY <2>1 DEF Begins, Deliver, VerifyCheckout, LookAtHistory, ConfirmPublic,
       Reports, ReopenReceipt, RecordOutcome, MarkFailed, RequoteBooking,
       Applies, CreditCapturedTopUp, ApplyVerifiedCreditPayment, Crash
  <2>2. CASE Looks(h)
    <3>1. ~At(h, "idle")
      BY <2>2 DEF Looks, Reconcile, ClaimVerification, LookUp, LoadPublic,
         SaveCaptured, SaveOrderCreated, At
    <3> QED BY <2>2, <3>1, BusyHasOrder DEF Looks, Reconcile, ClaimVerification,
            LookUp, LoadPublic, SaveCaptured, SaveOrderCreated
  <2>3. CASE Fulfils(h)
    <3>1. ~At(h, "idle")
      BY <2>3 DEF Fulfils, ClaimFulfilment, CreateShipment, FinishBooking,
         FulfilmentFails, RefundPayment, At
    <3> QED BY <2>3, <3>1, BusyHasOrder DEF Fulfils, ClaimFulfilment,
            CreateShipment, FinishBooking, FulfilmentFails, RefundPayment
  <2> QED BY <1>3, <2>1, <2>2, <2>3 DEF HandlerStep
<1>4. CASE UNCHANGED vars
  BY <1>4 DEF vars
<1> QED BY <1>1, <1>2, <1>3, <1>4, NextSteps

LEMMA CreatingEffect ==
    ASSUME TypeOK, HandlersOk, [Next]_vars
    PROVE  \/ UNCHANGED <<creating, createdAt, repeated>>
           \/ \E o \in TopUps : OrderStep(o)
<1>1. ASSUME NEW o \in Orders, OrderStep(o), o \notin TopUps
      PROVE  UNCHANGED <<creating, createdAt, repeated>>
  BY <1>1 DEF OrderStep, RequestTopUp, StampTopUp, InsertTopUp, ConfirmTopUp,
     RepeatTopUp, Rows, GoStale, OpenOrder, ReopenCheckout, creationVars
<1>2. ASSUME NEW o \in Orders, RazorpayStep(o)
      PROVE  UNCHANGED <<creating, createdAt, repeated>>
  BY <1>2 DEF RazorpayStep, AttemptFails, Authorise, AutoCapture, PortalKept,
     creationVars
<1>3. ASSUME NEW h \in Handlers, HandlerStep(h)
      PROVE  UNCHANGED <<creating, createdAt, repeated>>
  BY <1>3 DEF HandlerStep, Begins, Deliver, VerifyCheckout, LookAtHistory,
     ConfirmPublic, Reports, ReopenReceipt, RecordOutcome, MarkFailed,
     RequoteBooking, Looks, Reconcile, ClaimVerification, LookUp, LoadPublic,
     SaveCaptured, SaveOrderCreated, Applies, CreditCapturedTopUp,
     ApplyVerifiedCreditPayment, Fulfils, ClaimFulfilment, CreateShipment,
     FinishBooking, FulfilmentFails, RefundPayment, Crash, creationVars
<1>4. CASE UNCHANGED vars
  BY <1>4 DEF vars
<1> QED BY <1>1, <1>2, <1>3, <1>4, NextSteps

\* Every later state of an order contains what can never go back.
LEMMA Lasting ==
    ASSUME TypeOK, HandlersOk, [Next]_vars, NEW o \in Orders
    PROVE  /\ Status(o) # "NONE" => Status(o)' # "NONE"
           /\ Offered(o) => Offered(o)'
           /\ Captured(o) => Captured(o)'
           /\ gateway[o].failed => gateway'[o].failed
<1>1. Status(o) # "NONE" => Status(o)' # "NONE"
  BY PaymentEffect DEF TypeOK, SetStatus, Status
<1>2. Offered(o) => Offered(o)'
  <2>1. CASE o \notin TopUps
    BY <1>1, <2>1 DEF Offered
  <2>2. CASE o \in TopUps
    <3>1. CASE UNCHANGED <<creating, repeated>>
      BY <2>2, <3>1 DEF Offered, Confirmed
    <3>2. ASSUME NEW t \in TopUps, OrderStep(t) PROVE Offered(o) => Offered(o)'
      BY <2>2, <3>2 DEF TypeOK, Offered, Confirmed, OrderStep, RequestTopUp, StampTopUp,
         InsertTopUp, ConfirmTopUp, RepeatTopUp, GoStale, OpenOrder, ReopenCheckout, creationVars
    <3> QED BY <3>1, <3>2, CreatingEffect
  <2> QED BY <2>1, <2>2
<1>3. CASE gateway' = gateway
  BY <1>1, <1>2, <1>3 DEF Captured
<1>4. ASSUME NEW p \in Orders,
             \/ gateway' = [gateway EXCEPT ![p].failed = TRUE]
             \/ /\ gateway[p].paid = "no"
                /\ gateway' = [gateway EXCEPT ![p].paid = "authorized"]
             \/ gateway' = [gateway EXCEPT ![p].paid = "captured"]
             \/ gateway' = [gateway EXCEPT ![p].refunded = TRUE]
      PROVE  /\ Captured(o) => Captured(o)'
             /\ gateway[o].failed => gateway'[o].failed
  <2>1. gateway \in [Orders -> GatewayType]
    BY DEF TypeOK
  <2> QED BY <1>4, <2>1 DEF GatewayType, Captured
<1> QED BY <1>1, <1>2, <1>3, <1>4, GatewayEffect
-----------------------------------------------------------------------------
(* Where a request may be, and what it may rely on there.                  *)

LEMMA OthersStay ==
    ASSUME BasicInv, [Next]_vars, NEW g \in Handlers, handler'[g] = handler[g]
    PROVE  WellFormed(handler'[g]) /\ Backed(handler[g])'
<1>1. WellFormed(handler[g]) /\ Backed(handler[g]) /\ TypeOK /\ HandlersOk
  BY DEF BasicInv, HandlersOk
<1>2. WellFormed(handler'[g])
  BY <1>1
<1> DEFINE o == handler[g].order
<1>3. CASE o \in Orders
  <2>1. /\ Offered(o) => Offered(o)'
        /\ Captured(o) => Captured(o)'
        /\ gateway[o].failed => gateway'[o].failed
    BY <1>1, <1>3, Lasting DEF Offered, Captured, Status
  <2>2. handler[g].event # NoEvent => handler[g].event.order = o
    BY <1>1 DEF WellFormed
  <2> QED BY <1>1, <1>2, <1>3, <2>1, <2>2 DEF Backed, Offered, Captured, Reportable, Status
<1>4. CASE o \notin Orders
  <2>1. At(g, "idle")
    BY <1>1, <1>4, BusyHasOrder DEF Of
  <2>2. handler[g].event = NoEvent /\ handler[g].pc \notin Paid
    BY <1>1, <2>1 DEF At, WellFormed, Paid, Fulfilling
  <2> QED BY <1>2, <1>4, <2>2 DEF Backed
<1> QED BY <1>3, <1>4

\* A request that goes on keeps its order and its event; what it must know in
\* its new place is to be shown.
LEMMA GotoOk ==
    ASSUME BasicInv, [Next]_vars, NEW h \in Handlers, ~At(h, "idle"),
           NEW pc \in Phases \ {"idle"},
           handler'[h].pc = pc, handler'[h].order = Of(h),
           handler'[h].event = handler[h].event,
           pc \in Reporting => handler[h].event # NoEvent,
           pc \in Looking => handler[h].event = NoEvent,
           pc \in {"fail", "requote"} => handler[h].event.type = "failed",
           pc \in {"credit", "reconcile"} => Of(h) \in Portal,
           pc \in Public => Of(h) \in PublicPayments,
           pc \in {"credit", "load", "capture", "fulfil", "refund"} \cup Fulfilling
              => handler[h].event.type # "failed",
           pc \in Paid => Captured(Of(h))'
    PROVE  WellFormed(handler'[h]) /\ Backed(handler[h])'
<1>1. WellFormed(handler[h]) /\ Backed(handler[h]) /\ TypeOK /\ HandlersOk
  BY DEF BasicInv, HandlersOk
<1>2. Of(h) \in Orders /\ Of(h) # NoOrder
  BY <1>1, BusyHasOrder, PaymentsAssumption
<1>3. WellFormed(handler'[h])
  BY <1>1, <1>2 DEF WellFormed, Of
<1>4. \A q \in Orders : /\ Offered(q) => Offered(q)'
                        /\ gateway[q].failed => gateway'[q].failed
                        /\ Captured(q) => Captured(q)'
  BY <1>1, Lasting
<1> DEFINE o == handler'[h].order
           e == handler'[h].event
<1>5. o \in Orders /\ o = Of(h) /\ e = handler[h].event
  BY <1>2
<1>6. IF o \in TopUps THEN creating'[o] = "offered" \/ o \in repeated'
                       ELSE payment'[o] # "NONE"
  BY <1>1, <1>4, <1>5 DEF Backed, Offered, Confirmed, Of, Status
<1>7. pc \in Paid => gateway'[o].paid = "captured"
  BY <1>5 DEF Captured, Of
<1>8. e # NoEvent =>
         IF e.type = "failed" THEN gateway'[e.order].failed
                              ELSE gateway'[e.order].paid = "captured"
  <2>1. e # NoEvent => e.order = o /\ Reportable(e)
    BY <1>1, <1>5 DEF WellFormed, Backed, Of
  <2> QED BY <1>4, <1>5, <2>1 DEF Reportable, Captured
<1>9. Backed(handler[h])'
  BY <1>5, <1>6, <1>7, <1>8 DEF Backed, Offered, Confirmed, Captured, Reportable, Status
<1> QED BY <1>3, <1>9

LEMMA LeaveOk ==
    ASSUME BasicInv, [Next]_vars, NEW h \in Handlers, ~At(h, "idle"),
           NEW pc \in {"settled", "refused"}, Leave(h, pc)
    PROVE  WellFormed(handler'[h]) /\ Backed(handler[h])'
<1>1. TypeOK /\ pc \in Phases \ {"idle"} /\ pc \in Reporting
  BY DEF BasicInv, Phases, Reporting
<1>2. CASE handler'[h] = Idle
  BY <1>2, PaymentsAssumption DEF WellFormed, Backed, Idle, Reporting, Looking,
     Public, Paid, Fulfilling, NoEvent
<1>3. CASE handler'[h] # Idle
  <2>1. /\ handler[h].event # NoEvent /\ handler'[h].pc = pc
        /\ handler'[h].order = Of(h) /\ handler'[h].event = handler[h].event
    BY <1>1, <1>3, LeaveTypes
  <2>2. pc \notin Looking \cup Public \cup Paid \cup {"fail", "requote", "credit", "reconcile", "load"}
    BY DEF Looking, Public, Paid, Fulfilling
  <2> QED BY <1>1, <2>1, <2>2, GotoOk DEF Paid, Fulfilling
<1> QED BY <1>2, <1>3

\* A request that begins: what it was told or has seen of its order.
LEMMA BeginOk ==
    ASSUME BasicInv, [Next]_vars, NEW h \in Handlers, Begins(h)
    PROVE  WellFormed(handler'[h]) /\ Backed(handler[h])'
<1>1. TypeOK /\ GatewayOk /\ TopUpsOk /\ "NONE" \in Statuses
  BY DEF BasicInv, Statuses
<1>2. \A o \in Orders : /\ Offered(o) => Offered(o)'
                        /\ gateway[o].failed => gateway'[o].failed
                        /\ Captured(o) => Captured(o)'
  BY <1>1, Lasting DEF BasicInv
<1>3. \A o \in Orders : gateway[o].failed \/ gateway[o].paid # "no" => Offered(o)
  BY <1>1 DEF GatewayOk
<1>4. NoOrder \notin Orders
  BY PaymentsAssumption
<1>5. ASSUME NEW e \in Events, Deliver(h, e)
      PROVE  WellFormed(handler'[h]) /\ Backed(handler[h])'
  <2>1. e.order \in Orders /\ Offered(e.order) /\ Reportable(e)
    BY <1>3, <1>5 DEF Deliver, Reportable, Captured, Events
  <2>2. PICK pc \in {FirstStep(e), "reopen"} : Begin(h, e, pc)
    BY <1>5 DEF Deliver
  <2>3. /\ e.type = "failed" => FirstStep(e) = "fail"
        /\ e.type # "failed" /\ e.order \in Portal => FirstStep(e) = "credit"
        /\ e.type # "failed" /\ e.order \notin Portal => FirstStep(e) = "load"
    BY DEF FirstStep
  <2>4. pc \in Phases
    BY <2>3 DEF Phases, Reporting, Public, Paid
  <2>5. handler'[h].pc = pc /\ handler'[h].order = e.order /\ handler'[h].event = e
    BY <1>1, <2>1, <2>2, <2>4, StartTypes DEF Begin
  <2>6. e # NoEvent
    BY NoEventIsNone
  <2>7. e.order \notin Portal => e.order \in PublicPayments
    BY <2>1 DEF Orders, Portal, Prepaid
  <2>8. WellFormed(handler'[h])
    BY <1>4, <2>1, <2>2, <2>3, <2>5, <2>6, <2>7 DEF WellFormed, Looking, Public,
       Fulfilling
  <2>9. pc \in Paid => Captured(e.order)
    BY <2>1, <2>2, <2>3 DEF Reportable, Paid, Fulfilling
  <2>10. Backed(handler[h])'
    BY <1>2, <2>1, <2>5, <2>9 DEF Backed, Offered, Captured, Reportable, Status
  <2> QED BY <2>8, <2>10
<1>6. ASSUME NEW o \in orders, VerifyCheckout(h, o) \/ LookAtHistory(h, o) \/ ConfirmPublic(h, o)
      PROVE  WellFormed(handler'[h]) /\ Backed(handler[h])'
  <2>1. o \in Orders
    BY <1>1 DEF TypeOK
  <2>2. PICK pc \in {"reconcile", "claim", "fulfil"}, loaded \in Statuses :
           Start(h, o, pc, loaded)
    BY <1>1, <1>6, <2>1 DEF VerifyCheckout, LookAtHistory, ConfirmPublic, TypeOK, Status
  <2>3. pc \in Phases
    BY DEF Phases, Looking, Paid
  <2>4. handler'[h].pc = pc /\ handler'[h].order = o /\ handler'[h].event = NoEvent
    BY <1>1, <2>1, <2>2, <2>3, StartTypes DEF Start
  <2>5. Offered(o)
    <3>1. CASE gateway[o].paid # "no"
      BY <1>3, <2>1, <3>1
    <3>2. CASE Status(o) = "PROCESSING"
      BY <1>1, <2>1, <3>2 DEF TopUpsOk, TopUpOk, Offered, TypeOK, Status
    <3> QED BY <1>6, <3>1, <3>2 DEF VerifyCheckout, LookAtHistory, ConfirmPublic
  <2>6. /\ pc = "reconcile" => o \in Portal
        /\ pc \in {"claim", "fulfil"} => o \in PublicPayments
        /\ pc = "fulfil" => Captured(o)
    <3>1. CASE VerifyCheckout(h, o) \/ LookAtHistory(h, o)
      <4>1. o \in Portal
        BY <3>1 DEF VerifyCheckout, LookAtHistory, Portal
      <4>2. handler'[h].pc = "reconcile"
        BY <1>1, <3>1 DEF VerifyCheckout, LookAtHistory, Start, TypeOK
      <4> QED BY <2>4, <4>1, <4>2
    <3>2. CASE ConfirmPublic(h, o)
      <4>1. o \in PublicPayments
        BY <3>2 DEF ConfirmPublic
      <4>2. /\ handler'[h].pc # "reconcile"
            /\ handler'[h].pc = "fulfil" => Status(o) \in {"CAPTURED", "FULFILLING"}
        BY <1>1, <3>2 DEF ConfirmPublic, Start, TypeOK
      <4> QED BY <1>1, <2>4, <4>1, <4>2 DEF GatewayOk, Taken
    <3> QED BY <1>6, <3>1, <3>2
  <2>7. WellFormed(handler'[h])
    BY <1>4, <2>1, <2>4, <2>6 DEF WellFormed, Looking, Public, Reporting,
       Fulfilling, NoEvent
  <2>8. Backed(handler[h])'
    BY <1>2, <2>1, <2>4, <2>5, <2>6 DEF Backed, Offered, Captured, Reportable,
       Status, Paid, Fulfilling
  <2> QED BY <2>7, <2>8
<1> QED BY <1>5, <1>6 DEF Begins

\* What the steps of a request that has begun have in common.
Proceeds(h) == Reports(h) \/ Looks(h) \/ Applies(h) \/ Fulfils(h)

LEMMA OneMoves ==
    ASSUME BasicInv, NEW h \in Handlers, HandlerStep(h)
    PROVE  \A g \in Handlers \ {h} : handler'[g] = handler[g]
<1>1. TypeOK
  BY DEF BasicInv
<1> USE DEF TypeOK
<1>2. CASE Begins(h)
  BY <1>1, <1>2 DEF Begins, Deliver, Begin, VerifyCheckout, LookAtHistory,
     ConfirmPublic, Start
<1>3. CASE Reports(h)
  BY <1>1, <1>3 DEF Reports, ReopenReceipt, RecordOutcome, MarkFailed,
     RequoteBooking, Done, Leave, Goto
<1>4. CASE Looks(h)
  BY <1>1, <1>4 DEF Looks, Reconcile, ClaimVerification, LookUp, LoadPublic,
     SaveCaptured, SaveOrderCreated, Done, Leave, Goto
<1>5. CASE Applies(h)
  BY <1>1, <1>5 DEF Applies, CreditCapturedTopUp, ApplyVerifiedCreditPayment,
     Apply, Done, Throw, Leave, Goto
<1>6. CASE Fulfils(h)
  BY <1>1, <1>6 DEF Fulfils, ClaimFulfilment, CreateShipment, Ship,
     FinishBooking, FulfilmentFails, RefundPayment, Done, Throw, Leave, Goto
<1>7. CASE Crash(h)
  BY <1>1, <1>7 DEF Crash
<1> QED BY <1>2, <1>3, <1>4, <1>5, <1>6, <1>7 DEF HandlerStep

LEMMA ProceedOk ==
    ASSUME BasicInv, [Next]_vars, NEW h \in Handlers, Proceeds(h)
    PROVE  WellFormed(handler'[h]) /\ Backed(handler[h])'
<1>1. TypeOK /\ WellFormed(handler[h]) /\ Backed(handler[h])
  BY DEF BasicInv, HandlersOk
<1>2. ~At(h, "idle")
  BY DEF Proceeds, Reports, Looks, Applies, Fulfils, ReopenReceipt,
     RecordOutcome, MarkFailed, RequoteBooking, Reconcile, ClaimVerification,
     LookUp, LoadPublic, SaveCaptured, SaveOrderCreated, CreditCapturedTopUp,
     ApplyVerifiedCreditPayment, ClaimFulfilment, CreateShipment,
     FinishBooking, FulfilmentFails, RefundPayment, At
<1>3. Of(h) \in Orders
  BY <1>2, BusyHasOrder DEF BasicInv
<1>4. CASE Done(h) \/ Throw(h)
  BY <1>2, <1>4, LeaveOk DEF Done, Throw
<1>5. CASE ReopenReceipt(h)
  <2> DEFINE e == handler[h].event
  <2>1. e # NoEvent /\ e \in Events /\ e.order = Of(h) /\ Reportable(e)
    BY <1>1, <1>5 DEF ReopenReceipt, At, WellFormed, Reporting, Backed, Of
  <2>2. /\ e.type = "failed" => FirstStep(e) = "fail"
        /\ e.type # "failed" /\ Of(h) \in Portal => FirstStep(e) = "credit"
        /\ e.type # "failed" /\ Of(h) \notin Portal => FirstStep(e) = "load"
    BY <2>1 DEF FirstStep
  <2>3. FirstStep(e) \in Phases \ {"idle"}
    BY <2>2 DEF Phases, Reporting, Public, Paid
  <2>4. /\ handler'[h].pc = FirstStep(e) /\ handler'[h].order = Of(h)
        /\ handler'[h].event = e
    BY <1>1, <1>5, <2>3, GotoTypes DEF ReopenReceipt
  <2>5. Of(h) \notin Portal => Of(h) \in PublicPayments
    BY <1>3 DEF Orders, Portal, Prepaid
  <2>6. e.type # "failed" => gateway'[Of(h)].paid = "captured"
    BY <1>5, <2>1 DEF ReopenReceipt, Reportable, Captured
  <2>7. FirstStep(e) \in {"fail", "credit", "load"}
    BY <2>2
  <2>8. FirstStep(e) \in Paid => Captured(Of(h))'
    BY <2>2, <2>4, <2>6, <2>7 DEF Captured, Of, Paid, Fulfilling
  <2> QED BY <1>2, <2>1, <2>2, <2>3, <2>4, <2>5, <2>7, <2>8, GotoOk
          DEF Looking, Public, Fulfilling
<1>6. CASE RecordOutcome(h)
  <2>1. handler'[h] = Idle
    BY <1>1, <1>6, IdleTypes DEF RecordOutcome
  <2> QED BY <2>1, PaymentsAssumption DEF WellFormed, Backed, Idle, Reporting,
          Looking, Public, Paid, Fulfilling, NoEvent
<1>7. CASE MarkFailed(h) /\ Goto(h, "requote") /\ Of(h) \in PublicPayments
  <2>1. "requote" \in Phases \ {"idle"} /\ "requote" \in Reporting
        /\ "requote" \notin Looking \cup Paid \cup {"credit", "reconcile", "load"}
    BY DEF Phases, Reporting, Looking, Paid, Fulfilling
  <2>2. handler[h].event # NoEvent /\ handler[h].event.type = "failed"
    BY <1>1, <1>7 DEF MarkFailed, At, WellFormed, Reporting
  <2>3. /\ handler'[h].pc = "requote" /\ handler'[h].order = Of(h)
        /\ handler'[h].event = handler[h].event
    BY <1>1, <1>7, <2>1, GotoTypes
  <2> QED BY <1>2, <1>7, <2>1, <2>2, <2>3, GotoOk DEF Paid
<1>8. CASE Reconcile(h) /\ ~Done(h)
  <2>1. /\ Goto(h, "credit") /\ gateway' = [gateway EXCEPT ![Of(h)].paid = "captured"]
        /\ handler[h].event = NoEvent /\ Of(h) \in Portal
    BY <1>1, <1>8 DEF Reconcile, At, WellFormed, Looking, Of
  <2>2. /\ "credit" \in Phases \ {"idle"}
        /\ "credit" \notin Looking \cup Reporting \cup Public
    BY DEF Phases, Reporting, Looking, Paid, Public, Fulfilling
  <2>3. /\ handler'[h].pc = "credit" /\ handler'[h].order = Of(h)
        /\ handler'[h].event = NoEvent
    BY <1>1, <2>1, <2>2, GotoTypes
  <2>4. Captured(Of(h))'
    BY <1>1, <1>3, <2>1, <2>3 DEF Captured, Of, TypeOK, GatewayType
  <2> QED BY <1>2, <2>1, <2>2, <2>3, <2>4, GotoOk DEF NoEvent
<1>9. ASSUME NEW pc \in {"lookup", "giveUp"}, Goto(h, pc),
             ClaimVerification(h) \/ LookUp(h)
      PROVE  WellFormed(handler'[h]) /\ Backed(handler[h])'
  <2>1. handler[h].event = NoEvent /\ Of(h) \in PublicPayments
    BY <1>1, <1>9 DEF ClaimVerification, LookUp, At, WellFormed, Looking, Public, Of
  <2>2. /\ pc \in Phases \ {"idle"}
        /\ pc \notin Reporting \cup Paid \cup {"requote", "credit", "reconcile", "load"}
    BY DEF Phases, Reporting, Looking, Paid, Fulfilling
  <2>3. /\ handler'[h].pc = pc /\ handler'[h].order = Of(h)
        /\ handler'[h].event = NoEvent
    BY <1>1, <1>9, <2>1, <2>2, GotoTypes
  <2> QED BY <1>2, <2>1, <2>2, <2>3, GotoOk DEF Paid, Reporting
<1>10. CASE LookUp(h) /\ Goto(h, "capture")
  <2>1. /\ gateway' = [gateway EXCEPT ![Of(h)].paid = "captured"]
        /\ handler[h].event = NoEvent /\ Of(h) \in PublicPayments
    <3>1. /\ handler[h].event = NoEvent /\ Of(h) \in PublicPayments
      BY <1>1, <1>10 DEF LookUp, At, WellFormed, Looking, Public, Of
    <3>2. ~Goto(h, "giveUp")
      BY <1>1, <1>10 DEF Goto, TypeOK, HandlerType
    <3> QED BY <1>10, <3>1, <3>2 DEF LookUp
  <2>2. /\ "capture" \in Phases \ {"idle"}
        /\ "capture" \notin Looking \cup Reporting
    BY DEF Phases, Reporting, Looking, Public
  <2>3. /\ handler'[h].pc = "capture" /\ handler'[h].order = Of(h)
        /\ handler'[h].event = NoEvent
    BY <1>1, <1>10, <2>1, <2>2, GotoTypes
  <2>4. Captured(Of(h))'
    BY <1>1, <1>3, <2>1, <2>3 DEF Captured, Of, TypeOK, GatewayType
  <2> QED BY <1>2, <2>1, <2>2, <2>3, <2>4, GotoOk DEF NoEvent
<1>11. CASE LoadPublic(h) /\ ~Done(h)
  <2>1. /\ handler' = [handler EXCEPT ![h] =
                  [pc |-> "capture", order |-> Of(h), event |-> handler[h].event,
                   loaded |-> Status(Of(h))]]
        /\ gateway' = gateway
    BY <1>11 DEF LoadPublic
  <2>2. /\ handler[h].event # NoEvent /\ Of(h) \in PublicPayments
        /\ handler[h].event.type # "failed"
    BY <1>1, <1>11 DEF LoadPublic, At, WellFormed, Reporting, Public, Of
  <2>3. Captured(Of(h))
    BY <1>1, <2>2 DEF Backed, WellFormed, Reportable, Of
  <2>4. /\ "capture" \in Phases \ {"idle"}
        /\ "capture" \notin Looking \cup Reporting
    BY DEF Phases, Reporting, Looking, Public
  <2>5. /\ handler'[h].pc = "capture" /\ handler'[h].order = Of(h)
        /\ handler'[h].event = handler[h].event
    BY <1>1, <2>1 DEF TypeOK
  <2>6. Captured(Of(h))'
    BY <2>1, <2>3, <2>5 DEF Captured, Of
  <2> QED BY <1>2, <2>2, <2>4, <2>5, <2>6, GotoOk
<1>12. CASE \/ SaveCaptured(h)
            \/ Fulfils(h) /\ ~Done(h) /\ ~Throw(h)
  <2>1. PICK pc \in Fulfilling \cup {"fulfil", "refund"} : Goto(h, pc)
    BY <1>12 DEF SaveCaptured, Fulfils, ClaimFulfilment, CreateShipment, Ship,
       FinishBooking, FulfilmentFails, RefundPayment, Fulfilling
  <2>2. handler[h].pc \in Fulfilling \cup {"capture", "fulfil", "refund"}
    BY <1>12 DEF SaveCaptured, Fulfils, ClaimFulfilment, CreateShipment,
       FinishBooking, FulfilmentFails, RefundPayment, At, Fulfilling
  <2>3. /\ handler[h].event.type # "failed" /\ Of(h) \in PublicPayments
        /\ Captured(Of(h))
    BY <1>1, <2>2 DEF WellFormed, Backed, Public, Paid, Of
  <2>4. pc \in Phases \ {"idle"} /\ pc \in Paid \cap Public
        /\ pc \notin Looking \cup Reporting \cup {"requote", "credit", "reconcile", "load", "fail"}
    BY DEF Phases, Reporting, Looking, Paid, Public, Fulfilling
  <2>5. /\ handler'[h].pc = pc /\ handler'[h].order = Of(h)
        /\ handler'[h].event = handler[h].event
    BY <1>1, <2>1, <2>4, GotoTypes
  <2>6. Captured(Of(h))'
    <3>1. \A o \in Orders : Captured(o) => Captured(o)'
      BY <1>1, Lasting DEF BasicInv
    <3> QED BY <1>3, <2>3, <2>5, <3>1 DEF Captured, Of
  <2> QED BY <1>2, <2>3, <2>4, <2>5, <2>6, GotoOk
<1>13. CASE Reports(h)
  BY <1>4, <1>5, <1>6, <1>7, <1>13 DEF Reports, MarkFailed, RequoteBooking
<1>14. CASE Looks(h)
  BY <1>4, <1>8, <1>9, <1>10, <1>11, <1>12, <1>14 DEF Looks, Reconcile,
     ClaimVerification, LookUp, LoadPublic, SaveOrderCreated
<1>15. CASE Applies(h)
  BY <1>4, <1>15 DEF Applies, CreditCapturedTopUp, ApplyVerifiedCreditPayment, Apply
<1>16. CASE Fulfils(h)
  BY <1>4, <1>12, <1>16
<1> QED BY <1>13, <1>14, <1>15, <1>16 DEF Proceeds

LEMMA HandlersNext == BasicInv /\ [Next]_vars => HandlersOk'
<1> SUFFICES ASSUME BasicInv, [Next]_vars, NEW g \in Handlers
             PROVE  WellFormed(handler'[g]) /\ Backed(handler[g])'
  BY DEF HandlersOk
<1>1. CASE handler'[g] = handler[g]
  BY <1>1, OthersStay
<1>2. ASSUME NEW h \in Handlers, HandlerStep(h), handler'[g] # handler[g]
      PROVE  WellFormed(handler'[g]) /\ Backed(handler[g])'
  <2>1. g = h
    BY <1>2, OneMoves
  <2>2. CASE Crash(g)
    <3>1. handler'[g] = Idle
      BY <2>2, IdleTypes DEF Crash, BasicInv
    <3> QED BY <3>1, PaymentsAssumption DEF WellFormed, Backed, Idle, Reporting,
            Looking, Public, Paid, Fulfilling, NoEvent
  <2> QED BY <1>2, <2>1, <2>2, BeginOk, ProceedOk DEF HandlerStep, Proceeds
<1>3. ASSUME NEW o \in Orders, OrderStep(o) \/ RazorpayStep(o)
      PROVE  handler' = handler
  BY <1>3 DEF OrderStep, RazorpayStep, RequestTopUp, StampTopUp, InsertTopUp,
     ConfirmTopUp, RepeatTopUp, GoStale, OpenOrder, ReopenCheckout, AttemptFails, Authorise,
     AutoCapture, PortalKept
<1>4. CASE UNCHANGED vars
  BY <1>1, <1>4 DEF vars
<1>5. \/ \E o \in Orders : OrderStep(o) \/ RazorpayStep(o)
      \/ \E h \in Handlers : HandlerStep(h)
      \/ UNCHANGED vars
  BY NextSteps DEF BasicInv
<1>6. handler' = handler => handler'[g] = handler[g]
  OBVIOUS
<1> QED BY <1>1, <1>2, <1>3, <1>4, <1>5, <1>6

-----------------------------------------------------------------------------
(* Who writes which documents.                                             *)

LEMMA Kinds ==
    /\ \A o \in PublicPayments : o \notin Portal /\ o \in Orders
    /\ \A o \in Portal : o \notin PublicPayments /\ o \in Orders
    /\ \A o \in CreditPayments : o \notin Prepaid /\ o \in Portal
    /\ \A o \in Prepaid : o \notin CreditPayments /\ o \in Portal
    /\ \A o \in TopUps : o \in Prepaid /\ o \notin Deposits
    /\ \A o \in Deposits : o \in Prepaid /\ o \notin TopUps
BY PaymentsAssumption DEF Orders, Portal, Prepaid

\* The payments of the account are written by a checkout that returns, by a
\* failure report and by the transactions that apply money, by nothing else.
LEMMA PortalWriters ==
    ASSUME BasicInv, NEW h \in Handlers, HandlerStep(h), ~MarkFailed(h),
           ~Applies(h), \A p \in orders : ~VerifyCheckout(h, p)
    PROVE  /\ \A o \in Portal : payment'[o] = payment[o]
           /\ UNCHANGED <<credited, depositStatus, lapsed>>
<1>1. TypeOK /\ WellFormed(handler[h])
  BY DEF BasicInv, HandlersOk
<1>2. UNCHANGED <<credited, depositStatus, lapsed>>
  BY DEF HandlerStep, Begins, Deliver, LookAtHistory, ConfirmPublic, Reports,
     ReopenReceipt, RecordOutcome, RequoteBooking, Looks, Reconcile,
     ClaimVerification, LookUp, LoadPublic, SaveCaptured, SaveOrderCreated,
     Fulfils, ClaimFulfilment, CreateShipment, FinishBooking, FulfilmentFails,
     RefundPayment, Crash, portalVars
<1>3. payment' = payment \/ \E s \in Statuses : SetStatus(Of(h), s) /\ Of(h) \in PublicPayments
  <2>1. CASE Begins(h) \/ Crash(h)
    BY <2>1 DEF Begins, Deliver, LookAtHistory, ConfirmPublic, Crash
  <2>2. CASE Reports(h)
    BY <2>2 DEF Reports, ReopenReceipt, RecordOutcome, RequoteBooking
  <2>3. CASE Looks(h)
    <3>1. CASE Reconcile(h)
      BY <3>1 DEF Reconcile
    <3>2. CASE ~Reconcile(h)
      <4>1. Of(h) \in PublicPayments
        BY <1>1, <2>3, <3>2 DEF Looks, ClaimVerification, LookUp, LoadPublic,
           SaveCaptured, SaveOrderCreated, At, WellFormed, Public, Of
      <4>2. {"VERIFYING", "CAPTURED", "ORDER_CREATED"} \subseteq Statuses
        BY DEF Statuses
      <4> QED BY <2>3, <3>2, <4>1, <4>2 DEF Looks, ClaimVerification, LookUp,
              LoadPublic, SaveCaptured, SaveOrderCreated, SaveLoaded
    <3> QED BY <3>1, <3>2
  <2>4. CASE Fulfils(h)
    <3>1. handler[h].pc \in Public
      BY <2>4 DEF Fulfils, ClaimFulfilment, CreateShipment, FinishBooking,
         FulfilmentFails, RefundPayment, At, Public, Fulfilling
    <3>2. payment' = payment \/ \E state \in Taken : SetStatus(Of(h), state)
      BY <2>4 DEF Fulfils, ClaimFulfilment, CreateShipment, FinishBooking,
         FulfilmentFails, RefundPayment, BothAre, Taken
    <3> QED BY <1>1, <3>1, <3>2 DEF WellFormed, Of, Statuses
  <2> QED BY <2>1, <2>2, <2>3, <2>4 DEF HandlerStep
<1>4. ASSUME NEW o \in Portal PROVE payment'[o] = payment[o]
  BY <1>1, <1>3, Kinds DEF TypeOK, SetStatus
<1> QED BY <1>2, <1>4

\* Public payments are written by a failure report and by the requests that
\* verify, save or fulfil them.
LEMMA PublicWriters ==
    ASSUME BasicInv, NEW h \in Handlers, HandlerStep(h), ~MarkFailed(h),
           ~ClaimVerification(h), ~SaveCaptured(h), ~SaveOrderCreated(h), ~Fulfils(h)
    PROVE  /\ \A o \in PublicPayments : payment'[o] = payment[o]
           /\ UNCHANGED <<shipment, overtaken>>
           /\ \A o \in Orders : gateway'[o].refunded = gateway[o].refunded
<1>1. TypeOK /\ WellFormed(handler[h])
  BY DEF BasicInv, HandlersOk
<1>2. UNCHANGED <<shipment, overtaken>>
  BY DEF HandlerStep, Begins, Deliver, VerifyCheckout, LookAtHistory,
     ConfirmPublic, Reports, ReopenReceipt, RecordOutcome, RequoteBooking,
     Looks, Reconcile, LookUp, LoadPublic, Applies, CreditCapturedTopUp,
     ApplyVerifiedCreditPayment, Crash, publicVars
<1>3. \/ gateway' = gateway
      \/ gateway' = [gateway EXCEPT ![Of(h)].paid = "captured"]
  BY DEF HandlerStep, Begins, Deliver, VerifyCheckout, LookAtHistory,
     ConfirmPublic, Reports, ReopenReceipt, RecordOutcome, RequoteBooking,
     Looks, Reconcile, LookUp, LoadPublic, Applies, CreditCapturedTopUp,
     ApplyVerifiedCreditPayment, Crash
<1>4. ASSUME NEW o \in Orders PROVE gateway'[o].refunded = gateway[o].refunded
  BY <1>1, <1>3 DEF TypeOK, GatewayType
<1>5. payment' = payment \/ \E p \in Portal, s \in Statuses : SetStatus(p, s)
  <2>1. CASE Begins(h)
    <3>1. {"PROCESSING", "CAPTURED", "FAILED", "CANCELLED", "VERIFIED"} \subseteq Statuses
      BY DEF Statuses
    <3> QED BY <2>1, <3>1 DEF Begins, Deliver, VerifyCheckout, LookAtHistory, ConfirmPublic
  <2>2. CASE Applies(h)
    <3>1. Of(h) \in Portal /\ {"CAPTURED", "VERIFIED"} \subseteq Statuses
      BY <1>1, <2>2 DEF Applies, CreditCapturedTopUp, ApplyVerifiedCreditPayment,
         At, WellFormed, Of, Statuses
    <3> QED BY <2>2, <3>1 DEF Applies, CreditCapturedTopUp,
            ApplyVerifiedCreditPayment, Apply
  <2>3. CASE ~Begins(h) /\ ~Applies(h)
    BY <2>3 DEF HandlerStep, Reports, ReopenReceipt, RecordOutcome,
       RequoteBooking, Looks, Reconcile, LookUp, LoadPublic, Crash
  <2> QED BY <2>1, <2>2, <2>3
<1>6. ASSUME NEW o \in PublicPayments PROVE payment'[o] = payment[o]
  BY <1>1, <1>5, <1>6, Kinds DEF TypeOK, SetStatus
<1> QED BY <1>2, <1>4, <1>6

LEMMA TopUpsNext == BasicInv /\ [Next]_vars => TopUpsOk'
<1> SUFFICES ASSUME BasicInv, [Next]_vars, NEW o \in TopUps
             PROVE  TopUpOk(o)'
  BY DEF TopUpsOk
<1>1. TypeOK /\ HandlersOk /\ GatewayOk /\ TopUpOk(o) /\ o \in Orders
  BY DEF BasicInv, TopUpsOk, Orders, Portal, Prepaid
<1>2. ASSUME creating'[o] = creating[o], payment'[o] = payment[o],
             o \in lapsed => o \in lapsed', o \in repeated' <=> o \in repeated
      PROVE  TopUpOk(o)'
  BY <1>1, <1>2 DEF TopUpOk, Status, Offered, Confirmed
<1>3. ASSUME NEW t \in Orders, OrderStep(t) \/ RazorpayStep(t)
      PROVE  TopUpOk(o)'
  <2>1. CASE t # o
    BY <1>1, <1>2, <1>3, <2>1 DEF TypeOK, OrderStep, RazorpayStep, RequestTopUp,
       StampTopUp, InsertTopUp, ConfirmTopUp, RepeatTopUp, GoStale, OpenOrder,
       ReopenCheckout, AttemptFails, Authorise, AutoCapture, PortalKept,
       creationVars, SetStatus
  <2>2. CASE t = o /\ (OpenOrder(o) \/ ReopenCheckout(o) \/ RazorpayStep(o))
    BY <1>2, <2>2, Kinds DEF OpenOrder, ReopenCheckout, RazorpayStep,
       AttemptFails, Authorise, AutoCapture, PortalKept, creationVars
  <2>3. CASE t = o /\ (RequestTopUp(o) \/ StampTopUp(o) \/ InsertTopUp(o))
    BY <1>1, <2>3 DEF TypeOK, RequestTopUp, StampTopUp, InsertTopUp, TopUpOk,
       Status, SetStatus, Offered, Confirmed
  <2>4. CASE t = o /\ (ConfirmTopUp(o) \/ RepeatTopUp(o) \/ GoStale(o))
    BY <1>1, <2>4 DEF TypeOK, ConfirmTopUp, RepeatTopUp, GoStale, Rows, TopUpOk,
       Status, SetStatus, Offered, Confirmed, creationVars
  <2> QED BY <1>3, <2>1, <2>2, <2>3, <2>4 DEF OrderStep
<1>4. ASSUME NEW h \in Handlers, HandlerStep(h) PROVE TopUpOk(o)'
  <2>1. creating' = creating /\ repeated' = repeated
    BY <1>4 DEF HandlerStep, Begins, Deliver, VerifyCheckout, LookAtHistory,
       ConfirmPublic, Reports, ReopenReceipt, RecordOutcome, MarkFailed,
       RequoteBooking, Looks, Reconcile, ClaimVerification, LookUp, LoadPublic,
       SaveCaptured, SaveOrderCreated, Applies, CreditCapturedTopUp,
       ApplyVerifiedCreditPayment, Fulfils, ClaimFulfilment, CreateShipment,
       FinishBooking, FulfilmentFails, RefundPayment, Crash, creationVars
  <2>2. ASSUME NEW s \in {"PROCESSING", "CAPTURED", "VERIFIED", "FAILED"},
               Offered(o), payment'[o] = s,
               o \in lapsed => o \in lapsed', s = "FAILED" => o \in lapsed'
        PROVE  TopUpOk(o)'
    BY <1>1, <2>1, <2>2 DEF TopUpOk, Status, Offered, Confirmed
  <2>3. CASE MarkFailed(h)
    <3>1. Of(h) \in Orders /\ Offered(Of(h))
      BY <1>1, <2>3, BusyHasOrder DEF MarkFailed, At, HandlersOk, Backed, Of
    <3>2. CASE Of(h) = o /\ SetStatus(o, "FAILED")
      <4>1. lapsed' = lapsed \cup {o}
        <5>1. ~(UNCHANGED payment) \/ Status(o) = "FAILED"
          BY <1>1, <3>2 DEF TypeOK, SetStatus, Status
        <5>2. Status(o) \notin KeptOnFailure(o)
          BY <1>1, <2>3, <3>2, <5>1, Kinds DEF MarkFailed, KeptOnFailure
        <5> QED BY <2>3, <3>2, <5>2 DEF MarkFailed
      <4> QED BY <1>1, <2>2, <3>1, <3>2, <4>1 DEF TypeOK, SetStatus
    <3>3. CASE ~(Of(h) = o /\ SetStatus(o, "FAILED"))
      BY <1>1, <1>2, <2>1, <2>3, <3>3 DEF TypeOK, MarkFailed, SetStatus
    <3> QED BY <3>2, <3>3
  <2>4. CASE Applies(h)
    <3>1. Of(h) \in Orders /\ Offered(Of(h)) /\ lapsed' = lapsed
      BY <1>1, <2>4, BusyHasOrder DEF Applies, CreditCapturedTopUp,
         ApplyVerifiedCreditPayment, At, HandlersOk, Backed, Of
    <3>2. payment' = payment \/ \E s \in {"CAPTURED", "VERIFIED"} : SetStatus(Of(h), s)
      BY <2>4 DEF Applies, CreditCapturedTopUp, ApplyVerifiedCreditPayment, Apply
    <3> QED BY <1>1, <1>2, <2>1, <2>2, <3>1, <3>2 DEF TypeOK, SetStatus
  <2>5. ASSUME NEW p \in orders, VerifyCheckout(h, p) PROVE TopUpOk(o)'
    <3>1. p \in Orders /\ Offered(p) /\ lapsed' = lapsed
      BY <1>1, <2>5 DEF VerifyCheckout, TypeOK, GatewayOk
    <3>2. payment' = payment \/ SetStatus(p, "PROCESSING")
      BY <1>1, <2>5 DEF VerifyCheckout, SetStatus, TypeOK, Status
    <3> QED BY <1>1, <1>2, <2>1, <2>2, <3>1, <3>2 DEF TypeOK, SetStatus
  <2>6. CASE ~MarkFailed(h) /\ ~Applies(h) /\ \A p \in orders : ~VerifyCheckout(h, p)
    BY <1>2, <1>4, <2>1, <2>6, PortalWriters, Kinds
  <2> QED BY <2>3, <2>4, <2>5, <2>6
<1>5. CASE UNCHANGED vars
  BY <1>2, <1>5 DEF vars
<1> QED BY <1>1, <1>3, <1>4, <1>5, NextSteps

\* How the status of a public payment moves.
LEMMA PublicMoves ==
    ASSUME BasicInv, NEW h \in Handlers, HandlerStep(h), NEW o \in PublicPayments,
           payment'[o] # payment[o]
    PROVE  /\ Of(h) = o
           /\ \/ MarkFailed(h) /\ payment'[o] = "FAILED"
                   /\ payment[o] \notin Taken \cup {"CAPTURED"}
              \/ ClaimVerification(h) /\ payment'[o] = "VERIFYING"
                   /\ payment[o] \in {"ORDER_CREATED", "FAILED"}
              \/ SaveCaptured(h) /\ payment'[o] = "CAPTURED"
              \/ SaveOrderCreated(h) /\ payment'[o] = "ORDER_CREATED"
              \/ Fulfils(h) /\ payment'[o] \in Taken
<1>1. TypeOK /\ o \in Orders /\ o \notin Portal
  BY Kinds DEF BasicInv
<1>2. CASE MarkFailed(h)
  <2>1. KeptOnFailure(o) = Taken \cup {"CAPTURED"}
    BY <1>1, Kinds DEF KeptOnFailure
  <2> QED BY <1>1, <1>2, <2>1 DEF MarkFailed, TypeOK, SetStatus, Status
<1>3. CASE ClaimVerification(h)
  BY <1>1, <1>3 DEF ClaimVerification, TypeOK, SetStatus, Status
<1>4. CASE SaveCaptured(h)
  BY <1>1, <1>4 DEF SaveCaptured, SaveLoaded, TypeOK, SetStatus, Status
<1>5. CASE SaveOrderCreated(h)
  BY <1>1, <1>5 DEF SaveOrderCreated, SaveLoaded, TypeOK, SetStatus, Status
<1>6. CASE Fulfils(h)
  <2>1. payment' = payment \/ \E state \in Taken : SetStatus(Of(h), state)
    BY <1>6 DEF Fulfils, ClaimFulfilment, CreateShipment, FinishBooking,
       FulfilmentFails, RefundPayment, BothAre, Taken
  <2> QED BY <1>1, <1>6, <2>1 DEF TypeOK, SetStatus
<1> QED BY <1>2, <1>3, <1>4, <1>5, <1>6, PublicWriters

LEMMA PublicOpens ==
    ASSUME BasicInv, NEW t \in Orders, OrderStep(t) \/ RazorpayStep(t),
           NEW o \in PublicPayments, payment'[o] # payment[o]
    PROVE  payment[o] = "NONE" /\ payment'[o] = "ORDER_CREATED"
<1>1. TypeOK /\ o \in Orders /\ o \notin TopUps
  BY Kinds DEF BasicInv
<1> QED BY <1>1 DEF OrderStep, RazorpayStep, RequestTopUp, StampTopUp, InsertTopUp,
        ConfirmTopUp, RepeatTopUp, GoStale, OpenOrder, ReopenCheckout, AttemptFails,
        Authorise, AutoCapture, PortalKept, TypeOK, SetStatus, Status

LEMMA GatewayNext == BasicInv /\ [Next]_vars => GatewayOk'
<1> SUFFICES ASSUME BasicInv, [Next]_vars PROVE GatewayOk'
  OBVIOUS
<1>1. TypeOK /\ HandlersOk /\ GatewayOk
  BY DEF BasicInv
<1>2. \A o \in Orders : /\ Offered(o) => Offered(o)'
                        /\ Captured(o) => Captured(o)'
  BY <1>1, Lasting
<1>3. ASSUME NEW o \in Orders, ~Offered(o)'
      PROVE  gateway'[o].paid = "no" /\ ~gateway'[o].failed
  <2>1. ~Offered(o) /\ gateway[o].paid = "no" /\ ~gateway[o].failed
    BY <1>1, <1>2, <1>3 DEF GatewayOk
  <2>2. \A h \in Handlers : Of(h) # o
    BY <1>1, <2>1 DEF HandlersOk, Backed, Of
  <2>3. CASE gateway' = gateway
    BY <2>1, <2>3
  <2>4. ASSUME NEW p \in Orders,
               \/ Offered(p) /\ gateway' = [gateway EXCEPT ![p].failed = TRUE]
               \/ /\ Offered(p) /\ gateway[p].paid = "no"
                  /\ gateway' = [gateway EXCEPT ![p].paid = "authorized"]
               \/ /\ gateway[p].paid = "authorized" \/ \E h \in Handlers : Of(h) = p
                  /\ gateway' = [gateway EXCEPT ![p].paid = "captured"]
               \/ gateway' = [gateway EXCEPT ![p].refunded = TRUE]
        PROVE  gateway'[o].paid = "no" /\ ~gateway'[o].failed
    <3>1. CASE p # o
      BY <1>1, <2>1, <2>4, <3>1 DEF TypeOK
    <3>2. CASE p = o
      <4>1. gateway' = [gateway EXCEPT ![o].refunded = TRUE]
        BY <2>1, <2>2, <2>4, <3>2
      <4> QED BY <1>1, <2>1, <4>1 DEF TypeOK, GatewayType
    <3> QED BY <3>1, <3>2
  <2> QED BY <1>1, <2>3, <2>4, GatewayEffect
<1>4. ASSUME NEW o \in PublicPayments, Status(o)' \in Taken \cup {"CAPTURED"}
      PROVE  Captured(o)'
  <2>1. o \in Orders
    BY Kinds
  <2>2. CASE payment'[o] = payment[o]
    BY <1>1, <1>2, <1>4, <2>1, <2>2 DEF GatewayOk, Status
  <2>3. ASSUME NEW h \in Handlers, HandlerStep(h), payment'[o] # payment[o]
        PROVE  Captured(o)
    <3>1. Of(h) = o /\ (SaveCaptured(h) \/ Fulfils(h))
      BY <1>4, <2>3, PublicMoves DEF Status, Taken
    <3>2. handler[h].pc \in Paid
      BY <3>1 DEF SaveCaptured, Fulfils, ClaimFulfilment, CreateShipment,
         FinishBooking, FulfilmentFails, RefundPayment, At, Paid, Fulfilling
    <3> QED BY <1>1, <3>1, <3>2 DEF HandlersOk, Backed, Of
  <2>4. ASSUME NEW t \in Orders, OrderStep(t) \/ RazorpayStep(t)
        PROVE  payment'[o] = payment[o]
    BY <1>4, <2>4, PublicOpens DEF Status, Taken
  <2>5. CASE UNCHANGED vars
    BY <2>2, <2>5 DEF vars
  <2> QED BY <1>1, <1>2, <2>1, <2>2, <2>3, <2>4, <2>5, NextSteps
<1> QED BY <1>3, <1>4 DEF GatewayOk

LEMMA BasicInit == Init => BasicInv
<1> SUFFICES ASSUME Init PROVE BasicInv
  OBVIOUS
<1>1. NoOrder \notin Orders
  BY PaymentsAssumption
<1>2. \A h \in Handlers : handler[h] = Idle
  BY DEF Init
<1>3. TypeOK
  BY PaymentsAssumption DEF Init, TypeOK, GatewayType, NotPaid, HandlerType, Idle,
     Phases, Statuses, Portal, Prepaid
<1>4. HandlersOk
  BY <1>1, <1>2 DEF HandlersOk, WellFormed, Backed, Idle, NoEvent, Reporting,
     Looking, Public, Paid, Fulfilling
<1>5. TopUpsOk
  BY DEF Init, TopUpsOk, TopUpOk, Status, Orders
<1>6. GatewayOk
  BY DEF Init, GatewayOk, NotPaid, Orders, Status, Taken
<1> QED BY <1>3, <1>4, <1>5, <1>6 DEF BasicInv

LEMMA BasicNext == BasicInv /\ [Next]_vars => BasicInv'
BY TypeNext, HandlersNext, TopUpsNext, GatewayNext DEF BasicInv

\* Whatever the customers, Razorpay and the requests do, a request is only
\* where it can be, with the order and the report it is there for, and relies
\* on a capture Razorpay made.
THEOREM RequestsAreBacked == Spec => []BasicInv
BY BasicInit, BasicNext, PTL DEF Spec
-----------------------------------------------------------------------------
(* Applying captured money.                                                *)

\* Money is applied only by the two transactions, to the order of the request.
LEMMA AppliesEffect ==
    ASSUME BasicInv, AppliedOk, NEW h \in Handlers, Applies(h)
    PROVE  \/ UNCHANGED <<payment, credited, depositStatus>>
           \/ /\ Of(h) \in Portal /\ Captured(Of(h)) /\ credited[Of(h)] = 0
              /\ SetStatus(Of(h), IF Of(h) \in Prepaid THEN "CAPTURED" ELSE "VERIFIED")
              /\ credited' = [credited EXCEPT ![Of(h)] = 1]
              /\ depositStatus' = (depositStatus \/ Of(h) \in Deposits)
              /\ Of(h) \in Deposits => ~depositStatus
<1>1. WellFormed(handler[h]) /\ Backed(handler[h]) /\ TypeOK
  BY DEF BasicInv, HandlersOk
<1>2. Of(h) \in Portal /\ Captured(Of(h))
  BY <1>1 DEF Applies, CreditCapturedTopUp, ApplyVerifiedCreditPayment, At,
     WellFormed, Backed, Paid, Of
<1>3. ~AlreadyApplied(Of(h)) => credited[Of(h)] = 0
  BY <1>2 DEF AppliedOk, OrderApplied, AlreadyApplied
<1>4. CASE CreditCapturedTopUp(h)
  BY <1>1, <1>2, <1>3, <1>4, Kinds DEF CreditCapturedTopUp, Apply, TypeOK
<1>5. CASE ApplyVerifiedCreditPayment(h)
  <2>1. CASE Status(Of(h)) \in {"CREATED", "PROCESSING"} /\ Apply(h, "VERIFIED")
    <3>1. ~AlreadyApplied(Of(h)) /\ Of(h) \notin Prepaid /\ Of(h) \notin Deposits
      BY <1>5, <2>1, Kinds DEF ApplyVerifiedCreditPayment, AlreadyApplied
    <3> QED BY <1>1, <1>2, <1>3, <1>5, <2>1, <3>1 DEF
            ApplyVerifiedCreditPayment, Apply, TypeOK
  <2>2. CASE ~(Status(Of(h)) \in {"CREATED", "PROCESSING"} /\ Apply(h, "VERIFIED"))
    BY <1>5, <2>2 DEF ApplyVerifiedCreditPayment
  <2> QED BY <2>1, <2>2
<1> QED BY <1>4, <1>5 DEF Applies

LEMMA AppliedInit == Init => AppliedOk
<1> SUFFICES ASSUME Init PROVE AppliedOk
  OBVIOUS
<1>1. \A o \in Portal : OrderApplied(o)
  BY Kinds DEF Init, OrderApplied, Unapplied, Status
<1>2. DepositsApplied
  BY Kinds DEF Init, DepositsApplied, CreditedDeposits
<1> QED BY <1>1, <1>2 DEF AppliedOk

LEMMA AppliedNext == BasicInv /\ AppliedOk /\ [Next]_vars => AppliedOk'
<1> SUFFICES ASSUME BasicInv, AppliedOk, [Next]_vars PROVE AppliedOk'
  OBVIOUS
<1>1. TypeOK /\ HandlersOk /\ TopUpsOk
  BY DEF BasicInv
<1>2. \A o \in Portal : o \in Orders /\ OrderApplied(o) /\ (Captured(o) => Captured(o)')
  BY <1>1, Kinds, Lasting DEF AppliedOk
<1>3. ASSUME UNCHANGED <<credited, depositStatus>>,
             \A o \in Portal : \/ payment'[o] = payment[o]
                               \/ {payment[o], payment'[o]} \subseteq Unapplied
      PROVE  AppliedOk'
  <2>1. ASSUME NEW o \in Portal PROVE OrderApplied(o)'
    BY <1>2, <1>3, <2>1 DEF OrderApplied, Status, Captured, Unapplied
  <2>2. DepositsApplied'
    BY <1>3 DEF AppliedOk, DepositsApplied, CreditedDeposits
  <2> QED BY <2>1, <2>2 DEF AppliedOk
<1>4. ASSUME NEW t \in Orders, OrderStep(t) \/ RazorpayStep(t) PROVE AppliedOk'
  <2>1. UNCHANGED <<credited, depositStatus>>
    BY <1>4 DEF OrderStep, RazorpayStep, RequestTopUp, StampTopUp, InsertTopUp,
       ConfirmTopUp, RepeatTopUp, GoStale, OpenOrder, ReopenCheckout, AttemptFails,
       Authorise, AutoCapture, PortalKept, portalVars
  <2>2. \/ payment' = payment
        \/ /\ Status(t) \in {"NONE", "CREATED"}
           /\ \E s \in {"CREATED", "CANCELLED"} : SetStatus(t, s)
        \/ t \notin Portal /\ \E s : SetStatus(t, s)
    <3>1. t \in TopUps => TopUpOk(t)
      BY <1>1 DEF TopUpsOk
    <3> QED BY <1>4, <3>1, Kinds DEF OrderStep, RazorpayStep, RequestTopUp, StampTopUp,
            InsertTopUp, ConfirmTopUp, RepeatTopUp, GoStale, OpenOrder, ReopenCheckout,
            AttemptFails, Authorise, AutoCapture, PortalKept, TopUpOk
  <2>3. ASSUME NEW o \in Portal
        PROVE  \/ payment'[o] = payment[o]
               \/ {payment[o], payment'[o]} \subseteq Unapplied
    BY <1>1, <1>2, <2>2 DEF TypeOK, SetStatus, Status, Unapplied
  <2> QED BY <1>3, <2>1, <2>3
<1>5. ASSUME NEW h \in Handlers, MarkFailed(h) PROVE AppliedOk'
  <2>1. ASSUME NEW o \in Portal
        PROVE  \/ payment'[o] = payment[o]
               \/ {payment[o], payment'[o]} \subseteq Unapplied
    <3>1. o \in Prepaid => KeptOnFailure(o) = {"CAPTURED"}
      BY Kinds DEF KeptOnFailure
    <3>2. o \notin Prepaid => o \in CreditPayments /\ KeptOnFailure(o) = {"VERIFIED"}
      BY Kinds DEF KeptOnFailure, Portal
    <3>3. Status(o) \notin KeptOnFailure(o) => Status(o) \in Unapplied
      BY <1>2, <3>1, <3>2 DEF OrderApplied
    <3> QED BY <1>1, <1>2, <1>5, <3>3 DEF MarkFailed, TypeOK, SetStatus, Status, Unapplied
  <2> QED BY <1>3, <1>5, <2>1 DEF MarkFailed, portalVars
<1>6. ASSUME NEW h \in Handlers, NEW p \in orders, VerifyCheckout(h, p) PROVE AppliedOk'
  <2>1. p \in Orders /\ p \in Portal
    BY <1>1, <1>6 DEF TypeOK, VerifyCheckout
  <2>2. \/ payment' = payment
        \/ SetStatus(p, "PROCESSING") /\ Status(p) \in Unapplied
    BY <1>1, <1>2, <1>6, <2>1 DEF VerifyCheckout, SetStatus, Status, TypeOK,
       OrderApplied, Portal
  <2>3. ASSUME NEW o \in Portal
        PROVE  \/ payment'[o] = payment[o]
               \/ {payment[o], payment'[o]} \subseteq Unapplied
    BY <1>1, <1>2, <2>2 DEF TypeOK, SetStatus, Status, Unapplied
  <2> QED BY <1>3, <1>6, <2>3 DEF VerifyCheckout, portalVars
<1>7. ASSUME NEW h \in Handlers, Applies(h) PROVE AppliedOk'
  <2>1. CASE UNCHANGED <<payment, credited, depositStatus>>
    BY <1>3, <2>1
  <2>2. CASE ~UNCHANGED <<payment, credited, depositStatus>>
    <3> DEFINE a == Of(h)
    <3>1. /\ a \in Portal /\ Captured(a) /\ credited[a] = 0
          /\ SetStatus(a, IF a \in Prepaid THEN "CAPTURED" ELSE "VERIFIED")
          /\ credited' = [credited EXCEPT ![a] = 1]
          /\ depositStatus' = (depositStatus \/ a \in Deposits)
          /\ a \in Deposits => ~depositStatus
      BY <1>7, <2>2, AppliesEffect
    <3> HIDE DEF a
    <3>2. ASSUME NEW o \in Portal PROVE OrderApplied(o)'
      <4>1. CASE o = a
        <5>1. credited'[o] = 1 /\ Captured(o)'
          BY <1>1, <1>2, <3>1, <4>1 DEF TypeOK
        <5>2. payment'[o] = IF o \in Prepaid THEN "CAPTURED" ELSE "VERIFIED"
          BY <1>1, <1>2, <3>1, <4>1 DEF TypeOK, SetStatus
        <5> QED BY <3>2, <5>1, <5>2, Kinds DEF OrderApplied, Status
      <4>2. CASE o # a
        <5>1. credited'[o] = credited[o] /\ payment'[o] = payment[o]
          BY <1>1, <1>2, <3>1, <4>2 DEF TypeOK, SetStatus
        <5> QED BY <1>2, <5>1 DEF OrderApplied, Status, Captured
      <4> QED BY <4>1, <4>2
    <3>3. DepositsApplied'
      <4>1. \A o \in Deposits : credited'[o] = IF o = a THEN 1 ELSE credited[o]
        BY <1>1, <3>1, Kinds DEF TypeOK
      <4>2. CASE a \in Deposits
        <5>1. CreditedDeposits' = {a}
          BY <3>1, <4>1, <4>2 DEF AppliedOk, DepositsApplied, CreditedDeposits
        <5> QED BY <3>1, <4>2, <5>1 DEF DepositsApplied
      <4>3. CASE a \notin Deposits
        <5>1. CreditedDeposits' = CreditedDeposits
          BY <4>1, <4>3 DEF CreditedDeposits
        <5>2. depositStatus' = depositStatus
          BY <1>1, <3>1, <4>3 DEF TypeOK
        <5> QED BY <5>1, <5>2 DEF AppliedOk, DepositsApplied
      <4> QED BY <4>2, <4>3
    <3> QED BY <3>2, <3>3 DEF AppliedOk
  <2> QED BY <2>1, <2>2
<1>8. ASSUME NEW h \in Handlers, HandlerStep(h), ~MarkFailed(h), ~Applies(h),
             \A p \in orders : ~VerifyCheckout(h, p)
      PROVE  AppliedOk'
  BY <1>3, <1>8, PortalWriters
<1>9. CASE UNCHANGED vars
  BY <1>3, <1>9 DEF vars
<1> QED BY <1>1, <1>4, <1>5, <1>6, <1>7, <1>8, <1>9, NextSteps

LEMMA AppliedOnce == BasicInv /\ AppliedOk => AppliedExactlyOnce
<1> SUFFICES ASSUME BasicInv, AppliedOk PROVE AppliedExactlyOnce
  OBVIOUS
<1>1. Cardinality(CreditedDeposits) = (IF depositStatus THEN 1 ELSE 0)
  <2>1. CASE depositStatus
    BY <2>1, FS_Singleton DEF AppliedOk, DepositsApplied
  <2>2. CASE ~depositStatus
    BY <2>2, FS_EmptySet DEF AppliedOk, DepositsApplied
  <2> QED BY <2>1, <2>2
<1> QED BY <1>1 DEF AppliedOk, OrderApplied, AppliedExactlyOnce, CreditedDeposits

\* However often, in whatever order and next to whatever failure a payment is
\* reported, its money is applied once, when Razorpay has captured it, and one
\* security deposit is received at most.
THEOREM MoneyAppliedOnce == Spec => []AppliedExactlyOnce
<1>1. Init => BasicInv /\ AppliedOk
  BY BasicInit, AppliedInit
<1>2. BasicInv /\ AppliedOk /\ [Next]_vars => (BasicInv /\ AppliedOk)'
  BY BasicNext, AppliedNext
<1> QED BY <1>1, <1>2, AppliedOnce, PTL DEF Spec
-----------------------------------------------------------------------------
(* Settled reports.                                                        *)

\* What was applied stays applied.
LEMMA CreditLasts ==
    ASSUME BasicInv, AppliedOk, [Next]_vars, NEW o \in Portal, credited[o] = 1
    PROVE  credited'[o] = 1
<1>1. TypeOK
  BY DEF BasicInv
<1>2. ASSUME NEW t \in Orders, OrderStep(t) \/ RazorpayStep(t)
      PROVE  credited' = credited
  BY <1>2 DEF OrderStep, RazorpayStep, RequestTopUp, StampTopUp, InsertTopUp,
     ConfirmTopUp, RepeatTopUp, GoStale, OpenOrder, ReopenCheckout, AttemptFails,
     Authorise, AutoCapture, PortalKept, portalVars
<1>3. ASSUME NEW h \in Handlers, HandlerStep(h) PROVE credited'[o] = 1
  <2>1. CASE Applies(h)
    BY <1>1, <2>1, AppliesEffect DEF TypeOK
  <2>2. CASE ~Applies(h)
    BY <1>3, <2>2, PortalWriters DEF MarkFailed, VerifyCheckout, portalVars
  <2> QED BY <2>1, <2>2
<1>4. CASE UNCHANGED vars
  BY <1>4 DEF vars
<1> QED BY <1>1, <1>2, <1>3, <1>4, NextSteps

\* A fulfilment that has begun is only undone by a stale save, which is noted.
LEMMA TakenLasts ==
    ASSUME BasicInv, [Next]_vars, NEW o \in PublicPayments
    PROVE  /\ o \in overtaken => o \in overtaken'
           /\ Status(o) \in Taken => Status(o)' \in Taken \/ o \in overtaken'
<1>1. TypeOK /\ o \in Orders
  BY Kinds DEF BasicInv
<1>2. ASSUME NEW t \in Orders, OrderStep(t) \/ RazorpayStep(t)
      PROVE  overtaken' = overtaken
  BY <1>2 DEF OrderStep, RazorpayStep, RequestTopUp, StampTopUp, InsertTopUp,
     ConfirmTopUp, RepeatTopUp, GoStale, OpenOrder, ReopenCheckout, AttemptFails,
     Authorise, AutoCapture, PortalKept, publicVars
<1>3. ASSUME NEW t \in Orders, OrderStep(t) \/ RazorpayStep(t), Status(o) \in Taken
      PROVE  Status(o)' = Status(o)
  BY <1>3, PublicOpens DEF Status, Taken
<1>4. ASSUME NEW h \in Handlers, HandlerStep(h), o \in overtaken
      PROVE  o \in overtaken'
  <2>1. CASE SaveCaptured(h) \/ SaveOrderCreated(h)
    BY <1>4, <2>1 DEF SaveCaptured, SaveOrderCreated, SaveLoaded
  <2>2. CASE MarkFailed(h) \/ ClaimVerification(h) \/ Fulfils(h)
    BY <1>4, <2>2 DEF MarkFailed, ClaimVerification, Fulfils, ClaimFulfilment,
       CreateShipment, FinishBooking, FulfilmentFails, RefundPayment, publicVars
  <2> QED BY <1>4, <2>1, <2>2, PublicWriters
<1>5. ASSUME NEW h \in Handlers, HandlerStep(h), Status(o) \in Taken,
             payment'[o] # payment[o]
      PROVE  Status(o)' \in Taken \/ o \in overtaken'
  <2>1. CASE Of(h) = o /\ (SaveCaptured(h) \/ SaveOrderCreated(h))
    BY <1>5, <2>1 DEF SaveCaptured, SaveOrderCreated, SaveLoaded, Status
  <2>2. CASE ~(Of(h) = o /\ (SaveCaptured(h) \/ SaveOrderCreated(h)))
    BY <1>5, <2>2, PublicMoves DEF Status, Taken
  <2> QED BY <2>1, <2>2
<1>6. CASE UNCHANGED vars
  BY <1>6 DEF vars, Status
<1> QED BY <1>1, <1>2, <1>3, <1>4, <1>5, <1>6, NextSteps DEF Status

LEMMA SettledLasts ==
    ASSUME BasicInv, AppliedOk, [Next]_vars, NEW e \in Events, EventSettled(e)
    PROVE  EventSettled(e)'
<1>1. CASE e.order \in Portal
  BY <1>1, CreditLasts, Kinds DEF EventSettled
<1>2. CASE e.order \in PublicPayments
  BY <1>2, TakenLasts, Kinds DEF EventSettled, Status
<1> QED BY <1>1, <1>2 DEF EventSettled

\* A request comes to "settled" with an event that is.
LEMMA BecomesSettled ==
    ASSUME BasicInv, AppliedOk, [Next]_vars, NEW h \in Handlers, HandlerStep(h),
           At(h, "settled")', handler'[h] # handler[h],
           handler'[h].event.type # "failed"
    PROVE  EventSettled(handler[h].event)'
<1>1. TypeOK /\ WellFormed(handler[h]) /\ HandlersOk
  BY DEF BasicInv, HandlersOk
<1>2. handler'[h].pc = "settled"
  BY DEF At
<1>3. ~Begins(h)
  <2>1. ASSUME NEW e \in Events, NEW pc \in {"fail", "credit", "load", "reopen"},
               Begin(h, e, pc)
        PROVE  FALSE
    BY <1>1, <1>2, <2>1 DEF Begin, TypeOK
  <2>2. ASSUME NEW o, NEW pc \in {"reconcile", "fulfil", "claim"}, NEW loaded,
               Start(h, o, pc, loaded)
        PROVE  FALSE
    BY <1>1, <1>2, <2>2 DEF Start, TypeOK
  <2>3. \A e \in Events : ~Deliver(h, e)
    BY <2>1 DEF Deliver, FirstStep
  <2>4. \A o \in orders : ~VerifyCheckout(h, o) /\ ~LookAtHistory(h, o) /\ ~ConfirmPublic(h, o)
    BY <2>2 DEF VerifyCheckout, LookAtHistory, ConfirmPublic
  <2> QED BY <2>3, <2>4 DEF Begins
<1>4. ~Crash(h) /\ ~ReopenReceipt(h) /\ ~RecordOutcome(h)
  <2>1. handler' # [handler EXCEPT ![h] = Idle]
    BY <1>1, <1>2, IdleTypes DEF Idle
  <2>2. \A pc \in {"fail", "credit", "load"} : pc \in Phases
    BY DEF Phases, Reporting, Public, Paid
  <2>3. ASSUME NEW pc \in {"fail", "credit", "load"}, Goto(h, pc) PROVE FALSE
    BY <1>1, <1>2, <2>2, <2>3, GotoTypes
  <2> QED BY <2>1, <2>3 DEF Crash, RecordOutcome, ReopenReceipt, FirstStep
<1>5. ~At(h, "idle")
  BY <1>3, <1>4 DEF HandlerStep, Reports, Looks, Applies, Fulfils, MarkFailed,
     RequoteBooking, Reconcile, ClaimVerification, LookUp, LoadPublic,
     SaveCaptured, SaveOrderCreated, CreditCapturedTopUp,
     ApplyVerifiedCreditPayment, ClaimFulfilment, CreateShipment,
     FinishBooking, FulfilmentFails, RefundPayment, At
<1>6. "settled" \in Phases /\ "refused" \in Phases
  BY DEF Phases, Reporting
<1>7. ~Throw(h)
  BY <1>1, <1>2, <1>6, LeaveTypes DEF Throw, Idle
<1>8. Done(h) => /\ handler[h].event # NoEvent
                 /\ handler'[h].event = handler[h].event
  BY <1>1, <1>2, <1>6, LeaveTypes DEF Done, Idle
<1>9. ASSUME NEW pc \in Phases, Goto(h, pc) PROVE pc = "settled"
  BY <1>1, <1>2, <1>9, GotoTypes
<1>10. /\ "requote" \in Phases /\ "credit" \in Phases /\ "lookup" \in Phases
       /\ "capture" \in Phases /\ "giveUp" \in Phases /\ "fulfil" \in Phases
       /\ "book" \in Phases /\ "locked" \in Phases /\ "recorded" \in Phases
       /\ "booked" \in Phases /\ "broken" \in Phases /\ "refund" \in Phases
  BY DEF Phases, Public, Paid, Looking, Fulfilling
<1>11. ~Goto(h, "requote") /\ ~Goto(h, "credit") /\ ~Goto(h, "lookup")
  BY <1>9, <1>10
<1>12. ~Goto(h, "capture") /\ ~Goto(h, "giveUp") /\ ~Goto(h, "fulfil")
  BY <1>9, <1>10
<1>13. ~Goto(h, "book") /\ ~Goto(h, "locked") /\ ~Goto(h, "recorded")
  BY <1>9, <1>10
<1>14. ~Goto(h, "booked") /\ ~Goto(h, "broken") /\ ~Goto(h, "refund")
  BY <1>9, <1>10
<1>15. Done(h)
  <2>1. CASE Reports(h)
    BY <1>4, <1>11, <2>1 DEF Reports, MarkFailed, RequoteBooking
  <2>2. CASE Looks(h)
    <3>1. CASE LoadPublic(h)
      BY <1>1, <1>2, <3>1 DEF LoadPublic, TypeOK
    <3> QED BY <1>11, <1>12, <2>2, <3>1 DEF Looks, Reconcile, ClaimVerification,
            LookUp, SaveCaptured, SaveOrderCreated
  <2>3. CASE Applies(h)
    BY <1>7, <2>3 DEF Applies, CreditCapturedTopUp, ApplyVerifiedCreditPayment, Apply
  <2>4. CASE Fulfils(h)
    BY <1>7, <1>13, <1>14, <2>4 DEF Fulfils, ClaimFulfilment, CreateShipment,
       Ship, FinishBooking, FulfilmentFails, RefundPayment
  <2> QED BY <1>3, <1>4, <2>1, <2>2, <2>3, <2>4 DEF HandlerStep
<1> DEFINE e == handler[h].event
           o == Of(h)
<1>16. e \in Events /\ e.order = o /\ e.type # "failed" /\ handler'[h].event = e
  BY <1>1, <1>8, <1>15 DEF WellFormed, Of
<1>17. CASE Applies(h)
  <2>1. o \in Portal
    BY <1>1, <1>17 DEF Applies, CreditCapturedTopUp, ApplyVerifiedCreditPayment,
       At, WellFormed, Of
  <2>2. CASE AlreadyApplied(o)
    <3>1. credited[o] = 1
      BY <2>1, <2>2 DEF AppliedOk, OrderApplied, AlreadyApplied
    <3> QED BY <1>16, <2>1, <3>1, CreditLasts DEF EventSettled
  <2>3. CASE ~AlreadyApplied(o)
    <3>1. \E s : Apply(h, s)
      <4>1. CASE CreditCapturedTopUp(h)
        BY <1>7, <2>3, <4>1 DEF CreditCapturedTopUp
      <4>2. CASE ApplyVerifiedCreditPayment(h)
        BY <1>7, <2>3, <4>2 DEF ApplyVerifiedCreditPayment
      <4> QED BY <1>17, <4>1, <4>2 DEF Applies
    <3>2. credited'[o] = 1
      BY <1>1, <2>1, <2>3, <3>1 DEF Apply, TypeOK, AppliedOk, OrderApplied, AlreadyApplied
    <3> QED BY <1>16, <2>1, <3>2 DEF EventSettled
  <2> QED BY <2>2, <2>3
<1>18. CASE LoadPublic(h)
  <2>1. Status(o) \in Taken
    BY <1>1, <1>2, <1>18 DEF LoadPublic, TypeOK
  <2>2. o \in PublicPayments
    BY <1>1, <1>18 DEF LoadPublic, At, WellFormed, Public, Of
  <2> QED BY <1>16, <2>1, <2>2, TakenLasts DEF EventSettled, Status
<1>19. CASE ClaimFulfilment(h) \/ FinishBooking(h)
  <2>1. o \in PublicPayments /\ o \in Orders
    BY <1>1, <1>19, Kinds DEF ClaimFulfilment, FinishBooking, At, WellFormed,
       Public, Fulfilling, Of
  <2>2. CASE FinishBooking(h)
    BY <1>1, <1>14, <1>16, <2>1, <2>2 DEF FinishBooking, BothAre, SetStatus,
       TypeOK, EventSettled, Status, Taken
  <2>3. CASE ClaimFulfilment(h)
    <3>1. Status(o) = "BOOKED"
      BY <1>7, <1>13, <2>3 DEF ClaimFulfilment
    <3>2. Status(o) \in Taken
      BY <3>1 DEF Taken
    <3> QED BY <1>16, <2>1, <3>2, TakenLasts DEF EventSettled, Status
  <2> QED BY <1>19, <2>2, <2>3
<1>20. CASE Reports(h)
  BY <1>1, <1>4, <1>16, <1>20 DEF Reports, MarkFailed, RequoteBooking, At, WellFormed
<1>21. CASE Looks(h) /\ ~LoadPublic(h)
  <2>1. handler[h].pc \in Looking \/ SaveCaptured(h)
    BY <1>21 DEF Looks, Reconcile, ClaimVerification, LookUp, SaveOrderCreated,
       At, Looking
  <2>2. ~SaveCaptured(h)
    BY <1>12 DEF SaveCaptured
  <2> QED BY <1>1, <1>16, <2>1, <2>2, NoEventIsNone DEF WellFormed
<1>22. CASE CreateShipment(h)
  BY <1>13, <1>14, <1>22 DEF CreateShipment, Ship
<1>23. CASE FulfilmentFails(h) \/ RefundPayment(h)
  BY <1>7, <1>14, <1>23 DEF FulfilmentFails, RefundPayment
<1> QED BY <1>3, <1>4, <1>17, <1>18, <1>19, <1>20, <1>21, <1>22, <1>23 DEF
        HandlerStep, Fulfils

\* A receipt is only written PROCESSED by a request that is settled.
LEMMA ReceiptEffect ==
    ASSUME BasicInv, [Next]_vars, NEW e \in Events,
           receipt'[e] = "PROCESSED", receipt[e] # "PROCESSED"
    PROVE  \E h \in Handlers : At(h, "settled") /\ handler[h].event = e
<1>1. TypeOK /\ HandlersOk
  BY DEF BasicInv
<1>2. ASSUME NEW t \in Orders, OrderStep(t) \/ RazorpayStep(t) PROVE receipt' = receipt
  BY <1>2 DEF OrderStep, RazorpayStep, RequestTopUp, StampTopUp, InsertTopUp,
     ConfirmTopUp, RepeatTopUp, GoStale, OpenOrder, ReopenCheckout, AttemptFails,
     Authorise, AutoCapture, PortalKept
<1>3. ASSUME NEW h \in Handlers, RecordOutcome(h)
      PROVE  At(h, "settled") /\ handler[h].event = e
  <2>1. handler[h].event = e /\ Outcome(h) = "PROCESSED"
    BY <1>1, <1>3 DEF RecordOutcome, TypeOK
  <2> QED BY <2>1 DEF Outcome
<1>4. ASSUME NEW h \in Handlers, HandlerStep(h), ~RecordOutcome(h)
      PROVE  receipt' = receipt \/ \E x \in Events : receipt' = [receipt EXCEPT ![x] = "RECEIVED"]
  <2>1. CASE Reports(h)
    <3>1. CASE ReopenReceipt(h)
      <4>1. handler[h].event \in Events
        BY <1>1, <3>1 DEF HandlersOk, ReopenReceipt, At, WellFormed, Reporting
      <4> QED BY <3>1, <4>1 DEF ReopenReceipt
    <3> QED BY <1>4, <2>1, <3>1 DEF Reports, MarkFailed, RequoteBooking
  <2>2. CASE Begins(h)
    BY <2>2 DEF Begins, Deliver, VerifyCheckout, LookAtHistory, ConfirmPublic
  <2>3. CASE ~Reports(h) /\ ~Begins(h)
    BY <1>4, <2>3 DEF HandlerStep, Looks, Reconcile, ClaimVerification, LookUp,
       LoadPublic, SaveCaptured, SaveOrderCreated, Applies, CreditCapturedTopUp,
       ApplyVerifiedCreditPayment, Fulfils, ClaimFulfilment, CreateShipment,
       FinishBooking, FulfilmentFails, RefundPayment, Crash
  <2> QED BY <2>1, <2>2, <2>3
<1>5. ASSUME NEW x \in Events, receipt' = [receipt EXCEPT ![x] = "RECEIVED"]
      PROVE  FALSE
  BY <1>1, <1>5 DEF TypeOK
<1>6. receipt' # receipt
  OBVIOUS
<1> QED BY <1>1, <1>2, <1>3, <1>4, <1>5, <1>6, NextSteps DEF vars

LEMMA SettledNext == BasicInv /\ AppliedOk /\ SettledOk /\ [Next]_vars => SettledOk'
<1> SUFFICES ASSUME BasicInv, AppliedOk, SettledOk, [Next]_vars PROVE SettledOk'
  OBVIOUS
<1>1. TypeOK /\ HandlersOk
  BY DEF BasicInv
<1>2. HandlersOk'
  BY HandlersNext
<1>3. ASSUME NEW e \in Events, receipt'[e] = "PROCESSED", e.type # "failed"
      PROVE  EventSettled(e)'
  <2>1. EventSettled(e)
    <3>1. CASE receipt[e] = "PROCESSED"
      BY <1>3, <3>1 DEF SettledOk
    <3>2. CASE receipt[e] # "PROCESSED"
      BY <1>3, <3>2, ReceiptEffect DEF SettledOk
    <3> QED BY <3>1, <3>2
  <2> QED BY <2>1, SettledLasts
<1>4. ASSUME NEW g \in Handlers, At(g, "settled")', handler'[g].event.type # "failed"
      PROVE  EventSettled(handler[g].event)'
  <2>1. CASE handler'[g] = handler[g]
    <3>1. At(g, "settled") /\ EventSettled(handler[g].event) /\ handler[g].event \in Events
      BY <1>1, <1>4, <2>1 DEF At, SettledOk, HandlersOk, WellFormed, Reporting
    <3>2. EventSettled(handler[g].event) => \A e \in Events : e = handler[g].event => EventSettled(e)'
      BY SettledLasts
    <3> QED BY <2>1, <3>1, <3>2 DEF EventSettled, Status
  <2>2. ASSUME NEW h \in Handlers, HandlerStep(h), handler'[g] # handler[g]
        PROVE  EventSettled(handler[g].event)'
    BY <1>4, <2>2, OneMoves, BecomesSettled
  <2>3. ASSUME NEW o \in Orders, OrderStep(o) \/ RazorpayStep(o) PROVE handler' = handler
    BY <2>3 DEF OrderStep, RazorpayStep, RequestTopUp, StampTopUp, InsertTopUp,
       ConfirmTopUp, RepeatTopUp, GoStale, OpenOrder, ReopenCheckout, AttemptFails,
       Authorise, AutoCapture, PortalKept
  <2>4. CASE UNCHANGED vars
    BY <2>1, <2>4 DEF vars
  <2> QED BY <1>1, <2>1, <2>2, <2>3, <2>4, NextSteps
<1> QED BY <1>3, <1>4 DEF SettledOk

\* A captured payment whose webhook is answered for good has been applied or
\* is being fulfilled: Razorpay does not have to send it again.
THEOREM AnsweredForGood == Spec => []ProcessedIsSettled
<1>1. Init => BasicInv /\ AppliedOk /\ SettledOk
  <2>1. Init => SettledOk
    BY DEF Init, SettledOk, At, Idle
  <2> QED BY <2>1, BasicInit, AppliedInit
<1>2. BasicInv /\ AppliedOk /\ SettledOk /\ [Next]_vars
         => (BasicInv /\ AppliedOk /\ SettledOk)'
  BY BasicNext, AppliedNext, SettledNext
<1>3. SettledOk => ProcessedIsSettled
  BY DEF SettledOk, EventSettled, ProcessedIsSettled
<1> QED BY <1>1, <1>2, <1>3, PTL DEF Spec
-----------------------------------------------------------------------------
(* The shipment or the money.                                              *)

\* Only the steps of a fulfilment bring a request into one.
LEMMA NoOtherFulfils ==
    ASSUME BasicInv, NEW h \in Handlers, HandlerStep(h), ~Fulfils(h)
    PROVE  handler'[h].pc \notin Fulfilling \cup {"refund"}
<1>1. TypeOK
  BY DEF BasicInv
<1> DEFINE Out == {"idle", "fail", "credit", "load", "reopen", "reconcile", "fulfil",
                   "claim", "settled", "refused", "requote", "lookup", "capture",
                   "giveUp"}
<1>2. Out \subseteq Phases /\ Out \cap (Fulfilling \cup {"refund"}) = {}
  BY DEF Phases, Public, Paid, Reporting, Looking, Fulfilling
<1>3. ASSUME NEW pc \in Out, Goto(h, pc) PROVE handler'[h].pc \in Out
  BY <1>1, <1>2, <1>3, GotoTypes
<1>4. ASSUME handler' = [handler EXCEPT ![h] = Idle] PROVE handler'[h].pc \in Out
  BY <1>1, <1>4, IdleTypes DEF Idle
<1>5. Done(h) \/ Throw(h) => handler'[h].pc \in Out
  BY <1>3, <1>4 DEF Done, Throw, Leave
<1>6. ASSUME NEW pc \in Out, NEW o, NEW e, NEW loaded,
             handler' = [handler EXCEPT ![h] = [pc |-> pc, order |-> o,
                                                event |-> e, loaded |-> loaded]]
      PROVE  handler'[h].pc \in Out
  BY <1>1, <1>6 DEF TypeOK
<1>7. \A e \in Events : FirstStep(e) \in Out
  BY DEF FirstStep
<1>8. \A pc \in {"idle", "fail", "credit", "load", "reopen", "reconcile", "fulfil",
                 "claim", "settled", "refused", "requote", "lookup", "capture",
                 "giveUp"} : pc \in Out
  OBVIOUS
<1>9. CASE Begins(h)
  <2>1. \A e \in Events : Deliver(h, e) => handler'[h].pc \in Out
    <3>1. ASSUME NEW e \in Events, NEW pc \in Out, Begin(h, e, pc)
          PROVE  handler'[h].pc \in Out
      BY <1>1, <3>1 DEF Begin, TypeOK
    <3> HIDE DEF Out
    <3> QED BY <1>7, <1>8, <3>1 DEF Deliver
  <2>2. \A o \in orders : \/ VerifyCheckout(h, o) \/ LookAtHistory(h, o)
                          \/ ConfirmPublic(h, o)
                          => handler'[h].pc \in Out
    <3>1. \A pc \in Out : \A o, loaded : Start(h, o, pc, loaded) => handler'[h].pc \in Out
      BY <1>6 DEF Start
    <3> HIDE DEF Out
    <3> QED BY <1>8, <3>1 DEF VerifyCheckout, LookAtHistory, ConfirmPublic
  <2> HIDE DEF Out
  <2> QED BY <1>2, <1>9, <2>1, <2>2 DEF Begins
<1>10. CASE Reports(h)
  <2>1. ReopenReceipt(h) => handler[h].event \in Events
    BY DEF BasicInv, HandlersOk, ReopenReceipt, At, WellFormed, Reporting
  <2> HIDE DEF Out
  <2> QED BY <1>2, <1>3, <1>4, <1>5, <1>7, <1>8, <1>10, <2>1 DEF Reports,
          ReopenReceipt, RecordOutcome, MarkFailed, RequoteBooking
<1>11. CASE Looks(h)
  <2> HIDE DEF Out
  <2>1. CASE LoadPublic(h)
    BY <1>2, <1>5, <1>6, <1>8, <2>1 DEF LoadPublic
  <2> QED BY <1>2, <1>3, <1>5, <1>8, <1>11, <2>1 DEF Looks, Reconcile,
          ClaimVerification, LookUp, SaveCaptured, SaveOrderCreated
<1>12. CASE Applies(h)
  <2> HIDE DEF Out
  <2> QED BY <1>2, <1>5, <1>12 DEF Applies, CreditCapturedTopUp,
          ApplyVerifiedCreditPayment, Apply
<1>13. CASE Crash(h)
  BY <1>2, <1>4, <1>13 DEF Crash
<1> QED BY <1>9, <1>10, <1>11, <1>12, <1>13 DEF HandlerStep

\* A fulfilment touches the payment of its request only.
LEMMA FulfilsEffect ==
    ASSUME BasicInv, NEW h \in Handlers, Fulfils(h)
    PROVE  /\ Of(h) \in PublicPayments /\ Captured(Of(h))
           /\ handler'[h].order \in {Of(h), NoOrder}
           /\ UNCHANGED overtaken
           /\ \A o \in PublicPayments : o # Of(h) =>
                 /\ payment'[o] = payment[o] /\ shipment'[o] = shipment[o]
                 /\ gateway'[o].refunded = gateway[o].refunded
<1>1. TypeOK /\ WellFormed(handler[h]) /\ Backed(handler[h])
  BY DEF BasicInv, HandlersOk
<1>2. handler[h].pc \in Public \cap Paid
  BY DEF Fulfils, ClaimFulfilment, CreateShipment, FinishBooking,
     FulfilmentFails, RefundPayment, At, Public, Paid, Fulfilling
<1>3. Of(h) \in PublicPayments /\ Captured(Of(h)) /\ Of(h) \in Orders
  BY <1>1, <1>2, Kinds DEF WellFormed, Backed, Of
<1>4. handler'[h].order \in {Of(h), NoOrder}
  <2>1. Done(h) \/ Throw(h) \/ \E pc : Goto(h, pc)
    BY DEF Fulfils, ClaimFulfilment, CreateShipment, Ship, FinishBooking,
       FulfilmentFails, RefundPayment
  <2>2. (\E pc : Goto(h, pc)) \/ handler' = [handler EXCEPT ![h] = Idle]
    BY <2>1 DEF Done, Throw, Leave
  <2>3. ASSUME NEW pc, Goto(h, pc) PROVE handler'[h].order = Of(h)
    BY <1>1, <2>3 DEF Goto, TypeOK, HandlerType, Of
  <2>4. Idle.order = NoOrder
    BY DEF Idle
  <2> QED BY <1>1, <2>2, <2>3, <2>4, IdleTypes
<1>5. UNCHANGED overtaken
  BY DEF Fulfils, ClaimFulfilment, CreateShipment, FinishBooking,
     FulfilmentFails, RefundPayment, publicVars
<1>6. ASSUME NEW o \in PublicPayments, o # Of(h)
      PROVE  /\ payment'[o] = payment[o] /\ shipment'[o] = shipment[o]
             /\ gateway'[o].refunded = gateway[o].refunded
  <2>1. payment' = payment \/ \E state : SetStatus(Of(h), state)
    BY DEF Fulfils, ClaimFulfilment, CreateShipment, FinishBooking,
       FulfilmentFails, RefundPayment, BothAre
  <2>2. shipment' = shipment \/ \E state : shipment' = [shipment EXCEPT ![Of(h)] = state]
    BY DEF Fulfils, ClaimFulfilment, CreateShipment, Ship, FinishBooking,
       FulfilmentFails, RefundPayment
  <2>3. gateway' = gateway \/ gateway' = [gateway EXCEPT ![Of(h)].refunded = TRUE]
    BY DEF Fulfils, ClaimFulfilment, CreateShipment, FinishBooking,
       FulfilmentFails, RefundPayment
  <2>4. o \in Orders
    BY Kinds
  <2> QED BY <1>1, <1>6, <2>1, <2>2, <2>3, <2>4 DEF SetStatus, TypeOK
<1> QED BY <1>3, <1>4, <1>5, <1>6

\* Where nothing is fulfilled, what was shipped and refunded stays right.
LEMMA ShippingKept ==
    ASSUME BasicInv, ShippingOk, [Next]_vars, NEW o \in PublicPayments,
           shipment'[o] = shipment[o],
           gateway'[o].refunded = gateway[o].refunded,
           o \in overtaken => o \in overtaken',
           \/ payment'[o] = payment[o]
           \/ payment[o] \notin Taken /\ payment'[o] \notin Taken
           \/ o \in overtaken' /\ payment'[o] \notin Taken,
           \A g \in Handlers : \/ handler'[g] = handler[g]
                               \/ handler'[g].pc \notin Fulfilling \cup {"refund"}
                               \/ handler'[g].order # o
    PROVE  ShipmentOk(o)' /\ (o \notin overtaken' => FulfilmentOk(o)')
<1>1. ShipmentOk(o) /\ (o \notin overtaken => FulfilmentOk(o))
  BY DEF ShippingOk
<1>2. Captured(o) => Captured(o)'
  BY Lasting, Kinds DEF BasicInv
<1> DEFINE In(r) == r.order = o /\ r.pc \in Fulfilling \cup {"refund"}
<1>3. \A g \in Handlers : In(handler'[g]) => handler'[g] = handler[g]
  OBVIOUS
<1>4. ShipmentOk(o)'
  <2>1. shipment'[o] # "NONE" => Captured(o)'
    BY <1>1, <1>2 DEF ShipmentOk
  <2>2. payment'[o] = "BOOKED" => shipment'[o] = "COMPLETE"
    BY <1>1 DEF ShipmentOk, Status, Taken
  <2>3. ASSUME NEW h \in Handlers, handler'[h].order = o
        PROVE  /\ handler'[h].pc = "locked" => shipment[o] = "LOCKED"
               /\ handler'[h].pc = "recorded" => shipment[o] = "RECORDED"
               /\ handler'[h].pc = "booked" => shipment[o] = "COMPLETE"
    BY <1>1, <1>3, <2>3 DEF ShipmentOk, Fulfilling, At, Of
  <2>4. ASSUME NEW g \in Handlers, NEW h \in Handlers,
               handler'[g].order = o, handler'[h].order = o,
               handler'[g].pc \in {"locked", "recorded"},
               handler'[h].pc \in {"locked", "recorded"}
        PROVE  g = h
    BY <1>1, <1>3, <2>4 DEF ShipmentOk, Fulfilling, Of
  <2> QED BY <2>1, <2>2, <2>3, <2>4 DEF ShipmentOk, At, Of, Status
<1>5. ASSUME o \notin overtaken' PROVE FulfilmentOk(o)'
  <2>1. FulfilmentOk(o)
    BY <1>1, <1>5
  <2>2. payment'[o] = payment[o] \/ payment[o] \notin Taken
    BY <1>5
  <2>3. ASSUME NEW g \in Handlers, NEW h \in Handlers,
               In(handler'[g]), In(handler'[h])
        PROVE  g = h
    BY <1>3, <2>1, <2>3 DEF FulfilmentOk, Of
  <2>4. ASSUME NEW h \in Handlers, handler'[h].order = o
        PROVE  /\ handler'[h].pc \in Fulfilling =>
                     \/ payment'[o] = "FULFILLING"
                     \/ handler'[h].pc = "broken" /\ payment'[o] = "BOOKED"
               /\ handler'[h].pc = "refund" =>
                     payment'[o] = "REFUND_PENDING" /\ shipment[o] \notin {"RECORDED", "COMPLETE"}
    BY <1>3, <2>1, <2>2, <2>4 DEF FulfilmentOk, Of, At, Status, Durable, Taken
  <2>5. Durable(o) => payment'[o] \in {"FULFILLING", "BOOKED", "REVIEW_REQUIRED"}
    BY <2>1, <2>2 DEF FulfilmentOk, Status, Taken
  <2>6. gateway[o].refunded => payment'[o] \in {"REFUND_PENDING", "REFUNDED"}
    BY <2>1, <2>2 DEF FulfilmentOk, Status, Taken
  <2> QED BY <2>3, <2>4, <2>5, <2>6 DEF FulfilmentOk, Of, At, Status, Durable
<1> QED BY <1>4, <1>5

\* One request fulfils: what has to be shown of it and of the documents it
\* writes, when the other requests stay where they are.
LEMMA OneFulfils ==
    ASSUME BasicInv, ShippingOk, [Next]_vars, NEW h \in Handlers, HandlerStep(h),
           NEW o \in PublicPayments, o = Of(h), Captured(o), UNCHANGED overtaken,
           payment'[o] = "BOOKED" => shipment'[o] = "COMPLETE",
           handler'[h].order = o =>
              /\ handler'[h].pc = "locked" => shipment'[o] = "LOCKED"
              /\ handler'[h].pc = "recorded" => shipment'[o] = "RECORDED"
              /\ handler'[h].pc = "booked" => shipment'[o] = "COMPLETE",
           \/ shipment'[o] = shipment[o]
           \/ \A g \in Handlers \ {h} : Of(g) = o =>
                 handler[g].pc \notin {"locked", "recorded", "booked"},
           handler'[h].order = o /\ handler'[h].pc \in {"locked", "recorded"} =>
              \A g \in Handlers \ {h} : Of(g) = o =>
                 handler[g].pc \notin {"locked", "recorded"},
           o \notin overtaken =>
              /\ \A g \in Handlers \ {h} : Of(g) = o =>
                    handler[g].pc \notin Fulfilling \cup {"refund"}
              /\ handler'[h].order = o =>
                    /\ handler'[h].pc \in Fulfilling =>
                          \/ payment'[o] = "FULFILLING"
                          \/ handler'[h].pc = "broken" /\ payment'[o] = "BOOKED"
                    /\ handler'[h].pc = "refund" =>
                          /\ payment'[o] = "REFUND_PENDING"
                          /\ shipment'[o] \notin {"RECORDED", "COMPLETE"}
              /\ shipment'[o] \in {"RECORDED", "COMPLETE"} =>
                    payment'[o] \in {"FULFILLING", "BOOKED", "REVIEW_REQUIRED"}
              /\ gateway'[o].refunded => payment'[o] \in {"REFUND_PENDING", "REFUNDED"}
    PROVE  ShipmentOk(o)' /\ (o \notin overtaken' => FulfilmentOk(o)')
<1>1. ShipmentOk(o)
  BY DEF ShippingOk
<1>2. Captured(o)'
  BY Lasting, Kinds DEF BasicInv
<1>3. \A g \in Handlers \ {h} : handler'[g] = handler[g]
  BY OneMoves
<1>4. ShipmentOk(o)'
  <2>1. ASSUME NEW g \in Handlers, handler'[g].order = o
        PROVE  /\ handler'[g].pc = "locked" => shipment'[o] = "LOCKED"
               /\ handler'[g].pc = "recorded" => shipment'[o] = "RECORDED"
               /\ handler'[g].pc = "booked" => shipment'[o] = "COMPLETE"
    <3>1. CASE g = h
      BY <2>1, <3>1
    <3>2. CASE g # h
      BY <1>1, <1>3, <2>1, <3>2 DEF ShipmentOk, At, Of
    <3> QED BY <3>1, <3>2
  <2>2. ASSUME NEW g \in Handlers, NEW k \in Handlers,
               handler'[g].order = o, handler'[k].order = o,
               handler'[g].pc \in {"locked", "recorded"},
               handler'[k].pc \in {"locked", "recorded"}
        PROVE  g = k
    <3>1. CASE g = h \/ k = h
      BY <1>3, <2>2, <3>1 DEF Of
    <3>2. CASE g # h /\ k # h
      BY <1>1, <1>3, <2>2, <3>2 DEF ShipmentOk, Of
    <3> QED BY <3>1, <3>2
  <2> QED BY <1>2, <2>1, <2>2 DEF ShipmentOk, At, Of, Status
<1>5. ASSUME o \notin overtaken' PROVE FulfilmentOk(o)'
  <2>1. \A g \in Handlers : handler'[g].order = o
                              /\ handler'[g].pc \in Fulfilling \cup {"refund"} => g = h
    BY <1>3, <1>5 DEF Of
  <2> QED BY <1>5, <2>1 DEF FulfilmentOk, Of, At, Status, Durable
<1> QED BY <1>4, <1>5

\* Where a request that leaves is not: in the middle of a fulfilment.
LEMMA LeavesFulfilment ==
    ASSUME BasicInv, NEW h \in Handlers, Done(h) \/ Throw(h)
    PROVE  handler'[h].pc \notin Fulfilling \cup {"refund"}
<1>1. "settled" \in Phases /\ "refused" \in Phases
  BY DEF Phases, Reporting
<1>2. handler'[h].pc \in {"idle", "settled", "refused"}
  BY <1>1, LeaveTypes DEF BasicInv, Done, Throw, Idle
<1> QED BY <1>2 DEF Fulfilling

LEMMA FulfilOk ==
    ASSUME BasicInv, ShippingOk, [Next]_vars, NEW h \in Handlers, Fulfils(h),
           NEW o \in PublicPayments, o = Of(h)
    PROVE  ShipmentOk(o)' /\ (o \notin overtaken' => FulfilmentOk(o)')
<1>1. TypeOK /\ HandlerStep(h) /\ o \in Orders /\ Captured(o) /\ UNCHANGED overtaken
  BY FulfilsEffect, Kinds DEF BasicInv, HandlerStep
<1>2. ShipmentOk(o) /\ (o \notin overtaken => FulfilmentOk(o))
  BY DEF ShippingOk
<1>3. Status(o) = "BOOKED" => shipment[o] = "COMPLETE"
  BY <1>2 DEF ShipmentOk
<1>4. \A pc \in Fulfilling \cup {"refund"} : pc \in Phases
  BY DEF Phases, Public
<1>5. {"book", "locked", "recorded", "booked", "broken"} = Fulfilling /\ "refund" \notin Fulfilling
  BY DEF Fulfilling
<1>6. o \notin overtaken /\ handler[h].pc \in Fulfilling \cup {"refund"} =>
         /\ \A g \in Handlers \ {h} : Of(g) = o =>
               handler[g].pc \notin Fulfilling \cup {"refund"}
         /\ handler[h].pc \in Fulfilling =>
               /\ Status(o) = "FULFILLING" \/ (At(h, "broken") /\ Status(o) = "BOOKED")
               /\ ~gateway[o].refunded
         /\ At(h, "refund") => Status(o) = "REFUND_PENDING" /\ ~Durable(o)
  BY <1>2 DEF FulfilmentOk
<1>7. CASE ClaimFulfilment(h)
  <2>1. shipment' = shipment /\ gateway' = gateway
    BY <1>7 DEF ClaimFulfilment
  <2>2. CASE Status(o) = "CAPTURED" /\ BothAre(o, "FULFILLING") /\ Goto(h, "book")
    <3>1. payment'[o] = "FULFILLING"
      BY <1>1, <2>2 DEF BothAre, SetStatus, TypeOK
    <3>2. handler'[h].pc = "book"
      BY <1>1, <1>4, <1>5, <2>2, GotoTypes
    <3>3. o \notin overtaken =>
            /\ \A g \in Handlers \ {h} : Of(g) = o =>
                  handler[g].pc \notin Fulfilling \cup {"refund"}
            /\ ~gateway[o].refunded
      BY <1>2, <2>2 DEF FulfilmentOk, At
    <3> QED BY <1>1, <1>5, <2>1, <3>1, <3>2, <3>3, OneFulfils
  <2>3. CASE (Done(h) \/ Throw(h)) /\ payment' = payment
    <3>1. handler'[h].pc \notin Fulfilling \cup {"refund"}
      BY <2>3, LeavesFulfilment
    <3>2. \A g \in Handlers \ {h} : handler'[g] = handler[g]
      BY <1>1, OneMoves
    <3> QED BY <1>1, <2>1, <2>3, <3>1, <3>2, ShippingKept
  <2> QED BY <1>7, <2>2, <2>3 DEF ClaimFulfilment
<1>8. CASE CreateShipment(h)
  <2>1. payment' = payment /\ gateway' = gateway /\ handler[h].pc \in Fulfilling
    BY <1>5, <1>8 DEF CreateShipment, At
  <2>2. ASSUME NEW state, NEW pc \in Fulfilling, Ship(h, state, pc)
        PROVE  shipment'[o] = state /\ handler'[h].pc = pc
    BY <1>1, <1>4, <2>2, GotoTypes DEF Ship, TypeOK
  <2>3. ASSUME NEW state, NEW pc \in Fulfilling, Ship(h, state, pc),
               payment[o] = "BOOKED" => state = "COMPLETE",
               pc = "locked" => state = "LOCKED",
               pc = "recorded" => state = "RECORDED",
               pc = "booked" => state = "COMPLETE",
               \/ state = shipment[o]
               \/ \A g \in Handlers \ {h} : Of(g) = o =>
                     handler[g].pc \notin {"locked", "recorded", "booked"},
               pc \in {"locked", "recorded"} =>
                  \A g \in Handlers \ {h} : Of(g) = o =>
                     handler[g].pc \notin {"locked", "recorded"}
        PROVE  ShipmentOk(o)' /\ (o \notin overtaken' => FulfilmentOk(o)')
    <3>1. shipment'[o] = state /\ handler'[h].pc = pc
      BY <2>2, <2>3
    <3>2. o \notin overtaken =>
            /\ \A g \in Handlers \ {h} : Of(g) = o =>
                  handler[g].pc \notin Fulfilling \cup {"refund"}
            /\ payment[o] = "FULFILLING" /\ ~gateway[o].refunded
      BY <1>6, <1>8, <2>1 DEF Status, CreateShipment, At
    <3> QED BY <1>1, <1>5, <2>1, <2>3, <3>1, <3>2, OneFulfils
  <2>4. \A g \in Handlers \ {h} : Of(g) = o =>
           /\ shipment[o] = "NONE" => handler[g].pc \notin {"locked", "recorded", "booked"}
           /\ At(h, "locked") \/ At(h, "recorded") =>
                 handler[g].pc \notin {"locked", "recorded", "booked"}
    BY <1>2 DEF ShipmentOk, At
  <2>5. /\ At(h, "locked") => shipment[o] = "LOCKED"
        /\ At(h, "recorded") => shipment[o] = "RECORDED"
    BY <1>2 DEF ShipmentOk
  <2>6. CASE At(h, "book")
    <3>1. CASE shipment[o] = "NONE" /\ Ship(h, "LOCKED", "locked")
      BY <1>3, <1>5, <2>3, <2>4, <3>1 DEF Status
    <3>2. CASE shipment[o] = "COMPLETE" /\ Ship(h, "COMPLETE", "booked")
      BY <1>5, <2>3, <3>2
    <3>3. CASE shipment[o] \in {"LOCKED", "RECORDED"} /\ Ship(h, shipment[o], "broken")
      BY <1>3, <1>5, <2>3, <3>3 DEF Status
    <3> QED BY <1>8, <2>6, <3>1, <3>2, <3>3 DEF CreateShipment, At
  <2>7. CASE At(h, "locked")
    <3>1. CASE Ship(h, "RECORDED", "recorded")
      BY <1>3, <1>5, <2>3, <2>4, <2>5, <2>7, <3>1 DEF Status
    <3>2. CASE Ship(h, "NONE", "broken")
      BY <1>3, <1>5, <2>3, <2>4, <2>5, <2>7, <3>2 DEF Status
    <3> QED BY <1>8, <2>7, <3>1, <3>2 DEF CreateShipment, At
  <2>8. CASE At(h, "recorded")
    <3>1. CASE Ship(h, "COMPLETE", "booked")
      BY <1>3, <1>5, <2>3, <2>4, <2>5, <2>8, <3>1 DEF Status
    <3>2. CASE Ship(h, "RECORDED", "broken")
      BY <1>3, <1>5, <2>3, <2>4, <2>5, <2>8, <3>2 DEF Status
    <3> QED BY <1>8, <2>8, <3>1, <3>2 DEF CreateShipment, At
  <2> QED BY <1>8, <2>6, <2>7, <2>8 DEF CreateShipment
<1>9. CASE FinishBooking(h)
  <2>1. shipment' = shipment /\ gateway' = gateway
    BY <1>9 DEF FinishBooking
  <2>2. shipment[o] = "COMPLETE" /\ handler[h].pc \in Fulfilling
    BY <1>2, <1>5, <1>9 DEF FinishBooking, ShipmentOk, At
  <2>3. payment'[o] = "BOOKED" \/ payment' = payment
    BY <1>1, <1>9 DEF FinishBooking, BothAre, SetStatus, TypeOK
  <2>4. CASE BothAre(o, "BOOKED") /\ Done(h)
    <3>1. payment'[o] = "BOOKED"
      BY <1>1, <2>4 DEF BothAre, SetStatus, TypeOK
    <3>2. handler'[h].pc \notin Fulfilling \cup {"refund"}
      BY <2>4, LeavesFulfilment
    <3> QED BY <1>1, <1>5, <1>6, <2>1, <2>2, <3>1, <3>2, OneFulfils
  <2>5. CASE Goto(h, "broken")
    <3>1. handler'[h].pc = "broken"
      BY <1>1, <1>4, <1>5, <2>5, GotoTypes
    <3>2. o \notin overtaken => payment'[o] \in {"FULFILLING", "BOOKED"}
      BY <1>6, <2>2, <2>3 DEF Status
    <3> QED BY <1>1, <1>3, <1>5, <1>6, <2>1, <2>2, <2>3, <3>1, <3>2, OneFulfils DEF Status
  <2> QED BY <1>9, <2>4, <2>5 DEF FinishBooking
<1>10. CASE FulfilmentFails(h)
  <2>1. shipment' = shipment /\ gateway' = gateway /\ handler[h].pc \in Fulfilling
    BY <1>5, <1>10 DEF FulfilmentFails, At
  <2>2. CASE Durable(o) /\ BothAre(o, "REVIEW_REQUIRED") /\ Throw(h)
    <3>1. payment'[o] = "REVIEW_REQUIRED"
      BY <1>1, <2>2 DEF BothAre, SetStatus, TypeOK
    <3>2. handler'[h].pc \notin Fulfilling \cup {"refund"}
      BY <2>2, LeavesFulfilment
    <3> QED BY <1>1, <1>5, <1>6, <2>1, <3>1, <3>2, OneFulfils
  <2>3. CASE ~Durable(o) /\ BothAre(o, "REFUND_PENDING") /\ Goto(h, "refund")
    <3>1. payment'[o] = "REFUND_PENDING"
      BY <1>1, <2>3 DEF BothAre, SetStatus, TypeOK
    <3>2. handler'[h].pc = "refund"
      BY <1>1, <1>4, <2>3, GotoTypes
    <3> QED BY <1>1, <1>5, <1>6, <2>1, <2>3, <3>1, <3>2, OneFulfils DEF Durable
  <2> QED BY <1>10, <2>2, <2>3 DEF FulfilmentFails
<1>11. CASE RefundPayment(h)
  <2>1. shipment' = shipment /\ At(h, "refund") /\ handler[h].pc = "refund"
    BY <1>11 DEF RefundPayment, At
  <2>2. payment'[o] = payment[o] \/ payment'[o] = "REFUNDED"
    BY <1>1, <1>11 DEF RefundPayment, BothAre, SetStatus, TypeOK
  <2>3. handler'[h].pc \notin Fulfilling \cup {"refund"}
    BY <1>11, LeavesFulfilment DEF RefundPayment
  <2>4. o \notin overtaken => payment[o] = "REFUND_PENDING" /\ ~Durable(o)
    BY <1>6, <2>1 DEF Status
  <2> QED BY <1>1, <1>3, <1>5, <1>6, <2>1, <2>2, <2>3, <2>4, OneFulfils DEF Durable, Status
<1> QED BY <1>7, <1>8, <1>9, <1>10, <1>11 DEF Fulfils

LEMMA ShippingInit == Init => ShippingOk
BY DEF Init, ShippingOk, ShipmentOk, FulfilmentOk, Idle, At, Of, Status, Durable,
   NotPaid, Fulfilling, Orders

LEMMA ShippingNext == BasicInv /\ ShippingOk /\ [Next]_vars => ShippingOk'
<1> SUFFICES ASSUME BasicInv, ShippingOk, [Next]_vars, NEW o \in PublicPayments
             PROVE  ShipmentOk(o)' /\ (o \notin overtaken' => FulfilmentOk(o)')
  BY DEF ShippingOk
<1>1. TypeOK /\ o \in Orders /\ o \notin TopUps
  BY Kinds DEF BasicInv
<1>2. o \in overtaken => o \in overtaken'
  BY TakenLasts
<1>3. ASSUME NEW t \in Orders, OrderStep(t) \/ RazorpayStep(t)
      PROVE  ShipmentOk(o)' /\ (o \notin overtaken' => FulfilmentOk(o)')
  <2>1. handler' = handler /\ shipment' = shipment
    BY <1>3 DEF OrderStep, RazorpayStep, RequestTopUp, StampTopUp, InsertTopUp,
       ConfirmTopUp, RepeatTopUp, GoStale, OpenOrder, ReopenCheckout, AttemptFails,
       Authorise, AutoCapture, PortalKept, publicVars
  <2>2. payment'[o] # payment[o] => payment[o] \notin Taken /\ payment'[o] \notin Taken
    BY <1>3, PublicOpens DEF Taken
  <2>3. \/ gateway' = gateway
        \/ gateway' = [gateway EXCEPT ![t].failed = TRUE]
        \/ \E paid : gateway' = [gateway EXCEPT ![t].paid = paid]
    BY <1>3 DEF OrderStep, RazorpayStep, RequestTopUp, StampTopUp, InsertTopUp,
       ConfirmTopUp, RepeatTopUp, GoStale, OpenOrder, ReopenCheckout, AttemptFails,
       Authorise, AutoCapture
  <2>4. gateway'[o].refunded = gateway[o].refunded
    <3>1. gateway \in [Orders -> GatewayType]
      BY <1>1 DEF TypeOK
    <3> QED BY <1>1, <2>3, <3>1 DEF GatewayType
  <2> QED BY <1>2, <2>1, <2>2, <2>4, ShippingKept
<1>4. ASSUME NEW h \in Handlers, Fulfils(h)
      PROVE  ShipmentOk(o)' /\ (o \notin overtaken' => FulfilmentOk(o)')
  <2>1. CASE Of(h) = o
    BY <1>4, <2>1, FulfilOk
  <2>2. CASE Of(h) # o
    <3>1. o # NoOrder
      BY <1>1, PaymentsAssumption
    <3>2. handler'[h].order # o
      BY <1>4, <2>2, <3>1, FulfilsEffect
    <3>3. \A g \in Handlers \ {h} : handler'[g] = handler[g]
      BY <1>4, OneMoves DEF HandlerStep
    <3> QED BY <1>2, <1>4, <2>2, <3>2, <3>3, FulfilsEffect, ShippingKept
  <2> QED BY <2>1, <2>2
<1>5. ASSUME NEW h \in Handlers, HandlerStep(h), ~Fulfils(h)
      PROVE  ShipmentOk(o)' /\ (o \notin overtaken' => FulfilmentOk(o)')
  <2>1. \A g \in Handlers : \/ handler'[g] = handler[g]
                            \/ handler'[g].pc \notin Fulfilling \cup {"refund"}
    BY <1>5, OneMoves, NoOtherFulfils
  <2>2. shipment'[o] = shipment[o] /\ gateway'[o].refunded = gateway[o].refunded
    <3>1. CASE MarkFailed(h) \/ ClaimVerification(h) \/ SaveCaptured(h) \/ SaveOrderCreated(h)
      BY <3>1 DEF MarkFailed, ClaimVerification, SaveCaptured, SaveOrderCreated, publicVars
    <3> QED BY <1>1, <1>5, <3>1, PublicWriters
  <2>3. \/ payment'[o] = payment[o]
        \/ payment[o] \notin Taken /\ payment'[o] \notin Taken
        \/ o \in overtaken' /\ payment'[o] \notin Taken
    <3>1. CASE payment'[o] # payment[o]
      <4>1. payment'[o] \notin Taken
        BY <1>5, <3>1, PublicMoves DEF Taken
      <4> QED BY <3>1, <4>1, TakenLasts DEF Status
    <3> QED BY <3>1
  <2> QED BY <1>2, <2>1, <2>2, <2>3, ShippingKept
<1>6. CASE UNCHANGED vars
  BY <1>6, ShippingKept DEF vars
<1> QED BY <1>1, <1>3, <1>4, <1>5, <1>6, NextSteps

\* A customer who paid for a public booking gets the shipment or the money,
\* never both, unless a stale document was saved over the payment.
THEOREM ShipmentOrMoney == Spec => []ShippedOrRefunded
<1>1. Init => BasicInv /\ ShippingOk
  BY BasicInit, ShippingInit
<1>2. BasicInv /\ ShippingOk /\ [Next]_vars => (BasicInv /\ ShippingOk)'
  BY BasicNext, ShippingNext
<1>3. ShippingOk => ShippedOrRefunded
  BY DEF ShippingOk, ShipmentOk, FulfilmentOk, Durable, ShippedOrRefunded
<1> QED BY <1>1, <1>2, <1>3, PTL DEF Spec
-----------------------------------------------------------------------------
(* The daily limit.                                                        *)

\* Documents of top-ups under creation are written by their own steps only;
\* a top-up that stopped counting does not count again.
LEMMA CreationEffect ==
    ASSUME BasicInv, [Next]_vars
    PROVE  /\ lapsed \subseteq lapsed'
           /\ crossed => crossed'
           /\ \/ UNCHANGED <<creating, createdAt, crossed>>
              \/ \E o \in TopUps : OrderStep(o)
<1>1. TypeOK
  BY DEF BasicInv
<1>2. ASSUME NEW o \in Orders, OrderStep(o)
      PROVE  /\ lapsed \subseteq lapsed' /\ (crossed => crossed')
             /\ UNCHANGED <<creating, createdAt, crossed>> \/ o \in TopUps
  <2>1. CASE InsertTopUp(o)
    <3>1. crossed => crossed'
      BY <2>1, Zenon DEF InsertTopUp
    <3> QED BY <2>1, <3>1 DEF InsertTopUp
  <2>2. CASE ~InsertTopUp(o)
    BY <1>2, <2>2 DEF OrderStep, RequestTopUp, StampTopUp, ConfirmTopUp, RepeatTopUp, GoStale,
       OpenOrder, ReopenCheckout, creationVars
  <2> QED BY <2>1, <2>2
<1>3. ASSUME NEW o \in Orders, RazorpayStep(o)
      PROVE  lapsed' = lapsed /\ UNCHANGED <<creating, createdAt, crossed>>
  BY <1>3 DEF RazorpayStep, AttemptFails, Authorise, AutoCapture, PortalKept,
     creationVars
<1>4. ASSUME NEW h \in Handlers, HandlerStep(h)
      PROVE  lapsed \subseteq lapsed' /\ UNCHANGED <<creating, createdAt, crossed>>
  BY <1>4 DEF HandlerStep, Begins, Deliver, VerifyCheckout, LookAtHistory,
     ConfirmPublic, Reports, ReopenReceipt, RecordOutcome, MarkFailed,
     RequoteBooking, Looks, Reconcile, ClaimVerification, LookUp, LoadPublic,
     SaveCaptured, SaveOrderCreated, Applies, CreditCapturedTopUp,
     ApplyVerifiedCreditPayment, Fulfils, ClaimFulfilment, CreateShipment,
     FinishBooking, FulfilmentFails, RefundPayment, Crash, creationVars
<1>5. CASE UNCHANGED vars
  BY <1>5 DEF vars
<1> QED BY <1>1, <1>2, <1>3, <1>4, <1>5, NextSteps

LEMMA TopUpsFinite == IsFiniteSet(TopUps)
<1>1. TopUps \subseteq Orders
  BY DEF Orders
<1> QED BY <1>1, PaymentsAssumption, FS_Subset

LEMMA StampsInit == Init => StampsOk
<1> SUFFICES ASSUME Init PROVE StampsOk
  OBVIOUS
<1>1. Stamped = {}
  BY DEF Init, Stamped
<1> QED BY <1>1, FS_EmptySet DEF Init, StampsOk

LEMMA StampsNext == BasicInv /\ StampsOk /\ [Next]_vars => StampsOk'
<1> SUFFICES ASSUME BasicInv, StampsOk, [Next]_vars PROVE StampsOk'
  OBVIOUS
<1>1. TypeOK /\ Stamped \subseteq TopUps
  BY DEF BasicInv, Stamped
<1>2. IsFiniteSet(Stamped) /\ Cardinality(Stamped) \in Nat
  BY <1>1, TopUpsFinite, FS_Subset, FS_CardinalityType
<1>3. CASE UNCHANGED <<creating, createdAt>>
  <2>1. Stamped' = Stamped
    BY <1>3 DEF Stamped
  <2> QED BY <1>3, <2>1 DEF StampsOk
<1>4. ASSUME NEW o \in TopUps, OrderStep(o), ~StampTopUp(o) PROVE StampsOk'
  <2>1. /\ createdAt' = createdAt
        /\ \/ creating' = creating
           \/ creating[o] = "no" /\ creating' = [creating EXCEPT ![o] = "ordered"]
           \/ /\ creating[o] \notin {"no", "ordered"}
              /\ \E c \in {"landed", "refused", "offered"} :
                    creating' = [creating EXCEPT ![o] = c]
    BY <1>4 DEF OrderStep, RequestTopUp, InsertTopUp, ConfirmTopUp, RepeatTopUp, GoStale,
       OpenOrder, ReopenCheckout, creationVars
  <2>2. Stamped' = Stamped
    BY <2>1 DEF Stamped
  <2>3. \A t \in TopUps : creating'[t] \in {"no", "ordered"} <=> creating[t] \in {"no", "ordered"}
    BY <1>1, <2>1 DEF TypeOK
  <2> QED BY <2>1, <2>2, <2>3 DEF StampsOk
<1>5. ASSUME NEW o \in TopUps, StampTopUp(o) PROVE StampsOk'
  <2> DEFINE n == Cardinality(Stamped)
  <2>1. createdAt[o] = 0 /\ o \notin Stamped
    BY <1>5 DEF StampTopUp, StampsOk, Stamped
  <2>2. createdAt' = [createdAt EXCEPT ![o] = 1 + n] /\ creating' = [creating EXCEPT ![o] = "stamped"]
    BY <1>5 DEF StampTopUp, Stamped
  <2>3. n \in Nat /\ \A t \in TopUps : /\ createdAt[t] <= n /\ createdAt[t] \in Nat
    BY <1>1, <1>2 DEF StampsOk, TypeOK
  <2> HIDE DEF n
  <2>4. \A t \in TopUps : createdAt'[t] = IF t = o THEN 1 + n ELSE createdAt[t]
    BY <1>1, <2>2 DEF TypeOK
  <2>5. Stamped' = Stamped \cup {o}
    BY <2>3, <2>4 DEF Stamped
  <2>6. Cardinality(Stamped') = n + 1
    <3>1. \A S, x : IsFiniteSet(S) /\ x \notin S => Cardinality(S \cup {x}) = Cardinality(S) + 1
      BY FS_AddElement
    <3> QED BY <1>2, <2>1, <2>5, <3>1 DEF n
  <2>7. \A t \in TopUps : /\ createdAt'[t] = 0 <=> creating'[t] \in {"no", "ordered"}
                          /\ createdAt'[t] <= n + 1
    BY <1>1, <2>2, <2>3, <2>4 DEF StampsOk, TypeOK
  <2>8. \A s, t \in Stamped' : createdAt'[s] = createdAt'[t] => s = t
    BY <1>1, <2>3, <2>4, <2>5 DEF StampsOk
  <2> QED BY <2>6, <2>7, <2>8 DEF StampsOk
<1> QED BY <1>1, <1>3, <1>4, <1>5, CreationEffect

\* A top-up becomes an offer by being confirmed, and by nothing else.
LEMMA NewlyConfirmed ==
    ASSUME BasicInv, [Next]_vars, NEW t \in TopUps, ~Confirmed(t), Confirmed(t)'
    PROVE  /\ creating[t] = "landed" /\ creating' = [creating EXCEPT ![t] = "offered"]
           /\ UNCHANGED <<createdAt, payment, lapsed, crossed>>
           /\ ~(Used(Competing(t)) > DailyLimit)
<1>1. TypeOK
  BY DEF BasicInv
<1>2. creating' # creating
  BY DEF Confirmed
<1>3. PICK o \in TopUps : OrderStep(o)
  BY <1>2, CreationEffect
<1>4. o = t /\ ConfirmTopUp(t)
  BY <1>1, <1>3 DEF OrderStep, RequestTopUp, StampTopUp, InsertTopUp,
     ConfirmTopUp, RepeatTopUp, GoStale, OpenOrder, ReopenCheckout, creationVars, Confirmed, TypeOK
<1> QED BY <1>1, <1>4 DEF ConfirmTopUp, Confirmed, TypeOK

\* A top-up that takes part in the limit is one the check of another counts.
LEMMA LiveCounts ==
    ASSUME BasicInv, AppliedOk, NEW r \in TopUps, Counts(r)
    PROVE  r \in Rows /\ CountsToday(r)
<1>1. TopUpOk(r) /\ OrderApplied(r)
  BY Kinds DEF BasicInv, TopUpsOk, AppliedOk
<1>2. Status(r) \in Unapplied \cup {"CAPTURED"}
  BY <1>1, Kinds DEF OrderApplied
<1> QED BY <1>1, <1>2 DEF Counts, TopUpOk, Confirmed, Rows, CountsToday, Unapplied

\* Beside a confirmed top-up nothing starts to count, unless it lands late.
LEMMA BesideShrinks ==
    ASSUME BasicInv, StampsOk, [Next]_vars, ~crossed', NEW t \in TopUps, Confirmed(t)
    PROVE  Beside(t)' \subseteq Beside(t)
<1>1. TypeOK /\ lapsed \subseteq lapsed'
  BY CreationEffect DEF BasicInv
<1>2. creating[t] = "offered"
  BY DEF Confirmed
<1>3. CASE UNCHANGED <<creating, createdAt>>
  BY <1>1, <1>3 DEF Beside, Counts
<1>4. ASSUME NEW o \in TopUps, InsertTopUp(o) PROVE Beside(t)' \subseteq Beside(t)
  <2>1. creating' = [creating EXCEPT ![o] = "landed"] /\ UNCHANGED <<createdAt, lapsed>>
        /\ creating[o] = "stamped"
    BY <1>4 DEF InsertTopUp
  <2>2. createdAt[o] > createdAt[t]
    <3>1. t \in Rows
      BY DEF Rows, BasicInv, TopUpsOk, TopUpOk, Confirmed
    <3>2. ~(createdAt[t] > createdAt[o])
      <4>1. ~(crossed \/ \E x \in Rows : createdAt[x] > createdAt[o])
        BY <1>4 DEF InsertTopUp
      <4> QED BY <3>1, <4>1
    <3>3. t \in Stamped /\ o \in Stamped /\ o # t
      BY <1>2, <2>1 DEF StampsOk, Stamped
    <3>4. createdAt[t] # createdAt[o]
      BY <3>3 DEF StampsOk
    <3> QED BY <1>1, <3>2, <3>4 DEF TypeOK
  <2>3. ASSUME NEW r \in Beside(t)' PROVE r \in Beside(t)
    <3>1. r \in TopUps /\ createdAt[r] <= createdAt[t]
      BY <2>1 DEF Beside
    <3>2. r # o /\ creating'[r] = creating[r]
      BY <1>1, <2>1, <2>2, <3>1 DEF TypeOK
    <3> QED BY <2>1, <3>1, <3>2 DEF Beside, Counts, Confirmed
  <2> QED BY <2>3
<1>5. ASSUME NEW o \in TopUps, OrderStep(o), ~InsertTopUp(o)
      PROVE  Beside(t)' \subseteq Beside(t)
  <2>1. \A r \in TopUps : Counts(r)' => Counts(r) /\ creating'[r] # "stamped"
    BY <1>1, <1>5 DEF OrderStep, RequestTopUp, StampTopUp, ConfirmTopUp, RepeatTopUp, GoStale,
       OpenOrder, ReopenCheckout, creationVars, Counts, Confirmed, TypeOK
  <2>2. \A r \in TopUps : createdAt'[r] = createdAt[r] \/ (creating[r] = "ordered" /\ creating'[r] = "stamped")
    BY <1>1, <1>5 DEF OrderStep, RequestTopUp, StampTopUp, ConfirmTopUp, RepeatTopUp, GoStale,
       OpenOrder, ReopenCheckout, creationVars, TypeOK
  <2>3. createdAt'[t] = createdAt[t]
    BY <1>2, <2>2
  <2> QED BY <2>1, <2>2, <2>3 DEF Beside
<1> QED BY <1>3, <1>4, <1>5, CreationEffect

LEMMA DailyInit == Init => DailyOk
BY DEF Init, DailyOk, Confirmed

LEMMA DailyNext ==
    BasicInv /\ AppliedOk /\ StampsOk /\ DailyOk /\ [Next]_vars => DailyOk'
<1> SUFFICES ASSUME BasicInv, AppliedOk, StampsOk, DailyOk, [Next]_vars PROVE DailyOk'
  OBVIOUS
<1>1. TypeOK /\ (crossed => crossed')
  BY CreationEffect DEF BasicInv
<1>2. \A t \in TopUps : t \in Orders /\ (Confirmed(t) => Confirmed(t)')
  <2>1. ASSUME NEW o \in TopUps, OrderStep(o), NEW t \in TopUps, Confirmed(t)
        PROVE  Confirmed(t)'
    BY <1>1, <2>1 DEF OrderStep, RequestTopUp, StampTopUp, InsertTopUp,
       ConfirmTopUp, RepeatTopUp, GoStale, OpenOrder, ReopenCheckout, creationVars,
       Confirmed, TypeOK
  <2>2. CASE creating' = creating
    BY <2>2, Kinds DEF Confirmed
  <2> QED BY <2>1, <2>2, CreationEffect, Kinds
<1>3. \/ \A t \in TopUps : ~Confirmed(t)'
      \/ \E t \in TopUps : /\ Confirmed(t)'
                           /\ \A r \in TopUps : Confirmed(r)' => createdAt'[r] <= createdAt'[t]
  <2>1. CASE \E o \in TopUps : ~Confirmed(o) /\ Confirmed(o)'
    <3>1. PICK o \in TopUps : ~Confirmed(o) /\ Confirmed(o)'
      BY <2>1
    <3>2. createdAt' = createdAt /\ creating' = [creating EXCEPT ![o] = "offered"]
      BY <3>1, NewlyConfirmed
    <3>3. \A r \in TopUps : Confirmed(r)' => Confirmed(r) \/ r = o
      BY <1>1, <3>2 DEF Confirmed, TypeOK
    <3>4. CASE \A t \in TopUps : ~Confirmed(t)
      BY <1>1, <3>1, <3>2, <3>3, <3>4 DEF TypeOK
    <3>5. ASSUME NEW t \in TopUps, Confirmed(t),
                 \A r \in TopUps : Confirmed(r) => createdAt[r] <= createdAt[t]
          PROVE  \E x \in TopUps : /\ Confirmed(x)'
                    /\ \A r \in TopUps : Confirmed(r)' => createdAt'[r] <= createdAt'[x]
      <4> DEFINE later == IF createdAt[t] <= createdAt[o] THEN o ELSE t
      <4>1. later \in TopUps /\ Confirmed(later)'
        BY <1>2, <3>1, <3>5
      <4>2. \A r \in TopUps : createdAt[r] \in Nat
        BY <1>1 DEF TypeOK
      <4>3. \A r \in TopUps : Confirmed(r)' => createdAt[r] <= createdAt[later]
        BY <3>3, <3>5, <4>2
      <4> QED BY <3>2, <4>1, <4>3
    <3> QED BY <3>4, <3>5 DEF DailyOk
  <2>2. CASE \A o \in TopUps : Confirmed(o)' => Confirmed(o)
    <3>1. \A t \in TopUps : Confirmed(t) => createdAt'[t] = createdAt[t]
      <4>1. ASSUME NEW o \in TopUps, OrderStep(o), NEW t \in TopUps, Confirmed(t)
            PROVE  createdAt'[t] = createdAt[t]
        BY <1>1, <4>1 DEF OrderStep, RequestTopUp, StampTopUp, InsertTopUp,
           ConfirmTopUp, RepeatTopUp, GoStale, OpenOrder, ReopenCheckout, creationVars,
           Confirmed, TypeOK
      <4> QED BY <4>1, CreationEffect
    <3>2. CASE \A t \in TopUps : ~Confirmed(t)
      BY <2>2, <3>2
    <3>3. ASSUME NEW t \in TopUps, Confirmed(t),
                 \A r \in TopUps : Confirmed(r) => createdAt[r] <= createdAt[t]
          PROVE  \E x \in TopUps : /\ Confirmed(x)'
                    /\ \A r \in TopUps : Confirmed(r)' => createdAt'[r] <= createdAt'[x]
      BY <1>2, <2>2, <3>1, <3>3
    <3> QED BY <3>2, <3>3 DEF DailyOk
  <2> QED BY <2>1, <2>2
<1>4. \A r \in TopUps : Amount[r] \in Nat
  BY PaymentsAssumption
<1>5. ASSUME ~crossed', NEW t \in TopUps, Confirmed(t)'
      PROVE  Total(Beside(t)', Amount) <= DailyLimit
  <2>1. PICK S \in SUBSET TopUps : Beside(t)' \subseteq S /\ Total(S, Amount) <= DailyLimit
    <3>1. CASE Confirmed(t)
      <4>1. Beside(t) \subseteq TopUps /\ Beside(t)' \subseteq Beside(t)
        BY <1>5, <3>1, BesideShrinks DEF Beside
      <4>2. Total(Beside(t), Amount) <= DailyLimit
        BY <1>1, <1>5, <3>1 DEF DailyOk
      <4> QED BY <4>1, <4>2
    <3>2. CASE ~Confirmed(t)
      <4> DEFINE S == {r \in Competing(t) : CountsToday(r)}
      <4>1. /\ creating[t] = "landed" /\ creating' = [creating EXCEPT ![t] = "offered"]
            /\ UNCHANGED <<createdAt, payment, lapsed>>
            /\ ~(Total(S, Amount) > DailyLimit)
        BY <1>5, <3>2, NewlyConfirmed DEF Used
      <4>2. \A r \in TopUps : Counts(r)' => Counts(r)
        BY <1>1, <4>1 DEF Counts, Confirmed, TypeOK
      <4>3. Beside(t)' \subseteq S
        BY <4>1, <4>2, LiveCounts DEF Beside, Competing
      <4>4. S \subseteq TopUps
        BY DEF Competing, Rows
      <4>5. Total(S, Amount) \in Nat /\ DailyLimit \in Nat
        BY <1>4, <4>4, TopUpsFinite, FS_Subset, TotalType, PaymentsAssumption
      <4> HIDE DEF S
      <4> QED BY <4>1, <4>3, <4>4, <4>5
    <3> QED BY <3>1, <3>2
  <2> DEFINE B == Beside(t)'
  <2>2. IsFiniteSet(S) /\ Total(S, Amount) \in Nat
    BY <1>4, TopUpsFinite, FS_Subset, TotalType
  <2>3. B \subseteq S
    BY <2>1
  <2> HIDE DEF B
  <2>4. Total(B, Amount) <= Total(S, Amount)
    BY <1>4, <2>2, <2>3, TotalSubset
  <2>5. Total(B, Amount) \in Nat /\ DailyLimit \in Nat
    BY <1>4, <2>2, <2>3, FS_Subset, TotalType, PaymentsAssumption
  <2>6. Total(B, Amount) <= DailyLimit
    BY <2>1, <2>2, <2>4, <2>5
  <2> QED BY <2>6 DEF B
<1> QED BY <1>3, <1>5 DEF DailyOk

LEMMA DailyHolds == BasicInv /\ DailyOk => DailyLimitHolds
<1> SUFFICES ASSUME BasicInv, DailyOk, ~crossed
             PROVE  Total({o \in TopUps : Confirmed(o) /\ o \notin lapsed}, Amount) <= DailyLimit
  BY DEF DailyLimitHolds
<1> DEFINE live == {o \in TopUps : Confirmed(o) /\ o \notin lapsed}
<1>1. \A r \in TopUps : Amount[r] \in Nat
  BY PaymentsAssumption
<1>2. DailyLimit \in Nat
  BY PaymentsAssumption
<1>3. CASE \A t \in TopUps : ~Confirmed(t)
  <2>1. live = {}
    BY <1>3
  <2>2. Total(live, Amount) = 0
    BY <2>1, TotalEmpty
  <2> QED BY <1>2, <2>2
<1>4. ASSUME NEW t \in TopUps, Confirmed(t),
             \A r \in TopUps : Confirmed(r) => createdAt[r] <= createdAt[t]
      PROVE  Total(live, Amount) <= DailyLimit
  <2> DEFINE B == Beside(t)
  <2>1. live \subseteq B /\ B \subseteq TopUps
    BY <1>4 DEF Beside, Counts, Confirmed
  <2>2. Total(B, Amount) <= DailyLimit
    BY <1>4 DEF DailyOk
  <2> HIDE DEF B, live
  <2>3. IsFiniteSet(B) /\ IsFiniteSet(live)
    BY <2>1, TopUpsFinite, FS_Subset
  <2>4. Total(live, Amount) <= Total(B, Amount)
    BY <1>1, <2>1, <2>3, TotalSubset
  <2>5. Total(live, Amount) \in Nat /\ Total(B, Amount) \in Nat
    BY <1>1, <2>1, <2>3, TotalType
  <2> QED BY <1>2, <2>2, <2>4, <2>5
<1> QED BY <1>3, <1>4 DEF DailyOk

\* The confirmed top-ups of today fit the daily limit, however many requests
\* were checked at the same time and whatever repeated requests were answered,
\* as long as the rows land in the order of their creation times.
THEOREM TopUpsFitTheDay == Spec => []DailyLimitHolds
<1> DEFINE Inv == BasicInv /\ AppliedOk /\ StampsOk /\ DailyOk
<1>1. Init => Inv
  BY BasicInit, AppliedInit, StampsInit, DailyInit
<1>2. Inv /\ [Next]_vars => Inv'
  BY BasicNext, AppliedNext, StampsNext, DailyNext
<1>3. Inv => DailyLimitHolds
  BY DailyHolds
<1> QED BY <1>1, <1>2, <1>3, PTL DEF Spec
=============================================================================
