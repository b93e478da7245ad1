-------------------------- MODULE ShipmentBooking ---------------------------
(***************************************************************************)
(* Booking a shipment draft on account: createLabelForShipmentDraft and    *)
(* reconcileShipmentDocuments of dpdShipment.service.ts, on top of the     *)
(* credit booking engine.                                                  *)
(*                                                                         *)
(* A booking is a chain of separately committed writes: lock the draft,    *)
(* hold the money, book the carrier, mark the hold as consuming, record    *)
(* the booking, store the labels, convert the hold, issue the invoice,     *)
(* open the lock.  Any write may fail, with or without its effect, and the *)
(* process may stop between any two.  Several requests may be made for one *)
(* draft, and staff may reconcile a booking at any time.                   *)
(*                                                                         *)
(* The callers of CreditBooking are the booking requests, one per attempt, *)
(* and the reconciliations.                                                *)
(***************************************************************************)
EXTENDS CreditBooking

CONSTANTS
    Reconciliations,   \* calls of reconcileShipmentDocuments
    RefusalReplyLost   \* whether the unlock after a carrier's refusal may take
                       \* effect and yet be reported as failed

ASSUME BookingAssumption ==
    /\ Callers = Attempts \cup Reconciliations
    /\ Attempts \cap Reconciliations = {}
    /\ RefusalReplyLost \in BOOLEAN

VARIABLES
    draft,      \* bookingState, bookingAttemptId, and a counter for updatedAt
    shipment,   \* the DpdShipment: its status, whether it has a carrier
                \* reference, a locked snapshot, and a stored carrier label
    carrier,    \* external: bookings at the carrier, and replies never seen
    invoiced,   \* drafts with a shipment invoice
    request     \* the requests and reconciliations: control and local data

bookingVars == <<draft, shipment, carrier, invoiced, request>>
creditVars == vars
allVars == <<vars, bookingVars>>
-----------------------------------------------------------------------------
BookingStates == {"EDITABLE", "BOOKING", "REVIEW_REQUIRED", "BOOKED"}
ShipmentStatuses ==
    {"NONE", "DPD_CREATED", "DPD_STATUS_UNKNOWN", "LABEL_RECEIVED"}
NoShipment == [status |-> "NONE", reference |-> FALSE, snapshot |-> FALSE,
               label |-> FALSE]
ShipmentType == [status : ShipmentStatuses, reference : BOOLEAN,
                 snapshot : BOOLEAN, label : BOOLEAN]
DraftType == [state : BookingStates, attempt : Attempts \cup {NoHold},
              writes : Nat]

\* Where a request or reconciliation stands, in the order of the code.  The
\* six billing stages are the ones that wait for a call of CreditBooking.
BillingStages ==
    {"reserve", "refused", "consume", "complete", "review", "rollback"}
WorkStages == {"reuse", "reuseInvoice", "begin", "carrier", "letGo", "record",
               "labels", "save", "invoice", "finish", "fallback", "hold",
               "unlock", "label", "repair"} \cup BillingStages
EndStages == {"new", "done", "crashed"}
Working == {p \in Callers : request[p].stage \in WorkStages}

NewRequest(d) ==
    [stage |-> "new", draft |-> d, status |-> "NONE", outcome |-> "none",
     seen |-> [state |-> "EDITABLE", attempt |-> NoHold, writes |-> 0]]

BookingTypeOK ==
    /\ draft \in [Drafts -> DraftType]
    /\ \A d \in Drafts : draft[d].state = "EDITABLE" => draft[d].attempt = NoHold
    /\ shipment \in [Drafts -> ShipmentType]
    /\ carrier \in [Drafts -> [bookings : Nat, uncertain : BOOLEAN]]
    /\ invoiced \subseteq Drafts
    /\ request \in [Callers ->
          [stage : WorkStages \cup EndStages, draft : Drafts,
           status : ShipmentStatuses,
           outcome : {"none", "label", "noLabel", "uncertain"},
           seen : DraftType]]

BookingInit ==
    /\ draft = [d \in Drafts |->
                  [state |-> "EDITABLE", attempt |-> NoHold, writes |-> 0]]
    /\ shipment = [d \in Drafts |-> NoShipment]
    /\ carrier = [d \in Drafts |-> [bookings |-> 0, uncertain |-> FALSE]]
    /\ invoiced = {}
    /\ request \in [Callers -> {NewRequest(d) : d \in Drafts}]
    /\ \A a \in Attempts : request[a].draft = DraftOf[a]
-----------------------------------------------------------------------------
DraftOfRequest(p) == request[p].draft
At(p, stage) == request[p].stage = stage
Go(p, stage) == request' = [request EXCEPT ![p].stage = stage]
SetDraft(d, state) ==
    draft' = [draft EXCEPT ![d].state = state, ![d].writes = @ + 1]
SetShipment(d, status) == shipment' = [shipment EXCEPT ![d].status = status]

\* transitionShipmentDraftBooking: nothing but the attempt is checked.
transitionShipmentDraftBooking_KeepAttempt(a, state) ==
    [draft EXCEPT ![DraftOf[a]] =
       IF @.attempt # a THEN @
       ELSE [state |-> state, writes |-> @.writes + 1, attempt |-> a]]
transitionShipmentDraftBooking(a, state) ==
    [draft EXCEPT ![DraftOf[a]] =
       IF @.attempt # a THEN @
       ELSE [state |-> state, writes |-> @.writes + 1,
             attempt |-> IF state = "EDITABLE" THEN NoHold ELSE a]]

\* resolveDraftBookingState: a draft that says EDITABLE is not when there is a
\* carrier record.
ResolvedState(d) ==
    IF draft[d].state # "EDITABLE" THEN draft[d].state
    ELSE CASE shipment[d].status = "NONE" -> "EDITABLE"
           [] shipment[d].status \in {"DPD_STATUS_UNKNOWN", "DPD_CREATED"}
                 -> "REVIEW_REQUIRED"
           [] shipment[d].status = "LABEL_RECEIVED" -> "BOOKED"
-----------------------------------------------------------------------------
(***************************************************************************)
(* A booking request, up to the point where the booking is durable.        *)
(***************************************************************************)

\* The draft and the carrier record are read together; a request for a booking
\* that is finished or in doubt goes no further than that.
Read(a) ==
    LET d == DraftOfRequest(a) IN
    /\ At(a, "new")
    /\ request' = [request EXCEPT
            ![a].seen = draft[d],
            ![a].stage = CASE shipment[d].status = "LABEL_RECEIVED" -> "reuse"
                           [] shipment[d].status = "NONE" -> "begin"
                           [] OTHER -> "done"]
    /\ UNCHANGED <<creditVars, draft, shipment, carrier, invoiced>>

\* The finished booking is returned as it is: the draft is saved as BOOKED from
\* the copy read before, and the invoice is ensured.
Reuse(a) ==
    LET d == DraftOfRequest(a) IN
    /\ At(a, "reuse")
    /\ IF request[a].seen.state = "BOOKED" THEN UNCHANGED draft
       ELSE SetDraft(d, "BOOKED")
    /\ Go(a, "reuseInvoice")
    /\ UNCHANGED <<creditVars, shipment, carrier, invoiced>>

ReuseInvoice(a) ==
    LET d == DraftOfRequest(a) IN
    /\ At(a, "reuseInvoice")
    /\ \/ invoiced' = invoiced \cup {d} /\ UNCHANGED draft
       \/ UNCHANGED invoiced /\ SetDraft(d, "REVIEW_REQUIRED")
    /\ Go(a, "done")
    /\ UNCHANGED <<creditVars, shipment, carrier>>

\* The lock: the draft must be editable, and as it was when it was read.
CanLock_AsRead(a) == request[a].seen.state = "EDITABLE"
CanLock_AnyVersion(a) ==
    /\ request[a].seen.state = "EDITABLE"
    /\ draft[DraftOfRequest(a)].state = "EDITABLE"
CanLock(a) ==
    LET d == DraftOfRequest(a) IN
    /\ request[a].seen.state = "EDITABLE"
    /\ ResolvedState(d) = "EDITABLE"
    /\ draft[d].writes = request[a].seen.writes

beginShipmentDraftBooking(a) ==
    LET d == DraftOfRequest(a) IN
    /\ At(a, "begin")
    /\ IF CanLock(a)
       THEN /\ draft' = [draft EXCEPT ![d] =
                           [state |-> "BOOKING", attempt |-> a,
                            writes |-> @.writes + 1]]
            /\ Go(a, "reserve")
       ELSE Go(a, "done") /\ UNCHANGED draft
    /\ UNCHANGED <<creditVars, shipment, carrier, invoiced>>

\* The tracking number, the audit row, and the carrier's docket, unless none is
\* wanted: the destination has no carrier, or the booker declined.  A reply
\* that never came is an outcome like another; a refusal, and any other
\* failure, rolls the booking back.
Carrier(a) ==
    LET d == DraftOfRequest(a)
        docket(n, outcome) ==
            /\ carrier' = [carrier EXCEPT ![d].bookings = @ + n,
                                          ![d].uncertain = @ \/ outcome = "uncertain"]
            /\ request' = [request EXCEPT ![a].stage = "consume",
                                          ![a].outcome = outcome]
    IN
    /\ At(a, "carrier")
    /\ \/ docket(0, "none")
       \/ docket(1, "label")
       \/ docket(1, "noLabel")
       \/ \E n \in {0, 1} : docket(n, "uncertain")
       \/ Go(a, "refused") /\ UNCHANGED carrier
       \/ Go(a, "rollback") /\ UNCHANGED carrier
    /\ UNCHANGED <<creditVars, draft, shipment, invoiced>>

\* The refusal is rolled back where it was raised, inside the try block: if the
\* unlock is reported as failed, the catch clause rolls back once more.
LetGo(a) ==
    LET unlocked == transitionShipmentDraftBooking(a, "EDITABLE") IN
    /\ At(a, "letGo")
    /\ \/ draft' = unlocked /\ Go(a, "done")
       \/ /\ draft' \in IF RefusalReplyLost THEN {draft, unlocked} ELSE {draft}
          /\ Go(a, "rollback")
    /\ UNCHANGED <<creditVars, shipment, carrier, invoiced>>

\* recordBookingOutcome makes the booking durable.  If it fails, bookingRecorded
\* stays false, whether or not the record was written.
recordBookingOutcome(a) ==
    LET d == DraftOfRequest(a)
        status == IF request[a].outcome = "uncertain"
                  THEN "DPD_STATUS_UNKNOWN" ELSE "DPD_CREATED"
        recorded == [shipment EXCEPT
            ![d].status = status,
            ![d].reference = request[a].outcome \in {"label", "noLabel"}]
    IN
    /\ At(a, "record")
    /\ \/ /\ shipment' = recorded
          /\ request' = [request EXCEPT ![a].stage = "labels",
                                        ![a].status = status]
       \/ shipment' \in {recorded, shipment} /\ Go(a, "rollback")
    /\ UNCHANGED <<creditVars, draft, carrier, invoiced>>
-----------------------------------------------------------------------------
(***************************************************************************)
(* From the durable record to the booked draft.                            *)
(***************************************************************************)

\* The locked snapshot is saved, then the labels are rendered and stored, the
\* carrier's with them.
StoreLabels(a) ==
    LET d == DraftOfRequest(a)
        saved == [shipment EXCEPT ![d].snapshot = TRUE]
        stored == [saved EXCEPT ![d].label = request[a].outcome = "label"]
    IN
    /\ At(a, "labels")
    /\ \/ shipment' = stored /\ Go(a, "save")
       \/ shipment' \in {shipment, saved, stored} /\ Go(a, "fallback")
    /\ UNCHANGED <<creditVars, draft, carrier, invoiced>>

\* booking.status becomes LABEL_RECEIVED, unless the carrier's side is open, and
\* is saved if it was changed.  The audit row after it may still fail.
SaveStatus(a) ==
    LET d == DraftOfRequest(a)
        status == IF request[a].outcome \in {"uncertain", "noLabel"}
                  THEN request[a].status ELSE "LABEL_RECEIVED"
        saved == IF status = request[a].status THEN shipment
                 ELSE [shipment EXCEPT ![d].status = status]
    IN
    /\ At(a, "save")
    /\ \E next \in {"complete", "fallback"} :
          /\ shipment' \in IF next = "complete" THEN {saved} ELSE {saved, shipment}
          /\ request' = [request EXCEPT ![a].stage = next, ![a].status = status]
    /\ UNCHANGED <<creditVars, draft, carrier, invoiced>>

ensureShipmentInvoiceForDraft(p, next, otherwise) ==
    /\ At(p, "invoice")
    /\ \/ invoiced' = invoiced \cup {DraftOfRequest(p)} /\ Go(p, next)
       \/ UNCHANGED invoiced /\ Go(p, otherwise)
    /\ UNCHANGED <<creditVars, draft, shipment, carrier>>

Finish(a) ==
    LET booked == transitionShipmentDraftBooking(a, "BOOKED") IN
    /\ At(a, "finish")
    /\ \/ draft' = booked /\ Go(a, "done")
       \/ draft' \in {draft, booked} /\ Go(a, "fallback")
    /\ UNCHANGED <<creditVars, shipment, carrier, invoiced>>
-----------------------------------------------------------------------------
(***************************************************************************)
(* The catch clause.                                                       *)
(***************************************************************************)

\* The booking was recorded: it is kept for reconciliation.  The save writes the
\* status only if the copy in memory was changed.
Fallback(a) ==
    LET d == DraftOfRequest(a) IN
    /\ At(a, "fallback")
    /\ \/ /\ IF request[a].status = "LABEL_RECEIVED"
             THEN SetShipment(d, "DPD_CREATED") ELSE UNCHANGED shipment
          /\ Go(a, "review")
       \/ UNCHANGED shipment /\ Go(a, "done")
    /\ UNCHANGED <<creditVars, draft, carrier, invoiced>>

Hold(a) ==
    /\ At(a, "hold")
    /\ draft' \in {draft, transitionShipmentDraftBooking(a, "REVIEW_REQUIRED")}
    /\ Go(a, "done")
    /\ UNCHANGED <<creditVars, shipment, carrier, invoiced>>

\* The booking was not recorded, and its hold has been released.
Unlock(a) ==
    /\ At(a, "unlock")
    /\ draft' \in {draft, transitionShipmentDraftBooking(a, "EDITABLE")}
    /\ Go(a, "done")
    /\ UNCHANGED <<creditVars, shipment, carrier, invoiced>>
-----------------------------------------------------------------------------
(***************************************************************************)
(* reconcileShipmentDocuments: staff finish a booking whose documents were *)
(* left behind, even while its request is still running.                   *)
(***************************************************************************)

\* A booking with a carrier reference needs the carrier's label, and one whose
\* documents are to be rendered needs its snapshot.
CanRepair(d) ==
    \/ shipment[d].status = "LABEL_RECEIVED"
    \/ /\ shipment[d].status = "DPD_CREATED"
       /\ shipment[d].reference => shipment[d].label
       /\ shipment[d].snapshot

ReadForRepair(r) ==
    LET d == DraftOfRequest(r) IN
    /\ At(r, "new")
    /\ shipment[d].status # "NONE"
    /\ request' = [request EXCEPT
            ![r].status = shipment[d].status,
            ![r].stage = IF CanRepair(d) THEN "complete" ELSE "done"]
    /\ UNCHANGED <<creditVars, draft, shipment, carrier, invoiced>>

\* The shipment is saved as LABEL_RECEIVED if it was not before.
SaveRepaired(r) ==
    LET d == DraftOfRequest(r) IN
    /\ At(r, "label")
    /\ \/ /\ IF request[r].status = "DPD_CREATED"
             THEN SetShipment(d, "LABEL_RECEIVED") ELSE UNCHANGED shipment
          /\ Go(r, "repair")
       \/ UNCHANGED shipment /\ Go(r, "done")
    /\ UNCHANGED <<creditVars, draft, carrier, invoiced>>

BookRepaired(r) ==
    LET d == DraftOfRequest(r) IN
    /\ At(r, "repair")
    /\ IF draft[d].state \in {"REVIEW_REQUIRED", "BOOKING"}
       THEN SetDraft(d, "BOOKED") ELSE UNCHANGED draft
    /\ Go(r, "done")
    /\ UNCHANGED <<creditVars, shipment, carrier, invoiced>>
-----------------------------------------------------------------------------
(***************************************************************************)
(* The billing stages: begin the call, let it run, act on its answer.      *)
(***************************************************************************)
BillingOp_ReviewReleases ==
    [refused |-> "release", consume |-> "consume", complete |-> "convert",
     review |-> "release", rollback |-> "release"]
BillingOp ==
    [refused |-> "release", consume |-> "consume", complete |-> "convert",
     review |-> "review", rollback |-> "release"]

AskBilling(p) ==
    /\ call[p].phase = "idle"
    /\ \/ At(p, "reserve") /\ BeginReserve(p, p)
       \/ \E stage \in DOMAIN BillingOp :
             /\ At(p, stage)
             /\ BeginOnCharge(p, BillingOp[stage], DraftOfRequest(p))
    /\ UNCHANGED bookingVars

RunBilling(p) == CallStep(p) /\ UNCHANGED bookingVars

OnSuccess ==
    [reserve |-> "carrier", refused |-> "letGo", consume |-> "record",
     complete |-> "invoice", review |-> "hold", rollback |-> "unlock"]

\* A reservation that fails opens the lock without releasing anything; a
\* release or a review that fails leaves the draft locked.
OnError_RollbackRecorded(p) ==
    [reserve |-> "unlock", refused |-> "rollback", consume |-> "rollback",
     complete |-> "rollback", review |-> "done", rollback |-> "done"]
OnError_UnlockAnyway(p) ==
    [reserve |-> "unlock", refused |-> "rollback", consume |-> "rollback",
     complete |-> IF p \in Attempts THEN "fallback" ELSE "done",
     review |-> "done", rollback |-> "unlock"]
OnError(p) ==
    [reserve |-> "unlock", refused |-> "rollback", consume |-> "rollback",
     complete |-> IF p \in Attempts THEN "fallback" ELSE "done",
     review |-> "done", rollback |-> "done"]

Continue(p) ==
    /\ request[p].stage \in BillingStages
    /\ \/ call[p].phase = "ok" /\ Go(p, OnSuccess[request[p].stage])
       \/ call[p].phase = "error" /\ Go(p, OnError(p)[request[p].stage])
    /\ call' = [call EXCEPT ![p] = Idle]
    /\ UNCHANGED <<account, facilityVars, reservation, charge, ledger,
                   moneyVars, draft, shipment, carrier, invoiced>>
-----------------------------------------------------------------------------
\* The process stops, and its work with it.
Crash(p) ==
    /\ p \in Working
    /\ Go(p, "crashed")
    /\ call' = [call EXCEPT ![p] = Idle]
    /\ UNCHANGED <<account, facilityVars, reservation, charge, ledger,
                   moneyVars, draft, shipment, carrier, invoiced>>

\* The sweep.  A carrier call times out after thirty seconds and the hold lasts
\* fifteen minutes, so it is assumed that time is up only for a dead request.
Sweep(a) ==
    /\ \/ a \notin Working /\ TtlLapses(a)
       \/ expireStaleReservation(a)
    /\ UNCHANGED bookingVars

RequestStep(a) ==
    \/ Read(a)
    \/ Reuse(a)
    \/ ReuseInvoice(a)
    \/ beginShipmentDraftBooking(a)
    \/ Carrier(a)
    \/ LetGo(a)
    \/ recordBookingOutcome(a)
    \/ StoreLabels(a)
    \/ SaveStatus(a)
    \/ ensureShipmentInvoiceForDraft(a, "finish", "fallback")
    \/ Finish(a)
    \/ Fallback(a)
    \/ Hold(a)
    \/ Unlock(a)

RepairStep(r) ==
    \/ ReadForRepair(r)
    \/ ensureShipmentInvoiceForDraft(r, "label", "done")
    \/ SaveRepaired(r)
    \/ BookRepaired(r)

BillingStep(p) == AskBilling(p) \/ RunBilling(p) \/ Continue(p)

BookingNext ==
    \/ \E a \in Attempts : RequestStep(a) \/ Sweep(a)
    \/ \E r \in Reconciliations : RepairStep(r)
    \/ \E p \in Callers : BillingStep(p) \/ Crash(p)
-----------------------------------------------------------------------------
(***************************************************************************)
(* Safety.                                                                 *)
(***************************************************************************)

\* The lock on the draft: of all the requests for one draft, at most one is
\* anywhere between taking the lock and giving it back.
OneRequestPerDraft ==
    LET locked == {a \in Attempts \cap Working :
                     request[a].stage \notin {"begin", "reuse", "reuseInvoice"}}
    IN \A a, b \in locked : DraftOf[a] = DraftOf[b] => a = b

\* A finished, invoiced or booked shipment is paid for, or its money is still
\* set aside past the reach of the sweep.
FinishedIsFunded ==
    \A d \in Drafts :
       \/ draft[d].state = "BOOKED"
       \/ shipment[d].status = "LABEL_RECEIVED"
       \/ d \in invoiced
       => /\ charge[d].hold # NoHold
          /\ reservation[charge[d].hold].status
                \in {"CONSUMING", "REVIEW_REQUIRED", "CONVERTED"}

\* A draft that may be booked again has left no hold behind but one that the
\* sweep is going to take, and has not been charged.
EditableIsFree ==
    \A a \in OpenHolds \cup ConvertedHolds :
       draft[DraftOf[a]].state = "EDITABLE" => reservation[a].status = "ACTIVE"

\* While a draft is under review its money is safe: charged or set aside, as
\* the catch clause says of a booking whose record exists.
ReviewKeepsFunds ==
    \A d \in Drafts : draft[d].state = "REVIEW_REQUIRED" =>
       charge[d].status \in {"RESERVED", "REVIEW_REQUIRED", "COMPLETED"}

\* Once there is a record of the booking, nobody submits the draft to the
\* carrier again, however stale what a request has read.
RecordedNeverResubmitted ==
    [][\A d \in Drafts :
          shipment[d].status # "NONE"
             => carrier'[d].bookings = carrier[d].bookings]_allVars

\* After an uncertain reply of the carrier the draft is never offered for another
\* booking: a second docket might be the result.  The comment at the carrier's
\* call says so of every path that leads on from there.
UncertainNeverOfferedAsRetry ==
    \A d \in Drafts : carrier[d].uncertain => draft[d].state # "EDITABLE"

\* A draft that is booked, with nobody working on it any more, has been charged.
BookedIsCharged ==
    \A d \in Drafts :
       /\ draft[d].state = "BOOKED"
       /\ \A p \in Working : request[p].draft # d
       => charge[d].status = "COMPLETED"
-----------------------------------------------------------------------------
(***************************************************************************)
(* The specification, over a facility that has been in use; and liveness.  *)
(* The processes may crash, and nothing is assumed of the staff: only a    *)
(* live request goes on, and the sweep keeps running.                      *)
(***************************************************************************)

\* Whatever the facility's terms and balances are, nothing is held for a booking
\* when the requests begin.
InUse ==
    /\ account \in AccountType
    /\ account.reservedCredit = 0 /\ account.reservedAdvance = 0
    /\ validity \in {"before", "open", "after"}
    /\ overdueDays \in NotOverdue .. (MaxOverdueDays + 1)
    /\ reservation = [a \in Attempts |-> NoReservation]
    /\ charge = [d \in Drafts |-> NoCharge]
    /\ ledger = [a \in Attempts |-> <<>>]
    /\ call = [p \in Callers |-> Idle]
    /\ received \in Nat /\ settled \in Nat

ShipmentSpec == InUse /\ BookingInit /\ [][BookingNext]_allVars

RequestGoesOn(p) ==
    /\ p \in Working
    /\ \/ p \in Attempts /\ RequestStep(p)
       \/ p \in Reconciliations /\ RepairStep(p)
       \/ BillingStep(p)

Fairness ==
    /\ \A p \in Callers : WF_allVars(RequestGoesOn(p))
    /\ \A a \in Attempts : WF_allVars(Sweep(a))

\* A hold whose request ended before the carrier's booking was accepted is given
\* back by the sweep.
IdleHoldsAreFreed ==
    \A a \in Attempts :
       reservation[a].status = "ACTIVE" /\ request[a].stage \in EndStages
          ~> reservation[a].status = "EXPIRED"
=============================================================================
