------------------------------ MODULE Pickups -------------------------------
(***************************************************************************)
(* Pickups: a client asks for booked shipments to be collected; staff      *)
(* confirm, which opens an attempt, and assign a driver, who travels,      *)
(* verifies, scans and completes; the hub records what arrived.            *)
(*                                                                         *)
(* Creation, confirmation, completion and hub receipt write in a           *)
(* transaction.  Everything else loads a request or an attempt and saves   *)
(* its changes to each later, one document after the other and whatever    *)
(* the documents have become: a call has a step for each write.            *)
(***************************************************************************)
EXTENDS Naturals, FiniteSets

CONSTANTS
    Requests,
    Shipments,      \* booked shipments with labels
    Parcels,
    ShipmentOf,     \* the shipment each parcel belongs to
    Calls,          \* HTTP requests being handled at a time
    MaxAttempts     \* bound: attempts in all

ASSUME PickupAssumption ==
    ShipmentOf \in [Parcels -> Shipments] /\ MaxAttempts \in Nat

VARIABLES
    request,        \* status, currentAttemptId (0 for null), pickupStartedAt set
    attempt,        \* the attempts of each request, by sequence
    link,           \* its PickupRequestShipment rows
    accepted,       \* parcels with an ACCEPTED PickupScan
    received,       \* parcels with a RECEIVE scan at the origin facility
    events,         \* the milestones on the timeline of each shipment
    finalized,      \* shipments whose invoice has chargeFinalizedAt
    call,           \* what each HTTP request loaded and has still to write
    handed,         \* history: parcels that a driver or the hub had in hand
    stated,         \* history: shipments whose collection or receipt staff stated
    strayed         \* history: requests that were written to from a stale copy
                    \* or by a call that died halfway, or whose driver was
                    \* forgotten by one of the two gaps named below

timeline == <<received, events, finalized, stated>>
pickup == <<request, attempt, link>>
vars == <<pickup, accepted, timeline, call, handed, strayed>>
-----------------------------------------------------------------------------
Live == {"SCHEDULED", "ASSIGNED", "ACCEPTED", "EN_ROUTE", "ARRIVED", "COLLECTING"}
AtDoor == {"ARRIVED", "COLLECTING"}
Receipted == {"RECEIVED_AT_DELHI_HUB", "COMPLETED_WITH_MISSING_PARCELS"}

NoRequest == [status |-> "NONE", current |-> 0, started |-> FALSE]
NoAttempt == [status |-> "NONE", otp |-> "NONE"]
NoLink == [shipments |-> {}, active |-> {}, receipt |-> FALSE,
           parcel |-> [p \in Parcels |-> "PENDING"]]
Idle == [op |-> "idle"]

Status(r) == request[r].status
Pieces(ss) == {p \in Parcels : ShipmentOf[p] \in ss}
Attempts(r) == {n \in 1 .. MaxAttempts : attempt[r][n].status # "NONE"}
LiveAttempts(r) == {n \in Attempts(r) : attempt[r][n].status \in Live}
Current(r) == IF request[r].current = 0 THEN "NONE"
              ELSE attempt[r][request[r].current].status
Collected(r) == {p \in Parcels : link[r].parcel[p] = "COLLECTED"}
Whole(ss, ps) == {s \in ss : Pieces({s}) \subseteq ps}

Init ==
    /\ request = [r \in Requests |-> NoRequest]
    /\ attempt = [r \in Requests |-> [n \in 1 .. MaxAttempts |-> NoAttempt]]
    /\ link = [r \in Requests |-> NoLink]
    /\ accepted = {} /\ received = {} /\ finalized = {}
    /\ events = [s \in Shipments |-> {}]
    /\ call = [c \in Calls |-> Idle]
    /\ handed = {} /\ stated = {} /\ strayed = {}
-----------------------------------------------------------------------------
(* Calls: what they load, and how their writes land.                       *)

Doing(c, op, step) == call[c].op = op /\ call[c].step = step
Load(c, op, r, n, saw) ==
    /\ call[c] = Idle
    /\ call' = [call EXCEPT ![c] = [op |-> op, step |-> 1, r |-> r, n |-> n,
                                    saw |-> saw, stale |-> FALSE]]
    /\ UNCHANGED <<pickup, accepted, timeline, handed, strayed>>

On(a, r) == a # Idle /\ a.r = r

\* Whatever another call has loaded of r is out of date from now on.
Outdated(r, calls) ==
    [c \in Calls |-> IF On(calls[c], r) THEN [calls[c] EXCEPT !.stale = TRUE]
                     ELSE calls[c]]

\* One write of call c, after which it goes on with the record next.
Lands(c, next) ==
    LET r == call[c].r IN
    /\ call' = [Outdated(r, call) EXCEPT ![c] = next]
    /\ strayed' = IF call[c].stale THEN strayed \cup {r} ELSE strayed
GoOn(c) == Lands(c, [call[c] EXCEPT !.step = @ + 1])
Done(c) == Lands(c, Idle)
HalfDone(c) ==
    /\ call' = [Outdated(call[c].r, call) EXCEPT ![c] = Idle]
    /\ strayed' = strayed \cup {call[c].r}
Refused(c) == call' = [call EXCEPT ![c] = Idle] /\ UNCHANGED strayed

\* A transaction of a call that starts and ends with it.
Atomic(r) == call' = Outdated(r, call)

SetStatus(r, status) == request' = [request EXCEPT ![r].status = status]
SetAttempt(r, n, status) == attempt' = [attempt EXCEPT ![r][n].status = status]

\* The process stops, or a write fails, and the call does not go on.
CallDies(c) ==
    /\ call[c] # Idle
    /\ call' = [call EXCEPT ![c] = Idle]
    /\ strayed' = IF call[c].step > 1 THEN strayed \cup {call[c].r} ELSE strayed
    /\ UNCHANGED <<pickup, accepted, timeline, handed>>
-----------------------------------------------------------------------------
(* Clients and staff.                                                      *)

\* createClientPickup looks at the timelines first (a pickup may also name no
\* shipment at all; such a pickup is left out) ...
LoadCreate(c, r, ss) ==
    /\ Status(r) = "NONE" /\ \A d \in Calls : ~On(call[d], r)
    /\ \A s \in ss : events[s] = {}
    /\ Load(c, "create", r, 0, ss)

Taken(s) == \E r \in Requests : \/ s \in link[r].active
                                \/ s \in link[r].shipments /\ link[r].receipt

\* ... and at the links of other pickups in its transaction.
Create(c) ==
    LET r == call[c].r  ss == call[c].saw IN
    /\ Doing(c, "create", 1)
    /\ IF \E s \in ss : Taken(s) THEN Refused(c) /\ UNCHANGED pickup
       ELSE /\ SetStatus(r, "REQUESTED")
            /\ link' = [link EXCEPT ![r].shipments = ss, ![r].active = ss]
            /\ Done(c) /\ UNCHANGED attempt
    /\ UNCHANGED <<accepted, timeline, handed>>

Cancellable(r) ==
    /\ Status(r) \in {"REQUESTED", "CONFIRMED", "DRIVER_ASSIGNED", "ACTION_REQUIRED", "MISSED"}
    /\ Current(r) \in {"NONE", "SCHEDULED", "ASSIGNED"}

LoadCancel(c, r) == Cancellable(r) /\ Load(c, "cancel", r, request[r].current, {})

Cancelled(c, r) ==
    /\ SetStatus(r, "CANCELLED")
    /\ IF call[c].n = 0 THEN UNCHANGED attempt ELSE SetAttempt(r, call[c].n, "CANCELLED")
    /\ link' = [link EXCEPT ![r].active = {}]
Cancel(c) ==
    /\ Doing(c, "cancel", 1) /\ Cancelled(c, call[c].r) /\ Done(c)
    /\ UNCHANGED <<accepted, timeline, handed>>

\* markPickupMissed
LoadMissed(c, r) ==
    /\ Status(r) \in {"REQUESTED", "CONFIRMED", "DRIVER_ASSIGNED", "IN_PROGRESS", "ACTION_REQUIRED"}
    /\ Load(c, "missed", r, request[r].current, {})

SaveMissed(c) ==
    /\ Doing(c, "missed", 1) /\ SetStatus(call[c].r, "MISSED")
    /\ IF call[c].n = 0 THEN Done(c) ELSE GoOn(c)
    /\ UNCHANGED <<attempt, link, accepted, timeline, handed>>
FailAttempt(c) ==
    /\ Doing(c, "missed", 2) /\ SetAttempt(call[c].r, call[c].n, "FAILED") /\ Done(c)
    /\ UNCHANGED <<request, link, accepted, timeline, handed>>

\* reschedulePickup: a field is saved only if it was changed on the copy.
LoadReschedule(c, r) ==
    /\ Status(r) \in {"REQUESTED", "CONFIRMED", "DRIVER_ASSIGNED", "ACTION_REQUIRED", "MISSED"}
    /\ Load(c, "reschedule", r, request[r].current, request[r])

SaveReschedule(c) ==
    LET r == call[c].r  saw == call[c].saw IN
    /\ Doing(c, "reschedule", 1)
    /\ request' = [request EXCEPT
           ![r].status = IF saw.status = "REQUESTED" THEN @ ELSE "REQUESTED",
           ![r].started = IF saw.started THEN FALSE ELSE @]
    /\ IF call[c].n = 0 THEN Done(c) ELSE GoOn(c)
    /\ UNCHANGED <<attempt, link, accepted, timeline, handed>>
CancelAttempt(c) ==
    /\ Doing(c, "reschedule", 2) /\ SetAttempt(call[c].r, call[c].n, "CANCELLED") /\ GoOn(c)
    /\ UNCHANGED <<request, link, accepted, timeline, handed>>
DropAttempt(c) ==
    /\ Doing(c, "reschedule", 3) /\ request' = [request EXCEPT ![call[c].r].current = 0]
    /\ Done(c)
    /\ UNCHANGED <<attempt, link, accepted, timeline, handed>>

\* markPickupStarted, by staff or from a driver who is on the way
Startable(r) == /\ ~request[r].started
                /\ Status(r) \in {"CONFIRMED", "DRIVER_ASSIGNED", "ACTION_REQUIRED"}
LoadStart(c, r) == Startable(r) /\ Load(c, "start", r, 0, {})
Start(c) ==
    /\ Doing(c, "start", 1)
    /\ request' = [request EXCEPT ![call[c].r].status = "IN_PROGRESS", ![call[c].r].started = TRUE]
    /\ Done(c)
    /\ UNCHANGED <<attempt, link, accepted, timeline, handed>>

\* confirmPickup.  A driver whose exception is under review is forgotten: this
\* is the first of the gaps that strayed names.
Confirm(r) ==
    LET n == Cardinality(Attempts(r)) + 1 IN
    /\ Status(r) \in {"REQUESTED", "ACTION_REQUIRED", "PARTIALLY_COLLECTED"}
    /\ Cardinality(UNION {{other} \X Attempts(other) : other \in Requests}) < MaxAttempts
    /\ link' = IF Status(r) # "PARTIALLY_COLLECTED" THEN link
               ELSE [link EXCEPT ![r].parcel = [p \in Parcels |->
                        IF ShipmentOf[p] \in link[r].active /\ @[p] # "COLLECTED"
                        THEN "PENDING" ELSE @[p]]]
    /\ attempt' = [attempt EXCEPT ![r][n].status = "SCHEDULED"]
    /\ request' = [request EXCEPT ![r].status = "CONFIRMED", ![r].current = n]
    /\ strayed' = IF LiveAttempts(r) = {} THEN strayed ELSE strayed \cup {r}
    /\ Atomic(r)
    /\ UNCHANGED <<accepted, timeline, handed>>

\* assignPickupDriver: the request follows the attempt.
LoadAssign(c, r, n) ==
    /\ attempt[r][n].status \in {"SCHEDULED", "ASSIGNED"}
    /\ Load(c, "assign", r, n,
            [attempt |-> attempt[r][n].status,
             follows |-> Status(r) \in {"REQUESTED", "CONFIRMED", "ACTION_REQUIRED", "MISSED"}])

AssignAttempt(c) ==
    LET r == call[c].r  n == call[c].n IN
    /\ Doing(c, "assign", 1)
    /\ IF call[c].saw.attempt = "ASSIGNED" THEN UNCHANGED attempt
       ELSE SetAttempt(r, n, "ASSIGNED")
    /\ IF call[c].saw.follows THEN GoOn(c) ELSE Done(c)
    /\ UNCHANGED <<request, link, accepted, timeline, handed>>
FollowAttempt(c) ==
    /\ Doing(c, "assign", 2) /\ SetStatus(call[c].r, "DRIVER_ASSIGNED") /\ Done(c)
    /\ UNCHANGED <<attempt, link, accepted, timeline, handed>>
-----------------------------------------------------------------------------
(* The driver.                                                             *)

allowedAttemptTransitions ==
    [ASSIGNED |-> "ACCEPTED", ACCEPTED |-> "EN_ROUTE",
     EN_ROUTE |-> "ARRIVED", ARRIVED |-> "COLLECTING"]

LoadTransition(c, r, n) ==
    /\ attempt[r][n].status \in DOMAIN allowedAttemptTransitions
    /\ Load(c, "transition", r, n, allowedAttemptTransitions[attempt[r][n].status])

SaveTransition(c) ==
    /\ Doing(c, "transition", 1) /\ SetAttempt(call[c].r, call[c].n, call[c].saw)
    /\ IF call[c].saw = "ACCEPTED" THEN Done(c) ELSE GoOn(c)
    /\ UNCHANGED <<request, link, accepted, timeline, handed>>

\* A driver on the way loads the request to mark it started ...
LoadForDriver(c) ==
    LET r == call[c].r IN
    /\ Doing(c, "transition", 2) /\ call[c].saw = "EN_ROUTE"
    /\ call' = [call EXCEPT ![c] =
                   IF Startable(r) THEN [op |-> "start", step |-> 1, r |-> r, n |-> 0,
                                         saw |-> {}, stale |-> FALSE]
                   ELSE Idle]
    /\ UNCHANGED <<pickup, accepted, timeline, handed, strayed>>

\* ... one at the door moves it by a conditional update.
Arrive(c) ==
    LET r == call[c].r IN
    /\ Doing(c, "transition", 2) /\ call[c].saw \in AtDoor
    /\ IF Status(r) \in Receipted \cup {"CANCELLED"} THEN Refused(c) /\ UNCHANGED request
       ELSE SetStatus(r, "IN_PROGRESS") /\ Done(c)
    /\ UNCHANGED <<attempt, link, accepted, timeline, handed>>

\* sendPickupOtp and verifyPickupOtp, the code being entered rightly, in time
\* and at the door.  From then on an exception makes no difference to otp.
Verify(r, n) ==
    /\ attempt[r][n].status \in AtDoor
    /\ attempt' = [attempt EXCEPT ![r][n].otp = "VERIFIED"]
    /\ Atomic(r)
    /\ UNCHANGED <<request, link, accepted, timeline, handed, strayed>>

\* requestPickupOtpException (ASK) and reviewPickupOtpException
LoadException(c, r, n, answer) ==
    /\ attempt[r][n].status \in AtDoor
    /\ answer = "ASK" \/ attempt[r][n].otp # "NONE"
    /\ Load(c, "exception", r, n, answer)

SaveException(c) ==
    /\ Doing(c, "exception", 1)
    /\ attempt' = [attempt EXCEPT ![call[c].r][call[c].n].otp =
                      IF @ = "VERIFIED" THEN @
                      ELSE IF call[c].saw = "APPROVE" THEN "APPROVED" ELSE "ASKED"]
    /\ GoOn(c)
    /\ UNCHANGED <<request, link, accepted, timeline, handed>>
FollowException(c) ==
    /\ Doing(c, "exception", 2)
    /\ SetStatus(call[c].r, IF call[c].saw = "ASK" THEN "ACTION_REQUIRED" ELSE "IN_PROGRESS")
    /\ Done(c)
    /\ UNCHANGED <<attempt, link, accepted, timeline, handed>>

\* scanPickupParcel and recordPickupParcelException
Expected(r, p) == ShipmentOf[p] \in link[r].active /\ link[r].parcel[p] # "COLLECTED"
LoadScan(c, r, n, p) ==
    /\ attempt[r][n].status = "COLLECTING" /\ Expected(r, p) /\ p \notin accepted
    /\ Load(c, "scan", r, n, p)

\* The link and the scan are saved side by side: either write may be the only
\* one to succeed.
SaveScan(c) ==
    LET r == call[c].r  p == call[c].saw
        onLink == [link EXCEPT ![r].parcel[p] = "COLLECTED"]
        inScans == accepted \cup {p} IN
    /\ Doing(c, "scan", 1)
    /\ \/ link' = onLink /\ accepted' = inScans /\ p \notin accepted /\ Done(c)
       \/ link' = onLink /\ UNCHANGED accepted /\ HalfDone(c)
       \/ accepted' = inScans /\ p \notin accepted /\ UNCHANGED link /\ HalfDone(c)
    /\ handed' = handed \cup {p}
    /\ UNCHANGED <<request, attempt, timeline>>

LoadMissing(c, r, n, p) ==
    /\ attempt[r][n].status = "COLLECTING" /\ Expected(r, p)
    /\ Load(c, "missing", r, n, p)
SaveMissing(c) ==
    /\ Doing(c, "missing", 1)
    /\ link' = [link EXCEPT ![call[c].r].parcel[call[c].saw] = "EXCEPTION"]
    /\ Done(c)
    /\ UNCHANGED <<request, attempt, accepted, timeline, handed>>

\* completePickupAttempt: signature and photograph are the driver's to upload
\* at any time while collecting.
Finishable(r, n) ==
    /\ attempt[r][n].status = "COLLECTING"
    /\ attempt[r][n].otp \in {"VERIFIED", "APPROVED"}
    /\ \A p \in Pieces(link[r].active) : link[r].parcel[p] # "PENDING"
Gathered_any(ss, ps) == {s \in ss : Pieces({s}) \cap ps # {}}
Gathered(ss, ps) == Whole(ss, ps)
LoadComplete(c, r, n) ==
    /\ Finishable(r, n)
    /\ Load(c, "complete", r, n, [links |-> link[r].active,
                                  collected |-> Gathered(link[r].active, Collected(r))])

\* A shipment has a milestone once: a second row violates the unique index
\* and the transaction fails.
Recordable(ss) == \A s \in ss : "PARCEL_COLLECTED" \notin events[s]

Complete(c) ==
    LET r == call[c].r  saw == call[c].saw IN
    /\ Doing(c, "complete", 1)
    /\ IF Recordable(saw.collected)
       THEN /\ SetAttempt(r, call[c].n, "COMPLETED")
            /\ SetStatus(r, IF saw.collected = saw.links THEN "COLLECTED"
                            ELSE "PARTIALLY_COLLECTED")
            /\ link' = [link EXCEPT ![r].active = @ \ saw.collected]
            /\ events' = [s \in Shipments |-> events[s] \cup
                             IF s \in saw.collected THEN {"PARCEL_COLLECTED"} ELSE {}]
            /\ finalized' = finalized \cup saw.collected
            /\ Done(c)
       ELSE Refused(c) /\ UNCHANGED <<pickup, events, finalized>>
    /\ UNCHANGED <<accepted, received, stated, handed>>
-----------------------------------------------------------------------------
(* The hub and the timeline.                                               *)

\* Refused while a driver is at work, or against the scans there are.  (A
\* shipment that is cancelled or on hold is refused here, by Create and by both
\* scans as well: that is a call nobody makes.)
HubReady_busy(r) == Status(r) \in {"IN_PROGRESS", "COLLECTED", "PARTIALLY_COLLECTED"}
HubReady(r) ==
    /\ Status(r) \in {"IN_PROGRESS", "COLLECTED", "PARTIALLY_COLLECTED"}
    /\ Current(r) \notin {"EN_ROUTE", "ARRIVED", "COLLECTING"}
Plausible(r, ps) ==
    \A s \in link[r].shipments :
        /\ Pieces({s}) \subseteq ps \/ "WAREHOUSE_SCAN_IN" \notin events[s]
        /\ Pieces({s}) \cap received \subseteq ps

\* markPickupReceivedAtDelhiHub for the parcels ps.  An attempt that a driver
\* has accepted and not begun is neither refused nor cancelled: the second gap.
ReceiveAtHub(r, ps) ==
    LET whole == Whole(link[r].shipments, ps)  n == request[r].current IN
    /\ HubReady(r) /\ ps \subseteq Pieces(link[r].shipments) /\ Plausible(r, ps)
    /\ request' = [request EXCEPT ![r].status =
                      IF ps = Pieces(link[r].shipments) THEN "RECEIVED_AT_DELHI_HUB"
                      ELSE "COMPLETED_WITH_MISSING_PARCELS"]
    /\ IF Current(r) \in {"SCHEDULED", "ASSIGNED"} THEN SetAttempt(r, n, "CANCELLED")
       ELSE UNCHANGED attempt
    /\ link' = [link EXCEPT
           ![r] = [shipments |-> link[r].shipments, active |-> {}, receipt |-> TRUE,
                   parcel |-> [p \in Parcels |-> IF p \in ps THEN "COLLECTED"
                                                 ELSE link[r].parcel[p]]]]
    /\ received' = received \cup ps /\ handed' = handed \cup ps
    /\ events' = [s \in Shipments |-> IF s \notin whole THEN events[s]
                     ELSE {"PARCEL_COLLECTED", "WAREHOUSE_SCAN_IN"}]
    /\ finalized' = finalized \cup
           {s \in whole : events[s] # {"PARCEL_COLLECTED", "WAREHOUSE_SCAN_IN"}}
    /\ strayed' = IF Current(r) = "ACCEPTED" THEN strayed \cup {r} ELSE strayed
    /\ Atomic(r)
    /\ UNCHANGED <<accepted, stated>>

\* Staff record a collection or a receipt by hand, the latter not while parcels
\* are known to be missing.  The charge is stamped afterwards, which may fail.
\* (Looking and writing are one step here; in the code they are apart, and the
\* unique index is all that holds at the second.)
KnownIncomplete(s) ==
    /\ ~(Pieces({s}) \subseteq received)
    /\ \/ Pieces({s}) \cap received # {}
       \/ \E r \in Requests : s \in link[r].shipments /\ link[r].receipt
RecordByHand(s, milestone) ==
    /\ {milestone, "WAREHOUSE_SCAN_IN"} \cap events[s] = {}
    /\ milestone = "WAREHOUSE_SCAN_IN" => ~KnownIncomplete(s)
    /\ events' = [events EXCEPT ![s] = @ \cup {milestone}]
    /\ finalized' \in {finalized, finalized \cup {s}}
    /\ stated' = stated \cup {s}
    /\ UNCHANGED <<pickup, accepted, received, call, handed, strayed>>

\* A RECEIVE scan at the origin facility, the last of which is a milestone.
OriginScan(p) ==
    LET s == ShipmentOf[p]
        complete == Pieces({s}) \subseteq received \cup {p} IN
    /\ "WAREHOUSE_SCAN_IN" \notin events[s] /\ p \notin received
    /\ received' = received \cup {p} /\ handed' = handed \cup {p}
    /\ events' = [events EXCEPT ![s] = IF complete THEN @ \cup {"WAREHOUSE_SCAN_IN"} ELSE @]
    /\ finalized' = IF complete THEN finalized \cup {s} ELSE finalized
    /\ UNCHANGED <<pickup, accepted, stated, call, strayed>>
-----------------------------------------------------------------------------
Write(c) ==
    \/ Create(c) \/ Cancel(c)
    \/ SaveMissed(c) \/ FailAttempt(c)
    \/ SaveReschedule(c) \/ CancelAttempt(c) \/ DropAttempt(c)
    \/ Start(c) \/ AssignAttempt(c) \/ FollowAttempt(c)
    \/ SaveTransition(c) \/ LoadForDriver(c) \/ Arrive(c)
    \/ SaveException(c) \/ FollowException(c)
    \/ SaveScan(c) \/ SaveMissing(c) \/ Complete(c)
    \/ CallDies(c)

Staff(c, r) ==
    \/ \E ss \in SUBSET Shipments \ {{}} : LoadCreate(c, r, ss)
    \/ LoadCancel(c, r) \/ LoadMissed(c, r) \/ LoadReschedule(c, r) \/ LoadStart(c, r)
    \/ \E n \in Attempts(r) : LoadAssign(c, r, n)

Driver(c, r, n) ==
    \/ LoadTransition(c, r, n) \/ LoadComplete(c, r, n)
    \/ \E answer \in {"ASK", "APPROVE", "REJECT"} : LoadException(c, r, n, answer)
    \/ \E p \in Parcels : LoadScan(c, r, n, p) \/ LoadMissing(c, r, n, p)

Next ==
    \/ \E c \in Calls : Write(c)
    \/ \E c \in Calls, r \in Requests : Staff(c, r) \/ \E n \in Attempts(r) : Driver(c, r, n)
    \/ \E r \in Requests : Confirm(r) \/ \E n \in Attempts(r) : Verify(r, n)
    \/ \E r \in Requests, ps \in SUBSET Parcels : ReceiveAtHub(r, ps)
    \/ \E s \in Shipments, milestone \in {"PARCEL_COLLECTED", "WAREHOUSE_SCAN_IN"} :
           RecordByHand(s, milestone)
    \/ \E p \in Parcels : OriginScan(p)

Spec == Init /\ [][Next]_vars
-----------------------------------------------------------------------------
(* Properties                                                              *)

\* A charge becomes billable only once its goods are known to be in hand: each
\* parcel was scanned by a driver or at the hub, unless staff said so.
ChargedInHand ==
    \A s \in finalized \ stated : Pieces({s}) \subseteq handed

\* Nobody keeps working on a pickup that is over or back at its start: it has
\* no live attempt, and a closed one keeps no shipment from another pickup.  A
\* pickup in work has one live attempt at most, its current one.
NobodyLeftBehind ==
    \A r \in Requests \ strayed :
        (\A c \in Calls : ~(On(call[c], r) /\ call[c].step > 1)) =>
            /\ LiveAttempts(r) \subseteq {request[r].current}
            /\ Status(r) \in Receipted \cup {"NONE", "REQUESTED", "MISSED", "CANCELLED",
                                             "COLLECTED", "PARTIALLY_COLLECTED"} =>
                   LiveAttempts(r) = {}
            /\ Status(r) \in Receipted \cup {"CANCELLED", "COLLECTED"} => link[r].active = {}
=============================================================================
