# Swiftline Portal: a verification project

TLA+ specifications of the parts of Swiftline Portal where money and parcels can
go wrong, their model-checking configurations and machine-checked proofs. Paths
are relative to the repository; `services/` stands for `backend/src/services/`.

Swiftline Portal is a courier's booking system: clients book international
shipments against prepaid money (*Customer Advance*) or a credit line, a carrier
(DPD, reached through ALS) issues dockets and labels, staff move parcels through
hubs and flights, and monthly statements collect what was booked on credit. It is
one Node.js process per instance over MongoDB, with scheduled jobs started by
cron. There is no in-process locking: concurrency is controlled by MongoDB
transactions, conditional updates (`findOneAndUpdate` with a guard) and unique
indexes, and that is where the specifications look.

## 1. Inventory

| Component | State | Operations | What is hard |
|---|---|---|---|
| Credit booking engine: `services/creditBooking.service.ts`, `shipmentBookingBilling.service.ts` | running totals on `BusinessCreditAccount`; `BalanceReservation`; `ShipmentCharge`; booking entries of `CreditLedgerEntry` | reserve, mark consuming, convert, release, mark for review, expire | reads before the transaction, concurrent attempts, lost answers, the TTL |
| Credit facility: `controllers/adminCredit.controller.ts`, `clientCredit.controller.ts`, `services/creditAccount.service.ts`, `creditOverdue.service.ts` | status, limit, validity of the account; age of the oldest unpaid statement | request, approve, activate, suspend, reactivate, close, reject, expire | every one of them may fall between a booking's reads and its writes |
| Shipment booking: `services/dpdShipment.service.ts`, `shipmentDraftPolicy.service.ts` | booking state of `ShipmentDraft`; `DpdShipment`; label documents | book a draft, reconcile its documents, regenerate labels, reconcile the carrier | ten separately committed writes and an external call, each of which may fail |
| Credit billing: `creditBillingCycle.service.ts`, `creditPayment.service.ts`, `shipmentInvoice.service.ts`, `creditReconciliation.service.ts` | statements, shipment invoices, payments and their allocation | close a cycle, create and verify a payment, write off, invoice | seven services move the same balances, in any order |
| Amendments, cancellations, charge verification: `amendmentBilling.service.ts`, `shipmentCancellation.service.ts`, `shipmentChargeVerification.service.ts` | invoice amounts, credit notes, refunds | amend up or down, cancel, verify the final charge | the same invoice moves between unbilled and invoiced meanwhile |
| Prepaid top-ups: `services/prepaid/*`, `controllers/razorpayWebhook.controller.ts` | `PaymentTopUp`, webhook events, the prepaid ledger | create, verify at checkout, capture, refund, reconcile | duplicated and reordered webhooks, the daily limit |
| Status sequence and scans: `shipmentStatusSequence.service.ts`, `shipmentOperationsScan.service.ts`, `operationsScanSession.service.ts` | milestones of a shipment, scan sessions | record, skip, correct, scan | order of milestones, two scanners on one parcel |
| Manifests and flights: `operationsManifest.service.ts`, `flightLinehaul.service.ts` | manifests, bags, consignment rows, parcel scans; workflow of a flight | scan, close, move, correct, seal, dispatch; depart, arrive, reconcile | requests that read before a seal and write after it; a parcel wanted by two manifests |
| Claims: `services/claims/*` | claim status, deadlines | submit, review, decide, pay, expire | state machine against the deadline sweep |
| Pickups: `pickup.service.ts` | requests, attempts of drivers, links to shipments, parcel scans | create, confirm, assign, travel, verify, scan, complete, receive at the hub; cancel, miss, reschedule | three documents that most operations save one after the other; staff, driver and hub at once |
| Public and counter bookings: `publicShipmentBooking.service.ts`, `operatorCounterPayment.service.ts` | bookings paid outside the account | quote, pay, confirm, retry, purge | one payment reported by checkout and webhook at once |
| E-mail outbox: `services/email/*` | outbox rows with a lease | enqueue, drain, retry | at-least-once sends |
| Carrier tracking: `services/als/alsTracking.service.ts` | tracking events | poll | overlapping polls |
| Sessions and lockout: `auth.service.ts`, `authLockout.service.ts` | refresh sessions, failure counters | log in, refresh, revoke | two refreshes of one token |
| Rate cards: `rateCardMutationLock.service.ts`, `rateCardImport.service.ts`, `shipmentPricing.service.ts` | rate cards, the mutation lock | import, publish, price | the lock |
| Tenants and jobs: `tenantJobRunner.service.ts`, `backend/deploy/jobs` | - | run each job for each tenant | one tenant's failure |
| Drafts, agreements, notifications, users, addresses, EDI, storage, documents, front end | records, files, views | | little: see the notes in `PROJECT.json` |

How they interact. A booking request (`createLabelForShipmentDraft`) locks the
draft, asks the credit engine to **reserve** its price, calls the carrier, marks
the hold as **consuming**, records the booking, renders the labels, **converts**
the hold into a charge, issues the shipment invoice, and opens the lock with the
draft booked. Staff may reconcile the documents of the same shipment at any time
(`reconcileShipmentDocuments`), the sweep (`job:credit:expire-reservations`,
every five minutes) takes back holds whose time is up, administrators change the
facility, and top-ups, billing cycles, payments and write-offs change the same
account document. Nothing but the documents themselves connects them.

What makes each modelled part correct:

* engine: the totals kept on the account are the sums over the reservations;
  advance is never held twice and committed credit never exceeds the limit;
  charge and ledger tell what became of the hold; a retried call is answered
  truthfully without moving money again;
* facility: no status change strands a hold, no edit of the limit undercuts
  what is committed;
* booking: one request per draft works under the lock; what is finished is paid
  for or has its money set aside; what may be booked again holds nothing; what
  has a record is never submitted to the carrier again; money of a booking
  under review stays set aside; holds of requests that ended early are freed;
* billing: the account's totals are the sums over its documents; what it owes is
  backed by invoices; a statement adds up, is issued once and only shrinks; every
  invoice, fee and adjustment is billed once; nothing the customer paid is lost;
* payments: money is applied once for each captured payment and never without
  one; what the webhook reports as processed is settled; a public customer gets
  the shipment or the money back; the day's confirmed top-ups stay within the limit;
* outbox: one worker owns a row; an additional copy of a message has a cause; only
  the worker that settled a row takes it back; every row is settled in the end;
* packing: a parcel is packed once; what a sealed manifest prints is what it
  carries; the seal holds;
* pickups: a charge is settled only for goods in hand; nobody keeps working on a
  pickup that is over.

## 2. The modules

| Module | Models | Checked by | Proved in |
|---|---|---|---|
| `MinorUnits` | amounts in paise: `Total(S, amount)` as the number of units, `Math.max(0, .)` and `Math.min` | every run | `MinorUnitsProofs` |
| `BookingFunds` | abstract: a purse and a credit line against which an attempt holds, then takes or frees, once | run `booking`, as a refinement | `CreditBookingProofs` (that the engine implements it) |
| `CreditBooking` | the engine and the facility, one business account | `booking`, `race` | `CreditBookingProofs` |
| `ShipmentBooking` | booking and reconciliation on top of `CreditBooking` (EXTENDS: one state space) | `shipment`, `uncharged`, `uncertain`, `refusal` | `ShipmentBookingProofs` |
| `ChargeSettlement` | the calculations by which an amendment, a verification or a cancellation changes a charge | `billing`, `stranded` | `CreditBillingProofs` |
| `CreditBilling` | invoices, amendments, cancellations, statements, payments and write-offs of one account | `billing`, `stranded` | `CreditBillingProofs` |
| `RazorpayPayments` | top-ups, deposits, online credit payments and public bookings' payments, from order to settlement | `payments` | `RazorpayPaymentsProofs` |
| `EmailOutbox` | outbox rows, the workers that send them, SES events | `outbox` | `EmailOutboxProofs` |
| `ManifestPacking` | manifests, bags, consignment rows and parcel scans | `packing` | `ManifestPackingProofs` |
| `Pickups` | pickup requests, attempts and links, with the collection and receipt milestones | `pickups` | `PickupsProofs` |
| `MC_...` | instances | | |

The modules share the account at their edges: `ApplyVerifiedCreditPayment` of
`RazorpayPayments` is the trigger of `VerifyPayment` in `CreditBilling`,
`CreditCapturedTopUp` that of `creditCapturedTopUp` in `CreditBooking`, and `Book`
of `CreditBilling` is a whole booking of `CreditBooking`, from reserve to convert;
`Complete` and `ReceiveAtHub` of `Pickups` are what `CompletePickup` of `CreditBilling`
stands for.
Within each module the other side is one atomic step, because in the code it is
one transaction on the account document.

An operator whose name ends in an underscore and a suffix (`GiveBack_CreditOnly`)
is a mistake that could have been made in the definition below it. No action uses
it. Replacing the definition by it makes the property named beside it in
`PROJECT.json` (`mutants`) fail, which shows that the property watches the code
it is about.

### CreditBooking

State and source:

| Variable | Code |
|---|---|
| `account` | `BusinessCreditAccount`: status, limit, `reservedCreditMinor`, `unbilledUsedCreditMinor`, `invoicedOutstandingMinor`, `customerAdvanceMinor`, `reservedAdvanceMinor` |
| `validity` | now against `validFrom` and `validUntil` |
| `overdueDays` | age of the oldest unpaid due statement (`creditOverdue.service.ts`) |
| `reservation` | `BalanceReservation` per attempt; `lapsed`: `expiresAt` is past |
| `charge` | `ShipmentCharge` per draft, with the reservation it points to |
| `ledger` | booking entries of `CreditLedgerEntry` per reservation |
| `call` | a local of the running code: which billing call, what it read |
| `received`, `settled` | history variables for `MoneyConserved` |

A billing call is two steps, because the code is: `BeginReserve` and
`BeginOnCharge` are the reads outside any transaction with their early returns
(`ReservePreRead`, `NothingToDo`), and `reserveBookingCapacity`,
`convertBookingReservation` and the others are the transactions, which repeat
some of the checks and not others. `allowCredit` is the one fact that survives
from the first half into the second. A transaction is one step; `CallFails` lets
it fail before, or lose its answer after, it commits, which is what
`runTransactionWithRetry` leaves to its caller. `ReserveWithoutEffect` and
`TransitionIsMoot` are the outcomes of a transaction that finds that someone was
faster. The sweep's transaction is `expireStaleReservation`.

Each step of the facility is one transaction or one version-guarded update of
the code, so one step here. Top-up, cycle, payment and write-off are reduced to
their effect on the account and an unconstrained choice of amounts; how a
statement is allocated is the subject of `CreditBilling`. Amendments and
cancellations of shipments already charged also write these balances; they are in
`CreditBilling` and not here: what is said here of limit and totals is said of a
history without them.

### ShipmentBooking

`request` is the control of each request or reconciliation: a stage per
separately committed write, in the order of the code, with the data held in
memory across awaits (`seen`, the draft as read before the lock; `status` and
`outcome`, the in-memory booking and the carrier's reply). `draft.writes` stands
for `updatedAt`, by which the lock recognises the draft it read. `carrier` is
external: how many dockets exist, and whether a reply was never seen. A write may
succeed, fail without effect, or take effect and be reported as failed, and then
the catch clause runs (`Fallback`, `Hold` for a recorded booking; release and
`Unlock` otherwise). A process may stop anywhere (`Crash`). The billing stages
make a call of `CreditBooking` and act on its answer (`OnSuccess`, `OnError`),
which composes the modules: attempt `a` is also the caller `a`, and the attempt's
idempotency key.

Covered are bookings on a business account. Bookings paid outside it share the
lock and skip the billing stages; ALS reconciliation, `generateDpdLabelFor...`
and label regeneration are not modelled yet.

Two decisions worth knowing. The TTL (fifteen minutes) is assumed to exceed the
life of a request, whose one long wait, the carrier, times out after thirty
seconds by default (`backend/src/config/env.ts:139`): the guard of `Sweep` says
so, and `CreditBooking` alone makes no such assumption. And
`RefusalReplyLost` decides whether one particular write, the unlock after a
refusal, may take effect and be reported as failed. It is off in the main run
because with it a property fails (finding 3), and a run of its own has it on.

### ChargeSettlement and CreditBilling

| Variable | Code |
|---|---|
| `account` | `customerAdvanceBalanceMinor`, `unbilledCreditMinor`, `invoicedOutstandingMinor` of `BusinessCreditAccount` |
| `period` | the calendar, in billing periods |
| `invoice` | `ShipmentInvoice`: total, applied advance, outstanding credit, `chargeFinalizedAt` (`settledAt`), `billingStatementId` |
| `stage`, `amendment`, `cancellation`, `verified` | the parcel's milestone, the new totals of the `REQUESTED` amendments (there may be several), the cancellation, the final charge verification of a shipment |
| `fee`, `adjustments`, `statement` | `CancellationFeeInvoice`, `CreditBillingAdjustment`, `CreditBillingStatement` |
| `applied` | credit payments that are `VERIFIED` |
| `forgiven` | history: debt cleared by write-offs, for `MoneyKept` |

`Adjustment` and `CancellationSettlement` are the two pure calculations; the
actions are the transactions around them: `Reprice` is
`applyShipmentBillingAdjustment` with the invoice revision that follows it in the
same transaction, `CloseBooks` is `closeCreditBillingCycle`, `Allocation` the
allocation of `applyVerifiedCreditPayment` over statements and their invoices,
oldest first. The nightly job and the button walk the completed periods; each
close is a transaction of its own, so a step may fall between any two of them and
`CloseBooks` may take any completed period.

Abstractions. A booking is one step and holds are zero meanwhile; the account is
active and not restricted (what that refuses is in `CreditBooking`); GST is part of
each amount; a shipment goes from booked over collected to received, which is
where amending and cancelling end; an amendment is the total it asks for, and those of
one shipment that ask for the same are one; a rejected cancellation reads as none; a
payment is `CREATED` or `VERIFIED` (its failure is in `RazorpayPayments`); recording
a collection and stamping the invoice is one step. Operator tenants and bookings
paid outside the account have other branches and are left out.

### RazorpayPayments

`handler` is a request being handled, with a step per awaited write and the
document it loaded (`loaded`); `payment` is the status of a `PaymentTopUp`, a
`CreditPayment` or a `PublicShipmentPayment`; `receipt` the `WebhookEvent`;
`gateway` is Razorpay, external. A handler is a webhook delivery, a checkout
return, a look at the history, or the confirmation of a public payment. A document
loaded with mongoose is saved by its modified paths only, whatever the stored one
has become: `SaveLoaded`. `creating` follows the creation of a top-up, in which
`createdAt` is taken before the insert lands and the daily limit is confirmed
after it. A request with the same `Idempotency-Key` is answered with the row and its
order as they are, confirmed, unconfirmed or cancelled: `RepeatTopUp`, for the
top-ups in `repeated`, whose orders may then be paid. `lapsed` are the top-ups that
no longer count for the day, because their order went stale or failed.

Abstractions. Amounts and currencies agree (the mismatch branches only flag for
review); an order can be created at Razorpay; the look at the ledger before a
credit and its transaction are one step, since the transaction decides again; the
two documents of a public booking are saved in one step where the code saves them
with one `Promise.all`; one day; a public customer pays one quote.
`CreateShipment` reduces the booking of section `ShipmentBooking` to what its caller
can see: nothing, a record, or a complete shipment.

Two history variables name interleavings in which a promise does not hold, and each
has the entry in section 4 that says so: `overtaken` (a stale document was saved over
a payment whose fulfilment had begun) and `crossed` (rows landed in another order
than `createdAt`).

### EmailOutbox

`row` is `EmailOutbox`, with `due` for `nextAttemptAt` in the past and `stuck` for a
lease older than ten minutes; `worker` the locals of `drainEmailOutbox` or
`flushOutboxRow` (`drain` says which): the step, the row it claimed, the attempts of
that claim. `copies` counts what SES accepted. SES may refuse, accept, or accept and
lose its answer; the settling write may fail, or take effect and be reported as
failed; a drain reads the row back after settling it (`ReadBack`), which may fail too.
Either failure ends in the catch clause, which fails the row by `_id` whatever it has
become (`FailAfterAll`, `FailRow`); `doubted` are the settled rows this has happened
to. A worker may crash at any await or outlive its lease (both bounded by
`MaxFaults`; failing calls end with the attempts). `SesEvent` is a delivery event in any order.
The claim order, the recipient's preferences and the template are left open
choices; a message that cannot be rendered or is not on a safelist is `Unsendable`.

### ManifestPacking

`manifest`, `bag`, `row` and `scans` are `OperationsManifest`, `OperationsManifestBag`,
`OperationsManifestConsignment` and the `ACCEPTED` documents of
`OperationsManifestScan`. `request` is what a station is doing. Scanning reads,
then decides again in a transaction (`BeginScan`, `CommitScan`); verifying a bag,
sealing, dispatching, recording a disposition and adding a bag are one transaction;
closing, reopening, moving, removing and cancelling read first and write later
(`Correct`, then `WriteBags`, `Refresh`, `Save`, `MoveScans`, `Recount`, `Tally`,
`RemoveScan`, `CancelBag`, `CancelManifest`), the last ones without looking again at
what they read. `raced` is a history variable: the manifests on which a request
wrote what it would by then have decided otherwise.

Abstractions. Transactions are one step (a write conflict is retried); the several
reads at the start of a request are one step; the limit is on weight (that of
manifests to the United Kingdom is on pieces, which is the same with weights of
one); `HELD` stands for the dispositions that release a parcel to a later manifest;
a removed scan is named by its parcel. Left out: headers and flights, deletion and
archive, holds and other guards on the shipment's timeline, declared values,
scanner sessions.

### Pickups

| Variable | Code |
|---|---|
| `request` | `PickupRequest`: `status`, `currentAttemptId` (0 for none), whether `pickupStartedAt` is set |
| `attempt` | `PickupAttempt` by sequence: `status`, and `otp` for `otpVerifiedAt`, `otpExceptionRequestedAt` and `otpExceptionApprovedBy` |
| `link` | `PickupRequestShipment`: its shipments, those still `active`, `hubReceiptRecordedAt`, the status of each parcel |
| `accepted`, `received` | `PickupScan` rows that are `ACCEPTED`; `ShipmentOperationsParcelScan` rows of action `RECEIVE` |
| `events`, `finalized` | the two milestones on a shipment's timeline; `chargeFinalizedAt` of its invoice |
| `call` | what a request being handled has loaded, and its next write |
| `handed`, `stated`, `strayed` | history: parcels seen by driver or hub; milestones that are staff's word; requests written to from a stale copy, by a call that stopped halfway, or with a forgotten driver |

Creation, completion and cancellation decide on what they loaded before their
transaction; confirmation and hub receipt load inside theirs and are one step
(`Confirm`, `ReceiveAtHub`). All others load (`Load...`) and save, with a step for
each document. Mongoose saves only what was changed on the copy and compares no
version, which `SaveReschedule` and `AssignAttempt` spell out. When a write lands,
whatever another call had loaded of the same pickup becomes stale (`Outdated`).

Abstractions. The status of a link, hub outcomes, windows, addresses, documents and
reminders are left out; a driver is whoever holds the attempt, signature and
photograph are theirs to upload at any time; the code that a customer reads out is
right, in time and entered at the door; a rejected exception reads as one not yet
decided; a shipment on hold or cancelled is refused everywhere, which is a call that
is not made; timelines from before the order of milestones was enforced do not occur.

## 3. The runs

| Run | Instance | Shows |
|---|---|---|
| `booking` | one caller, one attempt of each of two drafts (2 and 1 minor units), limits 0 and 2, at most 1 paid in and 1 settled; 870,946 states, under two minutes | everything the account can go through between the two halves of a call; the totals, the limit, conservation of money, and the refinement of `BookingFunds` |
| `race` | two callers, two attempts of one draft (1 unit each) and one of another (2 units), advance 1, limit 1; about 220,000 states, 20 s | races for capacity that does not cover all; one hold per draft, charge, ledger and answers |
| `shipment` | two requests and one reconciliation for one draft, failures and crashes anywhere; 120,216 states, 40 s | the lock, funding, no second submission, and that idle holds are freed |
| `uncharged`, `uncertain`, `refusal` | as `shipment` | findings 1 to 3 |
| `billing` | two shipments of 2, the first repriced to 1 or 3, a cancellation fee of 1, one payment of 3, one write-off of 2, advance 1, limit 5, four periods, two revisions, with those requested; 932,518 states, two minutes | totals, statements and money under every order of repricing, cancelling, closing, paying and writing off |
| `stranded` | as `billing` | finding 4 |
| `payments` | two handlers; two top-ups of 2 against a limit of 3, or two deposits, or a credit payment, or a public payment; three events and one crash, with the two top-ups two events and none; 1,390,140 states, two minutes | duplicated, reordered and concurrent reports of one payment, and the daily limit with repeated requests |
| `outbox` | one row, three workers, two attempts, one fault; 515,383 states, two minutes | ownership, copies, settled rows, and that every row ends |
| `packing` | two manifests of two bags, one shipment of two parcels, a bag holds one; two stations, two corrections; 459,063 states, under two minutes | what a seal prints, and that it holds |
| `pickups` | two requests for one shipment of two parcels, two attempts in all, one call at a time beside the transactions, followed up to the first stray write; 1,113,199 states, one minute | charges only for goods in hand, and that no driver is left at work on a pickup that is over |

Why these bounds are enough to be interesting. In `booking` a price of 2 against
an advance of 1 forces the split between advance and credit, and the second draft
competes for what is left; limits 0 and 2 make lowering the limit both possible
and refused; `GracePeriodDays = 0` and `MaxOverdueDays = 1` reach all four
restriction levels. One caller suffices there because every step that is not a
billing call is possible between the halves of its call; callers against each
other are `race`, where the facility stays put. In `race` the capacity
would cover both attempts of one draft, so that only the code keeps them apart,
but not one of them and the third attempt, which needs it all; every pair of transitions
of one hold meets, including the sweep. In `shipment` two requests are the fewest
that make the lock matter, and a retry after a crash is the second one; all
requests concern one draft since drafts share only the account, whose sharing the
other two runs check. `MaxReceived` and `MaxSettled` cap what may be paid in and
off. `race` uses the symmetry of callers and of the two attempts of one draft and
has no liveness; `shipment` has liveness and no symmetry.

In `billing` two shipments are what it takes for a payment to be spread over more
than one document, and four periods for an invoice to be billed, repriced, billed
again as an adjustment and settled. A total of 2 of which the advance covers 1 has
both parts; a payment of 3 covers one statement and part of the next; prices 1 and
3 raise and lower; bookings end after the first period, and the others are time
for what follows. In `payments` the kinds of orders share no document but the
account, so each scenario has one kind; two top-ups of 2 exceed the limit of 3
together and not alone; two deposits compete for one requirement; three events are
a capture reported twice and a failed attempt. Beside the creation of two top-ups
there are two events and no crash: the limit is about rows and confirmations, and the
deposits, which the same code credits, have three and one. In `outbox` rows meet only where a
worker chooses among them; three workers are one that failed or was taken for dead,
one that takes its row over and one beside them; two attempts exhaust the retries, and
each attempt may fail in its calls besides the one fault. Any number of faults is what
the proofs admit. In `packing` a bag that
holds one parcel makes every second scan choose a bag, one shipment in two
manifests competes for its parcels, and two stations with two corrections let one
correction fall into another and into a seal. `payments` uses the symmetry of its
handlers, top-ups and deposits, `packing` that of stations, manifests and parcels; shipments of `billing`
are ordered, and `outbox` has liveness.

In `pickups` one shipment makes two requests
competitors, two parcels make it partly collected, and two attempts are a driver
and the next one. `Undisturbed` ends a behaviour after the first write that strays;
`NobodyLeftBehind` promises nothing from there on, so the bound cuts off little but
what `ChargedInHand` would say of such histories. A second call at a time would add
mostly writes from stale copies, which the transactions beside the one call already
provide. The run uses the symmetry of requests and parcels.

Deadlock is checked in `booking` and `race`. The other systems may really stop: a
finished set of requests, the last period, the last event, the last row, two
dispatched manifests, two pickups that are over.

Fairness, in `ShipmentBooking`: a live request or reconciliation takes its
next step (`WF` of `RequestGoesOn`, the event loop), and the sweep takes each hold
that is eligible (`WF` of `Sweep`; cron starts it every five minutes,
`backend/deploy/jobs/swiftline-jobs.cron:21`, and it takes 500 a run). Nothing is
assumed of staff and users, who need not start anything, and a crash may happen at
any time. A call may fail each time: fairness never makes it succeed.

Fairness, in `EmailOutbox`: a worker that can take a step takes one (`WF` of
`WorkerStep`: the event loop, and the job that starts a drain every five minutes,
`backend/deploy/jobs/swiftline-jobs.cron:26`), and time passes (`WF` of `BecomeDue` and
`TenMinutesPass`). SES, users and the rest of the portal need do nothing; what a
worker does when it delivers is its own choice among success and failure, so
fairness does not make a message succeed.

## 4. What the runs found

1. `uncharged`. `createLabelForShipmentDraft` answers a draft whose shipment is
   already `LABEL_RECEIVED` by saving it as `BOOKED` and issuing its invoice
   (`services/dpdShipment.service.ts:611-641`). A process that stops between
   saving that status and converting the hold leaves the hold `CONSUMING`; the
   retry books and invoices without charging. The credit report says that the
   reservation converts after a successful booking
   (`Swiftline_Credit_Module_Full_Report_v1.1.md:164-166`).
2. `uncertain`. A write that fails between the carrier's uncertain reply and the
   durable record sends the catch clause down the path of a clean failure: the
   hold is released, the draft is editable, a docket may exist
   (`services/dpdShipment.service.ts:1025-1027` and `1274-1277` say never).
3. `refusal`. The unlock after a refusal, if it takes effect and is reported as
   failed, makes the catch clause release by draft once more, after another
   request may have reserved (`services/dpdShipment.service.ts:1269-1271` says
   that nothing is released twice).
4. `stranded`. A collection recorded by hand dates the charge with the date staff
   state (`controllers/dpdShipment.controller.ts:1844`); if that date lies in a
   period that has its statement already, no cycle will take the invoice. The same
   happens to an invoice whose cancellation was pending when its period was closed
   and is rejected later. `backend/src/scripts/backfillChargeFinalizedAt.ts:16-19`
   describes this as "the exact failure this field exists to prevent".

Some promises hold except in interleavings that the models name by a history
variable or that show in what the properties do not say. They are worth knowing:

* the sweep takes `ACTIVE` holds only (`services/creditBooking.service.ts:422`), so a
  crash after a hold was marked as consuming leaves it for good, which
  `backend/deploy/jobs/README.md:13` describes as what the sweep prevents;
  `IdleHoldsAreFreed` speaks of the others;
* public payments: `payment.captured` and `order.paid` handled at the same time may
  save `CAPTURED` over a payment that is being fulfilled; the second fulfilment then
  finds no durable shipment yet and refunds, while the first completes
  (`services/publicShipmentBooking.service.ts:568`; `overtaken`). A failed look-up
  that writes back the status it had loaded writes nothing, and the payment stays
  `VERIFYING` until the webhook comes (line 506). A report of a failed attempt sets
  the booking to `QUOTED` unconditionally (line 583);
* a credit payment reported as failed first and captured afterwards on the same
  order is refused (`services/creditPayment.service.ts:203`), and an event whose
  handler stopped between receipt and outcome stays `RECEIVED` and is skipped when
  delivered again (`controllers/razorpayWebhook.controller.ts:74`). Money is then
  applied zero times, which `AppliedExactlyOnce` allows as long as the status agrees;
* the daily limit may be exceeded by two top-ups whose rows land in another order
  than they were stamped (`crossed`), by one paid after it went stale (`lapsed`), and
  by one whose order only a repeated request was answered with (`repeated`): the
  repeat hands out the order of a row that is not confirmed yet or was cancelled
  (`controllers/prepaid.controller.ts:216-224` and `296-301`), although "the later one
  is cancelled before its order is ever handed back" (lines 277-279). With `Offered`
  for `Confirmed` in `DailyLimitHolds` the model checker refutes it in nine states;
* outbox: a settling write that took effect and is reported as failed, or a failed
  read of the row after it (`services/email/dispatcher.ts:231`, in the `try` block of
  the delivery), puts a `SENT` or `SUPPRESSED` row back into the queue, and a sent
  message leaves again (`doubted`, `excuses`). The idempotency key, "the single guard
  against a double send across job reruns, retries and concurrent drain workers"
  (`backend/src/models/emailOutbox.model.ts:83-84`), does not see that;
* outbox: the counter of soft bounces is deleted with each one
  (`controllers/sesWebhook.controller.ts:63-64`) and so never reaches its threshold;
  a reminder that is claimed while its pickup is rescheduled still goes out; a worker
  that outlives ten minutes overwrites what became of its row (`slow`);
* manifests: closing or reopening a bag, moving a shipment and cancelling a manifest
  save what they read over a seal that came between
  (`services/operationsManifest.service.ts:556-567`, `2440-2450`); removing a scan and
  cancelling a bag decide that the manifest is editable before their transaction
  (line 1681); moving a shipment is no transaction and may overfill a bag
  (lines 1779-1819; all `raced`);
* pickups: confirming a pickup that waits for the decision on a one-time code opens
  another attempt and forgets the driver at the door
  (`services/pickup.service.ts:1165`), and a hub receipt neither refuses nor cancels an
  attempt that a driver has accepted (lines 905-908); whoever is forgotten goes on, and
  later moves a request that is cancelled or received. A save of a stale copy has the
  same effect, and so has a process that stops between two of the saves (`strayed`);
* pickups: a driver cannot complete a collection whose milestone staff recorded by
  hand in the meantime: the second row violates `uniq_shipment_customer_milestone`
  (`models/shipmentEvent.model.ts:198`) and the transaction fails every time
  (`Recordable`). A pickup marked missed while a driver was assigned cannot be
  cancelled, since its attempt is then `FAILED`, although the comment at
  `services/pickup.service.ts:612-613` calls it cancellable. A parcel scanned on a
  pickup that is cancelled afterwards is refused on every later one (line 1431).

## 5. What is proved

Every invariant and every action property that a passing run checks, and the
refinement, is a theorem for every value of the constants that the named
assumptions admit. These ask no more than any run of the code meets: finitely many
documents and orders, amounts that are natural numbers (positive where the code
insists), each attempt for one draft, each parcel of one shipment; the bounds of
the model may be any natural numbers.

| Module | Theorem | Statement |
|---|---|---|
| `CreditBookingProofs` | `TypeCorrect` | `[]TypeOK`: in particular no balance becomes negative |
| | `TotalsNeverDrift` | `[]HoldsBacked` |
| | `LimitRespected` | `[]CreditWithinLimit` |
| | `AdvanceNeverOverheld` | `[]AdvanceCovered` |
| | `OpenHoldsConvertible` | `[]HoldsConvertible` |
| | `ChargesTellHolds`, `DraftPaidOnce` | `[]ChargeFollowsHold`, `[]DraftHeldOnce` |
| | `LedgerTellsTheTruth` | `[]LedgerTellsOutcome` |
| | `AnswersHold` | `[]AnswersAreTrue` |
| | `MoneyNeverLost` | `[]MoneyConserved` |
| | `ClosingStrandsNothing` | `[]ClosedHoldsNothing` |
| | `EngineImplementsFunds` | `ImplementsFunds`, the refinement of `BookingFunds` |
| `ShipmentBookingProofs` | `BookingIsTyped`, `ChargesTellBookings` | `[]BookingTypeOK`, `[]ChargeFollowsHold` |
| (these if the reply to the unlock is not lost) | `DraftIsLockedOnce` | `[]OneRequestPerDraft` |
| | `FinishedBookingsAreFunded` | `[]FinishedIsFunded` |
| | `EditableDraftsAreFree` | `[]EditableIsFree` |
| | `ReviewNeverLosesFunds` | `[]ReviewKeepsFunds` |
| | `RecordedIsNeverResubmitted` | `RecordedNeverResubmitted` |
| `CreditBillingProofs` | `DocumentsAreTyped` | `[]BillingTypeOK` |
| | `BilledOnOneStatement` | `[]BilledOnce` |
| | `StatementsTell`, `StatementsOnlyShrink` | `[]StatementsAddUp`, `IssuedStatementsOnlyShrink` |
| | `TotalsMatch`, `OwedBacked`, `MoneyIsKept` | `[]TotalsMatchDocuments`, `[]OwedIsBacked`, `[]MoneyKept` |
| `RazorpayPaymentsProofs` | `RequestsAreBacked` | `[]BasicInv`: whoever applies money was told that it was captured |
| | `MoneyAppliedOnce` | `[]AppliedExactlyOnce` |
| | `AnsweredForGood` | `[]ProcessedIsSettled` |
| | `ShipmentOrMoney` | `[]ShippedOrRefunded` |
| | `TopUpsFitTheDay` | `[]DailyLimitHolds` |
| `EmailOutboxProofs` | `RowHasOneOwner`, `EveryCopyExplained` | `[]OneOwner`, `[]CopiesExplained` |
| | `SettledRowStays` | `SettledStays` |
| `ManifestPackingProofs` | `PackingIsTyped` | `[]PackingTypeOK` |
| | `WhatIsSealedIsPacked`, `TheSealHolds` | `[]SealedAsPacked`, `SealHolds` |
| `PickupsProofs` | `PickupsInOrder` | `[]IInv` |
| | `ChargedGoodsInHand`, `NobodyIsLeft` | `[]ChargedInHand`, `[]NobodyLeftBehind` |

### The credit engine

`TypeOK` is not inductive: a transaction indexes the reservation of
`call[p].attempt`, which has to be an attempt, so `TypeInv` adds `CallsNameHolds`.
That balances stay natural is part of the type and rests on the guards of the
account updates (`HoldIsCovered`, `ConversionIsCovered`). `HoldsBacked` is
inductive together with `TypeInv`: opening a hold adds its portions to the totals
and to the sums (`HoldEnters`), closing one removes them from both
(`HoldLeaves`), and every other change of a reservation leaves the set of open
holds and the portions alone (`HoldsStay`). `AdvanceCovered` and
`CreditWithinLimit` are inductive together as `Capacity`: a reservation takes
within `AvailableAdvance` and `AvailableCredit` as evaluated in its own
transaction, the only place where it matters, and each other writer of the account
moves amounts between totals or lowers them. `OpenHoldsConvertible` follows: an
open hold's portions are among the summands of totals that are covered. So the
errors `BOOKING_RESERVATION_CONVERSION_FAILED` and `..._RELEASE_FAILED` cannot
occur for an open hold, a fact about the code that is not evident from it.

`ChargesOk` says of a draft which hold is the live one, and that its charge agrees;
one live hold for each draft (`DraftHeldOnce`) is a consequence, because two live
holds would both have to be the charge's. `LedgerOk` and `AnswersOk` are about one
hold and one call; the second needs that what a call has done cannot be undone
(`HasHappened`). `ClosedHoldsNothing` needs `Priced`: closing looks at two totals,
and these being zero rules out an open hold only since a hold holds a positive
price. For the refinement each step is mapped to a step of `BookingFunds` or to a
stutter (`FundsSteps`), from `TypeInv`, `HoldsBacked`, `Capacity` and `ChargesOk`.

### Booking a shipment

`ShipmentSpec` starts from any state of the facility in which nothing is booked yet
(`InUse`); the runs start from one of them. A step calls the engine or leaves it
alone, or forgets a call that is over (`CallForgotten`), so the engine's invariants are
inductive here too (`EngineNext`). With them, `StagesOk` makes the types inductive.

The rest needs `BookingInv`, which has a clause for each actor. `LockOk`: a request
past `beginShipmentDraftBooking` is named by its draft; up to the record the draft
is `BOOKING`, after it the money is safe (`Funded`). `HoldOk` follows the hold from
the reserve to the mark as consuming, together with the phase of the call that is
running. `DraftOk`: a snapshot is saved only for a funded shipment, nothing is
finished without one, and an editable draft is not funded. `RepairOk`: a
reconciliation works on shipments with a snapshot only, which is why it never meets
a request that may still roll back. `CallOk` ties a running billing call to the
stage that waits for it. A step of one actor keeps the clauses of the others because
a draft names one attempt (`LockIsHeld`, `LockIsOne`, `Bystanders`).

The hypothesis `~ RefusalReplyLost` of five theorems excludes one event: that the
unlock after a carrier's refusal takes effect and is reported as failed. Then the
request goes on to a second rollback of a draft that it has given back. On the
instance of the run, with that event, `OneRequestPerDraft`, `FinishedIsFunded` and
`ReviewKeepsFunds` fail (finding 3), so there the hypothesis is needed;
`EditableIsFree` and `RecordedNeverResubmitted` hold all the same (170,700 states),
which is not proved. `BookingTypeOK` and `ChargeFollowsHold` are proved without it.

### Billing

The inductive invariant is `TypeInv /\ BilledOnce`: shapes, what a document of each
status cannot have, and that a document and its statement point at each other.
`BilledOnce` is what makes the sums go through: an invoice that enters a statement
was in no other. `StatementsAddUp` and the three sums, over all documents, over the
documents of one statement and over the periods, are then kept by every step. A
payment is allocated to statements, oldest first, by a recursive function
(`Allocation`), and within each to its documents in order (`Spread`). What they
take, no more than is owed and in all no more than the amount, is proved by
induction, on finite sets of documents in their order (`LastDocument`,
`StrongSetInduction`) and on periods (`AllocationExists`, `IntervalInduction`).

### Payments, mail, manifests, pickups

`RazorpayPayments`: `BasicInv` says where a request may be and what it may rely on
there; `AppliedOk` that the status of an order tells whether its money was applied;
`SettledOk`, `ShippingOk` and `DailyOk` belong to one property each. `ShippingOk`
has one request at most fulfilling or refunding, unless a stale save has overtaken it;
`DailyOk` needs that creation times are handed out in order (`StampsOk`), and counts
each confirmed top-up beside those created before it. Orders that only a repeated
request was answered with may be paid in the proof as in the model, and do not enter
that sum.

`EmailOutbox`: the argument is about the right to send a row's message. It lies in
the queue or with a worker that has not used it yet; a claim moves it, sending uses it
up, and what gives back a used one is recorded in `excuses` (`Accounted`). A worker
that reads a row back is at the row but no longer delivering it (`Delivering`), and
gives a right back only if the read fails. For rows nobody was taken for dead on,
`Owned` gives one owner, and while that owner was not told of a failure either, a row
that is `SENDING` until it is settled (`Undoubted`).

`ManifestPacking`: `SealedAsPacked` needs all of `GoodOrder`: bags numbered in a
row, each packed parcel on a row of the manifest, and totals that are right except
where a move has still to write them (`Owed`). `PackingTypeOK` of `PackingIsTyped`
is one consequence of it, not a part.

`Pickups`: `InOrder` says that only the current attempt is live and that a pickup
that is over has none, for pickups nobody strayed from; a call that saves what it
loaded keeps it because what it loaded is so still while it is not `stale` (`Fresh`).
`ChargedInHand` rests on `InHand`: a parcel shown as collected was in somebody's hand.

### What proofs use, and what stays with the model checker

Sums are counted, not folded (`MinorUnits`): a document of amount n stands for n
distinct units and the total is a cardinality. `MinorUnitsProofs` derives from the
library's facts about finite sets how a total changes when a document enters, leaves
or changes its amount, and that the totals of disjoint sets add up. The library's
induction theorems have an operator for a parameter, which the installed provers
cannot instantiate; `LeastSet` and `LeastNatural` of the same module prove, from the
library's well-founded orders, that a non-empty set of finite sets or of numbers has
a least element, and `SetInduction`, `StrongSetInduction` and `IntervalInduction`
follow, with the set of those for which the claim holds as their parameter.

Only model-checked: liveness (`IdleHoldsAreFreed` of `ShipmentBooking`, `EveryMailEnds` of
`EmailOutbox`), since the prover does not reason about `ENABLED` and hence not about
fairness; the four properties that fail (section 4); and the two properties named
above that hold although the reply to an unlock may be lost.

## 6. Not modelled, and why

Prices, currencies, GST and rounding (a price is a constant); the wording of
ledger entries and their other kinds; agreements, deposits and KYC, which only add
preconditions to activation; notices and e-mail about what happened; labels and
invoices as documents; MongoDB's internals (transactions are atomic and
isolated, single-document updates are atomic). Components without a module, with
the reason for each, are listed in `PROJECT.json` (`components`).

## 7. Plan

Done: the modules of section 2, in the order in which the table lists them, and the
theorems of section 5.

Next, most important first:

1. `EditableIsFree` and `RecordedNeverResubmitted` without the hypothesis that the
   reply to an unlock is not lost. `BookingInv` has to be weakened for requests that go on
   after giving back their draft: they may be at the rollback and at the unlock, with
   a draft that another request has locked, but never past the record.
2. The rest of the booking: ALS reconciliation, label generation for an existing
   shipment, as further actions of `ShipmentBooking`, with their cases in
   `BookingInv`.
3. The order of milestones and scan sessions, claims, flight linehaul,
   sessions and lockout.
