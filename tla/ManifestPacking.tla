--------------------------- MODULE ManifestPacking ---------------------------
(***************************************************************************)
(* Operations manifests: the parcels of a shipment are scanned into bags,  *)
(* bags are closed, the manifest is sealed (its contents are frozen and    *)
(* printed) and dispatched with a flight.                                  *)
(*                                                                         *)
(* Scanning, verifying a bag, sealing, dispatching and recording a         *)
(* disposition decide inside one transaction.  Closing, reopening, moving, *)
(* removing and cancelling read first and write later: they are requests   *)
(* with a step for each, and another request may come in between.          *)
(***************************************************************************)
EXTENDS MinorUnits

CONSTANTS
    Manifests,
    Shipments,
    Parcels,
    ShipmentOf,     \* the shipment each parcel belongs to
    Weight,         \* its weight
    MaxWeight,      \* OPERATIONS_BAG_MAX_WEIGHT_KG
    Stations,       \* the screens and scanners from which requests come
    MaxBags,        \* bound: bag numbers of a manifest
    MaxCorrections  \* bound: requests other than scans

ASSUME PackingAssumption ==
    /\ IsFiniteSet(Parcels) /\ ShipmentOf \in [Parcels -> Shipments]
    /\ Weight \in [Parcels -> Nat \ {0}] /\ MaxWeight \in Nat
    /\ MaxBags \in Nat /\ MaxCorrections \in Nat

VARIABLES
    manifest,       \* status, totalPhysicalParcels and sealedSnapshot
    bag,            \* the bags of each manifest, by sequence number
    row,            \* its consignment rows
    scans,          \* the ACCEPTED parcel scans
    request,        \* what each station is doing
    corrections,
    raced           \* history: manifests on which something was written that
                    \* would by then have been decided otherwise

vars == <<manifest, bag, row, scans, request, corrections, raced>>
-----------------------------------------------------------------------------
Numbers == 1 .. MaxBags
Open == {"OPEN", "REOPENED"}
Shut == {"CLOSED", "READY"}

NoBag == [status |-> "NONE", weight |-> 0]
NoRow == [status |-> "NONE", expected |-> {}, scanned |-> {},
          disposed |-> [p \in Parcels |-> "NONE"]]
Idle == [step |-> "idle"]

Status(m) == manifest[m].status
Editable(m) == Status(m) \in {"DRAFT", "PACKING", "READY_TO_SEAL"}
Printed(m) == Status(m) \in {"SEALED", "DISPATCHED"}
Pieces(s) == {p \in Parcels : ShipmentOf[p] = s}
Live(m) == {b \in Numbers : bag[m][b].status \notin {"NONE", "CANCELLED"}}
Active(m) == {s \in Shipments : row[m][s].status = "ACTIVE"}
At(w, step) == request[w].step = step

Packed(ss, m) == {x \in ss : x.manifest = m}
ParcelsOf(ss) == {x.parcel : x \in ss}
Load(ss, m, b) == Total({p \in Parcels : \E x \in Packed(ss, m) : x.parcel = p /\ x.bag = b},
                        Weight)

Init ==
    /\ manifest = [m \in Manifests |-> [status |-> "DRAFT", parcels |-> 0, printed |-> {},
                                        total |-> 0]]
    /\ bag = [m \in Manifests |-> [b \in Numbers |->
                 IF b = 1 THEN [status |-> "OPEN", weight |-> 0] ELSE NoBag]]
    /\ row = [m \in Manifests |-> [s \in Shipments |-> NoRow]]
    /\ scans = {} /\ request = [w \in Stations |-> Idle]
    /\ corrections = 0 /\ raced = {}
-----------------------------------------------------------------------------
(* What a request decides on.                                              *)

\* deferredParcelEligibility: an earlier manifest must have gone without the
\* parcel and have released it.
Released(p, n) ==
    LET r == row[n][ShipmentOf[p]] IN
    \/ Status(n) = "CANCELLED" \/ r.status # "ACTIVE" \/ p \notin r.expected
    \/ Status(n) = "DISPATCHED" /\ p \notin r.scanned /\ r.disposed[p] = "HELD"
Eligible(p, m) == \A n \in Manifests \ {m} : Released(p, n)

\* The unique index on the parcel of an ACCEPTED scan.
Unique_none(p) == TRUE
Unique(p) == p \notin ParcelsOf(scans)

\* chooseOperationsBagForParcel: the bag that holds the shipment already, then
\* the fullest, then the first.
Rank(m, b, p) ==
    << IF \E x \in Packed(scans, m) : x.bag = b /\ ShipmentOf[x.parcel] = ShipmentOf[p]
       THEN 1 ELSE 0, bag[m][b].weight, MaxBags - b >>
Above(q, r) == \/ q[1] > r[1]
               \/ q[1] = r[1] /\ q[2] > r[2]
               \/ q[1] = r[1] /\ q[2] = r[2] /\ q[3] >= r[3]
Fitting(m, p) == {b \in Numbers : /\ bag[m][b].status \in Open
                                  /\ bag[m][b].weight + Weight[p] <= MaxWeight}

\* openNextBag: a trailing cancelled bag is used again if it is empty.
Latest(m) == CHOOSE b \in 0 .. MaxBags :
                 \A c \in Numbers : bag[m][c].status # "NONE" <=> c <= b
NextBag(m) ==
    LET b == Latest(m) IN
    IF b > 0 /\ bag[m][b].status = "CANCELLED"
             /\ \A x \in Packed(scans, m) : x.bag # b
    THEN b ELSE b + 1
BagFor(m, p) ==
    IF Fitting(m, p) = {} THEN NextBag(m)
    ELSE CHOOSE b \in Fitting(m, p) :
             \A c \in Fitting(m, p) : Above(Rank(m, b, p), Rank(m, c, p))

\* packingStatusAfterBagAction
PackingStatus(parcels, statuses) ==
    IF parcels = 0 THEN "DRAFT"
    ELSE IF statuses # {} /\ statuses \subseteq Shut THEN "READY_TO_SEAL" ELSE "PACKING"
Statuses(bags) == {bags[b].status : b \in Numbers} \ {"NONE", "CANCELLED"}

\* recalculateTotals inside a transaction: bags bs and scans ss become these.
Recounted(m, bs, ss) ==
    [b \in Numbers |-> IF bs[b].status \in {"NONE", "CANCELLED"} THEN bs[b]
                       ELSE [status |-> bs[b].status, weight |-> Load(ss, m, b)]]
Totalled(m, bs, ss) ==
    LET n == Cardinality(Packed(ss, m)) IN
    [manifest[m] EXCEPT !.parcels = n,
         !.status = IF Editable(m) THEN PackingStatus(n, Statuses(bs)) ELSE @]
Recalculate(m, bs, ss) ==
    /\ bag' = [bag EXCEPT ![m] = Recounted(m, bs, ss)]
    /\ manifest' = [manifest EXCEPT ![m] = Totalled(m, bs, ss)]
    /\ scans' = ss

\* The rows of m once the parcels ps are scanned no longer.
Unscanned(m, ps) ==
    [s \in Shipments |->
        LET left == row[m][s].scanned \ ps IN
        IF row[m][s].scanned \cap ps = {} THEN row[m][s]
        ELSE [row[m][s] EXCEPT !.scanned = left,
                               !.status = IF left = {} THEN "REMOVED" ELSE @]]

\* Some move of m has moved its scans and not yet recounted the bags.
Uncounted(m) == \E w \in Stations : /\ request[w].step \in {"recount", "tally"}
                                    /\ request[w].manifest = m
RacedIf(m, lost) == raced' = IF lost THEN raced \cup {m} ELSE raced
-----------------------------------------------------------------------------
(* Requests: what they read, and what they write later.                    *)

Begin(w, r) == At(w, "idle") /\ request' = [request EXCEPT ![w] = r]
Correct(w, r) == /\ corrections < MaxCorrections /\ Editable(r.manifest)
                 /\ Begin(w, r) /\ corrections' = corrections + 1
                 /\ UNCHANGED <<manifest, bag, row, scans, raced>>
Finish(w) == request' = [request EXCEPT ![w] = Idle]

\* scanOperationsParcel: the checks before its transaction ...
BeginScan(w, m, p) ==
    /\ Editable(m) /\ Unique(p) /\ Eligible(p, m)
    /\ Begin(w, [step |-> "scan", manifest |-> m, parcel |-> p,
                 expected |-> {q \in Pieces(ShipmentOf[p]) : Eligible(q, m)}])
    /\ UNCHANGED <<manifest, bag, row, scans, corrections, raced>>

Packable_checked(m, p) == /\ Unique(p)
                          /\ row[m][ShipmentOf[p]].disposed[p] # "CANCELLED"
Packable(m, p) == /\ Editable(m) /\ Unique(p)
                  /\ row[m][ShipmentOf[p]].disposed[p] # "CANCELLED"

\* ... and the transaction, which packs the parcel or refuses it.
CommitScan(w) ==
    LET r == request[w]  m == r.manifest  p == r.parcel
        s == ShipmentOf[p]  b == BagFor(m, p)  old == row[m][s] IN
    /\ At(w, "scan") /\ Finish(w)
    /\ IF Packable(m, p)
       THEN /\ b \in Numbers
            /\ scans' = scans \cup {[parcel |-> p, manifest |-> m, bag |-> b]}
            /\ bag' = [bag EXCEPT ![m][b] =
                  [status |-> IF @.status \in Open THEN @.status ELSE "OPEN",
                   weight |-> (IF @.status \in Open THEN @.weight ELSE 0) + Weight[p]]]
            /\ row' = [row EXCEPT ![m][s] =
                  [status |-> "ACTIVE",
                   expected |-> IF old.status = "NONE" THEN r.expected ELSE old.expected,
                   scanned |-> (IF old.status = "ACTIVE" THEN old.scanned ELSE {}) \cup {p},
                   disposed |-> [old.disposed EXCEPT ![p] = "NONE"]]]
            /\ manifest' = [manifest EXCEPT ![m].parcels = @ + 1, ![m].status = "PACKING"]
            /\ RacedIf(m, Uncounted(m))
       ELSE UNCHANGED <<manifest, bag, row, scans, raced>>
    /\ UNCHANGED corrections

\* closeOperationsBag, closeOperationsBags, reopenOperationsBag and
\* reopenOperationsBags: the statuses each applies to and the one it writes.
BagChange == [close |-> [from |-> Open, to |-> "CLOSED"],
              reopen |-> [from |-> Open \cup Shut, to |-> "REOPENED"],
              closeAll |-> [from |-> Open, to |-> "CLOSED"],
              reopenAll |-> [from |-> {"CLOSED"}, to |-> "REOPENED"]]

BeginBagChange(w, m, kind, bags) ==
    /\ bags # {} /\ \A b \in bags : bag[m][b].status \in BagChange[kind].from
    /\ IF kind \in {"close", "reopen"} THEN Cardinality(bags) = 1
       ELSE \A b \in Numbers : bag[m][b].status \in BagChange[kind].from => b \in bags
    /\ Correct(w, [step |-> "bags", manifest |-> m, kind |-> kind, bags |-> bags])

\* One bag is saved whatever it has become; many are updated by their status.
WriteBags(w) ==
    LET r == request[w]  m == r.manifest  c == BagChange[r.kind]
        keeps(b) == r.kind \in {"closeAll", "reopenAll"} /\ bag[m][b].status \notin c.from IN
    /\ At(w, "bags")
    /\ bag' = [bag EXCEPT ![m] = [b \in Numbers |->
                  IF b \notin r.bags \/ keeps(b) THEN bag[m][b]
                  ELSE [status |-> c.to, weight |-> bag[m][b].weight]]]
    /\ request' = [request EXCEPT ![w] = [step |-> "refresh", manifest |-> m]]
    /\ RacedIf(m, ~Editable(m) \/ \E b \in r.bags : /\ ~keeps(b)
                                                    /\ bag[m][b].status \notin c.from)
    /\ UNCHANGED <<manifest, row, scans, corrections>>

Seen(m) == [status |-> Status(m), parcels |-> manifest[m].parcels]

\* refreshPackingStatus reads the manifest and its bags, and refuses unless it
\* is still editable ...
Refresh(w) ==
    LET m == request[w].manifest
        status == PackingStatus(manifest[m].parcels, Statuses(bag[m])) IN
    /\ At(w, "refresh")
    /\ IF Editable(m)
       THEN request' = [request EXCEPT ![w] =
                [step |-> "save", manifest |-> m, seen |-> Seen(m),
                 next |-> [Seen(m) EXCEPT !.status = status]]]
       ELSE Finish(w)
    /\ UNCHANGED <<manifest, bag, row, scans, corrections, raced>>

\* ... and saves what it changed of the manifest, whatever it is by now.
Save(w) ==
    LET r == request[w]  m == r.manifest
        status == r.next.status # r.seen.status
        parcels == r.next.parcels # r.seen.parcels IN
    /\ At(w, "save") /\ Finish(w)
    /\ manifest' = [manifest EXCEPT
           ![m].status = IF status THEN r.next.status ELSE @,
           ![m].parcels = IF parcels THEN r.next.parcels ELSE @]
    /\ RacedIf(m, \/ status /\ ~Editable(m)
                  \/ parcels /\ r.next.parcels # Cardinality(Packed(scans, m)))
    /\ UNCHANGED <<bag, row, scans, corrections>>

\* moveOperationsConsignment gathers the parcels of a shipment in bag b.
Elsewhere(m, s, b) == {x \in Packed(scans, m) : ShipmentOf[x.parcel] = s /\ x.bag # b}
Movable(m, s, b) ==
    /\ Editable(m) /\ s \in Active(m) /\ bag[m][b].status \in Open
    /\ Elsewhere(m, s, b) # {}
    /\ \A x \in Elsewhere(m, s, b) : bag[m][x.bag].status # "CLOSED"
    /\ bag[m][b].weight + Total(ParcelsOf(Elsewhere(m, s, b)), Weight) <= MaxWeight

BeginMove(w, m, s, b) ==
    /\ Movable(m, s, b)
    /\ Correct(w, [step |-> "move", manifest |-> m, shipment |-> s, bag |-> b])

MoveScans(w) ==
    LET r == request[w]  m == r.manifest  moved == Elsewhere(m, r.shipment, r.bag) IN
    /\ At(w, "move")
    /\ scans' = (scans \ moved) \cup {[x EXCEPT !.bag = r.bag] : x \in moved}
    /\ request' = [request EXCEPT ![w] = [step |-> "recount", manifest |-> m]]
    /\ RacedIf(m, ~Movable(m, r.shipment, r.bag))
    /\ UNCHANGED <<manifest, bag, row, corrections>>

\* recalculateTotals outside a transaction: it reads, then saves the bags whose
\* total it found changed and reads the manifest, then saves that.
Recount(w) ==
    LET m == request[w].manifest
        changed == {b \in Live(m) : bag[m][b].weight # Load(scans, m, b)} IN
    /\ At(w, "recount")
    /\ request' = [request EXCEPT ![w] =
           [step |-> "tally", manifest |-> m, statuses |-> Statuses(bag[m]),
            parcels |-> Cardinality(Packed(scans, m)),
            weights |-> [b \in changed |-> Load(scans, m, b)]]]
    /\ UNCHANGED <<manifest, bag, row, scans, corrections, raced>>

Tally(w) ==
    LET r == request[w]  m == r.manifest
        status == IF Editable(m) THEN PackingStatus(r.parcels, r.statuses) ELSE Status(m) IN
    /\ At(w, "tally")
    /\ bag' = [bag EXCEPT ![m] = [b \in Numbers |->
                  IF b \notin DOMAIN r.weights THEN bag[m][b]
                  ELSE [status |-> bag[m][b].status, weight |-> r.weights[b]]]]
    /\ request' = [request EXCEPT ![w] =
           [step |-> "save", manifest |-> m, seen |-> Seen(m),
            next |-> [status |-> status, parcels |-> r.parcels]]]
    /\ RacedIf(m, \E b \in DOMAIN r.weights : r.weights[b] # Load(scans, m, b))
    /\ UNCHANGED <<manifest, row, scans, corrections>>

\* removeOperationsScan and cancelOperationsBag release what they find in their
\* transaction; that the manifest is editable they have read before it.  (A scan
\* is named by its parcel: if the parcel was released and scanned again in the
\* meantime, the model removes the new scan where the code finds none.)
BeginRemove(w, x) ==
    Correct(w, [step |-> "remove", manifest |-> x.manifest, scan |-> x])

RemoveScan(w) ==
    LET r == request[w]  m == r.manifest
        found == {x \in scans : x.parcel = r.scan.parcel /\ x.manifest = m} IN
    /\ At(w, "remove") /\ Finish(w)
    /\ IF found # {} /\ \A x \in found : bag[m][x.bag].status # "CLOSED"
       THEN /\ row' = [row EXCEPT ![m] = Unscanned(m, ParcelsOf(found))]
            /\ Recalculate(m, bag[m], scans \ found)
            /\ RacedIf(m, ~Editable(m))
       ELSE UNCHANGED <<manifest, bag, row, scans, raced>>
    /\ UNCHANGED corrections

BeginCancelBag(w, m, b) ==
    /\ b \in Live(m)
    /\ Correct(w, [step |-> "cancelBag", manifest |-> m, bag |-> b])

CancelBag(w) ==
    LET r == request[w]  m == r.manifest
        held == {x \in Packed(scans, m) : x.bag = r.bag} IN
    /\ At(w, "cancelBag") /\ Finish(w)
    /\ row' = [row EXCEPT ![m] = Unscanned(m, ParcelsOf(held))]
    /\ Recalculate(m, [bag[m] EXCEPT ![r.bag].status = "CANCELLED"], scans \ held)
    /\ RacedIf(m, ~Editable(m))
    /\ UNCHANGED corrections

BeginCancel(w, m) == Correct(w, [step |-> "cancel", manifest |-> m])

\* cancelOperationsManifest keeps the rows and releases the scans.
CancelManifest(w) ==
    LET m == request[w].manifest IN
    /\ At(w, "cancel") /\ Finish(w)
    /\ manifest' = [manifest EXCEPT ![m].status = "CANCELLED"]
    /\ scans' = scans \ Packed(scans, m)
    /\ RacedIf(m, ~Editable(m))
    /\ UNCHANGED <<bag, row, corrections>>
-----------------------------------------------------------------------------
(* Requests that are one transaction.                                      *)

CreateBag(m) ==
    /\ Editable(m) /\ NextBag(m) \in Numbers
    /\ Recalculate(m, [bag[m] EXCEPT ![NextBag(m)] = [status |-> "OPEN", weight |-> 0]], scans)
    /\ UNCHANGED <<row, request, corrections, raced>>

\* markOperationsBagReady
MarkReady(m, b) ==
    /\ Editable(m) /\ bag[m][b].status = "CLOSED"
    /\ \E x \in Packed(scans, m) : x.bag = b
    /\ Recalculate(m, [bag[m] EXCEPT ![b].status = "READY"], scans)
    /\ UNCHANGED <<row, request, corrections, raced>>

\* setOperationsParcelDisposition; HELD stands for DEFERRED_TO_NEXT_MANIFEST too.
Dispose(m, p, d) ==
    LET s == ShipmentOf[p] IN
    /\ \/ Editable(m)
       \/ Status(m) = "SEALED" /\ row[m][s].disposed[p] = "NONE"
    /\ s \in Active(m) /\ p \in row[m][s].expected \ row[m][s].scanned
    /\ row' = [row EXCEPT ![m][s].disposed[p] = d]
    /\ UNCHANGED <<manifest, bag, scans, request, corrections, raced>>

Unaccounted(m, s) == {p \in row[m][s].expected \ row[m][s].scanned :
                          row[m][s].disposed[p] = "NONE"}

\* sealingIssues
Sealable_status(m) ==
    /\ Status(m) = "READY_TO_SEAL" /\ Active(m) # {}
    /\ \A b \in Live(m) : bag[m][b].weight <= MaxWeight
    /\ \A s \in Active(m) : Unaccounted(m, s) = {}
Sealable(m) ==
    /\ Live(m) # {} /\ Active(m) # {}
    /\ \A b \in Live(m) : bag[m][b].status \in Shut /\ bag[m][b].weight <= MaxWeight
    /\ \A s \in Active(m) : Unaccounted(m, s) = {}

\* sealOperationsManifest freezes the scans of the rows and the totals.
Seal(m) ==
    /\ Editable(m) /\ Sealable(m)
    /\ manifest' = [manifest EXCEPT
           ![m].status = "SEALED", ![m].total = manifest[m].parcels,
           ![m].printed = {x \in Packed(scans, m) : ShipmentOf[x.parcel] \in Active(m)}]
    /\ RacedIf(m, Uncounted(m))
    /\ UNCHANGED <<bag, row, scans, request, corrections>>

\* dispatchOperationsManifest, of a manifest linked with a flight.
Dispatch(m) ==
    /\ Status(m) = "SEALED" /\ \E s \in Active(m) : row[m][s].scanned # {}
    /\ manifest' = [manifest EXCEPT ![m].status = "DISPATCHED"]
    /\ UNCHANGED <<bag, row, scans, request, corrections, raced>>
-----------------------------------------------------------------------------
Requested(w) ==
    \/ \E m \in Manifests, p \in Parcels : BeginScan(w, m, p)
    \/ \E m \in Manifests, kind \in DOMAIN BagChange, bags \in SUBSET Numbers :
           BeginBagChange(w, m, kind, bags)
    \/ \E m \in Manifests, s \in Shipments, b \in Numbers : BeginMove(w, m, s, b)
    \/ \E x \in scans : BeginRemove(w, x)
    \/ \E m \in Manifests, b \in Numbers : BeginCancelBag(w, m, b)
    \/ \E m \in Manifests : BeginCancel(w, m)

Carried(w) ==
    \/ CommitScan(w) \/ WriteBags(w) \/ Refresh(w) \/ Save(w)
    \/ MoveScans(w) \/ Recount(w) \/ Tally(w)
    \/ RemoveScan(w) \/ CancelBag(w) \/ CancelManifest(w)

AtOnce(m) ==
    \/ CreateBag(m) \/ Seal(m) \/ Dispatch(m)
    \/ \E b \in Numbers : MarkReady(m, b)
    \/ \E p \in Parcels, d \in {"HELD", "CANCELLED"} : Dispose(m, p, d)

Next == \/ \E w \in Stations : Requested(w) \/ Carried(w)
        \/ \E m \in Manifests : AtOnce(m)

Spec == Init /\ [][Next]_vars
-----------------------------------------------------------------------------
\* Every document is in a state the code can read, and a parcel is packed in one
\* bag of one manifest only (operationsManifestScan.model.ts).
PackingTypeOK ==
    /\ \A m \in Manifests :
        /\ Status(m) \in {"DRAFT", "PACKING", "READY_TO_SEAL", "SEALED", "DISPATCHED",
                          "CANCELLED"}
        /\ manifest[m].parcels \in Nat
        /\ manifest[m].printed \subseteq
               [parcel : Parcels, manifest : {m}, bag : Numbers]
        /\ \A b \in Numbers :
            /\ bag[m][b].status \in Open \cup Shut \cup {"NONE", "CANCELLED"}
            /\ bag[m][b].weight \in Nat
        /\ \A s \in Shipments : row[m][s].scanned \subseteq Pieces(s)
    /\ scans \subseteq [parcel : Parcels, manifest : Manifests, bag : Numbers]
    /\ \A x, y \in scans : x.parcel = y.parcel => x = y
    /\ \A w \in Stations : At(w, "idle") \/ request[w].manifest \in Manifests
    /\ corrections \in 0 .. MaxCorrections /\ raced \subseteq Manifests

PrintedIsPacked(m) == /\ manifest[m].printed = Packed(scans, m)
                      /\ manifest[m].total = Cardinality(manifest[m].printed)
WithinLimits(m) == \A b \in Numbers : Load(scans, m, b) <= MaxWeight
BagsShut(m) == \A x \in Packed(scans, m) : bag[m][x.bag].status \in Shut
NothingForgotten(m) == \A s \in Active(m) : Unaccounted(m, s) = {}
ListedOnce(m) == \A n \in Manifests \ (raced \cup {m}) :
    Printed(n) => ParcelsOf(manifest[m].printed) \cap ParcelsOf(manifest[n].printed) = {}

\* What a sealed manifest prints is what it carries: the parcels packed, each in
\* a shut bag that keeps the limit, counted right, none of the expected ones
\* unaccounted for and none printed on another manifest.  It holds of every
\* manifest on which no request wrote what it would no longer have decided
\* (sealOperationsManifest, sealingIssues, deferredParcelEligibility).
SealedAsPacked == \A m \in Manifests \ raced : Printed(m) =>
    /\ PrintedIsPacked(m) /\ WithinLimits(m) /\ BagsShut(m)
    /\ NothingForgotten(m) /\ ListedOnce(m)

\* The seal of a manifest holds: it can only be dispatched, and what it prints
\* stays as it is.  Only a request that read it before the seal can break that
\* (isEditable; refreshPackingStatus, recalculateTotals and
\* cancelOperationsManifest save without reading it again).
SealHolds ==
    [][\A m \in Manifests : Printed(m) =>
        \/ /\ manifest'[m].status \in {"DISPATCHED", Status(m)}
           /\ manifest'[m].printed = manifest[m].printed
        \/ \E w \in Stations : /\ request[w].step \in {"save", "cancel"}
                               /\ request[w].manifest = m /\ request'[w] = Idle]_vars
=============================================================================
