------------------------ MODULE ManifestPackingProofs ------------------------
(***************************************************************************)
(* What TLAPS proves of ManifestPacking.  The inductive invariant IInv     *)
(* says of every manifest that its bags are numbered in a row, that what   *)
(* is packed is on a row, that the totals are right (Tallied) unless a     *)
(* move has still to write them (Owed), and, once it is sealed, what       *)
(* SealedAsPacked says (SealedOk).  The last two are about the manifests   *)
(* on which nothing was written too late.                                  *)
(*                                                                         *)
(* There is one lemma for each action, each with the conclusion Keeps.     *)
(***************************************************************************)
EXTENDS ManifestPacking, MinorUnitsProofs

-----------------------------------------------------------------------------
(* The inductive invariant                                                 *)

ManifestStatuses == {"DRAFT", "PACKING", "READY_TO_SEAL", "SEALED", "DISPATCHED", "CANCELLED"}
EditableStatuses == {"DRAFT", "PACKING", "READY_TO_SEAL"}
BagStatuses == Open \cup Shut \cup {"NONE", "CANCELLED"}
Gone == {"NONE", "CANCELLED"}
ScanType == [parcel : Parcels, manifest : Manifests, bag : Numbers]
ManifestType == [status : ManifestStatuses, parcels : Nat, printed : SUBSET ScanType,
                 total : Nat]
BagType == [status : BagStatuses, weight : Nat]
RowType == [status : {"NONE", "ACTIVE", "REMOVED"}, expected : SUBSET Parcels,
            scanned : SUBSET Parcels,
            disposed : [Parcels -> {"NONE", "HELD", "CANCELLED"}]]

\* What a request has read, by the step it is at.
Steps == {"idle", "scan", "bags", "refresh", "save", "move", "recount", "tally",
          "remove", "cancelBag", "cancel"}
RequestOk(r) ==
    /\ r.step \in Steps
    /\ r.step # "idle" => r.manifest \in Manifests
    /\ r.step = "scan" => r.parcel \in Parcels /\ r.expected \in SUBSET Parcels
    /\ r.step = "bags" => r.kind \in DOMAIN BagChange /\ r.bags \in SUBSET Numbers
    /\ r.step = "save" => /\ r.next.status \in EditableStatuses \cup {r.seen.status}
                          /\ r.next.parcels \in Nat
    /\ r.step = "move" => r.shipment \in Shipments /\ r.bag \in Numbers
    /\ r.step = "tally" => /\ r.parcels \in Nat
                           /\ \A b \in DOMAIN r.weights : r.weights[b] \in Nat
    /\ r.step = "cancelBag" => r.bag \in Numbers

TypeInv ==
    /\ manifest \in [Manifests -> ManifestType]
    /\ \A m \in Manifests : \A x \in manifest[m].printed : x.manifest = m
    /\ bag \in [Manifests -> [Numbers -> BagType]]
    /\ row \in [Manifests -> [Shipments -> RowType]]
    /\ \A m \in Manifests, s \in Shipments : row[m][s].scanned \subseteq Pieces(s)
    /\ scans \in SUBSET ScanType /\ \A x, y \in scans : x.parcel = y.parcel => x = y
    /\ DOMAIN request = Stations /\ \A w \in Stations : RequestOk(request[w])
    /\ corrections \in 0 .. MaxCorrections /\ raced \in SUBSET Manifests

\* A bag that has been opened keeps its number.
Opened(m, b) == bag[m][b].status # "NONE"
InRow(m) == \E last \in 0 .. MaxBags : \A b \in Numbers : Opened(m, b) <=> b <= last
Named == \A w \in Stations :
    LET r == request[w] IN
    /\ r.step = "bags" => \A b \in r.bags : Opened(r.manifest, b)
    /\ r.step = "cancelBag" => Opened(r.manifest, r.bag)

\* A packed parcel is on the row of its shipment.
OnRow(m) == \A x \in Packed(scans, m) : LET s == ShipmentOf[x.parcel] IN
                row[m][s].status = "ACTIVE" /\ x.parcel \in row[m][s].scanned

\* The weight of a bag is what it holds, unless a move has still to write it.
Owed(m, b) == \E w \in Stations : LET r == request[w] IN
    \/ r.step = "recount" /\ r.manifest = m
    \/ r.step = "tally" /\ r.manifest = m /\ b \in DOMAIN r.weights
Tallied(m) ==
    /\ manifest[m].parcels = Cardinality(Packed(scans, m))
    /\ \A x \in Packed(scans, m) : x.bag \in Live(m)
    /\ \A b \in Live(m) : bag[m][b].weight = Load(scans, m, b) \/ Owed(m, b)

SealedOk(m) == PrintedIsPacked(m) /\ WithinLimits(m) /\ BagsShut(m) /\ NothingForgotten(m)

GoodOrder(m) ==
    /\ InRow(m) /\ OnRow(m)
    /\ m \notin raced /\ Status(m) # "CANCELLED" => Tallied(m)
    /\ m \notin raced /\ Printed(m) => SealedOk(m)
IInv == TypeInv /\ Named /\ \A m \in Manifests : GoodOrder(m)

-----------------------------------------------------------------------------
(* Scans and sums                                                          *)

LEMMA ScanIs ==
    ASSUME TypeInv, NEW x \in scans
    PROVE  x.parcel \in Parcels /\ x.manifest \in Manifests /\ x.bag \in Numbers
BY DEF TypeInv, ScanType

\* Scans that name different parcels, counted.
LEMMA CountIs ==
    ASSUME NEW ss, \A x \in ss : x.parcel \in Parcels,
           \A x, y \in ss : x.parcel = y.parcel => x = y
    PROVE  /\ IsFiniteSet(ss) /\ IsFiniteSet(ParcelsOf(ss))
           /\ Cardinality(ss) = Cardinality(ParcelsOf(ss))
<1> DEFINE P == ParcelsOf(ss)
           f == [x \in ss |-> x.parcel]
<1>1. IsFiniteSet(P)
  <2>1. P \subseteq Parcels
    BY DEF ParcelsOf
  <2> QED BY <2>1, PackingAssumption, FS_Subset
<1>2. f \in Injection(ss, P) /\ f \in Surjection(ss, P)
  <2>1. f \in [ss -> P]
    BY DEF ParcelsOf
  <2>2. \A x, y \in ss : f[x] = f[y] => x = y
    OBVIOUS
  <2>3. \A p \in P : \E x \in ss : f[x] = p
    BY DEF ParcelsOf
  <2> HIDE DEF f, P
  <2> QED BY <2>1, <2>2, <2>3 DEF Injection, Surjection, IsInjective
<1> HIDE DEF P, f
<1> QED BY <1>1, <1>2, FS_Injection DEF P

\* The parcels that ss puts into bag b of m.
Held(ss, m, b) == {p \in Parcels : \E x \in Packed(ss, m) : x.parcel = p /\ x.bag = b}

LEMMA LoadIs ==
    ASSUME NEW ss, NEW m, NEW b
    PROVE  /\ Load(ss, m, b) = Total(Held(ss, m, b), Weight)
           /\ IsFiniteSet(Held(ss, m, b)) /\ Held(ss, m, b) \subseteq Parcels
           /\ \A p \in Parcels : Weight[p] \in Nat
           /\ Load(ss, m, b) \in Nat
<1> DEFINE H == Held(ss, m, b)
<1>1. Load(ss, m, b) = Total(H, Weight)
  BY DEF Load, Held
<1>2. H \subseteq Parcels
  BY DEF Held
<1>3. IsFiniteSet(H)
  BY <1>2, PackingAssumption, FS_Subset
<1>4. \A p \in Parcels : Weight[p] \in Nat
  BY PackingAssumption
<1> HIDE DEF H
<1>5. Total(H, Weight) \in Nat
  BY <1>2, <1>3, <1>4, TotalType
<1> QED BY <1>1, <1>2, <1>3, <1>4, <1>5 DEF H

LEMMA LoadEmpty ==
    ASSUME NEW ss, NEW m, NEW b, \A x \in Packed(ss, m) : x.bag # b
    PROVE  Load(ss, m, b) = 0
<1>1. Held(ss, m, b) = {}
  BY DEF Held
<1> QED BY <1>1, LoadIs, TotalEmpty

LEMMA LoadSame ==
    ASSUME NEW ss, NEW tt, NEW m, NEW b, Packed(ss, m) = Packed(tt, m)
    PROVE  Load(ss, m, b) = Load(tt, m, b)
BY DEF Load

\* One more parcel in bag b.
LEMMA LoadMore ==
    ASSUME NEW ss, NEW m, NEW b, NEW p \in Parcels, p \notin ParcelsOf(ss), NEW c,
           NEW x, x = [parcel |-> p, manifest |-> m, bag |-> b]
    PROVE  Load(ss \cup {x}, m, c) = Load(ss, m, c) + (IF c = b THEN Weight[p] ELSE 0)
<1> DEFINE H == Held(ss, m, c)
           HH == Held(ss \cup {x}, m, c)
<1>0. x.parcel = p /\ x.manifest = m /\ x.bag = b
  OBVIOUS
<1>1. \A y : y \in Packed(ss \cup {x}, m) <=> y \in Packed(ss, m) \/ y = x
  BY <1>0 DEF Packed
<1>2. p \notin H
  BY DEF Held, ParcelsOf, Packed
<1>3. HH = IF c = b THEN H \cup {p} ELSE H
  BY <1>0, <1>1 DEF Held
<1>4. /\ IsFiniteSet(H) /\ \A r \in H \cup {p} : Weight[r] \in Nat
      /\ Load(ss, m, c) = Total(H, Weight) /\ Load(ss \cup {x}, m, c) = Total(HH, Weight)
      /\ Load(ss, m, c) \in Nat
  BY LoadIs
<1> HIDE DEF H, HH
<1>5. Total(H \cup {p}, Weight) = Total(H, Weight) + Weight[p]
  BY <1>2, <1>4, TotalAdd
<1> QED BY <1>3, <1>4, <1>5

-----------------------------------------------------------------------------
(* Steps that are about one manifest                                       *)

\* The documents of m become these, and those of the other manifests stay.
Becomes(m, M, B, R, ss) ==
    /\ manifest' = [manifest EXCEPT ![m] = M] /\ bag' = [bag EXCEPT ![m] = B]
    /\ row' = [row EXCEPT ![m] = R] /\ scans' = ss
Typed(m, M, B, R, ss) ==
    /\ M \in ManifestType /\ \A x \in M.printed : x.manifest = m
    /\ B \in [Numbers -> BagType]
    /\ R \in [Shipments -> RowType] /\ \A s \in Shipments : R[s].scanned \subseteq Pieces(s)
    /\ ss \in SUBSET ScanType /\ \A x, y \in ss : x.parcel = y.parcel => x = y
    /\ \A n \in Manifests : n # m => Packed(ss, n) = Packed(scans, n)

DocsOk ==
    /\ manifest \in [Manifests -> ManifestType]
    /\ \A m \in Manifests : \A x \in manifest[m].printed : x.manifest = m
    /\ bag \in [Manifests -> [Numbers -> BagType]]
    /\ row \in [Manifests -> [Shipments -> RowType]]
    /\ \A m \in Manifests, s \in Shipments : row[m][s].scanned \subseteq Pieces(s)
    /\ scans \in SUBSET ScanType /\ \A x, y \in scans : x.parcel = y.parcel => x = y
RequestsOk == DOMAIN request = Stations /\ \A w \in Stations : RequestOk(request[w])

LEMMA TypeIs ==
    /\ TypeInv <=> /\ DocsOk /\ RequestsOk /\ corrections \in 0 .. MaxCorrections
                   /\ raced \in SUBSET Manifests
    /\ TypeInv' <=> /\ DocsOk' /\ RequestsOk' /\ corrections' \in 0 .. MaxCorrections
                    /\ raced' \in SUBSET Manifests
BY DEF TypeInv, DocsOk, RequestsOk

Same(n) == /\ manifest'[n] = manifest[n] /\ bag'[n] = bag[n] /\ row'[n] = row[n]
           /\ Packed(scans', n) = Packed(scans, n)

LEMMA DocsMoved ==
    ASSUME TypeInv, NEW m \in Manifests, NEW M, NEW B, NEW R, NEW ss,
           Becomes(m, M, B, R, ss), Typed(m, M, B, R, ss)
    PROVE  /\ DocsOk' /\ \A n \in Manifests : n # m => Same(n)
           /\ manifest'[m] = M /\ bag'[m] = B /\ row'[m] = R /\ scans' = ss
<1>1. /\ manifest \in [Manifests -> ManifestType]
      /\ bag \in [Manifests -> [Numbers -> BagType]]
      /\ row \in [Manifests -> [Shipments -> RowType]]
  BY DEF TypeInv
<1>2. /\ manifest' \in [Manifests -> ManifestType] /\ manifest'[m] = M
      /\ \A n \in Manifests : n # m => manifest'[n] = manifest[n]
  BY <1>1 DEF Becomes, Typed
<1>3. /\ bag' \in [Manifests -> [Numbers -> BagType]] /\ bag'[m] = B
      /\ \A n \in Manifests : n # m => bag'[n] = bag[n]
  BY <1>1 DEF Becomes, Typed
<1>4. /\ row' \in [Manifests -> [Shipments -> RowType]] /\ row'[m] = R
      /\ \A n \in Manifests : n # m => row'[n] = row[n]
  BY <1>1 DEF Becomes, Typed
<1>5. /\ scans' = ss /\ scans' \in SUBSET ScanType
      /\ \A x, y \in scans' : x.parcel = y.parcel => x = y
      /\ \A n \in Manifests : n # m => Packed(scans', n) = Packed(scans, n)
  BY DEF Becomes, Typed
<1>6. \A n \in Manifests : \A x \in manifest'[n].printed : x.manifest = n
  BY <1>2 DEF Typed, TypeInv
<1>7. \A n \in Manifests, s \in Shipments : row'[n][s].scanned \subseteq Pieces(s)
  BY <1>4 DEF Typed, TypeInv
<1> QED BY <1>2, <1>3, <1>4, <1>5, <1>6, <1>7 DEF DocsOk, Same, Pieces

\* What another manifest owes is owed still.
DebtsKept(m) == \A n \in Manifests, b \in Numbers : n # m /\ Owed(n, b) => Owed(n, b)'

LEMMA OthersGood ==
    ASSUME NEW m, NEW n \in Manifests, n # m, Same(n), DebtsKept(m), GoodOrder(n),
           n \in raced' <=> n \in raced
    PROVE  GoodOrder(n)'
<1>1. /\ manifest'[n] = manifest[n] /\ bag'[n] = bag[n] /\ row'[n] = row[n]
      /\ Packed(scans', n) = Packed(scans, n)
  BY DEF Same
<1>2. Packed(scans, n)' = Packed(scans, n)
  BY <1>1 DEF Packed
<1>3. InRow(n)'
  BY <1>1 DEF GoodOrder, InRow, Opened
<1>4. OnRow(n)'
  BY <1>1, <1>2 DEF GoodOrder, OnRow
<1>5. \A b : Load(scans', n, b) = Load(scans, n, b)
  BY <1>1, LoadSame
<1>6. Status(n)' = Status(n) /\ Live(n)' = Live(n) /\ (Printed(n)' <=> Printed(n))
  BY <1>1 DEF Status, Live, Printed
<1>7. Tallied(n) => Tallied(n)'
  <2>1. SUFFICES ASSUME Tallied(n) PROVE Tallied(n)'
    OBVIOUS
  <2>2. \A b \in Live(n)' : bag'[n][b].weight = Load(scans', n, b) \/ Owed(n, b)'
    BY <1>1, <1>5, <1>6, <2>1 DEF Tallied, DebtsKept, Live
  <2> QED BY <1>1, <1>2, <1>6, <2>1, <2>2 DEF Tallied
<1>8. SealedOk(n) => SealedOk(n)'
  BY <1>1, <1>2, <1>5 DEF SealedOk, PrintedIsPacked, WithinLimits, BagsShut,
     NothingForgotten, Active, Unaccounted
<1> QED BY <1>3, <1>4, <1>6, <1>7, <1>8 DEF GoodOrder

\* What a step may do to the seal of n.
SealKept(n) == Printed(n) =>
    \/ /\ manifest'[n].status \in {"DISPATCHED", Status(n)}
       /\ manifest'[n].printed = manifest[n].printed
    \/ \E w \in Stations : /\ request[w].step \in {"save", "cancel"}
                           /\ request[w].manifest = n /\ request'[w] = Idle
Keeps == TypeInv' /\ Named' /\ (\A n \in Manifests : GoodOrder(n)')
           /\ \A n \in Manifests : SealKept(n)

LEMMA OneKeeps ==
    ASSUME IInv, NEW m \in Manifests, NEW M, NEW B, NEW R, NEW ss,
           Becomes(m, M, B, R, ss), Typed(m, M, B, R, ss),
           RequestsOk', Named', DebtsKept(m),
           corrections' \in 0 .. MaxCorrections, raced' = raced \/ raced' = raced \cup {m},
           GoodOrder(m)', SealKept(m)
    PROVE  Keeps
<1>0. TypeInv /\ raced \in SUBSET Manifests
  BY DEF IInv, TypeInv
<1>1. DocsOk' /\ \A n \in Manifests : n # m => Same(n)
  BY <1>0, DocsMoved
<1>2. TypeInv'
  BY <1>0, <1>1, TypeIs
<1>3. ASSUME NEW n \in Manifests PROVE GoodOrder(n)' /\ SealKept(n)
  <2>1. CASE n = m
    BY <2>1
  <2>2. CASE n # m
    <3>1. Same(n) /\ GoodOrder(n) /\ (n \in raced' <=> n \in raced)
      BY <1>1, <2>2 DEF IInv
    <3>2. GoodOrder(n)'
      BY <2>2, <3>1, OthersGood
    <3>3. SealKept(n)
      BY <3>1 DEF Same, SealKept, Status
    <3> QED BY <3>2, <3>3
  <2> QED BY <2>1, <2>2
<1> QED BY <1>2, <1>3 DEF Keeps

-----------------------------------------------------------------------------
(* Steps of a station                                                      *)

LEMMA StationMoves ==
    ASSUME TypeInv, NEW w \in Stations, NEW new, RequestOk(new),
           request' = [request EXCEPT ![w] = new]
    PROVE  /\ RequestsOk' /\ request'[w] = new
           /\ \A v \in Stations : v # w => request'[v] = request[v]
BY DEF TypeInv, RequestsOk, RequestOk

\* The bags that a request names have been opened.
NamedBy(r) == /\ r.step = "bags" => \A b \in r.bags : Opened(r.manifest, b)
              /\ r.step = "cancelBag" => Opened(r.manifest, r.bag)

LEMMA StationNames ==
    ASSUME TypeInv, Named, NEW w \in Stations, NEW new, RequestOk(new),
           request' = [request EXCEPT ![w] = new], NamedBy(request[w])',
           \A n \in Manifests, b \in Numbers : Opened(n, b) => Opened(n, b)'
    PROVE  Named'
<1>1. /\ request'[w] = new
      /\ \A v \in Stations : v # w => request'[v] = request[v]
  BY StationMoves
<1>2. ASSUME NEW v \in Stations PROVE NamedBy(request[v])'
  <2>1. CASE v = w
    BY <2>1
  <2>2. CASE v # w
    <3>1. request'[v] = request[v] /\ RequestOk(request[v]) /\ NamedBy(request[v])
      BY <1>1, <2>2 DEF TypeInv, Named, NamedBy
    <3>2. ASSUME request[v].step = "bags", NEW b \in request[v].bags
          PROVE  Opened(request[v].manifest, b)'
      <4>1. b \in Numbers /\ request[v].manifest \in Manifests
        BY <3>1, <3>2 DEF RequestOk
      <4>2. bag'[request[v].manifest][b].status # "NONE"
        BY <3>1, <3>2, <4>1 DEF NamedBy, Opened
      <4> QED BY <3>1, <4>2 DEF Opened
    <3>3. ASSUME request[v].step = "cancelBag"
          PROVE  Opened(request[v].manifest, request[v].bag)'
      <4>1. request[v].bag \in Numbers /\ request[v].manifest \in Manifests
        BY <3>1, <3>3 DEF RequestOk
      <4>2. bag'[request[v].manifest][request[v].bag].status # "NONE"
        BY <3>1, <3>3, <4>1 DEF NamedBy, Opened
      <4> QED BY <3>1, <4>2 DEF Opened
    <3> QED BY <3>1, <3>2, <3>3 DEF NamedBy, Opened
  <2> QED BY <2>1, <2>2
<1> QED BY <1>2 DEF Named, NamedBy

LEMMA StationDebts ==
    ASSUME TypeInv, NEW w \in Stations, NEW new, RequestOk(new),
           request' = [request EXCEPT ![w] = new], NEW m,
           request[w].step = "idle" \/ request[w].manifest = m
    PROVE  DebtsKept(m)
<1>1. \A v \in Stations : v # w => request'[v] = request[v]
  BY StationMoves
<1>2. ASSUME NEW n \in Manifests, NEW b \in Numbers, n # m, Owed(n, b)
      PROVE  Owed(n, b)'
  <2>1. PICK v \in Stations : /\ request[v].manifest = n
                              /\ \/ request[v].step = "recount"
                                 \/ request[v].step = "tally" /\ b \in DOMAIN request[v].weights
    BY <1>2 DEF Owed
  <2>2. request'[v] = request[v]
    BY <1>1, <1>2, <2>1
  <2> QED BY <2>1, <2>2 DEF Owed
<1> QED BY <1>2 DEF DebtsKept

\* A step of station w about m.
LEMMA StationKeeps ==
    ASSUME IInv, NEW w \in Stations, NEW m \in Manifests,
           NEW M, NEW B, NEW R, NEW ss, Becomes(m, M, B, R, ss), Typed(m, M, B, R, ss),
           NEW new, request' = [request EXCEPT ![w] = new], RequestOk(new),
           request[w].step = "idle" \/ request[w].manifest = m,
           NamedBy(request[w])', \A b \in Numbers : Opened(m, b) => Opened(m, b)',
           corrections' \in 0 .. MaxCorrections, raced' = raced \/ raced' = raced \cup {m},
           GoodOrder(m)', SealKept(m)
    PROVE  Keeps
<1>0. TypeInv /\ Named
  BY DEF IInv
<1>1. RequestsOk'
  BY <1>0, StationMoves
<1>2. \A n \in Manifests, b \in Numbers : Opened(n, b) => Opened(n, b)'
  <2>1. \A n \in Manifests : n # m => Same(n)
    BY <1>0, DocsMoved
  <2> QED BY <2>1 DEF Same, Opened
<1>3. Named'
  BY <1>0, <1>2, StationNames
<1>4. DebtsKept(m)
  BY <1>0, StationDebts
<1> QED BY <1>1, <1>3, <1>4, OneKeeps

LEMMA SameDocs ==
    ASSUME TypeInv, NEW m \in Manifests, UNCHANGED <<manifest, bag, row, scans>>
    PROVE  /\ Becomes(m, manifest[m], bag[m], row[m], scans)
           /\ Typed(m, manifest[m], bag[m], row[m], scans)
BY DEF TypeInv, Becomes, Typed

\* A request that is at neither step owes nothing.
LEMMA NoDebts ==
    ASSUME TypeInv, NEW w \in Stations, NEW new, RequestOk(new),
           request' = [request EXCEPT ![w] = new],
           request[w].step \notin {"recount", "tally"}, NEW m, NEW b, Owed(m, b)
    PROVE  Owed(m, b)'
<1>1. PICK v \in Stations : /\ request[v].manifest = m
                            /\ \/ request[v].step = "recount"
                               \/ request[v].step = "tally" /\ b \in DOMAIN request[v].weights
  BY DEF Owed
<1>2. request'[v] = request[v]
  BY <1>1, StationMoves
<1> QED BY <1>1, <1>2 DEF Owed

\* A step that writes no document.
LEMMA QuietKeeps ==
    ASSUME IInv, NEW w \in Stations, NEW m \in Manifests,
           NEW new, request' = [request EXCEPT ![w] = new], RequestOk(new),
           request[w].step = "idle" \/ request[w].manifest = m,
           NamedBy(request[w])', UNCHANGED <<manifest, bag, row, scans, raced>>,
           corrections' \in 0 .. MaxCorrections,
           Tallied(m) => \A b \in Live(m) : \/ bag[m][b].weight = Load(scans, m, b)
                                            \/ Owed(m, b)'
    PROVE  Keeps
<1>0. TypeInv /\ GoodOrder(m)
  BY DEF IInv
<1>1. /\ Becomes(m, manifest[m], bag[m], row[m], scans)
      /\ Typed(m, manifest[m], bag[m], row[m], scans)
  BY <1>0, SameDocs
<1>2. Tallied(m) => Tallied(m)'
  BY DEF Tallied, Live
<1>3. GoodOrder(m)'
  BY <1>0, <1>2 DEF GoodOrder, InRow, Opened, OnRow, SealedOk, PrintedIsPacked, WithinLimits,
     BagsShut, NothingForgotten, Active, Unaccounted, Status, Printed
<1>4. SealKept(m)
  BY DEF SealKept, Status
<1>5. \A b \in Numbers : Opened(m, b) => Opened(m, b)'
  BY DEF Opened
<1> QED BY <1>1, <1>3, <1>4, <1>5, StationKeeps

\* ... of a request that owes nothing.
LEMMA FreeKeeps ==
    ASSUME IInv, NEW w \in Stations, NEW m \in Manifests,
           NEW new, request' = [request EXCEPT ![w] = new], RequestOk(new),
           request[w].step = "idle" \/ request[w].manifest = m,
           request[w].step \notin {"recount", "tally"},
           NamedBy(request[w])', UNCHANGED <<manifest, bag, row, scans, raced>>,
           corrections' \in 0 .. MaxCorrections
    PROVE  Keeps
<1>0. TypeInv
  BY DEF IInv
<1>1. Tallied(m) => \A b \in Live(m) : bag[m][b].weight = Load(scans, m, b) \/ Owed(m, b)'
  BY <1>0, NoDebts DEF Tallied
<1> QED BY <1>1, QuietKeeps

LEMMA BeginKeeps ==
    ASSUME IInv, NEW w \in Stations, NEW new, Begin(w, new), RequestOk(new),
           new.step # "idle", NamedBy(new),
           UNCHANGED <<manifest, bag, row, scans, raced>>,
           corrections' \in 0 .. MaxCorrections
    PROVE  Keeps
<1>1. /\ request[w].step = "idle" /\ request' = [request EXCEPT ![w] = new]
      /\ new.manifest \in Manifests
  BY DEF Begin, At, RequestOk
<1>2. request'[w] = new
  BY <1>1, StationMoves DEF IInv
<1>3. NamedBy(request[w])'
  BY <1>2 DEF NamedBy, Opened
<1> QED BY <1>1, <1>3, FreeKeeps

LEMMA CorrectKeeps ==
    ASSUME IInv, NEW w \in Stations, NEW new, Correct(w, new), RequestOk(new),
           new.step # "idle", NamedBy(new)
    PROVE  Keeps
<1>1. corrections' \in 0 .. MaxCorrections
  BY PackingAssumption DEF Correct, IInv, TypeInv
<1> QED BY <1>1, BeginKeeps DEF Correct

LEMMA RequestedKeeps ==
    ASSUME IInv, NEW w \in Stations, Requested(w)
    PROVE  Keeps
<1>1. ASSUME NEW m \in Manifests, NEW p \in Parcels, BeginScan(w, m, p)
      PROVE  Keeps
  <2> DEFINE new == [step |-> "scan", manifest |-> m, parcel |-> p,
                     expected |-> {q \in Pieces(ShipmentOf[p]) : Eligible(q, m)}]
  <2>1. new.expected \in SUBSET Parcels
    BY DEF Pieces
  <2>2. RequestOk(new) /\ new.step # "idle" /\ NamedBy(new)
    BY <2>1 DEF RequestOk, Steps, NamedBy
  <2>3. /\ Begin(w, new) /\ UNCHANGED <<manifest, bag, row, scans, raced>>
        /\ corrections' \in 0 .. MaxCorrections
    BY <1>1 DEF BeginScan, IInv, TypeInv
  <2> HIDE DEF new
  <2> QED BY <2>2, <2>3, BeginKeeps
<1>2. ASSUME NEW m \in Manifests, NEW kind \in DOMAIN BagChange, NEW bags \in SUBSET Numbers,
             BeginBagChange(w, m, kind, bags)
      PROVE  Keeps
  <2> DEFINE new == [step |-> "bags", manifest |-> m, kind |-> kind, bags |-> bags]
  <2>1. "NONE" \notin BagChange[kind].from
    BY DEF BagChange, Open, Shut
  <2>2. \A b \in bags : Opened(m, b)
    BY <1>2, <2>1 DEF BeginBagChange, Opened
  <2>3. RequestOk(new) /\ new.step # "idle" /\ NamedBy(new)
    BY <2>2 DEF RequestOk, Steps, NamedBy
  <2>4. Correct(w, new)
    BY <1>2 DEF BeginBagChange
  <2> HIDE DEF new
  <2> QED BY <2>3, <2>4, CorrectKeeps
<1>3. ASSUME NEW m \in Manifests, NEW s \in Shipments, NEW b \in Numbers, BeginMove(w, m, s, b)
      PROVE  Keeps
  <2> DEFINE new == [step |-> "move", manifest |-> m, shipment |-> s, bag |-> b]
  <2>1. RequestOk(new) /\ new.step # "idle" /\ NamedBy(new)
    BY DEF RequestOk, Steps, NamedBy
  <2>2. Correct(w, new)
    BY <1>3 DEF BeginMove
  <2> HIDE DEF new
  <2> QED BY <2>1, <2>2, CorrectKeeps
<1>4. ASSUME NEW x \in scans, BeginRemove(w, x)
      PROVE  Keeps
  <2> DEFINE new == [step |-> "remove", manifest |-> x.manifest, scan |-> x]
  <2>1. RequestOk(new) /\ new.step # "idle" /\ NamedBy(new)
    BY ScanIs DEF RequestOk, Steps, NamedBy, IInv
  <2>2. Correct(w, new)
    BY <1>4 DEF BeginRemove
  <2> HIDE DEF new
  <2> QED BY <2>1, <2>2, CorrectKeeps
<1>5. ASSUME NEW m \in Manifests, NEW b \in Numbers, BeginCancelBag(w, m, b)
      PROVE  Keeps
  <2> DEFINE new == [step |-> "cancelBag", manifest |-> m, bag |-> b]
  <2>1. Opened(m, b)
    BY <1>5 DEF BeginCancelBag, Live, Opened
  <2>2. RequestOk(new) /\ new.step # "idle" /\ NamedBy(new)
    BY <2>1 DEF RequestOk, Steps, NamedBy
  <2>3. Correct(w, new)
    BY <1>5 DEF BeginCancelBag
  <2> HIDE DEF new
  <2> QED BY <2>2, <2>3, CorrectKeeps
<1>6. ASSUME NEW m \in Manifests, BeginCancel(w, m)
      PROVE  Keeps
  <2> DEFINE new == [step |-> "cancel", manifest |-> m]
  <2>1. RequestOk(new) /\ new.step # "idle" /\ NamedBy(new)
    BY DEF RequestOk, Steps, NamedBy
  <2>2. Correct(w, new)
    BY <1>6 DEF BeginCancel
  <2> HIDE DEF new
  <2> QED BY <2>1, <2>2, CorrectKeeps
<1> QED BY <1>1, <1>2, <1>3, <1>4, <1>5, <1>6 DEF Requested

-----------------------------------------------------------------------------
(* The steps that read                                                     *)

LEMMA IdleIs == RequestOk(Idle) /\ Idle.step = "idle"
BY DEF Idle, RequestOk, Steps

LEMMA IdleNames ==
    ASSUME TypeInv, NEW w \in Stations, NEW new, RequestOk(new),
           request' = [request EXCEPT ![w] = new], new.step \notin {"bags", "cancelBag"}
    PROVE  NamedBy(request[w])'
BY StationMoves DEF NamedBy

\* A station that is doing something is doing it to a manifest.
LEMMA BusyIs ==
    ASSUME IInv, NEW w \in Stations, NEW step, At(w, step), step # "idle"
    PROVE  /\ TypeInv /\ RequestOk(request[w]) /\ request[w].step = step
           /\ request[w].manifest \in Manifests /\ NamedBy(request[w])
BY DEF IInv, TypeInv, RequestOk, At, Named, NamedBy

LEMMA PackingStatusIs ==
    ASSUME NEW n, NEW statuses
    PROVE  PackingStatus(n, statuses) \in EditableStatuses
BY DEF PackingStatus, EditableStatuses

LEMMA RefreshKeeps ==
    ASSUME IInv, NEW w \in Stations, NEW m, request[w].manifest = m, Refresh(w)
    PROVE  Keeps
<1>0. TypeInv /\ request[w].step = "refresh" /\ m \in Manifests
      /\ manifest[m] \in ManifestType
  BY BusyIs DEF Refresh, TypeInv
<1>1. PICK new : /\ request' = [request EXCEPT ![w] = new] /\ RequestOk(new)
                 /\ new.step \notin {"bags", "cancelBag"}
  <2> DEFINE status == PackingStatus(manifest[m].parcels, Statuses(bag[m]))
             new == [step |-> "save", manifest |-> m, seen |-> Seen(m),
                     next |-> [status |-> status, parcels |-> manifest[m].parcels]]
  <2>1. CASE Editable(m)
    <3>1. [Seen(m) EXCEPT !.status = status]
             = [status |-> status, parcels |-> manifest[m].parcels]
      BY DEF Seen
    <3>2. request' = [request EXCEPT ![w] = new]
      BY <2>1, <3>1 DEF Refresh
    <3>3. status \in EditableStatuses
      BY PackingStatusIs
    <3> HIDE DEF status
    <3>4. RequestOk(new) /\ new.step = "save"
      BY <1>0, <3>3 DEF RequestOk, Steps, ManifestType
    <3> HIDE DEF new
    <3> QED BY <3>2, <3>4
  <2>2. CASE ~ Editable(m)
    BY <2>2, IdleIs DEF Refresh, Finish
  <2> QED BY <2>1, <2>2
<1>2. UNCHANGED <<manifest, bag, row, scans, raced>> /\ corrections' \in 0 .. MaxCorrections
  BY <1>0 DEF Refresh, TypeInv
<1>3. NamedBy(request[w])'
  BY <1>0, <1>1, IdleNames
<1> QED BY <1>0, <1>1, <1>2, <1>3, FreeKeeps

LEMMA RecountKeeps ==
    ASSUME IInv, NEW w \in Stations, NEW m, request[w].manifest = m, Recount(w)
    PROVE  Keeps
<1>0. TypeInv /\ request[w].step = "recount" /\ m \in Manifests
  BY BusyIs DEF Recount
<1> DEFINE changed == {b \in Live(m) : bag[m][b].weight # Load(scans, m, b)}
           weights == [b \in changed |-> Load(scans, m, b)]
           n == Cardinality(Packed(scans, m))
           new == [step |-> "tally", manifest |-> m, statuses |-> Statuses(bag[m]),
                   parcels |-> n, weights |-> weights]
<1>1. request' = [request EXCEPT ![w] = new]
  BY DEF Recount
<1>2. n \in Nat
  <2>1. IsFiniteSet(Packed(scans, m))
    BY <1>0, CountIs DEF TypeInv, ScanType, Packed
  <2> QED BY <2>1, FS_CardinalityType
<1>3. DOMAIN weights = changed /\ \A b \in DOMAIN weights : weights[b] \in Nat
  BY LoadIs
<1>9. changed = {b \in Live(m) : bag[m][b].weight # Load(scans, m, b)}
  OBVIOUS
<1> HIDE DEF n, weights, changed
<1>4. /\ RequestOk(new) /\ new.step = "tally" /\ new.manifest = m
      /\ DOMAIN new.weights = changed
  BY <1>0, <1>2, <1>3 DEF RequestOk, Steps
<1> HIDE DEF new
<1>5. UNCHANGED <<manifest, bag, row, scans, raced>> /\ corrections' \in 0 .. MaxCorrections
  BY <1>0 DEF Recount, TypeInv
<1>6. NamedBy(request[w])'
  BY <1>0, <1>1, <1>4, IdleNames
<1>7. \A b \in Live(m) : bag[m][b].weight = Load(scans, m, b) \/ Owed(m, b)'
  <2>1. request'[w] = new
    BY <1>0, <1>1, <1>4, StationMoves
  <2>2. \A b \in changed : Owed(m, b)'
    BY <1>4, <2>1 DEF Owed
  <2> QED BY <1>9, <2>2
<1> QED BY <1>0, <1>1, <1>4, <1>5, <1>6, <1>7, QuietKeeps

-----------------------------------------------------------------------------
(* The steps that write the manifest or its bags                           *)

\* What a seal says of m depends on its scans, its row and the states of its bags.
LEMMA SealedSame ==
    ASSUME TypeInv, NEW m \in Manifests, SealedOk(m),
           manifest'[m].printed = manifest[m].printed, manifest'[m].total = manifest[m].total,
           \A b \in Numbers : bag'[m][b].status = bag[m][b].status,
           row'[m] = row[m], scans' = scans
    PROVE  SealedOk(m)'
<1>1. PrintedIsPacked(m)'
  BY DEF SealedOk, PrintedIsPacked, Packed
<1>2. WithinLimits(m)'
  BY DEF SealedOk, WithinLimits
<1>3. BagsShut(m)'
  BY ScanIs DEF SealedOk, BagsShut, Packed
<1>4. NothingForgotten(m)'
  BY DEF SealedOk, NothingForgotten, Active, Unaccounted
<1> QED BY <1>1, <1>2, <1>3, <1>4 DEF SealedOk

\* A field or two of a manifest.
StatusSet(m, a, n) == manifest' = [manifest EXCEPT ![m].status = a, ![m].parcels = n]
ParcelsSet(m, a, n) == manifest' = [manifest EXCEPT ![m].parcels = n, ![m].status = a]
LEMMA StatusAndParcels ==
    ASSUME TypeInv, NEW m \in Manifests, NEW a \in ManifestStatuses, NEW n \in Nat,
           StatusSet(m, a, n) \/ ParcelsSet(m, a, n)
    PROVE  \E M \in ManifestType :
              /\ manifest' = [manifest EXCEPT ![m] = M] /\ M.status = a /\ M.parcels = n
              /\ M.printed = manifest[m].printed /\ M.total = manifest[m].total
<1> DEFINE old == manifest[m]
<1>0. old \in ManifestType
  BY DEF TypeInv
<1>1. CASE StatusSet(m, a, n)
  <2> DEFINE one == [old EXCEPT !.status = a]
             new == [one EXCEPT !.parcels = n]
  <2>1. manifest' = [manifest EXCEPT ![m] = new]
    BY <1>1 DEF StatusSet
  <2> HIDE DEF old
  <2>2. /\ one \in ManifestType /\ one.status = a /\ one.printed = old.printed
        /\ one.total = old.total
    BY <1>0 DEF ManifestType
  <2> HIDE DEF one
  <2>3. /\ new \in ManifestType /\ new.status = a /\ new.parcels = n
        /\ new.printed = old.printed /\ new.total = old.total
    BY <2>2 DEF ManifestType
  <2> HIDE DEF new
  <2> QED BY <2>1, <2>3 DEF old
<1>2. CASE ParcelsSet(m, a, n)
  <2> DEFINE one == [old EXCEPT !.parcels = n]
             new == [one EXCEPT !.status = a]
  <2>1. manifest' = [manifest EXCEPT ![m] = new]
    BY <1>2 DEF ParcelsSet
  <2> HIDE DEF old
  <2>2. /\ one \in ManifestType /\ one.parcels = n /\ one.printed = old.printed
        /\ one.total = old.total
    BY <1>0 DEF ManifestType
  <2> HIDE DEF one
  <2>3. /\ new \in ManifestType /\ new.status = a /\ new.parcels = n
        /\ new.printed = old.printed /\ new.total = old.total
    BY <2>2 DEF ManifestType
  <2> HIDE DEF new
  <2> QED BY <2>1, <2>3 DEF old
<1> QED BY <1>1, <1>2

LEMMA EditableIs ==
    ASSUME NEW m
    PROVE  /\ Editable(m) <=> manifest[m].status \in EditableStatuses
           /\ Editable(m) => ~ Printed(m) /\ Status(m) # "CANCELLED"
           /\ (Editable(m) <=> manifest[m].status \in EditableStatuses)'
           /\ (Editable(m) => ~ Printed(m) /\ Status(m) # "CANCELLED")'
BY DEF Editable, EditableStatuses, Printed, Status

LEMMA SaveKeeps ==
    ASSUME IInv, NEW w \in Stations, NEW m, request[w].manifest = m, Save(w)
    PROVE  Keeps
<1> DEFINE r == request[w]
           status == r.next.status # r.seen.status
           parcels == r.next.parcels # r.seen.parcels
           a == IF status THEN r.next.status ELSE manifest[m].status
           n == IF parcels THEN r.next.parcels ELSE manifest[m].parcels
<1>0. /\ TypeInv /\ r.step = "save" /\ m \in Manifests /\ RequestOk(r)
      /\ manifest[m] \in ManifestType /\ GoodOrder(m)
      /\ r.next.status \in EditableStatuses \cup {r.seen.status} /\ r.next.parcels \in Nat
  BY BusyIs DEF Save, TypeInv, RequestOk, IInv
<1>1. /\ manifest' = [manifest EXCEPT ![m].status = a, ![m].parcels = n]
      /\ request' = [request EXCEPT ![w] = Idle]
      /\ UNCHANGED <<bag, row, scans, corrections>>
  BY DEF Save, Finish
<1>2. raced' = IF \/ status /\ ~Editable(m)
                  \/ parcels /\ r.next.parcels # Cardinality(Packed(scans, m))
               THEN raced \cup {m} ELSE raced
  BY DEF Save, RacedIf
<1>3. a \in ManifestStatuses /\ n \in Nat /\ (status => a \in EditableStatuses)
  BY <1>0 DEF ManifestType, ManifestStatuses, EditableStatuses
<1>4. PICK M \in ManifestType :
           /\ manifest' = [manifest EXCEPT ![m] = M] /\ M.status = a /\ M.parcels = n
           /\ M.printed = manifest[m].printed /\ M.total = manifest[m].total
  <2> HIDE DEF a, n
  <2>1. TypeInv /\ m \in Manifests /\ a \in ManifestStatuses /\ n \in Nat
    BY <1>0, <1>3
  <2>2. StatusSet(m, a, n)
    BY <1>1 DEF StatusSet
  <2> HIDE DEF r, status, parcels
  <2> QED BY <2>1, <2>2, StatusAndParcels
<1>5. /\ Becomes(m, M, bag[m], row[m], scans) /\ Typed(m, M, bag[m], row[m], scans)
      /\ manifest'[m] = M
  BY <1>0, <1>1, <1>4 DEF Becomes, Typed, TypeInv
<1>6. m \notin raced' /\ M.status # "CANCELLED" => Tallied(m)'
  <2>1. SUFFICES ASSUME m \notin raced', M.status # "CANCELLED" PROVE Tallied(m)'
    OBVIOUS
  <2>2. /\ m \notin raced /\ (status => Editable(m))
        /\ (parcels => r.next.parcels = Cardinality(Packed(scans, m)))
    BY <1>2, <2>1
  <2>3. Status(m) # "CANCELLED"
    BY <1>4, <2>1, <2>2, EditableIs DEF Status
  <2>4. Tallied(m)
    BY <1>0, <2>2, <2>3 DEF GoodOrder
  <2>5. M.parcels = Cardinality(Packed(scans, m))
    BY <1>4, <2>2, <2>4 DEF Tallied
  <2>6. \A b \in Live(m) : bag[m][b].weight = Load(scans, m, b) \/ Owed(m, b)'
    BY <1>0, <1>1, <2>4, NoDebts, IdleIs DEF Tallied
  <2> QED BY <1>1, <1>5, <2>4, <2>5, <2>6 DEF Tallied, Live
<1>7. m \notin raced' /\ Printed(m)' => SealedOk(m)'
  <2>1. SUFFICES ASSUME m \notin raced', Printed(m)' PROVE SealedOk(m)'
    OBVIOUS
  <2>2. m \notin raced
    BY <1>2, <2>1
  <2>3. ~ status
    BY <1>3, <1>4, <1>5, <2>1, EditableIs
  <2>4. Printed(m)
    BY <1>4, <1>5, <2>1, <2>3 DEF Printed, Status
  <2> QED BY <1>0, <1>1, <1>4, <1>5, <2>2, <2>4, SealedSame DEF GoodOrder
<1>8. GoodOrder(m)'
  <2>1. InRow(m)' /\ OnRow(m)'
    BY <1>0, <1>1 DEF GoodOrder, InRow, OnRow, Opened
  <2> QED BY <1>5, <1>6, <1>7, <2>1 DEF GoodOrder, Status
<1>9. SealKept(m)
  <2>1. request'[w] = Idle
    BY <1>0, <1>1, StationMoves, IdleIs
  <2> QED BY <1>0, <2>1 DEF SealKept
<1>10. /\ NamedBy(request[w])' /\ (\A b \in Numbers : Opened(m, b) => Opened(m, b)')
       /\ corrections' \in 0 .. MaxCorrections
  BY <1>0, <1>1, IdleIs, IdleNames DEF Opened, TypeInv
<1> HIDE DEF status, parcels, r
<1>11. raced' = raced \/ raced' = raced \cup {m}
  BY <1>2
<1> QED BY <1>0, <1>1, <1>5, <1>8, <1>9, <1>10, <1>11, IdleIs, StationKeeps DEF r

LEMMA WriteBagsKeeps ==
    ASSUME IInv, NEW w \in Stations, NEW m, request[w].manifest = m, WriteBags(w)
    PROVE  Keeps
<1> DEFINE r == request[w]
           c == BagChange[r.kind]
           keeps(b) == r.kind \in {"closeAll", "reopenAll"} /\ bag[m][b].status \notin c.from
           B == [b \in Numbers |-> IF b \notin r.bags \/ keeps(b) THEN bag[m][b]
                                   ELSE [status |-> c.to, weight |-> bag[m][b].weight]]
           new == [step |-> "refresh", manifest |-> m]
<1>0. /\ TypeInv /\ r.step = "bags" /\ m \in Manifests /\ RequestOk(r)
      /\ bag[m] \in [Numbers -> BagType] /\ GoodOrder(m)
      /\ r.bags \in SUBSET Numbers /\ r.kind \in DOMAIN BagChange
      /\ \A b \in r.bags : Opened(m, b)
  BY BusyIs DEF WriteBags, TypeInv, RequestOk, IInv, NamedBy
<1>1. /\ bag' = [bag EXCEPT ![m] = B] /\ request' = [request EXCEPT ![w] = new]
      /\ UNCHANGED <<manifest, row, scans, corrections>>
  BY DEF WriteBags
<1>2. raced' = IF \/ ~Editable(m)
                  \/ \E b \in r.bags : ~keeps(b) /\ bag[m][b].status \notin c.from
               THEN raced \cup {m} ELSE raced
  BY DEF WriteBags, RacedIf
<1>3. /\ c.to \in BagStatuses \ {"NONE", "CANCELLED"}
      /\ c.from \subseteq BagStatuses \ {"NONE", "CANCELLED"}
  BY <1>0 DEF BagChange, BagStatuses, Open, Shut
<1>4. ASSUME NEW b \in Numbers
      PROVE  /\ B[b] \in BagType /\ B[b].weight = bag[m][b].weight
             /\ B[b].status = IF b \notin r.bags \/ keeps(b) THEN bag[m][b].status ELSE c.to
  <2>1. bag[m][b] \in BagType
    BY <1>0
  <2> HIDE DEF c, keeps
  <2> QED BY <1>3, <2>1 DEF BagType, c
<1>5. B \in [Numbers -> BagType]
  BY <1>4
<1> HIDE DEF B
<1>6. /\ Becomes(m, manifest[m], B, row[m], scans) /\ Typed(m, manifest[m], B, row[m], scans)
      /\ bag'[m] = B /\ manifest'[m] = manifest[m]
  BY <1>0, <1>1, <1>5 DEF Becomes, Typed, TypeInv
<1>7. RequestOk(new) /\ new.step = "refresh"
  BY <1>0 DEF RequestOk, Steps
<1>8. \A b \in Numbers : Opened(m, b) <=> Opened(m, b)'
  BY <1>0, <1>3, <1>4, <1>6 DEF Opened
<1> HIDE DEF new
<1>9. ASSUME m \notin raced' PROVE ~ Printed(m)' /\ Tallied(m)'
  <2>1. /\ m \notin raced /\ Editable(m)
        /\ \A b \in r.bags : keeps(b) \/ bag[m][b].status \in c.from
    BY <1>2, <1>9
  <2>2. Tallied(m) /\ ~ Printed(m)
    BY <1>0, <2>1, EditableIs DEF GoodOrder
  <2>3. Live(m)' = Live(m)
    BY <1>3, <1>4, <1>6, <2>1 DEF Live
  <2>4. \A b \in Live(m) : bag[m][b].weight = Load(scans, m, b) \/ Owed(m, b)'
    BY <1>0, <1>1, <1>7, <2>2, NoDebts DEF Tallied
  <2>5. Tallied(m)'
    BY <1>1, <1>4, <1>6, <2>2, <2>3, <2>4 DEF Tallied, Live
  <2> QED BY <1>6, <2>2, <2>5 DEF Printed, Status
<1>10. GoodOrder(m)'
  <2>1. InRow(m)'
    BY <1>0, <1>8 DEF GoodOrder, InRow
  <2>2. OnRow(m)'
    BY <1>0, <1>1 DEF GoodOrder, OnRow
  <2> QED BY <1>9, <2>1, <2>2 DEF GoodOrder
<1>11. SealKept(m)
  BY <1>6 DEF SealKept, Status
<1>12. NamedBy(request[w])' /\ corrections' \in 0 .. MaxCorrections
  BY <1>0, <1>1, <1>7, IdleNames DEF TypeInv
<1> HIDE DEF c, keeps, r
<1>13. raced' = raced \/ raced' = raced \cup {m}
  BY <1>2
<1> QED BY <1>0, <1>1, <1>6, <1>7, <1>8, <1>10, <1>11, <1>12, <1>13, StationKeeps DEF r

LEMMA TallyKeeps ==
    ASSUME IInv, NEW w \in Stations, NEW m, request[w].manifest = m, Tally(w)
    PROVE  Keeps
<1> DEFINE r == request[w]
           status == IF Editable(m) THEN PackingStatus(r.parcels, r.statuses)
                     ELSE Status(m)
           B == [b \in Numbers |->
                   IF b \notin DOMAIN r.weights THEN bag[m][b]
                   ELSE [status |-> bag[m][b].status, weight |-> r.weights[b]]]
           new == [step |-> "save", manifest |-> m, seen |-> Seen(m),
                   next |-> [status |-> status, parcels |-> r.parcels]]
<1>0. /\ TypeInv /\ r.step = "tally" /\ m \in Manifests /\ RequestOk(r)
      /\ bag[m] \in [Numbers -> BagType] /\ GoodOrder(m) /\ r.parcels \in Nat
      /\ \A b \in DOMAIN r.weights : r.weights[b] \in Nat
  BY BusyIs DEF Tally, TypeInv, RequestOk, IInv
<1>1. /\ bag' = [bag EXCEPT ![m] = B] /\ request' = [request EXCEPT ![w] = new]
      /\ UNCHANGED <<manifest, row, scans, corrections>>
  BY DEF Tally
<1>2. raced' = IF \E b \in DOMAIN r.weights : r.weights[b] # Load(scans, m, b)
               THEN raced \cup {m} ELSE raced
  BY DEF Tally, RacedIf
<1>4. ASSUME NEW b \in Numbers
      PROVE  /\ B[b] \in BagType /\ B[b].status = bag[m][b].status
             /\ B[b].weight = IF b \in DOMAIN r.weights THEN r.weights[b]
                              ELSE bag[m][b].weight
  <2>1. bag[m][b] \in BagType
    BY <1>0
  <2> QED BY <1>0, <2>1 DEF BagType
<1>5. B \in [Numbers -> BagType]
  BY <1>4
<1> HIDE DEF B
<1>6. /\ Becomes(m, manifest[m], B, row[m], scans) /\ Typed(m, manifest[m], B, row[m], scans)
      /\ bag'[m] = B /\ manifest'[m] = manifest[m]
  BY <1>0, <1>1, <1>5 DEF Becomes, Typed, TypeInv
<1>7. RequestOk(new) /\ new.step = "save"
  <2>1. status \in EditableStatuses \cup {Seen(m).status}
    BY PackingStatusIs DEF Seen
  <2> HIDE DEF status
  <2> QED BY <1>0, <2>1 DEF RequestOk, Steps
<1> HIDE DEF new
<1>8. \A b \in Numbers : Opened(m, b) <=> Opened(m, b)'
  BY <1>4, <1>6 DEF Opened
<1>9. ASSUME m \notin raced', Tallied(m) PROVE Tallied(m)'
  <2>1. \A b \in DOMAIN r.weights : r.weights[b] = Load(scans, m, b)
    BY <1>2, <1>9
  <2>2. Live(m)' = Live(m)
    BY <1>4, <1>6 DEF Live
  <2>3. \A v \in Stations : v # w => request'[v] = request[v]
    BY <1>0, <1>1, <1>7, StationMoves
  <2>4. ASSUME NEW b \in Live(m) PROVE bag'[m][b].weight = Load(scans, m, b) \/ Owed(m, b)'
    <3>0. b \in Numbers
      BY DEF Live
    <3>1. CASE b \in DOMAIN r.weights
      BY <1>4, <1>6, <2>1, <3>0, <3>1
    <3>2. CASE b \notin DOMAIN r.weights /\ Owed(m, b)
      <4>1. PICK v \in Stations : /\ request[v].manifest = m
                                  /\ \/ request[v].step = "recount"
                                     \/ /\ request[v].step = "tally"
                                        /\ b \in DOMAIN request[v].weights
        BY <3>2 DEF Owed
      <4>2. request'[v] = request[v]
        BY <1>0, <2>3, <3>2, <4>1
      <4> QED BY <4>1, <4>2 DEF Owed
    <3>3. CASE b \notin DOMAIN r.weights /\ ~ Owed(m, b)
      BY <1>4, <1>6, <1>9, <3>0, <3>3 DEF Tallied
    <3> QED BY <3>1, <3>2, <3>3
  <2> QED BY <1>1, <1>6, <1>9, <2>2, <2>4 DEF Tallied
<1>10. GoodOrder(m)'
  <2>1. InRow(m)'
    BY <1>0, <1>8 DEF GoodOrder, InRow
  <2>2. OnRow(m)'
    BY <1>0, <1>1 DEF GoodOrder, OnRow
  <2>3. m \notin raced' => m \notin raced
    BY <1>2
  <2>4. SealedOk(m) => SealedOk(m)'
    BY <1>0, <1>1, <1>4, <1>6, SealedSame
  <2> QED BY <1>0, <1>6, <1>9, <2>1, <2>2, <2>3, <2>4 DEF GoodOrder, Status, Printed
<1>11. SealKept(m)
  BY <1>6 DEF SealKept, Status
<1>12. NamedBy(request[w])' /\ corrections' \in 0 .. MaxCorrections
  BY <1>0, <1>1, <1>7, IdleNames DEF TypeInv
<1>13. raced' = raced \/ raced' = raced \cup {m}
  BY <1>2
<1> HIDE DEF r
<1> QED BY <1>0, <1>1, <1>6, <1>7, <1>8, <1>10, <1>11, <1>12, <1>13, StationKeeps DEF r

-----------------------------------------------------------------------------
(* recalculateTotals inside a transaction                                  *)

LEMMA RecountedIs ==
    ASSUME NEW m, NEW bs \in [Numbers -> BagType], NEW ss
    PROVE  /\ Recounted(m, bs, ss) \in [Numbers -> BagType]
           /\ \A b \in Numbers :
                 /\ Recounted(m, bs, ss)[b].status = bs[b].status
                 /\ bs[b].status \notin Gone =>
                       Recounted(m, bs, ss)[b].weight = Load(ss, m, b)
<1> DEFINE B == Recounted(m, bs, ss)
<1>1. ASSUME NEW b \in Numbers
      PROVE  /\ B[b] \in BagType /\ B[b].status = bs[b].status
             /\ bs[b].status \notin Gone => B[b].weight = Load(ss, m, b)
  <2>1. bs[b] \in BagType /\ Load(ss, m, b) \in Nat
    BY LoadIs
  <2>2. CASE bs[b].status \in Gone
    <3>1. B[b] = bs[b]
      BY <2>2 DEF Recounted, Gone
    <3> QED BY <2>1, <2>2, <3>1
  <2>3. CASE bs[b].status \notin Gone
    <3>1. B[b] = [status |-> bs[b].status, weight |-> Load(ss, m, b)]
      BY <2>3 DEF Recounted, Gone
    <3> QED BY <2>1, <3>1 DEF BagType
  <2> QED BY <2>2, <2>3
<1>2. DOMAIN B = Numbers /\ B = [b \in Numbers |-> B[b]]
  BY DEF Recounted
<1> HIDE DEF B
<1>3. B \in [Numbers -> BagType]
  BY <1>1, <1>2
<1> QED BY <1>1, <1>3 DEF B

LEMMA CountNat ==
    ASSUME TypeInv, NEW ss \in SUBSET scans, NEW m
    PROVE  Cardinality(Packed(ss, m)) \in Nat
<1> DEFINE P == Packed(ss, m)
<1>0. \A x \in P : x.parcel \in Parcels
  BY ScanIs DEF Packed
<1>2. \A x, y \in P : x.parcel = y.parcel => x = y
  BY DEF TypeInv, Packed
<1> HIDE DEF P
<1>3. IsFiniteSet(P)
  BY <1>0, <1>2, CountIs
<1>1. IsFiniteSet(Packed(ss, m))
  BY <1>3 DEF P
<1> QED BY <1>1, FS_CardinalityType

LEMMA TotalledIs ==
    ASSUME TypeInv, NEW m \in Manifests, NEW bs, NEW ss \in SUBSET scans
    PROVE  LET M == Totalled(m, bs, ss) IN
           /\ M \in ManifestType /\ M.parcels = Cardinality(Packed(ss, m))
           /\ M.printed = manifest[m].printed /\ M.total = manifest[m].total
           /\ IF Editable(m) THEN M.status \in EditableStatuses
              ELSE M.status = manifest[m].status
<1> DEFINE old == manifest[m]
           n == Cardinality(Packed(ss, m))
           a == IF Editable(m) THEN PackingStatus(n, Statuses(bs)) ELSE old.status
           M == Totalled(m, bs, ss)
           one == [old EXCEPT !.parcels = n]
<1>1. old \in ManifestType /\ n \in Nat
  BY CountNat DEF TypeInv
<1>2. a \in ManifestStatuses /\ (Editable(m) => a \in EditableStatuses)
  BY <1>1, PackingStatusIs DEF ManifestType, ManifestStatuses, EditableStatuses
<1>3. ~ Editable(m) => a = old.status
  OBVIOUS
<1>4. M = [one EXCEPT !.status = a]
  BY DEF Totalled
<1> HIDE DEF old, n, a, M
<1>5. /\ one \in ManifestType /\ one.parcels = n /\ one.printed = old.printed
      /\ one.total = old.total
  BY <1>1 DEF ManifestType
<1> HIDE DEF one
<1>6. /\ M \in ManifestType /\ M.parcels = n /\ M.printed = old.printed
      /\ M.total = old.total /\ M.status = a
  BY <1>2, <1>4, <1>5 DEF ManifestType
<1>7. old = manifest[m] /\ n = Cardinality(Packed(ss, m)) /\ M = Totalled(m, bs, ss)
  BY DEF old, n, M
<1> QED BY <1>2, <1>3, <1>6, <1>7

\* Bags, scans and rows that agree, from which m is recounted.
Agree(m, bs, ss, R) ==
    /\ bs \in [Numbers -> BagType] /\ ss \in SUBSET scans
    /\ R \in [Shipments -> RowType] /\ \A s \in Shipments : R[s].scanned \subseteq Pieces(s)
    /\ \A n \in Manifests : n # m => Packed(ss, n) = Packed(scans, n)
    /\ \A x \in Packed(ss, m) : LET s == ShipmentOf[x.parcel] IN
           R[s].status = "ACTIVE" /\ x.parcel \in R[s].scanned
    /\ \E last \in 0 .. MaxBags : \A b \in Numbers : bs[b].status # "NONE" <=> b <= last
    /\ \A b \in Numbers : Opened(m, b) => bs[b].status # "NONE"
    /\ Tallied(m) => \A x \in Packed(ss, m) : bs[x.bag].status \notin Gone

LEMMA RecalculateGood ==
    ASSUME IInv, NEW m \in Manifests, NEW bs, NEW ss, NEW R, Agree(m, bs, ss, R),
           Recalculate(m, bs, ss), row' = [row EXCEPT ![m] = R],
           m \notin raced' => m \notin raced /\ Editable(m)
    PROVE  /\ Becomes(m, Totalled(m, bs, ss), Recounted(m, bs, ss), R, ss)
           /\ Typed(m, Totalled(m, bs, ss), Recounted(m, bs, ss), R, ss)
           /\ GoodOrder(m)' /\ SealKept(m)
           /\ \A b \in Numbers : Opened(m, b) => Opened(m, b)'
<1> DEFINE M == Totalled(m, bs, ss)
           B == Recounted(m, bs, ss)
<1>0. TypeInv /\ GoodOrder(m)
  BY DEF IInv
<1>20. /\ bs \in [Numbers -> BagType] /\ ss \in SUBSET scans
       /\ R \in [Shipments -> RowType]
       /\ \A s \in Shipments : R[s].scanned \subseteq Pieces(s)
       /\ \A n \in Manifests : n # m => Packed(ss, n) = Packed(scans, n)
  BY DEF Agree
<1>21. /\ \A x \in Packed(ss, m) : LET s == ShipmentOf[x.parcel] IN
             R[s].status = "ACTIVE" /\ x.parcel \in R[s].scanned
       /\ \E last \in 0 .. MaxBags : \A b \in Numbers : bs[b].status # "NONE" <=> b <= last
       /\ \A b \in Numbers : Opened(m, b) => bs[b].status # "NONE"
       /\ Tallied(m) => \A x \in Packed(ss, m) : bs[x.bag].status \notin Gone
  BY DEF Agree
<1>1. /\ M \in ManifestType /\ M.parcels = Cardinality(Packed(ss, m))
      /\ M.printed = manifest[m].printed /\ M.total = manifest[m].total
      /\ IF Editable(m) THEN M.status \in EditableStatuses
         ELSE M.status = manifest[m].status
  BY <1>0, <1>20, TotalledIs
<1>2. /\ B \in [Numbers -> BagType]
      /\ \A b \in Numbers : /\ B[b].status = bs[b].status
                            /\ bs[b].status \notin Gone => B[b].weight = Load(ss, m, b)
  BY <1>20, RecountedIs
<1>3. manifest' = [manifest EXCEPT ![m] = M] /\ bag' = [bag EXCEPT ![m] = B] /\ scans' = ss
  BY DEF Recalculate
<1>9. M = Totalled(m, bs, ss) /\ B = Recounted(m, bs, ss)
  OBVIOUS
<1> HIDE DEF M, B
<1>4. Becomes(m, M, B, R, ss)
  BY <1>3 DEF Becomes
<1>5. Typed(m, M, B, R, ss)
  BY <1>0, <1>1, <1>2, <1>20 DEF Typed, TypeInv
<1>6. manifest'[m] = M /\ bag'[m] = B /\ row'[m] = R /\ scans' = ss
  BY <1>0, <1>4, <1>5, DocsMoved
<1>7. \A b \in Numbers : Opened(m, b)' <=> bs[b].status # "NONE"
  BY <1>2, <1>6 DEF Opened
<1>8. InRow(m)' /\ OnRow(m)'
  <2>1. InRow(m)'
    BY <1>7, <1>21 DEF InRow
  <2>2. OnRow(m)'
    BY <1>6, <1>21 DEF OnRow, Packed
  <2> QED BY <2>1, <2>2
<1>10. ASSUME m \notin raced' PROVE Tallied(m)' /\ ~ Printed(m)'
  <2>1. m \notin raced /\ Editable(m)
    BY <1>10
  <2>2. Tallied(m)
    BY <1>0, <2>1, EditableIs DEF GoodOrder
  <2>3. ~ Printed(m)'
    BY <1>1, <1>6, <2>1, EditableIs
  <2>4. \A b \in Live(m)' : bag'[m][b].weight = Load(scans', m, b)
    BY <1>2, <1>6 DEF Live, Gone
  <2>5. \A x \in Packed(scans', m) : x.bag \in Live(m)'
    <3>1. ASSUME NEW x \in Packed(ss, m) PROVE x.bag \in Numbers /\ bs[x.bag].status \notin Gone
      BY <1>0, <1>20, <1>21, <2>2, ScanIs DEF Packed
    <3> QED BY <1>2, <1>6, <3>1 DEF Live, Gone
  <2>6. manifest'[m].parcels = Cardinality(Packed(scans', m))
    BY <1>1, <1>6
  <2> QED BY <2>3, <2>4, <2>5, <2>6 DEF Tallied, Packed
<1>11. GoodOrder(m)'
  BY <1>8, <1>10 DEF GoodOrder
<1>12. SealKept(m)
  BY <1>1, <1>6, EditableIs DEF SealKept, Status
<1> QED BY <1>4, <1>5, <1>7, <1>9, <1>11, <1>12, <1>21

-----------------------------------------------------------------------------
(* Parcels taken out again                                                 *)

LEMMA UnscannedIs ==
    ASSUME TypeInv, NEW m \in Manifests, NEW ps
    PROVE  LET R == Unscanned(m, ps) IN
           /\ R \in [Shipments -> RowType]
           /\ \A s \in Shipments :
                 /\ R[s].scanned = row[m][s].scanned \ ps
                 /\ R[s].scanned # {} => R[s].status = row[m][s].status
<1> DEFINE R == Unscanned(m, ps)
<1>1. ASSUME NEW s \in Shipments
      PROVE  /\ R[s] \in RowType /\ R[s].scanned = row[m][s].scanned \ ps
             /\ R[s].scanned # {} => R[s].status = row[m][s].status
  <2> DEFINE old == row[m][s]
             left == old.scanned \ ps
             state == IF left = {} THEN "REMOVED" ELSE old.status
  <2>1. old \in RowType
    BY DEF TypeInv
  <2>2. CASE old.scanned \cap ps = {}
    <3>1. R[s] = old
      BY <2>2 DEF Unscanned
    <3>2. left = old.scanned
      BY <2>2
    <3> QED BY <2>1, <3>1, <3>2
  <2>3. CASE old.scanned \cap ps # {}
    <3> DEFINE one == [old EXCEPT !.scanned = left]
    <3>1. R[s] = [one EXCEPT !.status = state]
      BY <2>3 DEF Unscanned
    <3>2. left \in SUBSET Parcels /\ state \in {"NONE", "ACTIVE", "REMOVED"}
      BY <2>1 DEF RowType
    <3>3. left # {} => state = old.status
      OBVIOUS
    <3>4. left = old.scanned \ ps
      OBVIOUS
    <3> HIDE DEF left, state, old, R
    <3>5. one \in RowType /\ one.scanned = left
      BY <2>1, <3>2 DEF RowType
    <3> HIDE DEF one
    <3>6. R[s] \in RowType /\ R[s].scanned = left /\ R[s].status = state
      BY <3>1, <3>2, <3>5 DEF RowType
    <3> QED BY <3>3, <3>4, <3>6 DEF old
  <2> QED BY <2>2, <2>3
<1>2. DOMAIN R = Shipments /\ R = [s \in Shipments |-> R[s]]
  BY DEF Unscanned
<1> HIDE DEF R
<1>3. R \in [Shipments -> RowType]
  BY <1>1, <1>2
<1> QED BY <1>1, <1>3 DEF R

\* The scans of out are released by a request of station w.
LEMMA ReleaseKeeps ==
    ASSUME IInv, NEW w \in Stations, NEW m \in Manifests, request[w].manifest = m,
           NEW out \in SUBSET Packed(scans, m), NEW bs \in [Numbers -> BagType],
           Recalculate(m, bs, scans \ out),
           row' = [row EXCEPT ![m] = Unscanned(m, ParcelsOf(out))],
           request' = [request EXCEPT ![w] = Idle], UNCHANGED corrections,
           raced' = IF ~Editable(m) THEN raced \cup {m} ELSE raced,
           \A b \in Numbers : bs[b].status = "NONE" <=> ~ Opened(m, b),
           \A x \in Packed(scans \ out, m) :
              bag[m][x.bag].status \notin Gone => bs[x.bag].status \notin Gone
    PROVE  Keeps
<1> DEFINE ss == scans \ out
           R == Unscanned(m, ParcelsOf(out))
<1>0. TypeInv /\ GoodOrder(m) /\ scans \in SUBSET ScanType
      /\ (\A x, y \in scans : x.parcel = y.parcel => x = y)
      /\ \A s \in Shipments : row[m][s].scanned \subseteq Pieces(s)
  BY DEF IInv, TypeInv
<1>1. /\ R \in [Shipments -> RowType]
      /\ \A s \in Shipments : /\ R[s].scanned = row[m][s].scanned \ ParcelsOf(out)
                              /\ R[s].scanned # {} => R[s].status = row[m][s].status
  BY <1>0, UnscannedIs
<1> HIDE DEF R
<1>2. \A s \in Shipments : R[s].scanned \subseteq Pieces(s)
  BY <1>0, <1>1
<1>3. \A n \in Manifests : n # m => Packed(ss, n) = Packed(scans, n)
  BY DEF Packed
<1>4. ASSUME NEW x \in Packed(ss, m)
      PROVE  /\ x \in Packed(scans, m)
             /\ LET s == ShipmentOf[x.parcel] IN
                   R[s].status = "ACTIVE" /\ x.parcel \in R[s].scanned
  <2> DEFINE s == ShipmentOf[x.parcel]
  <2>1. x \in Packed(scans, m) /\ x \notin out /\ x \in scans
    BY DEF Packed
  <2>2. x.parcel \notin ParcelsOf(out)
    BY <1>0, <2>1 DEF ParcelsOf, Packed
  <2>3. s \in Shipments
    BY <1>0, <2>1, ScanIs, PackingAssumption
  <2>4. row[m][s].status = "ACTIVE" /\ x.parcel \in row[m][s].scanned
    BY <1>0, <2>1 DEF GoodOrder, OnRow
  <2>5. x.parcel \in R[s].scanned
    BY <1>1, <2>2, <2>3, <2>4
  <2>6. R[s].status = "ACTIVE"
    BY <1>1, <2>3, <2>4, <2>5
  <2> QED BY <2>1, <2>5, <2>6
<1>5. \E last \in 0 .. MaxBags : \A b \in Numbers : bs[b].status # "NONE" <=> b <= last
  BY <1>0 DEF GoodOrder, InRow
<1>6. Tallied(m) => \A x \in Packed(ss, m) : bs[x.bag].status \notin Gone
  BY <1>4 DEF Tallied, Live, Gone
<1>7. m \notin raced' => m \notin raced /\ Editable(m)
  OBVIOUS
<1> DEFINE M == Totalled(m, bs, ss)
           B == Recounted(m, bs, ss)
<1>8. ss \in SUBSET scans /\ Recalculate(m, bs, ss) /\ row' = [row EXCEPT ![m] = R]
  BY DEF R
<1>12. \A x \in Packed(ss, m) : LET s == ShipmentOf[x.parcel] IN
          R[s].status = "ACTIVE" /\ x.parcel \in R[s].scanned
  BY <1>4
<1>14. \A b \in Numbers : Opened(m, b) => bs[b].status # "NONE"
  OBVIOUS
<1>15. Agree(m, bs, ss, R)
  BY <1>1, <1>2, <1>3, <1>5, <1>6, <1>8, <1>12, <1>14 DEF Agree
<1> HIDE DEF ss, M, B
<1>13. /\ Becomes(m, Totalled(m, bs, ss), Recounted(m, bs, ss), R, ss)
       /\ Typed(m, Totalled(m, bs, ss), Recounted(m, bs, ss), R, ss)
       /\ GoodOrder(m)' /\ SealKept(m)
       /\ \A b \in Numbers : Opened(m, b) => Opened(m, b)'
  BY <1>7, <1>8, <1>15, RecalculateGood
<1>9. /\ Becomes(m, M, B, R, ss) /\ Typed(m, M, B, R, ss)
      /\ GoodOrder(m)' /\ SealKept(m)
      /\ \A b \in Numbers : Opened(m, b) => Opened(m, b)'
  BY <1>13 DEF M, B
<1>10. NamedBy(request[w])' /\ corrections' \in 0 .. MaxCorrections
  BY <1>0, IdleIs, IdleNames DEF TypeInv
<1>11. raced' = raced \/ raced' = raced \cup {m}
  OBVIOUS
<1> QED BY <1>9, <1>10, <1>11, IdleIs, StationKeeps

LEMMA RemoveScanKeeps ==
    ASSUME IInv, NEW w \in Stations, NEW m, request[w].manifest = m, RemoveScan(w)
    PROVE  Keeps
<1> DEFINE r == request[w]
           found == {x \in scans : x.parcel = r.scan.parcel /\ x.manifest = m}
<1>1. /\ TypeInv /\ m \in Manifests /\ bag[m] \in [Numbers -> BagType]
      /\ RequestOk(request[w]) /\ request[w].step = "remove" /\ raced \in SUBSET Manifests
      /\ corrections \in 0 .. MaxCorrections
  BY BusyIs DEF RemoveScan, TypeInv
<1>2. request' = [request EXCEPT ![w] = Idle] /\ UNCHANGED corrections
  BY DEF RemoveScan, Finish
<1>3. CASE found # {} /\ \A x \in found : bag[m][x.bag].status # "CLOSED"
  <2>1. /\ row' = [row EXCEPT ![m] = Unscanned(m, ParcelsOf(found))]
        /\ Recalculate(m, bag[m], scans \ found)
        /\ raced' = IF ~Editable(m) THEN raced \cup {m} ELSE raced
    BY <1>3 DEF RemoveScan, RacedIf
  <2>2. found \in SUBSET Packed(scans, m)
    BY DEF Packed
  <2>3. \A b \in Numbers : bag[m][b].status = "NONE" <=> ~ Opened(m, b)
    BY DEF Opened
  <2> HIDE DEF found
  <2> QED BY <1>1, <1>2, <2>1, <2>2, <2>3, ReleaseKeeps
<1>4. CASE ~ (found # {} /\ \A x \in found : bag[m][x.bag].status # "CLOSED")
  <2>1. UNCHANGED <<manifest, bag, row, scans, raced>>
    BY <1>4 DEF RemoveScan
  <2>2. NamedBy(request[w])'
    BY <1>1, <1>2, IdleIs, IdleNames
  <2> QED BY <1>1, <1>2, <2>1, <2>2, IdleIs, FreeKeeps
<1> QED BY <1>3, <1>4

LEMMA CancelBagKeeps ==
    ASSUME IInv, NEW w \in Stations, NEW m, request[w].manifest = m, CancelBag(w)
    PROVE  Keeps
<1> DEFINE k == request[w].bag
           held == {x \in Packed(scans, m) : x.bag = k}
           bs == [bag[m] EXCEPT ![k].status = "CANCELLED"]
<1>1. /\ TypeInv /\ m \in Manifests /\ bag[m] \in [Numbers -> BagType]
      /\ k \in Numbers /\ Opened(m, k)
  BY BusyIs DEF CancelBag, TypeInv, RequestOk, NamedBy
<1>2. /\ request' = [request EXCEPT ![w] = Idle] /\ UNCHANGED corrections
      /\ row' = [row EXCEPT ![m] = Unscanned(m, ParcelsOf(held))]
      /\ Recalculate(m, bs, scans \ held)
      /\ raced' = IF ~Editable(m) THEN raced \cup {m} ELSE raced
  BY DEF CancelBag, Finish, RacedIf
<1>3. held \in SUBSET Packed(scans, m)
  OBVIOUS
<1>4. /\ bs \in [Numbers -> BagType] /\ bs[k].status = "CANCELLED"
      /\ \A b \in Numbers : b # k => bs[b] = bag[m][b]
  <2> DEFINE old == bag[m]
             one == [old[k] EXCEPT !.status = "CANCELLED"]
  <2>1. bs = [old EXCEPT ![k] = one] /\ old \in [Numbers -> BagType] /\ old[k] \in BagType
    BY <1>1
  <2>2. one \in BagType /\ one.status = "CANCELLED"
    BY <2>1 DEF BagType, BagStatuses
  <2>3. old = bag[m]
    OBVIOUS
  <2> HIDE DEF old, one, bs
  <2> QED BY <1>1, <2>1, <2>2, <2>3
<1>5. \A x \in Packed(scans \ held, m) : x.bag \in Numbers /\ x.bag # k
  BY <1>1, ScanIs DEF Packed
<1> HIDE DEF held, bs, k
<1>6. \A b \in Numbers : bs[b].status = "NONE" <=> ~ Opened(m, b)
  BY <1>1, <1>4 DEF Opened
<1>7. \A x \in Packed(scans \ held, m) :
         bag[m][x.bag].status \notin Gone => bs[x.bag].status \notin Gone
  BY <1>4, <1>5
<1> QED BY <1>1, <1>2, <1>3, <1>4, <1>6, <1>7, ReleaseKeeps

-----------------------------------------------------------------------------
(* Requests that are one transaction                                       *)

\* They leave the requests of the stations alone.
LEMMA AtOnceKeeps ==
    ASSUME IInv, NEW m \in Manifests, NEW M, NEW B, NEW R, NEW ss,
           Becomes(m, M, B, R, ss), Typed(m, M, B, R, ss),
           UNCHANGED <<request, corrections>>, raced' = raced \/ raced' = raced \cup {m},
           \A b \in Numbers : Opened(m, b) => Opened(m, b)',
           GoodOrder(m)', SealKept(m)
    PROVE  Keeps
<1>1. TypeInv /\ Named /\ corrections \in 0 .. MaxCorrections
  BY DEF IInv, TypeInv
<1>2. RequestsOk'
  BY <1>1 DEF TypeInv, RequestsOk
<1>3. \A n \in Manifests, b \in Numbers : Opened(n, b) => Opened(n, b)'
  <2>1. \A n \in Manifests : n # m => Same(n)
    BY <1>1, DocsMoved
  <2> QED BY <2>1 DEF Same, Opened
<1>4. Named'
  <2>1. ASSUME NEW v \in Stations, request[v].step = "bags", NEW b \in request[v].bags
        PROVE  Opened(request[v].manifest, b)'
    <3>1. b \in Numbers /\ request[v].manifest \in Manifests /\ Opened(request[v].manifest, b)
      BY <1>1, <2>1 DEF TypeInv, RequestOk, Named
    <3>2. bag'[request[v].manifest][b].status # "NONE"
      BY <1>3, <3>1 DEF Opened
    <3> QED BY <3>2 DEF Opened
  <2>2. ASSUME NEW v \in Stations, request[v].step = "cancelBag"
        PROVE  Opened(request[v].manifest, request[v].bag)'
    <3>1. /\ request[v].bag \in Numbers /\ request[v].manifest \in Manifests
          /\ Opened(request[v].manifest, request[v].bag)
      BY <1>1, <2>2 DEF TypeInv, RequestOk, Named
    <3>2. bag'[request[v].manifest][request[v].bag].status # "NONE"
      BY <1>3, <3>1 DEF Opened
    <3> QED BY <3>2 DEF Opened
  <2> QED BY <2>1, <2>2 DEF Named, Opened
<1>5. DebtsKept(m)
  BY DEF DebtsKept, Owed
<1> QED BY <1>1, <1>2, <1>4, <1>5, OneKeeps

LEMMA RecalculateKeeps ==
    ASSUME IInv, NEW m \in Manifests, NEW bs \in [Numbers -> BagType], Editable(m),
           Recalculate(m, bs, scans), UNCHANGED <<row, request, corrections, raced>>,
           \E last \in 0 .. MaxBags : \A b \in Numbers : bs[b].status # "NONE" <=> b <= last,
           \A b \in Numbers : Opened(m, b) => bs[b].status # "NONE",
           \A b \in Numbers : bag[m][b].status \notin Gone => bs[b].status \notin Gone
    PROVE  Keeps
<1> DEFINE R == row[m]
           M == Totalled(m, bs, scans)
           B == Recounted(m, bs, scans)
<1>1. /\ TypeInv /\ GoodOrder(m) /\ R \in [Shipments -> RowType]
      /\ \A s \in Shipments : R[s].scanned \subseteq Pieces(s)
      /\ row' = [row EXCEPT ![m] = R]
  BY DEF IInv, TypeInv
<1>2. \A x \in Packed(scans, m) : LET s == ShipmentOf[x.parcel] IN
          R[s].status = "ACTIVE" /\ x.parcel \in R[s].scanned
  BY <1>1 DEF GoodOrder, OnRow
<1>3. Tallied(m) => \A x \in Packed(scans, m) : bs[x.bag].status \notin Gone
  BY DEF Tallied, Live, Gone
<1> HIDE DEF R, M, B
<1>4. Agree(m, bs, scans, R)
  BY <1>1, <1>2, <1>3 DEF Agree
<1>5. /\ Becomes(m, Totalled(m, bs, scans), Recounted(m, bs, scans), R, scans)
      /\ Typed(m, Totalled(m, bs, scans), Recounted(m, bs, scans), R, scans)
      /\ GoodOrder(m)' /\ SealKept(m) /\ \A b \in Numbers : Opened(m, b) => Opened(m, b)'
  BY <1>1, <1>4, RecalculateGood
<1>6. Becomes(m, M, B, R, scans) /\ Typed(m, M, B, R, scans)
  BY <1>5 DEF M, B
<1> QED BY <1>5, <1>6, AtOnceKeeps

\* A bag becomes this one.
LEMMA BagSet ==
    ASSUME NEW old \in [Numbers -> BagType], NEW k \in Numbers, NEW new \in BagType,
           NEW bs, bs = [old EXCEPT ![k] = new]
    PROVE  /\ bs \in [Numbers -> BagType] /\ bs[k] = new
           /\ \A b \in Numbers : b # k => bs[b] = old[b]
OBVIOUS

LEMMA MarkReadyKeeps ==
    ASSUME IInv, NEW m \in Manifests, NEW k \in Numbers, MarkReady(m, k)
    PROVE  Keeps
<1> DEFINE old == bag[m]
           one == [old[k] EXCEPT !.status = "READY"]
           bs == [old EXCEPT ![k].status = "READY"]
<1>1. old \in [Numbers -> BagType] /\ old[k] \in BagType /\ old[k].status = "CLOSED" /\ InRow(m)
  BY DEF MarkReady, IInv, TypeInv, GoodOrder
<1>2. /\ Editable(m) /\ Recalculate(m, bs, scans)
      /\ UNCHANGED <<row, request, corrections, raced>>
  BY DEF MarkReady
<1>3. bs = [old EXCEPT ![k] = one] /\ old = bag[m]
  OBVIOUS
<1> HIDE DEF old
<1>4. one \in BagType /\ one.status = "READY"
  BY <1>1 DEF BagType, BagStatuses, Shut
<1> HIDE DEF one, bs
<1>5. /\ bs \in [Numbers -> BagType] /\ bs[k] = one
      /\ \A b \in Numbers : b # k => bs[b] = old[b]
  BY <1>1, <1>3, <1>4, BagSet
<1>6. \A b \in Numbers : /\ bs[b].status # "NONE" <=> Opened(m, b)
                         /\ bag[m][b].status \notin Gone => bs[b].status \notin Gone
  BY <1>1, <1>3, <1>4, <1>5 DEF Opened, Gone
<1>7. \E last \in 0 .. MaxBags : \A b \in Numbers : bs[b].status # "NONE" <=> b <= last
  BY <1>1, <1>6 DEF InRow
<1> QED BY <1>2, <1>5, <1>6, <1>7, RecalculateKeeps

\* openNextBag opens the next number, or a cancelled bag again that is empty.
LEMMA NextBagIs ==
    ASSUME NEW m, InRow(m), NextBag(m) \in Numbers
    PROVE  /\ \E last \in 0 .. MaxBags : \A b \in Numbers :
                 (b = NextBag(m) \/ Opened(m, b)) <=> b <= last
           /\ bag[m][NextBag(m)].status \in Gone
           /\ bag[m][NextBag(m)].status = "CANCELLED" =>
                 \A x \in Packed(scans, m) : x.bag # NextBag(m)
<1> DEFINE last == Latest(m)
           k == NextBag(m)
<1>1. last \in 0 .. MaxBags /\ \A b \in Numbers : Opened(m, b) <=> b <= last
  <2>1. \E b \in 0 .. MaxBags : \A c \in Numbers : bag[m][c].status # "NONE" <=> c <= b
    BY DEF InRow, Opened
  <2> QED BY <2>1 DEF Latest, Opened
<1>2. CASE last > 0 /\ bag[m][last].status = "CANCELLED"
             /\ \A x \in Packed(scans, m) : x.bag # last
  <2>1. k = last
    BY <1>2 DEF NextBag
  <2>2. \A b \in Numbers : (b = k \/ Opened(m, b)) <=> b <= last
    BY <1>1, <2>1 DEF Numbers
  <2> QED BY <1>1, <1>2, <2>1, <2>2 DEF Gone
<1>3. CASE ~ (last > 0 /\ bag[m][last].status = "CANCELLED"
               /\ \A x \in Packed(scans, m) : x.bag # last)
  <2>1. k = last + 1
    BY <1>3 DEF NextBag
  <2> HIDE DEF k, last
  <2>2. k \in Numbers
    BY DEF k
  <2>3. \A b \in Numbers : (b = k \/ Opened(m, b)) <=> b <= k
    BY <1>1, <2>1, <2>2, PackingAssumption DEF Numbers
  <2>4. k \in 0 .. MaxBags /\ ~ Opened(m, k)
    BY <1>1, <2>1, <2>2, PackingAssumption DEF Numbers
  <2> QED BY <2>3, <2>4 DEF Gone, Opened, k
<1> QED BY <1>2, <1>3

LEMMA CreateBagKeeps ==
    ASSUME IInv, NEW m \in Manifests, CreateBag(m)
    PROVE  Keeps
<1> DEFINE k == NextBag(m)
           new == [status |-> "OPEN", weight |-> 0]
           bs == [bag[m] EXCEPT ![k] = new]
<1>1. bag[m] \in [Numbers -> BagType] /\ InRow(m)
  BY DEF IInv, TypeInv, GoodOrder
<1>2. /\ Editable(m) /\ k \in Numbers /\ Recalculate(m, bs, scans)
      /\ UNCHANGED <<row, request, corrections, raced>>
  BY DEF CreateBag
<1>3. new \in BagType /\ new.status = "OPEN"
  BY DEF BagType, BagStatuses, Open
<1>4. \E last \in 0 .. MaxBags : \A b \in Numbers : (b = k \/ Opened(m, b)) <=> b <= last
  BY <1>1, <1>2, NextBagIs
<1> HIDE DEF new, k
<1>5. /\ bs \in [Numbers -> BagType] /\ bs[k] = new
      /\ \A b \in Numbers : b # k => bs[b] = bag[m][b]
  BY <1>1, <1>2, <1>3, BagSet
<1> HIDE DEF bs
<1>6. \A b \in Numbers : /\ bs[b].status # "NONE" <=> b = k \/ Opened(m, b)
                         /\ bag[m][b].status \notin Gone => bs[b].status \notin Gone
  BY <1>2, <1>3, <1>5 DEF Opened, Gone
<1>7. \E last \in 0 .. MaxBags : \A b \in Numbers : bs[b].status # "NONE" <=> b <= last
  BY <1>4, <1>6
<1>8. \A b \in Numbers : Opened(m, b) => bs[b].status # "NONE"
  BY <1>6
<1> QED BY <1>2, <1>5, <1>6, <1>7, <1>8, RecalculateKeeps

\* Steps that leave the bags, the rows and the scans alone.
LEMMA ManifestOnly ==
    ASSUME TypeInv, NEW m \in Manifests, NEW M \in ManifestType,
           \A x \in M.printed : x.manifest = m,
           manifest' = [manifest EXCEPT ![m] = M], UNCHANGED <<bag, row, scans>>
    PROVE  /\ Becomes(m, M, bag[m], row[m], scans) /\ Typed(m, M, bag[m], row[m], scans)
           /\ manifest'[m] = M
BY DEF Becomes, Typed, TypeInv

\* Nobody has to write a weight of m.
LEMMA CountedIs ==
    ASSUME NEW m, ~ Uncounted(m), NEW b
    PROVE  ~ Owed(m, b)
BY DEF Uncounted, Owed

LEMMA SealKeeps ==
    ASSUME IInv, NEW m \in Manifests, Seal(m)
    PROVE  Keeps
<1> DEFINE old == manifest[m]
           listed == {x \in Packed(scans, m) : ShipmentOf[x.parcel] \in Active(m)}
           one == [old EXCEPT !.status = "SEALED"]
           two == [one EXCEPT !.total = old.parcels]
           M == [two EXCEPT !.printed = listed]
<1>1. TypeInv /\ GoodOrder(m) /\ old \in ManifestType /\ scans \in SUBSET ScanType
  BY DEF IInv, TypeInv
<1>2. /\ Editable(m) /\ Sealable(m) /\ manifest' = [manifest EXCEPT ![m] = M]
      /\ raced' = IF Uncounted(m) THEN raced \cup {m} ELSE raced
      /\ UNCHANGED <<bag, row, scans, request, corrections>>
  BY DEF Seal, RacedIf
<1>3. listed \in SUBSET ScanType /\ \A x \in listed : x.manifest = m
  BY <1>1 DEF Packed
<1>4. /\ M \in ManifestType /\ M.status = "SEALED" /\ M.total = old.parcels
      /\ M.printed = listed /\ M.parcels = old.parcels
  <2> HIDE DEF old, listed
  <2>1. one \in ManifestType /\ one.status = "SEALED" /\ one.parcels = old.parcels
    BY <1>1 DEF ManifestType, ManifestStatuses
  <2> HIDE DEF one
  <2>2. /\ two \in ManifestType /\ two.status = "SEALED" /\ two.parcels = old.parcels
        /\ two.total = old.parcels
    BY <1>1, <2>1 DEF ManifestType
  <2> HIDE DEF two
  <2> QED BY <1>3, <2>2 DEF ManifestType
<1>5. old = manifest[m]
  OBVIOUS
<1> HIDE DEF old, one, two, M
<1>6. /\ Becomes(m, M, bag[m], row[m], scans) /\ Typed(m, M, bag[m], row[m], scans)
      /\ manifest'[m] = M
  BY <1>1, <1>2, <1>3, <1>4, ManifestOnly
<1>7. ASSUME m \notin raced' PROVE Tallied(m)' /\ SealedOk(m)'
  <2>1. Tallied(m) /\ \A b : ~ Owed(m, b)
    BY <1>1, <1>2, <1>7, EditableIs, CountedIs DEF GoodOrder
  <2>2. /\ old.parcels = Cardinality(Packed(scans, m))
        /\ \A x \in Packed(scans, m) : x.bag \in Live(m)
        /\ \A b \in Live(m) : bag[m][b].weight = Load(scans, m, b)
    BY <1>5, <2>1 DEF Tallied
  <2>3. Tallied(m)'
    BY <1>2, <1>4, <1>6, <2>2 DEF Tallied, Live
  <2>4. listed = Packed(scans, m)
    <3>1. ASSUME NEW x \in Packed(scans, m) PROVE ShipmentOf[x.parcel] \in Active(m)
      <4>1. ShipmentOf[x.parcel] \in Shipments
        BY <1>1, ScanIs, PackingAssumption DEF Packed
      <4> QED BY <1>1, <4>1 DEF GoodOrder, OnRow, Active
    <3> QED BY <3>1
  <2>5. PrintedIsPacked(m)'
    BY <1>2, <1>4, <1>6, <2>2, <2>4 DEF PrintedIsPacked
  <2>6. WithinLimits(m)'
    <3>1. ASSUME NEW b \in Numbers PROVE Load(scans, m, b) <= MaxWeight
      <4>1. CASE b \in Live(m)
        BY <1>2, <2>2, <4>1 DEF Sealable
      <4>2. CASE b \notin Live(m)
        BY <2>2, <4>2, LoadEmpty, PackingAssumption
      <4> QED BY <4>1, <4>2
    <3> QED BY <1>2, <3>1 DEF WithinLimits
  <2>7. BagsShut(m)'
    BY <1>2, <2>2 DEF BagsShut, Sealable
  <2>8. NothingForgotten(m)'
    BY <1>2 DEF NothingForgotten, Sealable, Active, Unaccounted
  <2> QED BY <2>3, <2>5, <2>6, <2>7, <2>8 DEF SealedOk
<1>8. GoodOrder(m)'
  <2>1. InRow(m)' /\ OnRow(m)'
    BY <1>1, <1>2 DEF GoodOrder, InRow, OnRow, Opened
  <2> QED BY <1>7, <2>1 DEF GoodOrder
<1>9. SealKept(m)
  BY <1>2, EditableIs DEF SealKept
<1>10. /\ UNCHANGED <<request, corrections>> /\ (raced' = raced \/ raced' = raced \cup {m})
       /\ \A b \in Numbers : Opened(m, b) => Opened(m, b)'
  BY <1>2 DEF Opened
<1> QED BY <1>6, <1>8, <1>9, <1>10, AtOnceKeeps

\* The status of a manifest alone.
LEMMA StatusOnly ==
    ASSUME TypeInv, NEW m \in Manifests, NEW a \in ManifestStatuses,
           manifest' = [manifest EXCEPT ![m].status = a]
    PROVE  \E M \in ManifestType :
              /\ manifest' = [manifest EXCEPT ![m] = M] /\ M.status = a
              /\ M.parcels = manifest[m].parcels
              /\ M.printed = manifest[m].printed /\ M.total = manifest[m].total
<1> DEFINE old == manifest[m]
           M == [old EXCEPT !.status = a]
<1>1. old \in ManifestType /\ manifest' = [manifest EXCEPT ![m] = M] /\ old = manifest[m]
  BY DEF TypeInv
<1> HIDE DEF old
<1>2. /\ M \in ManifestType /\ M.status = a /\ M.parcels = old.parcels
      /\ M.printed = old.printed /\ M.total = old.total
  BY <1>1 DEF ManifestType
<1> HIDE DEF M
<1> QED BY <1>1, <1>2

LEMMA DispatchKeeps ==
    ASSUME IInv, NEW m \in Manifests, Dispatch(m)
    PROVE  Keeps
<1>1. /\ TypeInv /\ GoodOrder(m) /\ manifest[m].status = "SEALED"
      /\ \A x \in manifest[m].printed : x.manifest = m
  BY DEF IInv, TypeInv, Dispatch, Status
<1>2. /\ manifest' = [manifest EXCEPT ![m].status = "DISPATCHED"]
      /\ UNCHANGED <<bag, row, scans, request, corrections, raced>>
  BY DEF Dispatch
<1>3. PICK M \in ManifestType :
              /\ manifest' = [manifest EXCEPT ![m] = M] /\ M.status = "DISPATCHED"
              /\ M.parcels = manifest[m].parcels
              /\ M.printed = manifest[m].printed /\ M.total = manifest[m].total
  BY <1>1, <1>2, StatusOnly DEF ManifestStatuses
<1>4. /\ Becomes(m, M, bag[m], row[m], scans) /\ Typed(m, M, bag[m], row[m], scans)
      /\ manifest'[m] = M
  <2>1. \A x \in M.printed : x.manifest = m
    BY <1>1, <1>3
  <2>2. UNCHANGED <<bag, row, scans>>
    BY <1>2
  <2> QED BY <1>1, <1>3, <2>1, <2>2, ManifestOnly
<1>5. ASSUME m \notin raced' PROVE Tallied(m)' /\ SealedOk(m)'
  <2>1. Tallied(m) /\ SealedOk(m)
    BY <1>1, <1>2, <1>5 DEF GoodOrder, Printed, Status
  <2>2. Tallied(m)'
    BY <1>2, <1>3, <1>4, <2>1 DEF Tallied, Live, Owed
  <2> QED BY <1>1, <1>2, <1>3, <1>4, <2>1, <2>2, SealedSame
<1>6. GoodOrder(m)'
  <2>1. InRow(m)' /\ OnRow(m)'
    BY <1>1, <1>2 DEF GoodOrder, InRow, OnRow, Opened
  <2> QED BY <1>5, <2>1 DEF GoodOrder
<1>7. SealKept(m)
  BY <1>3, <1>4 DEF SealKept
<1>8. /\ UNCHANGED <<request, corrections>> /\ raced' = raced
      /\ \A b \in Numbers : Opened(m, b) => Opened(m, b)'
  BY <1>2 DEF Opened
<1> QED BY <1>4, <1>6, <1>7, <1>8, AtOnceKeeps

LEMMA DisposeKeeps ==
    ASSUME IInv, NEW m \in Manifests, NEW p \in Parcels, NEW d \in {"HELD", "CANCELLED"},
           Dispose(m, p, d)
    PROVE  Keeps
<1> DEFINE s == ShipmentOf[p]
           rows == row[m]
           old == rows[s]
           dd == [old.disposed EXCEPT ![p] = d]
           new == [old EXCEPT !.disposed = dd]
           R == [rows EXCEPT ![s] = new]
<1>1. /\ TypeInv /\ GoodOrder(m) /\ s \in Shipments /\ rows \in [Shipments -> RowType]
      /\ (\A q \in Shipments : rows[q].scanned \subseteq Pieces(q))
      /\ manifest[m] \in ManifestType /\ \A x \in manifest[m].printed : x.manifest = m
  BY PackingAssumption DEF IInv, TypeInv
<1>2. /\ row' = [row EXCEPT ![m] = R]
      /\ Editable(m) \/ (Status(m) = "SEALED" /\ old.disposed[p] = "NONE")
      /\ s \in Active(m) /\ p \in old.expected \ old.scanned
      /\ UNCHANGED <<manifest, bag, scans, request, corrections, raced>>
  BY DEF Dispose
<1>3. rows = row[m] /\ old = rows[s] /\ s = ShipmentOf[p]
  OBVIOUS
<1> HIDE DEF rows, s
<1>4. old \in RowType
  BY <1>1
<1> HIDE DEF old
<1>5. dd \in [Parcels -> {"NONE", "HELD", "CANCELLED"}]
  BY <1>4 DEF RowType
<1> HIDE DEF dd
<1>6. /\ new \in RowType /\ new.status = old.status /\ new.scanned = old.scanned
      /\ new.expected = old.expected
  BY <1>4, <1>5 DEF RowType
<1> HIDE DEF new
<1>7. /\ R \in [Shipments -> RowType]
      /\ \A q \in Shipments : R[q].scanned = rows[q].scanned /\ R[q].status = rows[q].status
  BY <1>1, <1>3, <1>6
<1> HIDE DEF R
<1>8. \A q \in Shipments : R[q].scanned \subseteq Pieces(q)
  BY <1>1, <1>7
<1>9. /\ Becomes(m, manifest[m], bag[m], R, scans) /\ Typed(m, manifest[m], bag[m], R, scans)
  BY <1>1, <1>2, <1>7, <1>8 DEF Becomes, Typed, TypeInv
<1>10. row'[m] = R
  BY <1>1, <1>9, DocsMoved
<1>11. InRow(m)' /\ OnRow(m)'
  <2>1. InRow(m)'
    BY <1>1, <1>2 DEF GoodOrder, InRow, Opened
  <2>2. ASSUME NEW x \in Packed(scans, m)
        PROVE  R[ShipmentOf[x.parcel]].status = "ACTIVE"
               /\ x.parcel \in R[ShipmentOf[x.parcel]].scanned
    <3>1. ShipmentOf[x.parcel] \in Shipments
      BY <1>1, ScanIs, PackingAssumption DEF Packed
    <3> QED BY <1>1, <1>3, <1>7, <3>1 DEF GoodOrder, OnRow
  <2> QED BY <1>2, <1>10, <2>1, <2>2 DEF OnRow
<1>12. ASSUME m \notin raced', Status(m)' # "CANCELLED" PROVE Tallied(m)'
  <2>1. Tallied(m)
    BY <1>1, <1>2, <1>12 DEF GoodOrder, Status
  <2> QED BY <1>2, <2>1 DEF Tallied, Live, Owed
<1>13. ASSUME m \notin raced' PROVE ~ Printed(m)'
  <2>1. CASE Editable(m)
    BY <1>2, <2>1, EditableIs DEF Printed, Status
  <2>2. CASE Status(m) = "SEALED" /\ old.disposed[p] = "NONE"
    <3>1. NothingForgotten(m)
      BY <1>1, <1>2, <1>13, <2>2 DEF GoodOrder, SealedOk, Printed
    <3>2. p \in Unaccounted(m, s)
      BY <1>2, <1>3, <2>2 DEF Unaccounted
    <3> QED BY <1>2, <3>1, <3>2 DEF NothingForgotten
  <2> QED BY <1>2, <2>1, <2>2
<1>14. GoodOrder(m)'
  BY <1>11, <1>12, <1>13 DEF GoodOrder
<1>15. SealKept(m)
  BY <1>2 DEF SealKept, Status
<1>16. /\ UNCHANGED <<request, corrections>> /\ raced' = raced
       /\ \A b \in Numbers : Opened(m, b) => Opened(m, b)'
  BY <1>2 DEF Opened
<1> QED BY <1>9, <1>14, <1>15, <1>16, AtOnceKeeps

-----------------------------------------------------------------------------
(* A cancelled manifest, and the scans of a shipment moved to one bag      *)

LEMMA CancelManifestKeeps ==
    ASSUME IInv, NEW w \in Stations, NEW m, request[w].manifest = m, CancelManifest(w)
    PROVE  Keeps
<1> DEFINE ss == scans \ Packed(scans, m)
<1>1. /\ TypeInv /\ m \in Manifests /\ request[w].step = "cancel" /\ GoodOrder(m)
      /\ \A x \in manifest[m].printed : x.manifest = m
  BY BusyIs DEF CancelManifest, IInv, TypeInv
<1>2. /\ manifest' = [manifest EXCEPT ![m].status = "CANCELLED"] /\ scans' = ss
      /\ raced' = IF ~Editable(m) THEN raced \cup {m} ELSE raced
      /\ UNCHANGED <<bag, row, corrections>> /\ request' = [request EXCEPT ![w] = Idle]
  BY DEF CancelManifest, RacedIf, Finish
<1>3. PICK M \in ManifestType :
              /\ manifest' = [manifest EXCEPT ![m] = M] /\ M.status = "CANCELLED"
              /\ M.parcels = manifest[m].parcels
              /\ M.printed = manifest[m].printed /\ M.total = manifest[m].total
  BY <1>1, <1>2, StatusOnly DEF ManifestStatuses
<1>4. Packed(ss, m) = {} /\ \A n \in Manifests : n # m => Packed(ss, n) = Packed(scans, n)
  BY DEF Packed
<1>5. ss \in SUBSET ScanType /\ \A x, y \in ss : x.parcel = y.parcel => x = y
  BY <1>1 DEF TypeInv
<1> HIDE DEF ss
<1>6. /\ Becomes(m, M, bag[m], row[m], ss) /\ Typed(m, M, bag[m], row[m], ss)
      /\ manifest'[m] = M
  <2>1. Becomes(m, M, bag[m], row[m], ss)
    BY <1>1, <1>2, <1>3 DEF Becomes, TypeInv
  <2>2. \A x \in M.printed : x.manifest = m
    BY <1>1, <1>3
  <2>3. Typed(m, M, bag[m], row[m], ss)
    BY <1>1, <1>3, <1>4, <1>5, <2>2 DEF Typed, TypeInv
  <2> QED BY <1>1, <2>1, <2>3, DocsMoved
<1>7. InRow(m)' /\ OnRow(m)'
  BY <1>1, <1>2, <1>4 DEF GoodOrder, InRow, OnRow, Opened
<1>8. Status(m)' = "CANCELLED"
  BY <1>3, <1>6 DEF Status
<1>9. GoodOrder(m)'
  BY <1>7, <1>8 DEF GoodOrder, Printed
<1>10. SealKept(m)
  <2>1. request'[w] = Idle
    BY <1>1, <1>2, StationMoves, IdleIs
  <2> QED BY <1>1, <2>1 DEF SealKept
<1>11. /\ NamedBy(request[w])' /\ (\A b \in Numbers : Opened(m, b) => Opened(m, b)')
       /\ corrections' \in 0 .. MaxCorrections
  BY <1>1, <1>2, IdleIs, IdleNames DEF Opened, TypeInv
<1>12. raced' = raced \/ raced' = raced \cup {m}
  BY <1>2
<1> QED BY <1>1, <1>2, <1>6, <1>9, <1>10, <1>11, <1>12, IdleIs, StationKeeps

InBag(x, k) == [parcel |-> x.parcel, manifest |-> x.manifest, bag |-> k]

\* The scans once those of moved are in bag k.
Gathered(moved, k) == (scans \ moved) \cup {[x EXCEPT !.bag = k] : x \in moved}
SameContents(m, k, ss) ==
    /\ ss \in SUBSET ScanType /\ \A x, y \in ss : x.parcel = y.parcel => x = y
    /\ \A n \in Manifests : n # m => Packed(ss, n) = Packed(scans, n)
    /\ \A y \in Packed(ss, m) : \E x \in Packed(scans, m) :
          y.parcel = x.parcel /\ (y.bag = x.bag \/ y.bag = k)
    /\ Cardinality(Packed(ss, m)) = Cardinality(Packed(scans, m))

LEMMA MovedAre ==
    ASSUME TypeInv, NEW m \in Manifests, NEW moved \in SUBSET Packed(scans, m),
           NEW k \in Numbers
    PROVE  SameContents(m, k, Gathered(moved, k))
<1> DEFINE ss == Gathered(moved, k)
<1>1. /\ scans \in SUBSET ScanType /\ \A x, y \in scans : x.parcel = y.parcel => x = y
      /\ moved \subseteq scans /\ \A x \in moved : x.manifest = m
  BY DEF TypeInv, Packed
<1>2. ASSUME NEW x \in scans
      PROVE  /\ [x EXCEPT !.bag = k] = InBag(x, k) /\ InBag(x, k) \in ScanType
             /\ InBag(x, k).parcel = x.parcel /\ InBag(x, k).manifest = x.manifest
             /\ InBag(x, k).bag = k
  BY <1>1 DEF ScanType, InBag
<1>3. ss = (scans \ moved) \cup {InBag(x, k) : x \in moved}
  BY <1>1, <1>2 DEF Gathered
<1> HIDE DEF ss
<1>4. ASSUME NEW y \in ss
      PROVE  \E x \in scans : /\ y \in ScanType
                              /\ y.parcel = x.parcel /\ y.manifest = x.manifest
                              /\ \/ x \notin moved /\ y = x
                                 \/ x \in moved /\ y = InBag(x, k) /\ y.bag = k
  <2>1. CASE y \in scans /\ y \notin moved
    BY <1>1, <2>1
  <2>2. CASE \E x \in moved : y = InBag(x, k)
    <3>1. PICK x \in moved : y = InBag(x, k)
      BY <2>2
    <3>2. x \in scans
      BY <1>1
    <3> QED BY <1>2, <3>1, <3>2
  <2> QED BY <1>3, <2>1, <2>2
<1>5. ss \in SUBSET ScanType
  BY <1>4
<1>6. ASSUME NEW y \in ss, NEW z \in ss, y.parcel = z.parcel PROVE y = z
  <2>1. PICK x \in scans : /\ y.parcel = x.parcel
                           /\ \/ x \notin moved /\ y = x
                              \/ x \in moved /\ y = InBag(x, k)
    BY <1>4
  <2>2. PICK u \in scans : /\ z.parcel = u.parcel
                           /\ \/ u \notin moved /\ z = u
                              \/ u \in moved /\ z = InBag(u, k)
    BY <1>4
  <2>3. x = u
    BY <1>1, <1>6, <2>1, <2>2
  <2> QED BY <2>1, <2>2, <2>3
<1>7. ASSUME NEW n \in Manifests, n # m PROVE Packed(ss, n) = Packed(scans, n)
  <2>1. ASSUME NEW y \in ss, y.manifest = n PROVE y \in scans
    <3>1. PICK x \in scans : /\ y.manifest = x.manifest
                             /\ \/ x \notin moved /\ y = x
                                \/ x \in moved /\ y = InBag(x, k)
      BY <1>4
    <3> QED BY <1>1, <1>7, <2>1, <3>1
  <2>2. ASSUME NEW y \in scans, y.manifest = n PROVE y \in ss
    BY <1>1, <1>3, <1>7, <2>2
  <2> QED BY <2>1, <2>2 DEF Packed
<1>8. ASSUME NEW y \in Packed(ss, m)
      PROVE  \E x \in Packed(scans, m) : y.parcel = x.parcel /\ (y.bag = x.bag \/ y.bag = k)
  <2>1. y \in ss /\ y.manifest = m
    BY DEF Packed
  <2>2. PICK x \in scans : /\ y.parcel = x.parcel /\ y.manifest = x.manifest
                           /\ \/ x \notin moved /\ y = x
                              \/ x \in moved /\ y = InBag(x, k) /\ y.bag = k
    BY <1>4, <2>1
  <2> QED BY <2>1, <2>2 DEF Packed
<1>9. Cardinality(Packed(ss, m)) = Cardinality(Packed(scans, m))
  <2> DEFINE P == Packed(scans, m)
             Q == Packed(ss, m)
  <2>1. /\ \A x \in P : x.parcel \in Parcels
        /\ \A x, y \in P : x.parcel = y.parcel => x = y
    BY <1>1, ScanIs DEF Packed
  <2>2. /\ \A x \in Q : x.parcel \in Parcels
        /\ \A x, y \in Q : x.parcel = y.parcel => x = y
    BY <1>5, <1>6 DEF Packed, ScanType
  <2>3. ASSUME NEW x \in P PROVE \E y \in Q : y.parcel = x.parcel
    <3>1. x \in scans /\ x.manifest = m
      BY DEF Packed
    <3>2. CASE x \in moved
      <4>1. InBag(x, k) \in ss
        BY <1>3, <3>2
      <4> QED BY <1>2, <3>1, <4>1 DEF Packed
    <3>3. CASE x \notin moved
      <4>1. x \in ss
        BY <1>3, <3>1, <3>3
      <4> QED BY <3>1, <4>1 DEF Packed
    <3> QED BY <3>2, <3>3
  <2>7. ASSUME NEW y \in Q PROVE \E x \in P : x.parcel = y.parcel
    BY <1>8
  <2> HIDE DEF P, Q
  <2>8. ASSUME NEW p PROVE p \in ParcelsOf(Q) <=> p \in ParcelsOf(P)
    BY <2>3, <2>7 DEF ParcelsOf
  <2>4. ParcelsOf(Q) = ParcelsOf(P)
    BY <2>8
  <2>5. Cardinality(P) = Cardinality(ParcelsOf(P)) /\ Cardinality(Q) = Cardinality(ParcelsOf(Q))
    BY <2>1, <2>2, CountIs
  <2>6. Cardinality(P) = Cardinality(Q)
    BY <2>4, <2>5
  <2> QED BY <2>6 DEF P, Q
<1>10. SameContents(m, k, ss)
  BY <1>5, <1>6, <1>7, <1>8, <1>9 DEF SameContents
<1> QED BY <1>10 DEF ss

LEMMA MoveScansKeeps ==
    ASSUME IInv, NEW w \in Stations, NEW m, request[w].manifest = m, MoveScans(w)
    PROVE  Keeps
<1> DEFINE k == request[w].bag
           s == request[w].shipment
           moved == Elsewhere(m, s, k)
           new == [step |-> "recount", manifest |-> m]
           ss == (scans \ moved) \cup {[x EXCEPT !.bag = k] : x \in moved}
<1>1. /\ TypeInv /\ m \in Manifests /\ request[w].step = "move" /\ GoodOrder(m)
      /\ k \in Numbers /\ manifest[m] \in ManifestType
      /\ \A x \in manifest[m].printed : x.manifest = m
  BY BusyIs DEF MoveScans, IInv, TypeInv, RequestOk
<1>2. /\ scans' = ss /\ request' = [request EXCEPT ![w] = new]
      /\ raced' = IF ~ Movable(m, s, k) THEN raced \cup {m} ELSE raced
      /\ UNCHANGED <<manifest, bag, row, corrections>>
  BY DEF MoveScans, RacedIf
<1>3. moved \in SUBSET Packed(scans, m)
  BY DEF Elsewhere
<1>20. ss = Gathered(moved, k)
  BY DEF Gathered
<1>21. RequestOk(new) /\ new.step = "recount" /\ new.manifest = m
  BY <1>1 DEF RequestOk, Steps
<1> HIDE DEF k, s, moved, ss, new
<1>4. /\ ss \in SUBSET ScanType /\ \A x, y \in ss : x.parcel = y.parcel => x = y
      /\ \A n \in Manifests : n # m => Packed(ss, n) = Packed(scans, n)
      /\ \A y \in Packed(ss, m) : \E x \in Packed(scans, m) :
            y.parcel = x.parcel /\ (y.bag = x.bag \/ y.bag = k)
      /\ Cardinality(Packed(ss, m)) = Cardinality(Packed(scans, m))
  <2>1. SameContents(m, k, Gathered(moved, k))
    BY <1>1, <1>3, MovedAre
  <2> QED BY <1>20, <2>1 DEF SameContents
<1>5. Becomes(m, manifest[m], bag[m], row[m], ss)
  BY <1>1, <1>2 DEF Becomes, TypeInv
<1>6. Typed(m, manifest[m], bag[m], row[m], ss)
  BY <1>1, <1>4 DEF Typed, TypeInv
<1>7. /\ RequestsOk' /\ request'[w] = new
  BY <1>1, <1>2, <1>21, StationMoves
<1>8. \A b : Owed(m, b)'
  BY <1>7, <1>21 DEF Owed
<1>9. InRow(m)' /\ OnRow(m)'
  <2>1. InRow(m)'
    BY <1>1, <1>2 DEF GoodOrder, InRow, Opened
  <2>2. OnRow(m)'
    BY <1>1, <1>2, <1>4 DEF GoodOrder, OnRow
  <2> QED BY <2>1, <2>2
<1>10. ASSUME m \notin raced', Status(m)' # "CANCELLED" PROVE Tallied(m)'
  <2>1. m \notin raced /\ Movable(m, s, k)
    BY <1>2, <1>10
  <2>2. Tallied(m)
    BY <1>1, <1>2, <1>10, <2>1 DEF GoodOrder, Status
  <2>3. k \in Live(m)
    BY <1>1, <2>1 DEF Movable, Live, Open
  <2>4. \A y \in Packed(ss, m) : y.bag \in Live(m)
    BY <1>4, <2>2, <2>3 DEF Tallied
  <2>5. Live(m)' = Live(m)
    BY <1>2 DEF Live
  <2> QED BY <1>2, <1>4, <1>8, <2>2, <2>4, <2>5 DEF Tallied
<1>11. ASSUME m \notin raced' PROVE ~ Printed(m)'
  <2>1. Editable(m)
    BY <1>2, <1>11 DEF Movable
  <2> QED BY <1>2, <2>1, EditableIs DEF Printed, Status
<1>12. GoodOrder(m)'
  BY <1>9, <1>10, <1>11 DEF GoodOrder
<1>13. SealKept(m)
  BY <1>2 DEF SealKept, Status
<1>14. /\ NamedBy(request[w])' /\ (\A b \in Numbers : Opened(m, b) => Opened(m, b)')
       /\ corrections' \in 0 .. MaxCorrections
  BY <1>1, <1>2, <1>21, IdleNames DEF Opened, TypeInv
<1>15. raced' = raced \/ raced' = raced \cup {m}
  BY <1>2
<1> QED BY <1>1, <1>2, <1>5, <1>6, <1>12, <1>13, <1>14, <1>15, <1>21, StationKeeps

-----------------------------------------------------------------------------
(* A parcel scanned: chooseOperationsBagForParcel and openNextBag          *)

LEMMA GreatestNatural ==
    ASSUME NEW S \in SUBSET Nat, S # {}, NEW n \in Nat, \A x \in S : x <= n
    PROVE  \E g \in S : \A x \in S : x <= g
<1> DEFINE T == {t \in Nat : \E x \in S : t = n - x}
<1>1. T \in SUBSET Nat /\ T # {}
  <2>1. PICK x \in S : x \in Nat /\ x <= n
    OBVIOUS
  <2>2. n - x \in T
    BY <2>1
  <2> QED BY <2>2
<1>4. /\ \A x \in S : n - x \in T
      /\ \A t \in T : \E x \in S : t = n - x
  OBVIOUS
<1> HIDE DEF T
<1>2. PICK t \in T : \A u \in T : t <= u
  BY <1>1, LeastNatural
<1>3. PICK g \in S : t = n - g
  BY <1>4
<1>5. ASSUME NEW x \in S PROVE x <= g
  <2>1. n - x \in T /\ n - g <= n - x
    BY <1>2, <1>3, <1>4
  <2>2. n \in Nat /\ x \in Nat /\ g \in Nat
    OBVIOUS
  <2> QED BY <2>1, <2>2
<1> QED BY <1>5

\* Of the bags the parcel fits in, one is the best.
LEMMA BestBag ==
    ASSUME TypeInv, NEW m \in Manifests, NEW p \in Parcels, Fitting(m, p) # {}
    PROVE  BagFor(m, p) \in Fitting(m, p)
<1> DEFINE F == Fitting(m, p)
           holds(b) == \E x \in Packed(scans, m) :
                          x.bag = b /\ ShipmentOf[x.parcel] = ShipmentOf[p]
           one(b) == IF holds(b) THEN 1 ELSE 0
           weight(b) == bag[m][b].weight
<1>1. /\ F \subseteq Numbers /\ MaxBags \in Nat /\ MaxWeight \in Nat /\ Weight[p] \in Nat
      /\ \A b \in F : /\ b \in Nat /\ b <= MaxBags
                      /\ weight(b) \in Nat /\ weight(b) + Weight[p] <= MaxWeight
  <2>1. /\ F \subseteq Numbers /\ MaxBags \in Nat /\ MaxWeight \in Nat /\ Weight[p] \in Nat
    BY PackingAssumption DEF Fitting
  <2>2. ASSUME NEW b \in F
        PROVE  /\ b \in Nat /\ b <= MaxBags
               /\ weight(b) \in Nat /\ weight(b) + Weight[p] <= MaxWeight
    <3>1. b \in Numbers /\ bag[m][b].weight + Weight[p] <= MaxWeight
      BY DEF Fitting
    <3>2. bag[m][b] \in BagType
      BY <3>1 DEF TypeInv
    <3> QED BY <2>1, <3>1, <3>2 DEF BagType, Numbers
  <2> QED BY <2>1, <2>2
<1>2. \A b \in F : one(b) \in Nat /\ one(b) <= 1
  OBVIOUS
<1>3. \A b : Rank(m, b, p) = <<one(b), weight(b), MaxBags - b>>
  BY DEF Rank
<1> HIDE DEF F, holds, one, weight
<1>4. PICK a \in F : \A c \in F : one(c) <= one(a)
  <2> DEFINE S == {one(c) : c \in F}
  <2>1. S \in SUBSET Nat /\ S # {} /\ \A x \in S : x <= 1
    BY <1>2 DEF F
  <2>2. \A c \in F : one(c) \in S
    OBVIOUS
  <2>3. \A x \in S : \E c \in F : x = one(c)
    OBVIOUS
  <2> HIDE DEF S
  <2>4. PICK g \in S : \A x \in S : x <= g
    BY <2>1, GreatestNatural
  <2> QED BY <2>2, <2>3, <2>4
<1> DEFINE F1 == {c \in F : one(c) = one(a)}
<1>5. PICK d \in F1 : \A c \in F1 : weight(c) <= weight(d)
  <2> DEFINE S == {weight(c) : c \in F1}
  <2>1. S \in SUBSET Nat /\ S # {} /\ \A x \in S : x <= MaxWeight
    BY <1>1
  <2>2. \A c \in F1 : weight(c) \in S
    OBVIOUS
  <2>3. \A x \in S : \E c \in F1 : x = weight(c)
    OBVIOUS
  <2> HIDE DEF S
  <2>4. PICK g \in S : \A x \in S : x <= g
    BY <1>1, <2>1, GreatestNatural
  <2> QED BY <2>2, <2>3, <2>4
<1> DEFINE F2 == {c \in F1 : weight(c) = weight(d)}
<1>6. PICK e \in F2 : \A c \in F2 : e <= c
  <2>1. F2 \in SUBSET Nat /\ F2 # {}
    BY <1>1
  <2> HIDE DEF F2
  <2> QED BY <2>1, LeastNatural
<1>7. ASSUME NEW c \in F PROVE Above(Rank(m, e, p), Rank(m, c, p))
  <2>1. e \in F /\ one(e) = one(a) /\ weight(e) = weight(d)
    OBVIOUS
  <2>2. CASE one(c) # one(a)
    <3>1. one(e) > one(c)
      BY <1>2, <1>4, <2>1, <2>2
    <3> QED BY <1>3, <3>1 DEF Above
  <2>3. CASE one(c) = one(a) /\ weight(c) # weight(d)
    <3>1. weight(e) > weight(c)
      BY <1>1, <1>5, <2>1, <2>3
    <3> QED BY <1>3, <2>1, <2>3, <3>1 DEF Above
  <2>4. CASE one(c) = one(a) /\ weight(c) = weight(d)
    <3>1. MaxBags - e >= MaxBags - c
      BY <1>1, <1>6, <2>1, <2>4
    <3> QED BY <1>3, <2>1, <2>4, <3>1 DEF Above
  <2> QED BY <2>2, <2>3, <2>4
<1>8. e \in F
  OBVIOUS
<1>9. \E b \in Fitting(m, p) :
         \A c \in Fitting(m, p) : Above(Rank(m, b, p), Rank(m, c, p))
  BY <1>7, <1>8 DEF F
<1> QED BY <1>9 DEF BagFor

\* The bag of the scan is open, or it is one to open.
LEMMA BagForIs ==
    ASSUME IInv, NEW m \in Manifests, NEW p \in Parcels, BagFor(m, p) \in Numbers
    PROVE  /\ \E last \in 0 .. MaxBags : \A c \in Numbers :
                 (c = BagFor(m, p) \/ Opened(m, c)) <=> c <= last
           /\ \/ bag[m][BagFor(m, p)].status \in Open
              \/ bag[m][BagFor(m, p)].status \in Gone
<1>1. TypeInv /\ InRow(m)
  BY DEF IInv, GoodOrder
<1>2. CASE Fitting(m, p) = {}
  <2>1. BagFor(m, p) = NextBag(m)
    BY <1>2 DEF BagFor
  <2> QED BY <1>1, <2>1, NextBagIs
<1>3. CASE Fitting(m, p) # {}
  <2> DEFINE b == BagFor(m, p)
  <2>1. b \in Fitting(m, p)
    BY <1>1, <1>3, BestBag
  <2> HIDE DEF b
  <2>2. b \in Numbers /\ bag[m][b].status \in Open
    BY <2>1 DEF Fitting
  <2>3. Opened(m, b)
    BY <2>2 DEF Opened, Open
  <2>4. \E last \in 0 .. MaxBags : \A c \in Numbers : (c = b \/ Opened(m, c)) <=> c <= last
    BY <1>1, <2>3 DEF InRow
  <2> QED BY <2>2, <2>4 DEF b
<1> QED BY <1>2, <1>3

\* One more scan is counted.
LEMMA OneMore ==
    ASSUME TypeInv, NEW m \in Manifests, NEW x \in ScanType, x.manifest = m,
           x.parcel \notin ParcelsOf(scans), NEW ss, ss = scans \cup {x}
    PROVE  /\ ss \in SUBSET ScanType /\ \A y, z \in ss : y.parcel = z.parcel => y = z
           /\ \A n \in Manifests : n # m => Packed(ss, n) = Packed(scans, n)
           /\ \A y : y \in Packed(ss, m) <=> y \in Packed(scans, m) \/ y = x
           /\ Cardinality(Packed(ss, m)) = Cardinality(Packed(scans, m)) + 1
<1>1. /\ scans \in SUBSET ScanType /\ \A y, z \in scans : y.parcel = z.parcel => y = z
      /\ \A y \in scans : y.parcel # x.parcel
  BY DEF TypeInv, ParcelsOf
<1>2. ss \in SUBSET ScanType /\ \A y, z \in ss : y.parcel = z.parcel => y = z
  BY <1>1
<1>3. \A n \in Manifests : n # m => Packed(ss, n) = Packed(scans, n)
  BY DEF Packed
<1>4. \A y : y \in Packed(ss, m) <=> y \in Packed(scans, m) \/ y = x
  BY DEF Packed
<1>5. Cardinality(Packed(ss, m)) = Cardinality(Packed(scans, m)) + 1
  <2> DEFINE P == Packed(scans, m)
  <2>1. /\ \A y \in P : y.parcel \in Parcels
        /\ \A y, z \in P : y.parcel = z.parcel => y = z
    BY <1>1, ScanIs DEF Packed
  <2>2. x \notin P
    BY <1>1 DEF Packed
  <2>3. Packed(ss, m) = P \cup {x}
    BY <1>4
  <2> HIDE DEF P
  <2>4. IsFiniteSet(P)
    BY <2>1, CountIs
  <2>5. Cardinality(P \cup {x}) = Cardinality(P) + 1
    BY <2>2, <2>4, FS_AddElement
  <2> QED BY <2>3, <2>5 DEF P
<1> QED BY <1>2, <1>3, <1>4, <1>5

LEMMA CommitScanKeeps ==
    ASSUME IInv, NEW w \in Stations, NEW m, request[w].manifest = m, CommitScan(w)
    PROVE  Keeps
<1> DEFINE r == request[w]
           p == r.parcel
           s == ShipmentOf[p]
           k == BagFor(m, p)
           was == bag[m][k]
           old == row[m][s]
           x == [parcel |-> p, manifest |-> m, bag |-> k]
           ss == scans \cup {x}
           one == [status |-> IF was.status \in Open THEN was.status ELSE "OPEN",
                   weight |-> (IF was.status \in Open THEN was.weight ELSE 0) + Weight[p]]
           B == [bag[m] EXCEPT ![k] = one]
           dd == [old.disposed EXCEPT ![p] = "NONE"]
           new == [status |-> "ACTIVE",
                   expected |-> IF old.status = "NONE" THEN r.expected ELSE old.expected,
                   scanned |-> (IF old.status = "ACTIVE" THEN old.scanned ELSE {}) \cup {p},
                   disposed |-> dd]
           R == [row[m] EXCEPT ![s] = new]
           n == manifest[m].parcels + 1
<1>1. /\ TypeInv /\ m \in Manifests /\ r.step = "scan" /\ GoodOrder(m)
      /\ p \in Parcels /\ r.expected \in SUBSET Parcels /\ s \in Shipments
      /\ bag[m] \in [Numbers -> BagType] /\ row[m] \in [Shipments -> RowType]
      /\ (\A t \in Shipments : row[m][t].scanned \subseteq Pieces(t))
      /\ manifest[m] \in ManifestType /\ \A y \in manifest[m].printed : y.manifest = m
      /\ Weight[p] \in Nat
  <2>1. At(w, "scan")
    BY DEF CommitScan
  <2>2. /\ TypeInv /\ m \in Manifests /\ r.step = "scan" /\ RequestOk(r)
    BY <2>1, BusyIs
  <2>3. p \in Parcels /\ r.expected \in SUBSET Parcels
    BY <2>2 DEF RequestOk
  <2>4. s \in Shipments /\ Weight[p] \in Nat
    BY <2>3, PackingAssumption
  <2>5. /\ GoodOrder(m) /\ bag[m] \in [Numbers -> BagType] /\ row[m] \in [Shipments -> RowType]
        /\ (\A t \in Shipments : row[m][t].scanned \subseteq Pieces(t))
        /\ manifest[m] \in ManifestType /\ \A y \in manifest[m].printed : y.manifest = m
    BY <2>2 DEF IInv, TypeInv
  <2> QED BY <2>2, <2>3, <2>4, <2>5
<1>2. request' = [request EXCEPT ![w] = Idle] /\ UNCHANGED corrections
  BY DEF CommitScan, Finish
<1>3. /\ NamedBy(request[w])' /\ corrections' \in 0 .. MaxCorrections
  BY <1>1, <1>2, IdleIs, IdleNames DEF TypeInv
<1>4. CASE ~ Packable(m, p)
  <2>1. UNCHANGED <<manifest, bag, row, scans, raced>>
    BY <1>4 DEF CommitScan
  <2> QED BY <1>1, <1>2, <1>3, <2>1, IdleIs, FreeKeeps
<1>5. CASE Packable(m, p)
  <2>1. /\ k \in Numbers /\ scans' = ss /\ bag' = [bag EXCEPT ![m] = B]
        /\ row' = [row EXCEPT ![m] = R]
        /\ manifest' = [manifest EXCEPT ![m].parcels = n, ![m].status = "PACKING"]
        /\ raced' = IF Uncounted(m) THEN raced \cup {m} ELSE raced
    BY <1>5 DEF CommitScan, RacedIf
  <2>2. Editable(m) /\ p \notin ParcelsOf(scans)
    BY <1>5 DEF Packable, Unique
  <2>3. /\ \E last \in 0 .. MaxBags : \A c \in Numbers : (c = k \/ Opened(m, c)) <=> c <= last
        /\ was.status \in Open \/ was.status \in Gone
    BY <1>1, <2>1, BagForIs
  <2>4. /\ x \in ScanType /\ x.parcel = p /\ x.manifest = m /\ x.bag = k
    BY <1>1, <2>1 DEF ScanType
  <2>5. was \in BagType /\ was = bag[m][k]
    BY <1>1, <2>1
  <2>6. /\ one \in BagType /\ one.status \in Open
        /\ was.status \in Open => one.weight = was.weight + Weight[p]
        /\ was.status \in Gone => one.weight = Weight[p]
    <3> HIDE DEF was
    <3> QED BY <1>1, <2>5 DEF BagType, BagStatuses, Open, Gone
  <2>7. old \in RowType /\ old = row[m][s]
    BY <1>1
  <2>8. /\ new \in RowType /\ new.status = "ACTIVE" /\ new.scanned \subseteq Pieces(s)
        /\ p \in new.scanned /\ (old.status = "ACTIVE" => old.scanned \subseteq new.scanned)
    <3>1. old.scanned \subseteq Pieces(s) /\ p \in Pieces(s)
      BY <1>1 DEF Pieces
    <3> HIDE DEF old
    <3>2. dd \in [Parcels -> {"NONE", "HELD", "CANCELLED"}]
      BY <2>7 DEF RowType
    <3> HIDE DEF dd
    <3> QED BY <1>1, <2>7, <3>1, <3>2 DEF RowType
  <2>9. \A y : y \in {x} <=> y = [parcel |-> p, manifest |-> m, bag |-> k]
    OBVIOUS
  <2>10. x = [parcel |-> p, manifest |-> m, bag |-> k] /\ ss = scans \cup {x}
         /\ s = ShipmentOf[p]
    OBVIOUS
  <2> HIDE DEF p, s, k, was, old, x, ss, one, dd, new, n
  <2>11. /\ B \in [Numbers -> BagType] /\ B[k] = one
         /\ \A c \in Numbers : c # k => B[c] = bag[m][c]
    BY <1>1, <2>1, <2>6, BagSet
  <2>12. /\ R \in [Shipments -> RowType] /\ R[s] = new
         /\ \A t \in Shipments : t # s => R[t] = row[m][t]
    BY <1>1, <2>8
  <2> HIDE DEF B, R
  <2>13. /\ ss \in SUBSET ScanType /\ \A y, z \in ss : y.parcel = z.parcel => y = z
         /\ \A h \in Manifests : h # m => Packed(ss, h) = Packed(scans, h)
         /\ \A y : y \in Packed(ss, m) <=> y \in Packed(scans, m) \/ y = x
         /\ Cardinality(Packed(ss, m)) = Cardinality(Packed(scans, m)) + 1
    BY <1>1, <2>2, <2>4, <2>10, OneMore
  <2>14. PICK M \in ManifestType :
           /\ manifest' = [manifest EXCEPT ![m] = M] /\ M.status = "PACKING" /\ M.parcels = n
           /\ M.printed = manifest[m].printed /\ M.total = manifest[m].total
    <3>1. n \in Nat
      BY <1>1 DEF ManifestType, n
    <3>2. ParcelsSet(m, "PACKING", n)
      BY <2>1 DEF ParcelsSet
    <3>3. "PACKING" \in ManifestStatuses
      BY DEF ManifestStatuses
    <3> QED BY <1>1, <3>1, <3>2, <3>3, StatusAndParcels
  <2>15. Becomes(m, M, B, R, ss)
    BY <2>1, <2>14 DEF Becomes
  <2>16. Typed(m, M, B, R, ss)
    <3>1. \A t \in Shipments : R[t].scanned \subseteq Pieces(t)
      BY <1>1, <2>8, <2>12
    <3>2. \A y \in M.printed : y.manifest = m
      BY <1>1, <2>14
    <3> QED BY <2>11, <2>12, <2>13, <2>14, <3>1, <3>2 DEF Typed
  <2>17. manifest'[m] = M /\ bag'[m] = B /\ row'[m] = R /\ scans' = ss
    BY <1>1, <2>15, <2>16, DocsMoved
  <2>18. \A c \in Numbers : Opened(m, c)' <=> c = k \/ Opened(m, c)
    <3>1. one.status # "NONE"
      BY <2>6 DEF Open
    <3> QED BY <2>11, <2>17, <3>1 DEF Opened
  <2>19. InRow(m)'
    BY <2>3, <2>18 DEF InRow
  <2>20. OnRow(m)'
    <3>1. ASSUME NEW y \in Packed(ss, m)
          PROVE  R[ShipmentOf[y.parcel]].status = "ACTIVE"
                 /\ y.parcel \in R[ShipmentOf[y.parcel]].scanned
      <4>1. CASE y = x
        BY <2>4, <2>8, <2>10, <2>12, <4>1
      <4>2. CASE y \in Packed(scans, m)
        <5>1. ShipmentOf[y.parcel] \in Shipments
          BY <1>1, <4>2, ScanIs, PackingAssumption DEF Packed
        <5>2. /\ row[m][ShipmentOf[y.parcel]].status = "ACTIVE"
              /\ y.parcel \in row[m][ShipmentOf[y.parcel]].scanned
          BY <1>1, <4>2 DEF GoodOrder, OnRow
        <5>3. CASE ShipmentOf[y.parcel] = s
          BY <2>7, <2>8, <2>12, <5>2, <5>3
        <5>4. CASE ShipmentOf[y.parcel] # s
          BY <2>12, <5>1, <5>2, <5>4
        <5> QED BY <5>3, <5>4
      <4> QED BY <2>13, <4>1, <4>2
    <3> QED BY <2>17, <3>1 DEF OnRow
  <2>21. ASSUME m \notin raced' PROVE Tallied(m)'
    <3>1. Tallied(m) /\ \A b : ~ Owed(m, b)
      BY <1>1, <2>1, <2>2, <2>21, EditableIs, CountedIs DEF GoodOrder
    <3>2. /\ manifest[m].parcels = Cardinality(Packed(scans, m))
          /\ \A y \in Packed(scans, m) : y.bag \in Live(m)
          /\ \A b \in Live(m) : bag[m][b].weight = Load(scans, m, b)
      BY <3>1 DEF Tallied
    <3>3. M.parcels = Cardinality(Packed(ss, m))
      BY <2>13, <2>14, <3>2 DEF n
    <3>4. \A c \in Numbers : c \in Live(m)' <=> c = k \/ c \in Live(m)
      BY <2>6, <2>11, <2>17 DEF Live, Open
    <3>5. \A y \in Packed(ss, m) : y.bag \in Live(m)'
      <4>1. \A c \in Live(m) : c \in Numbers
        BY DEF Live
      <4> QED BY <2>1, <2>4, <2>13, <3>2, <3>4, <4>1
    <3>6. \A c : Load(ss, m, c) = Load(scans, m, c) + (IF c = k THEN Weight[p] ELSE 0)
      <4>1. ASSUME NEW c
            PROVE  Load(scans \cup {x}, m, c)
                     = Load(scans, m, c) + (IF c = k THEN Weight[p] ELSE 0)
        <5>1. x = [parcel |-> p, manifest |-> m, bag |-> k] /\ p \in Parcels
              /\ p \notin ParcelsOf(scans)
          BY <1>1, <2>2, <2>10
        <5> QED BY <5>1, LoadMore
      <4> QED BY <2>10, <4>1
    <3>7. ASSUME NEW c \in Live(m)' PROVE B[c].weight = Load(ss, m, c)
      <4>1. c \in Numbers /\ Load(scans, m, c) \in Nat
        BY LoadIs DEF Live
      <4>2. CASE c # k
        BY <2>11, <3>2, <3>4, <3>6, <4>1, <4>2
      <4>3. CASE c = k /\ was.status \in Open
        <5>1. k \in Live(m)
          BY <2>1, <2>5, <4>3 DEF Live, Open
        <5>2. was.weight = Load(scans, m, k)
          BY <2>5, <3>2, <5>1
        <5> QED BY <2>6, <2>11, <3>6, <4>3, <5>2
      <4>4. CASE c = k /\ was.status \in Gone
        <5>1. k \notin Live(m)
          BY <2>5, <4>4 DEF Live, Gone
        <5>2. Load(scans, m, k) = 0
          BY <3>2, <5>1, LoadEmpty
        <5> QED BY <1>1, <2>6, <2>11, <3>6, <4>4, <5>2
      <4> QED BY <2>3, <4>2, <4>3, <4>4
    <3> QED BY <2>17, <3>3, <3>5, <3>7 DEF Tallied, Live
  <2>22. GoodOrder(m)' /\ SealKept(m)
    <3>1. ~ Printed(m)' /\ ~ Printed(m)
      BY <2>2, <2>14, <2>17, EditableIs DEF Printed, Status
    <3> QED BY <2>19, <2>20, <2>21, <3>1 DEF GoodOrder, SealKept
  <2>23. \A b \in Numbers : Opened(m, b) => Opened(m, b)'
    BY <2>18
  <2>24. raced' = raced \/ raced' = raced \cup {m}
    BY <2>1
  <2> QED BY <1>1, <1>2, <1>3, <2>15, <2>16, <2>22, <2>23, <2>24, IdleIs, StationKeeps
<1> QED BY <1>4, <1>5

-----------------------------------------------------------------------------
(* The invariant, and what follows from it                                 *)

LEMMA InitOk == Init => IInv
<1> SUFFICES ASSUME Init PROVE IInv
  OBVIOUS
<1> USE DEF Init
<1>1. MaxBags \in Nat /\ MaxCorrections \in Nat
  BY PackingAssumption
<1>2. NoBag \in BagType /\ [status |-> "OPEN", weight |-> 0] \in BagType
  BY DEF NoBag, BagType, BagStatuses, Open
<1>3. NoRow \in RowType /\ NoRow.scanned = {}
  BY DEF NoRow, RowType
<1>4. TypeInv
  <2>1. manifest \in [Manifests -> ManifestType]
    BY DEF ManifestType, ManifestStatuses, ScanType
  <2>2. \A m \in Manifests : \A x \in manifest[m].printed : x.manifest = m
    OBVIOUS
  <2>3. bag \in [Manifests -> [Numbers -> BagType]]
    BY <1>2
  <2>4. row \in [Manifests -> [Shipments -> RowType]]
        /\ \A m \in Manifests, s \in Shipments : row[m][s].scanned \subseteq Pieces(s)
    BY <1>3
  <2>5. DOMAIN request = Stations /\ \A w \in Stations : RequestOk(request[w])
    BY IdleIs
  <2> QED BY <1>1, <2>1, <2>2, <2>3, <2>4, <2>5 DEF TypeInv
<1>5. Named
  BY IdleIs DEF Named
<1>6. ASSUME NEW m \in Manifests PROVE GoodOrder(m)
  <2>1. Packed(scans, m) = {}
    BY DEF Packed
  <2>2. \A b \in Numbers : Opened(m, b) <=> b = 1
    BY DEF Opened, NoBag
  <2>3. InRow(m)
    <3>1. CASE MaxBags = 0
      <4>1. \A b \in Numbers : Opened(m, b) <=> b <= 0
        BY <2>2, <3>1 DEF Numbers
      <4> QED BY <1>1, <4>1 DEF InRow
    <3>2. CASE MaxBags # 0
      <4>1. \A b \in Numbers : Opened(m, b) <=> b <= 1
        BY <1>1, <2>2 DEF Numbers
      <4>2. 1 \in 0 .. MaxBags
        BY <1>1, <3>2
      <4> QED BY <4>1, <4>2 DEF InRow
    <3> QED BY <3>1, <3>2
  <2>4. OnRow(m)
    BY <2>1 DEF OnRow
  <2>5. Tallied(m)
    <3>1. manifest[m].parcels = Cardinality(Packed(scans, m))
      BY <2>1, FS_EmptySet
    <3>2. \A b \in Numbers : bag[m][b].weight = 0
      BY DEF NoBag
    <3>3. \A b \in Live(m) : bag[m][b].weight = Load(scans, m, b)
      BY <2>1, <3>2, LoadEmpty DEF Live
    <3> QED BY <2>1, <3>1, <3>3 DEF Tallied
  <2>6. ~ Printed(m)
    BY DEF Printed, Status
  <2> QED BY <2>3, <2>4, <2>5, <2>6 DEF GoodOrder
<1> QED BY <1>4, <1>5, <1>6 DEF IInv

LEMMA StepKeeps ==
    ASSUME IInv, Next
    PROVE  Keeps
<1>1. ASSUME NEW w \in Stations, Requested(w) PROVE Keeps
  BY <1>1, RequestedKeeps
<1>2. ASSUME NEW w \in Stations, Carried(w) PROVE Keeps
  <2> DEFINE m == request[w].manifest
  <2>1. CASE CommitScan(w)
    BY <2>1, CommitScanKeeps
  <2>2. CASE WriteBags(w)
    BY <2>2, WriteBagsKeeps
  <2>3. CASE Refresh(w)
    BY <2>3, RefreshKeeps
  <2>4. CASE Save(w)
    BY <2>4, SaveKeeps
  <2>5. CASE MoveScans(w)
    BY <2>5, MoveScansKeeps
  <2>6. CASE Recount(w)
    BY <2>6, RecountKeeps
  <2>7. CASE Tally(w)
    BY <2>7, TallyKeeps
  <2>8. CASE RemoveScan(w)
    BY <2>8, RemoveScanKeeps
  <2>9. CASE CancelBag(w)
    BY <2>9, CancelBagKeeps
  <2>10. CASE CancelManifest(w)
    BY <2>10, CancelManifestKeeps
  <2> QED BY <1>2, <2>1, <2>2, <2>3, <2>4, <2>5, <2>6, <2>7, <2>8, <2>9, <2>10 DEF Carried
<1>3. ASSUME NEW m \in Manifests, AtOnce(m) PROVE Keeps
  <2>1. CASE CreateBag(m)
    BY <2>1, CreateBagKeeps
  <2>2. CASE Seal(m)
    BY <2>2, SealKeeps
  <2>3. CASE Dispatch(m)
    BY <2>3, DispatchKeeps
  <2>4. ASSUME NEW b \in Numbers, MarkReady(m, b) PROVE Keeps
    BY <2>4, MarkReadyKeeps
  <2>5. ASSUME NEW p \in Parcels, NEW d \in {"HELD", "CANCELLED"}, Dispose(m, p, d)
        PROVE  Keeps
    BY <2>5, DisposeKeeps
  <2> QED BY <1>3, <2>1, <2>2, <2>3, <2>4, <2>5 DEF AtOnce
<1> QED BY <1>1, <1>2, <1>3 DEF Next

LEMMA StutterKeeps ==
    ASSUME IInv, UNCHANGED vars
    PROVE  IInv'
<1> USE DEF vars
<1>1. TypeInv'
  BY DEF IInv, TypeInv
<1>2. Named'
  BY DEF IInv, Named, Opened
<1>3. ASSUME NEW m \in Manifests PROVE GoodOrder(m)'
  <2>1. GoodOrder(m)
    BY DEF IInv
  <2>2. InRow(m)' /\ OnRow(m)'
    BY <2>1 DEF GoodOrder, InRow, OnRow, Opened
  <2>3. Tallied(m) => Tallied(m)'
    BY DEF Tallied, Live, Owed
  <2>4. SealedOk(m) => SealedOk(m)'
    BY DEF SealedOk, PrintedIsPacked, WithinLimits, BagsShut, NothingForgotten, Active,
       Unaccounted
  <2> QED BY <2>1, <2>2, <2>3, <2>4 DEF GoodOrder, Status, Printed
<1> QED BY <1>1, <1>2, <1>3 DEF IInv

LEMMA InvariantHolds == Spec => []IInv
<1>1. IInv /\ [Next]_vars => IInv'
  BY StepKeeps, StutterKeeps DEF Keeps, IInv
<1> QED BY InitOk, <1>1, PTL DEF Spec

\* Every document is in a state the code can read, and a parcel is packed in one
\* bag of one manifest only (operationsManifestScan.model.ts).
THEOREM PackingIsTyped == Spec => []PackingTypeOK
<1>1. IInv => PackingTypeOK
  <2> SUFFICES ASSUME IInv PROVE PackingTypeOK
    OBVIOUS
  <2>0. TypeInv
    BY DEF IInv
  <2>1. ASSUME NEW m \in Manifests
        PROVE  /\ manifest[m].status \in ManifestStatuses /\ manifest[m].parcels \in Nat
               /\ manifest[m].printed \subseteq
                      [parcel : Parcels, manifest : {m}, bag : Numbers]
    <3>1. manifest[m] \in ManifestType /\ \A x \in manifest[m].printed : x.manifest = m
      BY <2>0 DEF TypeInv
    <3>2. manifest[m].printed \subseteq ScanType
      BY <3>1 DEF ManifestType
    <3>3. manifest[m].status \in ManifestStatuses /\ manifest[m].parcels \in Nat
      BY <3>1 DEF ManifestType
    <3> QED BY <3>1, <3>2, <3>3 DEF ScanType
  <2>2. ASSUME NEW m \in Manifests, NEW b \in Numbers
        PROVE  bag[m][b].status \in BagStatuses /\ bag[m][b].weight \in Nat
    BY <2>0 DEF TypeInv, BagType
  <2>3. /\ \A m \in Manifests, s \in Shipments : row[m][s].scanned \subseteq Pieces(s)
        /\ scans \subseteq ScanType /\ \A x, y \in scans : x.parcel = y.parcel => x = y
        /\ corrections \in 0 .. MaxCorrections /\ raced \subseteq Manifests
    BY <2>0 DEF TypeInv
  <2>4. \A w \in Stations : At(w, "idle") \/ request[w].manifest \in Manifests
    BY <2>0 DEF TypeInv, RequestOk, At
  <2> QED BY <2>1, <2>2, <2>3, <2>4
      DEF PackingTypeOK, Status, ManifestStatuses, BagStatuses, ScanType
<1> QED BY <1>1, InvariantHolds, PTL

\* What a sealed manifest prints is what it carries, on every manifest that no
\* late request has written (sealOperationsManifest, sealingIssues).
THEOREM WhatIsSealedIsPacked == Spec => []SealedAsPacked
<1>1. IInv => SealedAsPacked
  <2> SUFFICES ASSUME IInv, NEW m \in Manifests \ raced, Printed(m)
               PROVE  SealedOk(m) /\ ListedOnce(m)
    BY DEF SealedAsPacked, SealedOk
  <2>1. \A n \in Manifests \ raced : Printed(n) => SealedOk(n)
    BY DEF IInv, GoodOrder
  <2>2. ASSUME NEW n \in Manifests \ (raced \cup {m}), Printed(n),
               NEW p \in ParcelsOf(manifest[m].printed), p \in ParcelsOf(manifest[n].printed)
        PROVE  FALSE
    <3>1. /\ manifest[m].printed = Packed(scans, m)
          /\ manifest[n].printed = Packed(scans, n)
      BY <2>1, <2>2 DEF SealedOk, PrintedIsPacked
    <3>2. PICK x \in scans : x.manifest = m /\ x.parcel = p
      BY <3>1 DEF ParcelsOf, Packed
    <3>3. PICK y \in scans : y.manifest = n /\ y.parcel = p
      BY <2>2, <3>1 DEF ParcelsOf, Packed
    <3> QED BY <3>2, <3>3 DEF IInv, TypeInv
  <2>3. ListedOnce(m)
    BY <2>2 DEF ListedOnce
  <2> QED BY <2>1, <2>3
<1> QED BY <1>1, InvariantHolds, PTL

\* A step can break the seal of a manifest only by answering a request that read
\* it before the seal (refreshPackingStatus, recalculateTotals and
\* cancelOperationsManifest).
THEOREM TheSealHolds == Spec => SealHolds
<1>1. IInv /\ [Next]_vars =>
          [\A m \in Manifests : Printed(m) =>
              \/ /\ manifest'[m].status \in {"DISPATCHED", Status(m)}
                 /\ manifest'[m].printed = manifest[m].printed
              \/ \E w \in Stations : /\ request[w].step \in {"save", "cancel"}
                                     /\ request[w].manifest = m /\ request'[w] = Idle]_vars
  BY StepKeeps DEF Keeps, SealKept
<1> QED BY <1>1, InvariantHolds, PTL DEF Spec, SealHolds
==============================================================================
