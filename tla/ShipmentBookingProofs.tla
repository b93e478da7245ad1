----------------------- MODULE ShipmentBookingProofs ------------------------
(***************************************************************************)
(* The invariants of ShipmentBooking, for every set of drafts, booking     *)
(* attempts and reconciliations, over a facility on any terms.             *)
(*                                                                         *)
(* The engine's own invariants, TypeInv and ChargesOk of                   *)
(* CreditBookingProofs, hold here as well: a booking calls the engine or   *)
(* leaves it alone.  To them comes BookingInv, which says where a request  *)
(* can be, given what the draft, its shipment and its charge say.          *)
(***************************************************************************)
EXTENDS ShipmentBooking, CreditBookingProofs

USE DEF creditVars, moneyVars, facilityVars

-----------------------------------------------------------------------------
(***************************************************************************)
(* The inductive invariant.                                                *)
(***************************************************************************)
\* Between taking the lock and giving it back: before the hold is known to be
\* past the reach of a rollback, and after.
EarlyStages == {"reserve", "carrier", "refused", "letGo", "consume", "record",
                "rollback", "unlock"}
LateStages == {"labels", "save", "complete", "invoice", "finish", "fallback",
               "review", "hold"}
RepairStages == {"complete", "invoice", "label", "repair"}
Locked(a) == request[a].stage \in EarlyStages \cup LateStages

\* The draft is paid for, or its money is past the reach of the sweep.
Funded(d) ==
    /\ charge[d].hold # NoHold
    /\ reservation[charge[d].hold].status
          \in {"CONSUMING", "REVIEW_REQUIRED", "CONVERTED"}
\* The attempt has a hold of its own that nobody has touched.
Held(a) ==
    /\ charge[DraftOf[a]].hold = a
    /\ reservation[a].status = "ACTIVE" /\ ~ reservation[a].lapsed

\* Requests and reconciliations keep to their code.
StagesOk ==
    /\ \A a \in Attempts : /\ request[a].draft = DraftOf[a]
                           /\ request[a].stage \notin {"label", "repair"}
    /\ \A r \in Reconciliations :
          request[r].stage \in RepairStages \cup EndStages

\* A billing call is only made in a billing stage, and asks for what the stage
\* wants, of the hold its draft is charged to.
CallOk(p) ==
    /\ call[p].phase # "idle" => request[p].stage \in BillingStages
    /\ call[p].phase = "called" =>
         \/ /\ request[p].stage = "reserve"
            /\ call[p].op = "reserve" /\ call[p].attempt = p
         \/ /\ request[p].stage \in BillingStages \ {"reserve"}
            /\ call[p].op = BillingOp[request[p].stage]
            /\ call[p].attempt = charge[request[p].draft].hold

\* A snapshot is only saved once the money is safe, and whatever is finished,
\* invoiced or booked has one.
DraftOk(d) ==
    /\ shipment[d].snapshot => Funded(d)
    /\ shipment[d].status = "LABEL_RECEIVED" => shipment[d].snapshot
    /\ d \in invoiced => shipment[d].snapshot
    /\ draft[d].state = "BOOKED" => shipment[d].snapshot
    /\ draft[d].state = "REVIEW_REQUIRED" => Funded(d)
    /\ draft[d].state = "EDITABLE" => ~ Funded(d)

\* Where a request is, its draft, shipment and hold allow it to be.
LockOk(a) ==
    LET d == DraftOf[a]  s == request[a].stage IN
    /\ s \in EarlyStages => /\ draft[d].state = "BOOKING" /\ draft[d].attempt = a
                            /\ ~ shipment[d].snapshot
    /\ s \in LateStages => /\ draft[d].state # "EDITABLE" /\ draft[d].attempt = a
                           /\ Funded(d)
ShipmentOk(a) ==
    LET d == DraftOf[a]  s == request[a].stage IN
    /\ s \in {"reuse", "reuseInvoice", "save", "complete", "invoice", "finish"}
          => shipment[d].snapshot
    /\ s \in {"reserve", "carrier"} => shipment[d].status = "NONE"
HoldOk(a) ==
    LET d == DraftOf[a]  s == request[a].stage  phase == call[a].phase IN
    /\ \/ s \in {"new", "begin"}
       \/ s = "reserve" /\ phase \in {"idle", "called"}
       => reservation[a].status = "NONE"
    /\ s \in {"reserve", "letGo", "unlock"} => ~ Funded(d)
    /\ \/ s = "reserve" /\ phase = "ok"
       \/ s = "carrier"
       \/ s = "consume" /\ phase \in {"idle", "called"}
       => Held(a)
    /\ \/ s = "record"
       \/ s = "consume" /\ phase = "ok"
       => Funded(d)
    /\ s \in {"refused", "rollback"} /\ phase = "ok" => ~ Funded(d)
AttemptOk(a) == LockOk(a) /\ ShipmentOk(a) /\ HoldOk(a)

RepairOk(r) == r \in Working => shipment[request[r].draft].snapshot

BookingInv ==
    /\ \A p \in Callers : CallOk(p)
    /\ \A d \in Drafts : DraftOk(d)
    /\ \A a \in Attempts : AttemptOk(a)
    /\ \A r \in Reconciliations : RepairOk(r)

EngineInv == TypeInv /\ ChargesOk
BookingTypes == BookingTypeOK /\ StagesOk
-----------------------------------------------------------------------------
(***************************************************************************)
(* The engine's invariants hold here.                                      *)
(***************************************************************************)
LEMMA EngineInit == InUse => EngineInv
<1> SUFFICES ASSUME InUse PROVE EngineInv
  OBVIOUS
<1>1. TypeInv
  BY ConstantsAssumption
     DEF InUse, TypeInv, TypeOK, CallsNameHolds, ReservationType,
         ChargeType, CallType, ReservationStatuses, ChargeStatuses,
         NoReservation, NoCharge, Idle
<1>2. \A a \in Attempts : ~ Live(a)
  BY DEF InUse, Live, NoReservation, OpenStatuses
<1>3. \A d \in Drafts : ChargeSays(d)
  BY DEF InUse, ChargeSays, NoCharge
<1> QED BY <1>1, <1>2, <1>3 DEF ChargesOk, EngineInv

\* A call that is over is forgotten.
LEMMA CallForgotten ==
    ASSUME EngineInv, NEW p \in Callers,
           call' = [call EXCEPT ![p] = Idle],
           UNCHANGED <<account, facilityVars, reservation, charge, ledger, moneyVars>>
    PROVE  EngineInv'
<1>1. TypeInv'
  <2>1. Idle \in CallType /\ Idle.phase = "idle"
    BY DEF Idle, CallType
  <2>2. call' \in [Callers -> CallType]
        /\ \A q \in Callers : call'[q].phase = "called" => call'[q] = call[q]
    BY <2>1 DEF EngineInv, TypeInv, TypeOK
  <2>3. CallsNameHolds'
    BY <2>2 DEF EngineInv, TypeInv, CallsNameHolds
  <2> QED BY <2>2, <2>3 DEF EngineInv, TypeInv, TypeOK
<1>2. ChargesOk'
  BY DEF EngineInv, ChargesOk, ChargeSays, Live
<1> QED BY <1>1, <1>2 DEF EngineInv

LEMMA EngineNext ==
    ASSUME EngineInv, BookingTypes, [BookingNext]_allVars
    PROVE  EngineInv'
<1>1. ASSUME [Next]_vars PROVE EngineInv'
  BY <1>1, TypeNext, ChargesNext DEF EngineInv
<1>2. CASE UNCHANGED allVars
  BY <1>1, <1>2 DEF allVars
<1>3. ASSUME NEW a \in Attempts, RequestStep(a) PROVE EngineInv'
  <2>1. UNCHANGED vars
    BY <1>3 DEF RequestStep, Read, Reuse, ReuseInvoice, beginShipmentDraftBooking,
         Carrier, LetGo, recordBookingOutcome, StoreLabels, SaveStatus,
         ensureShipmentInvoiceForDraft, Finish, Fallback, Hold, Unlock
  <2> QED BY <1>1, <2>1
<1>4. ASSUME NEW r \in Reconciliations, RepairStep(r) PROVE EngineInv'
  <2>1. UNCHANGED vars
    BY <1>4 DEF RepairStep, ReadForRepair, ensureShipmentInvoiceForDraft,
         SaveRepaired, BookRepaired
  <2> QED BY <1>1, <2>1
<1>5. ASSUME NEW a \in Attempts, Sweep(a) PROVE EngineInv'
  BY <1>1, <1>5 DEF Sweep, Next, SweepStep
<1>6. ASSUME NEW p \in Callers, BillingStep(p) PROVE EngineInv'
  <2>1. CASE AskBilling(p)
    <3>1. BeginCall(p)
      <4>1. CASE At(p, "reserve") /\ BeginReserve(p, p)
        <5>1. p \in Attempts
          BY <4>1, BookingAssumption DEF At, BookingTypes, StagesOk, RepairStages, EndStages
        <5> QED BY <4>1, <5>1 DEF BeginCall
      <4>2. ASSUME NEW stage \in DOMAIN BillingOp,
                   BeginOnCharge(p, BillingOp[stage], DraftOfRequest(p))
            PROVE  BeginCall(p)
        <5>1. BillingOp[stage] \in ChargeOps
          BY DEF BillingOp, ChargeOps
        <5>2. DraftOfRequest(p) \in Drafts
          BY DEF DraftOfRequest, BookingTypes, BookingTypeOK
        <5> QED BY <4>2, <5>1, <5>2 DEF BeginCall
      <4> QED BY <2>1, <4>1, <4>2 DEF AskBilling
    <3> QED BY <1>1, <3>1 DEF Next
  <2>2. CASE RunBilling(p)
    BY <1>1, <2>2 DEF RunBilling, Next
  <2>3. CASE Continue(p)
    BY <2>3, CallForgotten DEF Continue
  <2> QED BY <1>6, <2>1, <2>2, <2>3 DEF BillingStep
<1>7. ASSUME NEW p \in Callers, Crash(p) PROVE EngineInv'
  BY <1>7, CallForgotten DEF Crash
<1> QED BY <1>2, <1>3, <1>4, <1>5, <1>6, <1>7 DEF BookingNext
-----------------------------------------------------------------------------
(***************************************************************************)
(* What a step does to requests, drafts and shipments.                     *)
(***************************************************************************)
Stages == WorkStages \cup EndStages
RequestType ==
    [stage : Stages, draft : Drafts, status : ShipmentStatuses,
     outcome : {"none", "label", "noLabel", "uncertain"}, seen : DraftType]
CarrierType == [bookings : Nat, uncertain : BOOLEAN]
FreeIfEditable(d) == draft[d].state = "EDITABLE" => draft[d].attempt = NoHold

Goes(p, stage) ==
    /\ request' \in [Callers -> RequestType]
    /\ request'[p].stage = stage /\ request'[p].draft = request[p].draft
    /\ \A q \in Callers : q # p => request'[q] = request[q]
DraftGoes(d) ==
    /\ draft' \in [Drafts -> DraftType] /\ \A e \in Drafts : FreeIfEditable(e)'
    /\ \A e \in Drafts : e # d => draft'[e] = draft[e]
ShipmentGoes(d) ==
    /\ shipment' \in [Drafts -> ShipmentType]
    /\ \A e \in Drafts : e # d => shipment'[e] = shipment[e]

LEMMA TypesAre ==
    BookingTypeOK <=>
        /\ draft \in [Drafts -> DraftType] /\ \A d \in Drafts : FreeIfEditable(d)
        /\ shipment \in [Drafts -> ShipmentType]
        /\ carrier \in [Drafts -> CarrierType]
        /\ invoiced \subseteq Drafts
        /\ request \in [Callers -> RequestType]
BY DEF BookingTypeOK, FreeIfEditable, CarrierType, RequestType, Stages

LEMMA GoMoves ==
    ASSUME BookingTypeOK, NEW p \in Callers, NEW stage \in Stages, Go(p, stage)
    PROVE  Goes(p, stage) /\ request'[p].status = request[p].status
<1>1. request \in [Callers -> RequestType]
  BY TypesAre
<1> QED BY <1>1 DEF Go, Goes, RequestType

LEMMA GoTwice ==
    ASSUME BookingTypeOK, NEW p \in Callers, NEW stage \in Stages,
           \/ \E status \in ShipmentStatuses :
                 request' = [request EXCEPT ![p].stage = stage, ![p].status = status]
           \/ \E status \in ShipmentStatuses :
                 request' = [request EXCEPT ![p].status = status, ![p].stage = stage]
           \/ \E outcome \in {"none", "label", "noLabel", "uncertain"} :
                 request' = [request EXCEPT ![p].stage = stage, ![p].outcome = outcome]
           \/ \E seen \in DraftType :
                 request' = [request EXCEPT ![p].seen = seen, ![p].stage = stage]
    PROVE  Goes(p, stage)
<1>1. request \in [Callers -> RequestType]
  BY TypesAre
<1>2. ASSUME NEW status \in ShipmentStatuses,
             request' = [request EXCEPT ![p].stage = stage, ![p].status = status]
      PROVE  Goes(p, stage)
  <2> DEFINE one == [request[p] EXCEPT !.stage = stage]
             mine == [one EXCEPT !.status = status]
  <2>1. /\ one \in RequestType /\ one.stage = stage
        /\ one.draft = request[p].draft
    BY <1>1 DEF RequestType
  <2>2. request' = [request EXCEPT ![p] = mine]
    BY <1>2
  <2> HIDE DEF one
  <2>3. mine \in RequestType /\ mine.stage = stage /\ mine.draft = one.draft
    BY <2>1 DEF RequestType
  <2> HIDE DEF mine
  <2> QED BY <1>1, <2>1, <2>2, <2>3 DEF Goes
<1>3. ASSUME NEW status \in ShipmentStatuses,
             request' = [request EXCEPT ![p].status = status, ![p].stage = stage]
      PROVE  Goes(p, stage)
  <2> DEFINE one == [request[p] EXCEPT !.status = status]
             mine == [one EXCEPT !.stage = stage]
  <2>1. /\ one \in RequestType /\ one.status = status
        /\ one.draft = request[p].draft
    BY <1>1 DEF RequestType
  <2>2. request' = [request EXCEPT ![p] = mine]
    BY <1>3
  <2> HIDE DEF one
  <2>3. mine \in RequestType /\ mine.stage = stage /\ mine.draft = one.draft
    BY <2>1 DEF RequestType
  <2> HIDE DEF mine
  <2> QED BY <1>1, <2>1, <2>2, <2>3 DEF Goes
<1>4. ASSUME NEW outcome \in {"none", "label", "noLabel", "uncertain"},
             request' = [request EXCEPT ![p].stage = stage, ![p].outcome = outcome]
      PROVE  Goes(p, stage)
  <2> DEFINE one == [request[p] EXCEPT !.stage = stage]
             mine == [one EXCEPT !.outcome = outcome]
  <2>1. /\ one \in RequestType /\ one.stage = stage
        /\ one.draft = request[p].draft
    BY <1>1 DEF RequestType
  <2>2. request' = [request EXCEPT ![p] = mine]
    BY <1>4
  <2> HIDE DEF one
  <2>3. mine \in RequestType /\ mine.stage = stage /\ mine.draft = one.draft
    BY <2>1 DEF RequestType
  <2> HIDE DEF mine
  <2> QED BY <1>1, <2>1, <2>2, <2>3 DEF Goes
<1>5. ASSUME NEW seen \in DraftType,
             request' = [request EXCEPT ![p].seen = seen, ![p].stage = stage]
      PROVE  Goes(p, stage)
  <2> DEFINE one == [request[p] EXCEPT !.seen = seen]
             mine == [one EXCEPT !.stage = stage]
  <2>1. /\ one \in RequestType /\ one.seen = seen
        /\ one.draft = request[p].draft
    BY <1>1 DEF RequestType
  <2>2. request' = [request EXCEPT ![p] = mine]
    BY <1>5
  <2> HIDE DEF one
  <2>3. mine \in RequestType /\ mine.stage = stage /\ mine.draft = one.draft
    BY <2>1 DEF RequestType
  <2> HIDE DEF mine
  <2> QED BY <1>1, <2>1, <2>2, <2>3 DEF Goes
<1> QED BY <1>2, <1>3, <1>4, <1>5

LEMMA SetMoves ==
    ASSUME BookingTypeOK, NEW d \in Drafts,
           NEW state \in BookingStates \ {"EDITABLE"}, SetDraft(d, state)
    PROVE  /\ DraftGoes(d)
           /\ draft'[d].state = state /\ draft'[d].attempt = draft[d].attempt
<1>1. draft \in [Drafts -> DraftType] /\ \A e \in Drafts : FreeIfEditable(e)
  BY TypesAre
<1>2. /\ draft' \in [Drafts -> DraftType]
      /\ draft'[d].state = state /\ draft'[d].attempt = draft[d].attempt
      /\ \A e \in Drafts : e # d => draft'[e] = draft[e]
  BY <1>1 DEF SetDraft, DraftType
<1> QED BY <1>1, <1>2 DEF DraftGoes, FreeIfEditable

LEMMA TransitionDone ==
    ASSUME BookingTypeOK, NEW a \in Attempts, NEW state \in BookingStates,
           draft' = transitionShipmentDraftBooking(a, state)
    PROVE  /\ DraftGoes(DraftOf[a])
           /\ IF draft[DraftOf[a]].attempt # a
              THEN draft'[DraftOf[a]] = draft[DraftOf[a]]
              ELSE /\ draft'[DraftOf[a]].state = state
                   /\ draft'[DraftOf[a]].attempt
                         = IF state = "EDITABLE" THEN NoHold ELSE a
<1> DEFINE d == DraftOf[a]
           next == IF draft[d].attempt # a THEN draft[d]
                   ELSE [state |-> state, writes |-> draft[d].writes + 1,
                         attempt |-> IF state = "EDITABLE" THEN NoHold ELSE a]
<1>1. draft \in [Drafts -> DraftType] /\ \A e \in Drafts : FreeIfEditable(e)
  BY TypesAre
<1>2. d \in Drafts
  BY ConstantsAssumption
<1>3. next \in DraftType
  BY <1>1, <1>2 DEF DraftType
<1>4. draft' = [draft EXCEPT ![d] = next]
  BY DEF transitionShipmentDraftBooking
<1>5. next.state = "EDITABLE" => next.attempt = NoHold
  BY <1>1, <1>2 DEF FreeIfEditable
<1>6. IF draft[d].attempt # a THEN next = draft[d]
      ELSE /\ next.state = state
           /\ next.attempt = IF state = "EDITABLE" THEN NoHold ELSE a
  OBVIOUS
<1> HIDE DEF next
<1>7. /\ draft' \in [Drafts -> DraftType] /\ draft'[d] = next
      /\ \A e \in Drafts : e # d => draft'[e] = draft[e]
  BY <1>1, <1>2, <1>3, <1>4
<1> QED BY <1>1, <1>5, <1>6, <1>7 DEF DraftGoes, FreeIfEditable

LEMMA ShipmentMoves ==
    ASSUME BookingTypeOK, NEW d \in Drafts, NEW status \in ShipmentStatuses,
           SetShipment(d, status)
    PROVE  /\ ShipmentGoes(d) /\ shipment'[d].status = status
           /\ shipment'[d].snapshot = shipment[d].snapshot
<1>1. shipment \in [Drafts -> ShipmentType]
  BY TypesAre
<1> QED BY <1>1 DEF SetShipment, ShipmentGoes, ShipmentType

LEMMA Untouched ==
    ASSUME BookingTypeOK, NEW d \in Drafts
    PROVE  /\ UNCHANGED draft => DraftGoes(d)
           /\ UNCHANGED shipment => ShipmentGoes(d)
BY TypesAre DEF DraftGoes, ShipmentGoes, FreeIfEditable

LEMMA DocketMoves ==
    ASSUME BookingTypeOK, NEW d \in Drafts, NEW n \in {0, 1}, NEW outcome,
           carrier' = [carrier EXCEPT
              ![d].bookings = @ + n,
              ![d].uncertain = @ \/ outcome = "uncertain"]
    PROVE  carrier' \in [Drafts -> CarrierType]
<1> DEFINE one == [carrier[d] EXCEPT !.bookings = @ + n]
           two == [one EXCEPT !.uncertain = @ \/ outcome = "uncertain"]
<1>1. carrier \in [Drafts -> CarrierType]
  BY TypesAre
<1>2. one \in CarrierType
  BY <1>1 DEF CarrierType
<1>3. carrier' = [carrier EXCEPT ![d] = two]
  OBVIOUS
<1> HIDE DEF one
<1>4. two \in CarrierType
  BY <1>2 DEF CarrierType
<1> HIDE DEF two
<1> QED BY <1>1, <1>3, <1>4

LEMMA RecordMoves ==
    ASSUME BookingTypeOK, NEW d \in Drafts, NEW status \in ShipmentStatuses,
           NEW referred \in BOOLEAN,
           shipment' = [shipment EXCEPT ![d].status = status,
                                        ![d].reference = referred]
    PROVE  /\ ShipmentGoes(d) /\ shipment'[d].status = status
           /\ shipment'[d].snapshot = shipment[d].snapshot
<1> DEFINE one == [shipment[d] EXCEPT !.status = status]
           two == [one EXCEPT !.reference = referred]
<1>1. shipment \in [Drafts -> ShipmentType]
  BY TypesAre
<1>2. /\ one \in ShipmentType /\ one.status = status
      /\ one.snapshot = shipment[d].snapshot
  BY <1>1 DEF ShipmentType
<1>3. shipment' = [shipment EXCEPT ![d] = two]
  OBVIOUS
<1> HIDE DEF one
<1>4. /\ two \in ShipmentType /\ two.status = status
      /\ two.snapshot = one.snapshot
  BY <1>2 DEF ShipmentType
<1> HIDE DEF two
<1> QED BY <1>1, <1>2, <1>3, <1>4 DEF ShipmentGoes

LEMMA SnapshotKept ==
    ASSUME BookingTypeOK, NEW d \in Drafts
    PROVE  LET saved == [shipment EXCEPT ![d].snapshot = TRUE] IN
           /\ saved \in [Drafts -> ShipmentType]
           /\ saved[d].snapshot /\ saved[d].status = shipment[d].status
           /\ \A e \in Drafts : e # d => saved[e] = shipment[e]
<1>1. shipment \in [Drafts -> ShipmentType]
  BY TypesAre
<1> QED BY <1>1 DEF ShipmentType

\* The snapshot is saved, and the carrier's label with it or not.
LEMMA StoreMoves ==
    ASSUME BookingTypeOK, NEW d \in Drafts, NEW labelled \in BOOLEAN,
           shipment' \in LET saved == [shipment EXCEPT ![d].snapshot = TRUE]
                         IN  {saved, [saved EXCEPT ![d].label = labelled]}
    PROVE  /\ ShipmentGoes(d) /\ shipment'[d].status = shipment[d].status
           /\ shipment'[d].snapshot
<1> DEFINE saved == [shipment EXCEPT ![d].snapshot = TRUE]
           stored == [saved EXCEPT ![d].label = labelled]
<1>1. shipment' = saved \/ shipment' = stored
  OBVIOUS
<1>2. /\ saved \in [Drafts -> ShipmentType]
      /\ saved[d].snapshot /\ saved[d].status = shipment[d].status
      /\ \A e \in Drafts : e # d => saved[e] = shipment[e]
  BY SnapshotKept
<1> HIDE DEF saved
<1>3. /\ stored \in [Drafts -> ShipmentType]
      /\ stored[d].snapshot = saved[d].snapshot
      /\ stored[d].status = saved[d].status
      /\ \A e \in Drafts : e # d => stored[e] = saved[e]
  BY <1>2 DEF ShipmentType
<1> HIDE DEF stored
<1> QED BY <1>1, <1>2, <1>3 DEF ShipmentGoes
-----------------------------------------------------------------------------
(***************************************************************************)
(* A step of one request or reconciliation, outside its billing calls.     *)
(***************************************************************************)
Inv == EngineInv /\ BookingTypes /\ BookingInv

\* The step moves p, and the documents of the draft d that p is about.
Own(p, d) ==
    /\ UNCHANGED vars
    /\ d = request[p].draft /\ Goes(p, request'[p].stage)
    /\ DraftGoes(d) /\ ShipmentGoes(d)
    /\ carrier' \in [Drafts -> CarrierType]
    /\ invoiced' \subseteq Drafts
    /\ \A e \in Drafts : e # d => (e \in invoiced' <=> e \in invoiced)

\* Nobody but p holds the lock of d.
Alone(p, d) == \A q \in Attempts : q # p /\ Locked(q) => DraftOf[q] # d

\* The step is harmless for whoever else holds the lock.
Harmless(p, d) ==
    \/ Alone(p, d)
    \/ draft'[d] = draft[d] /\ shipment'[d] = shipment[d]
    \/ /\ shipment[d].snapshot /\ draft'[d].attempt = draft[d].attempt
       /\ draft[d].state # "EDITABLE" => draft'[d].state # "EDITABLE"

LEMMA LockIsHeld ==
    ASSUME Inv, NEW a \in Attempts, Locked(a)
    PROVE  draft[DraftOf[a]].attempt = a /\ draft[DraftOf[a]].state # "EDITABLE"
BY DEF Inv, BookingInv, AttemptOk, LockOk, Locked

LEMMA LockIsOne ==
    ASSUME Inv, NEW a \in Attempts, Locked(a)
    PROVE  Alone(a, DraftOf[a])
BY LockIsHeld DEF Alone

LEMMA AttemptsCall ==
    /\ \A a \in Attempts : a \in Callers /\ DraftOf[a] \in Drafts
    /\ \A r \in Reconciliations : r \in Callers /\ r \notin Attempts
    /\ \A p \in Callers : p \in Attempts \/ p \in Reconciliations
BY BookingAssumption, ConstantsAssumption

LEMMA Bystanders ==
    ASSUME Inv, NEW p \in Callers, NEW d \in Drafts, Own(p, d), Harmless(p, d),
           shipment[d].snapshot => shipment'[d].snapshot
    PROVE  /\ \A q \in Attempts : q # p => AttemptOk(q)'
           /\ \A r \in Reconciliations : r # p => RepairOk(r)'
           /\ \A q \in Callers : q # p => CallOk(q)'
           /\ \A e \in Drafts : e # d => DraftOk(e)'
<1>1. /\ UNCHANGED <<reservation, charge, call>>
      /\ \A q \in Callers : q # p => request'[q] = request[q]
      /\ \A e \in Drafts : e # d => /\ draft'[e] = draft[e]
                                    /\ shipment'[e] = shipment[e]
                                    /\ e \in invoiced' <=> e \in invoiced
  BY DEF Own, Goes, DraftGoes, ShipmentGoes, vars
<1>2. \A e \in Drafts : Funded(e)' <=> Funded(e)
  BY <1>1 DEF Funded
<1>3. ASSUME NEW q \in Attempts, q # p PROVE AttemptOk(q)'
  <2>1. /\ AttemptOk(q) /\ request'[q] = request[q] /\ call'[q] = call[q]
        /\ reservation'[q] = reservation[q] /\ DraftOf[q] \in Drafts
        /\ Funded(DraftOf[q])' <=> Funded(DraftOf[q])
        /\ Held(q)' <=> Held(q)
    BY <1>1, <1>2, <1>3, AttemptsCall DEF Inv, BookingInv, Held
  <2>2. HoldOk(q)'
    BY <2>1 DEF AttemptOk, HoldOk
  <2>3. CASE DraftOf[q] # d \/ (draft'[d] = draft[d] /\ shipment'[d] = shipment[d])
    <3>1. /\ draft'[DraftOf[q]] = draft[DraftOf[q]]
          /\ shipment'[DraftOf[q]] = shipment[DraftOf[q]]
      BY <1>1, <2>1, <2>3
    <3> QED BY <2>1, <2>2, <3>1 DEF AttemptOk, LockOk, ShipmentOk
  <2>4. CASE DraftOf[q] = d /\ ~ Locked(q)
    BY <2>1, <2>2, <2>4
       DEF AttemptOk, LockOk, ShipmentOk, Locked, EarlyStages, LateStages
  <2>5. CASE /\ DraftOf[q] = d /\ Locked(q)
             /\ ~ (draft'[d] = draft[d] /\ shipment'[d] = shipment[d])
    <3>1. /\ shipment[d].snapshot /\ draft'[d].attempt = draft[d].attempt
          /\ draft[d].state # "EDITABLE" => draft'[d].state # "EDITABLE"
      BY <1>3, <2>5 DEF Harmless, Alone
    <3>2. request[q].stage \notin EarlyStages
      BY <2>1, <2>5, <3>1 DEF AttemptOk, LockOk
    <3>3. LockOk(q)'
      BY <2>1, <2>5, <3>1, <3>2 DEF AttemptOk, LockOk
    <3>4. ShipmentOk(q)'
      BY <2>1, <2>5, <3>1, <3>2 DEF AttemptOk, ShipmentOk, EarlyStages
    <3> QED BY <2>2, <3>3, <3>4 DEF AttemptOk
  <2> QED BY <2>3, <2>4, <2>5
<1>4. ASSUME NEW r \in Reconciliations, r # p PROVE RepairOk(r)'
  <2>1. /\ RepairOk(r) /\ request'[r] = request[r] /\ r \in Callers
        /\ request[r].draft \in Drafts
    BY <1>1, <1>4, AttemptsCall DEF Inv, BookingInv, BookingTypes, BookingTypeOK
  <2>2. shipment[request[r].draft].snapshot => shipment'[request[r].draft].snapshot
    BY <1>1, <2>1
  <2> QED BY <2>1, <2>2 DEF RepairOk, Working
<1>5. ASSUME NEW q \in Callers, q # p PROVE CallOk(q)'
  BY <1>1, <1>5 DEF Inv, BookingInv, CallOk
<1>6. ASSUME NEW e \in Drafts, e # d PROVE DraftOk(e)'
  BY <1>1, <1>2, <1>6 DEF Inv, BookingInv, DraftOk
<1> QED BY <1>3, <1>4, <1>5, <1>6

LEMMA OwnStep ==
    ASSUME Inv, NEW p \in Callers, NEW d \in Drafts, Own(p, d), Harmless(p, d),
           request[p].stage \notin BillingStages,
           shipment[d].snapshot => shipment'[d].snapshot,
           DraftOk(d)',
           p \in Attempts =>
              /\ request'[p].stage \notin {"label", "repair"}
              /\ AttemptOk(p)',
           p \in Reconciliations =>
              /\ request'[p].stage \in RepairStages \cup EndStages
              /\ RepairOk(p)'
    PROVE  (BookingTypes /\ BookingInv)'
<1>1. BookingTypeOK'
  BY TypesAre DEF Own, Goes, DraftGoes, ShipmentGoes, BookingTypeOK, FreeIfEditable,
                  CarrierType, RequestType, Stages
<1>2. StagesOk'
  BY AttemptsCall DEF Inv, BookingTypes, StagesOk, Own, Goes
<1>3. CallOk(p)'
  BY DEF Inv, BookingInv, CallOk, Own, vars
<1> QED BY <1>1, <1>2, <1>3, Bystanders DEF BookingTypes, BookingInv
-----------------------------------------------------------------------------
(***************************************************************************)
(* A booking request, up to the point where the booking is durable.        *)
(***************************************************************************)
LEMMA AttemptIs ==
    ASSUME Inv, NEW a \in Attempts
    PROVE  /\ a \in Callers /\ a \notin Reconciliations /\ DraftOf[a] \in Drafts
           /\ request[a] \in RequestType /\ request[a].draft = DraftOf[a]
           /\ DraftOfRequest(a) = DraftOf[a]
           /\ AttemptOk(a) /\ DraftOk(DraftOf[a]) /\ CallOk(a) /\ BookingTypeOK
           /\ draft[DraftOf[a]] \in DraftType /\ shipment[DraftOf[a]] \in ShipmentType
           /\ FreeIfEditable(DraftOf[a])
           /\ carrier \in [Drafts -> CarrierType] /\ invoiced \subseteq Drafts
BY AttemptsCall, TypesAre
   DEF Inv, BookingInv, BookingTypes, StagesOk, DraftOfRequest

LEMMA IdleHere ==
    ASSUME Inv, NEW p \in Callers, request[p].stage \notin BillingStages
    PROVE  call[p].phase = "idle"
BY DEF Inv, BookingInv, CallOk

\* What stays when the engine is left alone.
LEMMA MoneyStays ==
    ASSUME UNCHANGED vars
    PROVE  /\ UNCHANGED <<reservation, charge, call>>
           /\ \A d \in Drafts : Funded(d)' <=> Funded(d)
           /\ \A a \in Attempts : Held(a)' <=> Held(a)
BY DEF vars, Funded, Held

LEMMA ReadKeeps ==
    ASSUME Inv, NEW a \in Attempts, Read(a)
    PROVE  (BookingTypes /\ BookingInv)'
<1> DEFINE d == DraftOf[a]
           stage == CASE shipment[d].status = "LABEL_RECEIVED" -> "reuse"
                      [] shipment[d].status = "NONE" -> "begin"
                      [] OTHER -> "done"
<1>1. /\ UNCHANGED vars /\ UNCHANGED <<draft, shipment, carrier, invoiced>>
      /\ request[a].stage = "new"
      /\ request' = [request EXCEPT ![a].seen = draft[d], ![a].stage = stage]
  BY AttemptIs DEF Read, At
<1>2. stage \in {"reuse", "begin", "done"} /\ stage \in Stages
  BY DEF Stages, WorkStages, EndStages
<1>3. stage = "reuse" => shipment[d].status = "LABEL_RECEIVED"
  OBVIOUS
<1> HIDE DEF stage
<1>4. Goes(a, stage)
  BY <1>1, <1>2, AttemptIs, GoTwice
<1>5. Own(a, d)
  BY <1>1, <1>4, AttemptIs, Untouched DEF Own, Goes
<1>6. DraftOk(d)'
  BY <1>1, MoneyStays, AttemptIs DEF DraftOk
<1>7. AttemptOk(a)'
  <2>1. request'[a].stage = stage
    BY <1>4 DEF Goes
  <2>3. reservation[a].status = "NONE" /\ reservation' = reservation
    BY <1>1, MoneyStays, AttemptIs DEF AttemptOk, HoldOk
  <2>2. stage = "reuse" => shipment'[d].snapshot
    BY <1>1, <1>3, AttemptIs DEF DraftOk
  <2> QED BY <1>2, <2>1, <2>2, <2>3
       DEF AttemptOk, LockOk, ShipmentOk, HoldOk, EarlyStages, LateStages
<1> QED BY <1>1, <1>2, <1>4, <1>5, <1>6, <1>7, AttemptIs, OwnStep
        DEF Harmless, Goes, BillingStages

LEMMA ReuseKeeps ==
    ASSUME Inv, NEW a \in Attempts, Reuse(a)
    PROVE  (BookingTypes /\ BookingInv)'
<1> DEFINE d == DraftOf[a]
<1>1. /\ UNCHANGED vars /\ UNCHANGED <<shipment, carrier, invoiced>>
      /\ request[a].stage = "reuse" /\ Go(a, "reuseInvoice")
      /\ UNCHANGED draft \/ SetDraft(d, "BOOKED")
  BY AttemptIs DEF Reuse, At
<1>2. Goes(a, "reuseInvoice")
  BY <1>1, AttemptIs, GoMoves DEF Stages, WorkStages
<1>3. /\ DraftGoes(d) /\ draft'[d].attempt = draft[d].attempt
      /\ draft'[d].state \in {draft[d].state, "BOOKED"}
  BY <1>1, AttemptIs, SetMoves, Untouched DEF BookingStates
<1>4. Own(a, d)
  BY <1>1, <1>2, <1>3, AttemptIs, Untouched DEF Own, Goes
<1>5. shipment[d].snapshot
  BY <1>1, AttemptIs DEF AttemptOk, ShipmentOk
<1>6. DraftOk(d)'
  BY <1>1, <1>3, <1>5, MoneyStays, AttemptIs DEF DraftOk
<1>7. AttemptOk(a)'
  BY <1>1, <1>2, <1>5
     DEF Goes, AttemptOk, LockOk, ShipmentOk, HoldOk, EarlyStages, LateStages
<1> QED BY <1>1, <1>2, <1>3, <1>4, <1>5, <1>6, <1>7, AttemptIs, OwnStep
        DEF Harmless, Goes, BillingStages

LEMMA ReuseInvoiceKeeps ==
    ASSUME Inv, NEW a \in Attempts, ReuseInvoice(a)
    PROVE  (BookingTypes /\ BookingInv)'
<1> DEFINE d == DraftOf[a]
<1>1. /\ UNCHANGED vars /\ UNCHANGED <<shipment, carrier>>
      /\ request[a].stage = "reuseInvoice" /\ Go(a, "done")
      /\ \/ invoiced' = invoiced \cup {d} /\ UNCHANGED draft
         \/ UNCHANGED invoiced /\ SetDraft(d, "REVIEW_REQUIRED")
  BY AttemptIs DEF ReuseInvoice, At
<1>2. Goes(a, "done")
  BY <1>1, AttemptIs, GoMoves DEF Stages, EndStages
<1>3. /\ DraftGoes(d) /\ draft'[d].attempt = draft[d].attempt
      /\ draft'[d].state \in {draft[d].state, "REVIEW_REQUIRED"}
  BY <1>1, AttemptIs, SetMoves, Untouched DEF BookingStates
<1>4. Own(a, d)
  BY <1>1, <1>2, <1>3, AttemptIs, Untouched DEF Own, Goes
<1>5. shipment[d].snapshot
  BY <1>1, AttemptIs DEF AttemptOk, ShipmentOk
<1>6. DraftOk(d)'
  BY <1>1, <1>3, <1>5, MoneyStays, AttemptIs DEF DraftOk
<1>7. AttemptOk(a)'
  BY <1>1, <1>2
     DEF Goes, AttemptOk, LockOk, ShipmentOk, HoldOk, EarlyStages, LateStages
<1> QED BY <1>1, <1>2, <1>3, <1>4, <1>5, <1>6, <1>7, AttemptIs, OwnStep
        DEF Harmless, Goes, BillingStages, EndStages

LEMMA OverIsOk ==
    ASSUME NEW a \in Attempts, request'[a].stage \in {"done", "crashed"}
    PROVE  AttemptOk(a)'
BY DEF AttemptOk, LockOk, ShipmentOk, HoldOk, EarlyStages, LateStages

LEMMA beginKeeps ==
    ASSUME Inv, NEW a \in Attempts, beginShipmentDraftBooking(a)
    PROVE  (BookingTypes /\ BookingInv)'
<1> DEFINE d == DraftOf[a]
<1>1. /\ UNCHANGED vars /\ UNCHANGED <<shipment, carrier, invoiced>>
      /\ request[a].stage = "begin"
  BY AttemptIs DEF beginShipmentDraftBooking, At
<1>2. CASE CanLock(a)
  <2> DEFINE locked == [state |-> "BOOKING", attempt |-> a,
                        writes |-> draft[d].writes + 1]
  <2>1. draft' = [draft EXCEPT ![d] = locked] /\ Go(a, "reserve")
    BY <1>2, AttemptIs DEF beginShipmentDraftBooking
  <2>2. locked \in DraftType /\ locked.state = "BOOKING" /\ locked.attempt = a
    BY AttemptIs DEF DraftType, BookingStates
  <2> HIDE DEF locked
  <2>3. /\ DraftGoes(d) /\ draft'[d].state = "BOOKING" /\ draft'[d].attempt = a
    BY <2>1, <2>2, AttemptIs, TypesAre DEF DraftGoes, FreeIfEditable
  <2>4. Goes(a, "reserve")
    BY <2>1, AttemptIs, GoMoves DEF Stages, WorkStages, BillingStages
  <2>5. draft[d].state = "EDITABLE" /\ shipment[d].status = "NONE"
    <3>1. ResolvedState(d) = "EDITABLE"
      BY <1>2, AttemptIs DEF CanLock
    <3>2. draft[d].state = "EDITABLE"
      BY <3>1 DEF ResolvedState
    <3> QED BY <3>1, <3>2, AttemptIs DEF ResolvedState, ShipmentType, ShipmentStatuses
  <2>6. ~ Funded(d) /\ ~ shipment[d].snapshot
    BY <2>5, AttemptIs DEF DraftOk
  <2>7. Own(a, d)
    BY <1>1, <2>3, <2>4, AttemptIs, Untouched DEF Own, Goes
  <2>8. Alone(a, d)
    BY <2>5, LockIsHeld DEF Alone
  <2>9. DraftOk(d)'
    BY <1>1, <2>3, <2>6, MoneyStays, AttemptIs DEF DraftOk
  <2>10. AttemptOk(a)'
    <3>1. reservation[a].status = "NONE" /\ UNCHANGED reservation
      BY <1>1, MoneyStays, AttemptIs DEF AttemptOk, HoldOk
    <3>2. request'[a].stage = "reserve" /\ call'[a].phase = "idle" /\ ~ Funded(d)'
      BY <1>1, <2>4, <2>6, MoneyStays, AttemptIs, IdleHere DEF Goes, BillingStages
    <3>3. LockOk(a)' /\ ShipmentOk(a)'
      BY <1>1, <2>3, <2>5, <2>6, <3>2 DEF LockOk, ShipmentOk, LateStages
    <3>4. HoldOk(a)'
      BY <3>1, <3>2 DEF HoldOk
    <3> QED BY <3>3, <3>4 DEF AttemptOk
  <2> QED BY <1>1, <2>4, <2>6, <2>7, <2>8, <2>9, <2>10, AttemptIs, OwnStep
          DEF Harmless, Goes, BillingStages
<1>3. CASE ~ CanLock(a)
  <2>1. Go(a, "done") /\ UNCHANGED draft
    BY <1>3 DEF beginShipmentDraftBooking
  <2>2. Goes(a, "done")
    BY <2>1, AttemptIs, GoMoves DEF Stages, EndStages
  <2>3. Own(a, d)
    BY <1>1, <2>1, <2>2, AttemptIs, Untouched DEF Own, Goes
  <2>4. DraftOk(d)'
    BY <1>1, <2>1, MoneyStays, AttemptIs DEF DraftOk
  <2> QED BY <1>1, <2>1, <2>2, <2>3, <2>4, AttemptIs, OwnStep, OverIsOk
          DEF Harmless, Goes, BillingStages
<1> QED BY <1>2, <1>3

\* A step of the request that holds the lock.
LEMMA LockedStep ==
    ASSUME Inv, NEW a \in Attempts, Locked(a), Own(a, DraftOf[a]),
           request[a].stage \notin BillingStages,
           request'[a].stage \notin {"label", "repair"},
           shipment[DraftOf[a]].snapshot => shipment'[DraftOf[a]].snapshot,
           DraftOk(DraftOf[a])', AttemptOk(a)'
    PROVE  (BookingTypes /\ BookingInv)'
BY AttemptIs, LockIsOne, OwnStep DEF Harmless

LEMMA CarrierKeeps ==
    ASSUME Inv, NEW a \in Attempts, Carrier(a)
    PROVE  (BookingTypes /\ BookingInv)'
<1> DEFINE d == DraftOf[a]
<1>1. /\ UNCHANGED vars /\ UNCHANGED <<draft, shipment, invoiced>>
      /\ request[a].stage = "carrier"
  BY AttemptIs DEF Carrier, At
<1>2. PICK stage \in {"consume", "refused", "rollback"} :
        /\ Goes(a, stage)
        /\ carrier' \in [Drafts -> CarrierType]
  <2>1. ASSUME NEW n \in {0, 1}, NEW outcome \in {"none", "label", "noLabel", "uncertain"},
               carrier' = [carrier EXCEPT
                  ![d].bookings = @ + n,
                  ![d].uncertain = @ \/ outcome = "uncertain"],
               request' = [request EXCEPT ![a].stage = "consume",
                                          ![a].outcome = outcome]
        PROVE  Goes(a, "consume") /\ carrier' \in [Drafts -> CarrierType]
    <3>1. Goes(a, "consume")
      BY <2>1, AttemptIs, GoTwice DEF Stages, WorkStages, BillingStages
    <3>2. carrier' \in [Drafts -> CarrierType]
      BY <2>1, AttemptIs, DocketMoves
    <3> QED BY <3>1, <3>2
  <2>2. ASSUME NEW stage \in {"refused", "rollback"}, Go(a, stage), UNCHANGED carrier
        PROVE  Goes(a, stage) /\ carrier' \in [Drafts -> CarrierType]
    BY <2>2, AttemptIs, GoMoves DEF Stages, WorkStages, BillingStages
  <2> QED BY <2>1, <2>2, AttemptIs DEF Carrier
<1>3. Own(a, d)
  BY <1>1, <1>2, AttemptIs, Untouched DEF Own, Goes
<1>4. DraftOk(d)'
  BY <1>1, MoneyStays, AttemptIs DEF DraftOk
<1>5. Locked(a) /\ request[a].stage \in EarlyStages
  BY <1>1 DEF Locked, EarlyStages
<1>6. AttemptOk(a)'
  <2>1. /\ LockOk(a) /\ Held(a)'
        /\ request'[a].stage = stage /\ call'[a].phase = "idle"
    <3>1. Held(a)
      BY <1>1, AttemptIs DEF AttemptOk, HoldOk
    <3> QED BY <1>1, <1>2, <3>1, MoneyStays, AttemptIs, IdleHere
            DEF AttemptOk, Goes, BillingStages
  <2>2. LockOk(a)' /\ ShipmentOk(a)'
    BY <1>1, <1>5, <2>1 DEF LockOk, ShipmentOk, EarlyStages, LateStages
  <2>3. HoldOk(a)'
    BY <2>1 DEF HoldOk
  <2> QED BY <2>2, <2>3 DEF AttemptOk
<1> QED BY <1>1, <1>2, <1>3, <1>4, <1>5, <1>6, LockedStep DEF Goes, BillingStages

\* The refusal is rolled back.  The reply of the unlock is not lost: otherwise
\* the request would go on to a second rollback of a draft it has given back.
LEMMA LetGoKeeps ==
    ASSUME Inv, NEW a \in Attempts, LetGo(a), ~ RefusalReplyLost
    PROVE  (BookingTypes /\ BookingInv)'
<1> DEFINE d == DraftOf[a]
<1>1. /\ UNCHANGED vars /\ UNCHANGED <<shipment, carrier, invoiced>>
      /\ request[a].stage = "letGo" /\ Locked(a)
  BY DEF LetGo, At, Locked, EarlyStages
<1>2. /\ draft[d].state = "BOOKING" /\ draft[d].attempt = a
      /\ ~ shipment[d].snapshot /\ ~ Funded(d) /\ ~ Funded(d)'
  BY <1>1, MoneyStays, AttemptIs DEF AttemptOk, LockOk, HoldOk, EarlyStages
<1>3. CASE draft' = transitionShipmentDraftBooking(a, "EDITABLE") /\ Go(a, "done")
  <2>1. Goes(a, "done")
    BY <1>3, AttemptIs, GoMoves DEF Stages, EndStages
  <2>2. DraftGoes(d) /\ draft'[d].state = "EDITABLE"
    BY <1>2, <1>3, AttemptIs, TransitionDone DEF BookingStates
  <2>3. Own(a, d)
    BY <1>1, <2>1, <2>2, AttemptIs, Untouched DEF Own, Goes
  <2>4. DraftOk(d)'
    BY <1>1, <1>2, <2>2, AttemptIs DEF DraftOk
  <2> QED BY <1>1, <2>1, <2>3, <2>4, OverIsOk, LockedStep DEF Goes, BillingStages
<1>4. CASE UNCHANGED draft /\ Go(a, "rollback")
  <2>1. Goes(a, "rollback")
    BY <1>4, AttemptIs, GoMoves DEF Stages, WorkStages, BillingStages
  <2>2. Own(a, d)
    BY <1>1, <1>4, <2>1, AttemptIs, Untouched DEF Own, Goes
  <2>3. DraftOk(d)'
    BY <1>1, <1>4, MoneyStays, AttemptIs DEF DraftOk
  <2>4. request'[a].stage = "rollback" /\ ~ Funded(d)'
    BY <1>2, <2>1 DEF Goes
  <2>5. AttemptOk(a)'
    BY <1>1, <1>2, <1>4, <2>4 DEF AttemptOk, LockOk, ShipmentOk, HoldOk, LateStages
  <2> QED BY <1>1, <2>2, <2>3, <2>4, <2>5, LockedStep DEF BillingStages
<1> QED BY <1>3, <1>4 DEF LetGo

LEMMA recordKeeps ==
    ASSUME Inv, NEW a \in Attempts, recordBookingOutcome(a)
    PROVE  (BookingTypes /\ BookingInv)'
<1> DEFINE d == DraftOf[a]
           status == IF request[a].outcome = "uncertain"
                     THEN "DPD_STATUS_UNKNOWN" ELSE "DPD_CREATED"
           referred == request[a].outcome \in {"label", "noLabel"}
           recorded == [shipment EXCEPT ![d].status = status,
                                        ![d].reference = referred]
<1>1. /\ UNCHANGED vars /\ UNCHANGED <<draft, carrier, invoiced>>
      /\ request[a].stage = "record" /\ Locked(a)
  BY AttemptIs DEF recordBookingOutcome, At, Locked, EarlyStages
<1>2. /\ draft[d].state = "BOOKING" /\ draft[d].attempt = a
      /\ ~ shipment[d].snapshot /\ Funded(d) /\ Funded(d)'
  BY <1>1, MoneyStays, AttemptIs DEF AttemptOk, LockOk, HoldOk, EarlyStages
<1>3. \/ /\ shipment' = recorded
         /\ request' = [request EXCEPT ![a].stage = "labels", ![a].status = status]
      \/ shipment' \in {recorded, shipment} /\ Go(a, "rollback")
  BY AttemptIs DEF recordBookingOutcome
<1>4. status \in {"DPD_STATUS_UNKNOWN", "DPD_CREATED"} /\ status \in ShipmentStatuses
      /\ referred \in BOOLEAN
  BY DEF ShipmentStatuses
<1> HIDE DEF status, referred
<1>5. ASSUME shipment' = recorded
      PROVE  /\ ShipmentGoes(d) /\ ~ shipment'[d].snapshot
             /\ shipment'[d].status # "LABEL_RECEIVED"
  <2>1. shipment' = [shipment EXCEPT ![d].status = status,
                                     ![d].reference = referred]
    BY <1>5
  <2>2. /\ ShipmentGoes(d) /\ shipment'[d].status = status
        /\ shipment'[d].snapshot = shipment[d].snapshot
    BY <1>4, <2>1, AttemptIs, RecordMoves
  <2> QED BY <1>2, <1>4, <2>2
<1>6. /\ ShipmentGoes(d) /\ ~ shipment'[d].snapshot
      /\ shipment'[d].status = "LABEL_RECEIVED"
            => shipment[d].status = "LABEL_RECEIVED"
  BY <1>2, <1>3, <1>5, AttemptIs, Untouched
<1>7. DraftOk(d)'
  BY <1>1, <1>2, <1>6, AttemptIs DEF DraftOk
<1>8. PICK stage \in {"labels", "rollback"} : Goes(a, stage)
  <2>1. "labels" \in Stages /\ "rollback" \in Stages
    BY DEF Stages, WorkStages, BillingStages
  <2>2. CASE request' = [request EXCEPT ![a].stage = "labels", ![a].status = status]
    BY <1>4, <2>1, <2>2, AttemptIs, GoTwice
  <2>3. CASE Go(a, "rollback")
    BY <2>1, <2>3, AttemptIs, GoMoves
  <2> QED BY <1>3, <2>2, <2>3
<1>9. Own(a, d)
  BY <1>1, <1>6, <1>8, AttemptIs, Untouched DEF Own, Goes
<1>10. AttemptOk(a)'
  <2>1. request'[a].stage = stage /\ call'[a].phase = "idle"
    BY <1>1, <1>8, MoneyStays, AttemptIs, IdleHere DEF Goes, BillingStages
  <2> QED BY <1>1, <1>2, <1>6, <2>1
          DEF AttemptOk, LockOk, ShipmentOk, HoldOk, EarlyStages, LateStages
<1> QED BY <1>1, <1>2, <1>7, <1>8, <1>9, <1>10, LockedStep DEF Goes, BillingStages
-----------------------------------------------------------------------------
(***************************************************************************)
(* From the durable record to the booked draft.                            *)
(***************************************************************************)
\* A late step that leaves the draft as it is: the lock and the money stay.
LEMMA LateStays ==
    ASSUME Inv, NEW a \in Attempts, request[a].stage \in LateStages, UNCHANGED vars
    PROVE  /\ Locked(a) /\ request[a].stage \notin {"label", "repair"}
           /\ Funded(DraftOf[a]) /\ Funded(DraftOf[a])'
           /\ draft[DraftOf[a]].state # "EDITABLE" /\ draft[DraftOf[a]].attempt = a
BY MoneyStays, AttemptIs DEF Locked, AttemptOk, LockOk, LateStages

\* Where a request goes with its lock and its money, no call is running.
LEMMA LateIsOk ==
    ASSUME NEW a \in Attempts, request'[a].stage \in LateStages,
           draft'[DraftOf[a]].state # "EDITABLE", draft'[DraftOf[a]].attempt = a,
           Funded(DraftOf[a])',
           request'[a].stage \in {"save", "complete", "invoice", "finish"}
              => shipment'[DraftOf[a]].snapshot
    PROVE  AttemptOk(a)'
BY DEF AttemptOk, LockOk, ShipmentOk, HoldOk, EarlyStages, LateStages

LEMMA StoreLabelsKeeps ==
    ASSUME Inv, NEW a \in Attempts, StoreLabels(a)
    PROVE  (BookingTypes /\ BookingInv)'
<1> DEFINE d == DraftOf[a]
           labelled == request[a].outcome = "label"
           saved == [shipment EXCEPT ![d].snapshot = TRUE]
           stored == [saved EXCEPT ![d].label = labelled]
<1>1. /\ UNCHANGED vars /\ UNCHANGED <<draft, carrier, invoiced>>
      /\ request[a].stage = "labels" /\ request[a].stage \in LateStages
  BY DEF StoreLabels, At, LateStages
<1>2. \/ shipment' = stored /\ Go(a, "save")
      \/ shipment' \in {shipment, saved, stored} /\ Go(a, "fallback")
  BY AttemptIs DEF StoreLabels
<1>3. labelled \in BOOLEAN
  OBVIOUS
<1>4. \A m \in BOOLEAN :
        shipment' \in {saved, [saved EXCEPT ![d].label = m]} =>
           /\ ShipmentGoes(d) /\ shipment'[d].status = shipment[d].status
           /\ shipment'[d].snapshot
  BY AttemptIs, StoreMoves
<1> HIDE DEF labelled, saved
<1>5. /\ ShipmentGoes(d) /\ shipment'[d].status = shipment[d].status
      /\ shipment[d].snapshot => shipment'[d].snapshot
      /\ (Go(a, "save") /\ shipment'[d].snapshot) \/ Go(a, "fallback")
  BY <1>2, <1>3, <1>4, AttemptIs, Untouched
<1>6. PICK stage \in {"save", "fallback"} :
        Goes(a, stage) /\ (stage = "save" => shipment'[d].snapshot)
  BY <1>5, AttemptIs, GoMoves DEF Stages, WorkStages
<1>7. Own(a, d)
  BY <1>1, <1>5, <1>6, AttemptIs, Untouched DEF Own, Goes
<1>8. DraftOk(d)'
  BY <1>1, <1>5, AttemptIs, LateStays DEF DraftOk
<1>9. AttemptOk(a)'
  BY <1>1, <1>6, LateStays, LateIsOk DEF Goes, LateStages
<1> QED BY <1>1, <1>5, <1>6, <1>7, <1>8, <1>9, LateStays, LockedStep
        DEF Goes, BillingStages

LEMMA SaveStatusKeeps ==
    ASSUME Inv, NEW a \in Attempts, SaveStatus(a)
    PROVE  (BookingTypes /\ BookingInv)'
<1> DEFINE d == DraftOf[a]
           status == IF request[a].outcome \in {"uncertain", "noLabel"}
                     THEN request[a].status ELSE "LABEL_RECEIVED"
           saved == IF status = request[a].status THEN shipment
                    ELSE [shipment EXCEPT ![d].status = status]
<1>1. /\ UNCHANGED vars /\ UNCHANGED <<draft, carrier, invoiced>>
      /\ request[a].stage = "save" /\ request[a].stage \in LateStages
  BY DEF SaveStatus, At, LateStages
<1>2. PICK next \in {"complete", "fallback"} :
        /\ shipment' \in {saved, shipment}
        /\ request' = [request EXCEPT ![a].stage = next, ![a].status = status]
  BY AttemptIs DEF SaveStatus
<1>3. status \in ShipmentStatuses
  BY AttemptIs DEF RequestType, ShipmentStatuses
<1> HIDE DEF status
<1>4. shipment' = shipment \/ SetShipment(d, status)
  BY <1>2 DEF SetShipment
<1>5. shipment[d].snapshot
  BY <1>1, AttemptIs DEF AttemptOk, ShipmentOk
<1>6. ShipmentGoes(d) /\ shipment'[d].snapshot
  BY <1>3, <1>4, <1>5, AttemptIs, ShipmentMoves, Untouched
<1>7. Goes(a, next)
  BY <1>2, <1>3, AttemptIs, GoTwice DEF Stages, WorkStages, BillingStages
<1>8. Own(a, d)
  BY <1>1, <1>6, <1>7, AttemptIs, Untouched DEF Own, Goes
<1>9. DraftOk(d)'
  BY <1>1, <1>6, AttemptIs, LateStays DEF DraftOk
<1>10. AttemptOk(a)'
  BY <1>1, <1>6, <1>7, LateStays, LateIsOk DEF Goes, LateStages
<1> QED BY <1>1, <1>6, <1>7, <1>8, <1>9, <1>10, LateStays, LockedStep
        DEF Goes, BillingStages

LEMMA InvoiceKeeps ==
    ASSUME Inv, NEW a \in Attempts,
           ensureShipmentInvoiceForDraft(a, "finish", "fallback")
    PROVE  (BookingTypes /\ BookingInv)'
<1> DEFINE d == DraftOf[a]
<1>1. /\ UNCHANGED vars /\ UNCHANGED <<draft, shipment, carrier>>
      /\ request[a].stage = "invoice" /\ request[a].stage \in LateStages
      /\ \/ invoiced' = invoiced \cup {d} /\ Go(a, "finish")
         \/ UNCHANGED invoiced /\ Go(a, "fallback")
  BY AttemptIs DEF ensureShipmentInvoiceForDraft, At, LateStages
<1>2. shipment[d].snapshot
  BY <1>1, AttemptIs DEF AttemptOk, ShipmentOk
<1>3. PICK stage \in {"finish", "fallback"} : Goes(a, stage)
  BY <1>1, AttemptIs, GoMoves DEF Stages, WorkStages
<1>4. Own(a, d)
  BY <1>1, <1>3, AttemptIs, Untouched DEF Own, Goes
<1>5. DraftOk(d)'
  BY <1>1, <1>2, AttemptIs, LateStays DEF DraftOk
<1>6. AttemptOk(a)'
  BY <1>1, <1>2, <1>3, LateStays, LateIsOk DEF Goes, LateStages
<1> QED BY <1>1, <1>3, <1>4, <1>5, <1>6, LateStays, LockedStep
        DEF Goes, BillingStages

LEMMA FinishKeeps ==
    ASSUME Inv, NEW a \in Attempts, Finish(a)
    PROVE  (BookingTypes /\ BookingInv)'
<1> DEFINE d == DraftOf[a]
<1>1. /\ UNCHANGED vars /\ UNCHANGED <<shipment, carrier, invoiced>>
      /\ request[a].stage = "finish" /\ request[a].stage \in LateStages
      /\ \/ UNCHANGED draft
         \/ draft' = transitionShipmentDraftBooking(a, "BOOKED")
      /\ Go(a, "done") \/ Go(a, "fallback")
  BY DEF Finish, At, LateStages
<1>2. shipment[d].snapshot
  BY <1>1, AttemptIs DEF AttemptOk, ShipmentOk
<1>3. /\ DraftGoes(d) /\ draft'[d].attempt = a
      /\ draft'[d].state \in {draft[d].state, "BOOKED"}
  BY <1>1, AttemptIs, LateStays, TransitionDone, Untouched DEF BookingStates
<1>4. PICK stage \in {"done", "fallback"} : Goes(a, stage)
  BY <1>1, AttemptIs, GoMoves DEF Stages, WorkStages, EndStages
<1>5. Own(a, d)
  BY <1>1, <1>3, <1>4, AttemptIs, Untouched DEF Own, Goes
<1>6. DraftOk(d)'
  BY <1>1, <1>2, <1>3, AttemptIs, LateStays DEF DraftOk
<1>7. AttemptOk(a)'
  <2>1. draft'[d].state # "EDITABLE"
    BY <1>1, <1>3, LateStays
  <2> QED BY <1>1, <1>3, <1>4, <2>1, LateStays, LateIsOk, OverIsOk DEF Goes, LateStages
<1> QED BY <1>1, <1>4, <1>5, <1>6, <1>7, LateStays, LockedStep
        DEF Goes, BillingStages
-----------------------------------------------------------------------------
(***************************************************************************)
(* The catch clause.                                                       *)
(***************************************************************************)
LEMMA FallbackKeeps ==
    ASSUME Inv, NEW a \in Attempts, Fallback(a)
    PROVE  (BookingTypes /\ BookingInv)'
<1> DEFINE d == DraftOf[a]
<1>1. /\ UNCHANGED vars /\ UNCHANGED <<draft, carrier, invoiced>>
      /\ request[a].stage = "fallback" /\ request[a].stage \in LateStages
      /\ UNCHANGED shipment \/ SetShipment(d, "DPD_CREATED")
      /\ Go(a, "done") \/ Go(a, "review")
  BY AttemptIs DEF Fallback, At, LateStages
<1>2. /\ ShipmentGoes(d) /\ shipment'[d].snapshot = shipment[d].snapshot
      /\ shipment'[d].status \in {shipment[d].status, "DPD_CREATED"}
  BY <1>1, AttemptIs, ShipmentMoves, Untouched DEF ShipmentStatuses
<1>3. PICK stage \in {"done", "review"} : Goes(a, stage)
  BY <1>1, AttemptIs, GoMoves DEF Stages, WorkStages, EndStages, BillingStages
<1>4. Own(a, d)
  BY <1>1, <1>2, <1>3, AttemptIs, Untouched DEF Own, Goes
<1>5. DraftOk(d)'
  BY <1>1, <1>2, AttemptIs, LateStays DEF DraftOk
<1>6. AttemptOk(a)'
  BY <1>1, <1>3, LateStays, LateIsOk, OverIsOk DEF Goes, LateStages
<1> QED BY <1>1, <1>2, <1>3, <1>4, <1>5, <1>6, LateStays, LockedStep
        DEF Goes, BillingStages

LEMMA HoldKeeps ==
    ASSUME Inv, NEW a \in Attempts, Hold(a)
    PROVE  (BookingTypes /\ BookingInv)'
<1> DEFINE d == DraftOf[a]
<1>1. /\ UNCHANGED vars /\ UNCHANGED <<shipment, carrier, invoiced>>
      /\ request[a].stage = "hold" /\ request[a].stage \in LateStages
      /\ \/ UNCHANGED draft
         \/ draft' = transitionShipmentDraftBooking(a, "REVIEW_REQUIRED")
      /\ Go(a, "done")
  BY DEF Hold, At, LateStages
<1>2. /\ DraftGoes(d) /\ draft'[d].attempt = a
      /\ draft'[d].state \in {draft[d].state, "REVIEW_REQUIRED"}
  BY <1>1, AttemptIs, LateStays, TransitionDone, Untouched DEF BookingStates
<1>3. Goes(a, "done")
  BY <1>1, AttemptIs, GoMoves DEF Stages, EndStages
<1>4. Own(a, d)
  BY <1>1, <1>2, <1>3, AttemptIs, Untouched DEF Own, Goes
<1>5. DraftOk(d)'
  BY <1>1, <1>2, AttemptIs, LateStays DEF DraftOk
<1> QED BY <1>1, <1>3, <1>4, <1>5, LateStays, OverIsOk, LockedStep
        DEF Goes, BillingStages

LEMMA UnlockKeeps ==
    ASSUME Inv, NEW a \in Attempts, Unlock(a)
    PROVE  (BookingTypes /\ BookingInv)'
<1> DEFINE d == DraftOf[a]
<1>1. /\ UNCHANGED vars /\ UNCHANGED <<shipment, carrier, invoiced>>
      /\ request[a].stage = "unlock" /\ Locked(a)
      /\ \/ UNCHANGED draft
         \/ draft' = transitionShipmentDraftBooking(a, "EDITABLE")
      /\ Go(a, "done")
  BY DEF Unlock, At, Locked, EarlyStages
<1>2. /\ draft[d].state = "BOOKING" /\ draft[d].attempt = a
      /\ ~ shipment[d].snapshot /\ ~ Funded(d) /\ ~ Funded(d)'
  BY <1>1, MoneyStays, AttemptIs DEF AttemptOk, LockOk, HoldOk, EarlyStages
<1>3. DraftGoes(d) /\ draft'[d].state \in {"BOOKING", "EDITABLE"}
  BY <1>1, <1>2, AttemptIs, TransitionDone, Untouched DEF BookingStates
<1>4. Goes(a, "done")
  BY <1>1, AttemptIs, GoMoves DEF Stages, EndStages
<1>5. Own(a, d)
  BY <1>1, <1>3, <1>4, AttemptIs, Untouched DEF Own, Goes
<1>6. DraftOk(d)'
  BY <1>1, <1>2, <1>3, AttemptIs DEF DraftOk
<1> QED BY <1>1, <1>4, <1>5, <1>6, OverIsOk, LockedStep DEF Goes, BillingStages
-----------------------------------------------------------------------------
(***************************************************************************)
(* reconcileShipmentDocuments.                                             *)
(***************************************************************************)
LEMMA RepairIs ==
    ASSUME Inv, NEW r \in Reconciliations, NEW d, d = request[r].draft
    PROVE  /\ r \in Callers /\ r \notin Attempts /\ d \in Drafts
           /\ request[r] \in RequestType /\ DraftOfRequest(r) = d
           /\ DraftOk(d) /\ BookingTypeOK
           /\ request[r].stage \in RepairStages => shipment[d].snapshot
           /\ carrier \in [Drafts -> CarrierType] /\ invoiced \subseteq Drafts
<1>1. /\ r \in Callers /\ r \notin Attempts /\ BookingTypeOK /\ RepairOk(r)
      /\ \A e \in Drafts : DraftOk(e)
  BY AttemptsCall DEF Inv, BookingTypes, BookingInv
<1>2. /\ request[r] \in RequestType /\ carrier \in [Drafts -> CarrierType]
      /\ invoiced \subseteq Drafts
  BY <1>1, TypesAre
<1>3. d \in Drafts
  BY <1>2 DEF RequestType
<1>4. request[r].stage \in RepairStages => r \in Working
  BY <1>1 DEF Working, RepairStages, WorkStages, BillingStages
<1> QED BY <1>1, <1>2, <1>3, <1>4 DEF RepairOk, DraftOfRequest

\* A step of a reconciliation that keeps the snapshot, the attempt and the lock.
LEMMA RepairKeeps ==
    ASSUME Inv, NEW r \in Reconciliations, NEW d, d = request[r].draft, Own(r, d),
           request[r].stage \in {"new", "invoice", "label", "repair"},
           request'[r].stage \in RepairStages \cup {"done"},
           \/ UNCHANGED <<draft, shipment>>
           \/ /\ shipment[d].snapshot /\ shipment'[d].snapshot
              /\ draft'[d].attempt = draft[d].attempt
              /\ draft'[d].state \in {draft[d].state, "BOOKED"},
           request'[r].stage \in RepairStages => shipment'[d].snapshot,
           d \in invoiced' => d \in invoiced \/ shipment'[d].snapshot
    PROVE  (BookingTypes /\ BookingInv)'
<1>1. UNCHANGED vars /\ request'[r].draft = d
  BY DEF Own, Goes
<1>2. DraftOk(d)'
  BY <1>1, MoneyStays, RepairIs DEF DraftOk
<1>3. RepairOk(r)'
  BY <1>1 DEF RepairOk, Working, RepairStages, WorkStages, BillingStages
<1>4. Harmless(r, d)
  BY DEF Harmless
<1> QED BY <1>2, <1>3, <1>4, RepairIs, OwnStep DEF BillingStages, EndStages

LEMMA RepairStepKeeps ==
    ASSUME Inv, NEW r \in Reconciliations, RepairStep(r)
    PROVE  (BookingTypes /\ BookingInv)'
<1> DEFINE d == request[r].draft
<1>1. /\ r \in Callers /\ d \in Drafts /\ DraftOk(d) /\ BookingTypeOK
      /\ DraftOfRequest(r) = d
      /\ request[r].stage \in RepairStages => shipment[d].snapshot
      /\ carrier \in [Drafts -> CarrierType] /\ invoiced \subseteq Drafts
  BY RepairIs
<1> HIDE DEF d
<1>2. d = request[r].draft
  BY DEF d
<1>3. CASE ReadForRepair(r)
  <2> DEFINE stage == IF CanRepair(d) THEN "complete" ELSE "done"
  <2>1. /\ UNCHANGED vars /\ UNCHANGED <<draft, shipment, carrier, invoiced>>
        /\ request[r].stage = "new"
        /\ request' = [request EXCEPT ![r].status = shipment[d].status,
                                      ![r].stage = stage]
    BY <1>1, <1>3 DEF ReadForRepair, At
  <2>2. /\ stage \in {"complete", "done"} /\ stage \in Stages
        /\ stage = "complete" => shipment[d].snapshot
    BY <1>1 DEF CanRepair, DraftOk, Stages, WorkStages, BillingStages, EndStages
  <2>3. shipment[d].status \in ShipmentStatuses
    BY <1>1, TypesAre DEF ShipmentType
  <2> HIDE DEF stage
  <2>4. Goes(r, stage)
    BY <1>1, <2>1, <2>2, <2>3, GoTwice
  <2>5. Own(r, d)
    BY <1>1, <1>2, <2>1, <2>4, Untouched DEF Own, Goes
  <2> QED BY <1>2, <2>1, <2>2, <2>4, <2>5, RepairKeeps DEF Goes, RepairStages
<1>4. CASE ensureShipmentInvoiceForDraft(r, "label", "done")
  <2>1. /\ UNCHANGED vars /\ UNCHANGED <<draft, shipment, carrier>>
        /\ request[r].stage = "invoice"
        /\ \/ invoiced' = invoiced \cup {d} /\ Go(r, "label")
           \/ UNCHANGED invoiced /\ Go(r, "done")
    BY <1>1, <1>4 DEF ensureShipmentInvoiceForDraft, At
  <2>2. PICK stage \in {"label", "done"} : Goes(r, stage)
    BY <1>1, <2>1, GoMoves DEF Stages, WorkStages, EndStages
  <2>3. Own(r, d)
    BY <1>1, <1>2, <2>1, <2>2, Untouched DEF Own, Goes
  <2>4. shipment[d].snapshot
    BY <1>1, <2>1 DEF RepairStages
  <2> QED BY <1>2, <2>1, <2>2, <2>3, <2>4, RepairKeeps DEF Goes, RepairStages
<1>5. CASE SaveRepaired(r)
  <2>1. /\ UNCHANGED vars /\ UNCHANGED <<draft, carrier, invoiced>>
        /\ request[r].stage = "label"
        /\ UNCHANGED shipment \/ SetShipment(d, "LABEL_RECEIVED")
        /\ Go(r, "repair") \/ Go(r, "done")
    BY <1>1, <1>5 DEF SaveRepaired, At
  <2>2. PICK stage \in {"repair", "done"} : Goes(r, stage)
    BY <1>1, <2>1, GoMoves DEF Stages, WorkStages, EndStages
  <2>3. shipment[d].snapshot
    BY <1>1, <2>1 DEF RepairStages
  <2>4. ShipmentGoes(d) /\ shipment'[d].snapshot
    BY <1>1, <2>1, <2>3, ShipmentMoves, Untouched DEF ShipmentStatuses
  <2>5. Own(r, d)
    BY <1>1, <1>2, <2>1, <2>2, <2>4, Untouched DEF Own, Goes
  <2> QED BY <1>2, <2>1, <2>2, <2>3, <2>4, <2>5, RepairKeeps DEF Goes, RepairStages
<1>6. CASE BookRepaired(r)
  <2>1. /\ UNCHANGED vars /\ UNCHANGED <<shipment, carrier, invoiced>>
        /\ request[r].stage = "repair"
        /\ UNCHANGED draft \/ SetDraft(d, "BOOKED")
        /\ Go(r, "done")
    BY <1>1, <1>6 DEF BookRepaired, At
  <2>2. Goes(r, "done")
    BY <1>1, <2>1, GoMoves DEF Stages, EndStages
  <2>3. /\ DraftGoes(d) /\ draft'[d].attempt = draft[d].attempt
        /\ draft'[d].state \in {draft[d].state, "BOOKED"}
    BY <1>1, <2>1, SetMoves, Untouched DEF BookingStates
  <2>4. Own(r, d)
    BY <1>1, <1>2, <2>1, <2>2, <2>3, Untouched DEF Own, Goes
  <2>5. shipment[d].snapshot
    BY <1>1, <2>1 DEF RepairStages
  <2> QED BY <1>2, <2>1, <2>2, <2>3, <2>4, <2>5, RepairKeeps DEF Goes, RepairStages
<1> QED BY <1>3, <1>4, <1>5, <1>6 DEF RepairStep
-----------------------------------------------------------------------------
(***************************************************************************)
(* Billing calls, crashes and the sweep.                                   *)
(***************************************************************************)

\* The step moves p and its call, and the money of draft d.
Bills(p, d) ==
    /\ d = request[p].draft /\ Goes(p, request'[p].stage)
    /\ UNCHANGED <<draft, shipment, carrier, invoiced>>
    /\ \A q \in Callers : q # p => call'[q] = call[q]
    /\ \A e \in Drafts : e # d => /\ charge'[e].hold = charge[e].hold
                                  /\ Funded(e)' <=> Funded(e)
    /\ \A q \in Attempts : DraftOf[q] # d => reservation'[q] = reservation[q]
    /\ \A q \in Attempts : q # p /\ reservation[q].status = "NONE"
                              => reservation'[q].status = "NONE"

\* It leaves alone what others at d rely on, or nobody else is at work there.
Discreet(p, d) ==
    \/ /\ charge'[d].hold = charge[d].hold
       /\ Funded(d)' <=> Funded(d)
       /\ \A q \in Attempts : q # p /\ Held(q) => Held(q)'
    \/ p \in Attempts /\ request[p].stage \in EarlyStages

LEMMA EarlyIsAlone ==
    ASSUME Inv, NEW p \in Attempts, request[p].stage \in EarlyStages
    PROVE  /\ Locked(p) /\ Alone(p, DraftOf[p]) /\ ~ shipment[DraftOf[p]].snapshot
           /\ draft[DraftOf[p]].state = "BOOKING"
<1>1. Locked(p)
  BY DEF Locked
<1>2. Alone(p, DraftOf[p])
  BY <1>1, LockIsOne
<1> QED BY <1>1, <1>2 DEF Inv, BookingInv, AttemptOk, LockOk

LEMMA BillingKeeps ==
    ASSUME Inv, NEW p \in Callers, NEW d \in Drafts, Bills(p, d), Discreet(p, d),
           CallOk(p)', DraftOk(d)',
           p \in Attempts =>
              /\ request'[p].stage \notin {"label", "repair"}
              /\ AttemptOk(p)',
           p \in Reconciliations =>
              /\ request'[p].stage \in RepairStages \cup EndStages
              /\ RepairOk(p)'
    PROVE  (BookingTypes /\ BookingInv)'
<1>1. /\ UNCHANGED <<draft, shipment, carrier, invoiced>>
      /\ \A q \in Callers : q # p => /\ request'[q] = request[q]
                                     /\ call'[q] = call[q]
      /\ \A q \in Attempts : q \in Callers /\ DraftOf[q] \in Drafts
                             /\ request[q].draft = DraftOf[q]
      /\ request[p].draft = d
  BY AttemptsCall DEF Bills, Goes, Inv, BookingTypes, StagesOk
<1>2. ASSUME NEW q \in Attempts, q # p,
             ~ (p \in Attempts /\ request[p].stage \in EarlyStages /\ DraftOf[q] = d)
      PROVE  /\ Funded(DraftOf[q])' <=> Funded(DraftOf[q])
             /\ charge'[DraftOf[q]].hold = charge[DraftOf[q]].hold
             /\ Held(q) => Held(q)'
  <2>1. CASE DraftOf[q] = d
    BY <1>2, <2>1 DEF Discreet
  <2>2. CASE DraftOf[q] # d
    BY <1>1, <1>2, <2>2 DEF Bills, Held
  <2> QED BY <2>1, <2>2
<1>3. ASSUME NEW q \in Attempts, q # p PROVE AttemptOk(q)'
  <2>1. /\ LockOk(q) /\ ShipmentOk(q) /\ HoldOk(q)
        /\ reservation[q].status = "NONE" => reservation'[q].status = "NONE"
        /\ request'[q] = request[q] /\ call'[q] = call[q]
    BY <1>1, <1>3 DEF Inv, BookingInv, AttemptOk, Bills
  <2>2. ShipmentOk(q)'
    BY <1>1, <2>1 DEF ShipmentOk
  <2>3. CASE p \in Attempts /\ request[p].stage \in EarlyStages /\ DraftOf[q] = d
    <3>1. ~ Locked(q)
      BY <1>1, <1>3, <2>3, EarlyIsAlone DEF Alone
    <3>2. LockOk(q)'
      BY <2>1, <3>1 DEF LockOk, Locked
    <3>3. HoldOk(q)'
      BY <2>1, <3>1 DEF HoldOk, Locked, EarlyStages
    <3> QED BY <2>2, <3>2, <3>3 DEF AttemptOk
  <2>4. CASE ~ (p \in Attempts /\ request[p].stage \in EarlyStages /\ DraftOf[q] = d)
    <3>1. LockOk(q)'
      BY <1>1, <1>2, <1>3, <2>1, <2>4 DEF LockOk
    <3>2. HoldOk(q)'
      BY <1>1, <1>2, <1>3, <2>1, <2>4 DEF HoldOk
    <3> QED BY <2>2, <3>1, <3>2 DEF AttemptOk
  <2> QED BY <2>3, <2>4
<1>4. ASSUME NEW r \in Reconciliations, r # p PROVE RepairOk(r)'
  BY <1>1, <1>4, AttemptsCall DEF Inv, BookingInv, RepairOk, Working
<1>5. ASSUME NEW q \in Callers, q # p PROVE CallOk(q)'
  <2>1. CallOk(q) /\ request'[q] = request[q] /\ call'[q] = call[q]
    BY <1>1, <1>5 DEF Inv, BookingInv
  <2>2. CASE charge'[request[q].draft].hold = charge[request[q].draft].hold
    BY <2>1, <2>2 DEF CallOk
  <2>3. CASE call[q].phase # "called"
    BY <2>1, <2>3 DEF CallOk
  <2>4. CASE /\ call[q].phase = "called"
             /\ charge'[request[q].draft].hold # charge[request[q].draft].hold
    <3>1. request[q].stage \in BillingStages
      BY <2>1, <2>4 DEF CallOk
    <3>2. request[q].draft \in Drafts
      BY DEF Inv, BookingTypes, BookingTypeOK
    <3>3. request[q].draft = d
      BY <2>4, <3>2 DEF Bills
    <3>4. p \in Attempts /\ request[p].stage \in EarlyStages
      BY <2>4, <3>3 DEF Discreet
    <3>5. Alone(p, d) /\ ~ shipment[d].snapshot
      BY <1>1, <3>4, EarlyIsAlone
    <3>6. CASE q \in Attempts
      <4>1. Locked(q)
        BY <3>1 DEF Locked, BillingStages, EarlyStages, LateStages
      <4> QED BY <1>1, <1>5, <3>3, <3>5, <3>6, <4>1 DEF Alone
    <3>7. CASE q \in Reconciliations
      <4>1. q \in Working
        BY <3>1 DEF Working, WorkStages
      <4> QED BY <3>3, <3>5, <3>7, <4>1 DEF Inv, BookingInv, RepairOk
    <3> QED BY <3>6, <3>7, AttemptsCall
  <2> QED BY <2>2, <2>3, <2>4
<1>6. ASSUME NEW e \in Drafts, e # d PROVE DraftOk(e)'
  BY <1>1, <1>6 DEF Inv, BookingInv, DraftOk, Bills
<1>7. BookingTypeOK'
  <2>1. request' \in [Callers -> RequestType]
    BY DEF Bills, Goes
  <2>2. BookingTypeOK
    BY DEF Inv, BookingTypes
  <2> QED BY <1>1, <2>1, <2>2
          DEF BookingTypeOK, RequestType, Stages
<1>8. StagesOk'
  BY <1>1, AttemptsCall DEF Inv, BookingTypes, StagesOk, Bills, Goes
<1> QED BY <1>3, <1>4, <1>5, <1>6, <1>7, <1>8, AttemptsCall DEF BookingTypes, BookingInv

LEMMA Stands ==
    ASSUME Inv, NEW p \in Callers, UNCHANGED request
    PROVE  Goes(p, request'[p].stage)
<1>1. request \in [Callers -> RequestType]
  BY TypesAre DEF Inv, BookingTypes
<1> QED BY <1>1 DEF Goes

\* What a running call is about.
LEMMA CallIs ==
    ASSUME Inv, NEW p \in Callers, call[p].phase = "called",
           NEW d, d = request[p].draft
    PROVE  /\ d \in Drafts
           /\ call[p].op = "reserve" =>
                 /\ p \in Attempts /\ request[p].stage = "reserve"
                 /\ call[p].attempt = p
           /\ call[p].op # "reserve" => call[p].attempt = charge[d].hold
           /\ call[p].op = "consume" => p \in Attempts /\ request[p].stage = "consume"
           /\ call[p].op = "release" =>
                 p \in Attempts /\ request[p].stage \in {"refused", "rollback"}
           /\ call[p].op = "convert" => request[p].stage = "complete"
           /\ call[p].op = "review" => p \in Attempts /\ request[p].stage = "review"
<1>1. d \in Drafts
  BY DEF Inv, BookingTypes, BookingTypeOK
<1>2. \/ /\ request[p].stage = "reserve"
         /\ call[p].op = "reserve" /\ call[p].attempt = p
      \/ /\ request[p].stage \in BillingStages \ {"reserve"}
         /\ call[p].op = BillingOp[request[p].stage]
         /\ call[p].attempt = charge[d].hold
  BY DEF Inv, BookingInv, CallOk
<1>3. p \notin Attempts => request[p].stage \in RepairStages \cup EndStages
  BY AttemptsCall DEF Inv, BookingTypes, StagesOk
<1>4. ASSUME NEW s \in BillingStages \ {"reserve"}
      PROVE  /\ BillingOp[s] # "reserve"
             /\ BillingOp[s] = "consume" => s = "consume"
             /\ BillingOp[s] = "release" => s \in {"refused", "rollback"}
             /\ BillingOp[s] = "convert" => s = "complete"
             /\ BillingOp[s] = "review" => s = "review"
  BY DEF BillingOp, BillingStages
<1>5. {"reserve", "consume", "refused", "rollback", "review"}
         \cap (RepairStages \cup EndStages) = {}
  BY DEF RepairStages, EndStages
<1> QED BY <1>1, <1>2, <1>3, <1>4, <1>5

\* Nothing but p's call and the control of p moves.
LEMMA NothingHeld ==
    ASSUME Inv, NEW p \in Callers, NEW d, d = request[p].draft,
           Goes(p, request'[p].stage),
           UNCHANGED <<draft, shipment, carrier, invoiced, reservation, charge>>,
           \A q \in Callers : q # p => call'[q] = call[q]
    PROVE  /\ Bills(p, d) /\ Discreet(p, d)
           /\ \A e \in Drafts : DraftOk(e)' /\ (Funded(e)' <=> Funded(e))
           /\ \A a \in Attempts : Held(a)' <=> Held(a)
<1>1. /\ \A e \in Drafts : Funded(e)' <=> Funded(e)
      /\ \A a \in Attempts : Held(a)' <=> Held(a)
  BY DEF Funded, Held
<1>2. \A e \in Drafts : DraftOk(e)'
  BY <1>1 DEF Inv, BookingInv, DraftOk
<1>3. d \in Drafts
  BY DEF Inv, BookingTypes, BookingTypeOK
<1> QED BY <1>1, <1>2, <1>3 DEF Bills, Discreet

\* The transition of a hold moves the money of its draft only.
LEMMA HoldBills ==
    ASSUME Inv, NEW p \in Callers, NEW d \in Drafts, d = request[p].draft,
           NEW a \in Attempts, DraftOf[a] = d, HoldStep(a), UNCHANGED bookingVars,
           \A q \in Callers : q # p => call'[q] = call[q]
    PROVE  /\ Bills(p, d)
           /\ charge[d].hold = a /\ charge'[d].hold = a /\ a # NoHold
           /\ \A q \in Attempts : q # a /\ Held(q) => Held(q)'
<1>1. /\ TypeInv /\ ChargesOk
      /\ reservation[a].status \in OpenStatuses
      /\ \A b \in Attempts : b # a => reservation'[b] = reservation[b]
  BY OneHoldMoves DEF Inv, EngineInv
<1>2. /\ charge[d].hold = a /\ charge'[d].hold = a
      /\ \A e \in Drafts : e # d => charge'[e] = charge[e]
  BY <1>1, ChargeOfOpen, ChargeMoves
<1>3. a # NoHold /\ \A q \in Attempts : DraftOf[q] \in Drafts
  BY ConstantsAssumption
<1>4. ASSUME NEW e \in Drafts, e # d
      PROVE  charge'[e].hold = charge[e].hold /\ (Funded(e)' <=> Funded(e))
  <2>1. charge[e].hold = NoHold \/ (charge[e].hold \in Attempts /\ DraftOf[charge[e].hold] = e)
    <3>1. ChargeSays(e)
      BY <1>1 DEF ChargesOk
    <3> QED BY <3>1 DEF ChargeSays
  <2>2. charge[e].hold \in Attempts => reservation'[charge[e].hold] = reservation[charge[e].hold]
    BY <1>1, <1>4, <2>1, ConstantsAssumption
  <2> QED BY <1>2, <1>4, <2>1, <2>2 DEF Funded
<1>5. Goes(p, request'[p].stage)
  BY Stands DEF bookingVars
<1>6. \A q \in Attempts : q # a /\ Held(q) => Held(q)'
  BY <1>1, <1>2, <1>3 DEF Held
<1>7. reservation[a].status # "NONE"
  BY <1>1 DEF OpenStatuses
<1>8. \A q \in Attempts : q # p /\ reservation[q].status = "NONE"
                             => reservation'[q].status = "NONE"
  BY <1>1, <1>7
<1> QED BY <1>1, <1>2, <1>3, <1>4, <1>5, <1>6, <1>8 DEF Bills, bookingVars

\* The call of a stage begins.
LEMMA AskKeeps ==
    ASSUME Inv, NEW p \in Callers, AskBilling(p)
    PROVE  (BookingTypes /\ BookingInv)'
<1>0. PICK d : d = request[p].draft
  OBVIOUS
<1>1. /\ UNCHANGED bookingVars /\ UNCHANGED <<reservation, charge>>
      /\ call[p].phase = "idle" /\ request[p].stage \in BillingStages
  BY DEF AskBilling, BeginReserve, BeginOnCharge, At, BillingOp, BillingStages
<1>2. call \in [Callers -> CallType]
  BY DEF Inv, EngineInv, TypeInv, TypeOK
<1>3. \A q \in Callers : q # p => call'[q] = call[q]
  BY <1>2 DEF AskBilling, BeginReserve, BeginOnCharge
<1>4. Goes(p, request'[p].stage) /\ request' = request
  BY <1>1, Stands DEF bookingVars
<1>5. d \in Drafts
  BY <1>0 DEF Inv, BookingTypes, BookingTypeOK
<1>6. /\ Bills(p, d) /\ Discreet(p, d) /\ DraftOk(d)' /\ (Funded(d)' <=> Funded(d))
      /\ \A a \in Attempts : Held(a)' <=> Held(a)
  BY <1>0, <1>1, <1>3, <1>4, <1>5, NothingHeld DEF bookingVars
<1>7. ChargeSays(d)
  BY <1>5 DEF Inv, EngineInv, ChargesOk
<1>8. CASE At(p, "reserve") /\ BeginReserve(p, p)
  <2>1. p \in Attempts /\ request[p].stage = "reserve" /\ d = DraftOf[p]
    BY <1>0, <1>8, AttemptsCall
       DEF At, Inv, BookingTypes, StagesOk, RepairStages, EndStages
  <2>2. reservation[p].status = "NONE" /\ ~ Funded(d)
    BY <1>1, <2>1 DEF Inv, BookingInv, AttemptOk, HoldOk
  <2>3. charge[d].status # "COMPLETED"
    <3>1. NoHold \notin Attempts
      BY ConstantsAssumption
    <3> QED BY <1>7, <2>2, <3>1 DEF ChargeSays, Agrees, Funded
  <2>4. ReservePreRead(p) \in {"error", "called"}
    BY <2>1, <2>2, <2>3 DEF ReservePreRead
  <2>5. call'[p].phase = "error"
        \/ (call'[p].phase = "called" /\ call'[p].op = "reserve" /\ call'[p].attempt = p)
    BY <1>2, <1>8, <2>4 DEF BeginReserve, Failed, Idle
  <2>6. CallOk(p)'
    BY <1>1, <1>4, <2>1, <2>5 DEF CallOk
  <2>7. AttemptOk(p)'
    <3>1. LockOk(p) /\ ShipmentOk(p)
      BY <2>1 DEF Inv, BookingInv, AttemptOk
    <3>2. LockOk(p)' /\ ShipmentOk(p)'
      BY <1>1, <1>4, <1>6, <2>1, <3>1 DEF LockOk, ShipmentOk, bookingVars
    <3>3. HoldOk(p)'
      BY <1>1, <1>4, <1>6, <2>1, <2>2, <2>5 DEF HoldOk
    <3> QED BY <3>2, <3>3 DEF AttemptOk
  <2> QED BY <1>4, <1>5, <1>6, <2>1, <2>6, <2>7, AttemptsCall, BillingKeeps
<1>9. ASSUME NEW stage \in DOMAIN BillingOp, At(p, stage),
             BeginOnCharge(p, BillingOp[stage], DraftOfRequest(p))
      PROVE  (BookingTypes /\ BookingInv)'
  <2>1. /\ request[p].stage = stage /\ stage \in BillingStages \ {"reserve"}
        /\ BeginOnCharge(p, BillingOp[stage], d)
    BY <1>0, <1>9 DEF At, DraftOfRequest, BillingOp, BillingStages
  <2>2. \/ charge[d].hold = NoHold /\ call'[p].phase = "ok"
        \/ /\ charge[d].hold # NoHold /\ call'[p].op = BillingOp[stage]
           /\ call'[p].attempt = charge[d].hold
           /\ call'[p].phase = IF charge[d].status \in NothingToDo[BillingOp[stage]]
                               THEN "ok" ELSE "called"
    BY <1>2, <2>1 DEF BeginOnCharge, Done, Idle
  <2>3. CallOk(p)'
    BY <1>0, <1>1, <1>4, <2>1, <2>2 DEF CallOk
  <2>4. ASSUME p \in Attempts PROVE AttemptOk(p)'
    <3>1. LockOk(p) /\ ShipmentOk(p) /\ HoldOk(p) /\ d = DraftOf[p]
      BY <1>0, <2>4 DEF Inv, BookingInv, AttemptOk, BookingTypes, StagesOk
    <3>2. LockOk(p)' /\ ShipmentOk(p)'
      BY <1>1, <1>4, <1>6, <3>1 DEF LockOk, ShipmentOk, bookingVars
    <3>3. NoHold \notin Attempts
      BY ConstantsAssumption
    <3>4. stage = "consume" => Held(p) /\ call'[p].phase = "called"
      <4>1. ASSUME stage = "consume" PROVE Held(p)
        BY <1>1, <2>1, <3>1, <4>1 DEF HoldOk
      <4>2. ASSUME stage = "consume" PROVE charge[d].status = "RESERVED"
        BY <1>7, <2>4, <3>1, <3>3, <4>1, <4>2 DEF Held, ChargeSays, Agrees
      <4>3. "RESERVED" \notin NothingToDo[BillingOp["consume"]]
        BY DEF NothingToDo, BillingOp
      <4> QED BY <2>2, <2>4, <3>1, <3>3, <4>1, <4>2, <4>3 DEF Held
    <3>5. stage \in {"refused", "rollback"} /\ call'[p].phase = "ok" => ~ Funded(d)
      <4>1. \A s \in {"refused", "rollback"} : NothingToDo[BillingOp[s]] = {"REVERSED"}
        BY DEF NothingToDo, BillingOp
      <4>2. charge[d].status = "REVERSED" => ~ Funded(d)
        BY <1>7, <3>3 DEF ChargeSays, Agrees, Funded
      <4>3. charge[d].hold = NoHold => ~ Funded(d)
        BY DEF Funded
      <4> QED BY <2>2, <4>1, <4>2, <4>3
    <3>6. HoldOk(p)'
      BY <1>1, <1>4, <1>6, <2>1, <3>1, <3>4, <3>5, <2>4 DEF HoldOk
    <3> QED BY <3>2, <3>6 DEF AttemptOk
  <2>5. p \in Reconciliations => RepairOk(p)'
    BY <1>1, <1>4 DEF Inv, BookingInv, RepairOk, Working, bookingVars
  <2>6. /\ p \in Attempts => request'[p].stage \notin {"label", "repair"}
        /\ p \in Reconciliations => request'[p].stage \in RepairStages \cup EndStages
    BY <1>4 DEF Inv, BookingTypes, StagesOk
  <2> QED BY <1>5, <1>6, <2>3, <2>4, <2>5, <2>6, BillingKeeps
<1> QED BY <1>8, <1>9 DEF AskBilling

\* A call of the request that holds the lock early, on the hold of its draft.
LEMMA EarlyCall ==
    ASSUME Inv, NEW p \in Callers, NEW d \in Drafts, d = request[p].draft,
           p \in Attempts, request[p].stage \in EarlyStages \cap BillingStages,
           Bills(p, d), UNCHANGED request,
           call'[p].phase \in {"ok", "error"},
           request[p].stage \in {"reserve", "rollback", "refused"}
              => HoldOk(p)',
           request[p].stage = "consume" => Funded(d)'
    PROVE  (BookingTypes /\ BookingInv)'
<1>1. /\ d = DraftOf[p] /\ LockOk(p) /\ ShipmentOk(p) /\ DraftOk(d)
      /\ request[p].stage \notin {"label", "repair"}
  BY DEF Inv, BookingTypes, BookingInv, StagesOk, AttemptOk
<1>2. /\ ~ shipment[d].snapshot /\ draft[d].state = "BOOKING"
  BY <1>1, EarlyIsAlone
<1>3. UNCHANGED <<draft, shipment, carrier, invoiced>> /\ request' = request
  BY DEF Bills
<1>4. Discreet(p, d)
  BY DEF Discreet
<1>5. CallOk(p)'
  BY <1>3 DEF CallOk
<1>6. DraftOk(d)'
  BY <1>1, <1>2, <1>3 DEF DraftOk
<1>7. AttemptOk(p)'
  <2>1. LockOk(p)'
    BY <1>1, <1>3 DEF LockOk, EarlyStages, LateStages
  <2>2. ShipmentOk(p)'
    BY <1>1, <1>3 DEF ShipmentOk
  <2>3. HoldOk(p)'
    <3>1. CASE request[p].stage = "consume"
      BY <1>1, <1>3, <3>1 DEF HoldOk
    <3>2. CASE request[p].stage # "consume"
      BY <3>2 DEF EarlyStages, BillingStages
    <3> QED BY <3>1, <3>2
  <2> QED BY <2>1, <2>2, <2>3 DEF AttemptOk
<1> QED BY <1>1, <1>3, <1>4, <1>5, <1>6, <1>7, AttemptsCall, BillingKeeps

\* A call that leaves its draft's money safe, as it was, for whoever made it.
LEMMA FundedCall ==
    ASSUME Inv, NEW p \in Callers, NEW d \in Drafts, d = request[p].draft,
           request[p].stage \in {"complete", "review"},
           Bills(p, d), UNCHANGED request,
           call'[p].phase \in {"ok", "error"},
           Funded(d), Funded(d)', charge'[d].hold = charge[d].hold,
           \A q \in Attempts : q # p /\ Held(q) => Held(q)'
    PROVE  (BookingTypes /\ BookingInv)'
<1>1. UNCHANGED <<draft, shipment, carrier, invoiced>> /\ request' = request
  BY DEF Bills
<1>2. Discreet(p, d)
  BY DEF Discreet
<1>3. CallOk(p)'
  BY <1>1 DEF CallOk, BillingStages
<1>4. DraftOk(d)'
  BY <1>1 DEF Inv, BookingInv, DraftOk
<1>5. ASSUME p \in Attempts PROVE AttemptOk(p)'
  <2>1. d = DraftOf[p] /\ LockOk(p) /\ ShipmentOk(p)
    BY <1>5 DEF Inv, BookingTypes, BookingInv, StagesOk, AttemptOk
  <2>2. LockOk(p)' /\ ShipmentOk(p)'
    BY <1>1, <2>1 DEF LockOk, ShipmentOk
  <2>3. HoldOk(p)'
    BY <1>1 DEF HoldOk
  <2> QED BY <2>2, <2>3 DEF AttemptOk
<1>6. ASSUME p \in Reconciliations PROVE RepairOk(p)'
  BY <1>1, <1>6 DEF Inv, BookingInv, RepairOk, Working
<1>7. /\ p \in Attempts => request'[p].stage \notin {"label", "repair"}
      /\ p \in Reconciliations => request'[p].stage \in RepairStages \cup EndStages
  BY <1>1 DEF Inv, BookingTypes, StagesOk
<1> QED BY <1>2, <1>3, <1>4, <1>5, <1>6, <1>7, BillingKeeps

\* Whoever completes a booking, or puts it under review, finds its money safe.
LEMMA FinishersAreFunded ==
    ASSUME Inv, NEW p \in Callers, NEW d \in Drafts, d = request[p].draft,
           request[p].stage \in {"complete", "review"}
    PROVE  Funded(d)
<1>1. CASE p \in Attempts
  BY <1>1 DEF Inv, BookingTypes, BookingInv, StagesOk, AttemptOk, LockOk, LateStages
<1>2. CASE p \in Reconciliations
  <2>1. p \in Working
    BY DEF Working, WorkStages, BillingStages
  <2> QED BY <1>2, <2>1 DEF Inv, BookingInv, RepairOk, DraftOk
<1> QED BY <1>1, <1>2, AttemptsCall

LEMMA TakeKeeps ==
    ASSUME Inv, NEW p \in Callers, reserveBookingCapacity(p), UNCHANGED bookingVars
    PROVE  (BookingTypes /\ BookingInv)'
<1>0. PICK d : d = request[p].draft
  OBVIOUS
<1>1. /\ TypeInv /\ Taken(p) /\ call[p].phase = "called" /\ call[p].op = "reserve"
      /\ Succeed(p)
  BY DEF Inv, EngineInv, Taken, reserveBookingCapacity, Running, Busy
<1>2. /\ d \in Drafts /\ p \in Attempts /\ request[p].stage = "reserve"
      /\ call[p].attempt = p
  BY <1>0, <1>1, CallIs
<1>3. d = DraftOf[p] /\ ~ Funded(d)
  BY <1>0, <1>2 DEF Inv, BookingTypes, BookingInv, StagesOk, AttemptOk, HoldOk
<1>4. /\ \A b \in Attempts : b # p => reservation'[b] = reservation[b]
      /\ reservation'[p].status = "ACTIVE" /\ charge'[d].hold = p
      /\ \A e \in Drafts : e # d => charge'[e] = charge[e]
  BY <1>1, <1>2, <1>3, OneHoldTaken
<1>5. ~ reservation'[p].lapsed
  <2> DEFINE hold == [status |-> "ACTIVE",
                      advance |-> Lesser(Price[p], AvailableAdvance),
                      credit |-> Price[p] - Lesser(Price[p], AvailableAdvance),
                      lapsed |-> FALSE]
  <2>1. reservation' = [reservation EXCEPT ![p] = hold]
    BY <1>2 DEF reserveBookingCapacity
  <2>2. ~ hold.lapsed
    OBVIOUS
  <2> HIDE DEF hold
  <2> QED BY <1>1, <1>2, <2>1, <2>2 DEF TypeInv, TypeOK
<1>6. call'[p].phase = "ok" /\ \A q \in Callers : q # p => call'[q] = call[q]
  BY <1>1 DEF Succeed, TypeInv, TypeOK, CallType
<1>7. ASSUME NEW e \in Drafts, e # d
      PROVE  charge'[e].hold = charge[e].hold /\ (Funded(e)' <=> Funded(e))
  <2>1. ChargeSays(e)
    BY DEF Inv, EngineInv, ChargesOk
  <2>2. charge[e].hold \in Attempts /\ charge[e].hold # NoHold
           => DraftOf[charge[e].hold] = e
    BY <2>1 DEF ChargeSays
  <2>3. charge[e].hold \in Attempts \cup {NoHold}
    BY <2>1 DEF ChargeSays
  <2>4. charge[e].hold # NoHold => reservation'[charge[e].hold] = reservation[charge[e].hold]
    BY <1>3, <1>4, <1>7, <2>2, <2>3
  <2> QED BY <1>4, <1>7, <2>4 DEF Funded
<1>8. Bills(p, d)
  <2>1. Goes(p, request'[p].stage)
    BY Stands DEF bookingVars
  <2> QED BY <1>0, <1>3, <1>4, <1>6, <1>7, <2>1 DEF Bills, bookingVars
<1>9. HoldOk(p)'
  <2>1. Held(p)' /\ ~ Funded(d)'
    BY <1>3, <1>4, <1>5 DEF Held, Funded
  <2> QED BY <1>2, <1>3, <1>6, <2>1 DEF HoldOk, bookingVars
<1> QED BY <1>0, <1>2, <1>6, <1>8, <1>9, EarlyCall
        DEF EarlyStages, BillingStages, bookingVars

\* The steps of a running call that move a hold.
LEMMA TransitionKeeps ==
    ASSUME Inv, NEW p \in Callers, UNCHANGED bookingVars,
           \/ markBookingReservationConsuming(p)
           \/ convertBookingReservation(p)
           \/ releaseBookingReservation(p)
           \/ markBookingReservationReviewRequired(p)
    PROVE  (BookingTypes /\ BookingInv)'
<1>0. PICK d : d = request[p].draft
  OBVIOUS
<1> DEFINE a == call[p].attempt
<1>1. /\ TypeInv /\ call[p].phase = "called" /\ a \in Attempts
      /\ call[p].op \in {"consume", "convert", "release", "review"}
  <2>1. PICK op \in {"consume", "convert", "release", "review"} : Running(p, op)
    BY DEF markBookingReservationConsuming, convertBookingReservation,
           releaseBookingReservation, markBookingReservationReviewRequired
  <2>2. TypeInv
    BY DEF Inv, EngineInv
  <2>3. a \in Attempts
    BY <2>1, <2>2, RunningNamesHold
  <2> QED BY <2>1, <2>2, <2>3 DEF Running, Busy
<1>2. /\ d \in Drafts /\ a = charge[d].hold
  BY <1>0, <1>1, CallIs
<1>3. DraftOf[a] = d
  <2>1. ChargeSays(d) /\ NoHold \notin Attempts
    BY <1>2, ConstantsAssumption DEF Inv, EngineInv, ChargesOk
  <2> QED BY <1>1, <1>2, <2>1 DEF ChargeSays
<1>4. /\ call'[p].phase = "ok" /\ \A q \in Callers : q # p => call'[q] = call[q]
      /\ request' = request
  <2>1. Succeed(p) \/ call' = [call EXCEPT ![p] = Done]
    BY DEF markBookingReservationConsuming, convertBookingReservation,
           releaseBookingReservation, markBookingReservationReviewRequired
  <2>2. Done.phase = "ok"
    BY DEF Done, Idle
  <2> QED BY <1>1, <2>1, <2>2 DEF Succeed, TypeInv, TypeOK, CallType, bookingVars
<1> HIDE DEF a
<1>5. ASSUME HoldStep(a)
      PROVE  /\ Bills(p, d) /\ charge'[d].hold = a /\ a # NoHold
             /\ \A q \in Attempts : q # a /\ Held(q) => Held(q)'
  BY <1>0, <1>1, <1>2, <1>3, <1>4, <1>5, HoldBills
<1>6. CASE markBookingReservationConsuming(p)
  <2>1. p \in Attempts /\ request[p].stage = "consume"
    BY <1>0, <1>1, <1>6, CallIs DEF markBookingReservationConsuming, Running
  <2>2. Held(p) /\ d = DraftOf[p]
    BY <1>0, <1>1, <2>1 DEF Inv, BookingTypes, BookingInv, StagesOk, AttemptOk, HoldOk
  <2>3. a = p /\ reservation[a].status = "ACTIVE"
    BY <1>2, <2>2 DEF Held
  <2>4. SetReservation(a, "CONSUMING") /\ HoldStep(a)
    BY <1>6, <2>3 DEF markBookingReservationConsuming, HoldStep, Consumed, a
  <2>5. reservation'[a].status = "CONSUMING"
    BY <1>1, <2>4 DEF SetReservation, TypeInv, TypeOK, ReservationType
  <2>6. Funded(d)'
    BY <1>5, <2>4, <2>5 DEF Funded
  <2> QED BY <1>0, <1>2, <1>4, <1>5, <2>1, <2>4, <2>6, EarlyCall
          DEF EarlyStages, BillingStages
<1>7. CASE convertBookingReservation(p) \/ markBookingReservationReviewRequired(p)
  <2>1. request[p].stage \in {"complete", "review"}
    BY <1>0, <1>1, <1>7, CallIs
       DEF convertBookingReservation, markBookingReservationReviewRequired, Running
  <2>2. Funded(d)
    BY <1>0, <1>2, <2>1, FinishersAreFunded
  <2>3. \/ HoldStep(a) /\ SetReservation(a, "CONVERTED")
        \/ HoldStep(a) /\ SetReservation(a, "REVIEW_REQUIRED")
    BY <1>7 DEF convertBookingReservation, markBookingReservationReviewRequired,
                HoldStep, Converted, Reviewed, a
  <2>4. reservation'[a].status \in {"CONVERTED", "REVIEW_REQUIRED"}
    BY <1>1, <2>3 DEF SetReservation, TypeInv, TypeOK, ReservationType
  <2>5. Funded(d)'
    BY <1>5, <2>3, <2>4 DEF Funded
  <2>6. ~ Held(a)
    BY <1>2, <2>2 DEF Held, Funded
  <2>7. \A q \in Attempts : q # p /\ Held(q) => Held(q)'
    BY <1>5, <2>3, <2>6
  <2>8. Bills(p, d) /\ charge'[d].hold = charge[d].hold
    BY <1>2, <1>5, <2>3
  <2> QED BY <1>0, <1>2, <1>4, <2>1, <2>2, <2>5, <2>7, <2>8, FundedCall
<1>8. CASE releaseBookingReservation(p)
  <2>1. p \in Attempts /\ request[p].stage \in {"refused", "rollback"}
    BY <1>0, <1>1, <1>8, CallIs DEF releaseBookingReservation, Running
  <2>2. HoldStep(a) /\ SetReservation(a, "RELEASED")
    BY <1>8 DEF releaseBookingReservation, HoldStep, Dropped, a
  <2>3. reservation'[a].status = "RELEASED"
    BY <1>1, <2>2 DEF SetReservation, TypeInv, TypeOK, ReservationType
  <2>4. ~ Funded(d)' /\ d = DraftOf[p]
    BY <1>0, <1>5, <2>1, <2>2, <2>3 DEF Funded, Inv, BookingTypes, StagesOk
  <2>5. HoldOk(p)'
    BY <1>4, <2>1, <2>4 DEF HoldOk
  <2> QED BY <1>0, <1>2, <1>4, <1>5, <2>1, <2>2, <2>5, EarlyCall
          DEF EarlyStages, BillingStages
<1> QED BY <1>6, <1>7, <1>8

\* The steps of a running call that move nothing.
LEMMA MootKeeps ==
    ASSUME Inv, NEW p \in Callers, UNCHANGED bookingVars,
           ReserveWithoutEffect(p) \/ TransitionIsMoot(p) \/ CallFails(p)
    PROVE  (BookingTypes /\ BookingInv)'
<1>0. PICK d : d = request[p].draft
  OBVIOUS
<1>1. /\ TypeInv /\ UNCHANGED <<reservation, charge>>
      /\ UNCHANGED <<draft, shipment, carrier, invoiced>> /\ request' = request
      /\ Succeed(p) \/ Fail(p)
  BY DEF Inv, EngineInv, bookingVars, ReserveWithoutEffect, TransitionIsMoot, CallFails
<1>2. /\ \A q \in Callers : q # p => call'[q] = call[q]
      /\ Succeed(p) => call'[p].phase = "ok"
      /\ Fail(p) => call'[p].phase = "error"
  <2>1. call \in [Callers -> CallType] /\ Failed.phase = "error"
    BY <1>1 DEF TypeInv, TypeOK, Failed, Idle
  <2>2. Succeed(p) => /\ \A q \in Callers : q # p => call'[q] = call[q]
                      /\ call'[p].phase = "ok"
    BY <2>1 DEF Succeed, CallType
  <2>3. Fail(p) => call' = [call EXCEPT ![p] = Failed]
    BY DEF Fail
  <2> QED BY <1>1, <2>1, <2>2, <2>3
<1>3. d \in Drafts
  BY <1>0 DEF Inv, BookingTypes, BookingTypeOK
<1>4. Goes(p, request'[p].stage)
  BY <1>1, Stands
<1>5. /\ Bills(p, d) /\ DraftOk(d)' /\ (Funded(d)' <=> Funded(d))
      /\ \A a \in Attempts : Held(a)' <=> Held(a)
  BY <1>0, <1>1, <1>2, <1>3, <1>4, NothingHeld
<1>6. request[p].stage \in BillingStages
  <2>1. call[p].phase # "idle"
    BY DEF ReserveWithoutEffect, TransitionIsMoot, CallFails, Running, Busy
  <2> QED BY <2>1 DEF Inv, BookingInv, CallOk
<1>7. CASE request[p].stage \in {"complete", "review"}
  <2>1. Funded(d)
    BY <1>0, <1>3, <1>7, FinishersAreFunded
  <2> QED BY <1>0, <1>1, <1>2, <1>3, <1>5, <1>7, <2>1, FundedCall
<1>8. CASE request[p].stage \notin {"complete", "review"}
  <2>1. p \in Attempts
    BY <1>6, <1>8, AttemptsCall
       DEF Inv, BookingTypes, StagesOk, RepairStages, EndStages, BillingStages
  <2>2. request[p].stage \in EarlyStages \cap BillingStages
    BY <1>6, <1>8 DEF EarlyStages, BillingStages
  <2>3. d = DraftOf[p] /\ HoldOk(p) /\ CallOk(p)
    BY <1>0, <2>1 DEF Inv, BookingTypes, BookingInv, StagesOk, AttemptOk
  <2>4. CASE ReserveWithoutEffect(p)
    <3>1. request[p].stage = "reserve" /\ call[p].attempt = p /\ call[p].phase = "called"
      BY <1>0, <2>4, CallIs DEF ReserveWithoutEffect, Running, Busy
    <3>2. reservation[p].status = "NONE" /\ ~ Funded(d)
      BY <2>3, <3>1 DEF HoldOk
    <3>3. call'[p].phase = "error"
      BY <1>2, <2>4, <3>1, <3>2 DEF ReserveWithoutEffect
    <3>4. HoldOk(p)'
      BY <1>1, <1>5, <2>3, <3>1, <3>2, <3>3 DEF HoldOk
    <3> QED BY <1>0, <1>1, <1>3, <1>5, <2>1, <2>2, <3>1, <3>3, <3>4, EarlyCall
  <2>5. CASE TransitionIsMoot(p)
    <3>1. PICK op \in {"convert", "release", "review"} :
            /\ call[p].phase = "called" /\ call[p].op = op
            /\ reservation[call[p].attempt].status \notin
                  [convert |-> OpenStatuses, release |-> OpenStatuses,
                   review |-> {"CONSUMING"}][op]
            /\ IF reservation[call[p].attempt].status \in
                     [convert |-> {"CONVERTED"}, release |-> {"RELEASED", "EXPIRED"},
                      review |-> {"REVIEW_REQUIRED"}][op]
               THEN Succeed(p) ELSE Fail(p)
      BY <2>5 DEF TransitionIsMoot, Running, Busy
    <3>2. op = "release" /\ request[p].stage \in {"refused", "rollback"}
          /\ call[p].attempt = charge[d].hold
      BY <1>0, <1>8, <3>1, CallIs
    <3>3. reservation[charge[d].hold].status \in {"RELEASED", "EXPIRED"}
          \/ call'[p].phase = "error"
      BY <1>2, <3>1, <3>2
    <3>4. call'[p].phase = "ok" => ~ Funded(d)'
      BY <1>5, <3>3 DEF Funded
    <3>5. HoldOk(p)'
      BY <1>1, <2>3, <3>2, <3>4 DEF HoldOk
    <3> QED BY <1>0, <1>1, <1>2, <1>3, <1>5, <2>1, <2>2, <3>2, <3>5, EarlyCall
  <2>6. CASE CallFails(p)
    <3>1. call'[p].phase = "error"
      BY <1>2, <2>6 DEF CallFails
    <3>2. HoldOk(p)'
      BY <1>1, <1>5, <2>2, <2>3, <3>1 DEF HoldOk, BillingStages
    <3>3. AttemptOk(p)'
      <4>1. LockOk(p) /\ ShipmentOk(p)
        BY <2>1 DEF Inv, BookingInv, AttemptOk
      <4>2. LockOk(p)' /\ ShipmentOk(p)'
        BY <1>1, <1>5, <2>3, <4>1 DEF LockOk, ShipmentOk
      <4> QED BY <3>2, <4>2 DEF AttemptOk
    <3>4. CallOk(p)'
      BY <1>1, <2>2, <3>1 DEF CallOk
    <3>5. Discreet(p, d) /\ request'[p].stage \notin {"label", "repair"}
      BY <1>1, <2>1, <2>2 DEF Discreet, BillingStages
    <3> QED BY <1>3, <1>5, <2>1, <3>3, <3>4, <3>5, AttemptsCall, BillingKeeps
  <2> QED BY <2>4, <2>5, <2>6
<1> QED BY <1>7, <1>8

LEMMA RunKeeps ==
    ASSUME Inv, NEW p \in Callers, RunBilling(p)
    PROVE  (BookingTypes /\ BookingInv)'
BY TakeKeeps, TransitionKeeps, MootKeeps DEF RunBilling, CallStep

\* The request or reconciliation acts on the answer.
LEMMA ContinueKeeps ==
    ASSUME Inv, NEW p \in Callers, Continue(p)
    PROVE  (BookingTypes /\ BookingInv)'
<1>0. PICK d : d = request[p].draft
  OBVIOUS
<1>1. /\ TypeInv /\ BookingTypeOK /\ d \in Drafts
      /\ p \in Reconciliations => RepairOk(p)
  <2>1. BookingTypeOK /\ TypeInv
    BY DEF Inv, EngineInv, BookingTypes
  <2>2. d \in Drafts
    BY <1>0, <2>1 DEF BookingTypeOK
  <2> QED BY <2>1, <2>2 DEF Inv, BookingInv
<1>2. /\ UNCHANGED <<draft, shipment, carrier, invoiced, reservation, charge>>
      /\ call' = [call EXCEPT ![p] = Idle]
      /\ request[p].stage \in BillingStages
  BY DEF Continue
<1>3. /\ call'[p].phase = "idle" /\ \A q \in Callers : q # p => call'[q] = call[q]
  BY <1>1, <1>2 DEF TypeInv, TypeOK, Idle
<1>4. PICK stage :
        /\ Go(p, stage)
        /\ \/ call[p].phase = "ok" /\ stage = OnSuccess[request[p].stage]
           \/ call[p].phase = "error" /\ stage = OnError(p)[request[p].stage]
  BY DEF Continue
<1>5. /\ stage \in WorkStages \cup {"done"}
      /\ stage \notin {"label", "repair"}
      /\ stage \in {"complete", "review", "refused", "consume", "reserve"} => FALSE
  <2>1. ASSUME NEW s \in BillingStages
        PROVE  /\ OnSuccess[s] \in {"carrier", "letGo", "record", "invoice", "hold", "unlock"}
               /\ OnError(p)[s] \in {"unlock", "rollback", "fallback", "done"}
    BY DEF OnSuccess, OnError, BillingStages
  <2> QED BY <1>2, <1>4, <2>1 DEF WorkStages, BillingStages
<1>6. Goes(p, stage)
  BY <1>1, <1>4, <1>5, GoMoves DEF Stages, EndStages
<1>7. request'[p].stage = stage /\ request'[p].draft = d
  BY <1>0, <1>6 DEF Goes
<1>8. /\ Bills(p, d) /\ Discreet(p, d) /\ DraftOk(d)' /\ (Funded(d)' <=> Funded(d))
      /\ \A a \in Attempts : Held(a)' <=> Held(a)
  BY <1>0, <1>1, <1>2, <1>3, <1>6, <1>7, NothingHeld
<1>9. CallOk(p)'
  BY <1>3 DEF CallOk
<1>10. ASSUME p \in Attempts PROVE AttemptOk(p)'
  <2>1. d = DraftOf[p] /\ LockOk(p) /\ ShipmentOk(p) /\ HoldOk(p)
    BY <1>0, <1>10 DEF Inv, BookingTypes, BookingInv, StagesOk, AttemptOk
  <2>2. CASE request[p].stage = "reserve"
    <3>1. \/ call[p].phase = "ok" /\ stage = "carrier"
          \/ stage = "unlock"
      BY <1>4, <2>2 DEF OnSuccess, OnError
    <3>2. ~ Funded(d)' /\ (stage = "carrier" => Held(p)') /\ shipment'[d].status = "NONE"
      BY <1>2, <1>8, <1>10, <2>1, <2>2, <3>1 DEF HoldOk, ShipmentOk
    <3>3. LockOk(p)'
      BY <1>2, <1>7, <2>1, <2>2, <3>1 DEF LockOk, EarlyStages, LateStages
    <3>4. ShipmentOk(p)' /\ HoldOk(p)'
      BY <1>7, <2>1, <3>1, <3>2 DEF ShipmentOk, HoldOk
    <3> QED BY <3>3, <3>4 DEF AttemptOk
  <2>3. CASE request[p].stage \in {"refused", "rollback"}
    <3>1. \/ call[p].phase = "ok" /\ stage \in {"letGo", "unlock"}
          \/ stage \in {"rollback", "done"}
      BY <1>4, <2>3 DEF OnSuccess, OnError
    <3>2. stage \in {"letGo", "unlock"} => ~ Funded(d)'
      BY <1>8, <2>1, <2>3, <3>1 DEF HoldOk
    <3>3. LockOk(p)'
      BY <1>2, <1>7, <2>1, <2>3, <3>1 DEF LockOk, EarlyStages, LateStages
    <3>4. ShipmentOk(p)' /\ HoldOk(p)'
      BY <1>3, <1>7, <2>1, <3>1, <3>2 DEF ShipmentOk, HoldOk
    <3> QED BY <3>3, <3>4 DEF AttemptOk
  <2>4. CASE request[p].stage = "consume"
    <3>1. \/ call[p].phase = "ok" /\ stage = "record"
          \/ stage = "rollback"
      BY <1>4, <2>4 DEF OnSuccess, OnError
    <3>2. stage = "record" => Funded(d)'
      BY <1>8, <2>1, <2>4, <3>1 DEF HoldOk
    <3>3. LockOk(p)'
      BY <1>2, <1>7, <2>1, <2>4, <3>1 DEF LockOk, EarlyStages, LateStages
    <3>4. ShipmentOk(p)' /\ HoldOk(p)'
      BY <1>3, <1>7, <2>1, <3>1, <3>2 DEF ShipmentOk, HoldOk
    <3> QED BY <3>3, <3>4 DEF AttemptOk
  <2>5. CASE request[p].stage \in {"complete", "review"}
    <3>1. \/ stage \in {"fallback", "hold", "done"}
          \/ stage = "invoice" /\ request[p].stage = "complete"
      BY <1>4, <1>10, <2>5 DEF OnSuccess, OnError
    <3>2. stage = "invoice" => shipment'[d].snapshot
      BY <1>2, <2>1, <3>1 DEF ShipmentOk
    <3>3. /\ draft'[d].state # "EDITABLE" /\ draft'[d].attempt = p /\ Funded(d)'
      BY <1>2, <1>8, <2>1, <2>5 DEF LockOk, LateStages
    <3>4. CASE stage = "done"
      BY <1>7, <1>10, <3>4, OverIsOk
    <3>5. CASE stage # "done"
      <4>1. request'[p].stage \in LateStages
        BY <1>7, <3>1, <3>5 DEF LateStages
      <4> QED BY <1>7, <1>10, <2>1, <3>1, <3>2, <3>3, <4>1, LateIsOk
    <3> QED BY <3>4, <3>5
  <2> QED BY <1>2, <2>2, <2>3, <2>4, <2>5 DEF BillingStages
<1>11. ASSUME p \in Reconciliations
       PROVE  stage \in {"invoice", "done"} /\ RepairOk(p)'
  <2>1. request[p].stage = "complete" /\ p \notin Attempts
    BY <1>2, <1>11, AttemptsCall
       DEF Inv, BookingTypes, StagesOk, RepairStages, EndStages, BillingStages
  <2>2. stage \in {"invoice", "done"}
    BY <1>4, <2>1 DEF OnSuccess, OnError
  <2>3. p \in Working
    BY <2>1 DEF Working, WorkStages, BillingStages
  <2> QED BY <1>0, <1>1, <1>2, <1>7, <1>11, <2>2, <2>3 DEF RepairOk
<1> QED BY <1>1, <1>5, <1>7, <1>8, <1>9, <1>10, <1>11, BillingKeeps
        DEF RepairStages, EndStages

LEMMA CrashKeeps ==
    ASSUME Inv, NEW p \in Callers, Crash(p)
    PROVE  (BookingTypes /\ BookingInv)'
<1>0. PICK d : d = request[p].draft
  OBVIOUS
<1>1. TypeInv /\ BookingTypeOK /\ d \in Drafts
  BY <1>0 DEF Inv, EngineInv, BookingTypes, BookingTypeOK
<1>2. /\ UNCHANGED <<draft, shipment, carrier, invoiced, reservation, charge>>
      /\ call' = [call EXCEPT ![p] = Idle] /\ Go(p, "crashed")
  BY DEF Crash
<1>3. /\ call'[p].phase = "idle" /\ \A q \in Callers : q # p => call'[q] = call[q]
  BY <1>1, <1>2 DEF TypeInv, TypeOK, Idle
<1>4. Goes(p, "crashed")
  BY <1>1, <1>2, GoMoves DEF Stages, EndStages
<1>5. request'[p].stage = "crashed"
  BY <1>4 DEF Goes
<1>6. Bills(p, d) /\ Discreet(p, d) /\ DraftOk(d)'
  BY <1>0, <1>1, <1>2, <1>3, <1>4, <1>5, NothingHeld
<1>7. CallOk(p)'
  BY <1>3 DEF CallOk
<1>8. RepairOk(p)'
  BY <1>5 DEF RepairOk, Working, WorkStages, BillingStages
<1> QED BY <1>1, <1>5, <1>6, <1>7, <1>8, OverIsOk, BillingKeeps DEF EndStages

LEMMA SweepKeeps ==
    ASSUME Inv, NEW a \in Attempts, Sweep(a)
    PROVE  (BookingTypes /\ BookingInv)'
<1>0. PICK d : d = request[a].draft
  OBVIOUS
<1>1. /\ TypeInv /\ a \in Callers /\ d \in Drafts /\ d = DraftOf[a]
      /\ CallOk(a) /\ AttemptOk(a) /\ DraftOk(d)
      /\ request[a].stage \notin {"label", "repair"}
  BY <1>0, AttemptsCall
     DEF Inv, EngineInv, BookingTypes, BookingInv, StagesOk
<1>2. UNCHANGED bookingVars
  BY DEF Sweep
<1>3. Goes(a, request'[a].stage) /\ request' = request
  BY <1>1, <1>2, Stands DEF bookingVars
<1>4. ASSUME Bills(a, d), Discreet(a, d), charge'[d].hold = charge[d].hold,
             Funded(d)' <=> Funded(d), call' = call, HoldOk(a)'
      PROVE  (BookingTypes /\ BookingInv)'
  <2>1. CallOk(a)'
    BY <1>0, <1>1, <1>3, <1>4 DEF CallOk
  <2>2. DraftOk(d)'
    BY <1>1, <1>2, <1>4 DEF DraftOk, bookingVars
  <2>3. LockOk(a)' /\ ShipmentOk(a)'
    BY <1>1, <1>2, <1>4 DEF AttemptOk, LockOk, ShipmentOk, bookingVars
  <2> QED BY <1>1, <1>3, <1>4, <2>1, <2>2, <2>3, AttemptsCall, BillingKeeps
          DEF AttemptOk
<1>5. CASE a \notin Working /\ TtlLapses(a)
  <2>1. /\ \A b \in Attempts : b # a => reservation'[b] = reservation[b]
        /\ reservation[a].status = "ACTIVE" /\ reservation'[a].status = "ACTIVE"
        /\ charge' = charge /\ call' = call
    BY <1>1, <1>5 DEF TtlLapses, TypeInv, TypeOK, ReservationType
  <2>2. \A e \in Drafts : Funded(e)' <=> Funded(e)
    <3>1. \A e \in Drafts : charge[e].hold \in Attempts \cup {NoHold}
      BY <1>1 DEF TypeInv, TypeOK, ChargeType
    <3>2. \A b \in Attempts : reservation'[b].status = reservation[b].status
      BY <2>1
    <3> QED BY <2>1, <3>1, <3>2 DEF Funded
  <2>3. Bills(a, d)
    BY <1>0, <1>1, <1>2, <1>3, <2>1, <2>2 DEF Bills, bookingVars
  <2>4. Discreet(a, d)
    BY <1>1, <2>1, <2>2 DEF Discreet, Held
  <2>5. HoldOk(a)'
    <3>1. request[a].stage \in EndStages
      <4>1. request[a].stage \in WorkStages \cup EndStages
        BY <1>1 DEF Inv, BookingTypes, BookingTypeOK
      <4> QED BY <1>1, <1>5, <4>1 DEF Working
    <3>2. request[a].stage # "new"
      BY <1>1, <2>1 DEF AttemptOk, HoldOk
    <3> QED BY <1>3, <3>1, <3>2 DEF HoldOk, EndStages
  <2> QED BY <1>1, <1>4, <2>1, <2>2, <2>3, <2>4, <2>5
<1>6. CASE expireStaleReservation(a)
  <2>1. /\ HoldStep(a) /\ SetReservation(a, "EXPIRED") /\ call' = call
        /\ reservation[a].status = "ACTIVE" /\ reservation[a].lapsed
    BY <1>6 DEF expireStaleReservation, IsStale, HoldStep, Dropped
  <2>2. /\ Bills(a, d)
        /\ charge[d].hold = a /\ charge'[d].hold = a
        /\ \A q \in Attempts : q # a /\ Held(q) => Held(q)'
    BY <1>0, <1>1, <1>2, <2>1, HoldBills
  <2>3. reservation'[a].status = "EXPIRED"
    BY <1>1, <2>1 DEF SetReservation, TypeInv, TypeOK, ReservationType
  <2>4. ~ Funded(d) /\ ~ Funded(d)'
    BY <2>1, <2>2, <2>3 DEF Funded
  <2>5. Discreet(a, d)
    BY <2>2, <2>4 DEF Discreet
  <2>6. HoldOk(a)'
    <3>1. ~ Held(a) /\ reservation[a].status # "NONE"
      BY <2>1 DEF Held
    <3> QED BY <1>1, <1>3, <2>1, <2>4, <3>1 DEF AttemptOk, HoldOk
  <2> QED BY <1>1, <1>4, <2>1, <2>2, <2>4, <2>5, <2>6
<1> QED BY <1>5, <1>6 DEF Sweep
-----------------------------------------------------------------------------
(***************************************************************************)
(* The types, and with them the engine's invariants, need nothing of the   *)
(* rest: they hold whether or not the reply to an unlock may be lost.      *)
(***************************************************************************)
LEMMA TypedStep ==
    ASSUME BookingTypes, NEW p \in Callers, NEW d \in Drafts,
           NEW stage \in Stages, Goes(p, stage), DraftGoes(d), ShipmentGoes(d),
           carrier' \in [Drafts -> CarrierType], invoiced' \subseteq Drafts,
           p \in Attempts => stage \notin {"label", "repair"},
           p \in Reconciliations => stage \in RepairStages \cup EndStages
    PROVE  BookingTypes'
<1>1. BookingTypeOK'
  BY TypesAre DEF Goes, DraftGoes, ShipmentGoes, BookingTypeOK, FreeIfEditable,
                  CarrierType, RequestType, Stages
<1>2. StagesOk'
  BY AttemptsCall DEF BookingTypes, StagesOk, Goes
<1> QED BY <1>1, <1>2 DEF BookingTypes

LEMMA TypesAt ==
    ASSUME BookingTypes, NEW p \in Callers, NEW d, d = request[p].draft
    PROVE  /\ BookingTypeOK /\ d \in Drafts /\ DraftOfRequest(p) = d
           /\ p \in Attempts => p \notin Reconciliations /\ d = DraftOf[p]
           /\ p \in Reconciliations => p \notin Attempts
           /\ request[p] \in RequestType /\ draft[d] \in DraftType
           /\ carrier \in [Drafts -> CarrierType] /\ invoiced \subseteq Drafts
           /\ UNCHANGED draft => DraftGoes(d)
           /\ UNCHANGED shipment => ShipmentGoes(d)
<1>1. BookingTypeOK
  BY DEF BookingTypes
<1>2. d \in Drafts /\ request[p] \in RequestType /\ draft[d] \in DraftType
  BY <1>1, TypesAre DEF RequestType
<1> QED BY <1>1, <1>2, TypesAre, Untouched, AttemptsCall
        DEF BookingTypes, StagesOk, DraftOfRequest

\* Only the control of p moves.
LEMMA OnlyStage ==
    ASSUME BookingTypes, NEW p \in Callers, NEW stage \in Stages, Go(p, stage),
           UNCHANGED <<draft, shipment, carrier, invoiced>>,
           p \in Attempts => stage \notin {"label", "repair"},
           p \in Reconciliations => stage \in RepairStages \cup EndStages
    PROVE  BookingTypes'
<1>1. PICK d : d = request[p].draft
  OBVIOUS
<1>2. Goes(p, stage)
  BY <1>1, TypesAt, GoMoves
<1> QED BY <1>1, <1>2, TypesAt, TypedStep

LEMMA RequestTyped ==
    ASSUME BookingTypes, NEW a \in Attempts, RequestStep(a)
    PROVE  BookingTypes'
<1>1. PICK d : d = request[a].draft
  OBVIOUS
<1>2. /\ a \in Callers /\ a \notin Reconciliations /\ d = DraftOf[a] /\ d \in Drafts
      /\ BookingTypeOK /\ DraftOfRequest(a) = d
      /\ request[a] \in RequestType /\ draft[d] \in DraftType
      /\ carrier \in [Drafts -> CarrierType] /\ invoiced \subseteq Drafts
      /\ UNCHANGED draft => DraftGoes(d)
      /\ UNCHANGED shipment => ShipmentGoes(d)
  BY <1>1, AttemptsCall, TypesAt
<1> DEFINE to == {"reuse", "reuseInvoice", "begin", "reserve", "carrier", "refused",
                  "letGo", "consume", "record", "labels", "save", "complete",
                  "invoice", "finish", "fallback", "review", "hold", "rollback",
                  "unlock", "done"}
<1>3. to \subseteq Stages \ {"label", "repair"}
  BY DEF Stages, WorkStages, BillingStages, EndStages
<1> HIDE DEF to
<1>4. ASSUME NEW stage \in to, Goes(a, stage), DraftGoes(d), ShipmentGoes(d),
             carrier' \in [Drafts -> CarrierType], invoiced' \subseteq Drafts
      PROVE  BookingTypes'
  BY <1>2, <1>3, <1>4, TypedStep
<1>5. ASSUME NEW stage \in to, Go(a, stage), DraftGoes(d), ShipmentGoes(d),
             UNCHANGED carrier, invoiced' \subseteq Drafts
      PROVE  BookingTypes'
  <2>1. Goes(a, stage)
    BY <1>2, <1>3, <1>5, GoMoves
  <2> QED BY <1>2, <1>4, <1>5, <2>1
<1>6. ASSUME NEW state \in BookingStates,
             draft' = transitionShipmentDraftBooking(a, state)
      PROVE  DraftGoes(d)
  BY <1>2, <1>6, TransitionDone
<1>7. ASSUME NEW state \in {"BOOKED", "REVIEW_REQUIRED"}, SetDraft(d, state)
      PROVE  DraftGoes(d)
  BY <1>2, <1>7, SetMoves DEF BookingStates
<1>8. CASE Read(a)
  <2> DEFINE stage == CASE shipment[d].status = "LABEL_RECEIVED" -> "reuse"
                        [] shipment[d].status = "NONE" -> "begin"
                        [] OTHER -> "done"
  <2>1. /\ UNCHANGED <<draft, shipment, carrier, invoiced>>
        /\ request' = [request EXCEPT ![a].seen = draft[d], ![a].stage = stage]
    BY <1>2, <1>8 DEF Read
  <2>2. stage \in to
    BY DEF to
  <2> HIDE DEF stage
  <2>3. Goes(a, stage)
    BY <1>2, <1>3, <2>1, <2>2, GoTwice
  <2> QED BY <1>2, <1>4, <2>1, <2>2, <2>3
<1>9. CASE Reuse(a)
  <2>1. /\ Go(a, "reuseInvoice") /\ UNCHANGED <<shipment, carrier, invoiced>>
        /\ UNCHANGED draft \/ SetDraft(d, "BOOKED")
    BY <1>2, <1>9 DEF Reuse
  <2> QED BY <1>2, <1>5, <1>7, <2>1 DEF to
<1>10. CASE ReuseInvoice(a)
  <2>1. /\ Go(a, "done") /\ UNCHANGED <<shipment, carrier>>
        /\ UNCHANGED draft \/ SetDraft(d, "REVIEW_REQUIRED")
        /\ invoiced' \subseteq Drafts
    BY <1>2, <1>10 DEF ReuseInvoice
  <2> QED BY <1>2, <1>5, <1>7, <2>1 DEF to
<1>11. CASE beginShipmentDraftBooking(a)
  <2> DEFINE locked == [state |-> "BOOKING", attempt |-> a,
                        writes |-> draft[d].writes + 1]
  <2>1. /\ UNCHANGED <<shipment, carrier, invoiced>>
        /\ \/ draft' = [draft EXCEPT ![d] = locked] /\ Go(a, "reserve")
           \/ UNCHANGED draft /\ Go(a, "done")
    BY <1>2, <1>11 DEF beginShipmentDraftBooking
  <2>2. locked \in DraftType /\ locked.state = "BOOKING"
    BY <1>2 DEF DraftType, BookingStates
  <2> HIDE DEF locked
  <2>3. DraftGoes(d)
    BY <1>2, <2>1, <2>2, TypesAre DEF DraftGoes, FreeIfEditable
  <2> QED BY <1>2, <1>5, <2>1, <2>3 DEF to
<1>12. CASE Carrier(a)
  <2>1. UNCHANGED <<draft, shipment, invoiced>>
    BY <1>12 DEF Carrier
  <2>2. ASSUME NEW n \in {0, 1}, NEW outcome \in {"none", "label", "noLabel", "uncertain"},
               carrier' = [carrier EXCEPT
                  ![d].bookings = @ + n,
                  ![d].uncertain = @ \/ outcome = "uncertain"],
               request' = [request EXCEPT ![a].stage = "consume",
                                          ![a].outcome = outcome]
        PROVE  BookingTypes'
    <3>1. "consume" \in to
      BY DEF to
    <3>2. Goes(a, "consume")
      BY <1>2, <1>3, <2>2, <3>1, GoTwice
    <3>3. carrier' \in [Drafts -> CarrierType]
      BY <1>2, <2>2, DocketMoves
    <3> QED BY <1>2, <1>4, <2>1, <3>1, <3>2, <3>3
  <2>3. ASSUME NEW stage \in {"refused", "rollback"}, Go(a, stage), UNCHANGED carrier
        PROVE  BookingTypes'
    BY <1>2, <1>5, <2>1, <2>3 DEF to
  <2> QED BY <1>2, <1>12, <2>2, <2>3 DEF Carrier
<1>13. CASE LetGo(a)
  <2>1. /\ UNCHANGED <<shipment, carrier, invoiced>>
        /\ Go(a, "done") \/ Go(a, "rollback")
        /\ UNCHANGED draft \/ draft' = transitionShipmentDraftBooking(a, "EDITABLE")
    BY <1>13 DEF LetGo
  <2> QED BY <1>2, <1>5, <1>6, <2>1 DEF to, BookingStates
<1>14. CASE recordBookingOutcome(a)
  <2> DEFINE status == IF request[a].outcome = "uncertain"
                       THEN "DPD_STATUS_UNKNOWN" ELSE "DPD_CREATED"
             referred == request[a].outcome \in {"label", "noLabel"}
             recorded == [shipment EXCEPT ![d].status = status,
                                          ![d].reference = referred]
  <2>1. /\ UNCHANGED <<draft, carrier, invoiced>>
        /\ shipment' \in {shipment, recorded}
        /\ \/ request' = [request EXCEPT ![a].stage = "labels", ![a].status = status]
           \/ Go(a, "rollback")
    BY <1>2, <1>14 DEF recordBookingOutcome
  <2>2. status \in ShipmentStatuses /\ referred \in BOOLEAN
    BY DEF ShipmentStatuses
  <2> HIDE DEF status, referred
  <2>3. ShipmentGoes(d)
    BY <1>2, <2>1, <2>2, RecordMoves
  <2>4. "labels" \in to /\ "rollback" \in to
    BY DEF to
  <2>5. CASE request' = [request EXCEPT ![a].stage = "labels", ![a].status = status]
    <3>1. Goes(a, "labels")
      BY <1>2, <1>3, <2>2, <2>4, <2>5, GoTwice
    <3> QED BY <1>2, <1>4, <2>1, <2>3, <2>4, <3>1
  <2>6. CASE Go(a, "rollback")
    BY <1>2, <1>5, <2>1, <2>3, <2>4, <2>6
  <2> QED BY <2>1, <2>5, <2>6
<1>15. CASE StoreLabels(a)
  <2> DEFINE labelled == request[a].outcome = "label"
             saved == [shipment EXCEPT ![d].snapshot = TRUE]
  <2>1. /\ UNCHANGED <<draft, carrier, invoiced>>
        /\ Go(a, "save") \/ Go(a, "fallback")
        /\ \/ UNCHANGED shipment
           \/ shipment' \in {saved, [saved EXCEPT ![d].label = labelled]}
    BY <1>2, <1>15 DEF StoreLabels
  <2>2. labelled \in BOOLEAN
    OBVIOUS
  <2> HIDE DEF labelled
  <2>3. ShipmentGoes(d)
    BY <1>2, <2>1, <2>2, StoreMoves
  <2> QED BY <1>2, <1>5, <2>1, <2>3 DEF to
<1>16. CASE SaveStatus(a)
  <2> DEFINE status == IF request[a].outcome \in {"uncertain", "noLabel"}
                       THEN request[a].status ELSE "LABEL_RECEIVED"
  <2>1. PICK next \in {"complete", "fallback"} :
          /\ UNCHANGED shipment \/ SetShipment(d, status)
          /\ request' = [request EXCEPT ![a].stage = next, ![a].status = status]
          /\ UNCHANGED <<draft, carrier, invoiced>>
    BY <1>2, <1>16 DEF SaveStatus, SetShipment
  <2>2. status \in ShipmentStatuses
    BY <1>2 DEF RequestType, ShipmentStatuses
  <2> HIDE DEF status
  <2>3. ShipmentGoes(d) /\ next \in to
    BY <1>2, <2>1, <2>2, ShipmentMoves DEF to
  <2>4. Goes(a, next)
    BY <1>2, <1>3, <2>1, <2>2, <2>3, GoTwice
  <2> QED BY <1>2, <1>4, <2>1, <2>3, <2>4
<1>17. CASE ensureShipmentInvoiceForDraft(a, "finish", "fallback")
  <2>1. /\ UNCHANGED <<draft, shipment, carrier>> /\ invoiced' \subseteq Drafts
        /\ Go(a, "finish") \/ Go(a, "fallback")
    BY <1>2, <1>17 DEF ensureShipmentInvoiceForDraft
  <2> QED BY <1>2, <1>5, <2>1 DEF to
<1>18. CASE Finish(a)
  <2>1. /\ UNCHANGED <<shipment, carrier, invoiced>>
        /\ Go(a, "done") \/ Go(a, "fallback")
        /\ UNCHANGED draft \/ draft' = transitionShipmentDraftBooking(a, "BOOKED")
    BY <1>18 DEF Finish
  <2> QED BY <1>2, <1>5, <1>6, <2>1 DEF to, BookingStates
<1>19. CASE Fallback(a)
  <2>1. /\ UNCHANGED <<draft, carrier, invoiced>>
        /\ Go(a, "review") \/ Go(a, "done")
        /\ UNCHANGED shipment \/ SetShipment(d, "DPD_CREATED")
    BY <1>2, <1>19 DEF Fallback
  <2>2. ShipmentGoes(d)
    BY <1>2, <2>1, ShipmentMoves DEF ShipmentStatuses
  <2> QED BY <1>2, <1>5, <2>1, <2>2 DEF to
<1>20. CASE Hold(a)
  <2>1. /\ UNCHANGED <<shipment, carrier, invoiced>> /\ Go(a, "done")
        /\ \/ UNCHANGED draft
           \/ draft' = transitionShipmentDraftBooking(a, "REVIEW_REQUIRED")
    BY <1>20 DEF Hold
  <2> QED BY <1>2, <1>5, <1>6, <2>1 DEF to, BookingStates
<1>21. CASE Unlock(a)
  <2>1. /\ UNCHANGED <<shipment, carrier, invoiced>> /\ Go(a, "done")
        /\ UNCHANGED draft \/ draft' = transitionShipmentDraftBooking(a, "EDITABLE")
    BY <1>21 DEF Unlock
  <2> QED BY <1>2, <1>5, <1>6, <2>1 DEF to, BookingStates
<1> QED BY <1>8, <1>9, <1>10, <1>11, <1>12, <1>13, <1>14, <1>15, <1>16, <1>17,
           <1>18, <1>19, <1>20, <1>21 DEF RequestStep

LEMMA RepairTyped ==
    ASSUME BookingTypes, NEW r \in Reconciliations, RepairStep(r)
    PROVE  BookingTypes'
<1>1. PICK d : d = request[r].draft
  OBVIOUS
<1>2. /\ r \in Callers /\ r \notin Attempts /\ d \in Drafts
      /\ BookingTypeOK /\ DraftOfRequest(r) = d
      /\ carrier \in [Drafts -> CarrierType] /\ invoiced \subseteq Drafts
      /\ UNCHANGED draft => DraftGoes(d)
      /\ UNCHANGED shipment => ShipmentGoes(d)
  BY <1>1, AttemptsCall, TypesAt
<1> DEFINE to == {"complete", "label", "repair", "done"}
<1>3. to \subseteq Stages /\ to \subseteq RepairStages \cup EndStages
  BY DEF Stages, WorkStages, BillingStages, RepairStages, EndStages
<1> HIDE DEF to
<1>4. ASSUME NEW stage \in to, Goes(r, stage), DraftGoes(d), ShipmentGoes(d),
             UNCHANGED carrier, invoiced' \subseteq Drafts
      PROVE  BookingTypes'
  BY <1>2, <1>3, <1>4, TypedStep
<1>5. ASSUME NEW stage \in to, Go(r, stage) PROVE Goes(r, stage)
  BY <1>2, <1>3, <1>5, GoMoves
<1>6. CASE ReadForRepair(r)
  <2> DEFINE stage == IF CanRepair(d) THEN "complete" ELSE "done"
  <2>1. /\ UNCHANGED <<draft, shipment, carrier, invoiced>>
        /\ request' = [request EXCEPT ![r].status = shipment[d].status,
                                      ![r].stage = stage]
    BY <1>2, <1>6 DEF ReadForRepair
  <2>2. stage \in to /\ shipment[d].status \in ShipmentStatuses
    BY <1>2, TypesAre DEF to, ShipmentType
  <2> HIDE DEF stage
  <2>3. Goes(r, stage)
    BY <1>2, <1>3, <2>1, <2>2, GoTwice
  <2> QED BY <1>2, <1>4, <2>1, <2>2, <2>3
<1>7. CASE ensureShipmentInvoiceForDraft(r, "label", "done")
  <2>1. /\ UNCHANGED <<draft, shipment, carrier>> /\ invoiced' \subseteq Drafts
        /\ Go(r, "label") \/ Go(r, "done")
    BY <1>2, <1>7 DEF ensureShipmentInvoiceForDraft
  <2> QED BY <1>2, <1>4, <1>5, <2>1 DEF to
<1>8. CASE SaveRepaired(r)
  <2>1. /\ UNCHANGED <<draft, carrier, invoiced>>
        /\ Go(r, "repair") \/ Go(r, "done")
        /\ UNCHANGED shipment \/ SetShipment(d, "LABEL_RECEIVED")
    BY <1>2, <1>8 DEF SaveRepaired
  <2>2. ShipmentGoes(d)
    BY <1>2, <2>1, ShipmentMoves DEF ShipmentStatuses
  <2> QED BY <1>2, <1>4, <1>5, <2>1, <2>2 DEF to
<1>9. CASE BookRepaired(r)
  <2>1. /\ UNCHANGED <<shipment, carrier, invoiced>> /\ Go(r, "done")
        /\ UNCHANGED draft \/ SetDraft(d, "BOOKED")
    BY <1>2, <1>9 DEF BookRepaired
  <2>2. DraftGoes(d)
    BY <1>2, <2>1, SetMoves DEF BookingStates
  <2> QED BY <1>2, <1>4, <1>5, <2>1, <2>2 DEF to
<1> QED BY <1>6, <1>7, <1>8, <1>9 DEF RepairStep

LEMMA TypesNext ==
    ASSUME BookingTypes, [BookingNext]_allVars
    PROVE  BookingTypes'
<1>1. ASSUME UNCHANGED bookingVars PROVE BookingTypes'
  BY <1>1 DEF BookingTypes, BookingTypeOK, StagesOk, bookingVars
<1>2. ASSUME NEW p \in Callers, Continue(p) PROVE BookingTypes'
  <2>1. PICK stage :
          /\ Go(p, stage)
          /\ stage \in {OnSuccess[request[p].stage], OnError(p)[request[p].stage]}
    BY <1>2 DEF Continue
  <2>2. /\ request[p].stage \in BillingStages
        /\ UNCHANGED <<draft, shipment, carrier, invoiced>>
    BY <1>2 DEF Continue
  <2>3. ASSUME NEW s \in BillingStages
        PROVE  /\ OnSuccess[s] \in {"carrier", "letGo", "record", "invoice", "hold", "unlock"}
               /\ OnError(p)[s] \in {"unlock", "rollback", "fallback", "done"}
    BY DEF OnSuccess, OnError, BillingStages
  <2>4. stage \in {"carrier", "letGo", "record", "invoice", "hold", "unlock",
                   "rollback", "fallback", "done"}
    BY <2>1, <2>2, <2>3
  <2>5. p \in Reconciliations => stage \in {"invoice", "done"}
    <3>1. p \in Reconciliations => request[p].stage = "complete" /\ p \notin Attempts
      BY <2>2, AttemptsCall
         DEF BookingTypes, StagesOk, RepairStages, EndStages, BillingStages
    <3> QED BY <2>1, <3>1 DEF OnSuccess, OnError
  <2> QED BY <2>1, <2>2, <2>4, <2>5, OnlyStage
          DEF Stages, WorkStages, BillingStages, RepairStages, EndStages
<1>3. ASSUME NEW p \in Callers, Crash(p) PROVE BookingTypes'
  BY <1>3, OnlyStage DEF Crash, Stages, EndStages
<1>4. CASE UNCHANGED allVars
  BY <1>1, <1>4 DEF allVars
<1>5. CASE BookingNext
  BY <1>1, <1>2, <1>3, <1>5, RequestTyped, RepairTyped
     DEF BookingNext, BillingStep, AskBilling, RunBilling, Sweep
<1> QED BY <1>4, <1>5

LEMMA BookingStarts == InUse /\ BookingInit => Inv
<1> SUFFICES ASSUME InUse, BookingInit PROVE Inv
  OBVIOUS
<1>1. EngineInv
  BY EngineInit
<1>2. \A p \in Callers : \E d \in Drafts : request[p] = NewRequest(d)
  BY DEF BookingInit
<1>3. \A p \in Callers : /\ request[p].stage = "new" /\ call[p].phase = "idle"
                         /\ request[p].draft \in Drafts
  <2>1. ASSUME NEW d \in Drafts
        PROVE  NewRequest(d).stage = "new" /\ NewRequest(d).draft = d
    BY DEF NewRequest
  <2>2. ASSUME NEW p \in Callers PROVE call[p].phase = "idle"
    BY DEF InUse, Idle
  <2>3. ASSUME NEW p \in Callers
        PROVE  request[p].stage = "new" /\ request[p].draft \in Drafts
    BY <1>2, <2>1
  <2> QED BY <2>2, <2>3
<1>4. /\ \A d \in Drafts : ~ Funded(d)
      /\ \A a \in Attempts : reservation[a].status = "NONE"
  BY DEF InUse, Funded, NoCharge, NoReservation
<1>5. BookingTypeOK
  <2>1. ASSUME NEW d \in Drafts PROVE NewRequest(d) \in RequestType
    <3>1. [state |-> "EDITABLE", attempt |-> NoHold, writes |-> 0] \in DraftType
      BY DEF DraftType, BookingStates
    <3> QED BY <3>1 DEF NewRequest, RequestType, Stages, EndStages, ShipmentStatuses
  <2>2. request \in [Callers -> RequestType]
    <3> DEFINE new == {NewRequest(d) : d \in Drafts}
    <3>1. request \in [Callers -> new] /\ new \subseteq RequestType
      BY <2>1 DEF BookingInit
    <3> HIDE DEF new
    <3> QED BY <3>1
  <2>3. /\ draft \in [Drafts -> DraftType] /\ \A d \in Drafts : FreeIfEditable(d)
        /\ invoiced \subseteq Drafts
    BY DEF BookingInit, DraftType, BookingStates, FreeIfEditable
  <2>4. shipment \in [Drafts -> ShipmentType] /\ carrier \in [Drafts -> CarrierType]
    BY DEF BookingInit, NoShipment, ShipmentType, ShipmentStatuses, CarrierType
  <2> QED BY <2>2, <2>3, <2>4, TypesAre
<1>6. StagesOk
  BY <1>3, AttemptsCall DEF BookingInit, StagesOk, EndStages
<1>7. BookingInv
  <2>1. ASSUME NEW p \in Callers PROVE CallOk(p)
    BY <1>3 DEF CallOk
  <2>2. ASSUME NEW d \in Drafts PROVE DraftOk(d)
    BY <1>4 DEF BookingInit, DraftOk, NoShipment
  <2>3. ASSUME NEW a \in Attempts PROVE AttemptOk(a)
    BY <1>3, <1>4, AttemptsCall
       DEF AttemptOk, LockOk, ShipmentOk, HoldOk, EarlyStages, LateStages
  <2>4. ASSUME NEW r \in Reconciliations PROVE RepairOk(r)
    BY <1>3, AttemptsCall DEF RepairOk, Working, WorkStages, BillingStages
  <2> QED BY <2>1, <2>2, <2>3, <2>4 DEF BookingInv
<1> QED BY <1>1, <1>5, <1>6, <1>7 DEF Inv, BookingTypes

LEMMA TypesHold == ShipmentSpec => [](EngineInv /\ BookingTypes)
<1>1. EngineInv /\ BookingTypes /\ [BookingNext]_allVars
         => (EngineInv /\ BookingTypes)'
  BY EngineNext, TypesNext
<1>2. InUse /\ BookingInit => EngineInv /\ BookingTypes
  BY BookingStarts DEF Inv
<1> QED BY <1>1, <1>2, PTL DEF ShipmentSpec

-----------------------------------------------------------------------------
(***************************************************************************)
(* The theorems.                                                           *)
(***************************************************************************)
LEMMA RequestKeeps ==
    ASSUME Inv, ~ RefusalReplyLost, NEW a \in Attempts, RequestStep(a)
    PROVE  (BookingTypes /\ BookingInv)'
BY ReadKeeps, ReuseKeeps, ReuseInvoiceKeeps, beginKeeps, CarrierKeeps, LetGoKeeps,
   recordKeeps, StoreLabelsKeeps, SaveStatusKeeps, InvoiceKeeps, FinishKeeps,
   FallbackKeeps, HoldKeeps, UnlockKeeps
   DEF RequestStep

LEMMA InvNext ==
    ASSUME Inv, ~ RefusalReplyLost, [BookingNext]_allVars
    PROVE  Inv'
<1>1. EngineInv'
  BY EngineNext DEF Inv
<1>2. CASE BookingNext
  <2>1. (BookingTypes /\ BookingInv)'
    BY <1>2, RequestKeeps, RepairStepKeeps, AskKeeps, RunKeeps, ContinueKeeps,
       CrashKeeps, SweepKeeps
       DEF BookingNext, BillingStep
  <2> QED BY <1>1, <2>1 DEF Inv
<1>3. CASE UNCHANGED allVars
  <2>1. BookingTypes'
    BY <1>3 DEF Inv, BookingTypes, BookingTypeOK, StagesOk, allVars, bookingVars
  <2>2. \A d \in Drafts : Funded(d)' <=> Funded(d)
    BY <1>3 DEF Funded, allVars, vars
  <2>3. \A d \in Drafts : DraftOk(d)'
    BY <1>3, <2>2 DEF Inv, BookingInv, DraftOk, allVars, bookingVars
  <2>4. /\ \A p \in Callers : CallOk(p)'
        /\ \A r \in Reconciliations : RepairOk(r)'
    BY <1>3 DEF Inv, BookingInv, CallOk, RepairOk, Working, allVars, vars, bookingVars
  <2>5. ASSUME NEW a \in Attempts PROVE AttemptOk(a)'
    <3>1. /\ LockOk(a) /\ ShipmentOk(a) /\ HoldOk(a) /\ (Held(a)' <=> Held(a))
          /\ DraftOf[a] \in Drafts
      BY <1>3, AttemptsCall DEF Inv, BookingInv, AttemptOk, Held, allVars, vars
    <3>2. LockOk(a)' /\ ShipmentOk(a)'
      BY <1>3, <2>2, <3>1 DEF LockOk, ShipmentOk, allVars, bookingVars
    <3>3. HoldOk(a)'
      BY <1>3, <2>2, <3>1 DEF HoldOk, allVars, vars, bookingVars
    <3> QED BY <3>2, <3>3 DEF AttemptOk
  <2> QED BY <1>1, <2>1, <2>3, <2>4, <2>5 DEF Inv, BookingInv
<1> QED BY <1>2, <1>3

LEMMA InvHolds ==
    ASSUME ~ RefusalReplyLost
    PROVE  ShipmentSpec => []Inv
<1>1. Inv /\ [BookingNext]_allVars => Inv'
  BY InvNext
<1> QED BY <1>1, BookingStarts, PTL DEF ShipmentSpec

\* Whatever fails or stops halfway, drafts, shipments and requests stay documents
\* that createLabelForShipmentDraft and its reconciliation can read, and an
\* editable draft names no attempt.
THEOREM BookingIsTyped == ShipmentSpec => []BookingTypeOK
<1>1. EngineInv /\ BookingTypes => BookingTypeOK
  BY DEF BookingTypes
<1> QED BY <1>1, TypesHold, PTL

\* The engine's answer is the same for these callers as for any: the charge of a
\* draft tells what became of its hold, also when requests stop halfway.
THEOREM ChargesTellBookings == ShipmentSpec => []ChargeFollowsHold
<1>1. EngineInv /\ BookingTypes => ChargeFollowsHold
  BY ChargesOkIs DEF EngineInv
<1> QED BY <1>1, TypesHold, PTL

\* What follows assumes that the unlock after a carrier's refusal does not report
\* a failure for a write it made: with RefusalReplyLost the request would roll
\* back a draft it has given back already.

\* Of all the requests for one draft, however they overlap, fail or are given up,
\* at most one is between beginShipmentDraftBooking and its last transition.
THEOREM DraftIsLockedOnce ==
    ASSUME ~ RefusalReplyLost
    PROVE  ShipmentSpec => []OneRequestPerDraft
<1>1. ASSUME Inv PROVE OneRequestPerDraft
  <2>1. ASSUME NEW a \in Attempts, a \in Working,
               request[a].stage \notin {"begin", "reuse", "reuseInvoice"}
        PROVE  draft[DraftOf[a]].attempt = a
    <3>1. request[a].stage \notin {"label", "repair"}
      BY <1>1 DEF Inv, BookingTypes, StagesOk
    <3>2. Locked(a)
      BY <2>1, <3>1
         DEF Working, WorkStages, BillingStages, Locked, EarlyStages, LateStages
    <3> QED BY <1>1, <3>2, LockIsHeld
  <2> QED BY <2>1 DEF OneRequestPerDraft
<1> QED BY <1>1, InvHolds, PTL

\* No shipment is finished, invoiced or marked as booked whose money was not
\* taken, or at least put past the reach of the sweep and of a rollback.
THEOREM FinishedBookingsAreFunded ==
    ASSUME ~ RefusalReplyLost
    PROVE  ShipmentSpec => []FinishedIsFunded
<1>1. Inv => FinishedIsFunded
  BY DEF Inv, BookingInv, DraftOk, Funded, FinishedIsFunded
<1> QED BY <1>1, InvHolds, PTL

\* A draft that a customer may book again is not charged for, and has no hold
\* but one that the sweep gives back: its next booking is not paid for twice.
THEOREM EditableDraftsAreFree ==
    ASSUME ~ RefusalReplyLost
    PROVE  ShipmentSpec => []EditableIsFree
<1>1. ASSUME Inv PROVE EditableIsFree
  <2>1. ASSUME NEW a \in OpenHolds \cup ConvertedHolds,
               draft[DraftOf[a]].state = "EDITABLE"
        PROVE  reservation[a].status = "ACTIVE"
    <3>1. /\ a \in Attempts
          /\ reservation[a].status
                \in {"ACTIVE", "CONSUMING", "REVIEW_REQUIRED", "CONVERTED"}
      BY DEF OpenHolds, ConvertedHolds, OpenStatuses
    <3>2. DraftOf[a] \in Drafts /\ a # NoHold
      BY <3>1, ConstantsAssumption
    <3>3. charge[DraftOf[a]].hold = a
      BY <1>1, <3>1 DEF Inv, EngineInv, ChargesOk, Live, OpenStatuses
    <3>4. ~ Funded(DraftOf[a])
      BY <1>1, <2>1, <3>2 DEF Inv, BookingInv, DraftOk
    <3> QED BY <3>1, <3>2, <3>3, <3>4 DEF Funded
  <2> QED BY <2>1 DEF EditableIsFree
<1> QED BY <1>1, InvHolds, PTL

\* A draft that holdRecordedBookingForReconciliation has put under review has
\* been charged or has its money set aside, whoever goes on with it.
THEOREM ReviewNeverLosesFunds ==
    ASSUME ~ RefusalReplyLost
    PROVE  ShipmentSpec => []ReviewKeepsFunds
<1>1. ASSUME Inv PROVE ReviewKeepsFunds
  <2>1. ASSUME NEW d \in Drafts, draft[d].state = "REVIEW_REQUIRED"
        PROVE  charge[d].status \in {"RESERVED", "REVIEW_REQUIRED", "COMPLETED"}
    <3>1. Funded(d) /\ ChargeSays(d)
      BY <1>1, <2>1 DEF Inv, BookingInv, DraftOk, EngineInv, ChargesOk
    <3> QED BY <3>1 DEF Funded, ChargeSays, Agrees
  <2> QED BY <2>1 DEF ReviewKeepsFunds
<1> QED BY <1>1, InvHolds, PTL

\* Once recordBookingOutcome has written a record of the booking, no request
\* sends the draft to the carrier again, whatever it has read before.
THEOREM RecordedIsNeverResubmitted ==
    ASSUME ~ RefusalReplyLost
    PROVE  ShipmentSpec => RecordedNeverResubmitted
<1>1. ASSUME Inv, BookingNext, NEW d \in Drafts, shipment[d].status # "NONE"
      PROVE  carrier'[d].bookings = carrier[d].bookings
  <2>1. CASE UNCHANGED carrier
    BY <2>1
  <2>2. ASSUME NEW a \in Attempts, Carrier(a)
        PROVE  carrier'[d].bookings = carrier[d].bookings
    <3>1. /\ request[a].stage = "carrier" /\ DraftOfRequest(a) = DraftOf[a]
          /\ AttemptOk(a) /\ carrier \in [Drafts -> CarrierType]
      BY <1>1, <2>2, AttemptIs DEF Carrier, At
    <3>2. d # DraftOf[a]
      BY <1>1, <3>1 DEF AttemptOk, ShipmentOk
    <3>3. carrier'[d] = carrier[d]
      BY <2>2, <3>1, <3>2 DEF Carrier
    <3> QED BY <3>3
  <2>3. ASSUME NEW a \in Attempts, RequestStep(a)
        PROVE  Carrier(a) \/ UNCHANGED carrier
    BY <2>3 DEF RequestStep, Read, Reuse, ReuseInvoice, beginShipmentDraftBooking,
         LetGo, recordBookingOutcome, StoreLabels, SaveStatus,
         ensureShipmentInvoiceForDraft, Finish, Fallback, Hold, Unlock
  <2>4. ASSUME \/ \E r \in Reconciliations : RepairStep(r)
               \/ \E a \in Attempts : Sweep(a)
               \/ \E p \in Callers : BillingStep(p) \/ Crash(p)
        PROVE  UNCHANGED carrier
    BY <2>4 DEF RepairStep, ReadForRepair, ensureShipmentInvoiceForDraft,
         SaveRepaired, BookRepaired, Sweep, BillingStep, AskBilling, RunBilling,
         Continue, Crash, bookingVars
  <2> QED BY <1>1, <2>1, <2>2, <2>3, <2>4 DEF BookingNext
<1>2. Inv /\ [BookingNext]_allVars =>
        [\A d \in Drafts :
            shipment[d].status # "NONE"
               => carrier'[d].bookings = carrier[d].bookings]_allVars
  BY <1>1
<1> QED BY <1>2, InvHolds, PTL DEF ShipmentSpec, RecordedNeverResubmitted
=============================================================================
