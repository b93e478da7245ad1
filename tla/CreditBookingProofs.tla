------------------------ MODULE CreditBookingProofs -------------------------
(***************************************************************************)
(* The invariants of CreditBooking and the refinement of BookingFunds, for *)
(* every set of drafts, booking attempts and callers, and every bound.     *)
(* The inductive invariant is TypeInv /\ HoldsBacked /\ Capacity /\        *)
(* ChargesOk /\ LedgerOk /\ AnswersOk /\ MoneyConserved /\ ClosedInv;      *)
(* each part is proved from TypeInv and those before it.                   *)
(***************************************************************************)
EXTENDS CreditBooking, MinorUnitsProofs, SequenceTheorems

USE DEF moneyVars, facilityVars

-----------------------------------------------------------------------------
(***************************************************************************)
(* Type correctness.                                                       *)
(***************************************************************************)
TypeInv == TypeOK /\ CallsNameHolds

LEMMA TypeInit == Init => TypeInv
BY ConstantsAssumption
   DEF Init, TypeInv, TypeOK, CallsNameHolds, AccountType, ReservationType,
       ChargeType, CallType, AccountStatuses, ReservationStatuses,
       ChargeStatuses, NoReservation, NoCharge, Idle, NotOverdue

\* The administrative steps, and time.
LEMMA TypeFacility == TypeInv /\ FacilityStep => TypeInv'
<1> SUFFICES ASSUME TypeInv, FacilityStep PROVE TypeInv'
  OBVIOUS
<1> USE DEF TypeInv, TypeOK, CallsNameHolds
<1>1. ASSUME NEW from, NEW to \in AccountStatuses, SetStatus(from, to)
      PROVE  TypeInv'
  BY <1>1 DEF SetStatus, AccountType
<1>2. CASE requestClientCredit
  BY <1>1, <1>2 DEF requestClientCredit, AccountStatuses
<1>3. ASSUME NEW limit \in Limits, NEW operatorApproval \in BOOLEAN,
             approveAdminCreditAccount(limit, operatorApproval)
      PROVE  TypeInv'
  BY <1>3, ConstantsAssumption
     DEF approveAdminCreditAccount, AccountType, AccountStatuses
<1>4. CASE activateAdminCreditAccount
  BY <1>1, <1>4 DEF activateAdminCreditAccount, AccountStatuses
<1>5. CASE suspendAdminCreditAccount
  BY <1>1, <1>5 DEF suspendAdminCreditAccount, AccountStatuses
<1>6. CASE reactivateAdminCreditAccount
  BY <1>1, <1>6 DEF reactivateAdminCreditAccount, AccountStatuses
<1>7. CASE closeAdminCreditAccount
  BY <1>1, <1>7 DEF closeAdminCreditAccount, AccountStatuses
<1>8. CASE rejectAdminCreditAccount
  BY <1>1, <1>8 DEF rejectAdminCreditAccount, AccountStatuses
<1>9. CASE expireLapsedCreditAccounts
  BY <1>1, <1>9 DEF expireLapsedCreditAccounts, AccountStatuses
<1>10. CASE ValidityPasses
  BY <1>10 DEF ValidityPasses
<1>11. CASE DayPasses
  BY <1>11, ConstantsAssumption DEF DayPasses, NotOverdue
<1> QED
  BY <1>2, <1>3, <1>4, <1>5, <1>6, <1>7, <1>8, <1>9, <1>10, <1>11
     DEF FacilityStep

LEMMA BalancesAreNat ==
    ASSUME TypeOK
    PROVE  /\ account.approvedCreditLimit \in Nat
           /\ account.reservedCredit \in Nat /\ account.unbilledCredit \in Nat
           /\ account.invoicedOutstanding \in Nat
           /\ account.customerAdvance \in Nat /\ account.reservedAdvance \in Nat
BY DEF TypeOK, AccountType

LEMMA BalancesStayNat ==
    ASSUME TypeOK'
    PROVE  /\ account'.approvedCreditLimit \in Nat
           /\ account'.reservedCredit \in Nat /\ account'.unbilledCredit \in Nat
           /\ account'.invoicedOutstanding \in Nat
           /\ account'.customerAdvance \in Nat /\ account'.reservedAdvance \in Nat
BY DEF TypeOK, AccountType

\* The other writers of the balances.
LEMMA TypeBalance == TypeInv /\ BalanceStep => TypeInv'
<1> SUFFICES ASSUME TypeInv, BalanceStep PROVE TypeInv'
  OBVIOUS
<1> USE DEF TypeInv, TypeOK, CallsNameHolds
<1>1. ASSUME NEW n \in Amounts, creditCapturedTopUp(n) PROVE TypeInv'
  <2>1. account.customerAdvance + n \in Nat /\ received + n \in Nat
    BY BalancesAreNat, ConstantsAssumption
  <2>2. account' \in AccountType
    BY <1>1, <2>1 DEF creditCapturedTopUp, AccountType
  <2> QED BY <1>1, <2>1, <2>2 DEF creditCapturedTopUp
<1>2. ASSUME NEW n \in 1 .. account.unbilledCredit, closeCreditBillingCycle(n)
      PROVE  TypeInv'
  <2>1. /\ account.unbilledCredit - n \in Nat
        /\ account.invoicedOutstanding + n \in Nat
    BY BalancesAreNat
  <2>2. account' \in AccountType
    BY <1>2, <2>1 DEF closeCreditBillingCycle, AccountType
  <2> QED BY <1>2, <2>2 DEF closeCreditBillingCycle
<1>3. ASSUME NEW n \in Amounts, applyVerifiedCreditPayment(n) PROVE TypeInv'
  <2> DEFINE applied == AppliedToStatements(n)
  <2>1. /\ applied \in Nat /\ n - applied \in Nat
        /\ account.invoicedOutstanding - applied \in Nat
        /\ account.customerAdvance + (n - applied) \in Nat
        /\ received + (n - applied) \in Nat /\ settled + applied \in Nat
    <3>1. n \in Nat /\ account.invoicedOutstanding \in Nat
      BY BalancesAreNat, ConstantsAssumption
    <3>2. /\ applied \in Nat
          /\ applied <= n /\ applied <= account.invoicedOutstanding
      BY <3>1 DEF AppliedToStatements, Lesser
    <3> HIDE DEF applied
    <3> QED BY <3>1, <3>2, BalancesAreNat
  <2>2. overdueDays' \in NotOverdue .. (MaxOverdueDays + 1)
    BY <1>3, ConstantsAssumption DEF applyVerifiedCreditPayment, Settle, NotOverdue
  <2>3. account' \in AccountType /\ received' \in Nat /\ settled' \in Nat
    <3> HIDE DEF applied
    <3> QED
      BY <1>3, <2>1 DEF applied, applyVerifiedCreditPayment, Settle, AccountType
  <2> QED BY <1>3, <2>2, <2>3 DEF applyVerifiedCreditPayment
<1>4. ASSUME NEW n \in 1 .. account.invoicedOutstanding, writeOffCreditStatement(n)
      PROVE  TypeInv'
  <2>1. account.invoicedOutstanding - n \in Nat /\ settled + n \in Nat
    BY BalancesAreNat
  <2>2. account' \in AccountType
    BY <1>4, <2>1 DEF writeOffCreditStatement, AccountType
  <2>3. overdueDays' \in NotOverdue .. (MaxOverdueDays + 1) /\ settled' \in Nat
    BY <1>4, <2>1, ConstantsAssumption
       DEF writeOffCreditStatement, Settle, NotOverdue
  <2> QED BY <1>4, <2>2, <2>3 DEF writeOffCreditStatement
<1> QED BY <1>1, <1>2, <1>3, <1>4 DEF BalanceStep

\* What the steps of a billing call share.
LEMMA TypeOfParts ==
    ASSUME TypeInv, NEW a \in Attempts
    PROVE  /\ \A status \in ReservationStatuses :
                SetReservation(a, status)
                   => reservation' \in [Attempts -> ReservationType]
           /\ \A from \in SUBSET ChargeStatuses, status \in ChargeStatuses :
                SetCharge(a, from, status)
                   => charge' \in [Drafts -> ChargeType]
           /\ \A type \in LedgerTypes :
                Append1(a, type) \/ AppendIfAnnounced(a, type)
                   => ledger' \in [Attempts -> Seq(LedgerTypes)]
           /\ HoldIsCovered(a) /\ GiveBack(a) => account' \in AccountType
<1> USE DEF TypeInv, TypeOK
<1>1. ASSUME NEW status \in ReservationStatuses, SetReservation(a, status)
      PROVE  reservation' \in [Attempts -> ReservationType]
  BY <1>1 DEF SetReservation, ReservationType
<1>2. ASSUME NEW from \in SUBSET ChargeStatuses, NEW status \in ChargeStatuses,
             SetCharge(a, from, status)
      PROVE  charge' \in [Drafts -> ChargeType]
  BY <1>2, ConstantsAssumption DEF SetCharge, ChargeType
<1>3. ASSUME NEW type \in LedgerTypes,
             Append1(a, type) \/ AppendIfAnnounced(a, type)
      PROVE  ledger' \in [Attempts -> Seq(LedgerTypes)]
  <2>1. Append(ledger[a], type) \in Seq(LedgerTypes)
    OBVIOUS
  <2> QED BY <1>3, <2>1 DEF Append1, AppendIfAnnounced
<1>4. ASSUME HoldIsCovered(a), GiveBack(a) PROVE account' \in AccountType
  <2>1. reservation[a].advance \in Nat /\ reservation[a].credit \in Nat
    BY DEF ReservationType
  <2>2. /\ account.reservedAdvance - reservation[a].advance \in Nat
        /\ account.reservedCredit - reservation[a].credit \in Nat
    BY <1>4, <2>1, BalancesAreNat DEF HoldIsCovered
  <2> QED BY <1>4, <2>2 DEF GiveBack, AccountType
<1> QED BY <1>1, <1>2, <1>3, <1>4

LEMMA TypeOfAnswers ==
    ASSUME TypeInv, NEW p \in Callers, Succeed(p) \/ Fail(p)
    PROVE  call' \in [Callers -> CallType] /\ CallsNameHolds'
<1> USE DEF TypeInv, TypeOK, CallsNameHolds, CallType
<1>1. CASE Succeed(p)
  <2> DEFINE c == [call[p] EXCEPT !.phase = "ok", !.allowCredit = FALSE]
  <2>1. c \in CallType /\ c.phase = "ok"
    OBVIOUS
  <2>2. call' = [call EXCEPT ![p] = c]
    BY <1>1 DEF Succeed
  <2> HIDE DEF c
  <2> QED BY <2>1, <2>2
<1>2. CASE Fail(p)
  BY <1>2 DEF Fail, Failed, Idle
<1> QED BY <1>1, <1>2

\* A billing call begins.
LEMMA TypeBegin == ASSUME NEW p \in Callers PROVE TypeInv /\ BeginCall(p) => TypeInv'
<1> SUFFICES ASSUME TypeInv, BeginCall(p) PROVE TypeInv'
  OBVIOUS
<1> USE DEF TypeInv, TypeOK
<1>1. ASSUME NEW a \in Attempts, BeginReserve(p, a) PROVE TypeInv'
  <2>1. ReservePreRead(a) \in {"ok", "error", "called"}
    BY DEF ReservePreRead
  <2>2. call' \in [Callers -> CallType] /\ CallsNameHolds'
    BY <1>1, <2>1 DEF BeginReserve, CallType, Failed, Idle, CallsNameHolds
  <2> QED BY <1>1, <2>2 DEF BeginReserve
<1>2. ASSUME NEW op \in ChargeOps, NEW d \in Drafts, BeginOnCharge(p, op, d)
      PROVE  TypeInv'
  <2>1. charge[d].hold \in Attempts \cup {NoHold}
    BY DEF ChargeType
  <2>2. call' \in [Callers -> CallType] /\ CallsNameHolds'
    <3>1. CASE charge[d].hold = NoHold
      BY <1>2, <3>1 DEF BeginOnCharge, CallType, CallsNameHolds, Done, Idle
    <3>2. CASE charge[d].hold # NoHold
      BY <1>2, <2>1, <3>2 DEF BeginOnCharge, CallType, CallsNameHolds
    <3> QED BY <3>1, <3>2
  <2> QED BY <1>2, <2>2 DEF BeginOnCharge
<1> QED BY <1>1, <1>2 DEF BeginCall

\* The step of a running call works on an attempt.
LEMMA RunningNamesHold ==
    ASSUME TypeInv, NEW p \in Callers, NEW op, Running(p, op)
    PROVE  call[p].attempt \in Attempts
BY DEF TypeInv, CallsNameHolds, Running, Busy

\* What a reservation holds: the price, Customer Advance first.
LEMMA SplitOfPrice ==
    ASSUME TypeInv, NEW a \in Attempts, NEW allowCredit \in BOOLEAN,
           CanReserve(a, allowCredit)
    PROVE  LET fromAdvance == Lesser(Price[a], AvailableAdvance)
               fromCredit == Price[a] - fromAdvance
           IN  /\ fromAdvance \in Nat /\ fromCredit \in Nat
               /\ account.reservedAdvance <= account.customerAdvance
                     => account.reservedAdvance + fromAdvance
                           <= account.customerAdvance
               /\ UsedCredit <= account.approvedCreditLimit
                     => UsedCredit + fromCredit <= account.approvedCreditLimit
<1>1. Price[a] \in Nat /\ account \in AccountType
  BY ConstantsAssumption DEF TypeInv, TypeOK
<1>2. Price[a] <= AvailableAdvance + AvailableCredit(allowCredit)
  BY DEF CanReserve
<1> QED
  BY <1>1, <1>2
     DEF Lesser, AvailableAdvance, AvailableCredit, AtLeastZero, UsedCredit,
         AccountType

\* The outcome of the transaction of a reservation.
LEMMA TypeReserve ==
    ASSUME NEW p \in Callers, TypeInv, reserveBookingCapacity(p)
    PROVE  TypeInv'
<1> DEFINE a == call[p].attempt
           fromAdvance == Lesser(Price[a], AvailableAdvance)
           fromCredit == Price[a] - fromAdvance
           hold == [status |-> "ACTIVE", advance |-> fromAdvance,
                    credit |-> fromCredit, lapsed |-> FALSE]
<1>1. a \in Attempts
  BY RunningNamesHold DEF reserveBookingCapacity
<1>2. call[p].allowCredit \in BOOLEAN
  BY DEF TypeInv, TypeOK, CallType
<1>3. fromAdvance \in Nat /\ fromCredit \in Nat
  BY <1>1, <1>2, SplitOfPrice DEF reserveBookingCapacity
<1>4. call' \in [Callers -> CallType] /\ CallsNameHolds'
  BY TypeOfAnswers DEF reserveBookingCapacity
<1>5. hold \in ReservationType
  <2> HIDE DEF fromAdvance, fromCredit
  <2> QED BY <1>3 DEF ReservationType, ReservationStatuses, OpenStatuses
<1>6. reservation' \in [Attempts -> ReservationType]
  <2>1. reservation' = [reservation EXCEPT ![a] = hold]
    BY DEF reserveBookingCapacity
  <2> HIDE DEF hold
  <2> QED BY <1>5, <2>1 DEF TypeInv, TypeOK
<1>7. charge' \in [Drafts -> ChargeType]
  <2>1. charge' = [charge EXCEPT ![DraftOf[a]] =
                     [status |-> "RESERVED", hold |-> a]]
    BY DEF reserveBookingCapacity
  <2>2. [status |-> "RESERVED", hold |-> a] \in ChargeType
    BY <1>1 DEF ChargeType, ChargeStatuses
  <2> QED BY <1>1, <2>1, <2>2 DEF TypeInv, TypeOK
<1>8. account' \in AccountType
  <2>1. account' = [account EXCEPT
           !.reservedAdvance = account.reservedAdvance + fromAdvance,
           !.reservedCredit = account.reservedCredit + fromCredit]
    BY DEF reserveBookingCapacity
  <2> HIDE DEF fromAdvance, fromCredit
  <2>2. /\ account.reservedAdvance + fromAdvance \in Nat
        /\ account.reservedCredit + fromCredit \in Nat
    BY <1>3, BalancesAreNat DEF TypeInv
  <2> QED BY <2>1, <2>2 DEF TypeInv, TypeOK, AccountType
<1> QED
  BY <1>4, <1>6, <1>7, <1>8 DEF reserveBookingCapacity, TypeInv, TypeOK

LEMMA TypeConvert ==
    ASSUME NEW p \in Callers, TypeInv, convertBookingReservation(p)
    PROVE  TypeInv'
<1> DEFINE a == call[p].attempt
<1>1. a \in Attempts
  BY RunningNamesHold DEF convertBookingReservation
<1>2. reservation[a].advance \in Nat /\ reservation[a].credit \in Nat
  BY <1>1 DEF TypeInv, TypeOK, ReservationType
<1>3. /\ account.customerAdvance - reservation[a].advance \in Nat
      /\ account.reservedAdvance - reservation[a].advance \in Nat
      /\ account.reservedCredit - reservation[a].credit \in Nat
      /\ account.unbilledCredit + reservation[a].credit \in Nat
  <2>1. /\ account.customerAdvance >= reservation[a].advance
        /\ account.reservedAdvance >= reservation[a].advance
        /\ account.reservedCredit >= reservation[a].credit
    BY DEF convertBookingReservation, ConversionIsCovered, HoldIsCovered
  <2> QED BY <1>2, <2>1, BalancesAreNat DEF TypeInv
<1>4. account' \in AccountType
  BY <1>3 DEF convertBookingReservation, SpendHold, TypeInv, TypeOK, AccountType
<1>5. /\ reservation' \in [Attempts -> ReservationType]
      /\ charge' \in [Drafts -> ChargeType]
      /\ ledger' \in [Attempts -> Seq(LedgerTypes)]
  BY <1>1, TypeOfParts
     DEF convertBookingReservation, Completable, ReservationStatuses,
         ChargeStatuses, LedgerTypes
<1>6. call' \in [Callers -> CallType] /\ CallsNameHolds'
  BY TypeOfAnswers DEF convertBookingReservation
<1> QED
  BY <1>4, <1>5, <1>6 DEF convertBookingReservation, TypeInv, TypeOK

\* The other steps of a running call.
LEMMA TypeCall == ASSUME NEW p \in Callers PROVE TypeInv /\ CallStep(p) => TypeInv'
<1> SUFFICES ASSUME TypeInv, CallStep(p) PROVE TypeInv'
  OBVIOUS
<1> DEFINE a == call[p].attempt
<1>1. CASE reserveBookingCapacity(p)
  BY <1>1, TypeReserve
<1>2. CASE ReserveWithoutEffect(p)
  BY <1>2, TypeOfAnswers DEF ReserveWithoutEffect, TypeInv, TypeOK
<1>3. CASE markBookingReservationConsuming(p)
  <2>1. a \in Attempts
    BY <1>3, RunningNamesHold DEF markBookingReservationConsuming
  <2>2. reservation' \in [Attempts -> ReservationType]
    BY <1>3, <2>1, TypeOfParts
       DEF markBookingReservationConsuming, ReservationStatuses, OpenStatuses,
           TypeInv, TypeOK
  <2>3. call' \in [Callers -> CallType] /\ CallsNameHolds'
    BY <1>3 DEF markBookingReservationConsuming, Done, Idle, CallType,
                CallsNameHolds, TypeInv, TypeOK
  <2> QED
    BY <1>3, <2>2, <2>3 DEF markBookingReservationConsuming, TypeInv, TypeOK
<1>4. CASE convertBookingReservation(p)
  BY <1>4, TypeConvert
<1>5. CASE releaseBookingReservation(p)
  <2>1. a \in Attempts
    BY <1>5, RunningNamesHold DEF releaseBookingReservation
  <2>2. /\ reservation' \in [Attempts -> ReservationType]
        /\ charge' \in [Drafts -> ChargeType]
        /\ ledger' \in [Attempts -> Seq(LedgerTypes)]
        /\ account' \in AccountType
    BY <1>5, <2>1, TypeOfParts
       DEF releaseBookingReservation, ReservationStatuses, ChargeStatuses,
           LedgerTypes
  <2>3. call' \in [Callers -> CallType] /\ CallsNameHolds'
    BY <1>5, TypeOfAnswers DEF releaseBookingReservation
  <2> QED
    BY <1>5, <2>2, <2>3 DEF releaseBookingReservation, TypeInv, TypeOK
<1>6. CASE markBookingReservationReviewRequired(p)
  <2>1. a \in Attempts
    BY <1>6, RunningNamesHold DEF markBookingReservationReviewRequired
  <2>2. /\ reservation' \in [Attempts -> ReservationType]
        /\ charge' \in [Drafts -> ChargeType]
        /\ ledger' \in [Attempts -> Seq(LedgerTypes)]
    BY <1>6, <2>1, TypeOfParts
       DEF markBookingReservationReviewRequired, ReservationStatuses,
           OpenStatuses, ChargeStatuses, LedgerTypes
  <2>3. call' \in [Callers -> CallType] /\ CallsNameHolds'
    BY <1>6, TypeOfAnswers DEF markBookingReservationReviewRequired
  <2> QED
    BY <1>6, <2>2, <2>3
       DEF markBookingReservationReviewRequired, TypeInv, TypeOK
<1>7. CASE TransitionIsMoot(p)
  BY <1>7, TypeOfAnswers DEF TransitionIsMoot, TypeInv, TypeOK
<1>8. CASE CallFails(p)
  BY <1>8, TypeOfAnswers DEF CallFails, TypeInv, TypeOK
<1> QED
  BY <1>1, <1>2, <1>3, <1>4, <1>5, <1>6, <1>7, <1>8 DEF CallStep

LEMMA TypeSweep == ASSUME NEW a \in Attempts PROVE TypeInv /\ SweepStep(a) => TypeInv'
<1> SUFFICES ASSUME TypeInv, SweepStep(a) PROVE TypeInv'
  OBVIOUS
<1>1. CASE TtlLapses(a)
  <2> DEFINE r == [reservation[a] EXCEPT !.lapsed = TRUE]
  <2>1. r \in ReservationType
    BY DEF TypeInv, TypeOK, ReservationType
  <2>2. reservation' = [reservation EXCEPT ![a] = r]
    BY <1>1 DEF TtlLapses
  <2> HIDE DEF r
  <2> QED BY <1>1, <2>1, <2>2 DEF TtlLapses, TypeInv, TypeOK, CallsNameHolds
<1>2. CASE expireStaleReservation(a)
  <2>1. /\ reservation' \in [Attempts -> ReservationType]
        /\ charge' \in [Drafts -> ChargeType]
        /\ ledger' \in [Attempts -> Seq(LedgerTypes)]
        /\ account' \in AccountType
    BY <1>2, TypeOfParts
       DEF expireStaleReservation, ReservationStatuses, ChargeStatuses,
           LedgerTypes
  <2> QED
    BY <1>2, <2>1 DEF expireStaleReservation, TypeInv, TypeOK, CallsNameHolds
<1> QED BY <1>1, <1>2 DEF SweepStep

LEMMA TypeNext == TypeInv /\ [Next]_vars => TypeInv'
<1> SUFFICES ASSUME TypeInv, [Next]_vars PROVE TypeInv'
  OBVIOUS
<1>1. CASE UNCHANGED vars
  BY <1>1 DEF vars, TypeInv, TypeOK, CallsNameHolds
<1>2. CASE Next
  BY <1>2, TypeFacility, TypeBalance, TypeBegin, TypeCall, TypeSweep DEF Next
<1> QED BY <1>1, <1>2

\* Every reachable state is well typed; in particular no balance of the account
\* is ever negative, although every one of them but the limit is decremented.
THEOREM TypeCorrect == Spec => []TypeOK
<1>1. TypeInv => TypeOK
  BY DEF TypeInv
<1> QED BY <1>1, TypeInit, TypeNext, PTL DEF Spec
-----------------------------------------------------------------------------
(***************************************************************************)
(* The running totals.  A step leaves the open holds as they are, adds one *)
(* or removes one; the lemmas say what the totals must do in each case.    *)
(***************************************************************************)
LEMMA HoldsAreFinite ==
    ASSUME TypeInv
    PROVE  /\ IsFiniteSet(OpenHolds)
           /\ \A a \in Attempts : advanceOf[a] \in Nat /\ creditOf[a] \in Nat
<1>1. IsFiniteSet(Attempts) /\ OpenHolds \in SUBSET Attempts
  BY ConstantsAssumption DEF OpenHolds
<1>2. IsFiniteSet(OpenHolds)
  <2> HIDE DEF OpenHolds
  <2> QED BY <1>1, FS_Subset
<1>3. \A a \in Attempts : advanceOf[a] \in Nat /\ creditOf[a] \in Nat
  BY DEF advanceOf, creditOf, TypeInv, TypeOK, ReservationType
<1> QED BY <1>2, <1>3

LEMMA HoldsStay ==
    ASSUME HoldsBacked, OpenHolds' = OpenHolds,
           \A a \in OpenHolds : /\ reservation'[a].advance = reservation[a].advance
                                /\ reservation'[a].credit = reservation[a].credit,
           account'.reservedAdvance = account.reservedAdvance,
           account'.reservedCredit = account.reservedCredit
    PROVE  HoldsBacked'
<1> DEFINE H == OpenHolds
<1>1. \A a \in H : advanceOf'[a] = advanceOf[a] /\ creditOf'[a] = creditOf[a]
  BY DEF OpenHolds, advanceOf, creditOf
<1>2. /\ Total(H, advanceOf') = Total(H, advanceOf)
      /\ Total(H, creditOf') = Total(H, creditOf)
  <2> HIDE DEF H
  <2> QED BY <1>1, TotalSame
<1> QED BY <1>2 DEF HoldsBacked

LEMMA HoldEnters ==
    ASSUME TypeInv, TypeInv', HoldsBacked, NEW a \in Attempts, a \notin OpenHolds,
           OpenHolds' = OpenHolds \cup {a},
           \A b \in OpenHolds : reservation'[b] = reservation[b],
           account'.reservedAdvance
              = account.reservedAdvance + reservation'[a].advance,
           account'.reservedCredit
              = account.reservedCredit + reservation'[a].credit
    PROVE  HoldsBacked'
<1> DEFINE H == OpenHolds
           adv == advanceOf'
           cred == creditOf'
<1>1. IsFiniteSet(H) /\ a \notin H
  BY HoldsAreFinite
<1>2. \A b \in Attempts : adv[b] \in Nat /\ cred[b] \in Nat
  BY DEF advanceOf, creditOf, TypeInv, TypeOK, ReservationType
<1>3. \A b \in H : adv[b] = advanceOf[b] /\ cred[b] = creditOf[b]
  BY DEF OpenHolds, advanceOf, creditOf
<1>4. adv[a] = reservation'[a].advance /\ cred[a] = reservation'[a].credit
  BY DEF advanceOf, creditOf
<1>5. H \subseteq Attempts
  BY DEF OpenHolds
<1>6. /\ Total(H \cup {a}, adv) = Total(H, adv) + adv[a]
      /\ Total(H \cup {a}, cred) = Total(H, cred) + cred[a]
  <2> HIDE DEF H, adv, cred
  <2> QED BY <1>1, <1>2, <1>5, TotalAdd
<1>7. /\ Total(H, adv) = Total(H, advanceOf)
      /\ Total(H, cred) = Total(H, creditOf)
  <2> HIDE DEF H, adv, cred
  <2> QED BY <1>3, TotalSame
<1> QED BY <1>4, <1>6, <1>7 DEF HoldsBacked

LEMMA HoldLeaves ==
    ASSUME TypeInv, TypeInv', HoldsBacked, NEW a \in OpenHolds,
           OpenHolds' = OpenHolds \ {a},
           \A b \in OpenHolds \ {a} : reservation'[b] = reservation[b],
           account'.reservedAdvance
              = account.reservedAdvance - reservation[a].advance,
           account'.reservedCredit
              = account.reservedCredit - reservation[a].credit
    PROVE  HoldsBacked'
<1> DEFINE H == OpenHolds
           R == OpenHolds \ {a}
<1>1. IsFiniteSet(H) /\ a \in H /\ H \subseteq Attempts
  BY HoldsAreFinite DEF OpenHolds
<1>2. \A b \in H : advanceOf[b] \in Nat /\ creditOf[b] \in Nat
  BY <1>1, HoldsAreFinite
<1>3. /\ Total(R, advanceOf) = Total(H, advanceOf) - advanceOf[a]
      /\ Total(R, creditOf) = Total(H, creditOf) - creditOf[a]
  <2> HIDE DEF OpenHolds
  <2> QED BY <1>1, <1>2, TotalRemove
<1>4. \A b \in R : advanceOf'[b] = advanceOf[b] /\ creditOf'[b] = creditOf[b]
  BY DEF OpenHolds, advanceOf, creditOf
<1>5. /\ Total(R, advanceOf') = Total(R, advanceOf)
      /\ Total(R, creditOf') = Total(R, creditOf)
  <2> HIDE DEF R
  <2> QED BY <1>4, TotalSame
<1>6. /\ advanceOf[a] = reservation[a].advance
      /\ creditOf[a] = reservation[a].credit
  BY <1>1 DEF advanceOf, creditOf
<1> QED BY <1>3, <1>5, <1>6 DEF HoldsBacked

\* A step that touches neither a hold nor a reserved total.
LEMMA BackedIfUntouched ==
    ASSUME HoldsBacked, UNCHANGED reservation,
           account'.reservedAdvance = account.reservedAdvance,
           account'.reservedCredit = account.reservedCredit
    PROVE  HoldsBacked'
BY DEF HoldsBacked, OpenHolds, advanceOf, creditOf

\* Giving a hold back: an explicit release, and the sweep.
LEMMA BackedByGiveBack ==
    ASSUME TypeInv, TypeInv', HoldsBacked, NEW a \in Attempts,
           NEW status \in {"RELEASED", "EXPIRED"},
           reservation[a].status \in OpenStatuses,
           GiveBack(a), SetReservation(a, status)
    PROVE  HoldsBacked'
<1>1. a \in OpenHolds
  BY DEF OpenHolds
<1>2. OpenHolds' = OpenHolds \ {a}
  BY DEF OpenHolds, SetReservation, OpenStatuses, TypeInv, TypeOK,
         ReservationType
<1>3. \A b \in OpenHolds \ {a} : reservation'[b] = reservation[b]
  BY DEF OpenHolds, SetReservation, TypeInv, TypeOK
<1>4. /\ account'.reservedAdvance
            = account.reservedAdvance - reservation[a].advance
      /\ account'.reservedCredit
            = account.reservedCredit - reservation[a].credit
  BY DEF GiveBack, TypeInv, TypeOK, AccountType
<1> QED BY <1>1, <1>2, <1>3, <1>4, HoldLeaves

LEMMA BackedByReserve ==
    ASSUME TypeInv, TypeInv', HoldsBacked, NEW p \in Callers,
           reserveBookingCapacity(p)
    PROVE  HoldsBacked'
<1> DEFINE a == call[p].attempt
           fromAdvance == Lesser(Price[a], AvailableAdvance)
           fromCredit == Price[a] - fromAdvance
           hold == [status |-> "ACTIVE", advance |-> fromAdvance,
                    credit |-> fromCredit, lapsed |-> FALSE]
<1>1. a \in Attempts /\ reservation[a].status = "NONE"
  BY RunningNamesHold DEF reserveBookingCapacity
<1>2. reservation' = [reservation EXCEPT ![a] = hold]
  BY DEF reserveBookingCapacity
<1>3. a \notin OpenHolds
  BY <1>1 DEF OpenHolds, OpenStatuses
<1>4. reservation'[a] = hold
  BY <1>1, <1>2 DEF TypeInv, TypeOK
<1>5. OpenHolds' = OpenHolds \cup {a}
  <2>1. hold.status \in OpenStatuses
    BY DEF OpenStatuses
  <2> HIDE DEF hold
  <2> QED BY <1>1, <1>2, <1>4, <2>1 DEF OpenHolds, TypeInv, TypeOK
<1>6. \A b \in OpenHolds : reservation'[b] = reservation[b]
  <2> HIDE DEF hold
  <2> QED BY <1>2, <1>3 DEF OpenHolds, TypeInv, TypeOK
<1>7. account' = [account EXCEPT
         !.reservedAdvance = account.reservedAdvance + fromAdvance,
         !.reservedCredit = account.reservedCredit + fromCredit]
  BY DEF reserveBookingCapacity
<1>8. /\ account'.reservedAdvance
            = account.reservedAdvance + reservation'[a].advance
      /\ account'.reservedCredit
            = account.reservedCredit + reservation'[a].credit
  <2>1. reservation'[a].advance = fromAdvance /\ reservation'[a].credit = fromCredit
    BY <1>4
  <2> HIDE DEF fromAdvance, fromCredit
  <2> QED BY <1>7, <2>1 DEF TypeInv, TypeOK, AccountType
<1> QED
  <2> HIDE DEF a
  <2> QED BY <1>1, <1>3, <1>5, <1>6, <1>8, HoldEnters

LEMMA BackedByConvert ==
    ASSUME TypeInv, TypeInv', HoldsBacked, NEW p \in Callers,
           convertBookingReservation(p)
    PROVE  HoldsBacked'
<1> DEFINE a == call[p].attempt
<1>1. a \in Attempts /\ a \in OpenHolds /\ SetReservation(a, "CONVERTED")
  BY RunningNamesHold DEF convertBookingReservation, OpenHolds
<1>2. OpenHolds' = OpenHolds \ {a}
  BY <1>1 DEF OpenHolds, SetReservation, OpenStatuses, TypeInv, TypeOK,
              ReservationType
<1>3. \A b \in OpenHolds \ {a} : reservation'[b] = reservation[b]
  BY <1>1 DEF OpenHolds, SetReservation, TypeInv, TypeOK
<1>4. /\ account'.reservedAdvance
            = account.reservedAdvance - reservation[a].advance
      /\ account'.reservedCredit
            = account.reservedCredit - reservation[a].credit
  BY DEF convertBookingReservation, SpendHold, TypeInv, TypeOK, AccountType
<1> QED
  <2> HIDE DEF a
  <2> QED BY <1>1, <1>2, <1>3, <1>4, HoldLeaves

\* A hold that only changes its status, or its age, keeps its portions.
LEMMA BackedByMarking ==
    ASSUME TypeInv, HoldsBacked, NEW a \in OpenHolds, UNCHANGED account,
           \/ \E status \in OpenStatuses : SetReservation(a, status)
           \/ reservation' = [reservation EXCEPT ![a].lapsed = TRUE]
    PROVE  HoldsBacked'
<1>1. a \in Attempts /\ reservation[a].status \in OpenStatuses
  BY DEF OpenHolds
<1>2. OpenHolds' = OpenHolds
  BY <1>1 DEF OpenHolds, SetReservation, TypeInv, TypeOK, ReservationType
<1>3. \A b \in OpenHolds : /\ reservation'[b].advance = reservation[b].advance
                           /\ reservation'[b].credit = reservation[b].credit
  <2> SUFFICES ASSUME NEW b \in Attempts
               PROVE  /\ reservation'[b].advance = reservation[b].advance
                      /\ reservation'[b].credit = reservation[b].credit
    BY DEF OpenHolds
  <2>1. reservation[b] \in ReservationType
    BY DEF TypeInv, TypeOK
  <2>2. ASSUME NEW status \in OpenStatuses, SetReservation(a, status)
        PROVE  /\ reservation'[b].advance = reservation[b].advance
               /\ reservation'[b].credit = reservation[b].credit
    BY <2>1, <2>2 DEF SetReservation, TypeInv, TypeOK, ReservationType
  <2>3. CASE reservation' = [reservation EXCEPT ![a].lapsed = TRUE]
    BY <2>1, <2>3 DEF TypeInv, TypeOK, ReservationType
  <2> QED BY <2>2, <2>3
<1> QED BY <1>2, <1>3, HoldsStay
-----------------------------------------------------------------------------
LEMMA BackedNext ==
    TypeInv /\ HoldsBacked /\ [Next]_vars => HoldsBacked'
<1> SUFFICES ASSUME TypeInv, HoldsBacked, [Next]_vars PROVE HoldsBacked'
  OBVIOUS
<1> USE DEF TypeInv, TypeOK
<1>1. TypeInv'
  BY TypeNext
<1>2. CASE UNCHANGED vars
  BY <1>2, BackedIfUntouched DEF vars
<1>3. CASE FacilityStep
  <2>1. /\ UNCHANGED reservation
        /\ account'.reservedAdvance = account.reservedAdvance
        /\ account'.reservedCredit = account.reservedCredit
    BY <1>3
       DEF FacilityStep, SetStatus, requestClientCredit,
           approveAdminCreditAccount, activateAdminCreditAccount,
           suspendAdminCreditAccount, reactivateAdminCreditAccount,
           closeAdminCreditAccount, rejectAdminCreditAccount,
           expireLapsedCreditAccounts, ValidityPasses, DayPasses, AccountType
  <2> QED BY <2>1, BackedIfUntouched
<1>4. CASE BalanceStep
  <2>1. /\ UNCHANGED reservation
        /\ account'.reservedAdvance = account.reservedAdvance
        /\ account'.reservedCredit = account.reservedCredit
    BY <1>4
       DEF BalanceStep, creditCapturedTopUp, closeCreditBillingCycle,
           applyVerifiedCreditPayment, writeOffCreditStatement, AccountType
  <2> QED BY <2>1, BackedIfUntouched
<1>5. ASSUME NEW p \in Callers, BeginCall(p) PROVE HoldsBacked'
  BY <1>5, BackedIfUntouched DEF BeginCall, BeginReserve, BeginOnCharge
<1>6. ASSUME NEW p \in Callers, CallStep(p) PROVE HoldsBacked'
  <2> DEFINE a == call[p].attempt
  <2>1. CASE reserveBookingCapacity(p)
    BY <1>1, <2>1, BackedByReserve
  <2>2. CASE ReserveWithoutEffect(p)
    BY <2>2, BackedIfUntouched DEF ReserveWithoutEffect
  <2>3. CASE markBookingReservationConsuming(p)
    <3>1. a \in Attempts
      BY <2>3, RunningNamesHold DEF markBookingReservationConsuming
    <3>2. CASE reservation[a].status # "ACTIVE"
      BY <2>3, <3>2, BackedIfUntouched DEF markBookingReservationConsuming
    <3>3. CASE reservation[a].status = "ACTIVE"
      <4>1. a \in OpenHolds /\ SetReservation(a, "CONSUMING") /\ UNCHANGED account
        BY <2>3, <3>1, <3>3
           DEF markBookingReservationConsuming, OpenHolds, OpenStatuses
      <4> QED BY <4>1, BackedByMarking DEF OpenStatuses
    <3> QED BY <3>2, <3>3
  <2>4. CASE convertBookingReservation(p)
    BY <1>1, <2>4, BackedByConvert
  <2>5. CASE releaseBookingReservation(p)
    BY <1>1, <2>5, RunningNamesHold, BackedByGiveBack
       DEF releaseBookingReservation
  <2>6. CASE markBookingReservationReviewRequired(p)
    <3>1. a \in OpenHolds /\ SetReservation(a, "REVIEW_REQUIRED")
          /\ UNCHANGED account
      BY <2>6, RunningNamesHold
         DEF markBookingReservationReviewRequired, OpenHolds, OpenStatuses
    <3> QED BY <3>1, BackedByMarking DEF OpenStatuses
  <2>7. CASE TransitionIsMoot(p)
    BY <2>7, BackedIfUntouched DEF TransitionIsMoot
  <2>8. CASE CallFails(p)
    BY <2>8, BackedIfUntouched DEF CallFails
  <2> QED
    BY <1>6, <2>1, <2>2, <2>3, <2>4, <2>5, <2>6, <2>7, <2>8 DEF CallStep
<1>7. ASSUME NEW a \in Attempts, SweepStep(a) PROVE HoldsBacked'
  <2>1. CASE TtlLapses(a)
    BY <2>1, BackedByMarking DEF TtlLapses, OpenHolds, OpenStatuses
  <2>2. CASE expireStaleReservation(a)
    BY <1>1, <2>2, BackedByGiveBack DEF expireStaleReservation, IsStale, OpenStatuses
  <2> QED BY <1>7, <2>1, <2>2 DEF SweepStep
<1> QED BY <1>2, <1>3, <1>4, <1>5, <1>6, <1>7 DEF Next

\* The totals of the account equal the sums over its open reservations, for any
\* number of drafts, attempts and concurrent callers.
THEOREM TotalsNeverDrift == Spec => []HoldsBacked
<1>1. Init => HoldsBacked
  <2> SUFFICES ASSUME Init PROVE HoldsBacked
    OBVIOUS
  <2>1. OpenHolds = {}
    BY DEF Init, OpenHolds, OpenStatuses, NoReservation
  <2> QED BY <2>1, TotalEmpty DEF Init, HoldsBacked
<1>2. Init => TypeInv /\ HoldsBacked
  BY <1>1, TypeInit
<1>3. TypeInv /\ HoldsBacked /\ [Next]_vars => (TypeInv /\ HoldsBacked)'
  BY TypeNext, BackedNext
<1> QED BY <1>2, <1>3, PTL DEF Spec
-----------------------------------------------------------------------------
(***************************************************************************)
(* Capacity: no step promises the same money twice.                        *)
(***************************************************************************)
Capacity == AdvanceCovered /\ CreditWithinLimit

\* Steps that leave the account, or all that Capacity reads of it, alone.
LEMMA CapacityIfUntouched ==
    ASSUME Capacity,
           account'.customerAdvance >= account.customerAdvance,
           account'.reservedAdvance = account.reservedAdvance,
           UsedCredit' <= UsedCredit,
           account'.approvedCreditLimit = account.approvedCreditLimit,
           TypeOK, TypeOK'
    PROVE  Capacity'
<1>1. UsedCredit \in Nat /\ UsedCredit' \in Nat
  BY BalancesAreNat, BalancesStayNat DEF UsedCredit
<1> QED
  BY <1>1, BalancesAreNat, BalancesStayNat
     DEF Capacity, AdvanceCovered, CreditWithinLimit

LEMMA CapacityIfSame ==
    ASSUME Capacity, UNCHANGED account
    PROVE  Capacity'
BY DEF Capacity, AdvanceCovered, CreditWithinLimit, UsedCredit

LEMMA CapacityGivenBack ==
    ASSUME TypeInv, TypeInv', Capacity, NEW a \in Attempts, GiveBack(a)
    PROVE  Capacity'
<1> DEFINE x == reservation[a].advance
           y == reservation[a].credit
<1>1. x \in Nat /\ y \in Nat
  BY DEF TypeInv, TypeOK, ReservationType
<1>2. account' = [account EXCEPT !.reservedAdvance = account.reservedAdvance - x,
                                 !.reservedCredit = account.reservedCredit - y]
  BY DEF GiveBack
<1>3. /\ account'.customerAdvance = account.customerAdvance
      /\ account'.reservedAdvance = account.reservedAdvance - x
      /\ account'.reservedCredit = account.reservedCredit - y
      /\ account'.unbilledCredit = account.unbilledCredit
      /\ account'.invoicedOutstanding = account.invoicedOutstanding
      /\ account'.approvedCreditLimit = account.approvedCreditLimit
  <2> HIDE DEF x, y
  <2> QED BY <1>2 DEF TypeInv, TypeOK, AccountType
<1> QED
  <2> HIDE DEF x, y
  <2> QED
    BY <1>1, <1>3, BalancesAreNat
       DEF Capacity, AdvanceCovered, CreditWithinLimit, UsedCredit, TypeInv

LEMMA CapacityReserved ==
    ASSUME TypeInv, Capacity, NEW p \in Callers, reserveBookingCapacity(p)
    PROVE  Capacity'
<1> DEFINE a == call[p].attempt
           x == Lesser(Price[a], AvailableAdvance)
           y == Price[a] - x
<1>1. a \in Attempts /\ call[p].allowCredit \in BOOLEAN
  BY RunningNamesHold DEF reserveBookingCapacity, TypeInv, TypeOK, CallType
<1>2. /\ x \in Nat /\ y \in Nat
      /\ account.reservedAdvance + x <= account.customerAdvance
      /\ UsedCredit + y <= account.approvedCreditLimit
  BY <1>1, SplitOfPrice
     DEF reserveBookingCapacity, Capacity, AdvanceCovered, CreditWithinLimit
<1>3. account' = [account EXCEPT !.reservedAdvance = account.reservedAdvance + x,
                                 !.reservedCredit = account.reservedCredit + y]
  BY DEF reserveBookingCapacity
<1>4. /\ account'.customerAdvance = account.customerAdvance
      /\ account'.reservedAdvance = account.reservedAdvance + x
      /\ account'.reservedCredit = account.reservedCredit + y
      /\ account'.unbilledCredit = account.unbilledCredit
      /\ account'.invoicedOutstanding = account.invoicedOutstanding
      /\ account'.approvedCreditLimit = account.approvedCreditLimit
  <2> HIDE DEF x, y
  <2> QED BY <1>3 DEF TypeInv, TypeOK, AccountType
<1> QED
  <2> HIDE DEF x, y
  <2> QED
    BY <1>2, <1>4, BalancesAreNat
       DEF Capacity, AdvanceCovered, CreditWithinLimit, UsedCredit, TypeInv

\* A conversion moves the advance portion out of both totals, and the credit
\* portion from reserved to unbilled.
LEMMA CapacityConverted ==
    ASSUME TypeInv, Capacity, NEW p \in Callers, convertBookingReservation(p)
    PROVE  Capacity'
<1> DEFINE a == call[p].attempt
           x == reservation[a].advance
           y == reservation[a].credit
<1>1. a \in Attempts
  BY RunningNamesHold DEF convertBookingReservation
<1>2. x \in Nat /\ y \in Nat
  BY <1>1 DEF TypeInv, TypeOK, ReservationType
<1>3. /\ account'.customerAdvance = account.customerAdvance - x
      /\ account'.reservedAdvance = account.reservedAdvance - x
      /\ account'.reservedCredit = account.reservedCredit - y
      /\ account'.unbilledCredit = account.unbilledCredit + y
      /\ account'.invoicedOutstanding = account.invoicedOutstanding
      /\ account'.approvedCreditLimit = account.approvedCreditLimit
  BY DEF convertBookingReservation, SpendHold, TypeInv, TypeOK, AccountType
<1> QED
  <2> HIDE DEF x, y
  <2> QED
    BY <1>2, <1>3, BalancesAreNat
       DEF Capacity, AdvanceCovered, CreditWithinLimit, UsedCredit, TypeInv

LEMMA CapacityFacility ==
    ASSUME TypeInv, Capacity, FacilityStep
    PROVE  Capacity'
<1> USE DEF TypeInv, TypeOK
<1>1. ASSUME NEW from, NEW to, SetStatus(from, to) PROVE Capacity'
  BY <1>1 DEF SetStatus, AccountType, Capacity, AdvanceCovered,
              CreditWithinLimit, UsedCredit
<1>2. ASSUME NEW limit \in Limits, NEW operatorApproval \in BOOLEAN,
             approveAdminCreditAccount(limit, operatorApproval)
      PROVE  Capacity'
  BY <1>2 DEF approveAdminCreditAccount, AccountType, Capacity, AdvanceCovered,
              CreditWithinLimit, UsedCredit
<1>3. CASE ValidityPasses \/ DayPasses
  BY <1>3, CapacityIfSame DEF ValidityPasses, DayPasses
<1> QED
  BY <1>1, <1>2, <1>3
     DEF FacilityStep, requestClientCredit, activateAdminCreditAccount,
         suspendAdminCreditAccount, reactivateAdminCreditAccount,
         closeAdminCreditAccount, rejectAdminCreditAccount,
         expireLapsedCreditAccounts

LEMMA CapacityBalance ==
    ASSUME TypeInv, TypeInv', Capacity, BalanceStep
    PROVE  Capacity'
<1> DEFINE noLess == /\ account'.customerAdvance >= account.customerAdvance
                     /\ account'.reservedAdvance = account.reservedAdvance
                     /\ account'.approvedCreditLimit = account.approvedCreditLimit
                     /\ UsedCredit' <= UsedCredit
<1> USE BalancesAreNat, ConstantsAssumption DEF TypeInv
<1>1. ASSUME NEW n \in Amounts, creditCapturedTopUp(n) PROVE noLess
  <2>1. /\ account'.customerAdvance = account.customerAdvance + n
        /\ account'.reservedAdvance = account.reservedAdvance
        /\ account'.approvedCreditLimit = account.approvedCreditLimit
        /\ account'.reservedCredit = account.reservedCredit
        /\ account'.unbilledCredit = account.unbilledCredit
        /\ account'.invoicedOutstanding = account.invoicedOutstanding
    BY <1>1 DEF creditCapturedTopUp, TypeOK, AccountType
  <2> QED BY <2>1 DEF UsedCredit
<1>2. ASSUME NEW n \in 1 .. account.unbilledCredit, closeCreditBillingCycle(n)
      PROVE  noLess
  <2>1. /\ account'.customerAdvance = account.customerAdvance
        /\ account'.reservedAdvance = account.reservedAdvance
        /\ account'.approvedCreditLimit = account.approvedCreditLimit
        /\ account'.reservedCredit = account.reservedCredit
        /\ account'.unbilledCredit = account.unbilledCredit - n
        /\ account'.invoicedOutstanding = account.invoicedOutstanding + n
    BY <1>2 DEF closeCreditBillingCycle, TypeOK, AccountType
  <2> QED BY <2>1 DEF UsedCredit
<1>3. ASSUME NEW n \in Amounts, applyVerifiedCreditPayment(n) PROVE noLess
  <2> DEFINE applied == AppliedToStatements(n)
  <2>1. applied \in Nat /\ n - applied \in Nat
    BY DEF AppliedToStatements, Lesser
  <2>2. /\ account'.customerAdvance = account.customerAdvance + (n - applied)
        /\ account'.reservedAdvance = account.reservedAdvance
        /\ account'.approvedCreditLimit = account.approvedCreditLimit
        /\ account'.reservedCredit = account.reservedCredit
        /\ account'.unbilledCredit = account.unbilledCredit
        /\ account'.invoicedOutstanding = account.invoicedOutstanding - applied
    <3> HIDE DEF applied
    <3> QED
      BY <1>3 DEF applied, applyVerifiedCreditPayment, TypeOK, AccountType
  <2> HIDE DEF applied
  <2> QED BY <2>1, <2>2 DEF UsedCredit
<1>4. ASSUME NEW n \in 1 .. account.invoicedOutstanding, writeOffCreditStatement(n)
      PROVE  noLess
  <2>1. /\ account'.customerAdvance = account.customerAdvance
        /\ account'.reservedAdvance = account.reservedAdvance
        /\ account'.approvedCreditLimit = account.approvedCreditLimit
        /\ account'.reservedCredit = account.reservedCredit
        /\ account'.unbilledCredit = account.unbilledCredit
        /\ account'.invoicedOutstanding = account.invoicedOutstanding - n
    BY <1>4 DEF writeOffCreditStatement, TypeOK, AccountType
  <2> QED BY <2>1 DEF UsedCredit
<1>5. noLess
  BY <1>1, <1>2, <1>3, <1>4 DEF BalanceStep
<1> QED BY <1>5, CapacityIfUntouched

LEMMA CapacityNext ==
    TypeInv /\ Capacity /\ [Next]_vars => Capacity'
<1> SUFFICES ASSUME TypeInv, Capacity, [Next]_vars PROVE Capacity'
  OBVIOUS
<1>1. TypeInv'
  BY TypeNext
<1>2. CASE UNCHANGED vars
  BY <1>2, CapacityIfSame DEF vars
<1>3. CASE FacilityStep
  BY <1>3, CapacityFacility
<1>4. CASE BalanceStep
  BY <1>1, <1>4, CapacityBalance
<1>5. ASSUME NEW p \in Callers, BeginCall(p) PROVE Capacity'
  BY <1>5, CapacityIfSame DEF BeginCall, BeginReserve, BeginOnCharge
<1>6. ASSUME NEW p \in Callers, CallStep(p) PROVE Capacity'
  <2>1. CASE reserveBookingCapacity(p)
    BY <2>1, CapacityReserved
  <2>2. CASE convertBookingReservation(p)
    BY <2>2, CapacityConverted
  <2>3. CASE releaseBookingReservation(p)
    BY <1>1, <2>3, RunningNamesHold, CapacityGivenBack
       DEF releaseBookingReservation
  <2>4. CASE \/ ReserveWithoutEffect(p) \/ markBookingReservationConsuming(p)
             \/ markBookingReservationReviewRequired(p)
             \/ TransitionIsMoot(p) \/ CallFails(p)
    BY <2>4, CapacityIfSame
       DEF ReserveWithoutEffect, markBookingReservationConsuming,
           markBookingReservationReviewRequired, TransitionIsMoot, CallFails
  <2> QED BY <1>6, <2>1, <2>2, <2>3, <2>4 DEF CallStep
<1>7. ASSUME NEW a \in Attempts, SweepStep(a) PROVE Capacity'
  <2>1. CASE TtlLapses(a)
    BY <2>1, CapacityIfSame DEF TtlLapses
  <2>2. CASE expireStaleReservation(a)
    BY <1>1, <2>2, CapacityGivenBack DEF expireStaleReservation
  <2> QED BY <1>7, <2>1, <2>2 DEF SweepStep
<1> QED BY <1>2, <1>3, <1>4, <1>5, <1>6, <1>7 DEF Next

\* Customer Advance is never held beyond what there is, and committed credit
\* never exceeds the limit, for any number of concurrent bookings.
LEMMA CapacityHolds == Spec => [](TypeInv /\ Capacity)
<1>1. Init => Capacity
  BY DEF Init, Capacity, AdvanceCovered, CreditWithinLimit, UsedCredit
<1>2. Init => TypeInv /\ Capacity
  BY <1>1, TypeInit
<1>3. TypeInv /\ Capacity /\ [Next]_vars => (TypeInv /\ Capacity)'
  BY TypeNext, CapacityNext
<1> QED BY <1>2, <1>3, PTL DEF Spec

\* The credit an account has committed stays within its approved limit.
THEOREM LimitRespected == Spec => []CreditWithinLimit
<1>1. TypeInv /\ Capacity => CreditWithinLimit
  BY DEF Capacity
<1> QED BY <1>1, CapacityHolds, PTL

\* Concurrent bookings never hold more Customer Advance than was paid in and is
\* still there.
THEOREM AdvanceNeverOverheld == Spec => []AdvanceCovered
<1>1. TypeInv /\ Capacity => AdvanceCovered
  BY DEF Capacity
<1> QED BY <1>1, CapacityHolds, PTL

\* The guards on the totals never refuse the transition of an open hold: its
\* portions are among those that the totals sum up, and Customer Advance covers
\* the total.
THEOREM OpenHoldsConvertible == Spec => []HoldsConvertible
<1>1. ASSUME TypeInv, HoldsBacked, Capacity PROVE HoldsConvertible
  <2> SUFFICES ASSUME NEW a \in OpenHolds PROVE ConversionIsCovered(a)
    BY DEF HoldsConvertible
  <2> DEFINE H == OpenHolds
  <2>1. IsFiniteSet(H) /\ a \in H /\ H \subseteq Attempts
    BY <1>1, HoldsAreFinite DEF OpenHolds
  <2>2. \A b \in H : advanceOf[b] \in Nat /\ creditOf[b] \in Nat
    BY <1>1, <2>1, HoldsAreFinite
  <2>3. /\ advanceOf[a] <= Total(H, advanceOf)
        /\ creditOf[a] <= Total(H, creditOf)
    <3> HIDE DEF H
    <3> QED BY <2>1, <2>2, TotalRemove
  <2>4. /\ reservation[a].advance <= account.reservedAdvance
        /\ reservation[a].credit <= account.reservedCredit
    BY <1>1, <2>1, <2>3 DEF HoldsBacked, advanceOf, creditOf
  <2>5. /\ account.reservedAdvance <= account.customerAdvance
        /\ reservation[a].advance \in Nat
    BY <1>1, <2>1, <2>2 DEF Capacity, AdvanceCovered, advanceOf
  <2> QED
    BY <1>1, <2>4, <2>5, <2>2, BalancesAreNat
       DEF ConversionIsCovered, HoldIsCovered, TypeInv, TypeOK, ReservationType
<1> QED BY <1>1, TotalsNeverDrift, CapacityHolds, PTL
-----------------------------------------------------------------------------
(***************************************************************************)
(* What a step does to holds, charges and the ledger.                      *)
(***************************************************************************)
Portions(a) == <<reservation[a].status, reservation[a].advance, reservation[a].credit>>
HoldsKept == UNCHANGED <<charge, ledger>> /\ \A a \in Attempts : UNCHANGED Portions(a)

Taken(p) == reserveBookingCapacity(p)
Consumed(a) ==
    /\ reservation[a].status = "ACTIVE" /\ SetReservation(a, "CONSUMING")
    /\ UNCHANGED <<account, charge, ledger, received, settled>>
Converted(a) ==
    /\ reservation[a].status \in OpenStatuses /\ ConversionIsCovered(a)
    /\ SpendHold(a) /\ SetReservation(a, "CONVERTED")
    /\ Append1(a, "BOOKING_CONVERTED") /\ SetCharge(a, Completable, "COMPLETED")
    /\ UNCHANGED moneyVars
Dropped(a) ==
    /\ HoldIsCovered(a) /\ GiveBack(a) /\ AppendIfAnnounced(a, "BOOKING_RELEASED")
    /\ \/ /\ reservation[a].status \in OpenStatuses /\ SetReservation(a, "RELEASED")
          /\ SetCharge(a, ChargeStatuses, "REVERSED")
       \/ /\ reservation[a].status = "ACTIVE" /\ SetReservation(a, "EXPIRED")
          /\ SetCharge(a, {"RESERVED"}, "REVERSED")
    /\ UNCHANGED moneyVars
Reviewed(a) ==
    /\ reservation[a].status = "CONSUMING" /\ SetReservation(a, "REVIEW_REQUIRED")
    /\ Append1(a, "BOOKING_REVIEW_REQUIRED")
    /\ SetCharge(a, ChargeStatuses, "REVIEW_REQUIRED")
    /\ UNCHANGED <<account, received, settled>>

\* Nothing but the steps above changes what is held, or what is said of it.
HoldStep(a) == Consumed(a) \/ Converted(a) \/ Dropped(a) \/ Reviewed(a)

LEMMA CallsHold ==
    ASSUME TypeInv, NEW p \in Callers, CallStep(p), ~Taken(p)
    PROVE  \/ /\ call[p].attempt \in Attempts /\ HoldStep(call[p].attempt)
           \/ HoldsKept /\ UNCHANGED <<account, received, settled>>
<1> DEFINE a == call[p].attempt
<1>1. ASSUME NEW op, Running(p, op) PROVE a \in Attempts
  BY <1>1, RunningNamesHold
<1>2. CASE ReserveWithoutEffect(p) \/ TransitionIsMoot(p) \/ CallFails(p)
  BY <1>2 DEF ReserveWithoutEffect, TransitionIsMoot, CallFails, HoldsKept, Portions
<1>3. CASE markBookingReservationConsuming(p)
  BY <1>1, <1>3 DEF markBookingReservationConsuming, HoldsKept, Portions, HoldStep, Consumed
<1>4. CASE convertBookingReservation(p)
  BY <1>1, <1>4 DEF convertBookingReservation, HoldStep, Converted
<1>5. CASE releaseBookingReservation(p)
  BY <1>1, <1>5 DEF releaseBookingReservation, HoldStep, Dropped
<1>6. CASE markBookingReservationReviewRequired(p)
  BY <1>1, <1>6 DEF markBookingReservationReviewRequired, HoldStep, Reviewed
<1> QED BY <1>2, <1>3, <1>4, <1>5, <1>6 DEF CallStep, Taken

LEMMA OtherSteps ==
    ASSUME TypeInv, FacilityStep \/ BalanceStep \/ (\E p \in Callers : BeginCall(p))
    PROVE  HoldsKept
<1>1. UNCHANGED <<reservation, charge, ledger>>
  BY DEF FacilityStep, SetStatus, requestClientCredit,
         approveAdminCreditAccount, activateAdminCreditAccount,
         suspendAdminCreditAccount, reactivateAdminCreditAccount,
         closeAdminCreditAccount, rejectAdminCreditAccount,
         expireLapsedCreditAccounts, ValidityPasses, DayPasses,
         BalanceStep, creditCapturedTopUp, closeCreditBillingCycle,
         applyVerifiedCreditPayment, writeOffCreditStatement,
         BeginCall, BeginReserve, BeginOnCharge
<1> QED BY <1>1 DEF HoldsKept, Portions

LEMMA Sweeps ==
    ASSUME TypeInv, NEW a \in Attempts, SweepStep(a)
    PROVE  \/ HoldsKept /\ UNCHANGED <<account, received, settled>>
           \/ HoldStep(a)
<1>1. CASE TtlLapses(a)
  <2>1. ASSUME NEW b \in Attempts PROVE UNCHANGED Portions(b)
    <3>1. reservation[b] \in ReservationType
      BY DEF TypeInv, TypeOK
    <3> QED BY <1>1, <3>1 DEF TtlLapses, Portions, TypeInv, TypeOK, ReservationType
  <2> QED BY <1>1, <2>1 DEF TtlLapses, HoldsKept
<1>2. CASE expireStaleReservation(a)
  BY <1>2 DEF expireStaleReservation, IsStale, HoldStep, Dropped
<1> QED BY <1>1, <1>2 DEF SweepStep

LEMMA StepsOfHolds ==
    ASSUME TypeInv, [Next]_vars
    PROVE  \/ HoldsKept
           \/ \E p \in Callers : Taken(p)
           \/ \E a \in Attempts : HoldStep(a)
<1>1. CASE UNCHANGED vars
  BY <1>1 DEF vars, HoldsKept, Portions
<1>2. CASE Next
  BY <1>2, CallsHold, OtherSteps, Sweeps DEF Next
<1> QED BY <1>1, <1>2

\* The effect of a transition on its hold, and on no other.
LEMMA OneHoldMoves ==
    ASSUME TypeInv, NEW a \in Attempts, HoldStep(a)
    PROVE  /\ reservation[a].status \in OpenStatuses
           /\ \/ Consumed(a) /\ reservation'[a].status = "CONSUMING"
              \/ Converted(a) /\ reservation'[a].status = "CONVERTED"
              \/ Dropped(a) /\ reservation'[a].status \in {"RELEASED", "EXPIRED"}
              \/ Reviewed(a) /\ reservation'[a].status = "REVIEW_REQUIRED"
           /\ \A b \in Attempts : b # a => reservation'[b] = reservation[b]
           /\ \A b \in Attempts : /\ reservation'[b].advance = reservation[b].advance
                                  /\ reservation'[b].credit = reservation[b].credit
<1>1. ASSUME NEW status, SetReservation(a, status)
      PROVE  /\ reservation'[a].status = status
             /\ \A b \in Attempts : b # a => reservation'[b] = reservation[b]
             /\ \A b \in Attempts : /\ reservation'[b].advance = reservation[b].advance
                                    /\ reservation'[b].credit = reservation[b].credit
  <2>1. \A b \in Attempts : reservation[b] \in ReservationType
    BY DEF TypeInv, TypeOK
  <2> QED BY <1>1, <2>1 DEF SetReservation, TypeInv, TypeOK, ReservationType
<1>2. {"ACTIVE", "CONSUMING"} \subseteq OpenStatuses
  BY DEF OpenStatuses
<1>3. \E status : SetReservation(a, status)
  BY DEF HoldStep, Consumed, Converted, Dropped, Reviewed
<1>4. reservation[a].status \in OpenStatuses
  BY <1>2 DEF HoldStep, Consumed, Converted, Dropped, Reviewed
<1>5. CASE Consumed(a)
  BY <1>1, <1>3, <1>4, <1>5 DEF Consumed
<1>6. CASE Converted(a)
  BY <1>1, <1>3, <1>4, <1>6 DEF Converted
<1>7. CASE Dropped(a)
  BY <1>1, <1>3, <1>4, <1>7 DEF Dropped
<1>8. CASE Reviewed(a)
  BY <1>1, <1>3, <1>4, <1>8 DEF Reviewed
<1> QED BY <1>5, <1>6, <1>7, <1>8 DEF HoldStep

\* A reservation enters an attempt that had none.
LEMMA OneHoldTaken ==
    ASSUME TypeInv, NEW p \in Callers, Taken(p), NEW a, a = call[p].attempt
    PROVE  /\ a \in Attempts /\ reservation[a].status = "NONE"
           /\ reservation'[a].status = "ACTIVE"
           /\ reservation'[a].advance = Lesser(Price[a], AvailableAdvance)
           /\ reservation'[a].credit
                 = Price[a] - Lesser(Price[a], AvailableAdvance)
           /\ \A b \in Attempts : b # a => reservation'[b] = reservation[b]
           /\ \A b \in OpenHolds : DraftOf[b] # DraftOf[a]
           /\ charge[DraftOf[a]].status \in {"NONE", "REVERSED"}
           /\ charge'[DraftOf[a]].status = "RESERVED"
           /\ charge'[DraftOf[a]].hold = a
           /\ \A d \in Drafts : d # DraftOf[a] => charge'[d] = charge[d]
           /\ ledger' = ledger
<1>1. a \in Attempts
  BY RunningNamesHold DEF Taken, reserveBookingCapacity
<1> DEFINE hold == [status |-> "ACTIVE",
                    advance |-> Lesser(Price[a], AvailableAdvance),
                    credit |-> Price[a] - Lesser(Price[a], AvailableAdvance),
                    lapsed |-> FALSE]
<1>2. reservation' = [reservation EXCEPT ![a] = hold]
  BY DEF Taken, reserveBookingCapacity
<1>3. /\ reservation'[a] = hold
      /\ \A b \in Attempts : b # a => reservation'[b] = reservation[b]
  <2> HIDE DEF hold
  <2> QED BY <1>1, <1>2 DEF TypeInv, TypeOK
<1>4. CanReserve(a, call[p].allowCredit) /\ reservation[a].status = "NONE"
  BY DEF Taken, reserveBookingCapacity
<1> DEFINE mine == [status |-> "RESERVED", hold |-> a]
<1>5. charge' = [charge EXCEPT ![DraftOf[a]] = mine] /\ ledger' = ledger
  BY DEF Taken, reserveBookingCapacity
<1>7. DraftOf[a] \in Drafts
  BY <1>1, ConstantsAssumption
<1>8. /\ charge'[DraftOf[a]] = mine
      /\ \A d \in Drafts : d # DraftOf[a] => charge'[d] = charge[d]
  <2> HIDE DEF mine
  <2> QED BY <1>5, <1>7 DEF TypeInv, TypeOK
<1>9. charge'[DraftOf[a]].status = "RESERVED" /\ charge'[DraftOf[a]].hold = a
  BY <1>8
<1>6. /\ reservation'[a].status = "ACTIVE"
      /\ reservation'[a].advance = Lesser(Price[a], AvailableAdvance)
      /\ reservation'[a].credit = Price[a] - Lesser(Price[a], AvailableAdvance)
  BY <1>3
<1> HIDE DEF mine, hold
<1> QED BY <1>1, <1>3, <1>4, <1>5, <1>6, <1>8, <1>9 DEF CanReserve
-----------------------------------------------------------------------------
(***************************************************************************)
(* Charges follow holds.                                                   *)
(***************************************************************************)
Live(a) == reservation[a].status \in OpenStatuses \cup {"CONVERTED"}

\* What charge status d and hold status go together.
Agrees(says, is) ==
    \/ says = "RESERVED" /\ is \in {"ACTIVE", "CONSUMING"}
    \/ says = "REVIEW_REQUIRED" /\ is = "REVIEW_REQUIRED"
    \/ says = "COMPLETED" /\ is = "CONVERTED"
    \/ says = "REVERSED" /\ is \in {"RELEASED", "EXPIRED"}

ChargeSays(d) ==
    \/ charge[d].status = "NONE" /\ charge[d].hold = NoHold
    \/ /\ charge[d].hold \in Attempts /\ DraftOf[charge[d].hold] = d
       /\ Agrees(charge[d].status, reservation[charge[d].hold].status)

\* ChargeFollowsHold, one charge and one hold at a time.
ChargesOk ==
    /\ \A d \in Drafts : ChargeSays(d)
    /\ \A a \in Attempts : Live(a) => charge[DraftOf[a]].hold = a

LEMMA ChargesOkIs == ASSUME TypeInv PROVE ChargesOk <=> ChargeFollowsHold
<1>1. (\A a \in Attempts : Live(a) => charge[DraftOf[a]].hold = a)
        <=> \A a \in OpenHolds \cup ConvertedHolds : charge[DraftOf[a]].hold = a
  BY DEF Live, OpenHolds, ConvertedHolds
<1> DEFINE follows == [RESERVED |-> {"ACTIVE", "CONSUMING"},
                       REVIEW_REQUIRED |-> {"REVIEW_REQUIRED"},
                       COMPLETED |-> {"CONVERTED"},
                       REVERSED |-> {"RELEASED", "EXPIRED"}]
           entry(d) == IF charge[d].status = "NONE" THEN charge[d].hold = NoHold
                       ELSE /\ charge[d].hold \in Attempts
                            /\ DraftOf[charge[d].hold] = d
                            /\ reservation[charge[d].hold].status
                                  \in follows[charge[d].status]
<1>2. ASSUME NEW d \in Drafts PROVE ChargeSays(d) <=> entry(d)
  <2>1. charge[d].status \in ChargeStatuses
    BY DEF TypeInv, TypeOK, ChargeType
  <2>2. ASSUME NEW says \in ChargeStatuses \ {"NONE"}, NEW is
        PROVE  Agrees(says, is) <=> is \in follows[says]
    BY DEF Agrees, ChargeStatuses
  <2>3. ASSUME NEW is PROVE ~ Agrees("NONE", is)
    BY DEF Agrees
  <2> HIDE DEF follows
  <2> QED BY <2>1, <2>2, <2>3 DEF ChargeSays
<1>3. (\A d \in Drafts : ChargeSays(d)) <=> (\A d \in Drafts : entry(d))
  BY <1>2
<1> QED BY <1>1, <1>3 DEF ChargesOk, ChargeFollowsHold

\* The charge of an open hold is its own, and still undecided.
LEMMA ChargeOfOpen ==
    ASSUME TypeInv, ChargesOk, NEW a \in Attempts,
           reservation[a].status \in OpenStatuses
    PROVE  /\ DraftOf[a] \in Drafts /\ charge[DraftOf[a]].hold = a
           /\ charge[DraftOf[a]].status \in Completable
           /\ reservation[a].status = "ACTIVE"
                 => charge[DraftOf[a]].status = "RESERVED"
<1>1. DraftOf[a] \in Drafts /\ NoHold \notin Attempts
  BY ConstantsAssumption
<1>2. charge[DraftOf[a]].hold = a
  BY DEF ChargesOk, Live
<1>3. Agrees(charge[DraftOf[a]].status, reservation[a].status)
  BY <1>1, <1>2 DEF ChargesOk, ChargeSays
<1> QED BY <1>1, <1>2, <1>3 DEF Agrees, OpenStatuses, Completable

\* What the transition of a hold does to the charges.
LEMMA ChargeMoves ==
    ASSUME TypeInv, ChargesOk, NEW a \in Attempts, HoldStep(a)
    PROVE  /\ charge'[DraftOf[a]].hold = a
           /\ Agrees(charge'[DraftOf[a]].status, reservation'[a].status)
           /\ \A d \in Drafts : d # DraftOf[a] => charge'[d] = charge[d]
<1>1. /\ DraftOf[a] \in Drafts /\ charge[DraftOf[a]].hold = a
      /\ charge[DraftOf[a]].status \in Completable
      /\ reservation[a].status = "ACTIVE" => charge[DraftOf[a]].status = "RESERVED"
  BY OneHoldMoves, ChargeOfOpen
<1>2. charge \in [Drafts -> ChargeType] /\ charge[DraftOf[a]].status \in ChargeStatuses
  BY <1>1 DEF TypeInv, TypeOK, ChargeType
<1>3. ASSUME NEW from, NEW status, SetCharge(a, from, status),
             charge[DraftOf[a]].status \in from
      PROVE  /\ charge'[DraftOf[a]].hold = a
             /\ charge'[DraftOf[a]].status = status
             /\ \A d \in Drafts : d # DraftOf[a] => charge'[d] = charge[d]
  BY <1>1, <1>2, <1>3 DEF SetCharge, ChargeType
<1>4. CASE Consumed(a) /\ reservation'[a].status = "CONSUMING"
  BY <1>1, <1>4 DEF Consumed, Agrees
<1>5. CASE Converted(a) /\ reservation'[a].status = "CONVERTED"
  BY <1>1, <1>3, <1>5 DEF Converted, Agrees
<1>6. CASE Dropped(a) /\ reservation'[a].status \in {"RELEASED", "EXPIRED"}
  BY <1>1, <1>2, <1>3, <1>6 DEF Dropped, Agrees
<1>7. CASE Reviewed(a) /\ reservation'[a].status = "REVIEW_REQUIRED"
  BY <1>1, <1>2, <1>3, <1>7 DEF Reviewed, Agrees
<1> QED BY <1>4, <1>5, <1>6, <1>7, OneHoldMoves

LEMMA ChargesNext ==
    ASSUME TypeInv, ChargesOk, [Next]_vars
    PROVE  ChargesOk'
<1>1. CASE HoldsKept
  <2>1. UNCHANGED charge /\ \A a \in Attempts : reservation'[a].status = reservation[a].status
    BY <1>1 DEF HoldsKept, Portions
  <2> QED BY <2>1 DEF ChargesOk, ChargeSays, Live
<1>2. ASSUME NEW p \in Callers, Taken(p), NEW a, a = call[p].attempt
      PROVE  ChargesOk'
  <2>1. /\ a \in Attempts /\ reservation[a].status = "NONE"
        /\ reservation'[a].status = "ACTIVE"
        /\ \A b \in Attempts : b # a => reservation'[b] = reservation[b]
        /\ \A b \in OpenHolds : DraftOf[b] # DraftOf[a]
        /\ charge[DraftOf[a]].status \in {"NONE", "REVERSED"}
        /\ charge'[DraftOf[a]].status = "RESERVED"
        /\ charge'[DraftOf[a]].hold = a
        /\ \A d \in Drafts : d # DraftOf[a] => charge'[d] = charge[d]
    BY <1>2, OneHoldTaken
  <2>2. DraftOf[a] \in Drafts /\ NoHold \notin Attempts
    BY <2>1, ConstantsAssumption
  <2>3. ASSUME NEW d \in Drafts PROVE ChargeSays(d)'
    <3>1. CASE d = DraftOf[a]
      BY <2>1, <2>2, <3>1 DEF ChargeSays, Agrees
    <3>2. CASE d # DraftOf[a]
      BY <2>1, <2>2, <3>2 DEF ChargesOk, ChargeSays, Agrees
    <3> QED BY <3>1, <3>2
  <2>4. ASSUME NEW b \in Attempts, Live(b)' PROVE charge'[DraftOf[b]].hold = b
    <3>1. CASE b = a
      BY <2>1, <3>1
    <3>2. CASE b # a
      <4>1. Live(b) /\ charge[DraftOf[b]].hold = b /\ DraftOf[b] \in Drafts
        BY <2>1, <2>4, <3>2, ConstantsAssumption DEF Live, ChargesOk
      <4>2. ChargeSays(DraftOf[b])
        BY <4>1 DEF ChargesOk
      <4>3. CASE DraftOf[b] = DraftOf[a]
        BY <2>1, <2>2, <4>1, <4>2, <4>3 DEF Live, OpenHolds, ChargeSays, Agrees
      <4>4. CASE DraftOf[b] # DraftOf[a]
        BY <2>1, <4>1, <4>4
      <4> QED BY <4>3, <4>4
    <3> QED BY <3>1, <3>2
  <2> QED BY <2>3, <2>4 DEF ChargesOk
<1>3. ASSUME NEW a \in Attempts, HoldStep(a) PROVE ChargesOk'
  <2>1. /\ charge'[DraftOf[a]].hold = a
        /\ Agrees(charge'[DraftOf[a]].status, reservation'[a].status)
        /\ \A d \in Drafts : d # DraftOf[a] => charge'[d] = charge[d]
    BY <1>3, ChargeMoves
  <2>2. /\ reservation[a].status \in OpenStatuses
        /\ \A b \in Attempts : b # a => reservation'[b] = reservation[b]
    BY <1>3, OneHoldMoves
  <2>3. /\ \A b \in Attempts : DraftOf[b] \in Drafts
        /\ charge[DraftOf[a]].hold = a
    BY <2>2, ConstantsAssumption, ChargeOfOpen
  <2>4. ASSUME NEW d \in Drafts PROVE ChargeSays(d)'
    <3>1. CASE d = DraftOf[a]
      BY <2>1, <3>1 DEF ChargeSays
    <3>2. CASE d # DraftOf[a]
      BY <2>1, <2>2, <3>2 DEF ChargesOk, ChargeSays
    <3> QED BY <3>1, <3>2
  <2>5. ASSUME NEW b \in Attempts, Live(b)' PROVE charge'[DraftOf[b]].hold = b
    <3>1. CASE b = a
      BY <2>1, <3>1
    <3>2. CASE b # a
      <4>1. Live(b) /\ charge[DraftOf[b]].hold = b
        BY <2>2, <2>5, <3>2 DEF Live, ChargesOk
      <4>2. DraftOf[b] # DraftOf[a]
        BY <2>3, <3>2, <4>1
      <4> QED BY <2>1, <2>3, <4>1, <4>2
    <3> QED BY <3>1, <3>2
  <2> QED BY <2>4, <2>5 DEF ChargesOk
<1> QED BY <1>1, <1>2, <1>3, StepsOfHolds

LEMMA ChargesHold == Spec => [](TypeInv /\ ChargesOk)
<1>1. Init => ChargesOk
  <2> SUFFICES ASSUME Init PROVE ChargesOk
    OBVIOUS
  <2>1. \A a \in Attempts : ~ Live(a)
    BY DEF Init, Live, NoReservation, OpenStatuses
  <2>2. \A d \in Drafts : ChargeSays(d)
    BY DEF Init, ChargeSays, NoCharge
  <2> QED BY <2>1, <2>2 DEF ChargesOk
<1>2. Init => TypeInv /\ ChargesOk
  BY <1>1, TypeInit
<1>3. TypeInv /\ ChargesOk /\ [Next]_vars => (TypeInv /\ ChargesOk)'
  BY TypeNext, ChargesNext
<1> QED BY <1>2, <1>3, PTL DEF Spec

\* What the charge of a draft says is what became of the hold that pays for
\* it, whoever moved the hold: a caller, a concurrent call or the sweep.
THEOREM ChargesTellHolds == Spec => []ChargeFollowsHold
<1>1. TypeInv /\ ChargesOk => ChargeFollowsHold
  BY ChargesOkIs
<1> QED BY <1>1, ChargesHold, PTL

\* No interleaving of retried bookings holds or charges a draft twice.
THEOREM DraftPaidOnce == Spec => []DraftHeldOnce
<1>1. TypeInv /\ ChargesOk => DraftHeldOnce
  <2> SUFFICES ASSUME ChargesOk, NEW a \in OpenHolds \cup ConvertedHolds,
                      NEW b \in OpenHolds \cup ConvertedHolds,
                      DraftOf[a] = DraftOf[b]
               PROVE  a = b
    BY DEF DraftHeldOnce
  <2>1. a \in Attempts /\ b \in Attempts /\ Live(a) /\ Live(b)
    BY DEF OpenHolds, ConvertedHolds, Live
  <2> QED BY <2>1 DEF ChargesOk
<1> QED BY <1>1, ChargesHold, PTL
-----------------------------------------------------------------------------
(***************************************************************************)
(* The booking entries of the ledger.                                      *)
(***************************************************************************)
Tells(entries, is) ==
    \/ is \in {"NONE", "ACTIVE", "CONSUMING", "EXPIRED"} /\ entries = <<>>
    \/ is = "REVIEW_REQUIRED" /\ entries = <<"BOOKING_REVIEW_REQUIRED">>
    \/ /\ is = "RELEASED"
       /\ entries \in {<<>>, <<"BOOKING_REVIEW_REQUIRED", "BOOKING_RELEASED">>}
    \/ /\ is = "CONVERTED"
       /\ entries \in {<<"BOOKING_CONVERTED">>,
                       <<"BOOKING_REVIEW_REQUIRED", "BOOKING_CONVERTED">>}

\* LedgerTellsOutcome, one status at a time.
LedgerOk == \A a \in Attempts : Tells(ledger[a], reservation[a].status)

LEMMA ShortLedgers ==
    ASSUME NEW x, NEW y
    PROVE  /\ Append(<<>>, x) = <<x>>
           /\ Append(<<x>>, y) = <<x, y>>
           /\ <<x>> \o <<y>> = <<x, y>>
<1> DEFINE S == {x, y}
<1>1. /\ <<>> \in Seq(S) /\ <<x>> \in Seq(S) /\ <<y>> \in Seq(S)
      /\ <<x, y>> \in Seq(S)
      /\ Len(<<>>) = 0 /\ Len(<<x>>) = 1 /\ Len(<<y>>) = 1 /\ Len(<<x, y>>) = 2
      /\ <<x>>[1] = x /\ <<y>>[1] = y /\ <<x, y>>[1] = x /\ <<x, y>>[2] = y
  OBVIOUS
<1>2. x \in S /\ y \in S
  OBVIOUS
<1> HIDE DEF S
<1>3. Append(<<>>, x) = <<x>>
  <2> DEFINE s == Append(<<>>, x)
             t == <<x>>
  <2>1. s \in Seq(S) /\ t \in Seq(S) /\ Len(s) = 1 /\ Len(t) = 1 /\ s[1] = t[1]
    BY <1>1, <1>2, AppendProperties
  <2>2. \A i \in 1 .. Len(s) : s[i] = t[i]
    BY <2>1
  <2> HIDE DEF s, t
  <2>3. s = t
    BY <2>1, <2>2, SeqEqual
  <2> QED BY <2>3 DEF s, t
<1>4. <<x>> \o <<y>> = <<x, y>>
  <2> DEFINE s == <<x>> \o <<y>>
             t == <<x, y>>
  <2>1. s \in Seq(S) /\ Len(s) = 2 /\ s[1] = x /\ s[2] = y
    BY <1>1, <1>2, ConcatProperties
  <2>2. t \in Seq(S) /\ Len(t) = 2 /\ t[1] = x /\ t[2] = y
    BY <1>1
  <2> HIDE DEF s, t
  <2>3. \A i \in 1 .. Len(s) : s[i] = t[i]
    BY <2>1, <2>2
  <2>4. s = t
    BY <2>1, <2>2, <2>3, SeqEqual
  <2> QED BY <2>4 DEF s, t
<1>5. Append(<<x>>, y) = <<x>> \o <<y>>
  BY <1>1, <1>2, AppendIsConcat
<1> QED BY <1>3, <1>4, <1>5

LEMMA LedgerOkIs == ASSUME TypeInv, LedgerOk PROVE LedgerTellsOutcome
<1> DEFINE review == <<"BOOKING_REVIEW_REQUIRED">>
<1>1. /\ review \o <<"BOOKING_RELEASED">>
            = <<"BOOKING_REVIEW_REQUIRED", "BOOKING_RELEASED">>
      /\ review \o <<"BOOKING_CONVERTED">>
            = <<"BOOKING_REVIEW_REQUIRED", "BOOKING_CONVERTED">>
  BY ShortLedgers
<1> HIDE DEF review
<1> DEFINE tells == [NONE |-> {<<>>}, ACTIVE |-> {<<>>}, CONSUMING |-> {<<>>},
                     EXPIRED |-> {<<>>},
                     REVIEW_REQUIRED |-> {review},
                     RELEASED |-> {<<>>, review \o <<"BOOKING_RELEASED">>},
                     CONVERTED |-> {<<"BOOKING_CONVERTED">>,
                                    review \o <<"BOOKING_CONVERTED">>}]
<1>2. ASSUME NEW a \in Attempts PROVE ledger[a] \in tells[reservation[a].status]
  <2>1. Tells(ledger[a], reservation[a].status)
    BY DEF LedgerOk
  <2> QED BY <1>1, <2>1 DEF Tells, review
<1> QED BY <1>2 DEF LedgerTellsOutcome, review

LEMMA LedgerNext ==
    ASSUME TypeInv, LedgerOk, [Next]_vars
    PROVE  LedgerOk'
<1>1. CASE HoldsKept
  BY <1>1 DEF HoldsKept, Portions, LedgerOk
<1>2. ASSUME NEW p \in Callers, Taken(p), NEW a, a = call[p].attempt
      PROVE  LedgerOk'
  <2>1. /\ a \in Attempts /\ reservation[a].status = "NONE"
        /\ reservation'[a].status = "ACTIVE" /\ ledger' = ledger
        /\ \A b \in Attempts : b # a => reservation'[b] = reservation[b]
    BY <1>2, OneHoldTaken
  <2> QED BY <2>1 DEF LedgerOk, Tells
<1>3. ASSUME NEW a \in Attempts, HoldStep(a) PROVE LedgerOk'
  <2>1. ASSUME NEW type, Append1(a, type)
        PROVE  /\ ledger'[a] = Append(ledger[a], type)
               /\ \A b \in Attempts : b # a => ledger'[b] = ledger[b]
    BY <2>1 DEF Append1, TypeInv, TypeOK
  <2>2. Tells(ledger[a], reservation[a].status)
    BY DEF LedgerOk
  <2>3. /\ Tells(ledger'[a], reservation'[a].status)
        /\ \A b \in Attempts : b # a => ledger'[b] = ledger[b]
    <3>1. CASE Consumed(a) /\ reservation'[a].status = "CONSUMING"
      BY <2>2, <3>1 DEF Consumed, Tells
    <3>2. CASE Converted(a) /\ reservation'[a].status = "CONVERTED"
      <4>1. ledger[a] \in {<<>>, <<"BOOKING_REVIEW_REQUIRED">>}
        BY <2>2, <3>2 DEF Converted, Tells, OpenStatuses
      <4> QED BY <2>1, <3>2, <4>1, ShortLedgers DEF Converted, Tells
    <3>3. CASE Dropped(a) /\ reservation'[a].status \in {"RELEASED", "EXPIRED"}
      <4>1. \/ ledger[a] = <<>>
            \/ /\ ledger[a] = <<"BOOKING_REVIEW_REQUIRED">>
               /\ reservation[a].status = "REVIEW_REQUIRED"
        BY <2>2, <3>3 DEF Dropped, Tells, OpenStatuses
      <4>2. CASE ledger[a] = <<>>
        <5>1. ledger' = ledger
          BY <3>3, <4>2 DEF Dropped, AppendIfAnnounced
        <5> QED BY <3>3, <4>2, <5>1 DEF Tells
      <4>3. CASE /\ ledger[a] = <<"BOOKING_REVIEW_REQUIRED">>
                 /\ reservation[a].status = "REVIEW_REQUIRED"
        <5>1. Append1(a, "BOOKING_RELEASED")
          BY <3>3, <4>3 DEF Dropped, AppendIfAnnounced
        <5>2. reservation'[a].status = "RELEASED"
          BY <3>3, <4>3 DEF Dropped, SetReservation, TypeInv, TypeOK, ReservationType
        <5> QED BY <2>1, <4>3, <5>1, <5>2, ShortLedgers DEF Tells
      <4> QED BY <4>1, <4>2, <4>3
    <3>4. CASE Reviewed(a) /\ reservation'[a].status = "REVIEW_REQUIRED"
      BY <2>1, <2>2, <3>4, ShortLedgers DEF Reviewed, Tells
    <3> QED BY <1>3, <3>1, <3>2, <3>3, <3>4, OneHoldMoves
  <2>4. \A b \in Attempts : b # a => reservation'[b] = reservation[b]
    BY <1>3, OneHoldMoves
  <2> QED BY <2>3, <2>4 DEF LedgerOk
<1> QED BY <1>1, <1>2, <1>3, StepsOfHolds

\* The booking entries of the ledger tell what became of the hold, once.
THEOREM LedgerTellsTheTruth == Spec => []LedgerTellsOutcome
<1>1. Init => TypeInv /\ LedgerOk
  BY TypeInit DEF Init, LedgerOk, Tells, NoReservation
<1>2. TypeInv /\ LedgerOk /\ [Next]_vars => (TypeInv /\ LedgerOk)'
  BY TypeNext, LedgerNext
<1>3. TypeInv /\ LedgerOk => LedgerTellsOutcome
  BY LedgerOkIs
<1> QED BY <1>1, <1>2, <1>3, PTL DEF Spec
-----------------------------------------------------------------------------
(***************************************************************************)
(* Answers.                                                                *)
(***************************************************************************)
\* What op asked for has happened to a hold in status is.
HasHappened(op, is) ==
    \/ op = "reserve" /\ is # "NONE"
    \/ op = "consume"
    \/ op = "convert" /\ is = "CONVERTED"
    \/ op = "release" /\ is \in {"RELEASED", "EXPIRED"}
    \/ op = "review" /\ is \notin {"NONE", "ACTIVE", "CONSUMING"}

Named(p) == call[p].attempt # NoHold => call[p].op # "none"
AnswerOk(p) ==
    call[p].phase = "ok" /\ call[p].attempt # NoHold =>
       \/ HasHappened(call[p].op, reservation[call[p].attempt].status)
       \/ /\ call[p].op = "reserve"
          /\ charge[DraftOf[call[p].attempt]].status = "COMPLETED"

AnswersOk == \A p \in Callers : Named(p) /\ AnswerOk(p)

LEMMA AnswersOkIs == ASSUME TypeInv, AnswersOk PROVE AnswersAreTrue
<1> DEFINE done == [reserve |-> ReservationStatuses \ {"NONE"},
                    consume |-> ReservationStatuses,
                    convert |-> {"CONVERTED"},
                    release |-> {"RELEASED", "EXPIRED"},
                    review  |-> ReservationStatuses
                                   \ {"NONE", "ACTIVE", "CONSUMING"}]
<1>1. ASSUME NEW op, NEW is \in ReservationStatuses, HasHappened(op, is)
      PROVE  is \in done[op]
  BY <1>1 DEF HasHappened
<1> HIDE DEF done
<1>2. ASSUME NEW p \in Callers, call[p].phase = "ok", call[p].attempt # NoHold
      PROVE  \/ reservation[call[p].attempt].status \in done[call[p].op]
             \/ /\ call[p].op = "reserve"
                /\ charge[DraftOf[call[p].attempt]].status = "COMPLETED"
  <2>1. reservation[call[p].attempt].status \in ReservationStatuses
    BY <1>2 DEF TypeInv, TypeOK, CallType, ReservationType
  <2> QED BY <1>1, <1>2, <2>1 DEF AnswersOk, AnswerOk
<1> QED BY <1>2 DEF AnswersAreTrue, done

\* What has happened to a hold stays so, and a completed charge stays completed.
LEMMA HappenedForGood ==
    ASSUME TypeInv, ChargesOk, [Next]_vars
    PROVE  /\ \A a \in Attempts : \A op : HasHappened(op, reservation[a].status)
                                        => HasHappened(op, reservation'[a].status)
           /\ \A d \in Drafts : charge[d].status = "COMPLETED"
                                   => charge'[d].status = "COMPLETED"
<1>1. CASE HoldsKept
  BY <1>1 DEF HoldsKept, Portions
<1>2. ASSUME NEW p \in Callers, Taken(p), NEW a, a = call[p].attempt
      PROVE  /\ \A b \in Attempts : \A op : HasHappened(op, reservation[b].status)
                                        => HasHappened(op, reservation'[b].status)
             /\ \A d \in Drafts : charge[d].status = "COMPLETED"
                                   => charge'[d].status = "COMPLETED"
  <2>1. /\ a \in Attempts /\ reservation[a].status = "NONE"
        /\ reservation'[a].status = "ACTIVE"
        /\ \A b \in Attempts : b # a => reservation'[b] = reservation[b]
        /\ charge[DraftOf[a]].status \in {"NONE", "REVERSED"}
        /\ \A d \in Drafts : d # DraftOf[a] => charge'[d] = charge[d]
    BY <1>2, OneHoldTaken
  <2> QED BY <2>1 DEF HasHappened
<1>3. ASSUME NEW a \in Attempts, HoldStep(a)
      PROVE  /\ \A b \in Attempts : \A op : HasHappened(op, reservation[b].status)
                                        => HasHappened(op, reservation'[b].status)
             /\ \A d \in Drafts : charge[d].status = "COMPLETED"
                                   => charge'[d].status = "COMPLETED"
  <2>1. /\ reservation[a].status \in OpenStatuses
        /\ \A b \in Attempts : b # a => reservation'[b] = reservation[b]
    BY <1>3, OneHoldMoves
  <2>2. \A op : HasHappened(op, reservation[a].status)
                  => HasHappened(op, reservation'[a].status)
    <3>1. \/ reservation[a].status = "ACTIVE"
          \/ reservation[a].status = "CONSUMING"
          \/ /\ reservation[a].status = "REVIEW_REQUIRED"
             /\ reservation'[a].status \in {"CONVERTED", "RELEASED"}
      <4>1. CASE Consumed(a) \/ Reviewed(a)
        BY <4>1 DEF Consumed, Reviewed
      <4>2. CASE Converted(a) /\ reservation'[a].status = "CONVERTED"
        BY <2>1, <4>2 DEF OpenStatuses
      <4>3. CASE Dropped(a)
        BY <2>1, <4>3 DEF Dropped, OpenStatuses, SetReservation, TypeInv, TypeOK,
                          ReservationType
      <4> QED BY <1>3, <4>1, <4>2, <4>3, OneHoldMoves
    <3>2. reservation'[a].status # "NONE"
      BY <1>3, OneHoldMoves
    <3> QED BY <3>1, <3>2 DEF HasHappened
  <2>3. /\ \A d \in Drafts : d # DraftOf[a] => charge'[d] = charge[d]
        /\ charge[DraftOf[a]].status \in Completable
    BY <1>3, <2>1, ChargeMoves, ChargeOfOpen
  <2> QED BY <2>1, <2>2, <2>3 DEF Completable
<1> QED BY <1>1, <1>2, <1>3, StepsOfHolds

\* A call that is not answered in this step.
LEMMA AnswerStays ==
    ASSUME TypeInv, ChargesOk, AnswersOk, [Next]_vars, NEW p \in Callers,
           call'[p] = call[p]
    PROVE  Named(p)' /\ AnswerOk(p)'
<1>1. Named(p)' /\ AnswerOk(p)
  BY DEF AnswersOk, Named
<1>2. call[p].attempt # NoHold
        => call[p].attempt \in Attempts /\ DraftOf[call[p].attempt] \in Drafts
  BY ConstantsAssumption DEF TypeInv, TypeOK, CallType
<1> QED BY <1>1, <1>2, HappenedForGood DEF AnswerOk

LEMMA AnswersNext ==
    ASSUME TypeInv, ChargesOk, AnswersOk, [Next]_vars
    PROVE  AnswersOk'
<1>1. ASSUME UNCHANGED call PROVE AnswersOk'
  BY <1>1, AnswerStays DEF AnswersOk
<1>2. ASSUME NEW p \in Callers, Named(p)', AnswerOk(p)',
             \A q \in Callers : q # p => call'[q] = call[q]
      PROVE  AnswersOk'
  BY <1>2, AnswerStays DEF AnswersOk
<1>3. CASE UNCHANGED vars
  BY <1>1, <1>3 DEF vars
<1>4. CASE FacilityStep \/ BalanceStep \/ \E a \in Attempts : SweepStep(a)
  <2>1. UNCHANGED call
    BY <1>4 DEF FacilityStep, SetStatus, requestClientCredit,
         approveAdminCreditAccount, activateAdminCreditAccount,
         suspendAdminCreditAccount, reactivateAdminCreditAccount,
         closeAdminCreditAccount, rejectAdminCreditAccount,
         expireLapsedCreditAccounts, ValidityPasses, DayPasses,
         BalanceStep, creditCapturedTopUp, closeCreditBillingCycle,
         applyVerifiedCreditPayment, writeOffCreditStatement,
         SweepStep, TtlLapses, expireStaleReservation
  <2> QED BY <1>1, <2>1
<1>5. ASSUME NEW p \in Callers, NEW c, call' = [call EXCEPT ![p] = c],
             c.attempt = NoHold
      PROVE  AnswersOk'
  <2>1. call'[p] = c /\ \A q \in Callers : q # p => call'[q] = call[q]
    BY <1>5 DEF TypeInv, TypeOK
  <2> QED BY <1>2, <1>5, <2>1 DEF Named, AnswerOk
<1>6. Failed.attempt = NoHold /\ Done.attempt = NoHold
  BY DEF Failed, Done, Idle
<1>7. ASSUME NEW p \in Callers, NEW a \in Attempts, BeginReserve(p, a)
      PROVE  AnswersOk'
  <2>1. CASE ReservePreRead(a) = "error"
    <3>1. call' = [call EXCEPT ![p] = Failed]
      BY <1>7, <2>1 DEF BeginReserve
    <3> HIDE DEF Failed
    <3> QED BY <1>5, <1>6, <3>1
  <2>2. CASE ReservePreRead(a) # "error"
    <3>1. /\ call'[p].op = "reserve" /\ call'[p].attempt = a
          /\ call'[p].phase = ReservePreRead(a)
          /\ \A q \in Callers : q # p => call'[q] = call[q]
          /\ UNCHANGED <<reservation, charge>>
      BY <1>7, <2>2 DEF BeginReserve, TypeInv, TypeOK
    <3>2. ReservePreRead(a) = "ok" => \/ charge[DraftOf[a]].status = "COMPLETED"
                                      \/ reservation[a].status # "NONE"
      BY DEF ReservePreRead
    <3>3. Named(p)' /\ AnswerOk(p)'
      BY <3>1, <3>2 DEF Named, AnswerOk, HasHappened
    <3> QED BY <1>2, <3>1, <3>3
  <2> QED BY <2>1, <2>2
<1>8. ASSUME NEW p \in Callers, NEW op \in ChargeOps, NEW d \in Drafts,
             BeginOnCharge(p, op, d)
      PROVE  AnswersOk'
  <2>1. CASE charge[d].hold = NoHold
    <3>1. call' = [call EXCEPT ![p] = Done]
      BY <1>8, <2>1 DEF BeginOnCharge
    <3> HIDE DEF Done
    <3> QED BY <1>5, <1>6, <3>1
  <2>2. CASE charge[d].hold # NoHold
    <3> DEFINE a == charge[d].hold
    <3>1. /\ call'[p].op = op /\ call'[p].attempt = a
          /\ call'[p].phase = "ok" => charge[d].status \in NothingToDo[op]
          /\ \A q \in Callers : q # p => call'[q] = call[q]
          /\ UNCHANGED <<reservation, charge>>
      BY <1>8, <2>2 DEF BeginOnCharge, TypeInv, TypeOK
    <3>2. Agrees(charge[d].status, reservation[a].status)
      BY <2>2 DEF ChargesOk, ChargeSays
    <3>3. charge[d].status \in NothingToDo[op]
            => HasHappened(op, reservation[a].status)
      BY <3>2 DEF NothingToDo, Agrees, HasHappened, ChargeOps
    <3>4. Named(p)' /\ AnswerOk(p)'
      BY <3>1, <3>3 DEF Named, AnswerOk, ChargeOps
    <3> QED BY <1>2, <3>1, <3>4
  <2> QED BY <2>1, <2>2
<1>9. ASSUME NEW p \in Callers, NEW op, Running(p, op), Succeed(p),
             HasHappened(op, reservation'[call[p].attempt].status)
      PROVE  AnswersOk'
  <2> DEFINE c == [call[p] EXCEPT !.phase = "ok", !.allowCredit = FALSE]
  <2>1. call' = [call EXCEPT ![p] = c]
    BY <1>9 DEF Succeed
  <2>2. c.op = op /\ c.attempt = call[p].attempt
    BY <1>9 DEF Running, TypeInv, TypeOK, CallType
  <2> HIDE DEF c
  <2>3. /\ call'[p].op = op /\ call'[p].attempt = call[p].attempt
        /\ \A q \in Callers : q # p => call'[q] = call[q]
    BY <2>1, <2>2 DEF TypeInv, TypeOK
  <2>4. Named(p)' /\ AnswerOk(p)'
    BY <1>9, <2>3 DEF Named, AnswerOk, HasHappened
  <2> QED BY <1>2, <2>3, <2>4
<1>10. ASSUME NEW p \in Callers, Fail(p) PROVE AnswersOk'
  <2>1. call' = [call EXCEPT ![p] = Failed]
    BY <1>10 DEF Fail
  <2> HIDE DEF Failed
  <2> QED BY <1>5, <1>6, <2>1
<1>11. ASSUME NEW p \in Callers, CallStep(p) PROVE AnswersOk'
  <2> DEFINE a == call[p].attempt
  <2>1. ASSUME NEW op, Running(p, op) PROVE a \in Attempts
    BY <2>1, RunningNamesHold
  <2>2. ASSUME NEW status, a \in Attempts, SetReservation(a, status)
        PROVE  reservation'[a].status = status
    BY <2>2 DEF SetReservation, TypeInv, TypeOK, ReservationType
  <2>3. CASE reserveBookingCapacity(p)
    <3>1. reservation'[a].status = "ACTIVE"
      BY <2>3, OneHoldTaken DEF Taken
    <3>2. Running(p, "reserve") /\ Succeed(p)
      BY <2>3 DEF reserveBookingCapacity
    <3> QED BY <1>9, <3>1, <3>2 DEF HasHappened
  <2>4. CASE ReserveWithoutEffect(p)
    BY <1>9, <1>10, <2>4 DEF ReserveWithoutEffect, HasHappened
  <2>5. CASE markBookingReservationConsuming(p)
    <3>1. call' = [call EXCEPT ![p] = Done]
      BY <2>5 DEF markBookingReservationConsuming
    <3> HIDE DEF Done
    <3> QED BY <1>5, <1>6, <3>1
  <2>6. CASE convertBookingReservation(p)
    BY <1>9, <2>1, <2>2, <2>6 DEF convertBookingReservation, HasHappened
  <2>7. CASE releaseBookingReservation(p)
    BY <1>9, <2>1, <2>2, <2>7 DEF releaseBookingReservation, HasHappened
  <2>8. CASE markBookingReservationReviewRequired(p)
    BY <1>9, <2>1, <2>2, <2>8
       DEF markBookingReservationReviewRequired, HasHappened
  <2>9. CASE TransitionIsMoot(p)
    BY <1>9, <1>10, <2>9 DEF TransitionIsMoot, HasHappened
  <2>10. CASE CallFails(p)
    BY <1>10, <2>10 DEF CallFails
  <2> QED
    BY <1>11, <2>3, <2>4, <2>5, <2>6, <2>7, <2>8, <2>9, <2>10 DEF CallStep
<1> QED BY <1>3, <1>4, <1>7, <1>8, <1>11 DEF Next, BeginCall

\* A caller that was told of a success can rely on it, although others move
\* the same hold, and although it may have done nothing itself.
THEOREM AnswersHold == Spec => []AnswersAreTrue
<1>1. Init => AnswersOk
  BY DEF Init, AnswersOk, Named, AnswerOk, Idle
<1>2. TypeInv /\ ChargesOk /\ AnswersOk /\ [Next]_vars => AnswersOk'
  BY AnswersNext
<1>3. TypeInv /\ AnswersOk => AnswersAreTrue
  BY AnswersOkIs
<1> QED BY <1>1, <1>2, <1>3, ChargesHold, PTL DEF Spec
-----------------------------------------------------------------------------
(***************************************************************************)
(* The account, step by step.                                              *)
(***************************************************************************)
\* What a facility step leaves alone.  Only closing sets the status CLOSED, and
\* nothing leaves it.
LEMMA FacilityMoves ==
    ASSUME TypeInv, FacilityStep
    PROVE  /\ account'.customerAdvance = account.customerAdvance
           /\ account'.reservedAdvance = account.reservedAdvance
           /\ account'.reservedCredit = account.reservedCredit
           /\ account'.unbilledCredit = account.unbilledCredit
           /\ account'.invoicedOutstanding = account.invoicedOutstanding
           /\ account'.status = "CLOSED"
                 => account.status = "CLOSED" \/ NothingReserved
           /\ \/ account'.approvedCreditLimit = account.approvedCreditLimit
              \/ UsedCredit <= account'.approvedCreditLimit
           /\ UNCHANGED <<reservation, received, settled>>
<1>0. UsedCredit \in Nat
  BY BalancesAreNat DEF TypeInv, UsedCredit
<1> USE DEF TypeInv, TypeOK, AccountType
<1>1. ASSUME NEW from, NEW to, SetStatus(from, to)
      PROVE  /\ account'.status = to
             /\ account'.customerAdvance = account.customerAdvance
             /\ account'.reservedAdvance = account.reservedAdvance
             /\ account'.reservedCredit = account.reservedCredit
             /\ account'.unbilledCredit = account.unbilledCredit
             /\ account'.invoicedOutstanding = account.invoicedOutstanding
             /\ account'.approvedCreditLimit = account.approvedCreditLimit
             /\ UNCHANGED <<reservation, received, settled>>
  BY <1>1 DEF SetStatus
<1>2. CASE closeAdminCreditAccount
  BY <1>1, <1>2 DEF closeAdminCreditAccount
<1>3. CASE \/ requestClientCredit \/ activateAdminCreditAccount
           \/ suspendAdminCreditAccount \/ reactivateAdminCreditAccount
           \/ rejectAdminCreditAccount \/ expireLapsedCreditAccounts
  BY <1>1, <1>3
     DEF requestClientCredit, activateAdminCreditAccount,
         suspendAdminCreditAccount, reactivateAdminCreditAccount,
         rejectAdminCreditAccount, expireLapsedCreditAccounts
<1>4. ASSUME NEW limit \in Limits, NEW operatorApproval \in BOOLEAN,
             approveAdminCreditAccount(limit, operatorApproval)
      PROVE  /\ account'.status # "CLOSED"
             /\ account'.customerAdvance = account.customerAdvance
             /\ account'.reservedAdvance = account.reservedAdvance
             /\ account'.reservedCredit = account.reservedCredit
             /\ account'.unbilledCredit = account.unbilledCredit
             /\ account'.invoicedOutstanding = account.invoicedOutstanding
             /\ UsedCredit <= account'.approvedCreditLimit
             /\ UNCHANGED <<reservation, received, settled>>
  <2>1. limit \in Nat /\ limit >= UsedCredit
    <3> HIDE DEF TypeInv, TypeOK, AccountType
    <3>1. limit \in Nat
      BY ConstantsAssumption
    <3> QED BY <1>4, <3>1 DEF approveAdminCreditAccount
  <2>2. account'.approvedCreditLimit = limit
    BY <1>4 DEF approveAdminCreditAccount
  <2>3. UsedCredit <= account'.approvedCreditLimit
    <3> HIDE DEF TypeInv, TypeOK, AccountType
    <3> QED BY <1>0, <2>1, <2>2
  <2> QED BY <1>4, <2>3 DEF approveAdminCreditAccount
<1>5. CASE ValidityPasses \/ DayPasses
  BY <1>5 DEF ValidityPasses, DayPasses
<1> QED BY <1>2, <1>3, <1>4, <1>5 DEF FacilityStep

\* Money that comes in is kept as Customer Advance or pays off debt.
LEMMA BalanceMoves ==
    ASSUME TypeInv, BalanceStep
    PROVE  /\ account'.customerAdvance + received = account.customerAdvance + received'
           /\ received' >= received
           /\ account'.unbilledCredit + account'.invoicedOutstanding + settled'
                 = account.unbilledCredit + account.invoicedOutstanding + settled
           /\ settled' >= settled
           /\ account'.reservedAdvance = account.reservedAdvance
           /\ account'.reservedCredit = account.reservedCredit
           /\ account'.approvedCreditLimit = account.approvedCreditLimit
           /\ account'.status = account.status
           /\ UNCHANGED reservation
<1> DEFINE moves(paid, billed, off) ==
             /\ paid \in Nat /\ billed \in Nat /\ off \in Nat
             /\ account'.customerAdvance = account.customerAdvance + paid
             /\ received' = received + paid
             /\ account'.unbilledCredit = account.unbilledCredit - billed
             /\ account'.invoicedOutstanding = account.invoicedOutstanding + billed - off
             /\ settled' = settled + off
           same ==
             /\ account'.reservedAdvance = account.reservedAdvance
             /\ account'.reservedCredit = account.reservedCredit
             /\ account'.approvedCreditLimit = account.approvedCreditLimit
             /\ account'.status = account.status
             /\ UNCHANGED reservation
<1>0. /\ received \in Nat /\ settled \in Nat /\ account \in AccountType
      /\ account.unbilledCredit \in Nat /\ account.invoicedOutstanding \in Nat
      /\ account.customerAdvance \in Nat
  BY DEF TypeInv, TypeOK, AccountType
<1>1. ASSUME NEW n \in Amounts, creditCapturedTopUp(n)
      PROVE  moves(n, 0, 0) /\ same
  BY <1>0, <1>1, ConstantsAssumption DEF creditCapturedTopUp, AccountType
<1>2. ASSUME NEW n \in 1 .. account.unbilledCredit, closeCreditBillingCycle(n)
      PROVE  moves(0, n, 0) /\ same
  BY <1>0, <1>2 DEF closeCreditBillingCycle, AccountType
<1>3. ASSUME NEW n \in Amounts, applyVerifiedCreditPayment(n)
      PROVE  moves(n - AppliedToStatements(n), 0, AppliedToStatements(n)) /\ same
  <2> DEFINE applied == AppliedToStatements(n)
  <2>1. applied \in Nat /\ n \in Nat /\ applied <= n
    BY <1>0, ConstantsAssumption DEF AppliedToStatements, Lesser
  <2>2. /\ account' = [account EXCEPT
                   !.invoicedOutstanding = account.invoicedOutstanding - applied,
                   !.customerAdvance = account.customerAdvance + (n - applied)]
        /\ received' = received + (n - applied) /\ settled' = settled + applied
        /\ UNCHANGED reservation
    BY <1>3 DEF applyVerifiedCreditPayment, Settle
  <2> HIDE DEF applied
  <2>3. moves(n - applied, 0, applied) /\ same
    BY <1>0, <2>1, <2>2 DEF AccountType
  <2> QED BY <2>3 DEF applied
<1>4. ASSUME NEW n \in 1 .. account.invoicedOutstanding, writeOffCreditStatement(n)
      PROVE  moves(0, 0, n) /\ same
  BY <1>0, <1>4 DEF writeOffCreditStatement, Settle, AccountType
<1> HIDE DEF moves, same
<1>5. PICK paid, billed, off : moves(paid, billed, off) /\ same
  BY <1>1, <1>2, <1>3, <1>4 DEF BalanceStep
<1> QED BY <1>0, <1>5 DEF moves, same

LEMMA TakenMoves ==
    ASSUME TypeInv, NEW p \in Callers, Taken(p), NEW a, a = call[p].attempt
    PROVE  /\ account'.customerAdvance = account.customerAdvance
           /\ account'.unbilledCredit = account.unbilledCredit
           /\ account'.invoicedOutstanding = account.invoicedOutstanding
           /\ account'.approvedCreditLimit = account.approvedCreditLimit
           /\ account'.status = account.status /\ account.status # "CLOSED"
           /\ received' = received /\ settled' = settled
           /\ reservation'[a].advance \in Nat /\ reservation'[a].credit \in Nat
           /\ reservation'[a].advance + reservation'[a].credit = Price[a]
           /\ reservation'[a].credit > 0
                 => UsedCredit + reservation'[a].credit <= account.approvedCreditLimit
<1> DEFINE x == Lesser(Price[a], AvailableAdvance)
           y == Price[a] - x
<1>1. /\ a \in Attempts /\ call[p].allowCredit \in BOOLEAN
      /\ CanReserve(a, call[p].allowCredit)
  BY RunningNamesHold DEF Taken, reserveBookingCapacity, TypeInv, TypeOK, CallType
<1>2. x \in Nat /\ y \in Nat /\ Price[a] \in Nat
  BY <1>1, SplitOfPrice, ConstantsAssumption
<1>3. y > 0 => UsedCredit + y <= account.approvedCreditLimit
  <2>1. Price[a] <= AvailableAdvance + AvailableCredit(call[p].allowCredit)
    BY <1>1 DEF CanReserve
  <2> QED
    BY <1>2, <2>1, BalancesAreNat
       DEF Lesser, AvailableAdvance, AvailableCredit, AtLeastZero, UsedCredit, TypeInv
<1>4. /\ account' = [account EXCEPT !.reservedAdvance = account.reservedAdvance + x,
                                    !.reservedCredit = account.reservedCredit + y]
      /\ received' = received /\ settled' = settled
  BY DEF Taken, reserveBookingCapacity
<1>5. /\ account'.customerAdvance = account.customerAdvance
      /\ account'.unbilledCredit = account.unbilledCredit
      /\ account'.invoicedOutstanding = account.invoicedOutstanding
      /\ account'.approvedCreditLimit = account.approvedCreditLimit
      /\ account'.status = account.status
  <2> HIDE DEF x, y
  <2> QED BY <1>4 DEF TypeInv, TypeOK, AccountType
<1>6. account.status # "CLOSED"
  BY <1>1 DEF CanReserve, BlockedStatuses
<1>7. reservation'[a].advance = x /\ reservation'[a].credit = y
  BY OneHoldTaken
<1>8. x + y = Price[a]
  <2> HIDE DEF x
  <2> QED BY <1>2
<1> HIDE DEF x, y
<1> QED BY <1>2, <1>3, <1>4, <1>5, <1>6, <1>7, <1>8

LEMMA TransitionMoves ==
    ASSUME TypeInv, NEW a \in Attempts, HoldStep(a)
    PROVE  /\ account'.approvedCreditLimit = account.approvedCreditLimit
           /\ account'.status = account.status
           /\ account'.invoicedOutstanding = account.invoicedOutstanding
           /\ \/ /\ Converted(a)
                 /\ account'.customerAdvance
                       = account.customerAdvance - reservation[a].advance
                 /\ account'.unbilledCredit
                       = account.unbilledCredit + reservation[a].credit
              \/ /\ ~ Converted(a)
                 /\ account'.customerAdvance = account.customerAdvance
                 /\ account'.unbilledCredit = account.unbilledCredit
<1>1. CASE Converted(a)
  BY <1>1 DEF Converted, SpendHold, TypeInv, TypeOK, AccountType
<1>2. CASE ~ Converted(a)
  BY <1>2 DEF HoldStep, Consumed, Dropped, Reviewed, GiveBack, TypeInv, TypeOK,
              AccountType
<1> QED BY <1>1, <1>2
-----------------------------------------------------------------------------
(***************************************************************************)
(* Conservation of money.                                                  *)
(***************************************************************************)
\* A step that converts nothing.
LEMMA NothingConverts ==
    ASSUME MoneyConserved, TypeInv,
           ConvertedHolds' = ConvertedHolds,
           \A a \in ConvertedHolds :
              /\ reservation'[a].advance = reservation[a].advance
              /\ reservation'[a].credit = reservation[a].credit,
           account'.customerAdvance + received = account.customerAdvance + received',
           account'.customerAdvance \in Nat, received' \in Nat,
           account'.unbilledCredit + account'.invoicedOutstanding + settled'
              = account.unbilledCredit + account.invoicedOutstanding + settled
    PROVE  MoneyConserved'
<1> DEFINE C == ConvertedHolds
           x == Total(C, advanceOf)
<1>1. \A a \in C : advanceOf'[a] = advanceOf[a] /\ creditOf'[a] = creditOf[a]
  BY DEF ConvertedHolds, advanceOf, creditOf
<1>2. /\ Total(C, advanceOf') = x
      /\ Total(C, creditOf') = Total(C, creditOf)
  <2> HIDE DEF C
  <2> QED BY <1>1, TotalSame
<1>3. IsFiniteSet(C) /\ \A a \in C : advanceOf[a] \in Nat
  <2>1. C \in SUBSET Attempts /\ IsFiniteSet(Attempts)
    BY ConstantsAssumption DEF ConvertedHolds
  <2> HIDE DEF C
  <2> QED BY <2>1, HoldsAreFinite, FS_Subset
<1>4. x \in Nat
  <2> HIDE DEF C
  <2> QED BY <1>3, TotalType
<1>5. account.customerAdvance + x = received /\ account.customerAdvance \in Nat
      /\ received \in Nat
  BY BalancesAreNat DEF MoneyConserved, TypeInv, TypeOK
<1>6. account'.customerAdvance + x = received'
  <2> HIDE DEF x
  <2> QED BY <1>4, <1>5
<1> QED BY <1>2, <1>6 DEF MoneyConserved

LEMMA HoldConverts ==
    ASSUME MoneyConserved, TypeInv, TypeInv', NEW a \in Attempts, Converted(a)
    PROVE  MoneyConserved'
<1> DEFINE C == ConvertedHolds
           adv == advanceOf'
           cred == creditOf'
<1>1. HoldStep(a) /\ reservation[a].status \in OpenStatuses /\ UNCHANGED moneyVars
  BY DEF HoldStep, Converted
<1>2. /\ reservation'[a].status = "CONVERTED"
      /\ \A b \in Attempts : b # a => reservation'[b] = reservation[b]
      /\ \A b \in Attempts : /\ reservation'[b].advance = reservation[b].advance
                             /\ reservation'[b].credit = reservation[b].credit
  BY <1>1, OneHoldMoves DEF Converted, SetReservation, TypeInv, TypeOK, ReservationType
<1>3. a \notin C /\ ConvertedHolds' = C \cup {a} /\ C \in SUBSET Attempts
  BY <1>1, <1>2 DEF ConvertedHolds, OpenStatuses
<1>4. IsFiniteSet(C)
  <2> HIDE DEF C
  <2> QED BY <1>3, FS_Subset, ConstantsAssumption
<1>5. \A b \in Attempts : /\ adv[b] \in Nat /\ cred[b] \in Nat
                          /\ adv[b] = advanceOf[b] /\ cred[b] = creditOf[b]
                          /\ adv[b] = reservation[b].advance
                          /\ cred[b] = reservation[b].credit
  BY <1>2 DEF advanceOf, creditOf, TypeInv, TypeOK, ReservationType
<1>6. /\ Total(C \cup {a}, adv) = Total(C, adv) + adv[a]
      /\ Total(C \cup {a}, cred) = Total(C, cred) + cred[a]
      /\ Total(C, adv) = Total(C, advanceOf) /\ Total(C, cred) = Total(C, creditOf)
      /\ Total(C, advanceOf) \in Nat /\ Total(C, creditOf) \in Nat
  <2>1. \A b \in C \cup {a} : adv[b] \in Nat /\ cred[b] \in Nat
    BY <1>3, <1>5
  <2>2. \A b \in C : /\ adv[b] = advanceOf[b] /\ cred[b] = creditOf[b]
                     /\ advanceOf[b] \in Nat /\ creditOf[b] \in Nat
    BY <1>3, <1>5
  <2> HIDE DEF C, adv, cred
  <2>3. /\ Total(C \cup {a}, adv) = Total(C, adv) + adv[a]
        /\ Total(C \cup {a}, cred) = Total(C, cred) + cred[a]
    BY <1>3, <1>4, <2>1, TotalAdd
  <2>4. Total(C, adv) = Total(C, advanceOf) /\ Total(C, cred) = Total(C, creditOf)
    BY <2>2, TotalSame
  <2>5. Total(C, advanceOf) \in Nat /\ Total(C, creditOf) \in Nat
    BY <1>4, <2>2, TotalType
  <2> QED BY <2>3, <2>4, <2>5
<1>7. /\ account'.customerAdvance = account.customerAdvance - adv[a]
      /\ account'.unbilledCredit = account.unbilledCredit + cred[a]
      /\ account'.invoicedOutstanding = account.invoicedOutstanding
  BY <1>1, <1>5, TransitionMoves
<1>8. /\ account.customerAdvance + Total(C, advanceOf) = received
      /\ account.unbilledCredit + account.invoicedOutstanding + settled
            = Total(C, creditOf)
  BY DEF MoneyConserved
<1>9. /\ account'.customerAdvance + Total(C \cup {a}, adv) = received'
      /\ account'.unbilledCredit + account'.invoicedOutstanding + settled'
            = Total(C \cup {a}, cred)
  <2>1. /\ account.customerAdvance \in Nat /\ account.unbilledCredit \in Nat
        /\ account.invoicedOutstanding \in Nat /\ settled \in Nat
        /\ adv[a] \in Nat /\ cred[a] \in Nat
    BY <1>5, BalancesAreNat DEF TypeInv, TypeOK
  <2>2. received' = received /\ settled' = settled
    BY <1>1
  <2> HIDE DEF C, adv, cred
  <2> QED BY <2>1, <2>2, <1>6, <1>7, <1>8
<1> QED BY <1>3, <1>9 DEF MoneyConserved

LEMMA MoneyNext ==
    ASSUME TypeInv, MoneyConserved, [Next]_vars
    PROVE  MoneyConserved'
<1> DEFINE same == /\ account'.customerAdvance + received
                         = account.customerAdvance + received'
                   /\ account'.unbilledCredit + account'.invoicedOutstanding + settled'
                         = account.unbilledCredit + account.invoicedOutstanding + settled
<1>1. TypeInv' /\ account'.customerAdvance \in Nat /\ received' \in Nat
  BY TypeNext DEF TypeInv, TypeOK, AccountType
<1>2. ASSUME same,
             \A a \in Attempts : \/ UNCHANGED Portions(a)
                                 \/ /\ reservation[a].status # "CONVERTED"
                                    /\ reservation'[a].status # "CONVERTED"
      PROVE  MoneyConserved'
  <2>1. \A a \in Attempts :
           reservation[a].status = "CONVERTED" \/ reservation'[a].status = "CONVERTED"
             => UNCHANGED Portions(a)
    BY <1>2
  <2>2. ConvertedHolds' = ConvertedHolds
    BY <2>1 DEF ConvertedHolds, Portions
  <2>3. \A a \in ConvertedHolds :
              /\ reservation'[a].advance = reservation[a].advance
              /\ reservation'[a].credit = reservation[a].credit
    BY <2>1 DEF ConvertedHolds, Portions
  <2> QED BY <1>1, <1>2, <2>2, <2>3, NothingConverts
<1>3. ASSUME HoldsKept, same PROVE MoneyConserved'
  BY <1>2, <1>3 DEF HoldsKept
<1>4. CASE UNCHANGED vars
  BY <1>3, <1>4 DEF vars, HoldsKept, Portions
<1>5. CASE FacilityStep
  <2>1. same
    BY <1>5, FacilityMoves
  <2> QED BY <1>3, <1>5, <2>1, OtherSteps
<1>6. CASE BalanceStep
  <2>1. same
    BY <1>6, BalanceMoves
  <2> QED BY <1>3, <1>6, <2>1, OtherSteps
<1>7. ASSUME NEW p \in Callers, BeginCall(p) PROVE MoneyConserved'
  <2>1. same
    BY <1>7 DEF BeginCall, BeginReserve, BeginOnCharge
  <2> QED BY <1>3, <1>7, <2>1, OtherSteps
<1>8. ASSUME NEW a \in Attempts, HoldStep(a) PROVE MoneyConserved'
  <2>1. CASE Converted(a)
    BY <1>1, <2>1, HoldConverts
  <2>2. CASE ~ Converted(a)
    <3>1. same
      BY <1>8, <2>2, TransitionMoves DEF HoldStep, Consumed, Dropped, Reviewed
    <3>2. reservation[a].status # "CONVERTED" /\ reservation'[a].status # "CONVERTED"
      BY <1>8, <2>2, OneHoldMoves DEF OpenStatuses
    <3>3. \A b \in Attempts : b # a => UNCHANGED Portions(b)
      BY <1>8, OneHoldMoves DEF Portions
    <3> QED BY <1>2, <3>1, <3>2, <3>3
  <2> QED BY <2>1, <2>2
<1>9. ASSUME NEW p \in Callers, CallStep(p) PROVE MoneyConserved'
  <2>1. CASE Taken(p)
    <3>1. PICK a : a = call[p].attempt
      OBVIOUS
    <3>2. same
      BY <1>9, <2>1, <3>1, TakenMoves
    <3>3. reservation[a].status = "NONE" /\ reservation'[a].status = "ACTIVE"
      BY <2>1, <3>1, OneHoldTaken
    <3>4. \A b \in Attempts : b # a => UNCHANGED Portions(b)
      BY <2>1, <3>1, OneHoldTaken DEF Portions
    <3> QED BY <1>2, <3>2, <3>3, <3>4
  <2>2. CASE HoldsKept /\ UNCHANGED <<account, received, settled>>
    BY <1>3, <2>2
  <2> QED BY <1>8, <1>9, <2>1, <2>2, CallsHold
<1>10. ASSUME NEW a \in Attempts, SweepStep(a) PROVE MoneyConserved'
  <2>1. CASE HoldsKept /\ UNCHANGED <<account, received, settled>>
    BY <1>3, <2>1
  <2> QED BY <1>8, <1>10, <2>1, Sweeps
<1> QED BY <1>4, <1>5, <1>6, <1>7, <1>9, <1>10 DEF Next

\* Every minor unit that was paid in is still there or was spent by exactly one
\* conversion, and every minor unit converted on credit is owed or was settled.
THEOREM MoneyNeverLost == Spec => []MoneyConserved
<1>1. Init => MoneyConserved
  <2> SUFFICES ASSUME Init PROVE MoneyConserved
    OBVIOUS
  <2>1. ConvertedHolds = {}
    BY DEF Init, ConvertedHolds, NoReservation
  <2> QED BY <2>1, TotalEmpty DEF Init, MoneyConserved
<1>2. Init => TypeInv /\ MoneyConserved
  BY <1>1, TypeInit
<1>3. TypeInv /\ MoneyConserved /\ [Next]_vars => (TypeInv /\ MoneyConserved)'
  BY TypeNext, MoneyNext
<1> QED BY <1>2, <1>3, PTL DEF Spec
-----------------------------------------------------------------------------
(***************************************************************************)
(* Closing.                                                                *)
(***************************************************************************)
\* An open hold holds its attempt's price: closing sees it in the totals.
Priced == \A a \in OpenHolds :
             reservation[a].advance + reservation[a].credit = Price[a]

LEMMA NothingReservedNothingOpen ==
    ASSUME TypeInv, HoldsBacked, Priced, NothingReserved
    PROVE  OpenHolds = {}
<1> SUFFICES ASSUME NEW a \in OpenHolds PROVE FALSE
  OBVIOUS
<1> DEFINE H == OpenHolds
<1>1. IsFiniteSet(H) /\ a \in H /\ a \in Attempts /\ H \subseteq Attempts
  BY HoldsAreFinite DEF OpenHolds
<1>2. \A b \in H : advanceOf[b] \in Nat /\ creditOf[b] \in Nat
  BY <1>1, HoldsAreFinite
<1>3. advanceOf[a] <= Total(H, advanceOf) /\ creditOf[a] <= Total(H, creditOf)
  <2> HIDE DEF H
  <2> QED BY <1>1, <1>2, TotalRemove
<1>4. advanceOf[a] <= 0 /\ creditOf[a] <= 0
  BY <1>3 DEF HoldsBacked, NothingReserved
<1>5. advanceOf[a] + creditOf[a] = Price[a] /\ Price[a] \in Nat \ {0}
  BY <1>1, ConstantsAssumption DEF Priced, advanceOf, creditOf
<1> QED BY <1>2, <1>4, <1>5, <1>1

ClosedInv == Priced /\ ClosedHoldsNothing

LEMMA ClosedNext ==
    ASSUME TypeInv, HoldsBacked, ClosedInv, [Next]_vars
    PROVE  ClosedInv'
<1>1. ASSUME HoldsKept PROVE OpenHolds' = OpenHolds /\ Priced'
  <2>1. OpenHolds' = OpenHolds
    BY <1>1 DEF HoldsKept, Portions, OpenHolds
  <2> QED BY <1>1, <2>1 DEF HoldsKept, Portions, OpenHolds, ClosedInv, Priced
<1>2. ASSUME HoldsKept, account'.status = account.status PROVE ClosedInv'
  BY <1>1, <1>2 DEF ClosedInv, ClosedHoldsNothing
<1>3. CASE UNCHANGED vars
  BY <1>2, <1>3 DEF vars, HoldsKept, Portions
<1>4. CASE FacilityStep
  <2>1. HoldsKept
    BY <1>4, OtherSteps
  <2>2. account'.status = "CLOSED" => OpenHolds = {}
    BY <1>4, FacilityMoves, NothingReservedNothingOpen
       DEF ClosedInv, ClosedHoldsNothing
  <2> QED BY <1>1, <2>1, <2>2 DEF ClosedInv, ClosedHoldsNothing
<1>5. CASE BalanceStep
  BY <1>2, <1>5, OtherSteps, BalanceMoves
<1>6. ASSUME NEW p \in Callers, BeginCall(p) PROVE ClosedInv'
  <2>1. UNCHANGED account
    BY <1>6 DEF BeginCall, BeginReserve, BeginOnCharge
  <2> QED BY <1>2, <1>6, <2>1, OtherSteps
<1>7. ASSUME NEW a \in Attempts, HoldStep(a) PROVE ClosedInv'
  <2>1. /\ reservation[a].status \in OpenStatuses
        /\ \A b \in Attempts : b # a => reservation'[b] = reservation[b]
        /\ \A b \in Attempts : /\ reservation'[b].advance = reservation[b].advance
                               /\ reservation'[b].credit = reservation[b].credit
    BY <1>7, OneHoldMoves
  <2>2. OpenHolds' \subseteq OpenHolds
    BY <2>1 DEF OpenHolds
  <2>3. account'.status = account.status
    BY <1>7, TransitionMoves
  <2>4. Priced'
    BY <2>1, <2>2 DEF ClosedInv, Priced, OpenHolds
  <2> QED BY <2>2, <2>3, <2>4 DEF ClosedInv, ClosedHoldsNothing
<1>8. ASSUME NEW p \in Callers, CallStep(p) PROVE ClosedInv'
  <2>1. CASE Taken(p)
    <3>1. PICK a : a = call[p].attempt
      OBVIOUS
    <3>2. account'.status # "CLOSED"
      BY <2>1, <3>1, TakenMoves
    <3>3. reservation'[a].advance + reservation'[a].credit = Price[a]
      BY <2>1, <3>1, TakenMoves
    <3>4. \A b \in Attempts : b # a => reservation'[b] = reservation[b]
      BY <2>1, <3>1, OneHoldTaken
    <3>5. Priced'
      BY <3>3, <3>4 DEF ClosedInv, Priced, OpenHolds
    <3> QED BY <3>2, <3>5 DEF ClosedInv, ClosedHoldsNothing
  <2>2. CASE HoldsKept /\ UNCHANGED <<account, received, settled>>
    BY <1>2, <2>2
  <2> QED BY <1>7, <1>8, <2>1, <2>2, CallsHold
<1>9. ASSUME NEW a \in Attempts, SweepStep(a) PROVE ClosedInv'
  <2>1. CASE HoldsKept /\ UNCHANGED <<account, received, settled>>
    BY <1>2, <2>1
  <2> QED BY <1>7, <1>9, <2>1, Sweeps
<1> QED BY <1>3, <1>4, <1>5, <1>6, <1>8, <1>9 DEF Next

\* Closing is safe although it looks at two totals only: they are zero just
\* when no hold is open, and a closed facility accepts no new one.
THEOREM ClosingStrandsNothing == Spec => []ClosedHoldsNothing
<1>1. Init => ClosedInv
  BY DEF Init, ClosedInv, Priced, ClosedHoldsNothing, OpenHolds, OpenStatuses,
         NoReservation
<1>2. Init => TypeInv
  BY TypeInit
<1>3. TypeInv /\ HoldsBacked /\ ClosedInv /\ [Next]_vars => ClosedInv'
  BY ClosedNext
<1>4. ClosedInv => ClosedHoldsNothing
  BY DEF ClosedInv
<1> QED BY <1>1, <1>2, <1>3, <1>4, TypeNext, TotalsNeverDrift, PTL DEF Spec
-----------------------------------------------------------------------------
(***************************************************************************)
(* The engine implements BookingFunds.                                     *)
(***************************************************************************)
\* What BookingFunds sees of the engine.
Seen(a) == [stage |-> Stage(reservation[a].status),
            advance |-> reservation[a].advance,
            credit |-> reservation[a].credit]
HoldsSeen == [a \in Attempts |-> Seen(a)]
Debt == account.unbilledCredit + account.invoicedOutstanding

LEMMA FundsSeen ==
    /\ Funds!fundsVars = <<account.customerAdvance, Debt,
                           account.approvedCreditLimit, HoldsSeen>>
    /\ \A a \in Attempts : /\ HoldsSeen[a].stage = Stage(reservation[a].status)
                           /\ HoldsSeen[a].advance = reservation[a].advance
                           /\ HoldsSeen[a].credit = reservation[a].credit
BY DEF Funds!fundsVars, Debt, HoldsSeen, Seen

LEMMA StageIs ==
    ASSUME NEW is \in ReservationStatuses
    PROVE  /\ Stage(is) = "none" <=> is = "NONE"
           /\ Stage(is) = "held" <=> is \in OpenStatuses
           /\ Stage(is) = "taken" <=> is = "CONVERTED"
           /\ Stage(is) = "freed" <=> is \in {"RELEASED", "EXPIRED"}
<1> USE DEF OpenStatuses, Stage
<1>1. CASE is = "NONE"
  BY <1>1
<1>2. CASE is \in OpenStatuses
  BY <1>2
<1>3. CASE is = "CONVERTED"
  BY <1>3
<1>4. CASE is \in {"RELEASED", "EXPIRED"}
  BY <1>4
<1> QED BY <1>1, <1>2, <1>3, <1>4 DEF ReservationStatuses

\* What BookingFunds counts is what the running totals say.
LEMMA CountedIsReserved ==
    ASSUME TypeInv, HoldsBacked
    PROVE  /\ Funds!HeldAdvance = account.reservedAdvance
           /\ Funds!HeldCredit = account.reservedCredit
<1>1. ASSUME NEW S, NEW amount PROVE Funds!Total(S, amount) = Total(S, amount)
  BY DEF Funds!Total, Funds!Units, Funds!Cardinality, Total, Units, Cardinality
<1>2. Funds!Held = OpenHolds
  <2>1. \A a \in Attempts : reservation[a].status \in ReservationStatuses
    BY DEF TypeInv, TypeOK, ReservationType
  <2>2. Funds!Held = {a \in Attempts : HoldsSeen[a].stage = "held"}
    BY DEF Funds!Held, HoldsSeen, Seen
  <2> QED BY <2>1, <2>2, FundsSeen, StageIs DEF OpenHolds
<1>3. /\ Funds!HeldAdvance
            = Funds!Total(Funds!Held, [a \in Attempts |-> HoldsSeen[a].advance])
      /\ Funds!HeldCredit
            = Funds!Total(Funds!Held, [a \in Attempts |-> HoldsSeen[a].credit])
  BY DEF Funds!HeldAdvance, Funds!HeldCredit, HoldsSeen, Seen
<1>4. /\ [a \in Attempts |-> HoldsSeen[a].advance] = advanceOf
      /\ [a \in Attempts |-> HoldsSeen[a].credit] = creditOf
  BY FundsSeen DEF advanceOf, creditOf
<1> QED BY <1>1, <1>2, <1>3, <1>4 DEF HoldsBacked

FundsStep == Funds!FundsNext \/ UNCHANGED Funds!fundsVars

LEMMA FundsStutter ==
    ASSUME HoldsKept, account'.customerAdvance = account.customerAdvance,
           Debt' = Debt, account'.approvedCreditLimit = account.approvedCreditLimit
    PROVE  UNCHANGED Funds!fundsVars
<1>1. HoldsSeen' = HoldsSeen
  BY DEF HoldsSeen, Seen, HoldsKept, Portions
<1> QED BY <1>1 DEF Funds!fundsVars, HoldsSeen, Seen, Debt

\* A transition of one hold, as BookingFunds sees it.
LEMMA StageMoves ==
    ASSUME TypeInv, NEW a \in Attempts, HoldStep(a)
    PROVE  /\ HoldsSeen[a].stage = "held"
           /\ HoldsSeen'[a].stage = Stage(reservation'[a].status)
           /\ HoldsSeen' = [HoldsSeen EXCEPT ![a].stage = Stage(reservation'[a].status)]
<1>1. /\ reservation[a].status \in OpenStatuses
      /\ \A b \in Attempts : b # a => reservation'[b] = reservation[b]
      /\ \A b \in Attempts : /\ reservation'[b].advance = reservation[b].advance
                             /\ reservation'[b].credit = reservation[b].credit
  BY OneHoldMoves
<1>2. HoldsSeen[a].stage = "held"
  <2>1. reservation[a].status \in ReservationStatuses
    BY <1>1 DEF ReservationStatuses
  <2>2. Stage(reservation[a].status) = "held"
    BY <1>1, <2>1, StageIs
  <2> QED BY <2>2 DEF HoldsSeen, Seen
<1>3. HoldsSeen'[a].stage = Stage(reservation'[a].status)
  BY DEF HoldsSeen, Seen
<1>4. HoldsSeen' = [HoldsSeen EXCEPT ![a].stage = Stage(reservation'[a].status)]
  <2> DEFINE is(b) == Stage(reservation[b].status)
             adv(b) == reservation[b].advance
             cred(b) == reservation[b].credit
  <2>1. HoldsSeen' = [b \in Attempts |-> [stage |-> is(b)', advance |-> adv(b),
                                          credit |-> cred(b)]]
    BY <1>1 DEF HoldsSeen, Seen
  <2>2. \A b \in Attempts : b # a => is(b)' = is(b)
    BY <1>1
  <2>3. HoldsSeen = [b \in Attempts |-> [stage |-> is(b), advance |-> adv(b),
                                         credit |-> cred(b)]]
    BY DEF HoldsSeen, Seen
  <2> HIDE DEF is, adv, cred
  <2>4. HoldsSeen' = [HoldsSeen EXCEPT ![a].stage = is(a)']
    BY <2>1, <2>2, <2>3
  <2> QED BY <2>4 DEF is
<1> QED BY <1>2, <1>3, <1>4

LEMMA FundsHold ==
    ASSUME TypeInv, HoldsBacked, Capacity, ChargesOk,
           NEW p \in Callers, Taken(p), NEW a, a = call[p].attempt
    PROVE  a \in Attempts /\ Funds!Hold(a)
<1> DEFINE x == Lesser(Price[a], AvailableAdvance)
           y == Price[a] - x
<1>1. /\ a \in Attempts /\ reservation[a].status = "NONE"
      /\ reservation'[a].status = "ACTIVE"
      /\ reservation'[a].advance = x /\ reservation'[a].credit = y
      /\ \A b \in Attempts : b # a => reservation'[b] = reservation[b]
      /\ \A b \in OpenHolds : DraftOf[b] # DraftOf[a]
      /\ charge[DraftOf[a]].status \in {"NONE", "REVERSED"}
  BY OneHoldTaken
<1>2. HoldsSeen[a].stage = "none" /\ HoldsSeen'[a].stage = "held"
  <2>1. Stage("NONE") = "none" /\ Stage("ACTIVE") = "held"
    BY StageIs DEF ReservationStatuses, OpenStatuses
  <2> QED BY <1>1, <2>1 DEF HoldsSeen, Seen
<1>3. /\ account'.customerAdvance = account.customerAdvance
      /\ Debt' = Debt
      /\ account'.approvedCreditLimit = account.approvedCreditLimit
  BY TakenMoves DEF Debt
<1>4. ASSUME NEW b \in Attempts, DraftOf[b] = DraftOf[a]
      PROVE  HoldsSeen[b].stage \notin {"held", "taken"}
  <2>1. reservation[b].status \notin OpenStatuses
    BY <1>1, <1>4 DEF OpenHolds
  <2>2. reservation[b].status # "CONVERTED"
    <3> SUFFICES ASSUME reservation[b].status = "CONVERTED" PROVE FALSE
      OBVIOUS
    <3>1. charge[DraftOf[b]].hold = b /\ DraftOf[b] \in Drafts /\ b # NoHold
      BY ConstantsAssumption DEF ChargesOk, Live
    <3>2. ChargeSays(DraftOf[b])
      BY <3>1 DEF ChargesOk
    <3> QED BY <1>1, <1>4, <3>1, <3>2 DEF ChargeSays, Agrees
  <2>3. reservation[b].status \in ReservationStatuses
    BY DEF TypeInv, TypeOK, ReservationType
  <2> QED BY <2>1, <2>2, <2>3, FundsSeen, StageIs
<1>5. x = Lesser(Price[a], account.customerAdvance - Funds!HeldAdvance)
  <2>1. account.reservedAdvance <= account.customerAdvance
    BY DEF Capacity, AdvanceCovered
  <2>2. AvailableAdvance = account.customerAdvance - account.reservedAdvance
    BY <2>1, BalancesAreNat DEF AvailableAdvance, AtLeastZero, TypeInv
  <2> QED BY <2>2, CountedIsReserved
<1>6. y > 0 => Debt + Funds!HeldCredit + y <= account.approvedCreditLimit
  <2>1. y > 0 => UsedCredit + y <= account.approvedCreditLimit
    BY <1>1, TakenMoves
  <2>2. y \in Nat
    BY <1>1, TakenMoves
  <2> HIDE DEF y
  <2> QED BY <2>1, <2>2, CountedIsReserved, BalancesAreNat DEF UsedCredit, Debt, TypeInv
<1>7. HoldsSeen' = [HoldsSeen EXCEPT ![a] = [stage |-> "held", advance |-> x,
                                            credit |-> y]]
  <2>1. HoldsSeen'[a] = [stage |-> "held", advance |-> x, credit |-> y]
    <3>1. HoldsSeen'[a] = Seen(a)'
      BY <1>1 DEF HoldsSeen
    <3>2. Stage("ACTIVE") = "held"
      BY StageIs DEF ReservationStatuses, OpenStatuses
    <3> HIDE DEF x, y
    <3> QED BY <1>1, <3>1, <3>2 DEF Seen
  <2>2. \A b \in Attempts : b # a => HoldsSeen'[b] = HoldsSeen[b]
    BY <1>1 DEF HoldsSeen, Seen
  <2>3. HoldsSeen' = [b \in Attempts |-> HoldsSeen'[b]]
        /\ HoldsSeen = [b \in Attempts |-> HoldsSeen[b]]
    BY DEF HoldsSeen
  <2> DEFINE r == [stage |-> "held", advance |-> x, credit |-> y]
  <2> HIDE DEF r
  <2>4. HoldsSeen'[a] = r
    BY <2>1 DEF r
  <2>5. HoldsSeen' = [HoldsSeen EXCEPT ![a] = r]
    BY <2>2, <2>3, <2>4
  <2> QED BY <2>5 DEF r
<1>8. \A m, n : Funds!Lesser(m, n) = Lesser(m, n)
  BY DEF Funds!Lesser, Lesser
<1> QED
  <2> HIDE DEF x
  <2> QED
    BY <1>1, <1>2, <1>3, <1>4, <1>5, <1>6, <1>7, <1>8
       DEF Funds!Hold, HoldsSeen, Seen, Debt

LEMMA FundsTransition ==
    ASSUME TypeInv, NEW a \in Attempts, HoldStep(a)
    PROVE  FundsStep
<1>1. /\ HoldsSeen[a].stage = "held"
      /\ HoldsSeen'[a].stage = Stage(reservation'[a].status)
      /\ HoldsSeen' = [HoldsSeen EXCEPT ![a].stage = Stage(reservation'[a].status)]
  BY StageMoves
<1>2. /\ account'.approvedCreditLimit = account.approvedCreditLimit
      /\ account'.invoicedOutstanding = account.invoicedOutstanding
  BY TransitionMoves
<1>3. CASE Converted(a)
  <2>1. Stage(reservation'[a].status) = "taken"
    BY <1>3, OneHoldMoves, StageIs DEF ReservationStatuses, Converted, SetReservation,
       TypeInv, TypeOK, ReservationType
  <2>2. /\ account'.customerAdvance = account.customerAdvance - HoldsSeen[a].advance
        /\ Debt' = Debt + HoldsSeen[a].credit
    <3>1. /\ account.unbilledCredit \in Nat /\ account.invoicedOutstanding \in Nat
          /\ reservation[a].credit \in Nat
      BY BalancesAreNat DEF TypeInv, TypeOK, ReservationType
    <3>2. /\ HoldsSeen[a].advance = reservation[a].advance
          /\ HoldsSeen[a].credit = reservation[a].credit
      BY DEF HoldsSeen, Seen
    <3> QED BY <1>2, <1>3, <3>1, <3>2, TransitionMoves DEF Debt
  <2>3. Funds!Take(a)
    BY <1>1, <1>2, <2>1, <2>2 DEF Funds!Take, Funds!Advance, HoldsSeen, Seen, Debt
  <2> QED BY <2>3 DEF FundsStep, Funds!FundsNext
<1>4. CASE ~ Converted(a)
  <2>1. account'.customerAdvance = account.customerAdvance /\ Debt' = Debt
    BY <1>2, <1>4, TransitionMoves DEF Debt
  <2>2. CASE reservation'[a].status \in {"RELEASED", "EXPIRED"}
    <3>1. Stage(reservation'[a].status) = "freed"
      BY <2>2, StageIs DEF ReservationStatuses
    <3>2. Funds!Free(a)
      BY <1>1, <1>2, <2>1, <3>1 DEF Funds!Free, Funds!Advance, HoldsSeen, Seen, Debt
    <3> QED BY <3>2 DEF FundsStep, Funds!FundsNext
  <2>3. CASE reservation'[a].status \in {"CONSUMING", "REVIEW_REQUIRED"}
    <3>1. Stage(reservation'[a].status) = "held"
      BY <2>3, StageIs DEF ReservationStatuses, OpenStatuses
    <3>2. HoldsSeen' = HoldsSeen
      <4> DEFINE is == Stage(reservation'[a].status)
      <4>1. HoldsSeen = [b \in Attempts |-> HoldsSeen[b]]
            /\ HoldsSeen[a] = [stage |-> HoldsSeen[a].stage,
                               advance |-> reservation[a].advance,
                               credit |-> reservation[a].credit]
        BY DEF HoldsSeen, Seen
      <4>2. HoldsSeen' = [HoldsSeen EXCEPT ![a].stage = HoldsSeen[a].stage]
        BY <1>1, <3>1
      <4>3. [HoldsSeen[a] EXCEPT !.stage = HoldsSeen[a].stage] = HoldsSeen[a]
        BY <4>1
      <4> QED BY <4>1, <4>2, <4>3
    <3>3. UNCHANGED Funds!fundsVars
      BY <1>2, <2>1, <3>2, FundsSeen DEF Funds!fundsVars, HoldsSeen, Seen, Debt
    <3> QED BY <3>3 DEF FundsStep
  <2> QED BY <1>4, <2>2, <2>3, OneHoldMoves
<1> QED BY <1>3, <1>4

FundsInv == TypeInv /\ HoldsBacked /\ Capacity /\ ChargesOk

LEMMA FundsSteps ==
    ASSUME FundsInv, [Next]_vars
    PROVE  FundsStep
<1> USE DEF FundsInv
<1>1. ASSUME HoldsKept, UNCHANGED account PROVE FundsStep
  BY <1>1, FundsStutter DEF FundsStep, Debt
<1>2. CASE UNCHANGED vars
  BY <1>1, <1>2 DEF vars, HoldsKept, Portions
<1>3. ASSUME HoldsKept PROVE HoldsSeen' = HoldsSeen
  BY <1>3 DEF HoldsSeen, Seen, HoldsKept, Portions
<1>4. CASE FacilityStep
  <2>1. /\ account'.customerAdvance = account.customerAdvance /\ Debt' = Debt
        /\ HoldsKept
    BY <1>4, OtherSteps, FacilityMoves DEF Debt
  <2>2. CASE account'.approvedCreditLimit = account.approvedCreditLimit
    BY <2>1, <2>2, FundsStutter DEF FundsStep
  <2>3. CASE account'.approvedCreditLimit # account.approvedCreditLimit
    <3>1. UsedCredit <= account'.approvedCreditLimit
      BY <1>4, <2>3, FacilityMoves
    <3>2. UsedCredit = Debt + Funds!HeldCredit
      BY CountedIsReserved, BalancesAreNat DEF UsedCredit, Debt, TypeInv
    <3>3. account'.approvedCreditLimit >= Debt + Funds!HeldCredit
      <4>1. UsedCredit \in Nat /\ account'.approvedCreditLimit \in Nat
        <5>1. TypeOK /\ TypeOK'
          BY TypeNext DEF FundsInv, TypeInv
        <5> QED BY <5>1, BalancesAreNat, BalancesStayNat DEF UsedCredit
      <4> QED BY <3>1, <3>2, <4>1
    <3>4. Funds!SetLine
      BY <1>3, <2>1, <2>3, <3>3 DEF Funds!SetLine, HoldsSeen, Seen, Debt
    <3> QED BY <3>4 DEF FundsStep, Funds!FundsNext
  <2> QED BY <2>2, <2>3
<1>5. CASE BalanceStep
  <2>1. HoldsSeen' = HoldsSeen
    BY <1>3, <1>5, OtherSteps
  <2>2. /\ account'.customerAdvance >= account.customerAdvance
        /\ Debt' \in 0 .. Debt
        /\ account'.approvedCreditLimit = account.approvedCreditLimit
    <3>1. TypeInv'
      BY TypeNext
    <3>2. /\ account.customerAdvance \in Nat /\ account'.customerAdvance \in Nat
          /\ received \in Nat /\ received' \in Nat
          /\ settled \in Nat /\ settled' \in Nat
          /\ Debt \in Nat /\ Debt' \in Nat
      <4>1. TypeOK /\ TypeOK'
        BY <3>1 DEF FundsInv, TypeInv
      <4>2. /\ received \in Nat /\ received' \in Nat
            /\ settled \in Nat /\ settled' \in Nat
        BY <4>1 DEF TypeOK
      <4> QED BY <4>1, <4>2, BalancesAreNat, BalancesStayNat DEF Debt
    <3>3. Debt' + settled' = Debt + settled
      BY <1>5, BalanceMoves DEF Debt
    <3>4. /\ account'.customerAdvance + received = account.customerAdvance + received'
          /\ received' >= received /\ settled' >= settled
          /\ account'.approvedCreditLimit = account.approvedCreditLimit
      BY <1>5, BalanceMoves
    <3>5. account'.customerAdvance >= account.customerAdvance
      BY <3>2, <3>4
    <3>6. Debt' \in 0 .. Debt
      <4>1. ASSUME NEW d \in Nat, NEW e \in Nat, NEW s \in Nat, NEW t \in Nat,
                   e + t = d + s, t >= s
            PROVE  e \in 0 .. d
        BY <4>1
      <4> QED BY <4>1, <3>2, <3>3, <3>4
    <3> QED BY <3>4, <3>5, <3>6
  <2>3. Funds!PayIn
    BY <2>1, <2>2 DEF Funds!PayIn, HoldsSeen, Seen, Debt
  <2> QED BY <2>3 DEF FundsStep, Funds!FundsNext
<1>6. ASSUME NEW p \in Callers, BeginCall(p) PROVE FundsStep
  <2>1. UNCHANGED account
    BY <1>6 DEF BeginCall, BeginReserve, BeginOnCharge
  <2> QED BY <1>1, <1>6, <2>1, OtherSteps
<1>7. ASSUME NEW p \in Callers, CallStep(p) PROVE FundsStep
  <2>1. CASE Taken(p)
    <3>1. PICK a : a = call[p].attempt
      OBVIOUS
    <3> QED BY <2>1, <3>1, FundsHold DEF FundsStep, Funds!FundsNext
  <2>2. CASE HoldsKept /\ UNCHANGED <<account, received, settled>>
    BY <1>1, <2>2
  <2> QED BY <1>7, <2>1, <2>2, CallsHold, FundsTransition
<1>8. ASSUME NEW a \in Attempts, SweepStep(a) PROVE FundsStep
  <2>1. CASE HoldsKept /\ UNCHANGED <<account, received, settled>>
    BY <1>1, <2>1
  <2> QED BY <1>8, <2>1, Sweeps, FundsTransition
<1> QED BY <1>2, <1>4, <1>5, <1>6, <1>7, <1>8 DEF Next

\* The engine implements BookingFunds: its running totals, charges, retries and
\* sweeps amount to holding, taking and freeing what is counted from the holds
\* themselves.
THEOREM EngineImplementsFunds == Spec => ImplementsFunds
<1>1. Init => Funds!FundsInit
  <2> SUFFICES ASSUME Init PROVE Funds!FundsInit
    OBVIOUS
  <2>1. \A a \in Attempts : Seen(a) = [stage |-> "none", advance |-> 0, credit |-> 0]
    <3>1. Stage("NONE") = "none"
      BY StageIs DEF ReservationStatuses
    <3> QED BY <3>1 DEF Init, Seen, NoReservation
  <2>2. HoldsSeen = [a \in Attempts |-> Funds!NoFundsHold]
    BY <2>1 DEF HoldsSeen, Funds!NoFundsHold
  <2> QED BY <2>2 DEF Init, Funds!FundsInit, HoldsSeen, Seen
<1>2. FundsInv /\ [Next]_vars => [Funds!FundsNext]_Funds!fundsVars
  BY FundsSteps DEF FundsStep
<1>3. Spec => []FundsInv
  BY TotalsNeverDrift, CapacityHolds, ChargesHold, PTL DEF FundsInv
<1> QED BY <1>1, <1>2, <1>3, PTL DEF Spec, ImplementsFunds, Funds!FundsSpec
=============================================================================
