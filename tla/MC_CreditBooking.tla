-------------------------- MODULE MC_CreditBooking --------------------------
(***************************************************************************)
(* Small instances of CreditBooking.  Spec itself is run with one caller:  *)
(* every administrative and balance step then falls between the two halves *)
(* of a billing call.  RaceSpec keeps an approved facility as it is and    *)
(* lets two callers and the sweep race for it: two attempts of one draft   *)
(* and one of another, for a capacity that does not cover them all.        *)
(***************************************************************************)
EXTENDS CreditBooking, TLC

CONSTANTS a1, a2, a3, d1, d2

MCAttempts == {a1, a2, a3}
MCDrafts == {d1, d2}
MCDraftOf == a1 :> d1 @@ a2 :> d1 @@ a3 :> d2
MCPrice == a1 :> 1 @@ a2 :> 1 @@ a3 :> 2
\* Callers are alike, and so are the two attempts of d1.
Symmetry == Permutations(Callers) \cup Permutations({a1, a2})

\* One attempt of each of two drafts.
PairAttempts == {a1, a3}
PairDraftOf == a1 :> d1 @@ a3 :> d2
PairPrice == a1 :> 2 @@ a3 :> 1

\* A facility active with one of the limits, after MaxReceived was paid in.
RaceInit ==
    /\ \E limit \in Limits :
          account = [status |-> "ACTIVE", approvedCreditLimit |-> limit,
                     reservedCredit |-> 0, unbilledCredit |-> 0,
                     invoicedOutstanding |-> 0,
                     customerAdvance |-> MaxReceived, reservedAdvance |-> 0]
    /\ validity = "open"
    /\ overdueDays = NotOverdue
    /\ reservation = [a \in Attempts |-> NoReservation]
    /\ charge = [d \in Drafts |-> NoCharge]
    /\ ledger = [a \in Attempts |-> <<>>]
    /\ call = [p \in Callers |-> Idle]
    /\ received = MaxReceived /\ settled = 0

RaceNext ==
    \/ \E p \in Callers : BeginCall(p) \/ CallStep(p)
    \/ \E a \in Attempts : SweepStep(a)

RaceSpec == RaceInit /\ [][RaceNext]_vars
=============================================================================
