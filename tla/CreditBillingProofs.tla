------------------------- MODULE CreditBillingProofs ------------------------
(***************************************************************************)
(* The invariants of CreditBilling, for every set of shipments, totals,    *)
(* fees and payments, and for every bound.  The inductive invariant is     *)
(* TypeInv /\ BilledOnce: the types, the shape of every document and       *)
(* the link between a document and its statement.  StatementsAddUp and the *)
(* three sums are each kept by every step from a state where TypeInv and   *)
(* BilledOnce hold.                                                        *)
(***************************************************************************)
EXTENDS CreditBilling, MinorUnitsProofs, SequenceTheorems

-----------------------------------------------------------------------------
(* Spreading an amount over documents                                      *)

LEMMA DocumentsFinite ==
    ASSUME BillingAssumption
    PROVE  IsFiniteSet(Documents)
<1> DEFINE K == {"invoice", "fee"}
<1>1. IsFiniteSet(K)
  <2> DEFINE I == {"invoice"}
  <2>1. IsFiniteSet(I)
    BY FS_Singleton
  <2>2. K = I \cup {"fee"}
    OBVIOUS
  <2> HIDE DEF I, K
  <2> QED BY <2>1, <2>2, FS_AddElement
<1>2. IsFiniteSet(Shipments)
  BY DEF BillingAssumption
<1> HIDE DEF K
<1>3. IsFiniteSet(K \X Shipments)
  BY <1>1, <1>2, FS_Product
<1> QED BY <1>3 DEF Documents, K

\* Before orders the documents.
LEMMA BeforeOrders ==
    ASSUME BillingAssumption, NEW d \in Documents, NEW e \in Documents
    PROVE  /\ ~ Before(d, d)
           /\ ~ (Before(d, e) /\ Before(e, d))
           /\ d # e => Before(d, e) \/ Before(e, d)
           /\ \A f \in Documents : Before(d, e) /\ Before(e, f) => Before(d, f)
<1>1. \A c \in Documents : /\ c = <<c[1], c[2]>> /\ c[1] \in {"invoice", "fee"}
                           /\ c[2] \in Shipments /\ c[2] \in Int
  <2>1. \A s \in Shipments : s \in Int
    BY DEF BillingAssumption
  <2>2. ASSUME NEW c \in Documents
        PROVE  /\ c = <<c[1], c[2]>> /\ c[1] \in {"invoice", "fee"}
               /\ c[2] \in Shipments
    <3> DEFINE K == {"invoice", "fee"}
    <3>1. c \in K \X Shipments
      BY DEF Documents
    <3> HIDE DEF K
    <3>2. c = <<c[1], c[2]>> /\ c[1] \in K /\ c[2] \in Shipments
      BY <3>1
    <3> QED BY <3>2 DEF K
  <2> QED BY <2>1, <2>2
<1>2. ~ Before(d, d) /\ ~ (Before(d, e) /\ Before(e, d))
  BY <1>1 DEF Before
<1>3. d # e => Before(d, e) \/ Before(e, d)
  <2>1. d # e => d[1] # e[1] \/ d[2] # e[2]
    BY <1>1
  <2> QED BY <1>1, <2>1 DEF Before
<1>4. ASSUME NEW f \in Documents, Before(d, e), Before(e, f) PROVE Before(d, f)
  BY <1>1, <1>4 DEF Before
<1> QED BY <1>2, <1>3, <1>4

\* Among finitely many documents one comes last.
LEMMA LastDocument ==
    ASSUME BillingAssumption, NEW E \in SUBSET Documents, E # {}
    PROVE  \E m \in E : \A e \in E : e # m => Before(e, m)
<1> DEFINE after(d) == {e \in E : Before(d, e)}
           F == {after(d) : d \in E}
<1>1. IsFiniteSet(E)
  BY DocumentsFinite, FS_Subset
<1>2. F # {} /\ \A S \in F : IsFiniteSet(S)
  <2>1. \A S \in F : S \subseteq E
    OBVIOUS
  <2>2. F # {}
    <3>1. PICK e : e \in E
      OBVIOUS
    <3>2. after(e) \in F
      BY <3>1
    <3> QED BY <3>2
  <2> HIDE DEF F
  <2> QED BY <1>1, <2>1, <2>2, FS_Subset
<1>3. PICK S \in F : \A R \in F : R \subseteq S => R = S
  <2> HIDE DEF F
  <2> QED BY <1>2, LeastSet
<1>4. PICK m \in E : S = after(m)
  OBVIOUS
<1>5. ASSUME NEW e \in after(m) PROVE FALSE
  <2>1. e \in E /\ Before(m, e)
    OBVIOUS
  <2>2. after(e) \in F
    BY <2>1
  <2>3. after(e) \subseteq after(m)
    BY <2>1, BeforeOrders
  <2>4. e \notin after(e)
    BY <2>1, BeforeOrders
  <2> HIDE DEF F, after
  <2> QED BY <1>3, <1>4, <1>5, <2>2, <2>3, <2>4
<1>6. \A e \in E : ~ Before(m, e)
  BY <1>5
<1> QED BY <1>6, BeforeOrders

\* What the arithmetic of one more document comes to.
LEMMA SpreadOneMore ==
    ASSUME NEW amount \in Nat, NEW before \in Nat, NEW owes \in Nat
    PROVE  AtLeastZero(before - amount)
             + (owes - Lesser(owes, AtLeastZero(amount - before)))
           = AtLeastZero(before + owes - amount)
BY DEF AtLeastZero, Lesser

\* Spread takes the amount off the documents of D and off no others, no more
\* than each owes, and all of the amount as long as anything is owed.
LEMMA SpreadShrinks ==
    ASSUME BillingAssumption, NEW amount \in Nat, NEW D \in SUBSET Documents,
           NEW owed \in [Documents -> Nat]
    PROVE  /\ Spread(amount, D, owed) \in [Documents -> Nat]
           /\ \A d \in Documents : Spread(amount, D, owed)[d] <= owed[d]
<1> DEFINE new == Spread(amount, D, owed)
           pre(d) == {e \in D : Before(e, d)}
<1>1. IsFiniteSet(D)
  BY DocumentsFinite, FS_Subset
<1>2. ASSUME NEW E \in SUBSET D PROVE IsFiniteSet(E) /\ Total(E, owed) \in Nat
  <2>1. IsFiniteSet(E)
    BY <1>1, FS_Subset
  <2>2. \A d \in E : owed[d] \in Nat
    OBVIOUS
  <2> QED BY <2>1, <2>2, TotalType
<1>3. ASSUME NEW d \in Documents
      PROVE  new[d] = IF d \in D
                      THEN owed[d] - Lesser(owed[d],
                               AtLeastZero(amount - Total(pre(d), owed)))
                      ELSE owed[d]
  BY DEF Spread
<1>4. ASSUME NEW d \in Documents PROVE new[d] \in Nat /\ new[d] <= owed[d]
  <2>1. Total(pre(d), owed) \in Nat
    BY <1>2
  <2> HIDE DEF new, pre
  <2> QED BY <1>3, <2>1 DEF AtLeastZero, Lesser
<1>5. new \in [Documents -> Nat]
  BY <1>4 DEF Spread
<1> QED BY <1>4, <1>5

LEMMA SpreadSpares ==
    ASSUME NEW amount, NEW D, NEW owed, NEW d \in Documents, d \notin D
    PROVE  Spread(amount, D, owed)[d] = owed[d]
BY DEF Spread

LEMMA SpreadTakes ==
    ASSUME BillingAssumption, NEW amount \in Nat, NEW D \in SUBSET Documents,
           NEW owed \in [Documents -> Nat]
    PROVE  Total(D, Spread(amount, D, owed))
             = AtLeastZero(Total(D, owed) - amount)
<1> DEFINE new == Spread(amount, D, owed)
           pre(d) == {e \in D : Before(e, d)}
<1>1. IsFiniteSet(D)
  BY DocumentsFinite, FS_Subset
<1>2. ASSUME NEW E \in SUBSET D PROVE IsFiniteSet(E) /\ Total(E, owed) \in Nat
  <2>1. IsFiniteSet(E)
    BY <1>1, FS_Subset
  <2>2. \A d \in E : owed[d] \in Nat
    OBVIOUS
  <2> QED BY <2>1, <2>2, TotalType
<1>3. ASSUME NEW d \in Documents
      PROVE  new[d] = IF d \in D
                      THEN owed[d] - Lesser(owed[d],
                               AtLeastZero(amount - Total(pre(d), owed)))
                      ELSE owed[d]
  BY DEF Spread
<1>4. ASSUME NEW d \in Documents PROVE new[d] \in Nat
  <2>1. new \in [Documents -> Nat]
    BY SpreadShrinks
  <2> HIDE DEF new
  <2> QED BY <2>1
<1> DEFINE Closed(E) == \A e \in E : pre(e) \subseteq E
           G == {E \in SUBSET D : Closed(E) =>
                    Total(E, new) = AtLeastZero(Total(E, owed) - amount)}
<1>6. ASSUME NEW E \in SUBSET D, \A R \in SUBSET E : R # E => R \in G
      PROVE  E \in G
  <2> SUFFICES ASSUME Closed(E)
               PROVE  Total(E, new) = AtLeastZero(Total(E, owed) - amount)
    OBVIOUS
  <2>1. CASE E = {}
    <3>1. Total(E, new) = 0 /\ Total(E, owed) = 0
      BY <2>1, TotalEmpty
    <3> QED BY <3>1 DEF AtLeastZero
  <2>2. CASE E # {}
    <3>1. E \subseteq Documents
      OBVIOUS
    <3>2. PICK m \in E : \A e \in E : e # m => Before(e, m)
      BY <2>2, <3>1, LastDocument
    <3> DEFINE R == E \ {m}
    <3>3. pre(m) = R
      BY <3>2, BeforeOrders
    <3>4. Closed(R)
      <4>1. ASSUME NEW e \in R, NEW f \in pre(e) PROVE f \in R
        <5>1. f \in E /\ Before(f, e) /\ Before(e, m)
          BY <3>2
        <5>2. f # m
          BY <5>1, <3>1, BeforeOrders
        <5> QED BY <5>1, <5>2
      <4> QED BY <4>1
    <3>5. R \in G
      BY <1>6
    <3>6. Total(R, new) = AtLeastZero(Total(R, owed) - amount)
      BY <3>4, <3>5
    <3>7. new[m] = owed[m] - Lesser(owed[m], AtLeastZero(amount - Total(R, owed)))
      BY <1>3, <3>3
    <3>8. Total(R, owed) = Total(E, owed) - owed[m]
      <4>1. \A d \in E : owed[d] \in Nat
        OBVIOUS
      <4> QED BY <1>2, <4>1, TotalRemove
    <3>9. Total(R, new) = Total(E, new) - new[m] /\ Total(E, new) \in Nat
      <4>1. \A d \in E : new[d] \in Nat
        BY <1>4
      <4> HIDE DEF new
      <4> QED BY <1>2, <4>1, TotalRemove, TotalType
    <3>10. /\ Total(R, owed) \in Nat /\ Total(E, owed) \in Nat
           /\ owed[m] \in Nat /\ new[m] \in Nat
      BY <1>2, <1>4
    <3>11. AtLeastZero(Total(R, owed) - amount)
             + (owed[m] - Lesser(owed[m], AtLeastZero(amount - Total(R, owed))))
           = AtLeastZero(Total(R, owed) + owed[m] - amount)
      <4> HIDE DEF R
      <4> QED BY <3>10, SpreadOneMore
    <3>12. Total(E, new) = Total(R, new) + new[m]
      <4> HIDE DEF R, new
      <4> QED BY <3>9, <3>10
    <3>13. Total(E, owed) = Total(R, owed) + owed[m]
      <4> HIDE DEF R, new
      <4> QED BY <3>8, <3>10
    <3>14. Total(R, owed) + owed[m] - amount = Total(E, owed) - amount
      <4> HIDE DEF R
      <4> QED BY <3>10, <3>13
    <3>15. Total(E, new)
             = AtLeastZero(Total(R, owed) - amount)
                 + (owed[m] - Lesser(owed[m], AtLeastZero(amount - Total(R, owed))))
      <4> HIDE DEF R, new
      <4> QED BY <3>6, <3>7, <3>12
    <3> HIDE DEF R, new
    <3> QED BY <3>11, <3>14, <3>15
  <2> QED BY <2>1, <2>2
<1>7. D \in G
  <2> HIDE DEF G
  <2> QED BY <1>1, <1>6, StrongSetInduction
<1>8. Closed(D)
  OBVIOUS
<1>9. Total(D, new) = AtLeastZero(Total(D, owed) - amount)
  BY <1>7, <1>8
<1> QED BY <1>9

-----------------------------------------------------------------------------
(* How a payment is allocated                                              *)

\* One statement of the allocation, after the statements before it.
AllocationStart(amount) ==
    [left |-> amount, owed |-> Owed, paid |-> [m \in Periods |-> 0]]
StatementPays(n, before) ==
    StatementPayment(before.left, statement[n].outstanding,
                     Total(PayableDocuments(n), before.owed))
AllocationStep(n, before) ==
    [left |-> before.left - StatementPays(n, before),
     owed |-> Spread(StatementPays(n, before), PayableDocuments(n), before.owed),
     paid |-> [before.paid EXCEPT ![n] = StatementPays(n, before)]]

\* The recursion has a solution, however many statements there are.
LEMMA AllocationExists ==
    ASSUME BillingAssumption, NEW amount
    PROVE  \E f : f = [n \in 0 .. LastPeriod |->
                          IF n = 0 THEN AllocationStart(amount)
                                   ELSE AllocationStep(n, f[n - 1])]
<1> DEFINE Solves(f, N) == f = [n \in 0 .. N |->
                                   IF n = 0 THEN AllocationStart(amount)
                                            ELSE AllocationStep(n, f[n - 1])]
           T == {N \in Nat : ~ \E f : Solves(f, N)}
<1>1. SUFFICES T = {}
  BY DEF BillingAssumption
<1>2. SUFFICES ASSUME T # {} PROVE FALSE
  OBVIOUS
<1>3. PICK N \in T : \A M \in T : N <= M
  <2>1. T \in SUBSET Nat
    OBVIOUS
  <2> HIDE DEF T
  <2> QED BY <1>2, <2>1, LeastNatural
<1>4. N \in Nat /\ ~ \E f : Solves(f, N)
  OBVIOUS
<1>5. CASE N = 0
  <2> DEFINE f == [n \in 0 .. N |-> AllocationStart(amount)]
  <2>1. \A n \in 0 .. N : n = 0
    BY <1>5
  <2>2. Solves(f, N)
    BY <2>1
  <2> QED BY <1>4, <2>2
<1>6. CASE N # 0
  <2>1. N - 1 \in Nat /\ N - 1 \notin T
    BY <1>3, <1>4, <1>6
  <2>2. PICK f : Solves(f, N - 1)
    BY <2>1
  <2> DEFINE g == [n \in 0 .. N |-> IF n = N THEN AllocationStep(N, f[N - 1])
                                             ELSE f[n]]
  <2>3. ASSUME NEW n \in 0 .. N
        PROVE  g[n] = IF n = 0 THEN AllocationStart(amount)
                               ELSE AllocationStep(n, g[n - 1])
    <3>1. CASE n = N
      <4>1. g[N - 1] = f[N - 1]
        BY <1>4, <1>6
      <4> QED BY <1>6, <3>1, <4>1
    <3>2. CASE n # N
      <4>1. n \in 0 .. N - 1 /\ g[n] = f[n]
        BY <1>4, <3>2
      <4>2. n # 0 => g[n - 1] = f[n - 1]
        BY <1>4, <4>1
      <4> HIDE DEF g
      <4> QED BY <2>2, <4>1, <4>2
    <3> QED BY <3>1, <3>2
  <2>4. Solves(g, N)
    <3> HIDE DEF T
    <3>1. g = [n \in 0 .. N |-> g[n]]
      OBVIOUS
    <3> HIDE DEF g
    <3> QED BY <2>3, <3>1
  <2> HIDE DEF g, Solves
  <2> QED BY <1>4, <2>4
<1> QED BY <1>5, <1>6

\* The allocation is the last value of the recursion.
LEMMA AllocationIs ==
    ASSUME BillingAssumption, NEW amount
    PROVE  \E f : /\ f = [n \in 0 .. LastPeriod |->
                             IF n = 0 THEN AllocationStart(amount)
                                      ELSE AllocationStep(n, f[n - 1])]
                  /\ Allocation(amount) = f[LastPeriod]
<1> DEFINE Solves(f) == f = [n \in 0 .. LastPeriod |->
                                IF n = 0 THEN AllocationStart(amount)
                                         ELSE AllocationStep(n, f[n - 1])]
           paidUpTo == CHOOSE f : Solves(f)
<1>1. Allocation(amount) = paidUpTo[LastPeriod]
  BY DEF Allocation, AllocationStart, AllocationStep, StatementPays
<1>2. Solves(paidUpTo)
  <2>1. \E f : Solves(f)
    BY AllocationExists
  <2> HIDE DEF Solves
  <2> QED BY <2>1
<1> HIDE DEF paidUpTo
<1> QED BY <1>1, <1>2

\* Over all documents, Spread takes what it can of the amount.
LEMMA SpreadOfAll ==
    ASSUME BillingAssumption, NEW amount \in Nat, NEW D \in SUBSET Documents,
           NEW owed \in [Documents -> Nat]
    PROVE  /\ Total(Documents, Spread(amount, D, owed))
                = Total(Documents, owed) - Lesser(amount, Total(D, owed))
           /\ Total(D, owed) \in Nat
           /\ Total(Documents, owed) \in Nat
           /\ Total(Documents, Spread(amount, D, owed)) \in Nat
<1> DEFINE new == Spread(amount, D, owed)
           R == Documents \ D
<1>1. IsFiniteSet(Documents)
  BY DocumentsFinite
<1>2. IsFiniteSet(D) /\ IsFiniteSet(R)
  BY <1>1, FS_Subset
<1>3. D \cap R = {} /\ D \cup R = Documents
  OBVIOUS
<1>4. /\ new \in [Documents -> Nat]
      /\ \A d \in R : new[d] = owed[d]
      /\ Total(D, new) = AtLeastZero(Total(D, owed) - amount)
  <2>1. new \in [Documents -> Nat]
    BY SpreadShrinks
  <2>2. \A d \in R : new[d] = owed[d]
    BY SpreadSpares
  <2>3. Total(D, new) = AtLeastZero(Total(D, owed) - amount)
    BY SpreadTakes
  <2> QED BY <2>1, <2>2, <2>3
<1> HIDE DEF new, R
<1>5. Total(Documents, owed) = Total(D, owed) + Total(R, owed)
  BY <1>2, <1>3, TotalUnion
<1>6. Total(Documents, new) = Total(D, new) + Total(R, new)
  BY <1>2, <1>3, <1>4, TotalUnion
<1>7. Total(R, new) = Total(R, owed)
  BY <1>4, TotalSame
<1>8. /\ Total(D, owed) \in Nat /\ Total(R, owed) \in Nat
      /\ Total(Documents, owed) \in Nat /\ Total(Documents, new) \in Nat
  BY <1>1, <1>2, <1>3, <1>4, TotalType
<1>9. AtLeastZero(Total(D, owed) - amount)
        = Total(D, owed) - Lesser(amount, Total(D, owed))
  BY <1>8 DEF AtLeastZero, Lesser
<1>10. Total(Documents, new) = Total(Documents, owed) - Lesser(amount, Total(D, owed))
  BY <1>4, <1>5, <1>6, <1>7, <1>8, <1>9 DEF Lesser
<1> QED BY <1>8, <1>10 DEF new

\* An allocation is of the payment and of nothing else: a statement gets no
\* more than it has outstanding, only documents of some statement change, and
\* documents, statements and what is left agree on how much was allocated.
LEMMA AllocationTakes ==
    ASSUME BillingAssumption, NEW amount \in Nat, Owed \in [Documents -> Nat],
           \A n \in Periods : /\ statement[n].outstanding \in Nat
                              /\ PayableDocuments(n) \subseteq Documents
    PROVE  LET result == Allocation(amount) IN
           /\ result.left \in Nat /\ result.left <= amount
           /\ result.owed \in [Documents -> Nat]
           /\ \A d \in Documents : result.owed[d] <= Owed[d]
           /\ \A d \in Documents :
                 (\A n \in Periods : d \notin PayableDocuments(n))
                     => result.owed[d] = Owed[d]
           /\ result.paid \in [Periods -> Nat]
           /\ \A n \in Periods : result.paid[n] <= statement[n].outstanding
           /\ Total(Documents, Owed)
                = Total(Documents, result.owed) + (amount - result.left)
           /\ Total(Periods, result.paid) = amount - result.left
<1>1. PICK f : /\ f = [n \in 0 .. LastPeriod |->
                          IF n = 0 THEN AllocationStart(amount)
                                   ELSE AllocationStep(n, f[n - 1])]
               /\ Allocation(amount) = f[LastPeriod]
  BY AllocationIs
<1>0. LastPeriod \in Nat /\ LastPeriod # 0 /\ Periods = 1 .. LastPeriod
  BY DEF BillingAssumption, Periods
<1> DEFINE Facts(n) ==
      /\ f[n].left \in Nat /\ f[n].left <= amount
      /\ f[n].owed \in [Documents -> Nat]
      /\ \A d \in Documents : f[n].owed[d] <= Owed[d]
      /\ \A d \in Documents :
            (\A m \in Periods : d \notin PayableDocuments(m))
                => f[n].owed[d] = Owed[d]
      /\ f[n].paid \in [Periods -> Nat]
      /\ \A m \in Periods : /\ f[n].paid[m] <= statement[m].outstanding
                            /\ m > n => f[n].paid[m] = 0
      /\ Total(Documents, Owed)
           = Total(Documents, f[n].owed) + (amount - f[n].left)
      /\ Total(Periods, f[n].paid) = amount - f[n].left
<1> DEFINE G == {n \in 0 .. LastPeriod : Facts(n)}
<1>2. IsFiniteSet(Documents) /\ IsFiniteSet(Periods)
  <2>1. IsFiniteSet(1 .. LastPeriod)
    BY <1>0, FS_Interval
  <2> QED BY <2>1, <1>0, DocumentsFinite
<1>3. Total(Documents, Owed) \in Nat
  BY <1>2, TotalType
<1>4. Facts(0)
  <2>1. f[0] = AllocationStart(amount)
    BY <1>0, <1>1
  <2>2. f[0].left = amount /\ f[0].owed = Owed /\ f[0].paid = [m \in Periods |-> 0]
    BY <2>1 DEF AllocationStart
  <2>3. Total(Periods, f[0].paid) = 0
    <3> DEFINE zero == [m \in Periods |-> 0]
               none == {}
    <3>1. \A m \in none : zero[m] \in Nat
      OBVIOUS
    <3>2. \A m \in Periods \ none : zero[m] = 0
      OBVIOUS
    <3>3. Total(none, zero) = 0
      BY TotalEmpty
    <3>4. none \in SUBSET Periods
      OBVIOUS
    <3> HIDE DEF none, zero
    <3>5. Total(Periods, zero) = Total(none, zero)
      BY <1>2, <3>1, <3>2, <3>4, TotalZeros
    <3> QED BY <2>2, <3>3, <3>5 DEF zero
  <2>4. amount - f[0].left = 0
    BY <2>2
  <2>5. \A m \in Periods : f[0].paid[m] = 0
    BY <2>2
  <2>6. f[0].paid \in [Periods -> Nat]
    BY <2>2
  <2> HIDE DEF Facts
  <2> QED BY <1>0, <1>3, <2>2, <2>3, <2>4, <2>5, <2>6 DEF Facts
<1>5. ASSUME NEW n \in 1 .. LastPeriod, n - 1 \in G PROVE n \in G
  <2> DEFINE b == f[n - 1]
             D == PayableDocuments(n)
             pays == StatementPays(n, b)
  <2>1. Facts(n - 1)
    BY <1>5
  <2>2. f[n] = AllocationStep(n, b)
    BY <1>0, <1>1
  <2>3. /\ f[n].left = b.left - pays /\ f[n].owed = Spread(pays, D, b.owed)
        /\ f[n].paid = [b.paid EXCEPT ![n] = pays]
    BY <2>2 DEF AllocationStep
  <2>4. D \in SUBSET Documents /\ n \in Periods /\ statement[n].outstanding \in Nat
    BY <1>0
  <2>5. /\ b.left \in Nat /\ b.left <= amount
        /\ b.owed \in [Documents -> Nat]
        /\ \A d \in Documents : b.owed[d] <= Owed[d]
        /\ \A d \in Documents :
              (\A m \in Periods : d \notin PayableDocuments(m))
                  => b.owed[d] = Owed[d]
        /\ b.paid \in [Periods -> Nat]
        /\ \A m \in Periods : /\ b.paid[m] <= statement[m].outstanding
                              /\ m > n - 1 => b.paid[m] = 0
        /\ Total(Documents, Owed)
             = Total(Documents, b.owed) + (amount - b.left)
        /\ Total(Periods, b.paid) = amount - b.left
    BY <2>1
  <2> HIDE DEF b, Facts, G
  <2>6. Total(D, b.owed) \in Nat
    <3>1. IsFiniteSet(D)
      BY <1>2, <2>4, FS_Subset
    <3>2. \A d \in D : b.owed[d] \in Nat
      BY <2>4, <2>5
    <3> HIDE DEF D
    <3> QED BY <3>1, <3>2, TotalType
  <2>7. /\ pays \in Nat /\ pays <= b.left /\ pays <= statement[n].outstanding
        /\ pays <= Total(D, b.owed)
    BY <2>4, <2>5, <2>6 DEF StatementPays, StatementPayment, Lesser
  <2> HIDE DEF pays, D
  <2>8. /\ f[n].owed \in [Documents -> Nat]
        /\ \A d \in Documents : f[n].owed[d] <= b.owed[d]
        /\ \A d \in Documents : d \notin D => f[n].owed[d] = b.owed[d]
    <3>1. b.owed \in [Documents -> Nat] /\ D \in SUBSET Documents /\ pays \in Nat
      BY <2>4, <2>5, <2>7
    <3>2. /\ Spread(pays, D, b.owed) \in [Documents -> Nat]
          /\ \A d \in Documents : Spread(pays, D, b.owed)[d] <= b.owed[d]
      BY <3>1, SpreadShrinks
    <3>3. \A d \in Documents : d \notin D => Spread(pays, D, b.owed)[d] = b.owed[d]
      BY SpreadSpares
    <3> QED BY <2>3, <3>2, <3>3
  <2>9. Total(Documents, f[n].owed) = Total(Documents, b.owed) - pays
    <3>1. Lesser(pays, Total(D, b.owed)) = pays
      BY <2>7 DEF Lesser
    <3>2. Total(Documents, Spread(pays, D, b.owed))
            = Total(Documents, b.owed) - Lesser(pays, Total(D, b.owed))
      BY <2>4, <2>5, <2>7, SpreadOfAll
    <3> QED BY <2>3, <3>1, <3>2
  <2>10. Total(Documents, b.owed) \in Nat
    BY <1>2, <2>5, TotalType
  <2>11. n > n - 1 /\ b.paid[n] = 0
    BY <2>4, <2>5
  <2>12. Total(Periods, f[n].paid) = Total(Periods, b.paid) + pays
    <3>1. \A m \in Periods : b.paid[m] \in Nat /\ f[n].paid[m] \in Nat
      BY <2>3, <2>5, <2>7
    <3>2. \A m \in Periods : m # n => f[n].paid[m] = b.paid[m]
      BY <2>3, <2>5
    <3>3. f[n].paid[n] = pays
      BY <2>3, <2>4, <2>5
    <3> DEFINE was == b.paid
               now == f[n].paid
    <3>4. Total(Periods, now) = Total(Periods, was) - was[n] + now[n]
      <4>1. /\ \A m \in Periods : was[m] \in Nat /\ now[m] \in Nat
            /\ \A m \in Periods : m # n => now[m] = was[m]
        BY <3>1, <3>2
      <4>2. IsFiniteSet(Periods)
        BY <1>2
      <4>3. n \in Periods
        BY <2>4
      <4> HIDE DEF was, now
      <4>4. ASSUME NEW k \in Periods, \A m \in Periods : m # k => now[m] = was[m]
            PROVE  Total(Periods, now) = Total(Periods, was) - was[k] + now[k]
        BY <4>1, <4>2, <4>4, TotalChange
      <4> QED BY <4>1, <4>3, <4>4
    <3>5. Total(Periods, b.paid) \in Nat
      BY <1>2, <3>1, TotalType
    <3> QED BY <2>7, <2>11, <3>3, <3>4, <3>5
  <2>13. f[n].paid \in [Periods -> Nat]
    BY <2>3, <2>5, <2>7
  <2>14. ASSUME NEW m \in Periods
         PROVE  /\ f[n].paid[m] <= statement[m].outstanding
                /\ m > n => f[n].paid[m] = 0
    <3>1. CASE m = n
      <4>1. f[n].paid[m] = pays
        BY <2>3, <2>5, <3>1
      <4> QED BY <1>0, <2>7, <3>1, <4>1
    <3>2. CASE m # n
      <4>1. f[n].paid[m] = b.paid[m]
        BY <2>3, <2>5, <3>2
      <4>2. m > n => m > n - 1
        BY <1>0
      <4> QED BY <2>5, <4>1, <4>2
    <3> QED BY <3>1, <3>2
  <2>15. ASSUME NEW d \in Documents
         PROVE  /\ f[n].owed[d] <= Owed[d]
                /\ (\A m \in Periods : d \notin PayableDocuments(m))
                       => f[n].owed[d] = Owed[d]
    <3>1. f[n].owed[d] <= Owed[d]
      <4>1. f[n].owed[d] \in Nat /\ b.owed[d] \in Nat /\ Owed[d] \in Nat
        BY <2>5, <2>8
      <4> QED BY <2>5, <2>8, <4>1
    <3>2. (\A m \in Periods : d \notin PayableDocuments(m)) => d \notin D
      BY <2>4 DEF D
    <3> QED BY <2>5, <2>8, <3>1, <3>2
  <2>16. f[n].left \in Nat /\ f[n].left <= amount
    BY <2>3, <2>5, <2>7
  <2>17. amount - f[n].left = (amount - b.left) + pays
    BY <2>3, <2>5, <2>7
  <2>18. Total(Documents, Owed)
           = Total(Documents, f[n].owed) + (amount - f[n].left)
    <3>1. amount - b.left \in Int /\ pays \in Int
      BY <2>5, <2>7
    <3> HIDE DEF Owed
    <3> QED BY <2>5, <2>9, <2>10, <2>17, <3>1
  <2>19. Total(Periods, f[n].paid) = amount - f[n].left
    BY <2>5, <2>12, <2>17
  <2>20. Facts(n)
    BY <2>8, <2>13, <2>14, <2>15, <2>16, <2>18, <2>19 DEF Facts
  <2> QED BY <2>20 DEF G
<1>6. LastPeriod \in G
  <2>1. 0 \in G
    BY <1>0, <1>4
  <2> HIDE DEF G
  <2> QED BY <1>0, <1>5, <2>1, IntervalInduction
<1>7. Facts(LastPeriod)
  BY <1>6
<1> QED BY <1>1, <1>7

-----------------------------------------------------------------------------
(* The invariant, and what a booking does                                  *)

\* What the documents keep besides their shape.
InvoicesOk ==
    \A s \in Shipments :
        /\ invoice[s].status = "NONE" =>
              invoice[s].credit = 0 /\ invoice[s].statement = NotYet
        /\ invoice[s].status = "VOID" => invoice[s].credit = 0
        /\ invoice[s].advance + invoice[s].credit <= invoice[s].total
FeesOk ==
    \A s \in Shipments :
        /\ fee[s].credit <= fee[s].total
        /\ cancellation[s].status # "COMPLETED" =>
              /\ fee[s].credit = 0 /\ fee[s].total = 0
              /\ fee[s].statement = NotYet
AdjustmentsOk ==
    \A i \in DOMAIN adjustments :
        /\ adjustments[i].due => adjustments[i].amount > 0
        /\ invoice[adjustments[i].shipment].statement # NotYet
StatementsOk ==
    \A n \in Periods : ~ Exists(n) => statement[n] = NoStatement

DocumentsOk == InvoicesOk /\ FeesOk /\ AdjustmentsOk /\ StatementsOk

TypeInv == BillingTypeOK /\ DocumentsOk

\* The constants, as the steps use them.
LEMMA Constants ==
    ASSUME BillingAssumption
    PROVE  /\ LastPeriod \in Nat /\ LastPeriod # 0 /\ Periods = 1 .. LastPeriod
           /\ NotYet = 0 /\ NotYet \in 0 .. LastPeriod
           /\ Periods \subseteq 0 .. LastPeriod
           /\ \A n \in Periods : n # NotYet
           /\ Shipments \subseteq Nat /\ BookingTotals \subseteq Nat
           /\ \A s \in Shipments : RevisedTotals[s] \subseteq Nat
           /\ IsFiniteSet(Periods) /\ IsFiniteSet(Shipments)
<1>1. LastPeriod \in Nat /\ LastPeriod # 0 /\ Periods = 1 .. LastPeriod
  BY DEF BillingAssumption, Periods
<1>2. IsFiniteSet(Periods)
  BY <1>1, FS_Interval
<1>3. NotYet = 0
  BY DEF NotYet
<1>4. /\ NotYet \in 0 .. LastPeriod /\ Periods \subseteq 0 .. LastPeriod
      /\ \A n \in Periods : n # NotYet
  BY <1>1, <1>3
<1>5. /\ Shipments \subseteq Nat /\ BookingTotals \subseteq Nat
      /\ \A s \in Shipments : RevisedTotals[s] \subseteq Nat
      /\ IsFiniteSet(Shipments)
  BY DEF BillingAssumption
<1> QED BY <1>1, <1>2, <1>3, <1>4, <1>5

LEMMA BookEffects ==
    ASSUME BillingAssumption, TypeInv, NEW s \in Shipments,
           NEW total \in BookingTotals, Book(s, total)
    PROVE  LET advance == Lesser(total, account.advance) IN
           /\ advance \in Nat /\ total \in Nat
           /\ advance <= total /\ advance <= account.advance
           /\ account' \in [advance : Nat, unbilled : Nat, invoiced : Nat]
           /\ account'.advance = account.advance - advance
           /\ account'.unbilled = account.unbilled + (total - advance)
           /\ account'.invoiced = account.invoiced
           /\ invoice' \in [Shipments -> InvoiceType]
           /\ \A t \in Shipments : t # s => invoice'[t] = invoice[t]
           /\ invoice[s].status = "NONE" /\ invoice'[s].status = "ISSUED"
           /\ invoice'[s].total = total /\ invoice'[s].advance = advance
           /\ invoice'[s].credit = total - advance
           /\ invoice'[s].statement = NotYet
           /\ invoice[s].credit = 0 /\ invoice[s].statement = NotYet
<1> DEFINE advance == Lesser(total, account.advance)
<1>1. account \in [advance : Nat, unbilled : Nat, invoiced : Nat]
      /\ invoice \in [Shipments -> InvoiceType] /\ period \in Periods
  BY DEF TypeInv, BillingTypeOK
<1>2. total \in Nat
  BY Constants
<1>3. advance \in Nat /\ advance <= total /\ advance <= account.advance
  BY <1>1, <1>2 DEF Lesser
<1> HIDE DEF advance
<1>4. /\ account' = [account EXCEPT !.advance = @ - advance,
                                    !.unbilled = @ + total - advance]
      /\ invoice[s].status = "NONE"
      /\ invoice' = [invoice EXCEPT ![s] =
            [NoInvoice EXCEPT !.status = "ISSUED", !.total = total,
                              !.advance = advance, !.credit = total - advance,
                              !.bookedAt = period]]
  BY DEF Book, advance
<1>5. /\ account' \in [advance : Nat, unbilled : Nat, invoiced : Nat]
      /\ account'.advance = account.advance - advance
      /\ account'.unbilled = account.unbilled + (total - advance)
      /\ account'.invoiced = account.invoiced
  <2> DEFINE left == account.advance - advance
             more == account.unbilled + total - advance
  <2>1. left \in Nat /\ more \in Nat /\ more = account.unbilled + (total - advance)
    BY <1>1, <1>2, <1>3
  <2>2. account' = [account EXCEPT !.advance = left, !.unbilled = more]
    BY <1>4
  <2> HIDE DEF left, more
  <2>3. account' \in [advance : Nat, unbilled : Nat, invoiced : Nat]
    BY <1>1, <2>1, <2>2
  <2>4. /\ account'.advance = left /\ account'.unbilled = more
        /\ account'.invoiced = account.invoiced
    BY <1>1, <2>2
  <2> QED BY <2>1, <2>3, <2>4 DEF left
<1> DEFINE new == [NoInvoice EXCEPT !.status = "ISSUED", !.total = total,
                              !.advance = advance, !.credit = total - advance,
                              !.bookedAt = period]
<1>6. new \in InvoiceType /\ new.status = "ISSUED" /\ new.total = total
      /\ new.advance = advance /\ new.credit = total - advance
      /\ new.statement = NotYet
  <2>1. NoInvoice \in InvoiceType /\ NoInvoice.statement = NotYet
    BY Constants DEF InvoiceType, NoInvoice
  <2>2. total - advance \in Nat /\ period \in 0 .. LastPeriod
    BY <1>1, <1>2, <1>3, Constants
  <2> DEFINE credit == total - advance
  <2>3. credit \in Nat
    BY <2>2
  <2>4. new = [NoInvoice EXCEPT !.status = "ISSUED", !.total = total,
                              !.advance = advance, !.credit = credit,
                              !.bookedAt = period]
    OBVIOUS
  <2> HIDE DEF new, credit
  <2>5. new \in InvoiceType
    BY <1>2, <1>3, <2>1, <2>2, <2>3, <2>4 DEF InvoiceType
  <2>6. /\ new.status = "ISSUED" /\ new.total = total /\ new.advance = advance
        /\ new.credit = credit /\ new.statement = NoInvoice.statement
    BY <1>2, <1>3, <2>1, <2>2, <2>3, <2>4 DEF InvoiceType
  <2> QED BY <2>1, <2>5, <2>6 DEF credit
<1> HIDE DEF new
<1>7. invoice' \in [Shipments -> InvoiceType] /\ invoice'[s] = new
      /\ \A t \in Shipments : t # s => invoice'[t] = invoice[t]
  BY <1>1, <1>4, <1>6 DEF new
<1>8. invoice[s].credit = 0 /\ invoice[s].statement = NotYet
  BY <1>4 DEF TypeInv, DocumentsOk, InvoicesOk
<1> QED BY <1>2, <1>3, <1>4, <1>5, <1>6, <1>7, <1>8 DEF advance

-----------------------------------------------------------------------------
(* The two calculations                                                    *)

\* An increase is paid from advance and credit, a reduction returns both and
\* what was settled; the revised invoice never has more than its total applied.
LEMMA AdjustmentSplits ==
    ASSUME NEW old, old.total \in Nat, old.advance \in Nat, old.credit \in Nat,
           old.advance + old.credit <= old.total,
           NEW amended \in Nat, NEW available \in Nat
    PROVE  LET c == Adjustment(old, amended, available) IN
           /\ c.advanceUsed \in Nat /\ c.creditUsed \in Nat
           /\ c.creditReduced \in Nat /\ c.advanceRefunded \in Nat
           /\ c.advanceCredited \in Nat
           /\ c.advanceUsed <= available /\ c.creditReduced <= old.credit
           /\ c.advanceRefunded <= old.advance
           /\ amended + c.creditReduced + c.advanceRefunded + c.advanceCredited
                = old.total + c.advanceUsed + c.creditUsed
           /\ c.creditUsed > 0 => c.creditReduced = 0
<1> DEFINE increase == AtLeastZero(amended - old.total)
           reduction == AtLeastZero(old.total - amended)
           used == Lesser(increase, AtLeastZero(available))
           reduced == Lesser(reduction, old.credit)
           refunded == Lesser(reduction - reduced, old.advance)
           c == Adjustment(old, amended, available)
<1>1. /\ c.advanceUsed = used /\ c.creditUsed = increase - used
      /\ c.creditReduced = reduced /\ c.advanceRefunded = refunded
      /\ c.advanceCredited = reduction - reduced - refunded
  BY DEF Adjustment
<1>2. /\ increase \in Nat /\ reduction \in Nat
      /\ increase = 0 \/ reduction = 0
      /\ amended + reduction = old.total + increase
  BY DEF AtLeastZero
<1>3. used \in Nat /\ used <= available /\ used <= increase
  <2>1. AtLeastZero(available) = available
    BY DEF AtLeastZero
  <2> HIDE DEF increase
  <2> QED BY <1>2, <2>1 DEF Lesser
<1>4. reduced \in Nat /\ reduced <= old.credit /\ reduced <= reduction
  <2> HIDE DEF reduction
  <2> QED BY <1>2 DEF Lesser
<1>5. /\ refunded \in Nat /\ refunded <= old.advance
      /\ refunded <= reduction - reduced
  <2> HIDE DEF reduction, reduced
  <2> QED BY <1>2, <1>4 DEF Lesser
<1> HIDE DEF increase, reduction, used, reduced, refunded, c
<1>6. /\ increase - used \in Nat /\ reduction - reduced - refunded \in Nat
      /\ increase - used > 0 => reduced = 0
      /\ amended + reduced + refunded + (reduction - reduced - refunded)
           = old.total + used + (increase - used)
  BY <1>2, <1>3, <1>4, <1>5
<1> QED BY <1>1, <1>3, <1>4, <1>5, <1>6 DEF c

LEMMA RevisedFits ==
    ASSUME NEW old, old.total \in Nat, old.advance \in Nat, old.credit \in Nat,
           old.advance + old.credit <= old.total,
           NEW amended \in Nat, NEW available \in Nat, NEW credit,
           Applicable(Adjustment(old, amended, available), old, credit)
    PROVE  LET c == Adjustment(old, amended, available)
               new == Revised(old, amended, c)
           IN  /\ new.total = amended
               /\ new.advance \in Nat /\ new.credit \in Nat
               /\ new.advance + new.credit <= amended
               /\ new.credit = old.credit + c.creditUsed - c.creditReduced
               /\ (amended - new.credit)
                    + (c.advanceRefunded + c.advanceCredited - c.advanceUsed)
                    = old.total - old.credit
<1> DEFINE c == Adjustment(old, amended, available)
           new == Revised(old, amended, c)
<1>1. /\ c.advanceUsed \in Nat /\ c.creditUsed \in Nat
      /\ c.creditReduced \in Nat /\ c.advanceRefunded \in Nat
      /\ c.advanceCredited \in Nat
      /\ c.advanceUsed <= available /\ c.creditReduced <= old.credit
      /\ c.advanceRefunded <= old.advance
      /\ amended + c.creditReduced + c.advanceRefunded + c.advanceCredited
           = old.total + c.advanceUsed + c.creditUsed
  BY AdjustmentSplits
<1>2. c.advanceCredited <= old.total - old.advance - old.credit
  BY DEF Applicable, Settled
<1> HIDE DEF c
<1>3. /\ new.total = amended
      /\ new.advance = old.advance + c.advanceUsed - c.advanceRefunded
      /\ new.credit = old.credit + c.creditUsed - c.creditReduced
  BY DEF Revised
<1> HIDE DEF new
<1> QED BY <1>1, <1>2, <1>3 DEF new, c

\* A cancellation returns what was settled, less the fee.
LEMMA CancellationSplits ==
    ASSUME NEW old, old.total \in Nat, old.credit \in Nat, old.credit <= old.total,
           NEW requested \in Nat
    PROVE  LET feeTotal == CancellationFee(old, requested)
               c == CancellationSettlement(old, feeTotal)
           IN  /\ feeTotal \in Nat
               /\ c.creditReversed = old.credit
               /\ c.feeCredit \in Nat /\ c.feeCredit <= feeTotal
               /\ c.advanceCredited \in Nat
               /\ c.advanceCredited + (feeTotal - c.feeCredit)
                    = old.total - old.credit
<1> DEFINE feeTotal == CancellationFee(old, requested)
           c == CancellationSettlement(old, feeTotal)
<1>1. feeTotal \in Nat /\ feeTotal <= old.total
  BY DEF CancellationFee, Lesser
<1> HIDE DEF feeTotal
<1>2. /\ c.creditReversed = old.credit
      /\ c.feeCredit = AtLeastZero(feeTotal - (old.total - old.credit))
      /\ c.advanceCredited = old.total - feeTotal - (old.credit - c.feeCredit)
  BY DEF CancellationSettlement
<1> HIDE DEF c
<1>3. c.feeCredit \in Nat /\ c.feeCredit <= feeTotal
  BY <1>1, <1>2 DEF AtLeastZero
<1>4. c.advanceCredited \in Nat
  BY <1>1, <1>2 DEF AtLeastZero
<1>5. c.advanceCredited + (feeTotal - c.feeCredit) = old.total - old.credit
  BY <1>1, <1>2, <1>3
<1> QED BY <1>1, <1>2, <1>3, <1>4, <1>5 DEF feeTotal, c

-----------------------------------------------------------------------------
(* Statements and adjustments                                              *)

\* What a credit does to one statement, and to no other.
LEMMA CreditedStatement ==
    ASSUME statement \in [Periods -> StatementType], NEW n \in Periods,
           NEW amount \in Nat, amount <= statement[n].outstanding
    PROVE  LET new == CreditStatement(n, amount) IN
           /\ new \in [Periods -> StatementType]
           /\ \A m \in Periods : m # n => new[m] = statement[m]
           /\ new[n].lines = statement[n].lines
           /\ new[n].feeLines = statement[n].feeLines
           /\ new[n].adjustments = statement[n].adjustments
           /\ new[n].total = statement[n].total
           /\ new[n].paid = statement[n].paid
           /\ new[n].credited = statement[n].credited + amount
           /\ new[n].outstanding = statement[n].outstanding - amount
           /\ new[n].status = StatusAfter(statement[n].outstanding - amount)
<1> DEFINE old == statement[n]
           more == old.credited + amount
           left == old.outstanding - amount
           status == StatusAfter(left)
           rec == [old EXCEPT !.credited = more, !.outstanding = left,
                              !.status = status]
<1>1. old \in StatementType
  OBVIOUS
<1>2. more \in Nat /\ left \in Nat
  BY <1>1 DEF StatementType
<1>3. status \in {"PAID", "PARTIALLY_PAID"}
  BY DEF StatusAfter
<1>4. CreditStatement(n, amount) = [statement EXCEPT ![n] = rec]
  BY DEF CreditStatement
<1> HIDE DEF status, more, left
<1>5. rec \in StatementType
  <2> HIDE DEF old
  <2> QED BY <1>1, <1>2, <1>3 DEF StatementType
<1>6. /\ rec.lines = old.lines /\ rec.feeLines = old.feeLines
      /\ rec.adjustments = old.adjustments /\ rec.total = old.total
      /\ rec.paid = old.paid /\ rec.credited = more
      /\ rec.outstanding = left /\ rec.status = status
  <2> HIDE DEF old
  <2> QED BY <1>1 DEF StatementType
<1> HIDE DEF rec
<1>7. /\ CreditStatement(n, amount) \in [Periods -> StatementType]
      /\ CreditStatement(n, amount)[n] = rec
      /\ \A m \in Periods : m # n => CreditStatement(n, amount)[m] = statement[m]
  BY <1>4, <1>5
<1> QED BY <1>6, <1>7 DEF more, left, status

\* One more adjustment.
LEMMA AdjustmentsAppend ==
    ASSUME adjustments \in Seq(AdjustmentType), NEW rec \in AdjustmentType,
           adjustments' = Append(adjustments, rec)
    PROVE  /\ adjustments' \in Seq(AdjustmentType)
           /\ Len(adjustments) \in Nat /\ Len(adjustments') \in Nat
           /\ Len(adjustments') = Len(adjustments) + 1
           /\ Len(adjustments) <= Len(adjustments')
           /\ \A i \in 1 .. Len(adjustments) : adjustments'[i] = adjustments[i]
           /\ \A i \in 1 .. Len(adjustments') :
                 i \notin 1 .. Len(adjustments) =>
                    i = Len(adjustments) + 1 /\ adjustments'[i] = rec
<1>1. /\ adjustments' \in Seq(AdjustmentType)
      /\ Len(adjustments) \in Nat
      /\ Len(adjustments') = Len(adjustments) + 1
      /\ \A i \in 1 .. Len(adjustments) : adjustments'[i] = adjustments[i]
      /\ adjustments'[Len(adjustments) + 1] = rec
  BY AppendProperties
<1>2. ASSUME NEW i \in 1 .. Len(adjustments'), i \notin 1 .. Len(adjustments)
      PROVE  i = Len(adjustments) + 1
  BY <1>1, <1>2
<1>3. Len(adjustments') \in Nat /\ Len(adjustments) <= Len(adjustments')
  BY <1>1
<1> QED BY <1>1, <1>2, <1>3

LEMMA AdjustmentsSame ==
    ASSUME adjustments \in Seq(AdjustmentType), adjustments' = adjustments
    PROVE  /\ adjustments' \in Seq(AdjustmentType)
           /\ Len(adjustments) \in Nat /\ Len(adjustments') \in Nat
           /\ Len(adjustments) <= Len(adjustments')
           /\ \A i \in 1 .. Len(adjustments) : adjustments'[i] = adjustments[i]
           /\ \A i \in 1 .. Len(adjustments') : i \in 1 .. Len(adjustments)
OBVIOUS

\* The adjustments after the credit of a document on statement n has moved up
\* by more and down by less.
AdjustedBy(s, n, more, less) ==
    adjustments \o AdjustmentRecords(s, n # NotYet, more - less, more > less)

\* A repricing or a cancellation of a billed shipment leaves at most one new
\* adjustment, which waits for a statement.
LEMMA AdjustmentsGrow ==
    ASSUME BillingAssumption, adjustments \in Seq(AdjustmentType), period \in Periods,
           NEW s \in Shipments, NEW n, NEW more \in Nat, NEW less \in Nat,
           adjustments' = AdjustedBy(s, n, more, less)
    PROVE  /\ adjustments' \in Seq(AdjustmentType)
           /\ Len(adjustments) \in Nat /\ Len(adjustments') \in Nat
           /\ Len(adjustments) <= Len(adjustments')
           /\ \A i \in 1 .. Len(adjustments) : adjustments'[i] = adjustments[i]
           /\ \A i \in 1 .. Len(adjustments') :
                 i \notin 1 .. Len(adjustments) =>
                    /\ i = Len(adjustments) + 1 /\ n # NotYet /\ more # less
                    /\ adjustments'[i].shipment = s
                    /\ adjustments'[i].amount = more - less
                    /\ adjustments'[i].due <=> more > less
                    /\ adjustments'[i].statement = NotYet
           /\ n # NotYet /\ more # less => Len(adjustments') = Len(adjustments) + 1
<1> DEFINE amount == more - less
           due == more > less
           rec == [shipment |-> s, amount |-> amount, due |-> due,
                   createdAt |-> period, statement |-> NotYet]
<1>1. amount \in Int /\ due \in BOOLEAN /\ (amount # 0 <=> more # less)
  OBVIOUS
<1>2. CASE n # NotYet /\ more # less
  <2>1. rec \in AdjustmentType
    BY <1>1, Constants DEF AdjustmentType
  <2>2. /\ rec.shipment = s /\ rec.amount = amount /\ rec.statement = NotYet
        /\ rec.due <=> more > less
    OBVIOUS
  <2>3. adjustments' = adjustments \o <<rec>>
    BY <1>1, <1>2 DEF AdjustmentRecords, AdjustedBy
  <2> HIDE DEF rec
  <2>4. adjustments' = Append(adjustments, rec)
    BY <2>1, <2>3
  <2>5. /\ adjustments' \in Seq(AdjustmentType)
        /\ Len(adjustments) \in Nat /\ Len(adjustments') \in Nat
        /\ Len(adjustments') = Len(adjustments) + 1
        /\ Len(adjustments) <= Len(adjustments')
        /\ \A i \in 1 .. Len(adjustments) : adjustments'[i] = adjustments[i]
        /\ \A i \in 1 .. Len(adjustments') :
              i \notin 1 .. Len(adjustments) =>
                 i = Len(adjustments) + 1 /\ adjustments'[i] = rec
    BY <2>1, <2>4, AdjustmentsAppend, Zenon
  <2> QED BY <1>2, <2>2, <2>5, Zenon DEF amount
<1>3. CASE ~ (n # NotYet /\ more # less)
  <2>1. adjustments' = adjustments \o << >>
    BY <1>1, <1>3 DEF AdjustmentRecords, AdjustedBy
  <2>2. adjustments' = adjustments
    BY <2>1
  <2>3. /\ adjustments' \in Seq(AdjustmentType)
        /\ Len(adjustments) \in Nat /\ Len(adjustments') \in Nat
        /\ Len(adjustments) <= Len(adjustments')
        /\ \A i \in 1 .. Len(adjustments) : adjustments'[i] = adjustments[i]
        /\ \A i \in 1 .. Len(adjustments') : i \in 1 .. Len(adjustments)
    BY <2>2, AdjustmentsSame, Zenon
  <2> QED BY <1>3, <2>3, Zenon
<1> QED BY <1>2, <1>3

\* Statements keep their shape while adjustments are added.
LEMMA StatementTypeGrows ==
    ASSUME Len(adjustments) \in Nat, Len(adjustments') \in Nat,
           Len(adjustments) <= Len(adjustments'),
           statement' \in [Periods -> StatementType]
    PROVE  statement' \in [Periods -> StatementType']
<1>1. 1 .. Len(adjustments) \subseteq 1 .. Len(adjustments')
  OBVIOUS
<1>2. ASSUME NEW r \in StatementType PROVE r \in StatementType'
  <2>1. r.adjustments \in SUBSET (1 .. Len(adjustments'))
    BY <1>1 DEF StatementType
  <2> QED BY <2>1 DEF StatementType
<1> QED BY <1>2

-----------------------------------------------------------------------------
(* What the other steps do                                                 *)

\* A repricing moves the same amounts on the account, the invoice, the original
\* statement and the adjustments.
LEMMA RepriceEffects ==
    ASSUME BillingAssumption, TypeInv, NEW s \in Shipments, NEW amended \in Nat,
           NEW settles, Issued(s), Reprice(s, amended, settles)
    PROVE  \E used \in Nat, more \in Nat, reduced \in Nat, back \in Nat :
           LET n == invoice[s].statement
               billed == n # NotYet
           IN
           /\ more > 0 => reduced = 0
           /\ account' \in [advance : Nat, unbilled : Nat, invoiced : Nat]
           /\ account'.advance = account.advance + back - used
           /\ account'.unbilled = account.unbilled + more
                                    - (IF billed THEN 0 ELSE reduced)
           /\ account'.invoiced = account.invoiced
                                    - (IF billed THEN reduced ELSE 0)
           /\ invoice' \in [Shipments -> InvoiceType]
           /\ \A t \in Shipments : t # s => invoice'[t] = invoice[t]
           /\ invoice'[s].status = "ISSUED" /\ invoice'[s].statement = n
           /\ invoice'[s].credit = invoice[s].credit + more - reduced
           /\ invoice'[s].advance + invoice'[s].credit <= invoice'[s].total
           /\ (invoice'[s].total - invoice'[s].credit) + (back - used)
                = invoice[s].total - invoice[s].credit
           /\ billed => n \in Periods
           /\ ~ (billed /\ reduced > 0) => statement' = statement
           /\ billed /\ reduced > 0 =>
                /\ reduced <= statement[n].outstanding
                /\ statement' = CreditStatement(n, reduced)
           /\ adjustments' = adjustments \o AdjustmentRecords(s, billed,
                                 more - reduced, more > reduced)
<1> DEFINE old == invoice[s]
           c == Adjustment(old, amended, account.advance)
           new == Revised(old, amended, c)
           n == old.statement
           billed == n # NotYet
           back == c.advanceRefunded + c.advanceCredited
           used == c.advanceUsed
           more == c.creditUsed
           reduced == c.creditReduced
<1>1. account \in [advance : Nat, unbilled : Nat, invoiced : Nat]
      /\ invoice \in [Shipments -> InvoiceType] /\ period \in Periods
      /\ period \in 0 .. LastPeriod
  BY Constants DEF TypeInv, BillingTypeOK
<1>2. old \in InvoiceType /\ old.advance + old.credit <= old.total
  BY <1>1 DEF TypeInv, DocumentsOk, InvoicesOk
<1>3. old.total \in Nat /\ old.advance \in Nat /\ old.credit \in Nat
      /\ old.revision \in Nat /\ old.settledAt \in 0 .. LastPeriod
      /\ account.advance \in Nat /\ n \in 0 .. LastPeriod /\ old.status = "ISSUED"
  BY <1>1, <1>2 DEF InvoiceType, Issued
<1>4. /\ Applicable(c, old, AvailableCredit)
      /\ reduced <= IF billed THEN statement[n].outstanding ELSE account.unbilled
      /\ billed => reduced <= account.invoiced
      /\ account' = [advance |-> account.advance + c.advanceRefunded
                                   + c.advanceCredited - used,
                     unbilled |-> account.unbilled + more
                                    - UnbilledReduction(billed, reduced),
                     invoiced |-> account.invoiced - (IF billed THEN reduced ELSE 0)]
      /\ statement' = IF billed /\ reduced > 0
                      THEN CreditStatement(n, reduced) ELSE statement
      /\ adjustments' = adjustments \o AdjustmentRecords(s, billed,
                                           more - reduced, more > reduced)
      /\ invoice' = [invoice EXCEPT ![s] =
            [old EXCEPT !.total = new.total, !.advance = new.advance,
                        !.credit = new.credit, !.revision = old.revision + 1,
                        !.settledAt = IF settles /\ old.settledAt = NotYet
                                      THEN period ELSE old.settledAt]]
  BY DEF Reprice
<1> HIDE DEF old
<1>5. /\ used \in Nat /\ more \in Nat /\ reduced \in Nat
      /\ c.advanceRefunded \in Nat /\ c.advanceCredited \in Nat
      /\ used <= account.advance
      /\ more > 0 => reduced = 0
  BY <1>2, <1>3, AdjustmentSplits
<1>6. /\ new.total = amended /\ new.advance \in Nat /\ new.credit \in Nat
      /\ new.advance + new.credit <= amended
      /\ new.credit = old.credit + more - reduced
      /\ (amended - new.credit)
           + (c.advanceRefunded + c.advanceCredited - used)
           = old.total - old.credit
  <2>1. Applicable(Adjustment(old, amended, account.advance), old, AvailableCredit)
    BY <1>4
  <2>2. /\ old.total \in Nat /\ old.advance \in Nat /\ old.credit \in Nat
        /\ account.advance \in Nat /\ old.advance + old.credit <= old.total
    BY <1>2, <1>3
  <2> DEFINE available == account.advance
             credit == AvailableCredit
  <2> HIDE DEF available, credit
  <2>3. /\ available \in Nat
        /\ Applicable(Adjustment(old, amended, available), old, credit)
    BY <2>1, <2>2 DEF available, credit
  <2>4. LET d == Adjustment(old, amended, available)
            r == Revised(old, amended, d)
        IN  /\ r.total = amended
            /\ r.advance \in Nat /\ r.credit \in Nat
            /\ r.advance + r.credit <= amended
            /\ r.credit = old.credit + d.creditUsed - d.creditReduced
            /\ (amended - r.credit)
                    + (d.advanceRefunded + d.advanceCredited - d.advanceUsed)
                    = old.total - old.credit
    BY <2>2, <2>3, RevisedFits
  <2> QED BY <2>4 DEF available
<1> HIDE DEF c, new
<1>7. /\ back \in Nat
      /\ account.advance + c.advanceRefunded + c.advanceCredited - used
           = account.advance + back - used
      /\ account.advance + back - used \in Nat
  BY <1>3, <1>5
<1>8. UnbilledReduction(billed, reduced) = IF billed THEN 0 ELSE reduced
  BY DEF UnbilledReduction
<1>9. /\ account.unbilled + more - (IF billed THEN 0 ELSE reduced) \in Nat
      /\ account.invoiced - (IF billed THEN reduced ELSE 0) \in Nat
  <2>1. account.unbilled \in Nat /\ account.invoiced \in Nat
    BY <1>1
  <2>2. CASE billed
    <3>1. reduced <= account.invoiced
      BY <1>4, <2>2
    <3> HIDE DEF billed, more, reduced
    <3>2. account.unbilled + more - 0 \in Nat /\ account.invoiced - reduced \in Nat
      BY <1>5, <2>1, <3>1
    <3> QED BY <2>2, <3>2
  <2>3. CASE ~ billed
    <3>1. reduced <= account.unbilled
      BY <1>4, <2>3
    <3> HIDE DEF billed, more, reduced
    <3>2. account.unbilled + more - reduced \in Nat /\ account.invoiced - 0 \in Nat
      BY <1>5, <2>1, <3>1
    <3> QED BY <2>3, <3>2
  <2> QED BY <2>2, <2>3
<1>10. /\ account' \in [advance : Nat, unbilled : Nat, invoiced : Nat]
       /\ account'.advance = account.advance + back - used
       /\ account'.unbilled = account.unbilled + more
                                - (IF billed THEN 0 ELSE reduced)
       /\ account'.invoiced = account.invoiced - (IF billed THEN reduced ELSE 0)
  <2> DEFINE u == account.unbilled + more - (IF billed THEN 0 ELSE reduced)
             i == account.invoiced - (IF billed THEN reduced ELSE 0)
             a == account.advance + back - used
  <2>1. account' = [advance |-> a, unbilled |-> u, invoiced |-> i]
    BY <1>4, <1>7, <1>8
  <2>2. a \in Nat /\ u \in Nat /\ i \in Nat
    BY <1>7, <1>9
  <2> HIDE DEF u, i, a
  <2>3. account' \in [advance : Nat, unbilled : Nat, invoiced : Nat]
        /\ account'.advance = a /\ account'.unbilled = u /\ account'.invoiced = i
    BY <2>1, <2>2
  <2> QED BY <2>3 DEF a, u, i
<1>11. /\ invoice' \in [Shipments -> InvoiceType]
       /\ \A t \in Shipments : t # s => invoice'[t] = invoice[t]
       /\ invoice'[s].status = "ISSUED" /\ invoice'[s].statement = n
       /\ invoice'[s].credit = new.credit /\ invoice'[s].total = amended
       /\ invoice'[s].advance = new.advance
  <2> DEFINE at == IF settles /\ old.settledAt = NotYet
                   THEN period ELSE old.settledAt
             rev == old.revision + 1
             rec == [old EXCEPT !.total = new.total, !.advance = new.advance,
                        !.credit = new.credit, !.revision = rev,
                        !.settledAt = at]
  <2>1. at \in 0 .. LastPeriod /\ rev \in Nat
    BY <1>1, <1>3
  <2>2. invoice' = [invoice EXCEPT ![s] = rec]
    BY <1>4
  <2> HIDE DEF at, rev
  <2>3. rec \in InvoiceType
    BY <1>2, <1>6, <2>1 DEF InvoiceType
  <2>4. /\ rec.status = old.status /\ rec.statement = n
        /\ rec.credit = new.credit /\ rec.total = amended
        /\ rec.advance = new.advance
    BY <1>2, <1>6, <2>1 DEF InvoiceType
  <2> HIDE DEF rec
  <2> QED BY <1>1, <1>3, <2>2, <2>3, <2>4
<1>12. billed => n \in Periods
  BY <1>3, Constants
<1>13. (amended - new.credit) + (back - used) = old.total - old.credit
  BY <1>5, <1>6
<1>14. /\ ~ (billed /\ reduced > 0) => statement' = statement
       /\ billed /\ reduced > 0 =>
             /\ reduced <= statement[n].outstanding
             /\ statement' = CreditStatement(n, reduced)
  BY <1>4
<1> HIDE DEF used, more, reduced, back
<1>15. /\ adjustments' = adjustments \o AdjustmentRecords(s, billed,
                                 more - reduced, more > reduced)
       /\ invoice'[s].credit = old.credit + more - reduced
       /\ invoice'[s].advance + invoice'[s].credit <= invoice'[s].total
       /\ (invoice'[s].total - invoice'[s].credit) + (back - used)
                = old.total - old.credit
  BY <1>4, <1>6, <1>11, <1>13 DEF used, more, reduced
<1>16. /\ used \in Nat /\ more \in Nat /\ reduced \in Nat /\ back \in Nat
       /\ more > 0 => reduced = 0
  BY <1>5, <1>7 DEF used, more, reduced
<1> USE <1>16
<1> WITNESS used \in Nat, more \in Nat, reduced \in Nat, back \in Nat
<1> USE DEF old
<1>17. /\ account' \in [advance : Nat, unbilled : Nat, invoiced : Nat]
       /\ account'.advance = account.advance + back - used
       /\ account'.unbilled = account.unbilled + more
                                - (IF n # NotYet THEN 0 ELSE reduced)
       /\ account'.invoiced = account.invoiced
                                - (IF n # NotYet THEN reduced ELSE 0)
  BY <1>10
<1>18. /\ invoice' \in [Shipments -> InvoiceType]
       /\ \A t \in Shipments : t # s => invoice'[t] = invoice[t]
       /\ invoice'[s].status = "ISSUED" /\ invoice'[s].statement = n
  BY <1>11
<1> HIDE DEF old
<1> QED
  BY <1>12, <1>14, <1>15, <1>17, <1>18, Zenon DEF old

LEMMA CancellationEffects ==
    ASSUME BillingAssumption, TypeInv, NEW s \in Shipments,
           NEW requestedFee \in RequestedFees, ApproveCancellation(s, requestedFee)
    PROVE  \E feeTotal \in Nat, feeCredit \in Nat, back \in Nat :
           LET n == invoice[s].statement
               billed == n # NotYet
               reversed == invoice[s].credit
           IN
           /\ reversed \in Nat /\ feeCredit <= feeTotal
           /\ back + (feeTotal - feeCredit) = invoice[s].total - reversed
           /\ account' \in [advance : Nat, unbilled : Nat, invoiced : Nat]
           /\ account'.advance = account.advance + back
           /\ account'.unbilled = account.unbilled + feeCredit
                                    - (IF billed THEN 0 ELSE reversed)
           /\ account'.invoiced = account.invoiced
                                    - (IF billed THEN reversed ELSE 0)
           /\ invoice' \in [Shipments -> InvoiceType]
           /\ \A t \in Shipments : t # s => invoice'[t] = invoice[t]
           /\ invoice[s].status = "ISSUED" /\ invoice'[s].status = "VOID"
           /\ invoice'[s].credit = 0 /\ invoice'[s].statement = n
           /\ invoice'[s].total = invoice[s].total
           /\ invoice'[s].advance = invoice[s].advance
           /\ fee' \in [Shipments -> FeeType]
           /\ \A t \in Shipments : t # s => fee'[t] = fee[t]
           /\ fee[s].credit = 0 /\ fee[s].total = 0 /\ fee[s].statement = NotYet
           /\ fee'[s].credit = feeCredit /\ fee'[s].total = feeTotal
           /\ fee'[s].statement = NotYet
           /\ cancellation' \in [Shipments ->
                [status : {"NONE", "REQUESTED", "COMPLETED"}, original : Nat]]
           /\ cancellation'[s].status = "COMPLETED"
           /\ \A t \in Shipments : t # s => cancellation'[t] = cancellation[t]
           /\ billed => n \in Periods
           /\ ~ (billed /\ reversed > 0) => statement' = statement
           /\ billed /\ reversed > 0 =>
                /\ reversed <= statement[n].outstanding
                /\ statement' = CreditStatement(n, reversed)
           /\ adjustments' = adjustments \o AdjustmentRecords(s, billed,
                                 0 - reversed, 0 > reversed)
<1> DEFINE old == invoice[s]
           feeTotal == CancellationFee(old, requestedFee)
           c == CancellationSettlement(old, feeTotal)
           n == old.statement
           billed == n # NotYet
           reversed == old.credit
           feeCredit == c.feeCredit
           back == c.advanceCredited
<1>1. account \in [advance : Nat, unbilled : Nat, invoiced : Nat]
      /\ invoice \in [Shipments -> InvoiceType]
      /\ fee \in [Shipments -> FeeType]
      /\ cancellation \in [Shipments ->
                [status : {"NONE", "REQUESTED", "COMPLETED"}, original : Nat]]
      /\ period \in 0 .. LastPeriod
  BY Constants DEF TypeInv, BillingTypeOK
<1>2. /\ old \in InvoiceType /\ old.advance + old.credit <= old.total
      /\ cancellation[s].status # "COMPLETED" =>
            fee[s].credit = 0 /\ fee[s].total = 0 /\ fee[s].statement = NotYet
  BY <1>1 DEF TypeInv, DocumentsOk, InvoicesOk, FeesOk
<1>3. /\ old.total \in Nat /\ old.advance \in Nat /\ old.credit \in Nat
      /\ old.credit <= old.total
      /\ n \in 0 .. LastPeriod /\ requestedFee \in Nat
      /\ account.unbilled \in Nat /\ account.invoiced \in Nat
      /\ account.advance \in Nat
  <2>1. requestedFee \in Nat
    BY DEF BillingAssumption
  <2>2. /\ old.total \in Nat /\ old.advance \in Nat /\ old.credit \in Nat
        /\ n \in 0 .. LastPeriod
    BY <1>2 DEF InvoiceType
  <2> HIDE DEF old
  <2> QED BY <1>1, <1>2, <2>1, <2>2
<1>4. /\ old.status = "ISSUED" /\ cancellation[s].status = "REQUESTED"
      /\ c.creditReversed <= IF billed THEN statement[n].outstanding
                                       ELSE account.unbilled
      /\ billed => c.creditReversed <= account.invoiced
      /\ account' =
          [advance |-> account.advance + back,
           unbilled |-> account.unbilled + feeCredit
                          - (IF billed THEN 0 ELSE c.creditReversed),
           invoiced |-> account.invoiced
                          - (IF billed THEN c.creditReversed ELSE 0)]
      /\ statement' = IF billed /\ c.creditReversed > 0
                      THEN CreditStatement(n, c.creditReversed) ELSE statement
      /\ adjustments' = adjustments
          \o AdjustmentRecords(s, billed, 0 - c.creditReversed, FALSE)
      /\ fee' = [fee EXCEPT ![s] = [issuedAt |-> period, total |-> feeTotal,
                                    credit |-> feeCredit, statement |-> NotYet]]
      /\ invoice' = [invoice EXCEPT ![s].status = "VOID", ![s].credit = 0]
      /\ cancellation' = [cancellation EXCEPT ![s].status = "COMPLETED"]
  BY DEF ApproveCancellation, Issued, Cancelling, ReversedOnStatement
<1> HIDE DEF old
<1>5. /\ feeTotal \in Nat /\ c.creditReversed = reversed
      /\ feeCredit \in Nat /\ feeCredit <= feeTotal /\ back \in Nat
      /\ back + (feeTotal - feeCredit) = old.total - reversed
  BY <1>3, CancellationSplits
<1> HIDE DEF feeTotal, c, feeCredit, back
<1>6. /\ account' \in [advance : Nat, unbilled : Nat, invoiced : Nat]
      /\ account'.advance = account.advance + back
      /\ account'.unbilled = account.unbilled + feeCredit
                                - (IF billed THEN 0 ELSE reversed)
      /\ account'.invoiced = account.invoiced - (IF billed THEN reversed ELSE 0)
  <2> DEFINE u == account.unbilled + feeCredit - (IF billed THEN 0 ELSE reversed)
             i == account.invoiced - (IF billed THEN reversed ELSE 0)
             a == account.advance + back
  <2>1. account' = [advance |-> a, unbilled |-> u, invoiced |-> i]
    BY <1>4, <1>5
  <2>2. u \in Nat /\ i \in Nat
    <3>1. CASE billed
      <4>1. reversed <= account.invoiced
        BY <1>4, <1>5, <3>1
      <4> HIDE DEF billed, reversed
      <4>2. account.unbilled + feeCredit - 0 \in Nat
            /\ account.invoiced - reversed \in Nat
        BY <1>3, <1>5, <4>1 DEF reversed
      <4> QED BY <3>1, <4>2
    <3>2. CASE ~ billed
      <4>1. reversed <= account.unbilled
        BY <1>4, <1>5, <3>2
      <4> HIDE DEF billed, reversed
      <4>2. account.unbilled + feeCredit - reversed \in Nat
            /\ account.invoiced - 0 \in Nat
        BY <1>3, <1>5, <4>1 DEF reversed
      <4> QED BY <3>2, <4>2
    <3> QED BY <3>1, <3>2
  <2>3. a \in Nat
    BY <1>3, <1>5
  <2> HIDE DEF u, i, a
  <2>4. account' \in [advance : Nat, unbilled : Nat, invoiced : Nat]
        /\ account'.advance = a /\ account'.unbilled = u /\ account'.invoiced = i
    BY <2>1, <2>2, <2>3
  <2> QED BY <2>4 DEF a, u, i
<1>7. /\ invoice' \in [Shipments -> InvoiceType]
      /\ \A t \in Shipments : t # s => invoice'[t] = invoice[t]
      /\ invoice'[s].status = "VOID"
      /\ invoice'[s].credit = 0 /\ invoice'[s].statement = n
      /\ invoice'[s].total = old.total
      /\ invoice'[s].advance = old.advance
  <2> DEFINE rec == [old EXCEPT !.status = "VOID", !.credit = 0]
  <2>1. invoice' = [invoice EXCEPT ![s] = rec]
    BY <1>4 DEF old
  <2>2. rec \in InvoiceType
    BY <1>2 DEF InvoiceType
  <2>3. /\ rec.status = "VOID" /\ rec.credit = 0 /\ rec.statement = n
        /\ rec.total = old.total /\ rec.advance = old.advance
    BY <1>2 DEF InvoiceType
  <2> HIDE DEF rec
  <2> QED BY <1>1, <2>1, <2>2, <2>3
<1>8. /\ fee' \in [Shipments -> FeeType]
      /\ \A t \in Shipments : t # s => fee'[t] = fee[t]
      /\ fee'[s].credit = feeCredit /\ fee'[s].total = feeTotal
      /\ fee'[s].statement = NotYet
  <2> DEFINE rec == [issuedAt |-> period, total |-> feeTotal,
                     credit |-> feeCredit, statement |-> NotYet]
  <2>1. rec \in FeeType
    BY <1>1, <1>5, Constants DEF FeeType
  <2>2. rec.credit = feeCredit /\ rec.total = feeTotal /\ rec.statement = NotYet
    OBVIOUS
  <2>3. fee' = [fee EXCEPT ![s] = rec]
    BY <1>4
  <2> HIDE DEF rec
  <2> QED BY <1>1, <2>1, <2>2, <2>3
<1>9. fee[s].credit = 0 /\ fee[s].total = 0 /\ fee[s].statement = NotYet
  BY <1>2, <1>4
<1>10. /\ cancellation' \in [Shipments ->
            [status : {"NONE", "REQUESTED", "COMPLETED"}, original : Nat]]
       /\ cancellation'[s].status = "COMPLETED"
       /\ \A t \in Shipments : t # s => cancellation'[t] = cancellation[t]
  BY <1>1, <1>4
<1>11. billed => n \in Periods
  BY <1>3, Constants
<1>12. /\ ~ (billed /\ reversed > 0) => statement' = statement
       /\ billed /\ reversed > 0 =>
             /\ reversed <= statement[n].outstanding
             /\ statement' = CreditStatement(n, reversed)
       /\ adjustments' = adjustments \o AdjustmentRecords(s, billed,
                                 0 - reversed, 0 > reversed)
  <2>1. (0 > reversed) = FALSE
    BY <1>3
  <2>2. adjustments' = adjustments
          \o AdjustmentRecords(s, billed, 0 - reversed, FALSE)
    BY <1>4, <1>5
  <2>3. adjustments' = adjustments
          \o AdjustmentRecords(s, billed, 0 - reversed, 0 > reversed)
    BY <2>1, <2>2, Zenon
  <2> QED BY <1>4, <1>5, <2>3
<1>13. feeTotal \in Nat /\ feeCredit \in Nat /\ back \in Nat
  BY <1>5
<1> USE <1>13
<1> WITNESS feeTotal \in Nat, feeCredit \in Nat, back \in Nat
<1> QED
  BY <1>3, <1>4, <1>5, <1>6, <1>7, <1>8, <1>9, <1>10, <1>11, <1>12, Zenon DEF old

\* The date of finalization is all that a parcel's progress writes on the invoice.
LEMMA FinalizeEffects ==
    ASSUME BillingAssumption, invoice \in [Shipments -> InvoiceType],
           NEW s \in Shipments, NEW at \in 0 .. LastPeriod,
           invoice' = FinalizeCharge(s, at)
    PROVE  /\ invoice' \in [Shipments -> InvoiceType]
           /\ \A t \in Shipments :
                 /\ invoice'[t].status = invoice[t].status
                 /\ invoice'[t].total = invoice[t].total
                 /\ invoice'[t].advance = invoice[t].advance
                 /\ invoice'[t].credit = invoice[t].credit
                 /\ invoice'[t].statement = invoice[t].statement
<1> DEFINE old == invoice[s]
           date == IF old.settledAt = NotYet THEN at ELSE old.settledAt
           rec == [old EXCEPT !.settledAt = date]
<1>1. old \in InvoiceType
  OBVIOUS
<1>2. date \in 0 .. LastPeriod
  BY <1>1 DEF InvoiceType
<1>3. invoice' = [invoice EXCEPT ![s] = rec]
  BY DEF FinalizeCharge
<1> HIDE DEF date, old
<1>4. rec \in InvoiceType
  BY <1>1, <1>2 DEF InvoiceType
<1>5. /\ rec.status = old.status /\ rec.total = old.total
      /\ rec.advance = old.advance /\ rec.credit = old.credit
      /\ rec.statement = old.statement
  BY <1>1 DEF InvoiceType
<1> HIDE DEF rec
<1>6. /\ invoice' \in [Shipments -> InvoiceType] /\ invoice'[s] = rec
      /\ \A t \in Shipments : t # s => invoice'[t] = invoice[t]
  BY <1>3, <1>4
<1> QED BY <1>5, <1>6 DEF old

\* SetOwed writes the balances of the documents and nothing else of them.
LEMMA SetOwedEffects ==
    ASSUME BillingAssumption, invoice \in [Shipments -> InvoiceType],
           fee \in [Shipments -> FeeType], NEW owed \in [Documents -> Nat],
           SetOwed(owed)
    PROVE  /\ invoice' \in [Shipments -> InvoiceType]
           /\ fee' \in [Shipments -> FeeType]
           /\ \A s \in Shipments :
                 /\ invoice'[s].status = invoice[s].status
                 /\ invoice'[s].total = invoice[s].total
                 /\ invoice'[s].advance = invoice[s].advance
                 /\ invoice'[s].statement = invoice[s].statement
                 /\ invoice'[s].credit = owed[<<"invoice", s>>]
                 /\ fee'[s].total = fee[s].total
                 /\ fee'[s].statement = fee[s].statement
                 /\ fee'[s].credit = owed[<<"fee", s>>]
<1>1. /\ invoice' = [s \in Shipments |->
            [invoice[s] EXCEPT !.credit = owed[<<"invoice", s>>]]]
      /\ fee' = [s \in Shipments |->
            [fee[s] EXCEPT !.credit = owed[<<"fee", s>>]]]
  BY DEF SetOwed
<1>2. ASSUME NEW s \in Shipments
      PROVE  /\ invoice'[s] \in InvoiceType
             /\ invoice'[s].status = invoice[s].status
             /\ invoice'[s].total = invoice[s].total
             /\ invoice'[s].advance = invoice[s].advance
             /\ invoice'[s].statement = invoice[s].statement
             /\ invoice'[s].credit = owed[<<"invoice", s>>]
  <2> DEFINE credit == owed[<<"invoice", s>>]
             old == invoice[s]
             new == [old EXCEPT !.credit = credit]
  <2>1. credit \in Nat /\ old \in InvoiceType
    <3>1. <<"invoice", s>> \in Documents
      BY DEF Documents
    <3> QED BY <3>1
  <2>2. invoice'[s] = new
    BY <1>1
  <2> HIDE DEF old, credit
  <2>3. new \in InvoiceType
    BY <2>1 DEF InvoiceType
  <2>4. /\ new.status = old.status /\ new.total = old.total
        /\ new.advance = old.advance /\ new.statement = old.statement
        /\ new.credit = credit
    BY <2>1 DEF InvoiceType
  <2> HIDE DEF new
  <2> QED BY <2>2, <2>3, <2>4 DEF old, credit
<1>3. ASSUME NEW s \in Shipments
      PROVE  /\ fee'[s] \in FeeType
             /\ fee'[s].total = fee[s].total
             /\ fee'[s].statement = fee[s].statement
             /\ fee'[s].credit = owed[<<"fee", s>>]
  <2> DEFINE credit == owed[<<"fee", s>>]
             old == fee[s]
             new == [old EXCEPT !.credit = credit]
  <2>1. credit \in Nat /\ old \in FeeType
    <3>1. <<"fee", s>> \in Documents
      BY DEF Documents
    <3> QED BY <3>1
  <2>2. fee'[s] = new
    BY <1>1
  <2> HIDE DEF old, credit
  <2>3. new \in FeeType
    BY <2>1 DEF FeeType
  <2>4. /\ new.total = old.total /\ new.statement = old.statement
        /\ new.credit = credit
    BY <2>1 DEF FeeType
  <2> HIDE DEF new
  <2> QED BY <2>2, <2>3, <2>4 DEF old, credit
<1>4. invoice' \in [Shipments -> InvoiceType] /\ fee' \in [Shipments -> FeeType]
  BY <1>1, <1>2, <1>3
<1> QED BY <1>2, <1>3, <1>4

\* What the documents owe is a natural number for each.
LEMMA OwedType ==
    ASSUME BillingAssumption, TypeInv
    PROVE  /\ Owed \in [Documents -> Nat]
           /\ \A s \in Shipments : /\ <<"invoice", s>> \in Documents
                                   /\ <<"fee", s>> \in Documents
                                   /\ Owed[<<"invoice", s>>] = invoice[s].credit
                                   /\ Owed[<<"fee", s>>] = fee[s].credit
           /\ \A d \in Documents : d \in {<<"invoice", s>> : s \in Shipments}
                                          \cup {<<"fee", s>> : s \in Shipments}
<1>1. /\ invoice \in [Shipments -> InvoiceType] /\ fee \in [Shipments -> FeeType]
  BY DEF TypeInv, BillingTypeOK
<1>2. ASSUME NEW s \in Shipments
      PROVE  /\ <<"invoice", s>> \in Documents
             /\ <<"fee", s>> \in Documents
             /\ Owed[<<"invoice", s>>] = invoice[s].credit
             /\ Owed[<<"fee", s>>] = fee[s].credit
             /\ invoice[s].credit \in Nat /\ fee[s].credit \in Nat
  <2>1. <<"invoice", s>> \in Documents /\ <<"fee", s>> \in Documents
    BY DEF Documents
  <2>2. invoice[s].credit \in Nat /\ fee[s].credit \in Nat
    BY <1>1 DEF InvoiceType, FeeType
  <2> QED BY <2>1, <2>2 DEF Owed
<1>3. ASSUME NEW d \in Documents
      PROVE  \E s \in Shipments : d = <<"invoice", s>> \/ d = <<"fee", s>>
  <2> DEFINE K == {"invoice", "fee"}
  <2>1. d \in K \X Shipments
    BY DEF Documents
  <2> HIDE DEF K
  <2>2. d = <<d[1], d[2]>> /\ d[1] \in K /\ d[2] \in Shipments
    BY <2>1
  <2> QED BY <2>2 DEF K
<1>4. Owed \in [Documents -> Nat]
  <2>1. ASSUME NEW d \in Documents PROVE Owed[d] \in Nat
    <3>1. PICK s \in Shipments : d = <<"invoice", s>> \/ d = <<"fee", s>>
      BY <1>3
    <3>2. Owed[<<"invoice", s>>] \in Nat /\ Owed[<<"fee", s>>] \in Nat
      BY <1>2
    <3> QED BY <3>1, <3>2
  <2>2. Owed = [d \in Documents |-> Owed[d]]
    BY DEF Owed
  <2> QED BY <2>1, <2>2
<1> QED BY <1>2, <1>3, <1>4

\* A payment of a statement only goes to documents that are on some statement,
\* and to invoices in force.
LEMMA PayableIsBilled ==
    ASSUME BillingAssumption, TypeInv, BilledOnce, NEW n \in Periods
    PROVE  /\ PayableDocuments(n) \subseteq Documents
           /\ \A s \in Shipments :
                 /\ <<"invoice", s>> \in PayableDocuments(n) =>
                       /\ invoice[s].status = "ISSUED"
                       /\ invoice[s].statement # NotYet
                 /\ <<"fee", s>> \in PayableDocuments(n) =>
                       fee[s].statement # NotYet
<1> DEFINE A == Due(statement[n].adjustments)
           adjusted == {adjustments[i].shipment : i \in
                          {j \in A : adjustments[j].amount > 0}}
           I == {s \in statement[n].lines \cup adjusted : Issued(s)}
           F == {s \in Shipments : fee[s].statement = n}
<1>1. PayableDocuments(n) = DocumentsOf("invoice", I) \cup DocumentsOf("fee", F)
  BY DEF PayableDocuments
<1>2. /\ statement \in [Periods -> StatementType]
      /\ adjustments \in Seq(AdjustmentType)
  BY DEF TypeInv, BillingTypeOK
<1>3. ASSUME NEW s \in statement[n].lines
      PROVE  s \in Shipments /\ invoice[s].statement # NotYet
  BY <1>3, Constants DEF BilledOnce
<1>4. ASSUME NEW s \in adjusted
      PROVE  s \in Shipments /\ invoice[s].statement # NotYet
  <2>1. PICK i \in A : s = adjustments[i].shipment
    OBVIOUS
  <2>2. i \in DOMAIN adjustments
    BY DEF Due, BilledOnce
  <2>3. adjustments[i] \in AdjustmentType
    BY <1>2, <2>2
  <2>4. invoice[s].statement # NotYet
    BY <2>1, <2>2 DEF TypeInv, DocumentsOk, AdjustmentsOk
  <2> QED BY <2>1, <2>3, <2>4 DEF AdjustmentType
<1>5. \A s \in I : /\ s \in Shipments /\ invoice[s].statement # NotYet
                   /\ invoice[s].status = "ISSUED"
  BY <1>3, <1>4 DEF Issued
<1>6. \A s \in F : s \in Shipments /\ fee[s].statement # NotYet
  BY Constants
<1> HIDE DEF I, F
<1>7. PayableDocuments(n) \subseteq Documents
  BY <1>1, <1>5, <1>6 DEF DocumentsOf, Documents
<1>8. ASSUME NEW s, <<"invoice", s>> \in PayableDocuments(n) PROVE s \in I
  BY <1>1, <1>8 DEF DocumentsOf
<1>9. ASSUME NEW s, <<"fee", s>> \in PayableDocuments(n) PROVE s \in F
  BY <1>1, <1>9 DEF DocumentsOf
<1> QED BY <1>5, <1>6, <1>7, <1>8, <1>9

\* The documents of a statement are on it.
LEMMA LinesAreBilled ==
    ASSUME BillingAssumption, TypeInv, BilledOnce, NEW n \in Periods
    PROVE  LET D == DocumentsOf("invoice", statement[n].lines)
                      \cup DocumentsOf("fee", statement[n].feeLines)
           IN  /\ D \subseteq Documents
               /\ \A s \in Shipments :
                     /\ <<"invoice", s>> \in D => invoice[s].statement = n
                     /\ <<"fee", s>> \in D => fee[s].statement = n
BY Constants DEF BilledOnce, DocumentsOf, Documents

\* A statement once amount of it is paid.
PaidOff(old, amount) ==
    IF amount = 0 THEN old
    ELSE [old EXCEPT !.paid = @ + amount, !.outstanding = @ - amount,
                     !.status = StatusAfter(old.outstanding - amount)]

LEMMA NothingPaid ==
    ASSUME NEW old
    PROVE  PaidOff(old, 0) = old
BY DEF PaidOff

\* Payment p takes what is owed down to owed, pays the statements what paid
\* says, and leaves the rest as advance.
PaymentSpread(p, owed, paid, left) ==
    /\ PaymentAmount[p] \in Nat /\ left <= PaymentAmount[p]
    /\ p \notin applied /\ applied' = applied \cup {p}
    /\ SetOwed(owed)
    /\ \A d \in Documents : owed[d] <= Owed[d]
    /\ \A s \in Shipments :
          /\ invoice[s].status # "ISSUED" \/ invoice[s].statement = NotYet
                 => owed[<<"invoice", s>>] = invoice[s].credit
          /\ fee[s].statement = NotYet => owed[<<"fee", s>>] = fee[s].credit
    /\ Total(Documents, Owed)
         = Total(Documents, owed) + (PaymentAmount[p] - left)
    /\ Total(Periods, paid) = PaymentAmount[p] - left
    /\ account' \in [advance : Nat, unbilled : Nat, invoiced : Nat]
    /\ account'.advance = account.advance + left
    /\ account'.unbilled = account.unbilled
    /\ account'.invoiced = account.invoiced - (PaymentAmount[p] - left)
    /\ \A n \in Periods : paid[n] <= statement[n].outstanding
    /\ statement' = [n \in Periods |->
          PaidOff(statement[n], paid[n])]

LEMMA VerifyEffects ==
    ASSUME BillingAssumption, TypeInv, BilledOnce, NEW p \in Payments,
           VerifyPayment(p)
    PROVE  \E owed \in [Documents -> Nat], paid \in [Periods -> Nat], left \in Nat :
              PaymentSpread(p, owed, paid, left)
<1> DEFINE amount == PaymentAmount[p]
           result == Allocation(amount)
           owed == result.owed
           paid == result.paid
           left == result.left
<1>1. amount \in Nat
  BY DEF BillingAssumption
<1>2. /\ account \in [advance : Nat, unbilled : Nat, invoiced : Nat]
      /\ \A n \in Periods : /\ statement[n].outstanding \in Nat
                            /\ PayableDocuments(n) \subseteq Documents
  <2>1. statement \in [Periods -> StatementType]
    BY DEF TypeInv, BillingTypeOK
  <2>2. \A n \in Periods : statement[n].outstanding \in Nat
    BY <2>1 DEF StatementType
  <2> QED BY <2>2, PayableIsBilled DEF TypeInv, BillingTypeOK
<1>3. Owed \in [Documents -> Nat]
  BY OwedType
<1> HIDE DEF amount
<1>4. /\ left \in Nat /\ left <= amount
      /\ owed \in [Documents -> Nat]
      /\ \A d \in Documents : owed[d] <= Owed[d]
      /\ \A d \in Documents :
            (\A n \in Periods : d \notin PayableDocuments(n)) => owed[d] = Owed[d]
      /\ paid \in [Periods -> Nat]
      /\ \A n \in Periods : paid[n] <= statement[n].outstanding
      /\ Total(Documents, Owed) = Total(Documents, owed) + (amount - left)
      /\ Total(Periods, paid) = amount - left
  BY <1>1, <1>2, <1>3, AllocationTakes
<1>5. /\ p \notin applied /\ amount - left <= account.invoiced
      /\ SetOwed(owed)
      /\ statement' = [n \in Periods |->
            PaidOff(statement[n], paid[n])]
      /\ account' = [account EXCEPT !.invoiced = @ - (amount - left),
                                    !.advance = @ + left]
      /\ applied' = applied \cup {p}
  BY DEF VerifyPayment, PaidOff, amount
<1> HIDE DEF result, owed, paid, left
<1>6. /\ account' \in [advance : Nat, unbilled : Nat, invoiced : Nat]
      /\ account'.advance = account.advance + left
      /\ account'.unbilled = account.unbilled
      /\ account'.invoiced = account.invoiced - (amount - left)
  <2> DEFINE i == account.invoiced - (amount - left)
             a == account.advance + left
  <2>1. i \in Nat /\ a \in Nat
    <3>1. account.invoiced \in Nat /\ account.advance \in Nat
      BY <1>2
    <3>2. left \in Nat /\ left <= amount /\ amount - left <= account.invoiced
      BY <1>4, <1>5
    <3> QED BY <1>1, <3>1, <3>2
  <2>2. account' = [account EXCEPT !.invoiced = i, !.advance = a]
    BY <1>5
  <2> HIDE DEF i, a
  <2>3. account' \in [advance : Nat, unbilled : Nat, invoiced : Nat]
    BY <1>2, <2>1, <2>2
  <2>4. /\ account'.advance = a /\ account'.invoiced = i
        /\ account'.unbilled = account.unbilled
    BY <1>2, <2>2
  <2> QED BY <2>3, <2>4 DEF i, a
<1>7. ASSUME NEW s \in Shipments
      PROVE  /\ invoice[s].status # "ISSUED" \/ invoice[s].statement = NotYet
                    => owed[<<"invoice", s>>] = invoice[s].credit
             /\ fee[s].statement = NotYet => owed[<<"fee", s>>] = fee[s].credit
  <2>1. /\ <<"invoice", s>> \in Documents /\ <<"fee", s>> \in Documents
        /\ Owed[<<"invoice", s>>] = invoice[s].credit
        /\ Owed[<<"fee", s>>] = fee[s].credit
    BY OwedType
  <2>2. ASSUME invoice[s].status # "ISSUED" \/ invoice[s].statement = NotYet,
               NEW n \in Periods
        PROVE  <<"invoice", s>> \notin PayableDocuments(n)
    BY <2>2, PayableIsBilled
  <2>3. ASSUME fee[s].statement = NotYet, NEW n \in Periods
        PROVE  <<"fee", s>> \notin PayableDocuments(n)
    BY <2>3, PayableIsBilled
  <2> QED BY <1>4, <2>1, <2>2, <2>3
<1>8. owed \in [Documents -> Nat] /\ paid \in [Periods -> Nat] /\ left \in Nat
  BY <1>4
<1> USE <1>8
<1> WITNESS owed \in [Documents -> Nat], paid \in [Periods -> Nat], left \in Nat
<1> QED BY <1>1, <1>4, <1>5, <1>6, <1>7, Zenon DEF amount, PaymentSpread

\* What a payment does to one statement.
LEMMA PaidStatement ==
    ASSUME statement \in [Periods -> StatementType], NEW n \in Periods,
           NEW amount \in Nat, amount <= statement[n].outstanding, NEW new,
           new = PaidOff(statement[n], amount)
    PROVE  /\ new \in StatementType
           /\ new.lines = statement[n].lines /\ new.feeLines = statement[n].feeLines
           /\ new.adjustments = statement[n].adjustments
           /\ new.total = statement[n].total
           /\ new.credited = statement[n].credited
           /\ new.paid = statement[n].paid + amount
           /\ new.outstanding = statement[n].outstanding - amount
           /\ amount # 0 => new.status = StatusAfter(new.outstanding)
           /\ amount = 0 => new.status = statement[n].status
<1> DEFINE old == statement[n]
<1>1. old \in StatementType
  OBVIOUS
<1> HIDE DEF old
<1>2. /\ old.paid \in Nat /\ old.outstanding \in Nat
  BY <1>1 DEF StatementType
<1>3. CASE amount = 0
  <2>1. new = old
    BY <1>3 DEF old, PaidOff
  <2>2. new.paid = old.paid + amount /\ new.outstanding = old.outstanding - amount
    BY <1>2, <1>3, <2>1
  <2> QED BY <1>1, <1>3, <2>1, <2>2 DEF old
<1>4. CASE amount # 0
  <2> DEFINE paid == old.paid + amount
             left == old.outstanding - amount
             status == StatusAfter(left)
  <2>1. paid \in Nat /\ left \in Nat
    BY <1>2 DEF old
  <2>2. status \in {"PAID", "PARTIALLY_PAID"}
    BY DEF StatusAfter
  <2>3. new = [old EXCEPT !.paid = paid, !.outstanding = left, !.status = status]
    BY <1>4 DEF old, PaidOff
  <2> HIDE DEF paid, left, status
  <2>4. new \in StatementType
    BY <1>1, <2>1, <2>2, <2>3 DEF StatementType
  <2>5. /\ new.lines = old.lines /\ new.feeLines = old.feeLines
        /\ new.adjustments = old.adjustments /\ new.total = old.total
        /\ new.credited = old.credited /\ new.paid = paid
        /\ new.outstanding = left /\ new.status = status
    BY <1>1, <2>3 DEF StatementType
  <2> QED BY <1>4, <2>4, <2>5 DEF old, paid, left, status
<1> QED BY <1>3, <1>4

\* A write-off takes an amount off statement n and off the documents of D.
ClearedBy(n, amount, D) ==
    /\ amount > 0 /\ amount <= statement[n].outstanding
    /\ \A s \in Shipments :
          /\ <<"invoice", s>> \in D => invoice[s].statement = n
          /\ <<"fee", s>> \in D => fee[s].statement = n
    /\ SetOwed(Spread(amount, D, Owed))
    /\ forgiven' = forgiven + Lesser(amount, Total(D, Owed))
    /\ account' \in [advance : Nat, unbilled : Nat, invoiced : Nat]
    /\ account'.advance = account.advance
    /\ account'.unbilled = account.unbilled
    /\ account'.invoiced = account.invoiced - amount
    /\ statement' \in [Periods -> StatementType]
    /\ \A m \in Periods : m # n => statement'[m] = statement[m]
    /\ statement'[n].lines = statement[n].lines
    /\ statement'[n].feeLines = statement[n].feeLines
    /\ statement'[n].adjustments = statement[n].adjustments
    /\ statement'[n].total = statement[n].total
    /\ statement'[n].paid = statement[n].paid
    /\ statement'[n].credited = statement[n].credited + amount
    /\ statement'[n].outstanding = statement[n].outstanding - amount
    /\ statement'[n].status \in {"PAID", "PARTIALLY_PAID", "OVERDUE"}
    /\ statement'[n].status = "PAID" <=> statement'[n].outstanding = 0

LEMMA WriteOffEffects ==
    ASSUME BillingAssumption, TypeInv, BilledOnce, NEW n \in Periods,
           NEW requested \in WriteOffs, WriteOff(n, requested)
    PROVE  \E amount \in Nat, D \in SUBSET Documents :
              ClearedBy(n, amount, D)
<1> DEFINE old == statement[n]
           amount == Lesser(requested, Lesser(old.outstanding, account.invoiced))
           D == DocumentsOf("invoice", old.lines) \cup DocumentsOf("fee", old.feeLines)
           left == old.outstanding - amount
           more == old.credited + amount
           status == IF left > 0 /\ old.status = "OVERDUE" THEN "OVERDUE"
                     ELSE StatusAfter(left)
           rec == [old EXCEPT !.credited = more, !.outstanding = left,
                              !.status = status]
<1>1. /\ account \in [advance : Nat, unbilled : Nat, invoiced : Nat]
      /\ statement \in [Periods -> StatementType]
  BY DEF TypeInv, BillingTypeOK
<1>2. old \in StatementType /\ account.invoiced \in Nat /\ requested \in Nat
  BY <1>1 DEF BillingAssumption
<1>3. /\ D \in SUBSET Documents
      /\ \A s \in Shipments :
            /\ <<"invoice", s>> \in D => invoice[s].statement = n
            /\ <<"fee", s>> \in D => fee[s].statement = n
  BY LinesAreBilled
<1>4. /\ amount > 0 /\ SetOwed(Spread(amount, D, Owed))
      /\ forgiven' = forgiven + Lesser(amount, Total(D, Owed))
      /\ statement' = [statement EXCEPT ![n] = rec]
      /\ account' = [account EXCEPT !.invoiced = @ - amount]
  BY DEF WriteOff, WrittenOff
<1> HIDE DEF D, old
<1>5. old.outstanding \in Nat /\ old.credited \in Nat
  BY <1>2 DEF StatementType
<1>6. amount \in Nat /\ amount <= old.outstanding /\ amount <= account.invoiced
  BY <1>2, <1>5 DEF Lesser
<1> HIDE DEF amount
<1>7. left \in Nat /\ more \in Nat
  BY <1>5, <1>6
<1>8. /\ status \in {"PAID", "PARTIALLY_PAID", "OVERDUE"}
      /\ status = "PAID" <=> left = 0
  BY <1>7 DEF StatusAfter
<1> HIDE DEF left, more, status
<1>9. rec \in StatementType
  BY <1>2, <1>7, <1>8 DEF StatementType
<1>10. /\ rec.lines = old.lines /\ rec.feeLines = old.feeLines
       /\ rec.adjustments = old.adjustments /\ rec.total = old.total
       /\ rec.paid = old.paid /\ rec.credited = more
       /\ rec.outstanding = left /\ rec.status = status
  BY <1>2 DEF StatementType
<1> HIDE DEF rec
<1>11. /\ statement' \in [Periods -> StatementType] /\ statement'[n] = rec
       /\ \A m \in Periods : m # n => statement'[m] = statement[m]
  BY <1>1, <1>4, <1>9
<1>12. /\ account' \in [advance : Nat, unbilled : Nat, invoiced : Nat]
       /\ account'.advance = account.advance
       /\ account'.unbilled = account.unbilled
       /\ account'.invoiced = account.invoiced - amount
  <2> DEFINE i == account.invoiced - amount
  <2>1. i \in Nat
    BY <1>2, <1>6
  <2>2. account' = [account EXCEPT !.invoiced = i]
    BY <1>4
  <2> HIDE DEF i
  <2>3. account' \in [advance : Nat, unbilled : Nat, invoiced : Nat]
    BY <1>1, <2>1, <2>2
  <2>4. /\ account'.invoiced = i /\ account'.advance = account.advance
        /\ account'.unbilled = account.unbilled
    BY <1>1, <2>2
  <2> QED BY <2>3, <2>4 DEF i
<1>13. amount \in Nat /\ D \in SUBSET Documents
  BY <1>3, <1>6
<1> USE <1>13
<1> WITNESS amount \in Nat, D \in SUBSET Documents
<1>14. /\ statement'[n].credited = statement[n].credited + amount
       /\ statement'[n].outstanding = statement[n].outstanding - amount
       /\ amount <= statement[n].outstanding
       /\ statement'[n].lines = statement[n].lines
       /\ statement'[n].feeLines = statement[n].feeLines
       /\ statement'[n].adjustments = statement[n].adjustments
       /\ statement'[n].total = statement[n].total
       /\ statement'[n].paid = statement[n].paid
  BY <1>6, <1>10, <1>11 DEF old, left, more
<1>15. /\ statement'[n].status \in {"PAID", "PARTIALLY_PAID", "OVERDUE"}
       /\ statement'[n].status = "PAID" <=> statement'[n].outstanding = 0
  BY <1>8, <1>10, <1>11
<1> QED BY <1>3, <1>4, <1>11, <1>12, <1>14, <1>15 DEF ClearedBy

\* The adjustments add natural amounts, and a cycle bills a natural total.
LEMMA DueAmounts ==
    ASSUME BillingAssumption, TypeInv, NEW I \in SUBSET DOMAIN adjustments
    PROVE  /\ IsFiniteSet(DOMAIN adjustments)
           /\ Due(I) \subseteq DOMAIN adjustments /\ IsFiniteSet(Due(I))
           /\ \A i \in Due(I) : AmountOf[i] \in Nat
           /\ Total(Due(I), AmountOf) \in Nat
<1>1. adjustments \in Seq(AdjustmentType)
  BY DEF TypeInv, BillingTypeOK
<1>2. DOMAIN adjustments = 1 .. Len(adjustments) /\ Len(adjustments) \in Nat
  BY <1>1
<1>3. IsFiniteSet(DOMAIN adjustments)
  BY <1>2, FS_Interval
<1>4. Due(I) \subseteq DOMAIN adjustments
  BY DEF Due
<1>5. IsFiniteSet(Due(I))
  BY <1>3, <1>4, FS_Subset
<1>6. ASSUME NEW i \in Due(I) PROVE AmountOf[i] \in Nat
  <2>1. i \in DOMAIN adjustments /\ adjustments[i].due
    BY DEF Due
  <2>2. adjustments[i] \in AdjustmentType
    BY <1>1, <2>1
  <2>3. adjustments[i].amount \in Int /\ adjustments[i].amount > 0
    BY <2>1, <2>2 DEF AdjustmentType, TypeInv, DocumentsOk, AdjustmentsOk
  <2>4. AmountOf[i] = adjustments[i].amount
    BY <2>1 DEF AmountOf
  <2> QED BY <2>3, <2>4
<1>7. Total(Due(I), AmountOf) \in Nat
  BY <1>5, <1>6, TotalType
<1> QED BY <1>3, <1>4, <1>5, <1>6, <1>7

LEMMA BillTotalType ==
    ASSUME BillingAssumption, TypeInv, NEW n \in Periods
    PROVE  /\ BillTotal(n) \in Nat
           /\ BillableAdjustments(n) \subseteq DOMAIN adjustments
           /\ DocumentsOf("invoice", BillableInvoices(n))
                \cup DocumentsOf("fee", BillableFees(n)) \subseteq Documents
<1> DEFINE D == DocumentsOf("invoice", BillableInvoices(n))
                  \cup DocumentsOf("fee", BillableFees(n))
           A == BillableAdjustments(n)
<1>1. D \subseteq Documents
  BY DEF DocumentsOf, Documents, BillableInvoices, BillableFees
<1>2. A \subseteq DOMAIN adjustments
  BY DEF BillableAdjustments
<1>3. BillTotal(n) = Total(D, Owed) + Total(Due(A), AmountOf)
  BY DEF BillTotal
<1> HIDE DEF D, A
<1>4. Total(Due(A), AmountOf) \in Nat
  BY <1>2, DueAmounts
<1>5. Total(D, Owed) \in Nat
  <2>1. IsFiniteSet(D)
    BY <1>1, DocumentsFinite, FS_Subset
  <2>2. \A d \in D : Owed[d] \in Nat
    BY <1>1, OwedType
  <2> QED BY <2>1, <2>2, TotalType
<1> QED BY <1>1, <1>2, <1>3, <1>4, <1>5 DEF D, A

LEMMA CloseEffects ==
    ASSUME BillingAssumption, TypeInv, NEW n \in Periods, CloseBooks(n)
    PROVE  LET total == BillTotal(n) IN
           /\ total \in Nat
           /\ statement[n].status = "NONE" /\ statement[n] = NoStatement
           /\ account' \in [advance : Nat, unbilled : Nat, invoiced : Nat]
           /\ account'.advance = account.advance
           /\ account'.unbilled = account.unbilled - total
           /\ account'.invoiced = account.invoiced + total
           /\ statement' \in [Periods -> StatementType]
           /\ \A m \in Periods : m # n => statement'[m] = statement[m]
           /\ statement'[n].lines = BillableInvoices(n)
           /\ statement'[n].feeLines = BillableFees(n)
           /\ statement'[n].adjustments = BillableAdjustments(n)
           /\ statement'[n].total = total
           /\ statement'[n].paid = 0 /\ statement'[n].credited = 0
           /\ statement'[n].outstanding = total
           /\ statement'[n].status = IF total = 0 THEN "PAID" ELSE "ISSUED"
           /\ invoice' \in [Shipments -> InvoiceType]
           /\ fee' \in [Shipments -> FeeType]
           /\ \A s \in Shipments :
                 /\ invoice'[s].status = invoice[s].status
                 /\ invoice'[s].total = invoice[s].total
                 /\ invoice'[s].advance = invoice[s].advance
                 /\ invoice'[s].credit = invoice[s].credit
                 /\ invoice'[s].statement = IF s \in BillableInvoices(n) THEN n
                                            ELSE invoice[s].statement
                 /\ fee'[s].total = fee[s].total
                 /\ fee'[s].credit = fee[s].credit
                 /\ fee'[s].statement = IF s \in BillableFees(n) THEN n
                                        ELSE fee[s].statement
           /\ adjustments' \in Seq(AdjustmentType)
           /\ DOMAIN adjustments' = DOMAIN adjustments
           /\ Len(adjustments') = Len(adjustments)
           /\ \A i \in DOMAIN adjustments :
                 /\ adjustments'[i].shipment = adjustments[i].shipment
                 /\ adjustments'[i].amount = adjustments[i].amount
                 /\ adjustments'[i].due = adjustments[i].due
                 /\ adjustments'[i].statement =
                       IF i \in BillableAdjustments(n) THEN n
                       ELSE adjustments[i].statement
<1> DEFINE total == BillTotal(n)
           B == BillableInvoices(n)
           F == BillableFees(n)
           A == BillableAdjustments(n)
           rec == [status |-> IF total = 0 THEN "PAID" ELSE "ISSUED",
                   lines |-> B, feeLines |-> F, adjustments |-> A,
                   total |-> total, paid |-> 0, credited |-> 0,
                   outstanding |-> total]
<1>1. /\ account \in [advance : Nat, unbilled : Nat, invoiced : Nat]
      /\ invoice \in [Shipments -> InvoiceType] /\ fee \in [Shipments -> FeeType]
      /\ adjustments \in Seq(AdjustmentType)
      /\ statement \in [Periods -> StatementType]
  BY DEF TypeInv, BillingTypeOK
<1>2. total \in Nat /\ A \subseteq DOMAIN adjustments
  BY BillTotalType
<1>3. B \subseteq Shipments /\ F \subseteq Shipments
  BY DEF BillableInvoices, BillableFees
<1>4. n \in 0 .. LastPeriod
  BY Constants
<1>5. /\ ~ Exists(n) /\ total <= account.unbilled
      /\ statement' = [statement EXCEPT ![n] = rec]
      /\ account' = [account EXCEPT !.unbilled = @ - total,
                                    !.invoiced = @ + total]
      /\ invoice' = [s \in Shipments |->
            IF s \in B THEN [invoice[s] EXCEPT !.statement = n] ELSE invoice[s]]
      /\ fee' = [s \in Shipments |->
            IF s \in F THEN [fee[s] EXCEPT !.statement = n] ELSE fee[s]]
      /\ adjustments' = [i \in DOMAIN adjustments |->
            IF i \in A THEN [adjustments[i] EXCEPT !.statement = n]
            ELSE adjustments[i]]
  BY DEF CloseBooks, Closable
<1>6. statement[n].status = "NONE" /\ statement[n] = NoStatement
  BY <1>5 DEF Exists, TypeInv, DocumentsOk, StatementsOk
<1> HIDE DEF total, B, F, A
<1>7. DOMAIN adjustments = 1 .. Len(adjustments) /\ Len(adjustments) \in Nat
  BY <1>1
<1>8. rec \in StatementType
  BY <1>2, <1>3, <1>7 DEF StatementType
<1>9. /\ rec.status = (IF total = 0 THEN "PAID" ELSE "ISSUED")
      /\ rec.lines = B /\ rec.feeLines = F /\ rec.adjustments = A
      /\ rec.total = total /\ rec.paid = 0 /\ rec.credited = 0
      /\ rec.outstanding = total
  OBVIOUS
<1> HIDE DEF rec
<1>10. /\ statement' \in [Periods -> StatementType] /\ statement'[n] = rec
       /\ \A m \in Periods : m # n => statement'[m] = statement[m]
  BY <1>1, <1>5, <1>8
<1>11. /\ account' \in [advance : Nat, unbilled : Nat, invoiced : Nat]
       /\ account'.advance = account.advance
       /\ account'.unbilled = account.unbilled - total
       /\ account'.invoiced = account.invoiced + total
  <2> DEFINE i == account.invoiced + total
             u == account.unbilled - total
  <2>1. i \in Nat /\ u \in Nat
    <3>1. account.invoiced \in Nat /\ account.unbilled \in Nat
      BY <1>1
    <3> QED BY <1>2, <1>5, <3>1
  <2>2. account' = [account EXCEPT !.unbilled = u, !.invoiced = i]
    BY <1>5
  <2> HIDE DEF i, u
  <2>3. account' \in [advance : Nat, unbilled : Nat, invoiced : Nat]
    BY <1>1, <2>1, <2>2
  <2>4. /\ account'.invoiced = i /\ account'.advance = account.advance
        /\ account'.unbilled = u
    BY <1>1, <2>2
  <2> QED BY <2>3, <2>4 DEF i, u
<1>12. ASSUME NEW s \in Shipments
       PROVE  /\ invoice'[s] \in InvoiceType
              /\ invoice'[s].status = invoice[s].status
              /\ invoice'[s].total = invoice[s].total
              /\ invoice'[s].advance = invoice[s].advance
              /\ invoice'[s].credit = invoice[s].credit
              /\ invoice'[s].statement = IF s \in B THEN n ELSE invoice[s].statement
  <2> DEFINE old == invoice[s]
             new == [old EXCEPT !.statement = n]
  <2>1. old \in InvoiceType
    BY <1>1
  <2>2. invoice'[s] = IF s \in B THEN new ELSE old
    BY <1>5
  <2> HIDE DEF old
  <2>3. new \in InvoiceType
    BY <1>4, <2>1 DEF InvoiceType
  <2>4. /\ new.status = old.status /\ new.total = old.total
        /\ new.advance = old.advance /\ new.credit = old.credit
        /\ new.statement = n
    BY <2>1 DEF InvoiceType
  <2> HIDE DEF new
  <2> QED BY <2>1, <2>2, <2>3, <2>4 DEF old
<1>13. ASSUME NEW s \in Shipments
       PROVE  /\ fee'[s] \in FeeType
              /\ fee'[s].total = fee[s].total /\ fee'[s].credit = fee[s].credit
              /\ fee'[s].statement = IF s \in F THEN n ELSE fee[s].statement
  <2> DEFINE old == fee[s]
             new == [old EXCEPT !.statement = n]
  <2>1. old \in FeeType
    BY <1>1
  <2>2. fee'[s] = IF s \in F THEN new ELSE old
    BY <1>5
  <2> HIDE DEF old
  <2>3. new \in FeeType
    BY <1>4, <2>1 DEF FeeType
  <2>4. /\ new.total = old.total /\ new.credit = old.credit /\ new.statement = n
    BY <2>1 DEF FeeType
  <2> HIDE DEF new
  <2> QED BY <2>1, <2>2, <2>3, <2>4 DEF old
<1>14. ASSUME NEW i \in DOMAIN adjustments
       PROVE  /\ adjustments'[i] \in AdjustmentType
              /\ adjustments'[i].shipment = adjustments[i].shipment
              /\ adjustments'[i].amount = adjustments[i].amount
              /\ adjustments'[i].due = adjustments[i].due
              /\ adjustments'[i].statement = IF i \in A THEN n
                                             ELSE adjustments[i].statement
  <2> DEFINE old == adjustments[i]
             new == [old EXCEPT !.statement = n]
  <2>1. old \in AdjustmentType
    BY <1>1
  <2>2. adjustments'[i] = IF i \in A THEN new ELSE old
    BY <1>5
  <2> HIDE DEF old
  <2>3. new \in AdjustmentType
    BY <1>4, <2>1 DEF AdjustmentType
  <2>4. /\ new.shipment = old.shipment /\ new.amount = old.amount
        /\ new.due = old.due /\ new.statement = n
    BY <2>1 DEF AdjustmentType
  <2> HIDE DEF new
  <2> QED BY <2>1, <2>2, <2>3, <2>4 DEF old
<1>15. /\ adjustments' \in Seq(AdjustmentType)
       /\ DOMAIN adjustments' = DOMAIN adjustments
       /\ Len(adjustments') = Len(adjustments)
  <2>1. adjustments' = [i \in 1 .. Len(adjustments) |-> adjustments'[i]]
    BY <1>5, <1>7
  <2>2. \A i \in 1 .. Len(adjustments) : adjustments'[i] \in AdjustmentType
    BY <1>7, <1>14
  <2>3. adjustments' \in Seq(AdjustmentType)
    BY <1>7, <2>1, <2>2, IsASeq
  <2>4. DOMAIN adjustments' = 1 .. Len(adjustments)
    BY <2>1
  <2>5. DOMAIN adjustments' = 1 .. Len(adjustments') /\ Len(adjustments') \in Nat
    BY <2>3
  <2>6. Len(adjustments') = Len(adjustments)
    BY <1>7, <2>4, <2>5
  <2> QED BY <1>7, <2>3, <2>4, <2>6
<1>16. invoice' \in [Shipments -> InvoiceType] /\ fee' \in [Shipments -> FeeType]
  BY <1>5, <1>12, <1>13
<1> QED
  BY <1>2, <1>6, <1>9, <1>10, <1>11, <1>12, <1>13, <1>14, <1>15, <1>16
     DEF total, B, F, A

-----------------------------------------------------------------------------
(* Every step keeps the invariant                                          *)

\* A step that leaves the balances, the adjustments and the statements alone.
StillMoney ==
    /\ invoice' \in [Shipments -> InvoiceType]
    /\ \A s \in Shipments :
          /\ invoice'[s].status = invoice[s].status
          /\ invoice'[s].total = invoice[s].total
          /\ invoice'[s].advance = invoice[s].advance
          /\ invoice'[s].credit = invoice[s].credit
          /\ invoice'[s].statement = invoice[s].statement
    /\ UNCHANGED <<account, fee, adjustments, applied, forgiven>>

\* No cancellation is completed or undone.
StillCancelled ==
    /\ cancellation' \in [Shipments ->
          [status : {"NONE", "REQUESTED", "COMPLETED"}, original : Nat]]
    /\ \A s \in Shipments : cancellation[s].status = "COMPLETED"
                               => cancellation'[s].status = "COMPLETED"

OtherTypes ==
    /\ period \in Periods
    /\ stage \in [Shipments -> Stages]
    /\ \A s \in Shipments : amendment[s] \subseteq RevisedTotals[s]
    /\ verified \subseteq Shipments

QuietShipmentStep(s) ==
    \/ \E at \in Periods : RecordCollection(s, at)
    \/ CompletePickup(s) \/ ScanIn(s)
    \/ \E total \in RevisedTotals[s] :
          RequestAmendment(s, total) \/ RejectAmendment(s, total)
    \/ RequestCancellation(s) \/ RejectCancellation(s)

LEMMA QuietShipment ==
    ASSUME BillingAssumption, TypeInv, NEW s \in Shipments, QuietShipmentStep(s)
    PROVE  StillMoney /\ StillCancelled /\ OtherTypes' /\ statement' = statement
<1>1. /\ invoice \in [Shipments -> InvoiceType] /\ stage \in [Shipments -> Stages]
      /\ cancellation \in [Shipments ->
            [status : {"NONE", "REQUESTED", "COMPLETED"}, original : Nat]]
      /\ period \in Periods /\ period \in 0 .. LastPeriod
      /\ OtherTypes
  BY Constants DEF TypeInv, BillingTypeOK, OtherTypes
<1>2. ASSUME NEW next \in Stages, NEW at \in 0 .. LastPeriod, Progress(s, next, at)
      PROVE  StillMoney /\ StillCancelled /\ OtherTypes' /\ statement' = statement
  <2>1. /\ stage' = [stage EXCEPT ![s] = next] /\ invoice' = FinalizeCharge(s, at)
        /\ UNCHANGED <<account, period, amendment, cancellation, verified, fee,
                       adjustments, statement, applied, forgiven>>
    BY <1>2 DEF Progress, requestVars
  <2>2. StillMoney
    BY <1>1, <2>1, FinalizeEffects DEF StillMoney
  <2>3. StillCancelled
    BY <1>1, <2>1 DEF StillCancelled
  <2>4. stage' \in [Shipments -> Stages]
    BY <1>1, <2>1
  <2>5. OtherTypes'
    BY <1>1, <2>1, <2>4 DEF OtherTypes
  <2> QED BY <2>1, <2>2, <2>3, <2>5
<1>3. ASSUME NEW at \in Periods, RecordCollection(s, at)
      PROVE  StillMoney /\ StillCancelled /\ OtherTypes' /\ statement' = statement
  <2>1. Progress(s, "COLLECTED", at)
    BY <1>3 DEF RecordCollection
  <2> QED BY <1>2, <2>1, Constants DEF Stages
<1>4. CASE CompletePickup(s)
  <2>1. Progress(s, "COLLECTED", period)
    BY <1>4 DEF CompletePickup
  <2> QED BY <1>1, <1>2, <2>1 DEF Stages
<1>5. CASE ScanIn(s)
  <2>1. Progress(s, "RECEIVED", period)
    BY <1>5 DEF ScanIn
  <2> QED BY <1>1, <1>2, <2>1 DEF Stages
<1>6. ASSUME UNCHANGED <<account, period, invoice, stage, cancellation, verified,
                         fee, adjustments, statement, applied, forgiven>>,
             \A t \in Shipments : amendment'[t] \subseteq RevisedTotals[t]
      PROVE  StillMoney /\ StillCancelled /\ OtherTypes' /\ statement' = statement
  <2>1. StillMoney /\ StillCancelled
    BY <1>1, <1>6 DEF StillMoney, StillCancelled
  <2>2. OtherTypes'
    BY <1>1, <1>6 DEF OtherTypes
  <2> QED BY <1>6, <2>1, <2>2
<1>7. ASSUME NEW pending \in SUBSET RevisedTotals[s],
             amendment' = [amendment EXCEPT ![s] = pending]
      PROVE  \A t \in Shipments : amendment'[t] \subseteq RevisedTotals[t]
  <2>1. ASSUME NEW t \in Shipments, t # s
        PROVE  amendment'[t] = amendment[t]
    BY <1>7, <2>1
  <2>2. amendment'[s] = pending \/ amendment'[s] = amendment[s]
    BY <1>7
  <2> QED BY <1>1, <2>1, <2>2 DEF OtherTypes
<1>8. ASSUME NEW total \in RevisedTotals[s], RequestAmendment(s, total)
      PROVE  StillMoney /\ StillCancelled /\ OtherTypes' /\ statement' = statement
  <2> DEFINE pending == amendment[s] \cup {total}
  <2>1. /\ amendment' = [amendment EXCEPT ![s] = pending]
        /\ UNCHANGED <<account, period, invoice, stage, cancellation, verified,
                         fee, adjustments, statement, applied, forgiven>>
    BY <1>8 DEF RequestAmendment
  <2>2. pending \in SUBSET RevisedTotals[s]
    BY <1>1 DEF OtherTypes
  <2> HIDE DEF pending
  <2> QED BY <1>6, <1>7, <2>1, <2>2
<1>9. ASSUME NEW total \in RevisedTotals[s], RejectAmendment(s, total)
      PROVE  StillMoney /\ StillCancelled /\ OtherTypes' /\ statement' = statement
  <2> DEFINE pending == amendment[s] \ {total}
  <2>1. /\ amendment' = [amendment EXCEPT ![s] = pending]
        /\ UNCHANGED <<account, period, invoice, stage, cancellation, verified,
                         fee, adjustments, statement, applied, forgiven>>
    BY <1>9 DEF RejectAmendment
  <2>2. pending \in SUBSET RevisedTotals[s]
    BY <1>1 DEF OtherTypes
  <2> HIDE DEF pending
  <2> QED BY <1>6, <1>7, <2>1, <2>2
<1>10. ASSUME NEW c \in [status : {"NONE", "REQUESTED", "COMPLETED"}, original : Nat],
              cancellation[s].status # "COMPLETED",
              cancellation' = [cancellation EXCEPT ![s] = c],
              UNCHANGED <<account, period, invoice, stage, amendment, verified,
                          fee, adjustments, statement, applied, forgiven>>
       PROVE  StillMoney /\ StillCancelled /\ OtherTypes' /\ statement' = statement
  <2>1. StillMoney /\ OtherTypes'
    BY <1>1, <1>10 DEF StillMoney, OtherTypes
  <2>2. StillCancelled
    BY <1>1, <1>10 DEF StillCancelled
  <2> QED BY <1>10, <2>1, <2>2
<1>11. CASE RequestCancellation(s)
  <2> DEFINE c == [status |-> "REQUESTED", original |-> invoice[s].total]
  <2>1. c \in [status : {"NONE", "REQUESTED", "COMPLETED"}, original : Nat]
    BY <1>1 DEF InvoiceType
  <2>2. /\ cancellation[s].status # "COMPLETED"
        /\ cancellation' = [cancellation EXCEPT ![s] = c]
        /\ UNCHANGED <<account, period, invoice, stage, amendment, verified,
                       fee, adjustments, statement, applied, forgiven>>
    BY <1>11 DEF RequestCancellation, NotCancelled
  <2> HIDE DEF c
  <2> QED BY <1>10, <2>1, <2>2
<1>12. CASE RejectCancellation(s)
  <2>1. NoCancellation \in [status : {"NONE", "REQUESTED", "COMPLETED"}, original : Nat]
    BY DEF NoCancellation
  <2>2. /\ cancellation[s].status # "COMPLETED"
        /\ cancellation' = [cancellation EXCEPT ![s] = NoCancellation]
        /\ UNCHANGED <<account, period, invoice, stage, amendment, verified,
                       fee, adjustments, statement, applied, forgiven>>
    BY <1>12 DEF RejectCancellation, Cancelling
  <2> QED BY <1>10, <2>1, <2>2
<1> QED
  BY <1>3, <1>4, <1>5, <1>8, <1>9, <1>11, <1>12 DEF QuietShipmentStep

\* Such a step, with the same statements or an overdue one, keeps the types.
LEMMA StillTyped ==
    ASSUME BillingAssumption, TypeInv, StillMoney, StillCancelled, OtherTypes',
           statement' \in [Periods -> StatementType], StatementsOk'
    PROVE  TypeInv'
<1>1. BillingTypeOK /\ InvoicesOk /\ FeesOk /\ AdjustmentsOk
  BY DEF TypeInv, DocumentsOk
<1>2. statement' \in [Periods -> StatementType']
  BY DEF StillMoney, StatementType
<1>3. BillingTypeOK'
  <2>1. /\ account' \in [advance : Nat, unbilled : Nat, invoiced : Nat]
        /\ fee' \in [Shipments -> FeeType]
        /\ adjustments' \in Seq(AdjustmentType)
        /\ applied' \subseteq Payments /\ forgiven' \in Nat
    BY <1>1 DEF BillingTypeOK, StillMoney
  <2> QED BY <1>2, <2>1
       DEF BillingTypeOK, StillMoney, StillCancelled, OtherTypes
<1>4. InvoicesOk'
  BY <1>1 DEF InvoicesOk, StillMoney
<1>5. FeesOk'
  BY <1>1 DEF FeesOk, StillMoney, StillCancelled
<1>6. AdjustmentsOk'
  <2>1. \A i \in DOMAIN adjustments : adjustments[i].shipment \in Shipments
    <3>1. adjustments \in Seq(AdjustmentType)
      BY <1>1 DEF BillingTypeOK
    <3>2. \A i \in DOMAIN adjustments : adjustments[i] \in AdjustmentType
      BY <3>1
    <3> QED BY <3>2 DEF AdjustmentType
  <2> QED BY <1>1, <2>1 DEF AdjustmentsOk, StillMoney
<1> QED BY <1>3, <1>4, <1>5, <1>6 DEF TypeInv, DocumentsOk

LEMMA OverdueEffects ==
    ASSUME BillingAssumption, TypeInv, NEW n \in Periods, MarkOverdue(n)
    PROVE  /\ StillMoney /\ StillCancelled /\ OtherTypes'
           /\ statement' \in [Periods -> StatementType]
           /\ statement[n].outstanding > 0
           /\ statement[n].status \in {"ISSUED", "PARTIALLY_PAID"}
           /\ statement'[n].status = "OVERDUE"
           /\ \A m \in Periods :
                 /\ statement'[m].lines = statement[m].lines
                 /\ statement'[m].feeLines = statement[m].feeLines
                 /\ statement'[m].adjustments = statement[m].adjustments
                 /\ statement'[m].total = statement[m].total
                 /\ statement'[m].paid = statement[m].paid
                 /\ statement'[m].credited = statement[m].credited
                 /\ statement'[m].outstanding = statement[m].outstanding
                 /\ m # n => statement'[m] = statement[m]
<1> DEFINE old == statement[n]
           rec == [old EXCEPT !.status = "OVERDUE"]
<1>1. BillingTypeOK
  BY DEF TypeInv
<1>2. /\ old.outstanding > 0 /\ old.status \in {"ISSUED", "PARTIALLY_PAID"}
      /\ statement' = [statement EXCEPT ![n] = rec]
      /\ UNCHANGED <<account, period, invoice, stage, amendment, cancellation,
                     verified, fee, adjustments, applied, forgiven>>
  BY DEF MarkOverdue, requestVars
<1>3. StillMoney /\ StillCancelled
  BY <1>1, <1>2 DEF StillMoney, StillCancelled, BillingTypeOK
<1>4. OtherTypes'
  BY <1>1, <1>2 DEF OtherTypes, BillingTypeOK
<1>5. statement \in [Periods -> StatementType] /\ old \in StatementType
  BY <1>1 DEF BillingTypeOK
<1> HIDE DEF old
<1>6. rec \in StatementType
  BY <1>5 DEF StatementType
<1>7. /\ rec.lines = old.lines /\ rec.feeLines = old.feeLines
      /\ rec.adjustments = old.adjustments /\ rec.total = old.total
      /\ rec.paid = old.paid /\ rec.credited = old.credited
      /\ rec.outstanding = old.outstanding /\ rec.status = "OVERDUE"
  BY <1>5 DEF StatementType
<1> HIDE DEF rec
<1>8. /\ statement' \in [Periods -> StatementType] /\ statement'[n] = rec
      /\ \A m \in Periods : m # n => statement'[m] = statement[m]
  BY <1>2, <1>5, <1>6
<1> QED BY <1>2, <1>3, <1>4, <1>7, <1>8 DEF old

\* The credit of an amount to statement n, if n is one.
StatementsCredited(n, amount) ==
    \A m \in Periods :
        /\ statement'[m].lines = statement[m].lines
        /\ statement'[m].feeLines = statement[m].feeLines
        /\ statement'[m].adjustments = statement[m].adjustments
        /\ statement'[m].total = statement[m].total
        /\ statement'[m].paid = statement[m].paid
        /\ statement'[m].outstanding <= statement[m].outstanding
        /\ statement'[m].credited + statement'[m].outstanding
             = statement[m].credited + statement[m].outstanding
        /\ m = n => statement'[m].outstanding = statement[m].outstanding - amount
        /\ m # n => statement'[m] = statement[m]
        /\ \/ statement'[m] = statement[m]
           \/ /\ statement'[m].status = StatusAfter(statement'[m].outstanding)
              /\ statement[m].status # "NONE"

\* A credit keeps the statements and their shape.
LEMMA CreditKeepsStatements ==
    ASSUME BillingAssumption, TypeInv, NEW n, NEW amount \in Nat,
           n # NotYet => n \in Periods,
           ~ (n # NotYet /\ amount > 0) => statement' = statement,
           n # NotYet /\ amount > 0 =>
              /\ amount <= statement[n].outstanding
              /\ statement' = CreditStatement(n, amount)
    PROVE  /\ statement' \in [Periods -> StatementType]
           /\ StatementsOk'
           /\ StatementsCredited(n, amount)
<1>1. statement \in [Periods -> StatementType] /\ StatementsOk
  BY DEF TypeInv, BillingTypeOK, DocumentsOk
<1>2. \A m \in Periods : /\ statement[m].outstanding \in Nat
                         /\ statement[m].credited \in Nat
  BY <1>1 DEF StatementType
<1>3. CASE ~ (n # NotYet /\ amount > 0)
  <2>1. statement' = statement
    BY <1>3
  <2>2. StatementsOk'
    BY <1>1, <2>1 DEF StatementsOk, Exists
  <2>3. n # NotYet => amount = 0
    BY <1>3
  <2> QED BY <1>1, <1>2, <2>1, <2>2, <2>3, Constants DEF StatementsCredited
<1>4. CASE n # NotYet /\ amount > 0
  <2> DEFINE new == CreditStatement(n, amount)
  <2>1. /\ n \in Periods /\ amount <= statement[n].outstanding /\ statement' = new
    BY <1>4
  <2>2. /\ new \in [Periods -> StatementType]
        /\ \A m \in Periods : m # n => new[m] = statement[m]
        /\ new[n].lines = statement[n].lines
        /\ new[n].feeLines = statement[n].feeLines
        /\ new[n].adjustments = statement[n].adjustments
        /\ new[n].total = statement[n].total
        /\ new[n].paid = statement[n].paid
        /\ new[n].credited = statement[n].credited + amount
        /\ new[n].outstanding = statement[n].outstanding - amount
        /\ new[n].status = StatusAfter(statement[n].outstanding - amount)
    BY <1>1, <2>1, CreditedStatement
  <2> HIDE DEF new
  <2>3. statement[n].status # "NONE"
    <3>1. statement[n] # NoStatement
      BY <1>2, <1>4, <2>1 DEF NoStatement
    <3> QED BY <1>1, <2>1, <3>1 DEF StatementsOk, Exists
  <2>4. new[n].status # "NONE"
    BY <2>2 DEF StatusAfter
  <2>5. StatementsOk'
    BY <1>1, <2>1, <2>2, <2>4 DEF StatementsOk, Exists
  <2>6. ASSUME NEW m \in Periods, m = n
        PROVE  /\ new[m].lines = statement[m].lines
               /\ new[m].feeLines = statement[m].feeLines
               /\ new[m].adjustments = statement[m].adjustments
               /\ new[m].total = statement[m].total
               /\ new[m].paid = statement[m].paid
               /\ new[m].outstanding <= statement[m].outstanding
               /\ new[m].credited + new[m].outstanding
                    = statement[m].credited + statement[m].outstanding
               /\ new[m].outstanding = statement[m].outstanding - amount
               /\ new[m].status = StatusAfter(new[m].outstanding)
               /\ statement[m].status # "NONE"
    BY <1>2, <2>1, <2>2, <2>3, <2>6
  <2>7. ASSUME NEW m \in Periods, m # n
        PROVE  /\ new[m] = statement[m]
               /\ new[m].outstanding <= statement[m].outstanding
    BY <1>2, <2>2, <2>7
  <2> QED BY <1>4, <2>1, <2>2, <2>5, <2>6, <2>7 DEF StatementsCredited
<1> QED BY <1>3, <1>4

LEMMA BookTyped ==
    ASSUME BillingAssumption, TypeInv, NEW s \in Shipments,
           NEW total \in BookingTotals, Book(s, total)
    PROVE  TypeInv'
<1>1. BillingTypeOK /\ InvoicesOk /\ FeesOk /\ AdjustmentsOk /\ StatementsOk
  BY DEF TypeInv, DocumentsOk
<1>2. UNCHANGED <<period, stage, amendment, cancellation, verified, fee,
                  adjustments, statement, applied, forgiven>>
  BY DEF Book, requestVars
<1>3. LET advance == Lesser(total, account.advance) IN
      /\ advance \in Nat /\ total \in Nat /\ advance <= total
      /\ account' \in [advance : Nat, unbilled : Nat, invoiced : Nat]
      /\ invoice' \in [Shipments -> InvoiceType]
      /\ \A t \in Shipments : t # s => invoice'[t] = invoice[t]
      /\ invoice'[s].status = "ISSUED"
      /\ invoice'[s].total = total /\ invoice'[s].advance = advance
      /\ invoice'[s].credit = total - advance
      /\ invoice'[s].statement = NotYet /\ invoice[s].statement = NotYet
  BY BookEffects
<1>4. BillingTypeOK'
  BY <1>1, <1>2, <1>3 DEF BillingTypeOK, StatementType
<1>5. InvoicesOk'
  <2>1. invoice'[s].advance + invoice'[s].credit <= invoice'[s].total
    BY <1>3
  <2> QED BY <1>1, <1>3, <2>1 DEF InvoicesOk
<1>6. FeesOk' /\ StatementsOk'
  BY <1>1, <1>2 DEF FeesOk, StatementsOk, Exists
<1>7. AdjustmentsOk'
  <2>1. \A i \in DOMAIN adjustments : adjustments[i].shipment \in Shipments
    <3>1. adjustments \in Seq(AdjustmentType)
      BY <1>1 DEF BillingTypeOK
    <3>2. \A i \in DOMAIN adjustments : adjustments[i] \in AdjustmentType
      BY <3>1
    <3> QED BY <3>2 DEF AdjustmentType
  <2>2. \A t \in Shipments : invoice'[t].statement = invoice[t].statement
    BY <1>3
  <2> QED BY <1>1, <1>2, <2>1, <2>2 DEF AdjustmentsOk
<1> QED BY <1>4, <1>5, <1>6, <1>7 DEF TypeInv, DocumentsOk

LEMMA RepriceTyped ==
    ASSUME BillingAssumption, TypeInv, NEW s \in Shipments, NEW amended \in Nat,
           NEW settles, Issued(s), Reprice(s, amended, settles),
           OtherTypes'
    PROVE  TypeInv'
<1>1. BillingTypeOK /\ InvoicesOk /\ FeesOk /\ AdjustmentsOk /\ StatementsOk
  BY DEF TypeInv, DocumentsOk
<1>2. UNCHANGED <<cancellation, fee, applied, forgiven>>
  BY DEF Reprice
<1> DEFINE n == invoice[s].statement
           billed == n # NotYet
<1>3. PICK used \in Nat, more \in Nat, reduced \in Nat, back \in Nat :
      /\ more > 0 => reduced = 0
      /\ account' \in [advance : Nat, unbilled : Nat, invoiced : Nat]
      /\ account'.advance = account.advance + back - used
      /\ account'.unbilled = account.unbilled + more
                               - (IF billed THEN 0 ELSE reduced)
      /\ account'.invoiced = account.invoiced
                               - (IF billed THEN reduced ELSE 0)
      /\ invoice' \in [Shipments -> InvoiceType]
      /\ \A t \in Shipments : t # s => invoice'[t] = invoice[t]
      /\ invoice'[s].status = "ISSUED" /\ invoice'[s].statement = n
      /\ invoice'[s].credit = invoice[s].credit + more - reduced
      /\ invoice'[s].advance + invoice'[s].credit <= invoice'[s].total
      /\ (invoice'[s].total - invoice'[s].credit) + (back - used)
           = invoice[s].total - invoice[s].credit
      /\ billed => n \in Periods
      /\ ~ (billed /\ reduced > 0) => statement' = statement
      /\ billed /\ reduced > 0 =>
           /\ reduced <= statement[n].outstanding
           /\ statement' = CreditStatement(n, reduced)
      /\ adjustments' = adjustments \o AdjustmentRecords(s, billed,
                            more - reduced, more > reduced)
  BY RepriceEffects
<1>4. statement' \in [Periods -> StatementType] /\ StatementsOk'
  BY <1>3, CreditKeepsStatements
<1>5. /\ adjustments \in Seq(AdjustmentType) /\ period \in Periods
  BY <1>1 DEF BillingTypeOK
<1>7. adjustments' = AdjustedBy(s, n, more, reduced)
  BY <1>3 DEF AdjustedBy
<1>8. /\ adjustments' \in Seq(AdjustmentType)
      /\ Len(adjustments) \in Nat /\ Len(adjustments') \in Nat
      /\ Len(adjustments) <= Len(adjustments')
      /\ \A i \in 1 .. Len(adjustments) : adjustments'[i] = adjustments[i]
      /\ \A i \in 1 .. Len(adjustments') :
            i \notin 1 .. Len(adjustments) =>
               /\ i = Len(adjustments) + 1 /\ n # NotYet /\ more # reduced
               /\ adjustments'[i].shipment = s
               /\ adjustments'[i].amount = more - reduced
               /\ adjustments'[i].due <=> more > reduced
               /\ adjustments'[i].statement = NotYet
      /\ n # NotYet /\ more # reduced => Len(adjustments') = Len(adjustments) + 1
  <2> HIDE DEF n
  <2> QED BY <1>5, <1>7, AdjustmentsGrow
<1>9. statement' \in [Periods -> StatementType']
  BY <1>4, <1>8, StatementTypeGrows
<1>10. BillingTypeOK'
  BY <1>1, <1>2, <1>3, <1>8, <1>9 DEF BillingTypeOK, OtherTypes
<1>11. InvoicesOk'
  BY <1>1, <1>3 DEF InvoicesOk
<1>12. FeesOk'
  BY <1>1, <1>2 DEF FeesOk
<1>13. AdjustmentsOk'
  <2>1. DOMAIN adjustments = 1 .. Len(adjustments)
        /\ DOMAIN adjustments' = 1 .. Len(adjustments')
    BY <1>5, <1>8
  <2>2. \A i \in DOMAIN adjustments : adjustments[i].shipment \in Shipments
    <3>1. \A i \in DOMAIN adjustments : adjustments[i] \in AdjustmentType
      BY <1>5
    <3> QED BY <3>1 DEF AdjustmentType
  <2>3. \A t \in Shipments : invoice'[t].statement = invoice[t].statement
    BY <1>3
  <2>4. ASSUME NEW i \in DOMAIN adjustments'
        PROVE  /\ adjustments'[i].due => adjustments'[i].amount > 0
               /\ invoice'[adjustments'[i].shipment].statement # NotYet
    <3>1. CASE i \in 1 .. Len(adjustments)
      BY <1>1, <1>8, <2>1, <2>2, <2>3, <3>1 DEF AdjustmentsOk
    <3>2. CASE i \notin 1 .. Len(adjustments)
      <4>1. more > reduced => more - reduced > 0
        OBVIOUS
      <4> QED BY <1>8, <2>1, <2>3, <3>2, <4>1
    <3> QED BY <3>1, <3>2
  <2> QED BY <2>4 DEF AdjustmentsOk
<1> QED BY <1>4, <1>10, <1>11, <1>12, <1>13 DEF TypeInv, DocumentsOk

LEMMA CancellationTyped ==
    ASSUME BillingAssumption, TypeInv, NEW s \in Shipments,
           NEW requestedFee \in RequestedFees, ApproveCancellation(s, requestedFee)
    PROVE  TypeInv'
<1>1. BillingTypeOK /\ InvoicesOk /\ FeesOk /\ AdjustmentsOk /\ StatementsOk
  BY DEF TypeInv, DocumentsOk
<1>2. UNCHANGED <<period, stage, amendment, verified, applied, forgiven>>
  BY DEF ApproveCancellation
<1> DEFINE n == invoice[s].statement
           billed == n # NotYet
           reversed == invoice[s].credit
<1>3. PICK feeTotal \in Nat, feeCredit \in Nat, back \in Nat :
      /\ reversed \in Nat /\ feeCredit <= feeTotal
      /\ account' \in [advance : Nat, unbilled : Nat, invoiced : Nat]
      /\ invoice' \in [Shipments -> InvoiceType]
      /\ \A t \in Shipments : t # s => invoice'[t] = invoice[t]
      /\ invoice'[s].status = "VOID"
      /\ invoice'[s].credit = 0 /\ invoice'[s].statement = n
      /\ invoice'[s].total = invoice[s].total
      /\ invoice'[s].advance = invoice[s].advance
      /\ fee' \in [Shipments -> FeeType]
      /\ \A t \in Shipments : t # s => fee'[t] = fee[t]
      /\ fee'[s].credit = feeCredit /\ fee'[s].total = feeTotal
      /\ cancellation' \in [Shipments ->
           [status : {"NONE", "REQUESTED", "COMPLETED"}, original : Nat]]
      /\ cancellation'[s].status = "COMPLETED"
      /\ \A t \in Shipments : t # s => cancellation'[t] = cancellation[t]
      /\ billed => n \in Periods
      /\ ~ (billed /\ reversed > 0) => statement' = statement
      /\ billed /\ reversed > 0 =>
           /\ reversed <= statement[n].outstanding
           /\ statement' = CreditStatement(n, reversed)
      /\ adjustments' = adjustments \o AdjustmentRecords(s, billed,
                            0 - reversed, 0 > reversed)
  BY CancellationEffects
<1>4. statement' \in [Periods -> StatementType] /\ StatementsOk'
  BY <1>3, CreditKeepsStatements
<1>5. /\ adjustments \in Seq(AdjustmentType) /\ period \in Periods
      /\ invoice \in [Shipments -> InvoiceType]
  BY <1>1 DEF BillingTypeOK
<1> DEFINE zero == 0
<1>7. /\ zero \in Nat /\ reversed \in Nat
      /\ adjustments' = AdjustedBy(s, n, zero, reversed)
  BY <1>3 DEF AdjustedBy
<1> HIDE DEF zero
<1>8. /\ adjustments' \in Seq(AdjustmentType)
      /\ Len(adjustments) \in Nat /\ Len(adjustments') \in Nat
      /\ Len(adjustments) <= Len(adjustments')
      /\ \A i \in 1 .. Len(adjustments) : adjustments'[i] = adjustments[i]
      /\ \A i \in 1 .. Len(adjustments') :
            i \notin 1 .. Len(adjustments) =>
               /\ i = Len(adjustments) + 1 /\ n # NotYet /\ zero # reversed
               /\ adjustments'[i].shipment = s
               /\ adjustments'[i].amount = zero - reversed
               /\ adjustments'[i].due <=> zero > reversed
               /\ adjustments'[i].statement = NotYet
      /\ n # NotYet /\ zero # reversed => Len(adjustments') = Len(adjustments) + 1
  <2> HIDE DEF n, reversed
  <2> QED BY <1>5, <1>7, AdjustmentsGrow
<1>9. statement' \in [Periods -> StatementType']
  BY <1>4, <1>8, StatementTypeGrows
<1>10. BillingTypeOK'
  BY <1>1, <1>2, <1>3, <1>8, <1>9 DEF BillingTypeOK
<1>11. InvoicesOk'
  <2>1. invoice[s].advance \in Nat /\ invoice[s].total \in Nat
        /\ invoice[s].advance + reversed <= invoice[s].total
    BY <1>1, <1>5 DEF InvoiceType, InvoicesOk
  <2>2. /\ invoice'[s].credit = 0 /\ invoice'[s].total = invoice[s].total
        /\ invoice'[s].advance = invoice[s].advance /\ reversed \in Nat
    BY <1>3
  <2> HIDE DEF reversed
  <2>3. invoice'[s].advance + invoice'[s].credit <= invoice'[s].total
    BY <2>1, <2>2
  <2> QED BY <1>1, <1>3, <2>3 DEF InvoicesOk
<1>12. FeesOk'
  BY <1>1, <1>3 DEF FeesOk
<1>13. AdjustmentsOk'
  <2>1. DOMAIN adjustments = 1 .. Len(adjustments)
        /\ DOMAIN adjustments' = 1 .. Len(adjustments')
    BY <1>5, <1>8
  <2>2. \A i \in DOMAIN adjustments : adjustments[i].shipment \in Shipments
    <3>1. \A i \in DOMAIN adjustments : adjustments[i] \in AdjustmentType
      BY <1>5
    <3> QED BY <3>1 DEF AdjustmentType
  <2>3. \A t \in Shipments : invoice'[t].statement = invoice[t].statement
    BY <1>3
  <2>4. ASSUME NEW i \in DOMAIN adjustments'
        PROVE  /\ adjustments'[i].due => adjustments'[i].amount > 0
               /\ invoice'[adjustments'[i].shipment].statement # NotYet
    <3>1. CASE i \in 1 .. Len(adjustments)
      BY <1>1, <1>8, <2>1, <2>2, <2>3, <3>1 DEF AdjustmentsOk
    <3>2. CASE i \notin 1 .. Len(adjustments)
      <4>1. ~ (zero > reversed)
        BY <1>7 DEF zero
      <4> QED BY <1>8, <2>1, <2>3, <3>2, <4>1
    <3> QED BY <3>1, <3>2
  <2> QED BY <2>4 DEF AdjustmentsOk
<1> QED BY <1>4, <1>10, <1>11, <1>12, <1>13 DEF TypeInv, DocumentsOk

\* The shipment of an adjustment.
LEMMA AdjustmentsName ==
    ASSUME TypeInv
    PROVE  /\ DOMAIN adjustments = 1 .. Len(adjustments) /\ Len(adjustments) \in Nat
           /\ \A i \in DOMAIN adjustments :
                 adjustments[i] \in AdjustmentType
                   /\ adjustments[i].shipment \in Shipments
<1>1. adjustments \in Seq(AdjustmentType)
  BY DEF TypeInv, BillingTypeOK
<1>2. /\ DOMAIN adjustments = 1 .. Len(adjustments) /\ Len(adjustments) \in Nat
      /\ \A i \in DOMAIN adjustments : adjustments[i] \in AdjustmentType
  BY <1>1
<1> QED BY <1>2 DEF AdjustmentType

LEMMA CloseTyped ==
    ASSUME BillingAssumption, TypeInv, NEW n \in Periods, CloseBooks(n)
    PROVE  TypeInv'
<1>1. BillingTypeOK /\ InvoicesOk /\ FeesOk /\ AdjustmentsOk /\ StatementsOk
  BY DEF TypeInv, DocumentsOk
<1>2. UNCHANGED <<period, stage, amendment, cancellation, verified, applied, forgiven>>
  BY DEF CloseBooks, requestVars
<1>3. /\ account' \in [advance : Nat, unbilled : Nat, invoiced : Nat]
      /\ statement' \in [Periods -> StatementType]
      /\ \A m \in Periods : m # n => statement'[m] = statement[m]
      /\ statement'[n].status \in {"PAID", "ISSUED"}
      /\ invoice' \in [Shipments -> InvoiceType]
      /\ fee' \in [Shipments -> FeeType]
      /\ adjustments' \in Seq(AdjustmentType)
      /\ DOMAIN adjustments' = DOMAIN adjustments
      /\ Len(adjustments') = Len(adjustments)
  BY CloseEffects
<1>4. \A s \in Shipments :
         /\ invoice'[s].status = invoice[s].status
         /\ invoice'[s].total = invoice[s].total
         /\ invoice'[s].advance = invoice[s].advance
         /\ invoice'[s].credit = invoice[s].credit
         /\ invoice'[s].statement = IF s \in BillableInvoices(n) THEN n
                                    ELSE invoice[s].statement
         /\ fee'[s].total = fee[s].total
         /\ fee'[s].credit = fee[s].credit
         /\ fee'[s].statement = IF s \in BillableFees(n) THEN n
                                ELSE fee[s].statement
  BY CloseEffects
<1>5. \A i \in DOMAIN adjustments :
         /\ adjustments'[i].shipment = adjustments[i].shipment
         /\ adjustments'[i].amount = adjustments[i].amount
         /\ adjustments'[i].due = adjustments[i].due
  BY CloseEffects
<1>6. n # NotYet
  BY Constants
<1>7. BillingTypeOK'
  <2>1. statement' \in [Periods -> StatementType']
    BY <1>3 DEF StatementType
  <2> QED BY <1>1, <1>2, <1>3, <2>1 DEF BillingTypeOK
<1>8. InvoicesOk'
  <2>1. \A s \in BillableInvoices(n) : invoice[s].status = "ISSUED"
    BY DEF BillableInvoices, Issued
  <2> QED BY <1>1, <1>4, <2>1 DEF InvoicesOk
<1>9. FeesOk'
  <2>1. fee \in [Shipments -> FeeType]
    BY <1>1 DEF BillingTypeOK
  <2>2. \A s \in BillableFees(n) : fee[s].credit # 0
    BY <2>1 DEF BillableFees, FeeType
  <2> QED BY <1>1, <1>2, <1>4, <2>2 DEF FeesOk
<1>10. AdjustmentsOk'
  <2>1. ASSUME NEW s \in Shipments, invoice[s].statement # NotYet
        PROVE  invoice'[s].statement # NotYet
    BY <1>4, <1>6, <2>1
  <2> QED BY <1>1, <1>3, <1>5, <2>1, AdjustmentsName DEF AdjustmentsOk
<1>11. StatementsOk'
  BY <1>1, <1>3 DEF StatementsOk, Exists
<1> QED BY <1>7, <1>8, <1>9, <1>10, <1>11 DEF TypeInv, DocumentsOk

\* What documents keep when a payment or a write-off takes something off them.
LEMMA SettledTyped ==
    ASSUME BillingAssumption, TypeInv, NEW owed \in [Documents -> Nat],
           \A d \in Documents : owed[d] <= Owed[d], SetOwed(owed),
           UNCHANGED <<period, stage, amendment, cancellation, verified, adjustments>>,
           account' \in [advance : Nat, unbilled : Nat, invoiced : Nat],
           applied' \subseteq Payments, forgiven' \in Nat,
           statement' \in [Periods -> StatementType], StatementsOk'
    PROVE  TypeInv'
<1>1. BillingTypeOK /\ InvoicesOk /\ FeesOk /\ AdjustmentsOk /\ StatementsOk
  BY DEF TypeInv, DocumentsOk
<1>2. invoice \in [Shipments -> InvoiceType] /\ fee \in [Shipments -> FeeType]
  BY <1>1 DEF BillingTypeOK
<1>3. /\ invoice' \in [Shipments -> InvoiceType]
      /\ fee' \in [Shipments -> FeeType]
  BY <1>2, SetOwedEffects
<1>4. \A s \in Shipments :
         /\ invoice'[s].status = invoice[s].status
         /\ invoice'[s].total = invoice[s].total
         /\ invoice'[s].advance = invoice[s].advance
         /\ invoice'[s].statement = invoice[s].statement
         /\ invoice'[s].credit = owed[<<"invoice", s>>]
         /\ fee'[s].total = fee[s].total
         /\ fee'[s].statement = fee[s].statement
         /\ fee'[s].credit = owed[<<"fee", s>>]
  BY <1>2, SetOwedEffects
<1>5. \A s \in Shipments : /\ invoice'[s].credit <= invoice[s].credit
                           /\ fee'[s].credit <= fee[s].credit
  BY <1>4, OwedType
<1>6. BillingTypeOK'
  <2>1. statement' \in [Periods -> StatementType']
    BY DEF StatementType
  <2> QED BY <1>1, <1>3, <2>1 DEF BillingTypeOK
<1>7. \A s \in Shipments :
         /\ invoice[s].credit \in Nat /\ invoice'[s].credit \in Nat
         /\ invoice[s].advance \in Nat /\ invoice[s].total \in Nat
         /\ fee[s].credit \in Nat /\ fee'[s].credit \in Nat /\ fee[s].total \in Nat
  BY <1>2, <1>3 DEF InvoiceType, FeeType
<1>8. InvoicesOk'
  <2>1. ASSUME NEW s \in Shipments
        PROVE  /\ invoice[s].credit = 0 => invoice'[s].credit = 0
               /\ invoice[s].advance + invoice[s].credit <= invoice[s].total =>
                    invoice'[s].advance + invoice'[s].credit <= invoice'[s].total
    <3>1. /\ invoice'[s].advance = invoice[s].advance
          /\ invoice'[s].total = invoice[s].total
      BY <1>4
    <3>2. invoice'[s].credit <= invoice[s].credit
      BY <1>5
    <3>3. /\ invoice[s].credit \in Nat /\ invoice'[s].credit \in Nat
          /\ invoice[s].advance \in Nat /\ invoice[s].total \in Nat
      BY <1>7
    <3> QED BY <3>1, <3>2, <3>3
  <2> QED BY <1>1, <1>4, <2>1 DEF InvoicesOk
<1>9. FeesOk'
  <2>1. ASSUME NEW s \in Shipments
        PROVE  /\ fee[s].credit = 0 => fee'[s].credit = 0
               /\ fee[s].credit <= fee[s].total => fee'[s].credit <= fee'[s].total
    <3>1. fee'[s].total = fee[s].total
      BY <1>4
    <3>2. fee'[s].credit <= fee[s].credit
      BY <1>5
    <3>3. fee[s].credit \in Nat /\ fee'[s].credit \in Nat /\ fee[s].total \in Nat
      BY <1>7
    <3> QED BY <3>1, <3>2, <3>3
  <2> QED BY <1>1, <1>4, <2>1 DEF FeesOk
<1>10. AdjustmentsOk'
  BY <1>1, <1>4, AdjustmentsName DEF AdjustmentsOk
<1> QED BY <1>6, <1>8, <1>9, <1>10 DEF TypeInv, DocumentsOk

\* The statements after a payment.
LEMMA PaidStatements ==
    ASSUME TypeInv, NEW paid \in [Periods -> Nat],
           \A n \in Periods : paid[n] <= statement[n].outstanding,
           statement' = [n \in Periods |-> PaidOff(statement[n], paid[n])]
    PROVE  /\ statement' \in [Periods -> StatementType] /\ StatementsOk'
           /\ \A n \in Periods :
                 /\ statement'[n].lines = statement[n].lines
                 /\ statement'[n].feeLines = statement[n].feeLines
                 /\ statement'[n].adjustments = statement[n].adjustments
                 /\ statement'[n].total = statement[n].total
                 /\ statement'[n].credited = statement[n].credited
                 /\ statement'[n].paid = statement[n].paid + paid[n]
                 /\ statement'[n].outstanding = statement[n].outstanding - paid[n]
                 /\ paid[n] # 0 =>
                      /\ statement'[n].status = StatusAfter(statement'[n].outstanding)
                      /\ statement[n].status # "NONE"
                 /\ paid[n] = 0 => statement'[n].status = statement[n].status
<1>1. statement \in [Periods -> StatementType] /\ StatementsOk
  BY DEF TypeInv, BillingTypeOK, DocumentsOk
<1>2. ASSUME NEW n \in Periods
      PROVE  /\ statement'[n] \in StatementType
             /\ statement'[n].lines = statement[n].lines
             /\ statement'[n].feeLines = statement[n].feeLines
             /\ statement'[n].adjustments = statement[n].adjustments
             /\ statement'[n].total = statement[n].total
             /\ statement'[n].credited = statement[n].credited
             /\ statement'[n].paid = statement[n].paid + paid[n]
             /\ statement'[n].outstanding = statement[n].outstanding - paid[n]
             /\ paid[n] # 0 =>
                   statement'[n].status = StatusAfter(statement'[n].outstanding)
             /\ paid[n] = 0 => statement'[n].status = statement[n].status
  <2> DEFINE amount == paid[n]
             new == statement'[n]
  <2>1. amount \in Nat /\ amount <= statement[n].outstanding
    OBVIOUS
  <2>2. new = PaidOff(statement[n], amount)
    OBVIOUS
  <2>3. /\ new \in StatementType
        /\ new.lines = statement[n].lines /\ new.feeLines = statement[n].feeLines
        /\ new.adjustments = statement[n].adjustments
        /\ new.total = statement[n].total
        /\ new.credited = statement[n].credited
        /\ new.paid = statement[n].paid + amount
        /\ new.outstanding = statement[n].outstanding - amount
        /\ amount # 0 => new.status = StatusAfter(new.outstanding)
        /\ amount = 0 => new.status = statement[n].status
    <3> HIDE DEF amount, new
    <3> QED BY <1>1, <2>1, <2>2, PaidStatement
  <2> QED BY <2>3
<1>3. ASSUME NEW n \in Periods, paid[n] # 0 PROVE statement[n].status # "NONE"
  <2>1. statement[n].outstanding \in Nat /\ paid[n] \in Nat
    BY <1>1 DEF StatementType
  <2>2. statement[n] # NoStatement
    BY <1>3, <2>1 DEF NoStatement
  <2> QED BY <1>1, <2>2 DEF StatementsOk, Exists
<1>4. statement' \in [Periods -> StatementType]
  <2>1. statement' = [n \in Periods |-> statement'[n]]
    OBVIOUS
  <2>2. \A n \in Periods : statement'[n] \in StatementType
    BY <1>2
  <2> HIDE DEF StatementType
  <2> QED BY <2>1, <2>2
<1>5. StatementsOk'
  <2>1. ASSUME NEW n \in Periods, paid[n] # 0 PROVE statement'[n].status # "NONE"
    <3>1. statement'[n].status = StatusAfter(statement'[n].outstanding)
      BY <1>2, <2>1
    <3> DEFINE x == statement'[n].outstanding
    <3>2. StatusAfter(x) # "NONE"
      <4> HIDE DEF x
      <4> QED BY DEF StatusAfter
    <3> QED BY <3>1, <3>2
  <2>2. ASSUME NEW n \in Periods, paid[n] = 0 PROVE statement'[n] = statement[n]
    <3>1. statement'[n] = PaidOff(statement[n], 0)
      BY <2>2
    <3> QED BY <3>1, NothingPaid
  <2> QED BY <1>1, <2>1, <2>2 DEF StatementsOk, Exists
<1> QED BY <1>2, <1>3, <1>4, <1>5

LEMMA VerifyTyped ==
    ASSUME BillingAssumption, TypeInv, BilledOnce, NEW p \in Payments,
           VerifyPayment(p)
    PROVE  TypeInv'
<1>1. PICK owed \in [Documents -> Nat], paid \in [Periods -> Nat], left \in Nat :
         PaymentSpread(p, owed, paid, left)
  BY VerifyEffects
<1>2. statement' \in [Periods -> StatementType] /\ StatementsOk'
  BY <1>1, PaidStatements DEF PaymentSpread
<1>3. UNCHANGED <<period, stage, amendment, cancellation, verified, adjustments, forgiven>>
  BY DEF VerifyPayment, requestVars
<1>4. applied' \subseteq Payments /\ forgiven' \in Nat
  BY <1>1, <1>3 DEF TypeInv, BillingTypeOK, PaymentSpread
<1> QED BY <1>1, <1>2, <1>3, <1>4, SettledTyped DEF PaymentSpread

LEMMA WriteOffTyped ==
    ASSUME BillingAssumption, TypeInv, BilledOnce, NEW n \in Periods,
           NEW requested \in WriteOffs, WriteOff(n, requested)
    PROVE  TypeInv'
<1>1. PICK amount \in Nat, D \in SUBSET Documents :
         ClearedBy(n, amount, D)
  BY WriteOffEffects
<1> DEFINE owed == Spread(amount, D, Owed)
<1>2. Owed \in [Documents -> Nat]
  BY OwedType
<1>3. owed \in [Documents -> Nat] /\ \A d \in Documents : owed[d] <= Owed[d]
  BY <1>2, SpreadShrinks
<1>4. SetOwed(owed)
  BY <1>1 DEF ClearedBy
<1>5. UNCHANGED <<period, stage, amendment, cancellation, verified, adjustments, applied>>
  BY DEF WriteOff, requestVars
<1>6. applied' \subseteq Payments /\ forgiven' \in Nat
  <2>1. Total(D, Owed) \in Nat
    BY <1>2, SpreadOfAll
  <2>2. forgiven \in Nat /\ applied \subseteq Payments
    BY DEF TypeInv, BillingTypeOK
  <2> QED BY <1>1, <1>5, <2>1, <2>2 DEF Lesser, ClearedBy
<1>7. StatementsOk'
  <2>1. StatementsOk
    BY DEF TypeInv, DocumentsOk
  <2> QED BY <1>1, <2>1 DEF StatementsOk, Exists, ClearedBy
<1> HIDE DEF owed
<1> QED BY <1>1, <1>3, <1>4, <1>5, <1>6, <1>7, SettledTyped DEF ClearedBy

-----------------------------------------------------------------------------
(* What a credit records                                                   *)

\* At most one adjustment is added, for a shipment whose invoice is on n.
AdjustmentsGrown(s, n, more, less) ==
    /\ Len(adjustments) <= Len(adjustments')
    /\ \A i \in 1 .. Len(adjustments) : adjustments'[i] = adjustments[i]
    /\ \A i \in 1 .. Len(adjustments') :
          i \notin 1 .. Len(adjustments) =>
             /\ i = Len(adjustments) + 1 /\ n # NotYet /\ more # less
             /\ adjustments'[i].amount = more - less
             /\ adjustments'[i].due <=> more > less
             /\ adjustments'[i].statement = NotYet
    /\ n # NotYet /\ more # less => Len(adjustments') = Len(adjustments) + 1

LEMMA AdjustmentsAreGrown ==
    ASSUME BillingAssumption, adjustments \in Seq(AdjustmentType), period \in Periods,
           NEW s \in Shipments, NEW n, NEW more \in Nat, NEW less \in Nat,
           adjustments' = AdjustedBy(s, n, more, less)
    PROVE  AdjustmentsGrown(s, n, more, less)
BY AdjustmentsGrow DEF AdjustmentsGrown

\* The credit of invoice s moves up by more and down by reduced; the account
\* gets back and is used for the rest.
Repriced(s, used, more, reduced, back) ==
    LET n == invoice[s].statement IN
    /\ more > 0 => reduced = 0
    /\ account'.advance = account.advance + back - used
    /\ account'.unbilled = account.unbilled + more
                             - (IF n = NotYet THEN reduced ELSE 0)
    /\ account'.invoiced = account.invoiced
                             - (IF n = NotYet THEN 0 ELSE reduced)
    /\ \A t \in Shipments : t # s => invoice'[t] = invoice[t]
    /\ invoice[s].status = "ISSUED" /\ invoice'[s].status = "ISSUED"
    /\ invoice'[s].statement = n /\ n \in Periods \cup {NotYet}
    /\ invoice'[s].credit = invoice[s].credit + more - reduced
    /\ (invoice'[s].total - invoice'[s].credit) + (back - used)
         = invoice[s].total - invoice[s].credit
    /\ StatementsCredited(n, reduced)
    /\ AdjustmentsGrown(s, n, more, reduced)
    /\ UNCHANGED <<fee, applied, forgiven>>

LEMMA RepriceIs ==
    ASSUME BillingAssumption, TypeInv, NEW s \in Shipments, NEW amended \in Nat,
           NEW settles, Issued(s), Reprice(s, amended, settles)
    PROVE  \E used \in Nat, more \in Nat, reduced \in Nat, back \in Nat :
              Repriced(s, used, more, reduced, back)
<1>1. /\ adjustments \in Seq(AdjustmentType) /\ period \in Periods
      /\ UNCHANGED <<fee, applied, forgiven>>
      /\ invoice \in [Shipments -> InvoiceType] /\ invoice[s].status = "ISSUED"
  BY DEF TypeInv, BillingTypeOK, Reprice, Issued
<1> DEFINE n == invoice[s].statement
           billed == n # NotYet
<1>3. PICK used \in Nat, more \in Nat, reduced \in Nat, back \in Nat :
      /\ more > 0 => reduced = 0
      /\ account' \in [advance : Nat, unbilled : Nat, invoiced : Nat]
      /\ account'.advance = account.advance + back - used
      /\ account'.unbilled = account.unbilled + more
                               - (IF billed THEN 0 ELSE reduced)
      /\ account'.invoiced = account.invoiced
                               - (IF billed THEN reduced ELSE 0)
      /\ invoice' \in [Shipments -> InvoiceType]
      /\ \A t \in Shipments : t # s => invoice'[t] = invoice[t]
      /\ invoice'[s].status = "ISSUED" /\ invoice'[s].statement = n
      /\ invoice'[s].credit = invoice[s].credit + more - reduced
      /\ invoice'[s].advance + invoice'[s].credit <= invoice'[s].total
      /\ (invoice'[s].total - invoice'[s].credit) + (back - used)
           = invoice[s].total - invoice[s].credit
      /\ billed => n \in Periods
      /\ ~ (billed /\ reduced > 0) => statement' = statement
      /\ billed /\ reduced > 0 =>
           /\ reduced <= statement[n].outstanding
           /\ statement' = CreditStatement(n, reduced)
      /\ adjustments' = adjustments \o AdjustmentRecords(s, billed,
                            more - reduced, more > reduced)
  BY RepriceEffects
<1>4. StatementsCredited(n, reduced)
  BY <1>3, CreditKeepsStatements
<1>5. AdjustmentsGrown(s, n, more, reduced)
  <2>1. adjustments' = AdjustedBy(s, n, more, reduced)
    BY <1>3 DEF AdjustedBy
  <2> HIDE DEF n
  <2> QED BY <1>1, <2>1, AdjustmentsAreGrown
<1>6. n \in Periods \cup {NotYet}
  BY <1>3
<1>7. Repriced(s, used, more, reduced, back)
  BY <1>1, <1>3, <1>4, <1>5, <1>6 DEF Repriced
<1> QED BY <1>7

\* The invoice of s is void, and its fee is new.
Cancelled(s, feeTotal, feeCredit, back) ==
    LET n == invoice[s].statement
        reversed == invoice[s].credit
    IN
    /\ reversed \in Nat /\ feeCredit <= feeTotal
    /\ back + (feeTotal - feeCredit) = invoice[s].total - reversed
    /\ account'.advance = account.advance + back
    /\ account'.unbilled = account.unbilled + feeCredit
                             - (IF n = NotYet THEN reversed ELSE 0)
    /\ account'.invoiced = account.invoiced
                             - (IF n = NotYet THEN 0 ELSE reversed)
    /\ \A t \in Shipments : t # s => invoice'[t] = invoice[t] /\ fee'[t] = fee[t]
    /\ invoice[s].status = "ISSUED" /\ invoice'[s].status = "VOID"
    /\ invoice'[s].credit = 0 /\ invoice'[s].statement = n
    /\ n \in Periods \cup {NotYet}
    /\ fee[s].credit = 0 /\ fee[s].total = 0 /\ fee[s].statement = NotYet
    /\ fee'[s].credit = feeCredit /\ fee'[s].total = feeTotal
    /\ fee'[s].statement = NotYet
    /\ StatementsCredited(n, reversed)
    /\ AdjustmentsGrown(s, n, 0, reversed)
    /\ UNCHANGED <<applied, forgiven>>

LEMMA CancellationIs ==
    ASSUME BillingAssumption, TypeInv, NEW s \in Shipments,
           NEW requestedFee \in RequestedFees, ApproveCancellation(s, requestedFee)
    PROVE  \E feeTotal \in Nat, feeCredit \in Nat, back \in Nat :
              Cancelled(s, feeTotal, feeCredit, back)
<1>1. /\ adjustments \in Seq(AdjustmentType) /\ period \in Periods
      /\ UNCHANGED <<applied, forgiven>>
  BY DEF TypeInv, BillingTypeOK, ApproveCancellation
<1> DEFINE n == invoice[s].statement
           billed == n # NotYet
           reversed == invoice[s].credit
<1>3. PICK feeTotal \in Nat, feeCredit \in Nat, back \in Nat :
           /\ reversed \in Nat /\ feeCredit <= feeTotal
           /\ back + (feeTotal - feeCredit) = invoice[s].total - reversed
           /\ account' \in [advance : Nat, unbilled : Nat, invoiced : Nat]
           /\ account'.advance = account.advance + back
           /\ account'.unbilled = account.unbilled + feeCredit
                                    - (IF billed THEN 0 ELSE reversed)
           /\ account'.invoiced = account.invoiced
                                    - (IF billed THEN reversed ELSE 0)
           /\ invoice' \in [Shipments -> InvoiceType]
           /\ \A t \in Shipments : t # s => invoice'[t] = invoice[t]
           /\ invoice[s].status = "ISSUED" /\ invoice'[s].status = "VOID"
           /\ invoice'[s].credit = 0 /\ invoice'[s].statement = n
           /\ invoice'[s].total = invoice[s].total
           /\ invoice'[s].advance = invoice[s].advance
           /\ fee' \in [Shipments -> FeeType]
           /\ \A t \in Shipments : t # s => fee'[t] = fee[t]
           /\ fee[s].credit = 0 /\ fee[s].total = 0 /\ fee[s].statement = NotYet
           /\ fee'[s].credit = feeCredit /\ fee'[s].total = feeTotal
           /\ fee'[s].statement = NotYet
           /\ cancellation' \in [Shipments ->
                [status : {"NONE", "REQUESTED", "COMPLETED"}, original : Nat]]
           /\ cancellation'[s].status = "COMPLETED"
           /\ \A t \in Shipments : t # s => cancellation'[t] = cancellation[t]
           /\ billed => n \in Periods
           /\ ~ (billed /\ reversed > 0) => statement' = statement
           /\ billed /\ reversed > 0 =>
                /\ reversed <= statement[n].outstanding
                /\ statement' = CreditStatement(n, reversed)
           /\ adjustments' = adjustments \o AdjustmentRecords(s, billed,
                                 0 - reversed, 0 > reversed)
  BY CancellationEffects
<1>4. StatementsCredited(n, reversed)
  BY <1>3, CreditKeepsStatements
<1>5. AdjustmentsGrown(s, n, 0, reversed)
  <2> DEFINE zero == 0
  <2>1. zero \in Nat /\ reversed \in Nat /\ adjustments' = AdjustedBy(s, n, zero, reversed)
    BY <1>3 DEF AdjustedBy
  <2> HIDE DEF n, zero, reversed
  <2>2. AdjustmentsGrown(s, n, zero, reversed)
    BY <1>1, <2>1, AdjustmentsAreGrown
  <2> QED BY <2>2 DEF zero
<1>6. n \in Periods \cup {NotYet}
  BY <1>3
<1>7. Cancelled(s, feeTotal, feeCredit, back)
  BY <1>1, <1>3, <1>4, <1>5, <1>6 DEF Cancelled
<1> QED BY <1>7

-----------------------------------------------------------------------------
(* Statements follow their documents                                       *)

\* What a step may do to a statement, and that its sums still agree.
StatementsFollow ==
    /\ \A m \in Periods : Exists(m) =>
          /\ statement'[m].lines = statement[m].lines
          /\ statement'[m].total = statement[m].total
          /\ statement'[m].outstanding <= statement[m].outstanding
    /\ StatementsAddUp => StatementsAddUp'

StatementTypes ==
    \A m \in Periods : /\ statement[m].total \in Nat /\ statement[m].paid \in Nat
                       /\ statement[m].credited \in Nat
                       /\ statement[m].outstanding \in Nat

LEMMA StatementsTyped ==
    ASSUME TypeInv PROVE StatementTypes
<1>1. statement \in [Periods -> StatementType]
  BY DEF TypeInv, BillingTypeOK
<1> QED BY <1>1 DEF StatementType, StatementTypes

\* Documents that keep their statement, and new adjustments that have none.
LEMMA BilledSame ==
    ASSUME BillingAssumption, TypeInv, TypeInv', BilledOnce,
           \A m \in Periods :
              /\ statement'[m].lines = statement[m].lines
              /\ statement'[m].feeLines = statement[m].feeLines
              /\ statement'[m].adjustments = statement[m].adjustments,
           \A s \in Shipments : /\ invoice'[s].statement = invoice[s].statement
                                /\ fee'[s].statement = fee[s].statement,
           Len(adjustments) <= Len(adjustments'),
           \A i \in 1 .. Len(adjustments) :
              adjustments'[i].statement = adjustments[i].statement,
           \A i \in 1 .. Len(adjustments') :
              i \notin 1 .. Len(adjustments) => adjustments'[i].statement = NotYet
    PROVE  BilledOnce'
<1>1. /\ DOMAIN adjustments = 1 .. Len(adjustments) /\ Len(adjustments) \in Nat
      /\ DOMAIN adjustments' = 1 .. Len(adjustments') /\ Len(adjustments') \in Nat
  <2>1. adjustments \in Seq(AdjustmentType) /\ adjustments' \in Seq(AdjustmentType)
    BY DEF TypeInv, BillingTypeOK, AdjustmentType
  <2> QED BY <2>1
<1>2. DOMAIN adjustments \subseteq DOMAIN adjustments'
  BY <1>1
<1>3. ASSUME NEW n \in Periods
      PROVE  {i \in DOMAIN adjustments' : adjustments'[i].statement = n}
               = {i \in DOMAIN adjustments : adjustments[i].statement = n}
  <2>1. n # NotYet
    BY Constants
  <2>2. ASSUME NEW i \in DOMAIN adjustments'
        PROVE  adjustments'[i].statement = n
                 <=> i \in DOMAIN adjustments /\ adjustments[i].statement = n
    <3>1. CASE i \in DOMAIN adjustments
      <4>1. adjustments'[i].statement = adjustments[i].statement
        BY <1>1, <3>1
      <4> QED BY <3>1, <4>1
    <3>2. CASE i \notin DOMAIN adjustments
      <4>1. adjustments'[i].statement = NotYet
        BY <1>1, <3>2
      <4> QED BY <2>1, <3>2, <4>1
    <3> QED BY <3>1, <3>2
  <2> QED BY <1>2, <2>2
<1>4. ASSUME NEW n \in Periods
      PROVE  /\ {s \in Shipments : invoice'[s].statement = n}
                   = {s \in Shipments : invoice[s].statement = n}
             /\ {s \in Shipments : fee'[s].statement = n}
                   = {s \in Shipments : fee[s].statement = n}
  OBVIOUS
<1> QED BY <1>3, <1>4 DEF BilledOnce

\* Statements that stay as they are, but for their status and their balances.
LEMMA FollowsWhenSame ==
    ASSUME TypeInv,
           \A m \in Periods :
              /\ statement'[m].lines = statement[m].lines
              /\ statement'[m].total = statement[m].total
              /\ statement'[m].paid \in Nat /\ statement'[m].credited \in Nat
              /\ statement'[m].outstanding \in Nat
              /\ statement'[m].outstanding <= statement[m].outstanding
              /\ statement'[m].paid + statement'[m].credited + statement'[m].outstanding
                   = statement[m].paid + statement[m].credited
                       + statement[m].outstanding
              /\ \/ /\ statement'[m].status = statement[m].status
                    /\ statement'[m].outstanding = 0 <=> statement[m].outstanding = 0
                 \/ statement'[m].status = "PAID" <=> statement'[m].outstanding = 0
    PROVE  StatementsFollow
<1>1. StatementTypes
  BY StatementsTyped
<1>2. ASSUME StatementsAddUp, NEW m \in Periods
      PROVE  /\ statement'[m].total = statement'[m].paid + statement'[m].credited
                                       + statement'[m].outstanding
             /\ statement'[m].status # "NONE" =>
                  (statement'[m].status = "PAID" <=> statement'[m].outstanding = 0)
  <2>1. statement[m].total = statement[m].paid + statement[m].credited
                               + statement[m].outstanding
    BY <1>2 DEF StatementsAddUp
  <2>2. statement[m].status # "NONE" =>
          (statement[m].status = "PAID" <=> statement[m].outstanding = 0)
    BY <1>2 DEF StatementsAddUp, Exists
  <2>3. statement'[m].status # "NONE" =>
          (statement'[m].status = "PAID" <=> statement'[m].outstanding = 0)
    BY <2>2
  <2>4. /\ statement'[m].total = statement[m].total
        /\ statement'[m].paid + statement'[m].credited + statement'[m].outstanding
                   = statement[m].paid + statement[m].credited
                       + statement[m].outstanding
    OBVIOUS
  <2> QED BY <2>1, <2>3, <2>4
<1>3. StatementsAddUp => StatementsAddUp'
  BY <1>2 DEF StatementsAddUp, Exists
<1> QED BY <1>3 DEF StatementsFollow

\* A step that moves no money, and the same statements or an overdue one.
LEMMA StillBilled ==
    ASSUME BillingAssumption, TypeInv, TypeInv', BilledOnce, StillMoney,
           \A m \in Periods :
              /\ statement'[m].lines = statement[m].lines
              /\ statement'[m].feeLines = statement[m].feeLines
              /\ statement'[m].adjustments = statement[m].adjustments
              /\ statement'[m].total = statement[m].total
              /\ statement'[m].paid = statement[m].paid
              /\ statement'[m].credited = statement[m].credited
              /\ statement'[m].outstanding = statement[m].outstanding
              /\ \/ statement'[m].status = statement[m].status
                 \/ statement'[m].status = "OVERDUE" /\ statement[m].outstanding > 0
    PROVE  BilledOnce' /\ StatementsFollow
<1>1. StatementTypes
  BY StatementsTyped
<1>2. BilledOnce'
  <2>1. \A s \in Shipments : /\ invoice'[s].statement = invoice[s].statement
                             /\ fee'[s].statement = fee[s].statement
    BY DEF StillMoney
  <2>2. adjustments' = adjustments
    BY DEF StillMoney
  <2>3. /\ Len(adjustments) <= Len(adjustments')
        /\ \A i \in 1 .. Len(adjustments) :
              adjustments'[i].statement = adjustments[i].statement
        /\ \A i \in 1 .. Len(adjustments') : i \in 1 .. Len(adjustments)
    BY <2>2, AdjustmentsName
  <2> QED BY <2>1, <2>3, BilledSame
<1>3. \A m \in Periods :
              /\ statement'[m].paid \in Nat /\ statement'[m].credited \in Nat
              /\ statement'[m].outstanding \in Nat
              /\ statement'[m].outstanding <= statement[m].outstanding
  BY <1>1 DEF StatementTypes
<1>4. \A m \in Periods :
              \/ /\ statement'[m].status = statement[m].status
                 /\ statement'[m].outstanding = 0 <=> statement[m].outstanding = 0
              \/ statement'[m].status = "PAID" <=> statement'[m].outstanding = 0
  BY <1>1 DEF StatementTypes
<1> QED BY <1>2, <1>3, <1>4, FollowsWhenSame

\* A repricing or a cancellation credits a statement.
LEMMA CreditFollows ==
    ASSUME TypeInv, TypeInv', NEW n, NEW amount, StatementsCredited(n, amount)
    PROVE  StatementsFollow
<1>1. StatementTypes /\ StatementTypes'
  BY StatementsTyped DEF TypeInv, StatementTypes, BillingTypeOK, StatementType
<1>2. ASSUME NEW m \in Periods
      PROVE  /\ statement'[m].lines = statement[m].lines
              /\ statement'[m].total = statement[m].total
              /\ statement'[m].paid \in Nat /\ statement'[m].credited \in Nat
              /\ statement'[m].outstanding \in Nat
              /\ statement'[m].outstanding <= statement[m].outstanding
              /\ statement'[m].paid + statement'[m].credited + statement'[m].outstanding
                   = statement[m].paid + statement[m].credited
                       + statement[m].outstanding
              /\ \/ /\ statement'[m].status = statement[m].status
                    /\ statement'[m].outstanding = 0 <=> statement[m].outstanding = 0
                 \/ statement'[m].status = "PAID" <=> statement'[m].outstanding = 0
  <2>1. /\ statement'[m].lines = statement[m].lines
        /\ statement'[m].total = statement[m].total
        /\ statement'[m].paid = statement[m].paid
        /\ statement'[m].outstanding <= statement[m].outstanding
        /\ statement'[m].credited + statement'[m].outstanding
                      = statement[m].credited + statement[m].outstanding
    BY DEF StatementsCredited
  <2>2. /\ statement[m].paid \in Nat /\ statement[m].credited \in Nat
        /\ statement[m].outstanding \in Nat
        /\ statement'[m].paid \in Nat /\ statement'[m].credited \in Nat
        /\ statement'[m].outstanding \in Nat
    BY <1>1 DEF StatementTypes
  <2>3. statement'[m].paid + statement'[m].credited + statement'[m].outstanding
                   = statement[m].paid + statement[m].credited
                       + statement[m].outstanding
    BY <2>1, <2>2
  <2>4. \/ statement'[m] = statement[m]
        \/ statement'[m].status = StatusAfter(statement'[m].outstanding)
    BY DEF StatementsCredited
  <2>5. statement'[m].status = StatusAfter(statement'[m].outstanding) =>
          (statement'[m].status = "PAID" <=> statement'[m].outstanding = 0)
    BY DEF StatusAfter
  <2> QED BY <2>1, <2>2, <2>3, <2>4, <2>5
<1> QED BY <1>2, FollowsWhenSame

LEMMA BookBilled ==
    ASSUME BillingAssumption, TypeInv, TypeInv', BilledOnce, NEW s \in Shipments,
           NEW total \in BookingTotals, Book(s, total)
    PROVE  BilledOnce' /\ StatementsFollow
<1>1. UNCHANGED <<fee, adjustments, statement>>
  BY DEF Book
<1>2. \A t \in Shipments : invoice'[t].statement = invoice[t].statement
  <2>1. /\ \A t \in Shipments : t # s => invoice'[t] = invoice[t]
        /\ invoice'[s].statement = NotYet /\ invoice[s].statement = NotYet
    BY BookEffects
  <2> QED BY <2>1
<1>3. /\ Len(adjustments) <= Len(adjustments')
      /\ \A i \in 1 .. Len(adjustments) :
            adjustments'[i].statement = adjustments[i].statement
      /\ \A i \in 1 .. Len(adjustments') : i \in 1 .. Len(adjustments)
  BY <1>1, AdjustmentsName
<1>4. BilledOnce'
  BY <1>1, <1>2, <1>3, BilledSame
<1>5. StatementsFollow
  <2>1. StatementTypes
    BY StatementsTyped
  <2>2. \A m \in Periods : statement'[m] = statement[m]
    BY <1>1
  <2> QED BY <2>1, <2>2, FollowsWhenSame DEF StatementTypes
<1> QED BY <1>4, <1>5

LEMMA RepriceBilled ==
    ASSUME BillingAssumption, TypeInv, TypeInv', BilledOnce, NEW s \in Shipments,
           NEW amended \in Nat, NEW settles, Issued(s),
           Reprice(s, amended, settles)
    PROVE  BilledOnce' /\ StatementsFollow
<1>1. PICK used \in Nat, more \in Nat, reduced \in Nat, back \in Nat :
         Repriced(s, used, more, reduced, back)
  BY RepriceIs
<1> DEFINE n == invoice[s].statement
<1>2. StatementsCredited(n, reduced) /\ AdjustmentsGrown(s, n, more, reduced)
  BY <1>1 DEF Repriced
<1>3. \A t \in Shipments : /\ invoice'[t].statement = invoice[t].statement
                           /\ fee'[t].statement = fee[t].statement
  BY <1>1 DEF Repriced
<1> HIDE DEF n
<1>4. BilledOnce'
  <2>1. /\ Len(adjustments) <= Len(adjustments')
        /\ \A i \in 1 .. Len(adjustments) :
              adjustments'[i].statement = adjustments[i].statement
        /\ \A i \in 1 .. Len(adjustments') :
              i \notin 1 .. Len(adjustments) => adjustments'[i].statement = NotYet
    BY <1>2 DEF AdjustmentsGrown
  <2>2. \A m \in Periods :
              /\ statement'[m].lines = statement[m].lines
              /\ statement'[m].feeLines = statement[m].feeLines
              /\ statement'[m].adjustments = statement[m].adjustments
    BY <1>2 DEF StatementsCredited
  <2> QED BY <1>3, <2>1, <2>2, BilledSame
<1> QED BY <1>2, <1>4, CreditFollows

LEMMA CancellationBilled ==
    ASSUME BillingAssumption, TypeInv, TypeInv', BilledOnce, NEW s \in Shipments,
           NEW requestedFee \in RequestedFees, ApproveCancellation(s, requestedFee)
    PROVE  BilledOnce' /\ StatementsFollow
<1>1. PICK feeTotal \in Nat, feeCredit \in Nat, back \in Nat :
         Cancelled(s, feeTotal, feeCredit, back)
  BY CancellationIs
<1> DEFINE n == invoice[s].statement
           reversed == invoice[s].credit
<1>2. StatementsCredited(n, reversed) /\ AdjustmentsGrown(s, n, 0, reversed)
  BY <1>1 DEF Cancelled
<1>3. \A t \in Shipments : /\ invoice'[t].statement = invoice[t].statement
                           /\ fee'[t].statement = fee[t].statement
  BY <1>1 DEF Cancelled
<1> HIDE DEF n, reversed
<1>4. BilledOnce'
  <2>1. /\ Len(adjustments) <= Len(adjustments')
        /\ \A i \in 1 .. Len(adjustments) :
              adjustments'[i].statement = adjustments[i].statement
        /\ \A i \in 1 .. Len(adjustments') :
              i \notin 1 .. Len(adjustments) => adjustments'[i].statement = NotYet
    BY <1>2 DEF AdjustmentsGrown
  <2>2. \A m \in Periods :
              /\ statement'[m].lines = statement[m].lines
              /\ statement'[m].feeLines = statement[m].feeLines
              /\ statement'[m].adjustments = statement[m].adjustments
    BY <1>2 DEF StatementsCredited
  <2> QED BY <1>3, <2>1, <2>2, BilledSame
<1> QED BY <1>2, <1>4, CreditFollows

\* What a payment or a write-off leaves on the statements.
LEMMA SettledBilled ==
    ASSUME BillingAssumption, TypeInv, TypeInv', BilledOnce,
           NEW owed \in [Documents -> Nat], SetOwed(owed),
           adjustments' = adjustments,
           \A m \in Periods :
              /\ statement'[m].lines = statement[m].lines
              /\ statement'[m].feeLines = statement[m].feeLines
              /\ statement'[m].adjustments = statement[m].adjustments
    PROVE  BilledOnce'
<1>1. \A s \in Shipments : /\ invoice'[s].statement = invoice[s].statement
                           /\ fee'[s].statement = fee[s].statement
  BY SetOwedEffects DEF TypeInv, BillingTypeOK
<1>2. /\ Len(adjustments) <= Len(adjustments')
      /\ \A i \in 1 .. Len(adjustments) :
            adjustments'[i].statement = adjustments[i].statement
      /\ \A i \in 1 .. Len(adjustments') : i \in 1 .. Len(adjustments)
  BY AdjustmentsName
<1> QED BY <1>1, <1>2, BilledSame

LEMMA VerifyBilled ==
    ASSUME BillingAssumption, TypeInv, TypeInv', BilledOnce, NEW p \in Payments,
           VerifyPayment(p)
    PROVE  BilledOnce' /\ StatementsFollow
<1>1. PICK owed \in [Documents -> Nat], paid \in [Periods -> Nat], left \in Nat :
         PaymentSpread(p, owed, paid, left)
  BY VerifyEffects
<1>2. /\ \A n \in Periods :
                 /\ statement'[n].lines = statement[n].lines
                 /\ statement'[n].feeLines = statement[n].feeLines
                 /\ statement'[n].adjustments = statement[n].adjustments
                 /\ statement'[n].total = statement[n].total
                 /\ statement'[n].credited = statement[n].credited
                 /\ statement'[n].paid = statement[n].paid + paid[n]
                 /\ statement'[n].outstanding = statement[n].outstanding - paid[n]
                 /\ paid[n] # 0 =>
                      /\ statement'[n].status = StatusAfter(statement'[n].outstanding)
                      /\ statement[n].status # "NONE"
                 /\ paid[n] = 0 => statement'[n].status = statement[n].status
  BY <1>1, PaidStatements DEF PaymentSpread
<1>3. adjustments' = adjustments
  BY DEF VerifyPayment
<1>4. BilledOnce'
  BY <1>1, <1>2, <1>3, SettledBilled DEF PaymentSpread
<1>5. StatementTypes /\ StatementTypes'
  BY StatementsTyped DEF TypeInv, StatementTypes, BillingTypeOK, StatementType
<1>6. ASSUME NEW m \in Periods
      PROVE  /\ statement'[m].outstanding <= statement[m].outstanding
             /\ statement'[m].paid + statement'[m].credited + statement'[m].outstanding
                   = statement[m].paid + statement[m].credited
                       + statement[m].outstanding
             /\ \/ /\ statement'[m].status = statement[m].status
                   /\ statement'[m].outstanding = 0 <=> statement[m].outstanding = 0
                \/ statement'[m].status = "PAID" <=> statement'[m].outstanding = 0
  <2>1. /\ statement'[m].credited = statement[m].credited
        /\ statement'[m].paid = statement[m].paid + paid[m]
        /\ statement'[m].outstanding = statement[m].outstanding - paid[m]
    BY <1>2
  <2>2. /\ statement[m].paid \in Nat /\ statement[m].credited \in Nat
        /\ statement[m].outstanding \in Nat /\ paid[m] \in Nat
    BY <1>5 DEF StatementTypes
  <2>3. CASE paid[m] = 0
    <3>1. statement'[m].status = statement[m].status
      BY <1>2, <2>3
    <3>2. statement'[m].outstanding = 0 <=> statement[m].outstanding = 0
      BY <2>1, <2>2, <2>3
    <3> QED BY <2>1, <2>2, <3>1, <3>2
  <2>4. CASE paid[m] # 0
    <3>1. statement'[m].status = StatusAfter(statement'[m].outstanding)
      BY <1>2, <2>4
    <3>2. statement'[m].status = "PAID" <=> statement'[m].outstanding = 0
      BY <3>1 DEF StatusAfter
    <3> QED BY <2>1, <2>2, <3>2
  <2> QED BY <2>3, <2>4
<1>7. StatementsFollow
  BY <1>2, <1>5, <1>6, FollowsWhenSame DEF StatementTypes
<1> QED BY <1>4, <1>7

LEMMA WriteOffBilled ==
    ASSUME BillingAssumption, TypeInv, TypeInv', BilledOnce, NEW n \in Periods,
           NEW requested \in WriteOffs, WriteOff(n, requested)
    PROVE  BilledOnce' /\ StatementsFollow
<1>1. PICK amount \in Nat, D \in SUBSET Documents :
         ClearedBy(n, amount, D)
  BY WriteOffEffects
<1> DEFINE owed == Spread(amount, D, Owed)
<1>2. owed \in [Documents -> Nat] /\ SetOwed(owed)
  BY <1>1, OwedType, SpreadShrinks DEF ClearedBy
<1>3. adjustments' = adjustments
  BY DEF WriteOff
<1> HIDE DEF owed
<1>4. \A m \in Periods :
              /\ statement'[m].lines = statement[m].lines
              /\ statement'[m].feeLines = statement[m].feeLines
              /\ statement'[m].adjustments = statement[m].adjustments
              /\ statement'[m].total = statement[m].total
  BY <1>1 DEF ClearedBy
<1>5. BilledOnce'
  BY <1>2, <1>3, <1>4, SettledBilled
<1>6. StatementTypes /\ StatementTypes'
  BY StatementsTyped DEF TypeInv, StatementTypes, BillingTypeOK, StatementType
<1>7. ASSUME NEW m \in Periods
      PROVE  /\ statement'[m].outstanding <= statement[m].outstanding
             /\ statement'[m].paid + statement'[m].credited + statement'[m].outstanding
                   = statement[m].paid + statement[m].credited
                       + statement[m].outstanding
             /\ \/ /\ statement'[m].status = statement[m].status
                   /\ statement'[m].outstanding = 0 <=> statement[m].outstanding = 0
                \/ statement'[m].status = "PAID" <=> statement'[m].outstanding = 0
  <2>1. /\ statement[m].paid \in Nat /\ statement[m].credited \in Nat
        /\ statement[m].outstanding \in Nat
    BY <1>6 DEF StatementTypes
  <2>2. CASE m = n
    BY <1>1, <2>1, <2>2 DEF ClearedBy
  <2>3. CASE m # n
    <3>1. statement'[m] = statement[m]
      BY <1>1, <2>3 DEF ClearedBy
    <3> QED BY <2>1, <3>1
  <2> QED BY <2>2, <2>3
<1>8. StatementsFollow
  BY <1>4, <1>6, <1>7, FollowsWhenSame DEF StatementTypes
<1> QED BY <1>5, <1>8

\* The parts of a step, in the order of the proofs.
ShipmentSteps(s) ==
    \/ \E total \in BookingTotals : Book(s, total)
    \/ QuietShipmentStep(s)
    \/ \E total \in RevisedTotals[s] :
          ApproveAmendment(s, total) \/ VerifyCharge(s, total)
    \/ \E f \in RequestedFees : ApproveCancellation(s, f)

LEMMA ShipmentStepIs ==
    ASSUME NEW s \in Shipments, ShipmentStep(s)
    PROVE  ShipmentSteps(s)
BY Zenon DEF ShipmentStep, ShipmentSteps, QuietShipmentStep

\* Both approvals of a new price are repricings to a natural total.
LEMMA RepricesOnApproval ==
    ASSUME BillingAssumption, TypeInv, NEW s \in Shipments,
           NEW total \in RevisedTotals[s], ApproveAmendment(s, total)
    PROVE  /\ total \in Nat /\ Issued(s)
           /\ Reprice(s, total, FALSE) /\ OtherTypes'
<1> DEFINE pending == amendment[s] \ {total}
<1>1. /\ Issued(s) /\ Reprice(s, total, FALSE)
      /\ amendment' = [amendment EXCEPT ![s] = pending] /\ verified' = verified
  BY DEF ApproveAmendment, Amendable
<1>2. OtherTypes
  BY DEF TypeInv, BillingTypeOK, OtherTypes
<1>3. total \in Nat /\ pending \subseteq RevisedTotals[s]
  BY <1>2, Constants DEF OtherTypes
<1>4. period' = period /\ stage' = stage
  BY <1>1 DEF Reprice
<1> HIDE DEF pending
<1>5. ASSUME NEW t \in Shipments
      PROVE  amendment'[t] \subseteq RevisedTotals[t]
  <2>1. amendment[t] \subseteq RevisedTotals[t]
    BY <1>2 DEF OtherTypes
  <2>2. CASE t = s /\ s \in DOMAIN amendment
    BY <1>1, <1>3, <2>2
  <2>3. CASE ~ (t = s /\ s \in DOMAIN amendment)
    BY <1>1, <2>1, <2>3
  <2> QED BY <2>2, <2>3
<1>6. OtherTypes'
  BY <1>1, <1>2, <1>4, <1>5 DEF OtherTypes
<1> QED BY <1>1, <1>3, <1>6

LEMMA RepricesOnVerification ==
    ASSUME BillingAssumption, TypeInv, NEW s \in Shipments,
           NEW total \in RevisedTotals[s], VerifyCharge(s, total)
    PROVE  /\ total \in Nat /\ Issued(s)
           /\ Reprice(s, total, TRUE) /\ OtherTypes'
<1>1. /\ Issued(s) /\ Reprice(s, total, TRUE)
      /\ amendment' = amendment /\ verified' = verified \cup {s}
  BY DEF VerifyCharge
<1>2. OtherTypes
  BY DEF TypeInv, BillingTypeOK, OtherTypes
<1>3. total \in Nat
  BY Constants
<1>4. period' = period /\ stage' = stage
  BY <1>1 DEF Reprice
<1>5. OtherTypes'
  BY <1>1, <1>2, <1>4 DEF OtherTypes
<1> QED BY <1>1, <1>3, <1>5

LEMMA StillFollows ==
    ASSUME BillingAssumption, TypeInv, BilledOnce, StillMoney, StillCancelled,
           OtherTypes', statement' = statement
    PROVE  TypeInv' /\ BilledOnce' /\ StatementsFollow
<1>1. statement' \in [Periods -> StatementType] /\ StatementsOk'
  BY DEF TypeInv, BillingTypeOK, DocumentsOk, StatementsOk, Exists
<1>2. TypeInv'
  BY <1>1, StillTyped
<1>3. BilledOnce' /\ StatementsFollow
  BY <1>2, StillBilled
<1> QED BY <1>2, <1>3

LEMMA TickStill ==
    ASSUME BillingAssumption, TypeInv, Tick
    PROVE  StillMoney /\ StillCancelled /\ OtherTypes' /\ statement' = statement
<1>1. /\ period < LastPeriod /\ period' = period + 1
      /\ UNCHANGED <<account, invoice, stage, amendment, cancellation, verified,
                     fee, adjustments, statement, applied, forgiven>>
  BY DEF Tick, requestVars
<1>2. BillingTypeOK /\ period' \in Periods
  <2>1. BillingTypeOK /\ period \in Periods
    BY DEF TypeInv, BillingTypeOK
  <2> QED BY <1>1, <2>1, Constants
<1> QED BY <1>1, <1>2 DEF StillMoney, StillCancelled, OtherTypes, BillingTypeOK

LEMMA OverdueFollows ==
    ASSUME BillingAssumption, TypeInv, BilledOnce, NEW n \in Periods, MarkOverdue(n)
    PROVE  TypeInv' /\ BilledOnce' /\ StatementsFollow /\ StillMoney
             /\ \A m \in Periods : statement'[m].outstanding = statement[m].outstanding
<1>1. /\ StillMoney /\ StillCancelled /\ OtherTypes'
      /\ statement' \in [Periods -> StatementType]
      /\ statement[n].outstanding > 0
      /\ statement[n].status \in {"ISSUED", "PARTIALLY_PAID"}
      /\ statement'[n].status = "OVERDUE"
      /\ \A m \in Periods :
            /\ statement'[m].lines = statement[m].lines
            /\ statement'[m].feeLines = statement[m].feeLines
            /\ statement'[m].adjustments = statement[m].adjustments
            /\ statement'[m].total = statement[m].total
            /\ statement'[m].paid = statement[m].paid
            /\ statement'[m].credited = statement[m].credited
            /\ statement'[m].outstanding = statement[m].outstanding
            /\ m # n => statement'[m] = statement[m]
  BY OverdueEffects
<1>2. StatementsOk'
  <2>1. StatementsOk
    BY DEF TypeInv, DocumentsOk
  <2> QED BY <1>1, <2>1 DEF StatementsOk, Exists
<1>3. TypeInv'
  BY <1>1, <1>2, StillTyped
<1>4. \A m \in Periods :
         \/ statement'[m].status = statement[m].status
         \/ statement'[m].status = "OVERDUE" /\ statement[m].outstanding > 0
  BY <1>1
<1>5. BilledOnce' /\ StatementsFollow
  BY <1>1, <1>3, <1>4, StillBilled
<1> QED BY <1>1, <1>3, <1>5

LEMMA CloseFollows ==
    ASSUME BillingAssumption, TypeInv, TypeInv', BilledOnce, NEW n \in Periods,
           CloseBooks(n)
    PROVE  BilledOnce' /\ StatementsFollow
<1>1. /\ statement[n].status = "NONE" /\ statement[n] = NoStatement
      /\ \A m \in Periods : m # n => statement'[m] = statement[m]
      /\ statement'[n].lines = BillableInvoices(n)
      /\ statement'[n].feeLines = BillableFees(n)
      /\ statement'[n].adjustments = BillableAdjustments(n)
      /\ DOMAIN adjustments' = DOMAIN adjustments
  BY CloseEffects
<1>2. /\ BillTotal(n) \in Nat
      /\ statement'[n].total = BillTotal(n)
      /\ statement'[n].paid = 0 /\ statement'[n].credited = 0
      /\ statement'[n].outstanding = BillTotal(n)
      /\ statement'[n].status = IF BillTotal(n) = 0 THEN "PAID" ELSE "ISSUED"
  BY CloseEffects
<1>3. \A s \in Shipments :
         /\ invoice'[s].statement = IF s \in BillableInvoices(n) THEN n
                                    ELSE invoice[s].statement
         /\ fee'[s].statement = IF s \in BillableFees(n) THEN n
                                ELSE fee[s].statement
  BY CloseEffects
<1>4. \A i \in DOMAIN adjustments :
         adjustments'[i].statement = IF i \in BillableAdjustments(n) THEN n
                                     ELSE adjustments[i].statement
  BY CloseEffects
<1>5. /\ n # NotYet
      /\ \A s \in BillableInvoices(n) : s \in Shipments /\ invoice[s].statement = NotYet
      /\ \A s \in BillableFees(n) : s \in Shipments /\ fee[s].statement = NotYet
      /\ \A i \in BillableAdjustments(n) :
            i \in DOMAIN adjustments /\ adjustments[i].statement = NotYet
  BY Constants DEF BillableInvoices, BillableFees, BillableAdjustments
<1>6. /\ {s \in Shipments : invoice[s].statement = n} = {}
      /\ {s \in Shipments : fee[s].statement = n} = {}
      /\ {i \in DOMAIN adjustments : adjustments[i].statement = n} = {}
  BY <1>1 DEF BilledOnce, NoStatement
<1>7. ASSUME NEW m \in Periods
      PROVE  /\ statement'[m].lines = {s \in Shipments : invoice'[s].statement = m}
             /\ statement'[m].feeLines = {s \in Shipments : fee'[s].statement = m}
             /\ statement'[m].adjustments
                  = {i \in DOMAIN adjustments' : adjustments'[i].statement = m}
  <2>1. CASE m = n
    <3>1. {s \in Shipments : invoice'[s].statement = n} = BillableInvoices(n)
      <4>1. \A s \in Shipments : invoice[s].statement # n
        BY <1>6
      <4>2. \A s \in Shipments : invoice'[s].statement = n <=> s \in BillableInvoices(n)
        BY <1>3, <4>1
      <4>3. BillableInvoices(n) \subseteq Shipments
        BY <1>5
      <4> QED BY <4>2, <4>3
    <3>2. {s \in Shipments : fee'[s].statement = n} = BillableFees(n)
      <4>1. \A s \in Shipments : fee[s].statement # n
        BY <1>6
      <4>2. \A s \in Shipments : fee'[s].statement = n <=> s \in BillableFees(n)
        BY <1>3, <4>1
      <4>3. BillableFees(n) \subseteq Shipments
        BY <1>5
      <4> QED BY <4>2, <4>3
    <3>3. {i \in DOMAIN adjustments' : adjustments'[i].statement = n}
            = BillableAdjustments(n)
      BY <1>1, <1>4, <1>5, <1>6
    <3> QED BY <1>1, <2>1, <3>1, <3>2, <3>3
  <2>2. CASE m # n
    <3>0. m # NotYet
      BY Constants
    <3>1. {s \in Shipments : invoice'[s].statement = m}
            = {s \in Shipments : invoice[s].statement = m}
      BY <1>3, <1>5, <2>2, <3>0
    <3>2. {s \in Shipments : fee'[s].statement = m}
            = {s \in Shipments : fee[s].statement = m}
      BY <1>3, <1>5, <2>2, <3>0
    <3>3. {i \in DOMAIN adjustments' : adjustments'[i].statement = m}
            = {i \in DOMAIN adjustments : adjustments[i].statement = m}
      BY <1>1, <1>4, <1>5, <2>2, <3>0
    <3>4. statement'[m] = statement[m]
      BY <1>1, <2>2
    <3> QED BY <3>1, <3>2, <3>3, <3>4 DEF BilledOnce
  <2> QED BY <2>1, <2>2
<1>8. BilledOnce'
  BY <1>7 DEF BilledOnce
<1>9. \A m \in Periods : Exists(m) => statement'[m] = statement[m]
  BY <1>1 DEF Exists
<1>10. ASSUME StatementsAddUp PROVE StatementsAddUp'
  <2>1. ASSUME NEW m \in Periods
        PROVE  /\ statement'[m].total = statement'[m].paid + statement'[m].credited
                                          + statement'[m].outstanding
               /\ statement'[m].status # "NONE" =>
                    (statement'[m].status = "PAID" <=> statement'[m].outstanding = 0)
    <3>1. CASE m = n
      BY <1>2, <3>1
    <3>2. CASE m # n
      <4>1. statement'[m] = statement[m]
        BY <1>1, <3>2
      <4> QED BY <1>10, <4>1 DEF StatementsAddUp, Exists
    <3> QED BY <3>1, <3>2
  <2> QED BY <2>1 DEF StatementsAddUp, Exists
<1>11. StatementsFollow
  <2>1. StatementTypes
    BY StatementsTyped
  <2> QED BY <1>9, <1>10, <2>1 DEF StatementsFollow, StatementTypes
<1> QED BY <1>8, <1>11

-----------------------------------------------------------------------------
(* The documents and the statements, for every step                        *)

LEMMA InitTyped ==
    ASSUME BillingAssumption, Init
    PROVE  TypeInv /\ BilledOnce /\ StatementsAddUp
<1>1. /\ account = [advance |-> InitialAdvance, unbilled |-> 0, invoiced |-> 0]
      /\ period = 1
      /\ invoice = [s \in Shipments |-> NoInvoice]
      /\ stage = [s \in Shipments |-> "BOOKED"]
      /\ amendment = [s \in Shipments |-> {}]
      /\ cancellation = [s \in Shipments |-> NoCancellation]
      /\ verified = {}
      /\ fee = [s \in Shipments |-> NoFee]
      /\ adjustments = <<>>
      /\ statement = [n \in Periods |-> NoStatement]
      /\ applied = {}
      /\ forgiven = 0
  BY DEF Init
<1>2. /\ NoInvoice \in InvoiceType /\ NoInvoice.status = "NONE"
      /\ NoInvoice.statement = NotYet /\ NoInvoice.total = 0
      /\ NoInvoice.advance = 0 /\ NoInvoice.credit = 0
  BY Constants DEF NoInvoice, InvoiceType
<1>3. /\ NoFee \in FeeType /\ NoFee.statement = NotYet
      /\ NoFee.total = 0 /\ NoFee.credit = 0
  BY Constants DEF NoFee, FeeType
<1>4. /\ NoCancellation \in [status : {"NONE", "REQUESTED", "COMPLETED"}, original : Nat]
      /\ NoCancellation.status = "NONE"
  BY DEF NoCancellation
<1>5. Len(adjustments) = 0 /\ DOMAIN adjustments = {} /\ adjustments \in Seq(AdjustmentType)
  BY <1>1
<1>6. /\ NoStatement \in StatementType /\ NoStatement.status = "NONE"
      /\ NoStatement.lines = {} /\ NoStatement.feeLines = {}
      /\ NoStatement.adjustments = {} /\ NoStatement.total = 0
      /\ NoStatement.paid = 0 /\ NoStatement.credited = 0
      /\ NoStatement.outstanding = 0
  BY DEF NoStatement, StatementType
<1> HIDE DEF NoInvoice, NoFee, NoCancellation, NoStatement
<1>7. BillingTypeOK
  <2>1. account \in [advance : Nat, unbilled : Nat, invoiced : Nat]
    BY <1>1 DEF BillingAssumption
  <2>2. period \in Periods
    BY <1>1, Constants
  <2>3. /\ invoice \in [Shipments -> InvoiceType]
        /\ fee \in [Shipments -> FeeType]
        /\ cancellation \in [Shipments ->
              [status : {"NONE", "REQUESTED", "COMPLETED"}, original : Nat]]
        /\ statement \in [Periods -> StatementType]
    BY <1>1, <1>2, <1>3, <1>4, <1>6
  <2>4. stage \in [Shipments -> Stages]
        /\ \A s \in Shipments : amendment[s] \subseteq RevisedTotals[s]
    BY <1>1 DEF Stages
  <2>5. verified \subseteq Shipments /\ applied \subseteq Payments /\ forgiven \in Nat
    BY <1>1
  <2> QED BY <1>5, <2>1, <2>2, <2>3, <2>4, <2>5 DEF BillingTypeOK
<1>8. InvoicesOk
  BY <1>1, <1>2 DEF InvoicesOk
<1>9. FeesOk
  BY <1>1, <1>3 DEF FeesOk
<1>10. AdjustmentsOk /\ StatementsOk
  BY <1>1, <1>5 DEF AdjustmentsOk, StatementsOk
<1>11. BilledOnce
  <2>1. ASSUME NEW n \in Periods
        PROVE  /\ {s \in Shipments : invoice[s].statement = n} = {}
               /\ {s \in Shipments : fee[s].statement = n} = {}
               /\ {i \in DOMAIN adjustments : adjustments[i].statement = n} = {}
    BY <1>1, <1>2, <1>3, <1>5, Constants
  <2> QED BY <1>1, <1>6, <2>1 DEF BilledOnce
<1>12. StatementsAddUp
  BY <1>1, <1>6 DEF StatementsAddUp, Exists
<1> QED BY <1>7, <1>8, <1>9, <1>10, <1>11, <1>12 DEF TypeInv, DocumentsOk

\* What every step of a shipment keeps.
LEMMA ShipmentFollows ==
    ASSUME BillingAssumption, TypeInv, BilledOnce, NEW s \in Shipments, ShipmentStep(s)
    PROVE  TypeInv' /\ BilledOnce' /\ StatementsFollow
<1>1. ASSUME NEW total \in BookingTotals, Book(s, total)
      PROVE  TypeInv' /\ BilledOnce' /\ StatementsFollow
  BY <1>1, BookTyped, BookBilled
<1>2. CASE QuietShipmentStep(s)
  BY <1>2, QuietShipment, StillFollows
<1>3. ASSUME NEW total \in RevisedTotals[s], ApproveAmendment(s, total)
      PROVE  TypeInv' /\ BilledOnce' /\ StatementsFollow
  <2>1. total \in Nat /\ Issued(s) /\ Reprice(s, total, FALSE) /\ OtherTypes'
    BY <1>3, RepricesOnApproval
  <2>2. TypeInv'
    BY <2>1, RepriceTyped
  <2> QED BY <2>1, <2>2, RepriceBilled
<1>4. ASSUME NEW total \in RevisedTotals[s], VerifyCharge(s, total)
      PROVE  TypeInv' /\ BilledOnce' /\ StatementsFollow
  <2>1. total \in Nat /\ Issued(s) /\ Reprice(s, total, TRUE) /\ OtherTypes'
    BY <1>4, RepricesOnVerification
  <2>2. TypeInv'
    BY <2>1, RepriceTyped
  <2> QED BY <2>1, <2>2, RepriceBilled
<1>5. ASSUME NEW f \in RequestedFees, ApproveCancellation(s, f)
      PROVE  TypeInv' /\ BilledOnce' /\ StatementsFollow
  BY <1>5, CancellationTyped, CancellationBilled
<1>6. ShipmentSteps(s)
  BY ShipmentStepIs
<1> QED BY <1>1, <1>2, <1>3, <1>4, <1>5, <1>6 DEF ShipmentSteps

LEMMA StepFollows ==
    ASSUME BillingAssumption, TypeInv, BilledOnce, [Next]_vars
    PROVE  TypeInv' /\ BilledOnce' /\ StatementsFollow
<1>1. CASE Tick
  BY <1>1, TickStill, StillFollows
<1>2. ASSUME NEW s \in Shipments, ShipmentStep(s)
      PROVE  TypeInv' /\ BilledOnce' /\ StatementsFollow
  BY <1>2, ShipmentFollows
<1>3. ASSUME NEW n \in Periods, StatementStep(n)
      PROVE  TypeInv' /\ BilledOnce' /\ StatementsFollow
  <2>1. CASE CloseBooks(n)
    BY <2>1, CloseTyped, CloseFollows
  <2>2. CASE MarkOverdue(n)
    BY <2>2, OverdueFollows
  <2>3. ASSUME NEW amount \in WriteOffs, WriteOff(n, amount)
        PROVE  TypeInv' /\ BilledOnce' /\ StatementsFollow
    BY <2>3, WriteOffTyped, WriteOffBilled
  <2> QED BY <1>3, <2>1, <2>2, <2>3 DEF StatementStep
<1>4. ASSUME NEW p \in Payments, VerifyPayment(p)
      PROVE  TypeInv' /\ BilledOnce' /\ StatementsFollow
  BY <1>4, VerifyTyped, VerifyBilled
<1>5. CASE UNCHANGED vars
  <2>1. StillMoney /\ StillCancelled /\ OtherTypes' /\ statement' = statement
    BY <1>5 DEF vars, requestVars, StillMoney, StillCancelled, OtherTypes,
                TypeInv, BillingTypeOK
  <2> QED BY <2>1, StillFollows
<1> QED BY <1>1, <1>2, <1>3, <1>4, <1>5 DEF Next

\* The documents keep their shape, and a document is on the statement it names.
LEMMA TypedAndBilled == Spec => [](TypeInv /\ BilledOnce)
<1>1. Init => TypeInv /\ BilledOnce
  BY BillingAssumption, InitTyped
<1>2. TypeInv /\ BilledOnce /\ [Next]_vars => (TypeInv /\ BilledOnce)'
  BY BillingAssumption, StepFollows
<1> QED BY <1>1, <1>2, PTL DEF Spec

\* Every document keeps its shape, and no balance of the account, of an invoice
\* or of a statement is ever negative.
THEOREM DocumentsAreTyped == Spec => []BillingTypeOK
<1>1. TypeInv /\ BilledOnce => BillingTypeOK
  BY DEF TypeInv
<1> QED BY <1>1, TypedAndBilled, PTL

\* Every invoice, fee and adjustment is on the statement it names and on no
\* other: nothing is billed twice, and nothing that was billed is forgotten.
THEOREM BilledOnOneStatement == Spec => []BilledOnce
<1>1. TypeInv /\ BilledOnce => BilledOnce
  OBVIOUS
<1> QED BY <1>1, TypedAndBilled, PTL

\* A statement's total is what was paid, what was credited and what is
\* outstanding, and it is PAID exactly when nothing is.
THEOREM StatementsTell == Spec => []StatementsAddUp
<1> DEFINE Inv == TypeInv /\ BilledOnce /\ StatementsAddUp
<1>1. Init => Inv
  BY BillingAssumption, InitTyped
<1>2. Inv /\ [Next]_vars => Inv'
  BY BillingAssumption, StepFollows DEF StatementsFollow
<1>3. Inv => StatementsAddUp
  OBVIOUS
<1> QED BY <1>1, <1>2, <1>3, PTL DEF Spec

\* A statement that was issued is never reissued, and what it demands only
\* goes down, whatever is repriced, cancelled, paid or written off.
THEOREM StatementsOnlyShrink == Spec => IssuedStatementsOnlyShrink
<1> DEFINE Inv == TypeInv /\ BilledOnce
           Shrinks == \A n \in Periods : Exists(n) =>
                         /\ statement'[n].lines = statement[n].lines
                         /\ statement'[n].total = statement[n].total
                         /\ statement'[n].outstanding <= statement[n].outstanding
<1>1. Init => Inv
  BY BillingAssumption, InitTyped
<1>2. Inv /\ [Next]_vars => Inv'
  BY BillingAssumption, StepFollows
<1>3. Inv /\ [Next]_vars => [Shrinks]_vars
  BY BillingAssumption, StepFollows DEF StatementsFollow
<1> QED BY <1>1, <1>2, <1>3, PTL DEF Spec, IssuedStatementsOnlyShrink

-----------------------------------------------------------------------------
(* The sums                                                                *)

\* The documents and the adjustments that wait for a statement.
Waiting ==
    DocumentsOf("invoice", {s \in Shipments : invoice[s].statement = NotYet})
      \cup DocumentsOf("fee", {s \in Shipments : fee[s].statement = NotYet})
PendingDue == Due({i \in DOMAIN adjustments : adjustments[i].statement = NotYet})
Outstanding == [n \in Periods |-> statement[n].outstanding]

\* What the customer has settled of a document in force.
PaidOn == [d \in Documents |->
             IF d[1] = "invoice"
             THEN IF Issued(d[2]) THEN invoice[d[2]].total - invoice[d[2]].credit ELSE 0
             ELSE fee[d[2]].total - fee[d[2]].credit]

LEMMA WaitingIs ==
    /\ Waiting \subseteq Documents
    /\ \A s \in Shipments :
          /\ <<"invoice", s>> \in Waiting <=> invoice[s].statement = NotYet
          /\ <<"fee", s>> \in Waiting <=> fee[s].statement = NotYet
BY DEF Waiting, DocumentsOf, Documents

LEMMA DocumentsAre ==
    \A d \in Documents : \E s \in Shipments : d = <<"invoice", s>> \/ d = <<"fee", s>>
BY DEF Documents

\* Amounts that differ at most for the documents d and f.
SameBut(from, to, d, f) ==
    \A e \in Documents : e # d /\ e # f => to[e] = from[e]

Amounts == [Documents -> Nat]
DocumentSets == SUBSET Documents

\* A sum over documents of which one changes.
LEMMA SumChange ==
    ASSUME BillingAssumption, NEW S \in DocumentSets,
           NEW owed \in Amounts, NEW other \in Amounts,
           NEW d \in Documents, SameBut(owed, other, d, d)
    PROVE  /\ Total(S, owed) \in Nat /\ Total(S, other) \in Nat
           /\ owed[d] \in Nat /\ other[d] \in Nat
           /\ d \in S => /\ Total(S, other) = Total(S, owed) - owed[d] + other[d]
                         /\ owed[d] <= Total(S, owed)
           /\ d \notin S => Total(S, other) = Total(S, owed)
<1>1. IsFiniteSet(S)
  BY DocumentsFinite, FS_Subset DEF DocumentSets
<1>2. /\ \A e \in S : owed[e] \in Nat /\ other[e] \in Nat
      /\ \A e \in S : e # d => other[e] = owed[e]
  BY DEF SameBut, Amounts, DocumentSets
<1>3. Total(S, owed) \in Nat /\ Total(S, other) \in Nat
  BY <1>1, <1>2, TotalType
<1>6. owed[d] \in Nat /\ other[d] \in Nat
  BY DEF Amounts
<1>4. CASE d \in S
  <2>1. Total(S, other) = Total(S, owed) - owed[d] + other[d]
    BY <1>1, <1>2, <1>4, TotalChange
  <2>2. owed[d] <= Total(S, owed)
    BY <1>1, <1>2, <1>4, TotalRemove
  <2> QED BY <1>3, <1>4, <1>6, <2>1, <2>2
<1>5. CASE d \notin S
  <2>1. \A e \in S : other[e] = owed[e]
    BY <1>2, <1>5
  <2>2. Total(S, other) = Total(S, owed)
    BY <2>1, TotalSame
  <2> QED BY <1>3, <1>5, <1>6, <2>2
<1> QED BY <1>4, <1>5

LEMMA OutstandingType ==
    ASSUME BillingAssumption, TypeInv
    PROVE  /\ Outstanding \in [Periods -> Nat] /\ Total(Periods, Outstanding) \in Nat
           /\ \A m \in Periods : Outstanding[m] = statement[m].outstanding
<1>1. \A m \in Periods : statement[m].outstanding \in Nat
  BY StatementsTyped DEF StatementTypes
<1>2. Outstanding \in [Periods -> Nat]
  BY <1>1 DEF Outstanding
<1>3. \A m \in Periods : Outstanding[m] = statement[m].outstanding
  BY DEF Outstanding
<1>4. Total(Periods, Outstanding) \in Nat
  BY <1>2, Constants, TotalType
<1> QED BY <1>2, <1>3, <1>4

\* What a credit does to the sum of what is outstanding.
LEMMA OutstandingCredited ==
    ASSUME BillingAssumption, TypeInv, TypeInv', NEW n \in Periods \cup {NotYet},
           NEW amount \in Nat, StatementsCredited(n, amount)
    PROVE  Total(Periods, Outstanding')
             = Total(Periods, Outstanding) - (IF n = NotYet THEN 0 ELSE amount)
<1>1. /\ Outstanding \in [Periods -> Nat] /\ Total(Periods, Outstanding) \in Nat
      /\ \A m \in Periods : Outstanding[m] = statement[m].outstanding
  BY OutstandingType
<1>2. /\ Outstanding' \in [Periods -> Nat]
      /\ \A m \in Periods : Outstanding'[m] = statement'[m].outstanding
  <2>1. statement' \in [Periods -> StatementType']
    BY DEF TypeInv, BillingTypeOK
  <2>2. \A m \in Periods : statement'[m].outstanding \in Nat
    BY <2>1 DEF StatementType
  <2> QED BY <2>2 DEF Outstanding
<1>3. /\ \A m \in Periods : m # n => Outstanding'[m] = Outstanding[m]
      /\ n \in Periods => Outstanding'[n] = Outstanding[n] - amount
  BY <1>1, <1>2 DEF StatementsCredited
<1>4. IsFiniteSet(Periods) /\ \A m \in Periods : m # NotYet
  BY Constants
<1>5. CASE n = NotYet
  <2>1. \A m \in Periods : Outstanding'[m] = Outstanding[m]
    BY <1>3, <1>4, <1>5
  <2>2. Total(Periods, Outstanding') = Total(Periods, Outstanding)
    BY <2>1, TotalSame
  <2> QED BY <1>1, <1>5, <2>2
<1>6. CASE n \in Periods
  <2>1. \A m \in Periods : Outstanding[m] \in Nat /\ Outstanding'[m] \in Nat
    BY <1>1, <1>2
  <2>2. Total(Periods, Outstanding')
          = Total(Periods, Outstanding) - Outstanding[n] + Outstanding'[n]
    BY <1>3, <1>4, <1>6, <2>1, TotalChange
  <2>3. Outstanding[n] \in Nat /\ Outstanding'[n] = Outstanding[n] - amount
    BY <1>3, <1>6, <2>1
  <2>4. Total(Periods, Outstanding') = Total(Periods, Outstanding) - amount
    BY <1>1, <2>2, <2>3
  <2> QED BY <1>4, <1>6, <2>4
<1> QED BY <1>5, <1>6

\* What is due of the adjustments that wait.
LEMMA PendingType ==
    ASSUME BillingAssumption, TypeInv
    PROVE  /\ IsFiniteSet(PendingDue) /\ PendingDue \subseteq DOMAIN adjustments
           /\ \A i \in PendingDue : AmountOf[i] \in Nat
           /\ Total(PendingDue, AmountOf) \in Nat
<1> DEFINE I == {i \in DOMAIN adjustments : adjustments[i].statement = NotYet}
<1>1. I \in SUBSET DOMAIN adjustments
  OBVIOUS
<1> HIDE DEF I
<1>2. /\ Due(I) \subseteq DOMAIN adjustments /\ IsFiniteSet(Due(I))
      /\ \A i \in Due(I) : AmountOf[i] \in Nat
      /\ Total(Due(I), AmountOf) \in Nat
  BY <1>1, DueAmounts
<1> QED BY <1>2 DEF PendingDue, I

LEMMA PendingGrows ==
    ASSUME BillingAssumption, TypeInv, TypeInv', NEW s, NEW n,
           NEW more \in Nat, NEW less \in Nat, more > 0 => less = 0,
           AdjustmentsGrown(s, n, more, less)
    PROVE  Total(PendingDue', AmountOf')
             = Total(PendingDue, AmountOf) + (IF n = NotYet THEN 0 ELSE more)
<1>1. /\ DOMAIN adjustments = 1 .. Len(adjustments) /\ Len(adjustments) \in Nat
      /\ DOMAIN adjustments' = 1 .. Len(adjustments') /\ Len(adjustments') \in Nat
  <2>1. adjustments \in Seq(AdjustmentType) /\ adjustments' \in Seq(AdjustmentType)
    BY DEF TypeInv, BillingTypeOK, AdjustmentType
  <2> QED BY <2>1
<1>2. /\ DOMAIN adjustments \subseteq DOMAIN adjustments'
      /\ \A i \in DOMAIN adjustments : adjustments'[i] = adjustments[i]
  <2>1. /\ Len(adjustments) <= Len(adjustments')
        /\ \A i \in 1 .. Len(adjustments) : adjustments'[i] = adjustments[i]
    BY DEF AdjustmentsGrown
  <2>2. 1 .. Len(adjustments) \subseteq 1 .. Len(adjustments')
    BY <1>1, <2>1
  <2> QED BY <1>1, <2>1, <2>2
<1>3. /\ IsFiniteSet(PendingDue) /\ PendingDue \subseteq DOMAIN adjustments
      /\ \A i \in PendingDue : AmountOf[i] \in Nat
      /\ Total(PendingDue, AmountOf) \in Nat
  BY PendingType
<1>4. /\ \A i \in DOMAIN adjustments : AmountOf'[i] = AmountOf[i]
      /\ \A i \in DOMAIN adjustments' : AmountOf'[i] = adjustments'[i].amount
  BY <1>2 DEF AmountOf
<1>5. \A i \in DOMAIN adjustments : i \in PendingDue' <=> i \in PendingDue
  BY <1>2 DEF PendingDue, Due
<1>6. Total(PendingDue, AmountOf') = Total(PendingDue, AmountOf)
  BY <1>3, <1>4, TotalSame
<1>7. CASE n # NotYet /\ more > less
  <2> DEFINE a == Len(adjustments) + 1
  <2>1. more > 0 /\ less = 0 /\ more # less /\ more - less = more
    BY <1>7
  <2>2. Len(adjustments') = a /\ a \in DOMAIN adjustments' /\ a \notin DOMAIN adjustments
    BY <1>1, <1>7, <2>1 DEF AdjustmentsGrown
  <2>3. /\ adjustments'[a].amount = more /\ adjustments'[a].due
        /\ adjustments'[a].statement = NotYet
    BY <1>1, <1>7, <2>1, <2>2 DEF AdjustmentsGrown
  <2>4. DOMAIN adjustments' = DOMAIN adjustments \cup {a}
    BY <1>1, <2>2
  <2> HIDE DEF a
  <2>5. a \in PendingDue'
    BY <2>2, <2>3 DEF PendingDue, Due
  <2>6. PendingDue' = PendingDue \cup {a}
    <3>1. PendingDue' \subseteq DOMAIN adjustments'
      BY DEF PendingDue, Due
    <3> QED BY <1>3, <1>5, <2>4, <2>5, <3>1
  <2>7. AmountOf'[a] = more
    BY <1>4, <2>2, <2>3
  <2>8. \A i \in PendingDue \cup {a} : AmountOf'[i] \in Nat
    BY <1>3, <1>4, <2>7
  <2>9. a \notin PendingDue
    BY <1>3, <2>2
  <2> DEFINE P == PendingDue
             A == AmountOf'
  <2>10. IsFiniteSet(P) /\ a \notin P /\ \A i \in P \cup {a} : A[i] \in Nat
    BY <1>3, <2>8, <2>9
  <2> HIDE DEF P, A
  <2>11. Total(P \cup {a}, A) = Total(P, A) + A[a]
    BY <2>10, TotalAdd
  <2> QED BY <1>3, <1>6, <1>7, <2>6, <2>7, <2>11 DEF P, A
<1>8. CASE ~ (n # NotYet /\ more > less)
  <2>1. PendingDue' = PendingDue
    <3>1. ASSUME NEW i \in DOMAIN adjustments', i \notin DOMAIN adjustments
          PROVE  i \notin PendingDue'
      <4>1. n # NotYet /\ (adjustments'[i].due <=> more > less)
        BY <1>1, <3>1 DEF AdjustmentsGrown
      <4> QED BY <1>8, <4>1 DEF PendingDue, Due
    <3>2. PendingDue' \subseteq DOMAIN adjustments'
      BY DEF PendingDue, Due
    <3> QED BY <1>2, <1>3, <1>5, <3>1, <3>2
  <2>2. (IF n = NotYet THEN 0 ELSE more) = 0
    BY <1>8
  <2> QED BY <1>3, <1>6, <2>1, <2>2
<1> QED BY <1>7, <1>8

\* Every document is an invoice or a fee, and these are what they owe and what
\* has been settled of them.
DocumentValues ==
    /\ Owed \in [Documents -> Nat] /\ PaidOn \in [Documents -> Nat]
    /\ \A s \in Shipments :
          /\ Owed[<<"invoice", s>>] = invoice[s].credit
          /\ Owed[<<"fee", s>>] = fee[s].credit
          /\ PaidOn[<<"invoice", s>>] =
               IF invoice[s].status = "ISSUED" THEN invoice[s].total - invoice[s].credit
               ELSE 0
          /\ PaidOn[<<"fee", s>>] = fee[s].total - fee[s].credit

LEMMA DocumentPairs ==
    /\ \A s \in Shipments : <<"invoice", s>> \in Documents /\ <<"fee", s>> \in Documents
    /\ \A s \in Shipments, t \in Shipments :
          /\ <<"invoice", s>> # <<"fee", t>>
          /\ <<"invoice", s>> = <<"invoice", t>> => s = t
          /\ <<"fee", s>> = <<"fee", t>> => s = t
BY DEF Documents

LEMMA ValuesTyped ==
    ASSUME invoice \in [Shipments -> InvoiceType], fee \in [Shipments -> FeeType],
           InvoicesOk, FeesOk
    PROVE  DocumentValues
<1>1. ASSUME NEW s \in Shipments
      PROVE  /\ invoice[s].credit \in Nat /\ fee[s].credit \in Nat
             /\ invoice[s].total - invoice[s].credit \in Nat
             /\ fee[s].total - fee[s].credit \in Nat
  <2>1. /\ invoice[s].credit \in Nat /\ invoice[s].total \in Nat
        /\ invoice[s].advance \in Nat
        /\ fee[s].credit \in Nat /\ fee[s].total \in Nat
    BY DEF InvoiceType, FeeType
  <2>2. /\ invoice[s].advance + invoice[s].credit <= invoice[s].total
        /\ fee[s].credit <= fee[s].total
    BY DEF InvoicesOk, FeesOk
  <2> QED BY <2>1, <2>2
<1>2. ASSUME NEW d \in Documents
      PROVE  /\ d[1] \in {"invoice", "fee"} /\ d[2] \in Shipments
  BY DEF Documents
<1>3. Owed \in [Documents -> Nat]
  BY <1>1, <1>2 DEF Owed
<1>4. PaidOn \in [Documents -> Nat]
  BY <1>1, <1>2 DEF PaidOn
<1>5. ASSUME NEW s \in Shipments
      PROVE  /\ Owed[<<"invoice", s>>] = invoice[s].credit
             /\ Owed[<<"fee", s>>] = fee[s].credit
             /\ PaidOn[<<"invoice", s>>] =
                  IF invoice[s].status = "ISSUED"
                  THEN invoice[s].total - invoice[s].credit ELSE 0
             /\ PaidOn[<<"fee", s>>] = fee[s].total - fee[s].credit
  BY DocumentPairs DEF Owed, PaidOn, Issued
<1> QED BY <1>3, <1>4, <1>5 DEF DocumentValues

LEMMA ValuesTypedNext ==
    ASSUME invoice' \in [Shipments -> InvoiceType], fee' \in [Shipments -> FeeType],
           InvoicesOk', FeesOk'
    PROVE  DocumentValues'
<1>1. ASSUME NEW s \in Shipments
      PROVE  /\ invoice'[s].credit \in Nat /\ fee'[s].credit \in Nat
             /\ invoice'[s].total - invoice'[s].credit \in Nat
             /\ fee'[s].total - fee'[s].credit \in Nat
  <2>1. /\ invoice'[s].credit \in Nat /\ invoice'[s].total \in Nat
        /\ invoice'[s].advance \in Nat
        /\ fee'[s].credit \in Nat /\ fee'[s].total \in Nat
    BY DEF InvoiceType, FeeType
  <2>2. /\ invoice'[s].advance + invoice'[s].credit <= invoice'[s].total
        /\ fee'[s].credit <= fee'[s].total
    BY DEF InvoicesOk, FeesOk
  <2> QED BY <2>1, <2>2
<1>2. ASSUME NEW d \in Documents
      PROVE  /\ d[1] \in {"invoice", "fee"} /\ d[2] \in Shipments
  BY DEF Documents
<1>3. Owed' \in [Documents -> Nat]
  BY <1>1, <1>2 DEF Owed, Documents
<1>4. PaidOn' \in [Documents -> Nat]
  BY <1>1, <1>2 DEF PaidOn, Documents
<1>5. ASSUME NEW s \in Shipments
      PROVE  /\ Owed'[<<"invoice", s>>] = invoice'[s].credit
             /\ Owed'[<<"fee", s>>] = fee'[s].credit
             /\ PaidOn'[<<"invoice", s>>] =
                  IF invoice'[s].status = "ISSUED"
                  THEN invoice'[s].total - invoice'[s].credit ELSE 0
             /\ PaidOn'[<<"fee", s>>] = fee'[s].total - fee'[s].credit
  BY DocumentPairs DEF Owed, PaidOn, Issued, Documents
<1> QED BY <1>3, <1>4, <1>5 DEF DocumentValues, Documents

LEMMA DocumentsTyped ==
    ASSUME TypeInv, TypeInv'
    PROVE  DocumentValues /\ DocumentValues'
<1>1. /\ invoice \in [Shipments -> InvoiceType] /\ fee \in [Shipments -> FeeType]
      /\ InvoicesOk /\ FeesOk
  BY DEF TypeInv, BillingTypeOK, DocumentsOk
<1>2. /\ invoice' \in [Shipments -> InvoiceType] /\ fee' \in [Shipments -> FeeType]
      /\ InvoicesOk' /\ FeesOk'
  BY DEF TypeInv, BillingTypeOK, DocumentsOk, InvoiceType, FeeType
<1> QED BY <1>1, <1>2, ValuesTyped, ValuesTypedNext

\* The values of one invoice and of one fee.
LEMMA ValuesOf ==
    ASSUME NEW s \in Shipments, DocumentValues, DocumentValues'
    PROVE  /\ Owed[<<"invoice", s>>] = invoice[s].credit
           /\ Owed'[<<"invoice", s>>] = invoice'[s].credit
           /\ Owed[<<"fee", s>>] = fee[s].credit
           /\ Owed'[<<"fee", s>>] = fee'[s].credit
           /\ invoice[s].status = "ISSUED" =>
                PaidOn[<<"invoice", s>>] = invoice[s].total - invoice[s].credit
           /\ invoice[s].status # "ISSUED" => PaidOn[<<"invoice", s>>] = 0
           /\ invoice'[s].status = "ISSUED" =>
                PaidOn'[<<"invoice", s>>] = invoice'[s].total - invoice'[s].credit
           /\ invoice'[s].status # "ISSUED" => PaidOn'[<<"invoice", s>>] = 0
           /\ PaidOn[<<"fee", s>>] = fee[s].total - fee[s].credit
           /\ PaidOn'[<<"fee", s>>] = fee'[s].total - fee'[s].credit
BY DEF DocumentValues

\* A document that keeps its status, its total and its credit.
LEMMA ValuesSame ==
    ASSUME NEW s \in Shipments, DocumentValues, DocumentValues'
    PROVE  /\ /\ invoice'[s].status = invoice[s].status
              /\ invoice'[s].total = invoice[s].total
              /\ invoice'[s].credit = invoice[s].credit
              => /\ Owed'[<<"invoice", s>>] = Owed[<<"invoice", s>>]
                 /\ PaidOn'[<<"invoice", s>>] = PaidOn[<<"invoice", s>>]
           /\ /\ fee'[s].total = fee[s].total
              /\ fee'[s].credit = fee[s].credit
              => /\ Owed'[<<"fee", s>>] = Owed[<<"fee", s>>]
                 /\ PaidOn'[<<"fee", s>>] = PaidOn[<<"fee", s>>]
BY DEF DocumentValues

\* The three sums, over all documents.
Matched ==
    /\ account.invoiced = Total(Periods, Outstanding)
    /\ account.unbilled = Total(Waiting, Owed) + Total(PendingDue, AmountOf)

MoneySum ==
    InitialAdvance + Total(applied, PaymentAmount) + forgiven
      = account.advance + Total(Documents, PaidOn)

LEMMA MatchedIs ==
    /\ TotalsMatchDocuments <=> Matched
    /\ TotalsMatchDocuments' <=> Matched'
BY Zenon DEF TotalsMatchDocuments, Matched, Waiting, PendingDue, Outstanding

SumsKept ==
    /\ TotalsMatchDocuments => TotalsMatchDocuments'
    /\ OwedIsBacked => OwedIsBacked'
    /\ MoneySum => MoneySum'

-----------------------------------------------------------------------------
(* Every step keeps the sums                                               *)

\* A step after which every sum is what it was.
LEMMA SameSums ==
    ASSUME Owed' = Owed, PaidOn' = PaidOn, Waiting' = Waiting,
           adjustments' = adjustments, Outstanding' = Outstanding,
           UNCHANGED <<account, applied, forgiven>>
    PROVE  SumsKept
<1>1. PendingDue' = PendingDue /\ AmountOf' = AmountOf
  BY DEF PendingDue, Due, AmountOf
<1>2. Matched => Matched'
  BY <1>1 DEF Matched
<1>3. OwedIsBacked => OwedIsBacked'
  BY DEF OwedIsBacked
<1>4. MoneySum => MoneySum'
  BY DEF MoneySum
<1> QED BY <1>2, <1>3, <1>4, MatchedIs DEF SumsKept

LEMMA StillSums ==
    ASSUME BillingAssumption, TypeInv, TypeInv', StillMoney,
           \A m \in Periods : statement'[m].outstanding = statement[m].outstanding
    PROVE  SumsKept
<1>1. \A s \in Shipments :
          /\ invoice'[s].status = invoice[s].status
          /\ invoice'[s].total = invoice[s].total
          /\ invoice'[s].credit = invoice[s].credit
          /\ invoice'[s].statement = invoice[s].statement
  BY DEF StillMoney
<1>2. UNCHANGED <<account, fee, adjustments, applied, forgiven>>
  BY DEF StillMoney
<1>3. Waiting' = Waiting
  BY <1>1, <1>2 DEF Waiting
<1>4. DocumentValues /\ DocumentValues'
  BY DocumentsTyped
<1>5. ASSUME NEW d \in Documents
      PROVE  Owed'[d] = Owed[d] /\ PaidOn'[d] = PaidOn[d]
  <2>1. PICK s \in Shipments : d = <<"invoice", s>> \/ d = <<"fee", s>>
    BY DocumentsAre
  <2>2. /\ fee'[s].total = fee[s].total /\ fee'[s].credit = fee[s].credit
        /\ invoice'[s].status = invoice[s].status
        /\ invoice'[s].total = invoice[s].total
        /\ invoice'[s].credit = invoice[s].credit
    BY <1>1, <1>2
  <2> QED BY <1>4, <2>1, <2>2, ValuesSame
<1>6. Owed' = Owed /\ PaidOn' = PaidOn
  BY <1>4, <1>5 DEF DocumentValues
<1>7. Outstanding' = Outstanding
  BY DEF Outstanding
<1> QED BY <1>2, <1>3, <1>6, <1>7, SameSums

\* Waiting is decided by the statements of the documents.
LEMMA WaitingSame ==
    ASSUME \A s \in Shipments : /\ invoice'[s].statement = invoice[s].statement
                                /\ fee'[s].statement = fee[s].statement
    PROVE  Waiting' = Waiting
BY DEF Waiting

\* The sums of the documents of which d moves from what it owed and what was
\* settled of it.
LEMMA DocumentMoves ==
    ASSUME BillingAssumption, TypeInv, TypeInv', NEW d \in Documents,
           \A e \in Documents : e # d => Owed'[e] = Owed[e] /\ PaidOn'[e] = PaidOn[e],
           Waiting' = Waiting
    PROVE  /\ Total(Waiting, Owed) \in Nat /\ Total(Documents, Owed) \in Nat
           /\ Total(Documents, PaidOn) \in Nat
           /\ Owed[d] \in Nat /\ Owed'[d] \in Nat
           /\ PaidOn[d] \in Nat /\ PaidOn'[d] \in Nat
           /\ d \in Waiting =>
                 Total(Waiting', Owed') = Total(Waiting, Owed) - Owed[d] + Owed'[d]
           /\ d \notin Waiting => Total(Waiting', Owed') = Total(Waiting, Owed)
           /\ Total(Documents, Owed') = Total(Documents, Owed) - Owed[d] + Owed'[d]
           /\ Total(Documents, PaidOn')
                = Total(Documents, PaidOn) - PaidOn[d] + PaidOn'[d]
<1>1. /\ Owed \in [Documents -> Nat] /\ PaidOn \in [Documents -> Nat]
      /\ Owed' \in [Documents -> Nat] /\ PaidOn' \in [Documents -> Nat]
  BY DocumentsTyped DEF DocumentValues, Documents
<1> DEFINE o == Owed
           oo == Owed'
           p == PaidOn
           pp == PaidOn'
           W == Waiting
           A == Documents
<1>2. /\ o \in Amounts /\ oo \in Amounts /\ p \in Amounts /\ pp \in Amounts
      /\ W \in DocumentSets /\ A \in DocumentSets /\ d \in A
      /\ SameBut(o, oo, d, d) /\ SameBut(p, pp, d, d)
  BY <1>1, WaitingIs DEF SameBut, Amounts, DocumentSets
<1> HIDE DEF o, oo, p, pp, W, A
<1>3. /\ Total(W, o) \in Nat /\ o[d] \in Nat /\ oo[d] \in Nat
      /\ d \in W => Total(W, oo) = Total(W, o) - o[d] + oo[d]
      /\ d \notin W => Total(W, oo) = Total(W, o)
  BY <1>2, SumChange
<1>4. /\ Total(A, o) \in Nat
      /\ Total(A, oo) = Total(A, o) - o[d] + oo[d]
  BY <1>2, SumChange
<1>5. /\ Total(A, p) \in Nat /\ p[d] \in Nat /\ pp[d] \in Nat
      /\ Total(A, pp) = Total(A, p) - p[d] + pp[d]
  BY <1>2, SumChange
<1> QED BY <1>3, <1>4, <1>5 DEF o, oo, p, pp, W, A

\* The totals of the account are natural numbers.
LEMMA AccountTyped ==
    ASSUME TypeInv
    PROVE  /\ account.advance \in Nat /\ account.unbilled \in Nat
           /\ account.invoiced \in Nat /\ forgiven \in Nat
BY DEF TypeInv, BillingTypeOK

LEMMA PaymentsTyped ==
    ASSUME BillingAssumption, TypeInv
    PROVE  /\ Total(applied, PaymentAmount) \in Nat /\ IsFiniteSet(applied)
           /\ InitialAdvance \in Nat /\ applied \subseteq Payments
           /\ \A p \in Payments : PaymentAmount[p] \in Nat
<1>1. /\ IsFiniteSet(Payments) /\ applied \subseteq Payments
      /\ InitialAdvance \in Nat
      /\ \A p \in Payments : PaymentAmount[p] \in Nat
  BY DEF TypeInv, BillingTypeOK, BillingAssumption
<1>2. IsFiniteSet(applied)
  BY <1>1, FS_Subset
<1>3. Total(applied, PaymentAmount) \in Nat
  BY <1>1, <1>2, TotalType
<1> QED BY <1>1, <1>2, <1>3

LEMMA BookSums ==
    ASSUME BillingAssumption, TypeInv, TypeInv', NEW s \in Shipments,
           NEW total \in BookingTotals, Book(s, total)
    PROVE  SumsKept
<1> DEFINE advance == Lesser(total, account.advance)
           d == <<"invoice", s>>
<1>1. /\ advance \in Nat /\ total \in Nat /\ advance <= total
      /\ account'.advance = account.advance - advance
      /\ account'.unbilled = account.unbilled + (total - advance)
      /\ account'.invoiced = account.invoiced
      /\ \A t \in Shipments : t # s => invoice'[t] = invoice[t]
      /\ invoice[s].status = "NONE" /\ invoice'[s].status = "ISSUED"
      /\ invoice'[s].total = total /\ invoice'[s].credit = total - advance
      /\ invoice'[s].statement = NotYet
      /\ invoice[s].credit = 0 /\ invoice[s].statement = NotYet
  BY BookEffects
<1> HIDE DEF advance
<1>2. UNCHANGED <<fee, adjustments, statement, applied, forgiven>>
  BY DEF Book
<1>3. Waiting' = Waiting
  <2>1. \A t \in Shipments : invoice'[t].statement = invoice[t].statement
    BY <1>1
  <2> QED BY <1>2, <2>1, WaitingSame
<1>4. DocumentValues /\ DocumentValues'
  BY DocumentsTyped
<1>5. d \in Documents /\ d \in Waiting
  BY <1>1, DocumentPairs, WaitingIs
<1>6. /\ Owed[d] = 0 /\ Owed'[d] = total - advance
      /\ PaidOn[d] = 0 /\ PaidOn'[d] = advance
  <2>1. /\ Owed[d] = 0 /\ Owed'[d] = total - advance /\ PaidOn[d] = 0
    BY <1>1, <1>4, ValuesOf
  <2>2. PaidOn'[d] = invoice'[s].total - invoice'[s].credit
    BY <1>1, <1>4, ValuesOf
  <2> QED BY <1>1, <2>1, <2>2
<1>7. ASSUME NEW e \in Documents, e # d
      PROVE  Owed'[e] = Owed[e] /\ PaidOn'[e] = PaidOn[e]
  <2>1. PICK t \in Shipments : e = <<"invoice", t>> \/ e = <<"fee", t>>
    BY DocumentsAre
  <2>2. CASE e = <<"fee", t>>
    BY <1>2, <1>4, <2>2, ValuesSame
  <2>3. CASE e = <<"invoice", t>>
    <3>1. invoice'[t] = invoice[t]
      BY <1>1, <1>7, <2>3
    <3> QED BY <1>4, <2>3, <3>1, ValuesSame
  <2> QED BY <2>1, <2>2, <2>3
<1> HIDE DEF d
<1>8. /\ Total(Waiting, Owed) \in Nat /\ Total(Documents, Owed) \in Nat
      /\ Total(Documents, PaidOn) \in Nat
      /\ Total(Waiting', Owed') = Total(Waiting, Owed) - Owed[d] + Owed'[d]
      /\ Total(Documents, Owed') = Total(Documents, Owed) - Owed[d] + Owed'[d]
      /\ Total(Documents, PaidOn') = Total(Documents, PaidOn) - PaidOn[d] + PaidOn'[d]
  BY <1>3, <1>5, <1>7, DocumentMoves
<1>9. /\ Total(Waiting', Owed') = Total(Waiting, Owed) + (total - advance)
      /\ Total(Documents, Owed') = Total(Documents, Owed) + (total - advance)
      /\ Total(Documents, PaidOn') = Total(Documents, PaidOn) + advance
  BY <1>1, <1>6, <1>8
<1>10. /\ PendingDue' = PendingDue /\ AmountOf' = AmountOf
       /\ Outstanding' = Outstanding /\ Total(PendingDue, AmountOf) \in Nat
  BY <1>2, PendingType DEF PendingDue, Due, AmountOf, Outstanding
<1>11. Matched => Matched'
  BY <1>1, <1>8, <1>9, <1>10, AccountTyped DEF Matched
<1>12. OwedIsBacked => OwedIsBacked'
  BY <1>1, <1>8, <1>9, AccountTyped DEF OwedIsBacked, Documents
<1>13. MoneySum => MoneySum'
  BY <1>1, <1>2, <1>8, <1>9, AccountTyped, PaymentsTyped DEF MoneySum, Documents
<1> QED BY <1>11, <1>12, <1>13, MatchedIs DEF SumsKept

LEMMA RepriceSums ==
    ASSUME BillingAssumption, TypeInv, TypeInv', NEW s \in Shipments,
           NEW amended \in Nat, NEW settles, Issued(s), Reprice(s, amended, settles)
    PROVE  SumsKept
<1>1. PICK used \in Nat, more \in Nat, reduced \in Nat, back \in Nat :
         Repriced(s, used, more, reduced, back)
  BY RepriceIs
<1> DEFINE n == invoice[s].statement
           d == <<"invoice", s>>
<1>2. /\ more > 0 => reduced = 0
      /\ account'.advance = account.advance + back - used
      /\ account'.unbilled = account.unbilled + more
                               - (IF n = NotYet THEN reduced ELSE 0)
      /\ account'.invoiced = account.invoiced
                               - (IF n = NotYet THEN 0 ELSE reduced)
      /\ \A t \in Shipments : t # s => invoice'[t] = invoice[t]
      /\ invoice[s].status = "ISSUED" /\ invoice'[s].status = "ISSUED"
      /\ invoice'[s].statement = n /\ n \in Periods \cup {NotYet}
      /\ invoice'[s].credit = invoice[s].credit + more - reduced
      /\ (invoice'[s].total - invoice'[s].credit) + (back - used)
           = invoice[s].total - invoice[s].credit
      /\ StatementsCredited(n, reduced)
      /\ AdjustmentsGrown(s, n, more, reduced)
      /\ UNCHANGED <<fee, applied, forgiven>>
  BY <1>1 DEF Repriced
<1>3. Waiting' = Waiting
  <2>1. \A t \in Shipments : invoice'[t].statement = invoice[t].statement
    BY <1>2
  <2> QED BY <1>2, <2>1, WaitingSame
<1>4. DocumentValues /\ DocumentValues'
  BY DocumentsTyped
<1>5. d \in Documents /\ (d \in Waiting <=> n = NotYet)
  BY DocumentPairs, WaitingIs
<1>6. /\ Owed'[d] = Owed[d] + more - reduced
      /\ PaidOn'[d] + (back - used) = PaidOn[d]
  BY <1>2, <1>4, ValuesOf
<1>7. ASSUME NEW e \in Documents, e # d
      PROVE  Owed'[e] = Owed[e] /\ PaidOn'[e] = PaidOn[e]
  <2>1. PICK t \in Shipments : e = <<"invoice", t>> \/ e = <<"fee", t>>
    BY DocumentsAre
  <2>2. CASE e = <<"fee", t>>
    BY <1>2, <1>4, <2>2, ValuesSame
  <2>3. CASE e = <<"invoice", t>>
    <3>1. invoice'[t] = invoice[t]
      BY <1>2, <1>7, <2>3
    <3> QED BY <1>4, <2>3, <3>1, ValuesSame
  <2> QED BY <2>1, <2>2, <2>3
<1>8. Total(Periods, Outstanding')
        = Total(Periods, Outstanding) - (IF n = NotYet THEN 0 ELSE reduced)
  <2> HIDE DEF n
  <2> QED BY <1>2, OutstandingCredited
<1>9. Total(PendingDue', AmountOf')
        = Total(PendingDue, AmountOf) + (IF n = NotYet THEN 0 ELSE more)
  <2> HIDE DEF n
  <2> QED BY <1>2, PendingGrows
<1> HIDE DEF d, n
<1>10. /\ Total(Waiting, Owed) \in Nat /\ Total(Documents, Owed) \in Nat
       /\ Total(Documents, PaidOn) \in Nat
       /\ Owed[d] \in Nat /\ Owed'[d] \in Nat /\ PaidOn[d] \in Nat /\ PaidOn'[d] \in Nat
       /\ d \in Waiting =>
             Total(Waiting', Owed') = Total(Waiting, Owed) - Owed[d] + Owed'[d]
       /\ d \notin Waiting => Total(Waiting', Owed') = Total(Waiting, Owed)
       /\ Total(Documents, Owed') = Total(Documents, Owed) - Owed[d] + Owed'[d]
       /\ Total(Documents, PaidOn') = Total(Documents, PaidOn) - PaidOn[d] + PaidOn'[d]
  BY <1>3, <1>5, <1>7, DocumentMoves
<1>11. /\ Total(PendingDue, AmountOf) \in Nat /\ Total(Periods, Outstanding) \in Nat
       /\ account.advance \in Nat /\ account.unbilled \in Nat
       /\ account.invoiced \in Nat /\ forgiven \in Nat
  BY PendingType, OutstandingType, AccountTyped
<1>12. /\ Total(Documents, Owed') = Total(Documents, Owed) + more - reduced
       /\ Total(Documents, PaidOn') + (back - used) = Total(Documents, PaidOn)
       /\ n = NotYet =>
            Total(Waiting', Owed') = Total(Waiting, Owed) + more - reduced
       /\ n # NotYet => Total(Waiting', Owed') = Total(Waiting, Owed)
  BY <1>5, <1>6, <1>10
<1>13. Matched => Matched'
  <2>1. CASE n = NotYet
    <3>1. /\ account'.unbilled = account.unbilled + more - reduced
          /\ account'.invoiced = account.invoiced
          /\ Total(Periods, Outstanding') = Total(Periods, Outstanding)
          /\ Total(PendingDue', AmountOf') = Total(PendingDue, AmountOf)
      BY <1>2, <1>8, <1>9, <1>11, <2>1
    <3> QED BY <1>10, <1>11, <1>12, <2>1, <3>1 DEF Matched
  <2>2. CASE n # NotYet
    <3>1. /\ account'.unbilled = account.unbilled + more
          /\ account'.invoiced = account.invoiced - reduced
          /\ Total(Periods, Outstanding') = Total(Periods, Outstanding) - reduced
          /\ Total(PendingDue', AmountOf') = Total(PendingDue, AmountOf) + more
      BY <1>2, <1>8, <1>9, <1>11, <2>2
    <3> QED BY <1>10, <1>11, <1>12, <2>2, <3>1 DEF Matched
  <2> QED BY <2>1, <2>2
<1>14. OwedIsBacked => OwedIsBacked'
  <2>1. account'.unbilled + account'.invoiced
          = account.unbilled + account.invoiced + more - reduced
    BY <1>2, <1>11
  <2> QED BY <1>10, <1>11, <1>12, <2>1 DEF OwedIsBacked, Documents
<1>15. MoneySum => MoneySum'
  <2>1. account'.advance + Total(Documents, PaidOn')
          = account.advance + Total(Documents, PaidOn)
    BY <1>2, <1>6, <1>10, <1>11, <1>12
  <2> QED BY <1>2, <1>10, <1>11, <2>1, PaymentsTyped DEF MoneySum, Documents
<1> QED BY <1>13, <1>14, <1>15, MatchedIs DEF SumsKept

\* A sum over documents of which two change.
LEMMA SumChangeTwo ==
    ASSUME BillingAssumption, NEW S \in DocumentSets,
           NEW from \in Amounts, NEW to \in Amounts,
           NEW d \in Documents, NEW f \in S, d # f, SameBut(from, to, d, f)
    PROVE  /\ Total(S, from) \in Nat /\ Total(S, to) \in Nat
           /\ from[d] \in Nat /\ to[d] \in Nat
           /\ from[f] \in Nat /\ to[f] \in Nat
           /\ d \in S => Total(S, to)
                           = Total(S, from) - from[d] + to[d] - from[f] + to[f]
           /\ d \notin S => Total(S, to) = Total(S, from) - from[f] + to[f]
<1> DEFINE mid == [from EXCEPT ![d] = to[d]]
<1>1. /\ mid \in Amounts /\ mid[d] = to[d] /\ mid[f] = from[f]
      /\ SameBut(from, mid, d, d) /\ SameBut(mid, to, f, f)
  BY DEF SameBut, Amounts, DocumentSets
<1> HIDE DEF mid
<1>2. /\ Total(S, from) \in Nat /\ from[d] \in Nat /\ to[d] \in Nat
      /\ d \in S => Total(S, mid) = Total(S, from) - from[d] + mid[d]
      /\ d \notin S => Total(S, mid) = Total(S, from)
  <2>2. /\ Total(S, from) \in Nat /\ from[d] \in Nat /\ mid[d] \in Nat
        /\ d \in S => Total(S, mid) = Total(S, from) - from[d] + mid[d]
        /\ d \notin S => Total(S, mid) = Total(S, from)
    BY <1>1, SumChange
  <2> QED BY <1>1, <2>2
<1>3. /\ Total(S, mid) \in Nat /\ Total(S, to) \in Nat
      /\ mid[f] \in Nat /\ to[f] \in Nat
      /\ Total(S, to) = Total(S, mid) - mid[f] + to[f]
  <2>1. f \in Documents
    BY DEF DocumentSets
  <2> QED BY <1>1, <2>1, SumChange
<1>4. from[f] \in Nat
  BY DEF Amounts, DocumentSets
<1> QED BY <1>1, <1>2, <1>3, <1>4

\* The sums of the documents of which two move; the second waits.
LEMMA TwoDocumentsMove ==
    ASSUME BillingAssumption, TypeInv, TypeInv', NEW d \in Documents,
           NEW f \in Waiting, d # f,
           \A e \in Documents : e # d /\ e # f =>
              Owed'[e] = Owed[e] /\ PaidOn'[e] = PaidOn[e],
           Waiting' = Waiting
    PROVE  /\ Total(Waiting, Owed) \in Nat /\ Total(Documents, Owed) \in Nat
           /\ Total(Documents, PaidOn) \in Nat
           /\ Owed[d] \in Nat /\ Owed'[d] \in Nat
           /\ PaidOn[d] \in Nat /\ PaidOn'[d] \in Nat
           /\ Owed[f] \in Nat /\ Owed'[f] \in Nat
           /\ PaidOn[f] \in Nat /\ PaidOn'[f] \in Nat
           /\ d \in Waiting =>
                 Total(Waiting', Owed')
                   = Total(Waiting, Owed) - Owed[d] + Owed'[d] - Owed[f] + Owed'[f]
           /\ d \notin Waiting =>
                 Total(Waiting', Owed') = Total(Waiting, Owed) - Owed[f] + Owed'[f]
           /\ Total(Documents, Owed')
                = Total(Documents, Owed) - Owed[d] + Owed'[d] - Owed[f] + Owed'[f]
           /\ Total(Documents, PaidOn')
                = Total(Documents, PaidOn) - PaidOn[d] + PaidOn'[d]
                    - PaidOn[f] + PaidOn'[f]
<1>1. /\ Owed \in [Documents -> Nat] /\ PaidOn \in [Documents -> Nat]
      /\ Owed' \in [Documents -> Nat] /\ PaidOn' \in [Documents -> Nat]
  BY DocumentsTyped DEF DocumentValues, Documents
<1>2. Waiting \in SUBSET Documents
  BY WaitingIs
<1> DEFINE o == Owed
           oo == Owed'
           p == PaidOn
           pp == PaidOn'
           W == Waiting
           A == Documents
<1>4. /\ o \in Amounts /\ oo \in Amounts /\ p \in Amounts /\ pp \in Amounts
      /\ W \in DocumentSets /\ A \in DocumentSets
      /\ f \in W /\ f \in A /\ d \in A
      /\ SameBut(o, oo, d, f) /\ SameBut(p, pp, d, f)
  BY <1>1, <1>2 DEF SameBut, Amounts, DocumentSets
<1> HIDE DEF o, oo, p, pp, W, A
<1>5. /\ Total(W, o) \in Nat
      /\ o[d] \in Nat /\ oo[d] \in Nat /\ o[f] \in Nat /\ oo[f] \in Nat
      /\ d \in W => Total(W, oo) = Total(W, o) - o[d] + oo[d] - o[f] + oo[f]
      /\ d \notin W => Total(W, oo) = Total(W, o) - o[f] + oo[f]
  BY <1>4, SumChangeTwo
<1>6. /\ Total(A, o) \in Nat
      /\ Total(A, oo) = Total(A, o) - o[d] + oo[d] - o[f] + oo[f]
  BY <1>4, SumChangeTwo
<1>7. /\ Total(A, p) \in Nat
      /\ p[d] \in Nat /\ pp[d] \in Nat /\ p[f] \in Nat /\ pp[f] \in Nat
      /\ Total(A, pp) = Total(A, p) - p[d] + pp[d] - p[f] + pp[f]
  BY <1>4, SumChangeTwo
<1> QED BY <1>5, <1>6, <1>7 DEF o, oo, p, pp, W, A

LEMMA CancellationSums ==
    ASSUME BillingAssumption, TypeInv, TypeInv', NEW s \in Shipments,
           NEW requestedFee \in RequestedFees, ApproveCancellation(s, requestedFee)
    PROVE  SumsKept
<1>1. PICK feeTotal \in Nat, feeCredit \in Nat, back \in Nat :
         Cancelled(s, feeTotal, feeCredit, back)
  BY CancellationIs
<1> DEFINE n == invoice[s].statement
           reversed == invoice[s].credit
           paid == invoice[s].total - reversed
           d == <<"invoice", s>>
           f == <<"fee", s>>
<1>2. /\ reversed \in Nat /\ feeCredit <= feeTotal
      /\ back + (feeTotal - feeCredit) = paid
      /\ account'.advance = account.advance + back
      /\ account'.unbilled = account.unbilled + feeCredit
                               - (IF n = NotYet THEN reversed ELSE 0)
      /\ account'.invoiced = account.invoiced
                               - (IF n = NotYet THEN 0 ELSE reversed)
      /\ \A t \in Shipments : t # s => invoice'[t] = invoice[t] /\ fee'[t] = fee[t]
      /\ invoice[s].status = "ISSUED" /\ invoice'[s].status = "VOID"
      /\ invoice'[s].credit = 0 /\ invoice'[s].statement = n
      /\ n \in Periods \cup {NotYet}
      /\ fee[s].credit = 0 /\ fee[s].total = 0 /\ fee[s].statement = NotYet
      /\ fee'[s].credit = feeCredit /\ fee'[s].total = feeTotal
      /\ fee'[s].statement = NotYet
      /\ StatementsCredited(n, reversed)
      /\ AdjustmentsGrown(s, n, 0, reversed)
      /\ UNCHANGED <<applied, forgiven>>
  BY <1>1 DEF Cancelled
<1>3. Waiting' = Waiting
  <2>1. \A t \in Shipments : /\ invoice'[t].statement = invoice[t].statement
                             /\ fee'[t].statement = fee[t].statement
    BY <1>2
  <2> QED BY <2>1, WaitingSame
<1>4. DocumentValues /\ DocumentValues'
  BY DocumentsTyped
<1>5. /\ d \in Documents /\ (d \in Waiting <=> n = NotYet)
      /\ f \in Waiting /\ d # f
  BY <1>2, DocumentPairs, WaitingIs
<1>6. /\ Owed[d] = reversed /\ Owed'[d] = 0
      /\ Owed[f] = 0 /\ Owed'[f] = feeCredit
      /\ PaidOn[d] = paid /\ PaidOn'[d] = 0
      /\ PaidOn[f] = 0 /\ PaidOn'[f] = feeTotal - feeCredit
  <2>1. /\ Owed[d] = reversed /\ Owed'[d] = 0
        /\ Owed[f] = 0 /\ Owed'[f] = feeCredit
        /\ PaidOn[d] = paid /\ PaidOn'[d] = 0
    BY <1>2, <1>4, ValuesOf
  <2>2. /\ PaidOn[f] = fee[s].total - fee[s].credit
        /\ PaidOn'[f] = fee'[s].total - fee'[s].credit
    BY <1>4, ValuesOf
  <2> QED BY <1>2, <2>1, <2>2
<1>7. ASSUME NEW e \in Documents, e # d, e # f
      PROVE  Owed'[e] = Owed[e] /\ PaidOn'[e] = PaidOn[e]
  <2>1. PICK t \in Shipments : e = <<"invoice", t>> \/ e = <<"fee", t>>
    BY DocumentsAre
  <2>2. t # s
    BY <1>7, <2>1
  <2>3. invoice'[t] = invoice[t] /\ fee'[t] = fee[t]
    BY <1>2, <2>2
  <2> QED BY <1>4, <2>1, <2>3, ValuesSame
<1>8. Total(Periods, Outstanding')
        = Total(Periods, Outstanding) - (IF n = NotYet THEN 0 ELSE reversed)
  <2> HIDE DEF n, reversed
  <2> QED BY <1>2, OutstandingCredited
<1>9. Total(PendingDue', AmountOf') = Total(PendingDue, AmountOf)
  <2> DEFINE zero == 0
  <2>1. zero \in Nat /\ AdjustmentsGrown(s, n, zero, reversed)
    BY <1>2
  <2>2. zero > 0 => reversed = 0
    OBVIOUS
  <2> HIDE DEF n, zero, reversed
  <2>3. Total(PendingDue', AmountOf')
          = Total(PendingDue, AmountOf) + (IF n = NotYet THEN 0 ELSE zero)
    BY <1>2, <2>1, <2>2, PendingGrows
  <2>4. Total(PendingDue, AmountOf) \in Nat
    BY PendingType
  <2> QED BY <2>3, <2>4 DEF zero
<1>11. /\ Total(PendingDue, AmountOf) \in Nat /\ Total(Periods, Outstanding) \in Nat
       /\ account.advance \in Nat /\ account.unbilled \in Nat
       /\ account.invoiced \in Nat /\ forgiven \in Nat
  BY PendingType, OutstandingType, AccountTyped
<1>12. paid \in Int
  <2>1. invoice[s] \in InvoiceType
    BY DEF TypeInv, BillingTypeOK
  <2> QED BY <1>2, <2>1 DEF InvoiceType
<1> HIDE DEF d, f, n, reversed, paid
<1>13. /\ Total(Waiting, Owed) \in Nat /\ Total(Documents, Owed) \in Nat
       /\ Total(Documents, PaidOn) \in Nat
       /\ d \in Waiting =>
             Total(Waiting', Owed')
               = Total(Waiting, Owed) - Owed[d] + Owed'[d] - Owed[f] + Owed'[f]
       /\ d \notin Waiting =>
             Total(Waiting', Owed') = Total(Waiting, Owed) - Owed[f] + Owed'[f]
       /\ Total(Documents, Owed')
            = Total(Documents, Owed) - Owed[d] + Owed'[d] - Owed[f] + Owed'[f]
       /\ Total(Documents, PaidOn')
            = Total(Documents, PaidOn) - PaidOn[d] + PaidOn'[d] - PaidOn[f] + PaidOn'[f]
  BY <1>3, <1>5, <1>7, TwoDocumentsMove
<1>14. /\ n = NotYet =>
            Total(Waiting', Owed') = Total(Waiting, Owed) - reversed + feeCredit
       /\ n # NotYet => Total(Waiting', Owed') = Total(Waiting, Owed) + feeCredit
       /\ Total(Documents, Owed') = Total(Documents, Owed) - reversed + feeCredit
       /\ Total(Documents, PaidOn')
            = Total(Documents, PaidOn) - paid + (feeTotal - feeCredit)
  BY <1>2, <1>5, <1>6, <1>12, <1>13
<1>15. Matched => Matched'
  <2>1. CASE n = NotYet
    <3>1. /\ account'.unbilled = account.unbilled + feeCredit - reversed
          /\ account'.invoiced = account.invoiced
          /\ Total(Periods, Outstanding') = Total(Periods, Outstanding)
      BY <1>2, <1>8, <1>11, <2>1
    <3> QED BY <1>2, <1>9, <1>11, <1>13, <1>14, <2>1, <3>1 DEF Matched
  <2>2. CASE n # NotYet
    <3>1. /\ account'.unbilled = account.unbilled + feeCredit
          /\ account'.invoiced = account.invoiced - reversed
          /\ Total(Periods, Outstanding') = Total(Periods, Outstanding) - reversed
      BY <1>2, <1>8, <1>11, <2>2
    <3> QED BY <1>2, <1>9, <1>11, <1>13, <1>14, <2>2, <3>1 DEF Matched
  <2> QED BY <2>1, <2>2
<1>16. OwedIsBacked => OwedIsBacked'
  <2>1. account'.unbilled + account'.invoiced
          = account.unbilled + account.invoiced + feeCredit - reversed
    BY <1>2, <1>11
  <2> QED BY <1>2, <1>11, <1>13, <1>14, <2>1 DEF OwedIsBacked, Documents
<1>17. MoneySum => MoneySum'
  <2>1. account'.advance + Total(Documents, PaidOn')
          = account.advance + Total(Documents, PaidOn)
    BY <1>2, <1>11, <1>12, <1>13, <1>14
  <2> QED BY <1>2, <1>11, <1>13, <2>1, PaymentsTyped DEF MoneySum, Documents
<1> QED BY <1>15, <1>16, <1>17, MatchedIs DEF SumsKept

\* A sum over a set of documents and over the rest.
LEMMA SumSplits ==
    ASSUME BillingAssumption, NEW S \in DocumentSets, NEW R \in DocumentSets,
           NEW owed \in Amounts
    PROVE  R \subseteq S =>
              /\ Total(S, owed) \in Nat /\ Total(R, owed) \in Nat
              /\ Total(S \ R, owed) \in Nat
              /\ Total(S, owed) = Total(S \ R, owed) + Total(R, owed)
<1> SUFFICES ASSUME R \subseteq S
             PROVE  /\ Total(S, owed) \in Nat /\ Total(R, owed) \in Nat
                    /\ Total(S \ R, owed) \in Nat
                    /\ Total(S, owed) = Total(S \ R, owed) + Total(R, owed)
  OBVIOUS
<1>1. IsFiniteSet(S) /\ IsFiniteSet(R) /\ IsFiniteSet(S \ R)
  BY DocumentsFinite, FS_Subset DEF DocumentSets
<1>2. \A d \in S : owed[d] \in Nat
  BY DEF Amounts, DocumentSets
<1>3. Total(S, owed) \in Nat /\ Total(R, owed) \in Nat /\ Total(S \ R, owed) \in Nat
  BY <1>1, <1>2, TotalType
<1> DEFINE Q == S \ R
<1>4. IsFiniteSet(Q) /\ Q \cap R = {} /\ \A d \in Q \cup R : owed[d] \in Nat
  BY <1>1, <1>2
<1>5. Q \cup R = S
  OBVIOUS
<1> HIDE DEF Q
<1>6. Total(Q \cup R, owed) = Total(Q, owed) + Total(R, owed)
  BY <1>1, <1>4, TotalUnion
<1> QED BY <1>3, <1>5, <1>6 DEF Q

\* What a closed period takes out of what waits.
LEMMA CloseSums ==
    ASSUME BillingAssumption, TypeInv, TypeInv', NEW n \in Periods, CloseBooks(n)
    PROVE  SumsKept
<1> DEFINE total == BillTotal(n)
           B == DocumentsOf("invoice", BillableInvoices(n))
                  \cup DocumentsOf("fee", BillableFees(n))
           I == BillableAdjustments(n)
<1>1. /\ total \in Nat /\ statement[n] = NoStatement
      /\ account'.advance = account.advance
      /\ account'.unbilled = account.unbilled - total
      /\ account'.invoiced = account.invoiced + total
      /\ \A m \in Periods : m # n => statement'[m] = statement[m]
      /\ statement'[n].outstanding = total
      /\ DOMAIN adjustments' = DOMAIN adjustments
  BY CloseEffects
<1>2. \A s \in Shipments :
         /\ invoice'[s].status = invoice[s].status
         /\ invoice'[s].total = invoice[s].total
         /\ invoice'[s].credit = invoice[s].credit
         /\ invoice'[s].statement = IF s \in BillableInvoices(n) THEN n
                                    ELSE invoice[s].statement
         /\ fee'[s].total = fee[s].total
         /\ fee'[s].credit = fee[s].credit
         /\ fee'[s].statement = IF s \in BillableFees(n) THEN n
                                ELSE fee[s].statement
  BY CloseEffects
<1>3. \A i \in DOMAIN adjustments :
         /\ adjustments'[i].amount = adjustments[i].amount
         /\ adjustments'[i].due = adjustments[i].due
         /\ adjustments'[i].statement = IF i \in I THEN n ELSE adjustments[i].statement
  BY CloseEffects
<1>4. applied' = applied /\ forgiven' = forgiven
  BY DEF CloseBooks
<1>5. /\ n # NotYet
      /\ \A s \in BillableInvoices(n) : s \in Shipments /\ invoice[s].statement = NotYet
      /\ \A s \in BillableFees(n) : s \in Shipments /\ fee[s].statement = NotYet
      /\ \A i \in I : i \in DOMAIN adjustments /\ adjustments[i].statement = NotYet
  BY Constants DEF BillableInvoices, BillableFees, BillableAdjustments
<1>6. DocumentValues /\ DocumentValues'
  BY DocumentsTyped
<1>7. Owed' = Owed /\ PaidOn' = PaidOn
  <2>1. ASSUME NEW d \in Documents
        PROVE  Owed'[d] = Owed[d] /\ PaidOn'[d] = PaidOn[d]
    <3>1. PICK s \in Shipments : d = <<"invoice", s>> \/ d = <<"fee", s>>
      BY DocumentsAre
    <3> QED BY <1>2, <1>6, <3>1, ValuesSame
  <2> QED BY <1>6, <2>1 DEF DocumentValues
<1>8. B \subseteq Waiting
  BY <1>5 DEF DocumentsOf, Waiting
<1>9. Waiting' = Waiting \ B
  <2>1. ASSUME NEW s \in Shipments
        PROVE  /\ <<"invoice", s>> \in Waiting' <=>
                     <<"invoice", s>> \in Waiting /\ <<"invoice", s>> \notin B
               /\ <<"fee", s>> \in Waiting' <=>
                     <<"fee", s>> \in Waiting /\ <<"fee", s>> \notin B
    <3>1. /\ <<"invoice", s>> \in B <=> s \in BillableInvoices(n)
          /\ <<"fee", s>> \in B <=> s \in BillableFees(n)
      BY DEF DocumentsOf
    <3>2. /\ <<"invoice", s>> \in Waiting' <=> invoice'[s].statement = NotYet
          /\ <<"fee", s>> \in Waiting' <=> fee'[s].statement = NotYet
      BY DEF Waiting, DocumentsOf
    <3> QED BY <1>2, <1>5, <3>1, <3>2, WaitingIs
  <2>2. Waiting' \subseteq Documents /\ Waiting \subseteq Documents
    BY WaitingIs DEF Waiting, DocumentsOf, Documents
  <2>3. ASSUME NEW d \in Documents
        PROVE  d \in Waiting' <=> d \in Waiting /\ d \notin B
    <3>1. PICK s \in Shipments : d = <<"invoice", s>> \/ d = <<"fee", s>>
      BY DocumentsAre
    <3> HIDE DEF B
    <3> QED BY <2>1, <3>1
  <2> HIDE DEF B
  <2> QED BY <2>2, <2>3
<1>10. total = Total(B, Owed) + Total(Due(I), AmountOf)
  BY DEF BillTotal
<1>11. AmountOf' = AmountOf
  BY <1>1, <1>3 DEF AmountOf
<1> DEFINE P == PendingDue
           R == Due(I)
<1>12. /\ R \subseteq P /\ PendingDue' = P \ R
  <2>1. R \subseteq P
    BY <1>5 DEF Due, PendingDue
  <2>2. ASSUME NEW i \in DOMAIN adjustments
        PROVE  i \in PendingDue' <=> i \in P /\ i \notin R
    <3>1. /\ i \in R <=> i \in I /\ adjustments[i].due
          /\ i \in P <=> adjustments[i].statement = NotYet /\ adjustments[i].due
          /\ i \in PendingDue' <=>
                adjustments'[i].statement = NotYet /\ adjustments'[i].due
      BY <1>1 DEF Due, PendingDue
    <3> HIDE DEF I, P, R
    <3> QED BY <1>3, <1>5, <3>1
  <2>3. PendingDue' \subseteq DOMAIN adjustments /\ P \subseteq DOMAIN adjustments
    BY <1>1 DEF Due, PendingDue
  <2> HIDE DEF P, R
  <2> QED BY <2>1, <2>2, <2>3
<1>13. /\ IsFiniteSet(P) /\ \A i \in P : AmountOf[i] \in Nat
       /\ Total(P, AmountOf) \in Nat
  BY PendingType
<1> HIDE DEF B, I, P, R, total
<1>14. /\ Total(R, AmountOf) \in Nat /\ Total(P \ R, AmountOf) \in Nat
       /\ Total(P, AmountOf) = Total(P \ R, AmountOf) + Total(R, AmountOf)
  <2> DEFINE Q == P \ R
  <2>1. /\ IsFiniteSet(Q) /\ IsFiniteSet(R)
    BY <1>12, <1>13, FS_Subset
  <2>2. /\ Q \cap R = {} /\ Q \cup R = P
    BY <1>12
  <2> HIDE DEF Q
  <2>3. Total(Q \cup R, AmountOf) = Total(Q, AmountOf) + Total(R, AmountOf)
    BY <1>13, <2>1, <2>2, TotalUnion
  <2>4. Total(R, AmountOf) \in Nat /\ Total(Q, AmountOf) \in Nat
    BY <1>13, <2>1, <2>2, TotalType
  <2> QED BY <2>2, <2>3, <2>4 DEF Q
<1>15. /\ Total(Waiting, Owed) \in Nat /\ Total(B, Owed) \in Nat
       /\ Total(Waiting \ B, Owed) \in Nat
       /\ Total(Waiting, Owed) = Total(Waiting \ B, Owed) + Total(B, Owed)
  <2>1. /\ Waiting \in DocumentSets /\ B \in DocumentSets /\ Owed \in Amounts
    BY <1>6, <1>8, WaitingIs DEF DocumentSets, Amounts, DocumentValues
  <2> QED BY <1>8, <2>1, SumSplits
<1>16. Total(Periods, Outstanding') = Total(Periods, Outstanding) + total
  <2>1. /\ Outstanding \in [Periods -> Nat] /\ Total(Periods, Outstanding) \in Nat
        /\ \A m \in Periods : Outstanding[m] = statement[m].outstanding
    BY OutstandingType
  <2>2. \A m \in Periods : Outstanding'[m] = statement'[m].outstanding
    BY DEF Outstanding
  <2>3. Outstanding[n] = 0 /\ Outstanding'[n] = total
    BY <1>1, <2>1, <2>2 DEF NoStatement
  <2>4. \A m \in Periods : m # n => Outstanding'[m] = Outstanding[m]
    BY <1>1, <2>1, <2>2
  <2>5. \A m \in Periods : Outstanding[m] \in Nat /\ Outstanding'[m] \in Nat
    BY <1>1, <2>1, <2>3, <2>4
  <2>6. Total(Periods, Outstanding')
          = Total(Periods, Outstanding) - Outstanding[n] + Outstanding'[n]
    BY <2>4, <2>5, Constants, TotalChange
  <2> QED BY <1>1, <2>1, <2>3, <2>6
<1>17. Matched => Matched'
  <2>1. /\ account.unbilled \in Nat /\ account.invoiced \in Nat
        /\ Total(Periods, Outstanding) \in Nat
    BY AccountTyped, OutstandingType
  <2>2. Total(Waiting', Owed') = Total(Waiting, Owed) - Total(B, Owed)
    BY <1>7, <1>9, <1>15
  <2>3. Total(PendingDue', AmountOf') = Total(PendingDue, AmountOf) - Total(R, AmountOf)
    BY <1>11, <1>12, <1>13, <1>14 DEF P
  <2>4. total = Total(B, Owed) + Total(R, AmountOf)
    BY <1>10 DEF R
  <2>5. Total(PendingDue, AmountOf) \in Nat
    BY <1>13 DEF P
  <2> QED BY <1>1, <1>14, <1>15, <1>16, <2>1, <2>2, <2>3, <2>4, <2>5 DEF Matched
<1>18. OwedIsBacked => OwedIsBacked'
  <2>1. account'.unbilled + account'.invoiced = account.unbilled + account.invoiced
    BY <1>1, AccountTyped
  <2> QED BY <1>7, <2>1 DEF OwedIsBacked, Documents
<1>19. MoneySum => MoneySum'
  BY <1>1, <1>4, <1>7 DEF MoneySum, Documents
<1> QED BY <1>17, <1>18, <1>19, MatchedIs DEF SumsKept

\* What a payment or a write-off takes off documents that wait for no
\* statement has been settled of them.
LEMMA SettledSums ==
    ASSUME BillingAssumption, TypeInv, TypeInv', NEW owed \in [Documents -> Nat],
           SetOwed(owed), \A d \in Documents : owed[d] <= Owed[d],
           \A d \in Waiting : owed[d] = Owed[d]
    PROVE  /\ Total(Waiting', Owed') = Total(Waiting, Owed)
           /\ Total(Documents, Owed') = Total(Documents, owed)
           /\ Total(Documents, PaidOn') + Total(Documents, owed)
                = Total(Documents, PaidOn) + Total(Documents, Owed)
           /\ Total(Documents, Owed) \in Nat /\ Total(Documents, owed) \in Nat
           /\ Total(Documents, PaidOn) \in Nat /\ Total(Documents, PaidOn') \in Nat
           /\ Total(Waiting, Owed) \in Nat
<1>1. /\ invoice \in [Shipments -> InvoiceType] /\ fee \in [Shipments -> FeeType]
      /\ InvoicesOk
  BY DEF TypeInv, BillingTypeOK, DocumentsOk
<1>2. \A s \in Shipments :
         /\ invoice'[s].status = invoice[s].status
         /\ invoice'[s].total = invoice[s].total
         /\ invoice'[s].statement = invoice[s].statement
         /\ invoice'[s].credit = owed[<<"invoice", s>>]
         /\ fee'[s].total = fee[s].total
         /\ fee'[s].statement = fee[s].statement
         /\ fee'[s].credit = owed[<<"fee", s>>]
  BY <1>1, SetOwedEffects
<1>3. DocumentValues /\ DocumentValues'
  BY DocumentsTyped
<1>4. Waiting' = Waiting
  BY <1>2, WaitingSame
<1>5. Owed' = owed
  <2>1. ASSUME NEW d \in Documents PROVE Owed'[d] = owed[d]
    <3>1. PICK s \in Shipments : d = <<"invoice", s>> \/ d = <<"fee", s>>
      BY DocumentsAre
    <3>2. /\ Owed'[<<"invoice", s>>] = invoice'[s].credit
          /\ Owed'[<<"fee", s>>] = fee'[s].credit
      BY <1>3 DEF DocumentValues
    <3>3. /\ Owed'[<<"invoice", s>>] = owed[<<"invoice", s>>]
          /\ Owed'[<<"fee", s>>] = owed[<<"fee", s>>]
      BY <1>2, <3>2
    <3>4. CASE d = <<"invoice", s>>
      BY <3>3, <3>4
    <3>5. CASE d = <<"fee", s>>
      BY <3>3, <3>5
    <3> QED BY <3>1, <3>4, <3>5
  <2> QED BY <1>3, <2>1 DEF DocumentValues, Documents
<1> DEFINE gross == [d \in Documents |-> PaidOn[d] + Owed[d]]
<1>6. ASSUME NEW d \in Documents
      PROVE  /\ PaidOn[d] \in Nat /\ Owed[d] \in Nat
             /\ PaidOn'[d] \in Nat /\ owed[d] \in Nat
             /\ PaidOn'[d] + owed[d] = PaidOn[d] + Owed[d]
  <2>1. /\ PaidOn[d] \in Nat /\ Owed[d] \in Nat
        /\ PaidOn'[d] \in Nat /\ owed[d] \in Nat
    BY <1>3 DEF DocumentValues, Documents
  <2>2. PICK s \in Shipments : d = <<"invoice", s>> \/ d = <<"fee", s>>
    BY DocumentsAre
  <2>3. /\ fee[s].credit \in Nat /\ fee[s].total \in Nat
        /\ invoice[s].credit \in Nat /\ invoice[s].total \in Nat
        /\ invoice[s].status \in {"NONE", "ISSUED", "VOID"}
    BY <1>1 DEF InvoiceType, FeeType
  <2>4. CASE d = <<"fee", s>>
    <3>1. /\ PaidOn[d] = fee[s].total - fee[s].credit /\ Owed[d] = fee[s].credit
          /\ PaidOn'[d] = fee'[s].total - fee'[s].credit
      BY <1>3, <2>4, ValuesOf
    <3>2. fee'[s].total = fee[s].total /\ fee'[s].credit = owed[d]
      BY <1>2, <2>4
    <3> QED BY <2>1, <2>3, <3>1, <3>2
  <2>5. CASE d = <<"invoice", s>>
    <3>1. Owed[d] = invoice[s].credit
      BY <1>3, <2>5, ValuesOf
    <3>2. /\ invoice'[s].total = invoice[s].total /\ invoice'[s].credit = owed[d]
          /\ invoice'[s].status = invoice[s].status
      BY <1>2, <2>5
    <3>3. CASE invoice[s].status = "ISSUED"
      <4>1. /\ PaidOn[d] = invoice[s].total - invoice[s].credit
            /\ PaidOn'[d] = invoice'[s].total - invoice'[s].credit
        BY <1>3, <2>5, <3>2, <3>3, ValuesOf
      <4> QED BY <2>1, <2>3, <3>1, <3>2, <4>1
    <3>4. CASE invoice[s].status # "ISSUED"
      <4>1. invoice[s].credit = 0
        BY <1>1, <2>3, <3>4 DEF InvoicesOk
      <4>2. PaidOn[d] = 0 /\ PaidOn'[d] = 0
        BY <1>3, <2>5, <3>2, <3>4, ValuesOf
      <4>3. owed[d] <= Owed[d]
        OBVIOUS
      <4> QED BY <2>1, <3>1, <4>1, <4>2, <4>3
    <3> QED BY <3>3, <3>4
  <2> QED BY <2>2, <2>4, <2>5
<1>7. IsFiniteSet(Documents) /\ IsFiniteSet(Waiting) /\ Waiting \subseteq Documents
  BY DocumentsFinite, WaitingIs, FS_Subset
<1> DEFINE o == Owed
           p == PaidOn
           pp == PaidOn'
<1>8. \A d \in Documents :
         /\ p[d] \in Nat /\ o[d] \in Nat /\ pp[d] \in Nat /\ owed[d] \in Nat
         /\ gross[d] = p[d] + o[d] /\ gross[d] = pp[d] + owed[d]
  BY <1>6
<1> HIDE DEF gross, o, p, pp
<1>9. Total(Documents, gross) = Total(Documents, p) + Total(Documents, o)
  BY <1>7, <1>8, TotalPlus
<1>10. Total(Documents, gross) = Total(Documents, pp) + Total(Documents, owed)
  BY <1>7, <1>8, TotalPlus
<1>11. /\ Total(Documents, p) \in Nat /\ Total(Documents, o) \in Nat
       /\ Total(Documents, pp) \in Nat /\ Total(Documents, owed) \in Nat
  BY <1>7, <1>8, TotalType
<1>12. Total(Waiting, Owed) \in Nat /\ Total(Waiting, owed) = Total(Waiting, Owed)
  <2>1. \A d \in Waiting : Owed[d] \in Nat
    BY <1>6, <1>7
  <2>2. Total(Waiting, Owed) \in Nat
    BY <1>7, <2>1, TotalType
  <2>3. Total(Waiting, owed) = Total(Waiting, Owed)
    BY TotalSame
  <2> QED BY <2>2, <2>3
<1> QED BY <1>4, <1>5, <1>9, <1>10, <1>11, <1>12 DEF o, p, pp

LEMMA VerifySums ==
    ASSUME BillingAssumption, TypeInv, TypeInv', BilledOnce, NEW p \in Payments,
           VerifyPayment(p)
    PROVE  SumsKept
<1>1. PICK owed \in [Documents -> Nat], paid \in [Periods -> Nat], left \in Nat :
         PaymentSpread(p, owed, paid, left)
  BY VerifyEffects
<1> DEFINE spent == PaymentAmount[p] - left
<1>2. /\ PaymentAmount[p] \in Nat /\ left <= PaymentAmount[p]
      /\ p \notin applied /\ applied' = applied \cup {p}
      /\ SetOwed(owed)
      /\ \A d \in Documents : owed[d] <= Owed[d]
      /\ \A s \in Shipments :
            /\ invoice[s].status # "ISSUED" \/ invoice[s].statement = NotYet
                   => owed[<<"invoice", s>>] = invoice[s].credit
            /\ fee[s].statement = NotYet => owed[<<"fee", s>>] = fee[s].credit
      /\ Total(Documents, Owed) = Total(Documents, owed) + spent
      /\ Total(Periods, paid) = spent
      /\ account'.advance = account.advance + left
      /\ account'.unbilled = account.unbilled
      /\ account'.invoiced = account.invoiced - spent
      /\ \A n \in Periods : paid[n] <= statement[n].outstanding
      /\ statement' = [n \in Periods |-> PaidOff(statement[n], paid[n])]
  BY <1>1 DEF PaymentSpread
<1>3. spent \in Nat /\ PaymentAmount[p] = spent + left
  BY <1>2
<1> HIDE DEF spent
<1>4. DocumentValues
  BY DocumentsTyped
<1>5. ASSUME NEW d \in Waiting PROVE owed[d] = Owed[d]
  <2>1. PICK s \in Shipments : d = <<"invoice", s>> \/ d = <<"fee", s>>
    BY DocumentsAre, WaitingIs
  <2>2. /\ Owed[<<"invoice", s>>] = invoice[s].credit
        /\ Owed[<<"fee", s>>] = fee[s].credit
    BY <1>4 DEF DocumentValues
  <2>3. CASE d = <<"fee", s>>
    <3>1. fee[s].statement = NotYet
      BY <2>3, WaitingIs
    <3> QED BY <1>2, <2>2, <2>3, <3>1
  <2>4. CASE d = <<"invoice", s>>
    <3>1. invoice[s].statement = NotYet
      BY <2>4, WaitingIs
    <3> QED BY <1>2, <2>2, <2>4, <3>1
  <2> QED BY <2>1, <2>3, <2>4
<1>6. /\ Total(Waiting', Owed') = Total(Waiting, Owed)
      /\ Total(Documents, Owed') = Total(Documents, owed)
      /\ Total(Documents, PaidOn') + Total(Documents, owed)
           = Total(Documents, PaidOn) + Total(Documents, Owed)
      /\ Total(Documents, Owed) \in Nat /\ Total(Documents, owed) \in Nat
      /\ Total(Documents, PaidOn) \in Nat /\ Total(Documents, PaidOn') \in Nat
      /\ Total(Waiting, Owed) \in Nat
  BY <1>2, <1>5, SettledSums
<1>7. /\ adjustments' = adjustments /\ forgiven' = forgiven
  BY DEF VerifyPayment
<1>8. /\ PendingDue' = PendingDue /\ AmountOf' = AmountOf
      /\ Total(PendingDue, AmountOf) \in Nat
  BY <1>7, PendingType DEF PendingDue, Due, AmountOf
<1>9. /\ account.advance \in Nat /\ account.unbilled \in Nat
      /\ account.invoiced \in Nat /\ forgiven \in Nat
      /\ Total(Periods, Outstanding) \in Nat
  BY AccountTyped, OutstandingType
<1>10. Total(Periods, Outstanding) = Total(Periods, Outstanding') + spent
  <2>1. /\ Outstanding \in [Periods -> Nat]
        /\ \A m \in Periods : Outstanding[m] = statement[m].outstanding
    BY OutstandingType
  <2>2. \A m \in Periods : Outstanding'[m] = statement'[m].outstanding
    BY DEF Outstanding
  <2>3. \A m \in Periods : statement'[m].outstanding = statement[m].outstanding - paid[m]
    BY <1>2, PaidStatements
  <2> DEFINE a == Outstanding
             b == Outstanding'
  <2>4. \A m \in Periods : b[m] \in Nat /\ paid[m] \in Nat /\ a[m] = b[m] + paid[m]
    <3>1. ASSUME NEW m \in Periods
          PROVE  b[m] \in Nat /\ paid[m] \in Nat /\ a[m] = b[m] + paid[m]
      <4>1. /\ a[m] = statement[m].outstanding /\ a[m] \in Nat
            /\ b[m] = statement'[m].outstanding
            /\ statement'[m].outstanding = statement[m].outstanding - paid[m]
            /\ paid[m] \in Nat /\ paid[m] <= statement[m].outstanding
        BY <1>2, <2>1, <2>2, <2>3
      <4> HIDE DEF a, b
      <4> QED BY <4>1
    <3> QED BY <3>1
  <2> HIDE DEF a, b
  <2>5. IsFiniteSet(Periods)
    BY Constants
  <2>6. Total(Periods, a) = Total(Periods, b) + Total(Periods, paid)
    <3> HIDE DEF Periods
    <3> QED BY <2>4, <2>5, TotalPlus
  <2> QED BY <1>2, <2>6 DEF a, b
<1>11. Total(Periods, Outstanding') \in Nat
  <2>1. statement' \in [Periods -> StatementType]
    BY <1>2, PaidStatements
  <2>2. \A m \in Periods : Outstanding'[m] \in Nat
    BY <2>1 DEF StatementType, Outstanding
  <2> QED BY <2>2, Constants, TotalType
<1>12. Matched => Matched'
  BY <1>2, <1>3, <1>6, <1>8, <1>9, <1>10, <1>11 DEF Matched
<1>13. OwedIsBacked => OwedIsBacked'
  BY <1>2, <1>3, <1>6, <1>9 DEF OwedIsBacked, Documents
<1>14. Total(applied', PaymentAmount) = Total(applied, PaymentAmount) + PaymentAmount[p]
  <2>1. \A q \in applied \cup {p} : PaymentAmount[q] \in Nat
    BY PaymentsTyped
  <2> QED BY <1>2, <2>1, PaymentsTyped, TotalAdd
<1>15. MoneySum => MoneySum'
  <2>1. Total(Documents, PaidOn') = Total(Documents, PaidOn) + spent
    BY <1>2, <1>3, <1>6
  <2>2. /\ InitialAdvance \in Nat /\ Total(applied, PaymentAmount) \in Nat
    BY PaymentsTyped
  <2>3. /\ Total(applied', PaymentAmount) = Total(applied, PaymentAmount) + spent + left
        /\ account'.advance = account.advance + left
    BY <1>2, <1>3, <1>14, <2>2
  <2>4. forgiven' = forgiven
    BY <1>7
  <2>5. Total(Documents', PaidOn') = Total(Documents, PaidOn')
    BY DEF Documents
  <2>6. /\ left \in Nat /\ account.advance \in Nat /\ forgiven \in Nat
        /\ Total(Documents, PaidOn) \in Nat
    BY <1>6, <1>9
  <2> QED BY <1>3, <2>1, <2>2, <2>3, <2>4, <2>5, <2>6 DEF MoneySum
<1> QED BY <1>12, <1>13, <1>15, MatchedIs DEF SumsKept

LEMMA WriteOffSums ==
    ASSUME BillingAssumption, TypeInv, TypeInv', BilledOnce, NEW n \in Periods,
           NEW requested \in WriteOffs, WriteOff(n, requested)
    PROVE  SumsKept
<1>1. PICK amount \in Nat, D \in SUBSET Documents :
         ClearedBy(n, amount, D)
  BY WriteOffEffects
<1> DEFINE owed == Spread(amount, D, Owed)
           cleared == Lesser(amount, Total(D, Owed))
<1>2. /\ amount <= statement[n].outstanding
      /\ \A s \in Shipments :
            /\ <<"invoice", s>> \in D => invoice[s].statement = n
            /\ <<"fee", s>> \in D => fee[s].statement = n
      /\ SetOwed(owed)
      /\ forgiven' = forgiven + cleared
      /\ account'.advance = account.advance
      /\ account'.unbilled = account.unbilled
      /\ account'.invoiced = account.invoiced - amount
      /\ \A m \in Periods : m # n => statement'[m] = statement[m]
      /\ statement'[n].outstanding = statement[n].outstanding - amount
  BY <1>1 DEF ClearedBy
<1>3. DocumentValues
  BY DocumentsTyped
<1>4. /\ owed \in [Documents -> Nat] /\ \A d \in Documents : owed[d] <= Owed[d]
  BY <1>3, SpreadShrinks DEF DocumentValues
<1>5. /\ Total(Documents, owed) = Total(Documents, Owed) - cleared
      /\ Total(D, Owed) \in Nat /\ Total(Documents, Owed) \in Nat
  BY <1>3, SpreadOfAll DEF DocumentValues
<1>6. cleared \in Nat /\ cleared <= amount
  BY <1>5 DEF Lesser
<1>7. ASSUME NEW d \in Waiting PROVE owed[d] = Owed[d]
  <2>1. d \in Documents /\ n # NotYet
    BY WaitingIs, Constants
  <2>2. PICK s \in Shipments : d = <<"invoice", s>> \/ d = <<"fee", s>>
    BY <2>1, DocumentsAre
  <2>3. d \notin D
    BY <1>2, <2>1, <2>2, WaitingIs
  <2> QED BY <2>1, <2>3, SpreadSpares
<1> HIDE DEF owed, cleared
<1>8. /\ Total(Waiting', Owed') = Total(Waiting, Owed)
      /\ Total(Documents, Owed') = Total(Documents, owed)
      /\ Total(Documents, PaidOn') + Total(Documents, owed)
           = Total(Documents, PaidOn) + Total(Documents, Owed)
      /\ Total(Documents, owed) \in Nat
      /\ Total(Documents, PaidOn) \in Nat /\ Total(Documents, PaidOn') \in Nat
      /\ Total(Waiting, Owed) \in Nat
  BY <1>2, <1>4, <1>7, SettledSums
<1>9. adjustments' = adjustments /\ applied' = applied
  BY DEF WriteOff
<1>10. /\ PendingDue' = PendingDue /\ AmountOf' = AmountOf
       /\ Total(PendingDue, AmountOf) \in Nat
  BY <1>9, PendingType DEF PendingDue, Due, AmountOf
<1>11. /\ account.advance \in Nat /\ account.unbilled \in Nat
       /\ account.invoiced \in Nat /\ forgiven \in Nat
       /\ Total(Periods, Outstanding) \in Nat
  BY AccountTyped, OutstandingType
<1>12. Total(Periods, Outstanding') = Total(Periods, Outstanding) - amount
  <2>1. /\ Outstanding \in [Periods -> Nat]
        /\ \A m \in Periods : Outstanding[m] = statement[m].outstanding
    BY OutstandingType
  <2>2. \A m \in Periods : Outstanding'[m] = statement'[m].outstanding
    BY DEF Outstanding
  <2>3. /\ Outstanding[n] \in Nat /\ Outstanding'[n] = Outstanding[n] - amount
        /\ Outstanding'[n] \in Nat
    <3>1. /\ Outstanding[n] = statement[n].outstanding /\ Outstanding[n] \in Nat
          /\ Outstanding'[n] = statement'[n].outstanding
      BY <2>1, <2>2
    <3> QED BY <1>2, <3>1
  <2>4. \A m \in Periods : m # n => Outstanding'[m] = Outstanding[m]
    BY <1>2, <2>1, <2>2
  <2>5. \A m \in Periods : Outstanding[m] \in Nat /\ Outstanding'[m] \in Nat
    BY <2>1, <2>3, <2>4
  <2>6. IsFiniteSet(Periods)
    BY Constants
  <2> DEFINE a == Outstanding
             b == Outstanding'
  <2>7. /\ \A m \in Periods : m # n => b[m] = a[m]
        /\ \A m \in Periods : a[m] \in Nat /\ b[m] \in Nat
    BY <2>4, <2>5
  <2> HIDE DEF a, b
  <2>8. Total(Periods, b) = Total(Periods, a) - a[n] + b[n]
    <3> HIDE DEF Periods
    <3> QED BY <2>6, <2>7, TotalChange
  <2> QED BY <1>11, <2>3, <2>8 DEF a, b
<1>13. Matched => Matched'
  BY <1>2, <1>8, <1>10, <1>11, <1>12 DEF Matched
<1>14. OwedIsBacked => OwedIsBacked'
  BY <1>2, <1>5, <1>6, <1>8, <1>11 DEF OwedIsBacked, Documents
<1>15. MoneySum => MoneySum'
  <2>1. Total(Documents, PaidOn') = Total(Documents, PaidOn) + cleared
    BY <1>5, <1>6, <1>8
  <2> QED BY <1>2, <1>6, <1>8, <1>9, <1>11, <2>1, PaymentsTyped
       DEF MoneySum, Documents
<1> QED BY <1>13, <1>14, <1>15, MatchedIs DEF SumsKept

-----------------------------------------------------------------------------
(* The totals and the money                                                *)

\* What was settled of the documents in force, written as the sum over the
\* invoices in force and over the fees that MoneyKept states.
LEMMA MoneyIs ==
    ASSUME BillingAssumption, TypeInv, MoneySum
    PROVE  MoneyKept
<1> DEFINE K == DocumentsOf("invoice", Shipments)
           F == DocumentsOf("fee", Shipments)
           inForce == {s \in Shipments : Issued(s)}
           ofInvoice == [s \in Shipments |-> invoice[s].total - invoice[s].credit]
           ofFee == [s \in Shipments |-> fee[s].total - fee[s].credit]
           inv == [s \in Shipments |-> PaidOn[<<"invoice", s>>]]
<1>1. DocumentValues
  BY ValuesTyped DEF TypeInv, BillingTypeOK, DocumentsOk
<1>2. IsFiniteSet(Shipments)
  BY DEF BillingAssumption
<1>3. ASSUME NEW s \in Shipments
      PROVE  /\ PaidOn[<<"invoice", s>>] \in Nat /\ PaidOn[<<"fee", s>>] \in Nat
             /\ PaidOn[<<"fee", s>>] = ofFee[s]
             /\ Issued(s) => PaidOn[<<"invoice", s>>] = ofInvoice[s]
             /\ ~ Issued(s) => PaidOn[<<"invoice", s>>] = 0
  <2>1. <<"invoice", s>> \in Documents /\ <<"fee", s>> \in Documents
    BY DocumentPairs
  <2> QED BY <1>1, <2>1 DEF DocumentValues, Issued
<1>4. /\ Documents = K \cup F /\ K \cap F = {}
  BY DEF Documents, DocumentsOf
<1>5. \A s \in Shipments : inv[s] \in Nat /\ inv[s] = PaidOn[<<"invoice", s>>]
  BY <1>3
<1>6. \A s \in Shipments : ofFee[s] \in Nat /\ ofFee[s] = PaidOn[<<"fee", s>>]
  BY <1>3
<1>7. inForce \in SUBSET Shipments
  OBVIOUS
<1>8. \A s \in inForce : inv[s] \in Nat /\ ofInvoice[s] = inv[s]
  BY <1>3
<1>9. \A s \in Shipments \ inForce : inv[s] = 0
  BY <1>3
<1> HIDE DEF inForce, ofInvoice, ofFee, inv
<1>10. Total(Shipments, inv) = Total(inForce, ofInvoice)
  <2>1. Total(Shipments, inv) = Total(inForce, inv)
    BY <1>2, <1>7, <1>8, <1>9, TotalZeros
  <2>2. Total(inForce, ofInvoice) = Total(inForce, inv)
    BY <1>8, TotalSame
  <2> QED BY <2>1, <2>2
<1>11. Total(K, PaidOn) = Total(Shipments, inv) /\ IsFiniteSet(K)
  BY <1>2, <1>5, TotalOfKind DEF DocumentsOf
<1>12. Total(F, PaidOn) = Total(Shipments, ofFee) /\ IsFiniteSet(F)
  BY <1>2, <1>6, TotalOfKind DEF DocumentsOf
<1>13. Total(Documents, PaidOn) = Total(K, PaidOn) + Total(F, PaidOn)
  <2>1. \A d \in K \cup F : PaidOn[d] \in Nat
    BY <1>1, <1>4 DEF DocumentValues
  <2> HIDE DEF K, F
  <2> QED BY <1>4, <1>11, <1>12, <2>1, TotalUnion
<1>14. Total(inForce, ofInvoice) \in Nat /\ Total(Shipments, ofFee) \in Nat
  <2>1. IsFiniteSet(inForce)
    BY <1>2, <1>7, FS_Subset
  <2>2. \A s \in inForce : ofInvoice[s] \in Nat
    BY <1>8
  <2>3. Total(inForce, ofInvoice) \in Nat
    BY <2>1, <2>2, TotalType
  <2>4. Total(Shipments, ofFee) \in Nat
    BY <1>2, <1>6, TotalType
  <2> QED BY <2>3, <2>4
<1>15. account.advance \in Nat
  BY AccountTyped
<1>16. Total(Documents, PaidOn) = Total(inForce, ofInvoice) + Total(Shipments, ofFee)
  BY <1>10, <1>11, <1>12, <1>13
<1> HIDE DEF K, F
<1>17. InitialAdvance + Total(applied, PaymentAmount) + forgiven
         = account.advance + Total(inForce, ofInvoice) + Total(Shipments, ofFee)
  BY <1>14, <1>15, <1>16 DEF MoneySum
<1> QED BY <1>17 DEF MoneyKept, inForce, ofInvoice, ofFee

LEMMA InitSums ==
    ASSUME BillingAssumption, Init
    PROVE  TotalsMatchDocuments /\ OwedIsBacked /\ MoneySum
<1>1. /\ account = [advance |-> InitialAdvance, unbilled |-> 0, invoiced |-> 0]
      /\ invoice = [s \in Shipments |-> NoInvoice]
      /\ fee = [s \in Shipments |-> NoFee]
      /\ adjustments = <<>> /\ applied = {} /\ forgiven = 0
      /\ statement = [n \in Periods |-> NoStatement]
  BY DEF Init
<1>2. TypeInv
  BY InitTyped
<1>3. DocumentValues
  BY <1>2, ValuesTyped DEF TypeInv, BillingTypeOK, DocumentsOk
<1>4. /\ account.advance = InitialAdvance /\ InitialAdvance \in Nat
      /\ account.unbilled = 0 /\ account.invoiced = 0
  BY <1>1 DEF BillingAssumption
<1>5. \A n \in Periods : Outstanding[n] = 0
  BY <1>1 DEF Outstanding, NoStatement
<1>6. \A s \in Shipments :
         /\ invoice[s].credit = 0 /\ invoice[s].status = "NONE"
         /\ fee[s].credit = 0 /\ fee[s].total = 0
  BY <1>1 DEF NoInvoice, NoFee
<1>7. \A d \in Documents : Owed[d] = 0 /\ PaidOn[d] = 0
  <2>1. ASSUME NEW d \in Documents PROVE Owed[d] = 0 /\ PaidOn[d] = 0
    <3>1. PICK s \in Shipments : d = <<"invoice", s>> \/ d = <<"fee", s>>
      BY DocumentsAre
    <3>2. /\ Owed[<<"invoice", s>>] = 0 /\ Owed[<<"fee", s>>] = 0
          /\ PaidOn[<<"invoice", s>>] = 0 /\ PaidOn[<<"fee", s>>] = 0
      BY <1>3, <1>6 DEF DocumentValues
    <3> QED BY <3>1, <3>2
  <2> QED BY <2>1
<1>8. ASSUME NEW S, IsFiniteSet(S), NEW amount, \A r \in S : amount[r] = 0
      PROVE  Total(S, amount) = 0
  <2>1. Units(S, amount) = {}
    BY <1>8 DEF Units
  <2> QED BY <2>1, FS_EmptySet DEF Total
<1>9. IsFiniteSet(Periods) /\ IsFiniteSet(Documents)
      /\ IsFiniteSet(Waiting) /\ Waiting \subseteq Documents
  BY Constants, DocumentsFinite, WaitingIs, FS_Subset
<1> DEFINE P == Periods
           D == Documents
           W == Waiting
           G == PendingDue
           o == Owed
           p == PaidOn
           a == AmountOf
           u == Outstanding
<1>10. PendingDue = {}
  BY <1>1 DEF PendingDue, Due
<1>11. /\ IsFiniteSet(P) /\ IsFiniteSet(D) /\ IsFiniteSet(W) /\ G = {}
       /\ \A n \in P : u[n] = 0
       /\ \A d \in D : o[d] = 0
       /\ \A d \in D : p[d] = 0
       /\ \A d \in W : o[d] = 0
  BY <1>5, <1>7, <1>9, <1>10
<1> HIDE DEF P, D, W, G, o, p, a, u
<1>12. /\ Total(P, u) = 0
  BY <1>8, <1>11
<1>13. Total(D, o) = 0
  BY <1>8, <1>11
<1>14. Total(D, p) = 0
  BY <1>8, <1>11
<1>15. Total(W, o) = 0
  BY <1>8, <1>11
<1>16. Total(G, a) = 0 /\ Total({}, PaymentAmount) = 0
  BY <1>11, TotalEmpty
<1>17. Matched
  BY <1>4, <1>12, <1>15, <1>16 DEF Matched, P, W, G, o, a, u
<1>18. OwedIsBacked
  BY <1>4, <1>13 DEF OwedIsBacked, D, o
<1>19. MoneySum
  BY <1>1, <1>4, <1>14, <1>16 DEF MoneySum, D, p
<1> QED BY <1>17, <1>18, <1>19, MatchedIs

\* Every step of a shipment keeps the sums.
LEMMA ShipmentSums ==
    ASSUME BillingAssumption, TypeInv, TypeInv', BilledOnce, NEW s \in Shipments,
           ShipmentStep(s)
    PROVE  SumsKept
<1>1. ASSUME NEW total \in BookingTotals, Book(s, total)
      PROVE  SumsKept
  BY <1>1, BookSums
<1>2. CASE QuietShipmentStep(s)
  <2>1. StillMoney /\ statement' = statement
    BY <1>2, QuietShipment
  <2> QED BY <2>1, StillSums
<1>3. ASSUME NEW total \in RevisedTotals[s], ApproveAmendment(s, total)
      PROVE  SumsKept
  <2>1. total \in Nat /\ Issued(s) /\ Reprice(s, total, FALSE)
    BY <1>3, RepricesOnApproval
  <2> QED BY <2>1, RepriceSums
<1>4. ASSUME NEW total \in RevisedTotals[s], VerifyCharge(s, total)
      PROVE  SumsKept
  <2>1. total \in Nat /\ Issued(s) /\ Reprice(s, total, TRUE)
    BY <1>4, RepricesOnVerification
  <2> QED BY <2>1, RepriceSums
<1>5. ASSUME NEW f \in RequestedFees, ApproveCancellation(s, f)
      PROVE  SumsKept
  BY <1>5, CancellationSums
<1>6. ShipmentSteps(s)
  BY ShipmentStepIs
<1> QED BY <1>1, <1>2, <1>3, <1>4, <1>5, <1>6 DEF ShipmentSteps

LEMMA StepSums ==
    ASSUME BillingAssumption, TypeInv, BilledOnce, [Next]_vars
    PROVE  SumsKept
<1>0. TypeInv'
  BY StepFollows
<1>1. CASE Tick
  <2>1. StillMoney /\ statement' = statement
    BY <1>1, TickStill
  <2> QED BY <1>0, <2>1, StillSums
<1>2. ASSUME NEW s \in Shipments, ShipmentStep(s)
      PROVE  SumsKept
  BY <1>0, <1>2, ShipmentSums
<1>3. ASSUME NEW n \in Periods, StatementStep(n)
      PROVE  SumsKept
  <2>1. CASE CloseBooks(n)
    BY <1>0, <2>1, CloseSums
  <2>2. CASE MarkOverdue(n)
    <3>1. StillMoney
          /\ \A m \in Periods : statement'[m].outstanding = statement[m].outstanding
      BY <2>2, OverdueFollows
    <3> QED BY <1>0, <3>1, StillSums
  <2>3. ASSUME NEW amount \in WriteOffs, WriteOff(n, amount)
        PROVE  SumsKept
    BY <1>0, <2>3, WriteOffSums
  <2> QED BY <1>3, <2>1, <2>2, <2>3 DEF StatementStep
<1>4. ASSUME NEW p \in Payments, VerifyPayment(p)
      PROVE  SumsKept
  BY <1>0, <1>4, VerifySums
<1>5. CASE UNCHANGED vars
  <2>1. StillMoney /\ statement' = statement
    BY <1>5 DEF vars, StillMoney, TypeInv, BillingTypeOK
  <2> QED BY <1>0, <2>1, StillSums
<1> QED BY <1>1, <1>2, <1>3, <1>4, <1>5 DEF Next

\* What the account holds as invoiced is what its statements have outstanding,
\* and what it holds as unbilled is what its documents and its adjustments
\* waiting for a statement owe: no booking, repricing, cancellation, closing,
\* payment or write-off moves one side alone.
THEOREM TotalsMatch == Spec => []TotalsMatchDocuments
<1> DEFINE Inv == TypeInv /\ BilledOnce /\ TotalsMatchDocuments
<1>1. Init => Inv
  BY BillingAssumption, InitTyped, InitSums
<1>2. Inv /\ [Next]_vars => Inv'
  BY BillingAssumption, StepFollows, StepSums DEF SumsKept
<1>3. Inv => TotalsMatchDocuments
  OBVIOUS
<1> QED BY <1>1, <1>2, <1>3, PTL DEF Spec

\* The credit the account holds as used never exceeds what its documents owe.
THEOREM OwedBacked == Spec => []OwedIsBacked
<1> DEFINE Inv == TypeInv /\ BilledOnce /\ OwedIsBacked
<1>1. Init => Inv
  BY BillingAssumption, InitTyped, InitSums
<1>2. Inv /\ [Next]_vars => Inv'
  BY BillingAssumption, StepFollows, StepSums DEF SumsKept
<1>3. Inv => OwedIsBacked
  OBVIOUS
<1> QED BY <1>1, <1>2, <1>3, PTL DEF Spec

\* Money neither appears nor disappears: what the customer paid, and what was
\* written off, is what its documents in force have had settled and the advance
\* it still holds.
THEOREM MoneyIsKept == Spec => []MoneyKept
<1> DEFINE Inv == TypeInv /\ BilledOnce /\ MoneySum
<1>1. Init => Inv
  BY BillingAssumption, InitTyped, InitSums
<1>2. Inv /\ [Next]_vars => Inv'
  BY BillingAssumption, StepFollows, StepSums DEF SumsKept
<1>3. Inv => MoneyKept
  BY BillingAssumption, MoneyIs
<1> QED BY <1>1, <1>2, <1>3, PTL DEF Spec

=============================================================================
