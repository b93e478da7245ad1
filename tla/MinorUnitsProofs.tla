-------------------------- MODULE MinorUnitsProofs --------------------------
(***************************************************************************)
(* What Total does when a document enters or leaves a set, or changes its  *)
(* amount: the facts that the bookkeeping theorems rest on.                *)
(***************************************************************************)
EXTENDS MinorUnits, FiniteSetTheorems, WellFoundedInduction, TLAPS

\* A document of amount n stands for n units.
LEMMA UnitsOfOne ==
    ASSUME NEW r, NEW n \in Nat
    PROVE  /\ IsFiniteSet({r} \X (1 .. n))
           /\ Cardinality({r} \X (1 .. n)) = n
<1>1. IsFiniteSet({r}) /\ Cardinality({r}) = 1
  BY FS_Singleton
<1>2. IsFiniteSet(1 .. n) /\ Cardinality(1 .. n) = n
  BY FS_Interval
<1> DEFINE one == {r}
           many == 1 .. n
<1>3. IsFiniteSet(one \X many)
      /\ Cardinality(one \X many) = Cardinality(one) * Cardinality(many)
  <2>1. IsFiniteSet(one) /\ IsFiniteSet(many)
    BY <1>1, <1>2
  <2> HIDE DEF one, many
  <2> QED BY <2>1, FS_Product
<1> QED BY <1>1, <1>2, <1>3

\* Finitely many documents stand for finitely many units.
LEMMA UnitsFinite ==
    ASSUME NEW S, IsFiniteSet(S), NEW amount, \A r \in S : amount[r] \in Nat
    PROVE  IsFiniteSet(Units(S, amount))
<1> DEFINE unitsOf(r) == {r} \X (1 .. amount[r])
           T == {unitsOf(r) : r \in S}
           f == [r \in S |-> unitsOf(r)]
<1>1. f \in Surjection(S, T)
  BY DEF Surjection
<1>2. IsFiniteSet(T)
  <2> HIDE DEF f, T
  <2> QED BY <1>1, FS_Surjection
<1>3. \A U \in T : IsFiniteSet(U)
  <2>1. \A r \in S : IsFiniteSet(unitsOf(r))
    BY UnitsOfOne
  <2> QED BY <2>1
<1>4. IsFiniteSet(UNION T)
  <2> HIDE DEF T
  <2> QED BY <1>2, <1>3, FS_UNION
<1> QED BY <1>4 DEF Units

\* A sum is a natural number, and the sum over no documents is zero.
LEMMA TotalType ==
    ASSUME NEW S, IsFiniteSet(S), NEW amount, \A r \in S : amount[r] \in Nat
    PROVE  Total(S, amount) \in Nat
BY UnitsFinite, FS_CardinalityType DEF Total

LEMMA TotalEmpty ==
    ASSUME NEW amount
    PROVE  Total({}, amount) = 0
<1>1. Units({}, amount) = {}
  BY DEF Units
<1> QED BY <1>1, FS_EmptySet DEF Total

\* Amounts of documents outside the set do not matter.
LEMMA TotalSame ==
    ASSUME NEW S, NEW amount, NEW other, \A r \in S : other[r] = amount[r]
    PROVE  Total(S, other) = Total(S, amount)
<1>1. Units(S, other) = Units(S, amount)
  BY DEF Units
<1> QED BY <1>1 DEF Total

\* A document that enters adds its amount.
LEMMA TotalAdd ==
    ASSUME NEW S, IsFiniteSet(S), NEW a, a \notin S, NEW amount,
           \A r \in S \cup {a} : amount[r] \in Nat
    PROVE  Total(S \cup {a}, amount) = Total(S, amount) + amount[a]
<1> DEFINE U == Units(S, amount)
           V == {a} \X (1 .. amount[a])
<1>1. Units(S \cup {a}, amount) = U \cup V
  BY DEF Units
<1>2. U \cap V = {}
  BY DEF Units
<1>3. IsFiniteSet(U)
  BY UnitsFinite
<1>4. IsFiniteSet(V) /\ Cardinality(V) = amount[a]
  BY UnitsOfOne
<1>5. Cardinality(U) \in Nat
  BY <1>3, FS_CardinalityType
<1>6. Cardinality(U \cup V) = Cardinality(U) + Cardinality(V) - Cardinality({})
  <2> HIDE DEF U, V
  <2> QED BY <1>2, <1>3, <1>4, FS_Union
<1>7. Cardinality(U \cup V) = Cardinality(U) + amount[a]
  BY <1>4, <1>5, <1>6, FS_EmptySet
<1> QED BY <1>1, <1>7 DEF Total

\* A document that leaves takes its amount with it, so its amount was in the sum.
LEMMA TotalRemove ==
    ASSUME NEW S, IsFiniteSet(S), NEW a \in S, NEW amount,
           \A r \in S : amount[r] \in Nat
    PROVE  /\ Total(S \ {a}, amount) = Total(S, amount) - amount[a]
           /\ amount[a] <= Total(S, amount)
<1> DEFINE R == S \ {a}
<1>1. IsFiniteSet(R) /\ a \notin R /\ S = R \cup {a}
  BY FS_RemoveElement
<1>2. Total(R, amount) \in Nat
  BY <1>1, TotalType
<1>3. Total(S, amount) = Total(R, amount) + amount[a]
  <2>1. Total(R \cup {a}, amount) = Total(R, amount) + amount[a]
    BY <1>1, TotalAdd
  <2> QED BY <1>1, <2>1
<1> QED BY <1>2, <1>3

\* Fewer documents stand for no more.
LEMMA TotalSubset ==
    ASSUME NEW T, IsFiniteSet(T), NEW S \in SUBSET T, NEW amount,
           \A r \in T : amount[r] \in Nat
    PROVE  Total(S, amount) <= Total(T, amount)
<1>1. Units(S, amount) \subseteq Units(T, amount)
  BY DEF Units
<1>2. IsFiniteSet(Units(T, amount))
  BY UnitsFinite
<1> QED BY <1>1, <1>2, FS_Subset DEF Total

-----------------------------------------------------------------------------
(* Induction over finite sets, and the sums that need it                   *)

\* A family of finite sets has a member of which no other is a strict subset.
LEMMA LeastSet ==
    ASSUME NEW F, F # {}, \A S \in F : IsFiniteSet(S)
    PROVE  \E S \in F : \A R \in F : R \subseteq S => R = S
<1> DEFINE all == UNION F
           order == StrictSubsetOrdering(all)
<1>1. IsWellFoundedOn(order, FiniteSubsetsOf(all))
  BY FS_StrictSubsetOrderingWellFounded
<1>2. F \subseteq FiniteSubsetsOf(all)
  BY DEF FiniteSubsetsOf
<1> HIDE DEF order
<1>3. \E S \in F : \A R \in F : ~ (<<R, S>> \in order)
  BY <1>1, <1>2, WFMin
<1>4. PICK S \in F : \A R \in F : ~ (<<R, S>> \in order)
  BY <1>3
<1>5. ASSUME NEW R \in F, R \subseteq S, R # S PROVE <<R, S>> \in order
  <2>1. R \in SUBSET all /\ S \in SUBSET all
    OBVIOUS
  <2> HIDE DEF all
  <2> QED BY <1>5, <2>1 DEF order, StrictSubsetOrdering
<1>6. \A R \in F : R \subseteq S => R = S
  <2> HIDE DEF order, all
  <2> QED BY <1>4, <1>5
<1> QED BY <1>6

\* A nonempty set of naturals has a least member.
LEMMA LeastNatural ==
    ASSUME NEW T \in SUBSET Nat, T # {}
    PROVE  \E n \in T : \A m \in T : n <= m
<1> DEFINE F == {1 .. n : n \in T}
<1>1. F # {} /\ \A S \in F : IsFiniteSet(S)
  <2>1. ASSUME NEW n \in T PROVE IsFiniteSet(1 .. n)
    <3>1. 1 \in Int /\ n \in Int
      OBVIOUS
    <3> QED BY <3>1, FS_Interval
  <2> QED BY <2>1
<1>2. PICK S \in F : \A R \in F : R \subseteq S => R = S
  <2> HIDE DEF F
  <2> QED BY <1>1, LeastSet
<1>3. PICK n \in T : S = 1 .. n
  OBVIOUS
<1>4. ASSUME NEW m \in T PROVE n <= m
  <2> SUFFICES ASSUME m < n PROVE FALSE
    OBVIOUS
  <2>1. n \in Nat /\ m \in Nat
    OBVIOUS
  <2>2. 1 .. m \subseteq 1 .. n /\ n \in 1 .. n /\ n \notin 1 .. m
    BY <2>1
  <2>3. 1 .. m \in F
    OBVIOUS
  <2> HIDE DEF F
  <2> QED BY <1>2, <1>3, <2>2, <2>3
<1> QED BY <1>4

\* Induction over finite sets, with a set in place of a predicate: a family that
\* has the empty set, and every set that loses some member to it, has all.
LEMMA SetInduction ==
    ASSUME NEW S, IsFiniteSet(S), NEW G, {} \in G,
           \A E \in SUBSET S : (\E r \in E : E \ {r} \in G) => E \in G
    PROVE  S \in G
<1> SUFFICES ASSUME S \notin G PROVE FALSE
  OBVIOUS
<1> DEFINE F == {E \in SUBSET S : E \notin G}
<1>1. F # {} /\ \A E \in F : IsFiniteSet(E)
  BY FS_Subset
<1>2. PICK E \in F : \A R \in F : R \subseteq E => R = E
  <2> HIDE DEF F
  <2> QED BY <1>1, LeastSet
<1>3. PICK r : r \in E
  OBVIOUS
<1>4. E \ {r} \in G
  BY <1>2, <1>3
<1> QED BY <1>3, <1>4

\* Induction over finite sets from every smaller set.
LEMMA StrongSetInduction ==
    ASSUME NEW S, IsFiniteSet(S), NEW G,
           \A E \in SUBSET S :
               (\A R \in SUBSET E : R # E => R \in G) => E \in G
    PROVE  S \in G
<1> SUFFICES ASSUME S \notin G PROVE FALSE
  OBVIOUS
<1> DEFINE F == {E \in SUBSET S : E \notin G}
<1>1. F # {} /\ \A E \in F : IsFiniteSet(E)
  BY FS_Subset
<1>2. PICK E \in F : \A R \in F : R \subseteq E => R = E
  <2> HIDE DEF F
  <2> QED BY <1>1, LeastSet
<1>3. \A R \in SUBSET E : R # E => R \in G
  BY <1>2
<1> QED BY <1>3

\* Induction over an interval, with a set in place of a predicate.
LEMMA IntervalInduction ==
    ASSUME NEW N \in Nat, NEW G, 0 \in G,
           \A n \in 1 .. N : n - 1 \in G => n \in G
    PROVE  N \in G
<1> DEFINE T == {n \in 0 .. N : n \notin G}
<1>1. SUFFICES ASSUME T # {} PROVE FALSE
  OBVIOUS
<1>2. PICK n \in T : \A m \in T : n <= m
  <2>1. T \in SUBSET Nat
    OBVIOUS
  <2> HIDE DEF T
  <2> QED BY <1>1, <2>1, LeastNatural
<1>3. n \in 1 .. N /\ n - 1 \in 0 .. N /\ n - 1 \notin T
  BY <1>2
<1> QED BY <1>3

\* Amounts that are sums of two amounts.
LEMMA TotalPlus ==
    ASSUME NEW S, IsFiniteSet(S), NEW a, NEW b, NEW c,
           \A r \in S : b[r] \in Nat /\ c[r] \in Nat /\ a[r] = b[r] + c[r]
    PROVE  Total(S, a) = Total(S, b) + Total(S, c)
<1> DEFINE G == {E \in SUBSET S : Total(E, a) = Total(E, b) + Total(E, c)}
<1>1. {} \in G
  BY TotalEmpty
<1>2. ASSUME NEW E \in SUBSET S, NEW r \in E, E \ {r} \in G
      PROVE  E \in G
  <2> DEFINE R == E \ {r}
  <2>1. IsFiniteSet(E) /\ IsFiniteSet(R)
    BY FS_Subset
  <2>2. \A q \in E : a[q] \in Nat /\ b[q] \in Nat /\ c[q] \in Nat
    OBVIOUS
  <2>3. /\ Total(R, a) = Total(E, a) - a[r] /\ Total(R, b) = Total(E, b) - b[r]
        /\ Total(R, c) = Total(E, c) - c[r]
    BY <2>1, <2>2, TotalRemove
  <2>4. Total(E, a) \in Nat /\ Total(E, b) \in Nat /\ Total(E, c) \in Nat
    BY <2>1, <2>2, TotalType
  <2>5. Total(R, a) = Total(R, b) + Total(R, c) /\ a[r] = b[r] + c[r]
    BY <1>2
  <2> QED BY <2>2, <2>3, <2>4, <2>5
<1> HIDE DEF G
<1>3. S \in G
  BY <1>1, <1>2, SetInduction
<1> QED BY <1>3 DEF G

\* Documents named by pairs with the same first component.
LEMMA TotalOfKind ==
    ASSUME NEW S, IsFiniteSet(S), NEW kind, NEW amount, NEW other,
           \A r \in S : other[r] \in Nat /\ other[r] = amount[<<kind, r>>]
    PROVE  /\ Total({kind} \X S, amount) = Total(S, other)
           /\ IsFiniteSet({kind} \X S)
<1>0. IsFiniteSet({kind} \X S)
  <2> DEFINE K == {kind}
  <2>1. IsFiniteSet(K)
    BY FS_Singleton
  <2> HIDE DEF K
  <2>2. IsFiniteSet(K \X S)
    BY <2>1, FS_Product
  <2> QED BY <2>2 DEF K
<1> DEFINE G == {E \in SUBSET S : Total({kind} \X E, amount) = Total(E, other)}
<1>1. {} \in G
  <2>1. {kind} \X {} = {}
    OBVIOUS
  <2> QED BY <2>1, TotalEmpty
<1>2. ASSUME NEW E \in SUBSET S, NEW r \in E, E \ {r} \in G
      PROVE  E \in G
  <2> DEFINE R == E \ {r}
             D == {kind} \X E
             d == <<kind, r>>
  <2>1. IsFiniteSet(E) /\ IsFiniteSet(D)
    <3>1. D \subseteq {kind} \X S
      OBVIOUS
    <3> HIDE DEF D
    <3> QED BY <1>0, <3>1, FS_Subset
  <2>2. \A q \in E : other[q] \in Nat
    OBVIOUS
  <2>3. \A e \in D : amount[e] \in Nat
    OBVIOUS
  <2>4. d \in D /\ {kind} \X R = D \ {d} /\ amount[d] = other[r]
    OBVIOUS
  <2>5. Total(D \ {d}, amount) = Total(D, amount) - amount[d]
    <3> HIDE DEF D, d
    <3> QED BY <2>1, <2>3, <2>4, TotalRemove
  <2>6. Total(R, other) = Total(E, other) - other[r]
    BY <2>1, <2>2, TotalRemove
  <2>7. Total(D, amount) \in Nat /\ Total(E, other) \in Nat /\ other[r] \in Nat
    <3> HIDE DEF D
    <3> QED BY <2>1, <2>2, <2>3, TotalType
  <2>8. Total({kind} \X R, amount) = Total(R, other)
    BY <1>2
  <2>9. Total(D, amount) = Total(E, other)
    <3>1. Total(D, amount) - other[r] = Total(E, other) - other[r]
      <4> HIDE DEF D, d, R
      <4> QED BY <2>4, <2>5, <2>6, <2>8
    <3> HIDE DEF D
    <3> QED BY <3>1, <2>7
  <2> QED BY <2>9
<1> HIDE DEF G
<1>3. S \in G
  BY <1>1, <1>2, SetInduction
<1> QED BY <1>0, <1>3 DEF G

\* Two disjoint sets of documents.
LEMMA TotalUnion ==
    ASSUME NEW S, IsFiniteSet(S), NEW T, IsFiniteSet(T), S \cap T = {}, NEW amount,
           \A r \in S \cup T : amount[r] \in Nat
    PROVE  Total(S \cup T, amount) = Total(S, amount) + Total(T, amount)
<1> DEFINE U == Units(S, amount)
           V == Units(T, amount)
<1>1. Units(S \cup T, amount) = U \cup V
  BY DEF Units
<1>2. U \cap V = {}
  BY DEF Units
<1>3. IsFiniteSet(U) /\ IsFiniteSet(V)
  BY UnitsFinite
<1>4. Cardinality(U) \in Nat /\ Cardinality(V) \in Nat
  BY <1>3, FS_CardinalityType
<1>5. Cardinality(U \cup V) = Cardinality(U) + Cardinality(V) - Cardinality({})
  <2> HIDE DEF U, V
  <2> QED BY <1>2, <1>3, FS_Union
<1>6. Cardinality(U \cup V) = Cardinality(U) + Cardinality(V)
  BY <1>4, <1>5, FS_EmptySet
<1> QED BY <1>1, <1>6 DEF Total

\* Documents without an amount do not count.
LEMMA TotalZeros ==
    ASSUME NEW T, IsFiniteSet(T), NEW S \in SUBSET T, NEW amount,
           \A r \in S : amount[r] \in Nat, \A r \in T \ S : amount[r] = 0
    PROVE  Total(T, amount) = Total(S, amount)
<1>1. Units(T, amount) = Units(S, amount)
  BY DEF Units
<1> QED BY <1>1 DEF Total

\* One document changes its amount.
LEMMA TotalChange ==
    ASSUME NEW S, IsFiniteSet(S), NEW a \in S, NEW amount, NEW other,
           \A r \in S : amount[r] \in Nat /\ other[r] \in Nat,
           \A r \in S : r # a => other[r] = amount[r]
    PROVE  Total(S, other) = Total(S, amount) - amount[a] + other[a]
<1> DEFINE R == S \ {a}
<1>1. Total(R, other) = Total(R, amount)
  BY TotalSame
<1>2. /\ Total(R, amount) = Total(S, amount) - amount[a]
      /\ Total(R, other) = Total(S, other) - other[a]
  BY TotalRemove
<1>3. Total(S, amount) \in Nat /\ Total(S, other) \in Nat
  BY TotalType
<1> QED BY <1>1, <1>2, <1>3
=============================================================================
