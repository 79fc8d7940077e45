------------------------ MODULE ReservedTotalsProofs ------------------------
(* Lemmas about ReservedTotals: a total counts units, so it can be reasoned *)
(* about with cardinalities of finite sets instead of induction over data. *)
EXTENDS ReservedTotals, FiniteSetTheorems, TLAPS

Positive(n) == IF n > 0 THEN n ELSE 0

(* The units of one order are as many as its amount, if it is positive. *)
LEMMA UnitsOfOne ==
  ASSUME NEW o, NEW n \in Int
  PROVE  /\ IsFiniteSet({o} \X (1..n))
         /\ Cardinality({o} \X (1..n)) = Positive(n)
<1>1. IsFiniteSet({o}) /\ Cardinality({o}) = 1
  BY FS_Singleton
<1>2. IsFiniteSet(1..n) /\ Cardinality(1..n) = Positive(n)
  <2>1. IsFiniteSet(1..n) /\ Cardinality(1..n) = IF 1 > n THEN 0 ELSE n - 1 + 1
    BY FS_Interval
  <2> QED
    BY <2>1 DEF Positive
<1>3. /\ IsFiniteSet({o} \X (1..n))
      /\ Cardinality({o} \X (1..n)) = Cardinality({o}) * Cardinality(1..n)
  BY <1>1, <1>2, FS_Product
<1> QED
  BY <1>1, <1>2, <1>3 DEF Positive

(* Finitely many orders have finitely many units. *)
LEMMA UnitsFinite ==
  ASSUME NEW S, IsFiniteSet(S), NEW amount, \A o \in S : amount[o] \in Int
  PROVE  IsFiniteSet(Units(S, amount)) /\ Cardinality(Units(S, amount)) \in Nat
<1> DEFINE T == {{o} \X (1..amount[o]) : o \in S}
           f == [o \in S |-> {o} \X (1..amount[o])]
<1>1. f \in Surjection(S, T)
  BY DEF Surjection
<1>2. IsFiniteSet(T)
  BY <1>1, FS_Surjection
<1>3. ASSUME NEW U \in T PROVE IsFiniteSet(U)
  <2>1. PICK o \in S : U = {o} \X (1..amount[o])
    OBVIOUS
  <2>2. amount[o] \in Int
    OBVIOUS
  <2> QED
    BY <2>1, <2>2, UnitsOfOne
<1>4. IsFiniteSet(UNION T)
  <2> HIDE DEF T
  <2> QED BY <1>2, <1>3, FS_UNION
<1> QED
  BY <1>4, FS_CardinalityType DEF Units

(* A deficit is a count of units of the opposite amounts. *)
LEMMA DeficitIsUnits ==
  ASSUME NEW S, NEW T, S \subseteq T, NEW amount
  PROVE  Deficit(S, amount) = Units(S, [o \in T |-> -amount[o]])
<1>1. \A o \in S : [x \in T |-> -amount[x]][o] = -amount[o]
  OBVIOUS
<1> QED
  BY <1>1 DEF Deficit, Units

LEMMA TotalType ==
  ASSUME NEW S, IsFiniteSet(S), NEW amount, \A o \in S : amount[o] \in Int
  PROVE  Total(S, amount) \in Int
<1>1. \A o \in S : [x \in S |-> -amount[x]][o] \in Int
  OBVIOUS
<1>2. Cardinality(Units(S, [x \in S |-> -amount[x]])) \in Nat
  BY <1>1, UnitsFinite
<1>3. Cardinality(Deficit(S, amount)) \in Nat
  BY <1>2, DeficitIsUnits
<1> QED
  BY <1>3, UnitsFinite DEF Total

(* No order, no units. *)
LEMMA TotalOfNone ==
  ASSUME NEW amount
  PROVE  Total({}, amount) = 0
<1>1. Units({}, amount) = {} /\ Deficit({}, amount) = {}
  BY DEF Units, Deficit
<1> QED
  BY <1>1, FS_EmptySet DEF Total

(* A total depends only on the amounts of the orders it counts. *)
LEMMA TotalOfSame ==
  ASSUME NEW S, NEW f, NEW g, \A o \in S : f[o] = g[o]
  PROVE  Total(S, f) = Total(S, g)
<1>1. Units(S, f) = Units(S, g) /\ Deficit(S, f) = Deficit(S, g)
  BY DEF Units, Deficit
<1> QED
  BY <1>1 DEF Total

(* A further order adds its units. *)
LEMMA UnitsWithOneMore ==
  ASSUME NEW S, IsFiniteSet(S), NEW o, o \notin S, NEW amount,
         \A x \in S \cup {o} : amount[x] \in Int
  PROVE  Cardinality(Units(S \cup {o}, amount))
           = Cardinality(Units(S, amount)) + Positive(amount[o])
<1> DEFINE V == {o} \X (1..amount[o])
           U == Units(S, amount)
<1>1. Units(S \cup {o}, amount) = U \cup V
  BY DEF Units
<1>2. U \cap V = {}
  BY DEF Units
<1>3. IsFiniteSet(U) /\ Cardinality(U) \in Nat
  BY UnitsFinite
<1>4. IsFiniteSet(V) /\ Cardinality(V) = Positive(amount[o])
  BY UnitsOfOne
<1>5. Cardinality(U \cup V) = Cardinality(U) + Cardinality(V) - Cardinality(U \cap V)
  <2> HIDE DEF U, V
  <2> QED BY <1>3, <1>4, FS_Union
<1>6. Cardinality(U \cap V) = 0
  BY <1>2, FS_EmptySet
<1>7. Positive(amount[o]) \in Int
  BY DEF Positive
<1>8. Cardinality(Units(S \cup {o}, amount)) = Cardinality(U \cup V)
  BY <1>1
<1> HIDE DEF V
<1> QED
  BY <1>3, <1>4, <1>5, <1>6, <1>7, <1>8

(* A further order adds its amount to the total. *)
LEMMA TotalWithOneMore ==
  ASSUME NEW S, IsFiniteSet(S), NEW o, o \notin S, NEW amount,
         \A x \in S \cup {o} : amount[x] \in Int
  PROVE  Total(S \cup {o}, amount) = Total(S, amount) + amount[o]
<1> DEFINE R == S \cup {o}
           opposite == [x \in R |-> -amount[x]]
<1>1. \A x \in R : opposite[x] \in Int
  OBVIOUS
<1>2. opposite[o] = -amount[o]
  OBVIOUS
<1>3. Deficit(R, amount) = Units(R, opposite) /\ Deficit(S, amount) = Units(S, opposite)
  BY DeficitIsUnits
<1> HIDE DEF opposite
<1>4. /\ Cardinality(Units(R, amount)) = Cardinality(Units(S, amount)) + Positive(amount[o])
      /\ Cardinality(Units(R, opposite))
           = Cardinality(Units(S, opposite)) + Positive(opposite[o])
  BY <1>1, UnitsWithOneMore
<1>5. Cardinality(Units(S, amount)) \in Nat /\ Cardinality(Units(S, opposite)) \in Nat
  BY <1>1, UnitsFinite
<1>6. amount[o] \in Int
  OBVIOUS
<1>7. Positive(amount[o]) - Positive(-amount[o]) = amount[o]
  BY <1>6 DEF Positive
<1>8. Positive(amount[o]) \in Int /\ Positive(-amount[o]) \in Int
  BY <1>6 DEF Positive
<1> QED
  BY <1>2, <1>3, <1>4, <1>5, <1>6, <1>7, <1>8 DEF Total

(* An order that leaves takes its amount with it. *)
LEMMA TotalWithOneLess ==
  ASSUME NEW S, IsFiniteSet(S), NEW o \in S, NEW amount,
         \A x \in S : amount[x] \in Int
  PROVE  Total(S \ {o}, amount) = Total(S, amount) - amount[o]
<1> DEFINE R == S \ {o}
<1>1. IsFiniteSet(R)
  BY FS_RemoveElement
<1>2. R \cup {o} = S /\ o \notin R
  OBVIOUS
<1>3. Total(R \cup {o}, amount) = Total(R, amount) + amount[o]
  <2> HIDE DEF R
  <2> QED BY <1>1, <1>2, TotalWithOneMore
<1>4. Total(R, amount) \in Int
  BY <1>1, TotalType
<1>5. Total(S, amount) = Total(R, amount) + amount[o]
  BY <1>2, <1>3
<1>6. amount[o] \in Int
  OBVIOUS
<1> QED
  BY <1>4, <1>5, <1>6

(* A total of amounts none of which is negative is not negative either. *)
LEMMA TotalNotNegative ==
  ASSUME NEW S, IsFiniteSet(S), NEW amount, \A x \in S : amount[x] \in Nat
  PROVE  Total(S, amount) \in Nat
<1>1. \A x \in S : 1..(-amount[x]) = {}
  OBVIOUS
<1>2. Deficit(S, amount) = {}
  BY <1>1 DEF Deficit
<1>3. Cardinality(Deficit(S, amount)) = 0
  BY <1>2, FS_EmptySet
<1> QED
  BY <1>3, UnitsFinite DEF Total
=============================================================================
