----------------------- MODULE AccountRiskLedgerProofs -----------------------
(* Theorems about AccountRiskLedger, for every value of its constants. *)
EXTENDS AccountRiskLedger, ReservedTotalsProofs

USE DEF Terminal

----------------------------------------------------------------------------
(* Types                                                                   *)

(* What an intent occupies is an integer. *)
LEMMA IntentTypes ==
  ASSUME NEW i \in Intents
  PROVE  Notional(i) \in Int /\ Margin(i) \in Int
<1>1. i \in [price : Int, quantity : Nat,
             estimated_notional : Int, estimated_margin : Int]
  BY IntentsAreRecords
<1>2. i.price * i.quantity \in Int
  BY <1>1
<1> QED
  BY <1>1, <1>2 DEF Notional, Margin

LEMMA TtlType ==
  ASSUME NEW ttl \in Ttls
  PROVE  TtlOf(ttl) \in Int
BY BoundsAreNaturals DEF TtlOf

LEMMA ReturnType ==
  ASSUME CallsTypeOK, NEW t \in Threads, NEW outcome, NEW orders,
         Return(t, outcome, orders)
  PROVE  CallsTypeOK'
<1>1. 0 \in 0..MaxClock
  BY BoundsAreNaturals
<1> QED
  BY <1>1 DEF CallsTypeOK, Return

LEMMA VacateType ==
  ASSUME BookTypeOK, NEW a \in Accounts, NEW o \in OrderIds, NEW s \in Terminal,
         Vacate(a, o, s), UNCHANGED <<ledgers, version, policy>>
  PROVE  BookTypeOK'
<1>1. reservations' \in [Accounts -> [OrderIds -> Reservations]]
  <2>1. ASSUME NEW r \in Reservations PROVE [r EXCEPT !.status = s] \in Reservations
    BY DEF Reservations
  <2> QED
    BY <2>1 DEF BookTypeOK, Vacate
<1>2. reservations[a][o].notional \in Int /\ reservations[a][o].margin \in Int
  BY DEF BookTypeOK, Reservations
<1>3. /\ reserved_notional' \in [Accounts -> Int]
      /\ reserved_margin' \in [Accounts -> Int]
  BY <1>2 DEF BookTypeOK, Vacate, Clamp
<1>4. reserved_open_orders' \in [Accounts -> Nat]
  BY DEF BookTypeOK, Vacate
<1> QED
  BY <1>1, <1>3, <1>4 DEF BookTypeOK

(* The request a thread serves under the lock names an account of the model. *)
LEMMA RequestFields ==
  ASSUME CallsTypeOK, NEW t \in Threads, pc[t] # "idle"
  PROVE  /\ req[t].account \in Accounts
         /\ req[t].op = "Reserve" =>
              /\ req[t].order \in OrderIds /\ req[t].intent \in Intents
              /\ req[t].ttl \in Ttls /\ req[t].version \in 0..MaxVersion
<1>1. req[t] \in Requests
  BY DEF CallsTypeOK
<1>2. CASE req[t] \in ReserveRequests
  BY <1>2 DEF ReserveRequests
<1>3. CASE req[t] \in QueryRequests
  BY <1>3 DEF QueryRequests
<1>4. CASE req[t] \in ListRequests
  BY <1>4 DEF ListRequests
<1> QED
  BY <1>1, <1>2, <1>3, <1>4 DEF Requests

LEMMA OccupyType ==
  ASSUME BookTypeOK, NEW a \in Accounts, NEW o \in OrderIds, NEW i \in Intents,
         NEW e \in Int, Occupy(a, o, i, e), UNCHANGED <<ledgers, version, policy>>
  PROVE  BookTypeOK'
<1>1. Notional(i) \in Int /\ Margin(i) \in Int
  BY IntentTypes
<1>2. reservations' \in [Accounts -> [OrderIds -> Reservations]]
  BY <1>1 DEF BookTypeOK, Occupy, Reservations
<1>3. /\ reserved_notional' \in [Accounts -> Int]
      /\ reserved_margin' \in [Accounts -> Int]
      /\ reserved_open_orders' \in [Accounts -> Nat]
  BY <1>1 DEF BookTypeOK, Occupy
<1> QED
  BY <1>2, <1>3 DEF BookTypeOK

(* The cleared book of a new process. *)
LEMMA EmptyBookType ==
  /\ DefaultPolicy \in Limits
  /\ Absent \in Reservations
  /\ 0 \in 0..MaxVersion /\ 0 \in 0..MaxClock /\ 0 \in 0..MaxRestarts
BY BoundsAreNaturals DEF DefaultPolicy, Limits, Absent, Reservations

LEMMA InitTypeOK == Init => TypeOK
BY EmptyBookType DEF Init, TypeOK, BookTypeOK, CallsTypeOK

(* A thread's own steps keep the types. *)
LEMMA ThreadStepType ==
  ASSUME TypeOK, NEW t \in Threads, ThreadStep(t)
  PROVE  TypeOK'
<1> USE DEF TypeOK
<1>u. ASSUME UNCHANGED book PROVE BookTypeOK'
  BY <1>u DEF book, counters, BookTypeOK
<1>1. CASE ReserveLock(t)
  <2>1. CallsTypeOK'
    BY <1>1 DEF ReserveLock, CallsTypeOK, Requests
  <2> QED
    BY <1>1, <1>u, <2>1 DEF ReserveLock
<1>2. CASE ReserveNoLedger(t)
  BY <1>2, <1>u, ReturnType DEF ReserveNoLedger
<1>3. CASE ReserveRefused(t)
  BY <1>3, <1>u, ReturnType DEF ReserveRefused
<1>4. CASE ReserveReplay(t)
  BY <1>4, <1>u, ReturnType DEF ReserveReplay
<1>5. CASE ReserveOverLimit(t)
  BY <1>5, <1>u, ReturnType DEF ReserveOverLimit
<1>6. CASE ReserveGrant(t)
  <2>1. pc[t] # "idle" /\ req[t].op = "Reserve"
    BY <1>6 DEF ReserveGrant, ReserveAdmissible, Swept
  <2>2. /\ req[t].account \in Accounts /\ req[t].order \in OrderIds
        /\ req[t].intent \in Intents /\ req[t].ttl \in Ttls
    BY <2>1, RequestFields
  <2>3. now[t] + TtlOf(req[t].ttl) \in Int
    BY <2>2, TtlType DEF CallsTypeOK
  <2>4. BookTypeOK'
    BY <1>6, <2>2, <2>3, OccupyType DEF ReserveGrant
  <2>5. CallsTypeOK'
    BY <1>6, ReturnType DEF ReserveGrant
  <2> QED
    BY <1>6, <2>4, <2>5 DEF ReserveGrant
<1>7. CASE \E o \in OrderIds : ExpireOne(t, o)
  <2>1. PICK o \in OrderIds : ExpireOne(t, o)
    BY <1>7
  <2>2. req[t].account \in Accounts
    BY <2>1, RequestFields DEF ExpireOne
  <2>3. BookTypeOK'
    BY <2>1, <2>2, VacateType DEF ExpireOne
  <2>4. CallsTypeOK'
    BY <2>1 DEF ExpireOne, calls, CallsTypeOK
  <2> QED
    BY <2>1, <2>3, <2>4 DEF ExpireOne
<1>8. CASE QueryReturn(t)
  BY <1>8, <1>u, ReturnType DEF QueryReturn
<1>9. CASE ListReturn(t)
  BY <1>9, <1>u, ReturnType DEF ListReturn
<1> QED
  BY <1>1, <1>2, <1>3, <1>4, <1>5, <1>6, <1>7, <1>8, <1>9
     DEF ThreadStep, ReserveStep

(* A client's call keeps the types. *)
LEMMA ClientCallType ==
  ASSUME TypeOK, NEW t \in Threads, ClientCall(t)
  PROVE  TypeOK'
<1> USE DEF TypeOK
<1>u. ASSUME UNCHANGED book PROVE BookTypeOK'
  BY <1>u DEF book, counters, BookTypeOK
<1>c. ASSUME UNCHANGED <<clock, restarts, calls>>
      PROVE  CallsTypeOK' /\ clock' = clock /\ restarts' = restarts
  BY <1>c DEF calls, CallsTypeOK
<1>1. CASE \E r \in ReserveRequests : ReserveArrive(t, r)
  <2>1. PICK r \in ReserveRequests : ReserveArrive(t, r)
    BY <1>1
  <2>2. CallsTypeOK'
    BY <2>1 DEF ReserveArrive, CallsTypeOK, Requests
  <2> QED
    BY <2>1, <2>2, <1>u DEF ReserveArrive
<1>2. CASE \E r \in QueryRequests \cup ListRequests : LockAndSweep(t, r)
  <2>1. PICK r \in QueryRequests \cup ListRequests : LockAndSweep(t, r)
    BY <1>2
  <2>2. CallsTypeOK'
    BY <2>1 DEF LockAndSweep, CallsTypeOK, Requests
  <2> QED
    BY <2>1, <2>2, <1>u DEF LockAndSweep
<1>3. CASE \E r \in QueryRequests : QueryNoLedger(t, r)
  BY <1>3, <1>u, <1>c DEF QueryNoLedger, ReturnAtOnce
<1>4. CASE \E r \in ListRequests : ListNoLedger(t, r)
  BY <1>4, <1>u, <1>c DEF ListNoLedger, ReturnAtOnce
<1>5. CASE \E a \in Accounts, o \in OrderIds :
             ReleaseNoLedger(t, a, o) \/ ReleaseNothing(t, a, o)
  BY <1>5, <1>u, <1>c DEF ReleaseNoLedger, ReleaseNothing, ReturnAtOnce
<1>6. CASE \E a \in Accounts, o \in OrderIds, settled \in BOOLEAN :
             ReleaseHeld(t, a, o, settled)
  <2>1. PICK a \in Accounts, o \in OrderIds, settled \in BOOLEAN :
               ReleaseHeld(t, a, o, settled)
    BY <1>6
  <2>2. BookTypeOK'
    BY <2>1, VacateType DEF ReleaseHeld
  <2> QED
    BY <2>1, <2>2, <1>c DEF ReleaseHeld, ReturnAtOnce
<1>7. CASE \E a \in Accounts, v \in 1..MaxVersion : UpsertStale(t, a, v)
  BY <1>7, <1>u, <1>c DEF UpsertStale, ReturnAtOnce
<1>8. CASE \E a \in Accounts, v \in 1..MaxVersion, p \in Policies :
             UpsertPolicy(t, a, v, p)
  <2>1. PICK a \in Accounts, v \in 1..MaxVersion, p \in Policies :
               UpsertPolicy(t, a, v, p)
    BY <1>8
  <2>2. p \in Limits /\ v \in 0..MaxVersion
    BY PoliciesAreLimits, BoundsAreNaturals
  <2>3. BookTypeOK'
    BY <2>1, <2>2 DEF UpsertPolicy, BookTypeOK, counters
  <2> QED
    BY <2>1, <2>3, <1>c DEF UpsertPolicy, ReturnAtOnce
<1>9. CASE \E a \in Accounts : GetAccountRiskPolicy(t, a)
  BY <1>9, <1>u, <1>c DEF GetAccountRiskPolicy, ReturnAtOnce
<1>10. CASE \E op \in {"Reserve", "Query", "Release", "Upsert"} : InvalidArgument(t, op)
  BY <1>10, <1>u, <1>c DEF InvalidArgument, ReturnAtOnce
<1> QED
  BY <1>1, <1>2, <1>3, <1>4, <1>5, <1>6, <1>7, <1>8, <1>9, <1>10 DEF ClientCall

LEMMA NextTypeOK == TypeOK /\ [Next]_vars => TypeOK'
<1> SUFFICES ASSUME TypeOK, [Next]_vars PROVE TypeOK'
  OBVIOUS
<1>1. ASSUME NEW t \in Threads, ThreadStep(t) \/ ClientCall(t) PROVE TypeOK'
  BY <1>1, ThreadStepType, ClientCallType
<1>2. CASE Tick
  BY <1>2, BoundsAreNaturals DEF Tick, TypeOK, BookTypeOK, CallsTypeOK, book, counters, calls
<1>3. CASE Restart
  BY <1>3, EmptyBookType, BoundsAreNaturals DEF Restart, TypeOK, BookTypeOK, CallsTypeOK
<1>4. CASE UNCHANGED vars
  BY <1>4 DEF vars, book, counters, calls, TypeOK, BookTypeOK, CallsTypeOK
<1> QED
  BY <1>1, <1>2, <1>3, <1>4 DEF Next

(* Every variable of the ledger keeps its type; the counter of open orders *)
(* stays natural and every sweeping thread has a request.                  *)
THEOREM TypeCorrect == Spec => []TypeOK
<1>1. Init => TypeOK
  BY InitTypeOK
<1>2. TypeOK /\ [Next]_vars => TypeOK'
  BY NextTypeOK
<1> QED
  BY <1>1, <1>2, PTL DEF Spec

----------------------------------------------------------------------------
(* The counters are the totals                                             *)

(* A record that is not there occupies nothing. *)
AbsentIsBlank ==
  \A a \in Accounts, o \in OrderIds :
    reservations[a][o].status = "absent" => reservations[a][o] = Absent

(* No handler works with a time that has not come yet. *)
ReadingsArePast == \A t \in Threads : now[t] <= clock

LedgerInv == TypeOK /\ ReadingsArePast /\ AbsentIsBlank /\ Balanced

(* Finitely many orders hold quota; their amounts are integers. *)
LEMMA HeldFinite ==
  ASSUME NEW a \in Accounts
  PROVE  IsFiniteSet(Held(a))
BY OrderIdsFinite, FS_Subset DEF Held

LEMMA AmountTypes ==
  ASSUME BookTypeOK, NEW a \in Accounts
  PROVE  /\ \A o \in OrderIds : NotionalOf(a)[o] \in Int /\ MarginOf(a)[o] \in Int
         /\ \A o \in OrderIds : NotionalOf(a)[o] = reservations[a][o].notional
         /\ \A o \in OrderIds : MarginOf(a)[o] = reservations[a][o].margin
<1>1. \A o \in OrderIds : /\ reservations[a][o].notional \in Int
                          /\ reservations[a][o].margin \in Int
  BY DEF BookTypeOK, Reservations
<1> QED
  BY <1>1 DEF NotionalOf, MarginOf

(* A counter that covers its total still does when an order has been taken *)
(* off both, although the counter is clamped at zero: it is clamped only   *)
(* upwards, and not at all while no amount is negative.                    *)
LEMMA CoversOneLess ==
  ASSUME NEW S \in SUBSET OrderIds, NEW o \in S, NEW c \in Int, NEW amount,
         \A x \in OrderIds : amount[x] \in Int,
         Covers(c, S, amount)
  PROVE  Covers(Clamp(c - amount[o]), S \ {o}, amount)
<1> DEFINE T == Total(S, amount)
           U == Total(S \ {o}, amount)
<1>1. IsFiniteSet(S) /\ IsFiniteSet(S \ {o})
  BY OrderIdsFinite, FS_Subset, FS_RemoveElement
<1>2. U = T - amount[o] /\ T \in Int /\ U \in Int /\ amount[o] \in Int
  BY <1>1, TotalWithOneLess, TotalType
<1>3. (\A x \in OrderIds : amount[x] >= 0) => U \in Nat
  BY <1>1, TotalNotNegative
<1>4. c >= T /\ ((\A x \in OrderIds : amount[x] >= 0) => c = T)
  BY DEF Covers
<1> HIDE DEF T, U
<1>5. Clamp(c - amount[o]) >= U
  BY <1>2, <1>4 DEF Clamp
<1>6. (\A x \in OrderIds : amount[x] >= 0) => Clamp(c - amount[o]) = U
  BY <1>2, <1>3, <1>4 DEF Clamp
<1> QED
  BY <1>5, <1>6 DEF Covers, U

(* It still does when an order without an amount so far joins both. *)
LEMMA CoversOneMore ==
  ASSUME NEW S \in SUBSET OrderIds, NEW o \in OrderIds \ S, NEW c \in Int,
         NEW amount, NEW amount2, NEW x \in Int,
         \A y \in OrderIds : amount[y] \in Int,
         amount[o] = 0, amount2[o] = x,
         \A y \in OrderIds \ {o} : amount2[y] = amount[y],
         Covers(c, S, amount)
  PROVE  Covers(c + x, S \cup {o}, amount2)
<1> DEFINE T == Total(S, amount)
           U == Total(S \cup {o}, amount2)
<1>1. IsFiniteSet(S)
  BY OrderIdsFinite, FS_Subset
<1>2. \A y \in S \cup {o} : amount2[y] \in Int
  OBVIOUS
<1>3. U = Total(S, amount2) + x
  BY <1>1, <1>2, TotalWithOneMore
<1>4. Total(S, amount2) = T
  BY TotalOfSame
<1>5. T \in Int
  BY <1>1, TotalType
<1>6. (\A y \in OrderIds : amount2[y] >= 0) => (\A y \in OrderIds : amount[y] >= 0)
  OBVIOUS
<1>7. c >= T /\ ((\A y \in OrderIds : amount[y] >= 0) => c = T)
  BY DEF Covers
<1>8. U = T + x
  BY <1>3, <1>4
<1> HIDE DEF T, U
<1>9. c + x >= U
  BY <1>5, <1>7, <1>8
<1>10. (\A y \in OrderIds : amount2[y] >= 0) => c + x = U
  BY <1>5, <1>6, <1>7, <1>8
<1> QED
  BY <1>9, <1>10 DEF Covers, U

(* What Vacate does to the holders and their amounts. *)
LEMMA VacateHolders ==
  ASSUME BookTypeOK, NEW a \in Accounts, NEW o \in OrderIds, NEW s \in Terminal,
         Vacate(a, o, s)
  PROVE  /\ Held(a)' = Held(a) \ {o}
         /\ NotionalOf(a)' = NotionalOf(a) /\ MarginOf(a)' = MarginOf(a)
         /\ \A b \in Accounts \ {a} : reservations'[b] = reservations[b]
         /\ \A x \in OrderIds \ {o} : reservations'[a][x] = reservations[a][x]
<1>1. reservations' = [reservations EXCEPT ![a][o].status = s]
  BY DEF Vacate
<1>2. /\ \A b \in Accounts \ {a} : reservations'[b] = reservations[b]
      /\ \A x \in OrderIds \ {o} : reservations'[a][x] = reservations[a][x]
      /\ reservations'[a][o] = [reservations[a][o] EXCEPT !.status = s]
  BY <1>1 DEF BookTypeOK
<1>3. ASSUME NEW r \in Reservations
      PROVE  LET q == [r EXCEPT !.status = s]
             IN  q.status = s /\ q.notional = r.notional /\ q.margin = r.margin
  BY DEF Reservations
<1>4. reservations[a][o] \in Reservations
  BY DEF BookTypeOK
<1>5. /\ reservations'[a][o].status = s
      /\ reservations'[a][o].notional = reservations[a][o].notional
      /\ reservations'[a][o].margin = reservations[a][o].margin
  BY <1>2, <1>3, <1>4
<1>6. Held(a)' = Held(a) \ {o}
  BY <1>2, <1>5 DEF Held
<1>7. \A x \in OrderIds :
        /\ reservations'[a][x].notional = reservations[a][x].notional
        /\ reservations'[a][x].margin = reservations[a][x].margin
  BY <1>2, <1>5
<1>8. NotionalOf(a)' = NotionalOf(a) /\ MarginOf(a)' = MarginOf(a)
  BY <1>7 DEF NotionalOf, MarginOf
<1> QED
  BY <1>2, <1>6, <1>8

(* An account whose reservations and counters do not change stays balanced. *)
BalancedAt(a) ==
  /\ Covers(reserved_notional[a], Held(a), NotionalOf(a))
  /\ Covers(reserved_margin[a], Held(a), MarginOf(a))
  /\ reserved_open_orders[a] = Cardinality(Held(a))

LEMMA UntouchedBalance ==
  ASSUME NEW b \in Accounts, BalancedAt(b),
         reservations'[b] = reservations[b],
         reserved_notional'[b] = reserved_notional[b],
         reserved_margin'[b] = reserved_margin[b],
         reserved_open_orders'[b] = reserved_open_orders[b]
  PROVE  BalancedAt(b)'
<1>1. /\ Held(b)' = Held(b)
      /\ NotionalOf(b)' = NotionalOf(b) /\ MarginOf(b)' = MarginOf(b)
  BY DEF Held, NotionalOf, MarginOf
<1> QED
  BY <1>1 DEF BalancedAt

(* Giving quota back keeps the balance. *)
LEMMA VacateBalance ==
  ASSUME LedgerInv, NEW a \in Accounts, NEW o \in Held(a), NEW s \in Terminal,
         Vacate(a, o, s)
  PROVE  Balanced'
<1> USE DEF LedgerInv, TypeOK
<1>0. o \in OrderIds /\ Held(a) \in SUBSET OrderIds
  BY DEF Held
<1>1. /\ Held(a)' = Held(a) \ {o}
      /\ NotionalOf(a)' = NotionalOf(a) /\ MarginOf(a)' = MarginOf(a)
      /\ \A b \in Accounts \ {a} : reservations'[b] = reservations[b]
  BY <1>0, VacateHolders
<1>2. /\ Cardinality(Held(a) \ {o}) = Cardinality(Held(a)) - 1
      /\ Cardinality(Held(a)) \in Nat /\ Cardinality(Held(a) \ {o}) \in Nat
  BY HeldFinite, FS_RemoveElement, FS_CardinalityType
<1>3. BalancedAt(a)
  BY DEF Balanced, BalancedAt
<1>4. /\ reserved_notional'[a] = Clamp(reserved_notional[a] - NotionalOf(a)[o])
      /\ reserved_margin'[a] = Clamp(reserved_margin[a] - MarginOf(a)[o])
      /\ reserved_open_orders'[a] = IF reserved_open_orders[a] > 0
                                    THEN reserved_open_orders[a] - 1
                                    ELSE reserved_open_orders[a]
  BY <1>0, AmountTypes DEF Vacate, BookTypeOK
<1>5. reserved_notional[a] \in Int /\ reserved_margin[a] \in Int
  BY DEF BookTypeOK
<1>6. Covers(reserved_notional'[a], Held(a) \ {o}, NotionalOf(a))
  BY <1>0, <1>3, <1>4, <1>5, AmountTypes, CoversOneLess DEF BalancedAt
<1>7. Covers(reserved_margin'[a], Held(a) \ {o}, MarginOf(a))
  BY <1>0, <1>3, <1>4, <1>5, AmountTypes, CoversOneLess DEF BalancedAt
<1>8. reserved_open_orders'[a] = Cardinality(Held(a) \ {o})
  BY <1>2, <1>3, <1>4 DEF BalancedAt
<1>9. BalancedAt(a)'
  BY <1>1, <1>6, <1>7, <1>8 DEF BalancedAt, Covers
<1>10. ASSUME NEW b \in Accounts \ {a} PROVE BalancedAt(b)'
  <2>1. BalancedAt(b)
    BY DEF Balanced, BalancedAt
  <2>2. /\ reserved_notional'[b] = reserved_notional[b]
        /\ reserved_margin'[b] = reserved_margin[b]
        /\ reserved_open_orders'[b] = reserved_open_orders[b]
    BY DEF Vacate, BookTypeOK
  <2> QED
    BY <1>1, <2>1, <2>2, UntouchedBalance
<1> QED
  BY <1>9, <1>10 DEF Balanced, BalancedAt

(* What Occupy does to the holders and their amounts. *)
LEMMA OccupyHolders ==
  ASSUME BookTypeOK, NEW a \in Accounts, NEW o \in OrderIds, NEW i \in Intents,
         NEW e \in Int, Occupy(a, o, i, e)
  PROVE  /\ Held(a)' = Held(a) \cup {o}
         /\ NotionalOf(a)'[o] = Notional(i) /\ MarginOf(a)'[o] = Margin(i)
         /\ \A x \in OrderIds \ {o} : /\ NotionalOf(a)'[x] = NotionalOf(a)[x]
                                     /\ MarginOf(a)'[x] = MarginOf(a)[x]
         /\ \A b \in Accounts \ {a} : reservations'[b] = reservations[b]
         /\ \A x \in OrderIds \ {o} : reservations'[a][x] = reservations[a][x]
<1> DEFINE r == [status |-> "reserved", notional |-> Notional(i),
                 margin |-> Margin(i), expires_at |-> e]
<1>1. reservations' = [reservations EXCEPT ![a][o] = r]
  BY DEF Occupy
<1>2. /\ r.status = "reserved"
      /\ r.notional = Notional(i) /\ r.margin = Margin(i)
  OBVIOUS
<1> HIDE DEF r
<1>3. /\ \A b \in Accounts \ {a} : reservations'[b] = reservations[b]
      /\ \A x \in OrderIds \ {o} : reservations'[a][x] = reservations[a][x]
      /\ reservations'[a][o] = r
  BY <1>1 DEF BookTypeOK
<1>4. Held(a)' = Held(a) \cup {o}
  BY <1>2, <1>3 DEF Held
<1>5. /\ NotionalOf(a)'[o] = Notional(i) /\ MarginOf(a)'[o] = Margin(i)
      /\ \A x \in OrderIds \ {o} : /\ NotionalOf(a)'[x] = NotionalOf(a)[x]
                                  /\ MarginOf(a)'[x] = MarginOf(a)[x]
  BY <1>2, <1>3 DEF NotionalOf, MarginOf
<1> QED
  BY <1>3, <1>4, <1>5

(* Granting quota to an order without a record keeps the balance. *)
LEMMA OccupyBalance ==
  ASSUME LedgerInv,
         NEW a \in Accounts, NEW o \in OrderIds \ Held(a), NEW i \in Intents,
         NEW e \in Int, Occupy(a, o, i, e), reservations[a][o] = Absent
  PROVE  Balanced'
<1> USE DEF LedgerInv, TypeOK
<1>1. /\ Held(a)' = Held(a) \cup {o}
      /\ NotionalOf(a)'[o] = Notional(i) /\ MarginOf(a)'[o] = Margin(i)
      /\ \A x \in OrderIds \ {o} : /\ NotionalOf(a)'[x] = NotionalOf(a)[x]
                                  /\ MarginOf(a)'[x] = MarginOf(a)[x]
      /\ \A b \in Accounts \ {a} : reservations'[b] = reservations[b]
  BY OccupyHolders
<1>2. Notional(i) \in Int /\ Margin(i) \in Int
  BY IntentTypes
<1>3. NotionalOf(a)[o] = 0 /\ MarginOf(a)[o] = 0
  BY DEF Absent, NotionalOf, MarginOf
<1>4. BalancedAt(a)
  BY DEF Balanced, BalancedAt
<1>5. /\ reserved_notional'[a] = reserved_notional[a] + Notional(i)
      /\ reserved_margin'[a] = reserved_margin[a] + Margin(i)
      /\ reserved_open_orders'[a] = reserved_open_orders[a] + 1
      /\ reserved_notional[a] \in Int /\ reserved_margin[a] \in Int
  BY DEF Occupy, BookTypeOK
<1>6. Held(a) \in SUBSET OrderIds
  BY DEF Held
<1>7. Covers(reserved_notional'[a], Held(a) \cup {o}, NotionalOf(a)')
  <2>1. Covers(reserved_notional[a] + Notional(i), Held(a) \cup {o}, NotionalOf(a)')
    BY <1>1, <1>2, <1>3, <1>4, <1>5, <1>6, AmountTypes, CoversOneMore DEF BalancedAt
  <2> QED
    BY <1>5, <2>1
<1>8. Covers(reserved_margin'[a], Held(a) \cup {o}, MarginOf(a)')
  <2>1. Covers(reserved_margin[a] + Margin(i), Held(a) \cup {o}, MarginOf(a)')
    BY <1>1, <1>2, <1>3, <1>4, <1>5, <1>6, AmountTypes, CoversOneMore DEF BalancedAt
  <2> QED
    BY <1>5, <2>1
<1>9. Cardinality(Held(a) \cup {o}) = Cardinality(Held(a)) + 1
  BY HeldFinite, FS_AddElement
<1>10. BalancedAt(a)'
  BY <1>1, <1>4, <1>5, <1>7, <1>8, <1>9 DEF BalancedAt, Covers
<1>11. ASSUME NEW b \in Accounts \ {a} PROVE BalancedAt(b)'
  <2>1. BalancedAt(b)
    BY DEF Balanced, BalancedAt
  <2>2. /\ reserved_notional'[b] = reserved_notional[b]
        /\ reserved_margin'[b] = reserved_margin[b]
        /\ reserved_open_orders'[b] = reserved_open_orders[b]
    BY DEF Occupy, BookTypeOK
  <2> QED
    BY <1>1, <2>1, <2>2, UntouchedBalance
<1> QED
  BY <1>10, <1>11 DEF Balanced, BalancedAt

----------------------------------------------------------------------------
(* The four things a step can do to the ledgers                            *)

Quiet == UNCHANGED <<reservations, counters, restarts>>

Grants ==
  \E t \in Threads :
    /\ ReserveGrant(t)
    /\ req[t].account \in Accounts /\ req[t].order \in OrderIds
    /\ req[t].intent \in Intents /\ req[t].ttl \in Ttls
    /\ now[t] + TtlOf(req[t].ttl) \in Int

Vacates ==
  \E a \in Accounts, s \in Terminal : \E o \in Held(a) :
    /\ Vacate(a, o, s)
    /\ UNCHANGED <<version, policy, restarts, clock>>
    /\ s = "expired" => \E t \in Threads : o \in Due(a, now[t])

LEMMA StepKinds ==
  ASSUME TypeOK, [Next]_vars
  PROVE  Quiet \/ Grants \/ Vacates \/ Restart
<1> USE DEF TypeOK
<1>1. CASE \E t \in Threads : ThreadStep(t)
  <2>1. PICK t \in Threads : ThreadStep(t)
    BY <1>1
  <2>2. CASE \/ ReserveLock(t) \/ ReserveNoLedger(t) \/ ReserveRefused(t)
             \/ ReserveReplay(t) \/ ReserveOverLimit(t) \/ QueryReturn(t)
             \/ ListReturn(t)
    BY <2>2 DEF ReserveLock, ReserveNoLedger, ReserveRefused, ReserveReplay,
                ReserveOverLimit, QueryReturn, ListReturn, book, Quiet
  <2>3. CASE ReserveGrant(t)
    <3>1. pc[t] # "idle" /\ req[t].op = "Reserve"
      BY <2>3 DEF ReserveGrant, ReserveAdmissible, Swept
    <3>2. /\ req[t].account \in Accounts /\ req[t].order \in OrderIds
          /\ req[t].intent \in Intents /\ req[t].ttl \in Ttls
      BY <3>1, RequestFields
    <3>3. now[t] + TtlOf(req[t].ttl) \in Int
      BY <3>2, TtlType DEF CallsTypeOK
    <3> QED
      BY <2>3, <3>2, <3>3 DEF Grants
  <2>4. CASE \E o \in OrderIds : ExpireOne(t, o)
    <3>1. PICK o \in OrderIds : ExpireOne(t, o)
      BY <2>4
    <3>2. req[t].account \in Accounts
      BY <3>1, RequestFields DEF ExpireOne
    <3>3. o \in Held(req[t].account) /\ o \in Due(req[t].account, now[t])
      BY <3>1 DEF ExpireOne, Due
    <3> QED
      BY <3>1, <3>2, <3>3 DEF ExpireOne, Vacates
  <2> QED
    BY <2>1, <2>2, <2>3, <2>4 DEF ThreadStep, ReserveStep
<1>2. CASE \E t \in Threads : ClientCall(t)
  <2>1. PICK t \in Threads : ClientCall(t)
    BY <1>2
  <2>2. CASE \E a \in Accounts, o \in OrderIds, settled \in BOOLEAN :
               ReleaseHeld(t, a, o, settled)
    <3>1. PICK a \in Accounts, o \in OrderIds, settled \in BOOLEAN :
                 ReleaseHeld(t, a, o, settled)
      BY <2>2
    <3> DEFINE s == IF settled THEN "settled" ELSE "released"
    <3>2. s \in Terminal /\ s # "expired"
      OBVIOUS
    <3>3. /\ Vacate(a, o, s) /\ o \in Held(a)
          /\ UNCHANGED <<version, policy, restarts, clock>>
      BY <3>1 DEF ReleaseHeld, ReturnAtOnce
    <3> HIDE DEF s
    <3> QED
      BY <3>2, <3>3 DEF Vacates
  <2>3. CASE ~ \E a \in Accounts, o \in OrderIds, settled \in BOOLEAN :
                 ReleaseHeld(t, a, o, settled)
    BY <2>1, <2>3
       DEF ClientCall, ReserveArrive, LockAndSweep, QueryNoLedger, ListNoLedger,
           ReleaseNoLedger, ReleaseNothing, UpsertStale, UpsertPolicy,
           GetAccountRiskPolicy, InvalidArgument, ReturnAtOnce, book, Quiet
  <2> QED
    BY <2>2, <2>3
<1>3. CASE Tick \/ UNCHANGED vars
  BY <1>3 DEF Tick, vars, book, Quiet
<1> QED
  BY <1>1, <1>2, <1>3 DEF Next

(* A grant takes an order without a record, on a policy that had not       *)
(* lapsed at the handler's reading of the clock.                           *)
GrantedAt(a, o, i, n, d) ==
  /\ Occupy(a, o, i, n + d)
  /\ reservations[a][o].status = "absent"
  /\ PolicyInForce(policy[a], n)
  /\ ~OverLimit(a, i)
  /\ UNCHANGED <<version, policy, restarts, clock>>

LEMMA GrantIsTimely ==
  ASSUME TypeOK, ReadingsArePast, Grants
  PROVE  \E a \in Accounts, n \in 0..clock, ttl \in Ttls :
         \E o \in OrderIds \ Held(a), i \in Intents : GrantedAt(a, o, i, n, TtlOf(ttl))
<1>1. PICK t \in Threads :
        /\ ReserveGrant(t)
        /\ req[t].account \in Accounts /\ req[t].order \in OrderIds
        /\ req[t].intent \in Intents /\ req[t].ttl \in Ttls
        /\ now[t] + TtlOf(req[t].ttl) \in Int
  BY DEF Grants
<1> DEFINE a == req[t].account
           o == req[t].order
<1>2. reservations[a][o].status = "absent"
  BY <1>1 DEF ReserveGrant, Known
<1>3. o \notin Held(a)
  BY <1>2 DEF Held
<1>4. PolicyInForce(policy[a], now[t])
  BY <1>1 DEF ReserveGrant, ReserveAdmissible
<1>5. now[t] \in 0..clock
  BY BoundsAreNaturals DEF TypeOK, CallsTypeOK, ReadingsArePast
<1>6. GrantedAt(a, o, req[t].intent, now[t], TtlOf(req[t].ttl))
  BY <1>1, <1>2, <1>4 DEF ReserveGrant, GrantedAt
<1> QED
  BY <1>1, <1>3, <1>5, <1>6

LEMMA GrantOccupies ==
  ASSUME TypeOK, Grants
  PROVE  \E a \in Accounts : \E o \in OrderIds \ Held(a), i \in Intents, e \in Int :
           /\ Occupy(a, o, i, e)
           /\ reservations[a][o].status = "absent"
<1>1. PICK t \in Threads :
        /\ ReserveGrant(t)
        /\ req[t].account \in Accounts /\ req[t].order \in OrderIds
        /\ req[t].intent \in Intents /\ now[t] + TtlOf(req[t].ttl) \in Int
  BY DEF Grants
<1>2. reservations[req[t].account][req[t].order].status = "absent"
  BY <1>1 DEF ReserveGrant, Known
<1>3. req[t].order \notin Held(req[t].account)
  BY <1>2 DEF Held
<1> QED
  BY <1>1, <1>2, <1>3 DEF ReserveGrant

LEMMA NextAbsentIsBlank ==
  ASSUME TypeOK, AbsentIsBlank, [Next]_vars
  PROVE  AbsentIsBlank'
<1>1. CASE Quiet
  BY <1>1 DEF Quiet, AbsentIsBlank
<1>2. CASE Grants
  <2>1. PICK b \in Accounts : \E x \in OrderIds \ Held(b), i \in Intents, e \in Int :
             Occupy(b, x, i, e)
    BY <1>2, GrantOccupies
  <2>2. PICK x \in OrderIds \ Held(b), i \in Intents, e \in Int : Occupy(b, x, i, e)
    BY <2>1
  <2>3. reservations'[b][x].status = "reserved"
    BY <2>2 DEF Occupy, TypeOK, BookTypeOK
  <2>4. ASSUME NEW a \in Accounts, NEW o \in OrderIds, ~(a = b /\ o = x)
        PROVE  reservations'[a][o] = reservations[a][o]
    BY <2>2, <2>4, OccupyHolders DEF TypeOK
  <2> QED
    BY <2>3, <2>4 DEF AbsentIsBlank
<1>3. CASE Vacates
  <2>1. PICK b \in Accounts, s \in Terminal : \E x \in Held(b) : Vacate(b, x, s)
    BY <1>3 DEF Vacates
  <2>2. PICK x \in Held(b) : Vacate(b, x, s)
    BY <2>1
  <2>3. x \in OrderIds
    BY DEF Held
  <2>4. reservations'[b][x].status = s
    <3>1. reservations' = [reservations EXCEPT ![b][x].status = s]
      BY <2>2 DEF Vacate
    <3> QED
      BY <2>3, <3>1 DEF TypeOK, BookTypeOK, Reservations
  <2>5. ASSUME NEW a \in Accounts, NEW o \in OrderIds, ~(a = b /\ o = x)
        PROVE  reservations'[a][o] = reservations[a][o]
    BY <2>2, <2>3, <2>5, VacateHolders DEF TypeOK
  <2> QED
    BY <2>4, <2>5 DEF AbsentIsBlank
<1>4. CASE Restart
  BY <1>4 DEF Restart, AbsentIsBlank
<1> QED
  BY <1>1, <1>2, <1>3, <1>4, StepKinds

LEMMA NextReadingsArePast ==
  ASSUME TypeOK, ReadingsArePast, [Next]_vars
  PROVE  ReadingsArePast'
<1> USE DEF TypeOK, CallsTypeOK, ReadingsArePast
<1>0. clock \in Int /\ 0 <= clock
  BY BoundsAreNaturals
<1>1. CASE \E t \in Threads : ThreadStep(t)
  <2>1. PICK t \in Threads : ThreadStep(t)
    BY <1>1
  <2>2. clock' = clock /\ (now' = now \/ now' = [now EXCEPT ![t] = 0])
    BY <2>1
       DEF ThreadStep, ReserveStep, ReserveLock, ReserveNoLedger, ReserveRefused,
           ReserveReplay, ReserveOverLimit, ReserveGrant, QueryReturn, ListReturn,
           ExpireOne, Return, calls
  <2> QED
    BY <1>0, <2>2
<1>2. CASE \E t \in Threads : ClientCall(t)
  <2>1. PICK t \in Threads : ClientCall(t)
    BY <1>2
  <2>2. clock' = clock /\ (now' = now \/ now' = [now EXCEPT ![t] = clock])
    BY <2>1
       DEF ClientCall, ReserveArrive, LockAndSweep, QueryNoLedger, ListNoLedger,
           ReleaseNoLedger, ReleaseNothing, ReleaseHeld, UpsertStale, UpsertPolicy,
           GetAccountRiskPolicy, InvalidArgument, ReturnAtOnce, calls
  <2> QED
    BY <1>0, <2>2
<1>3. CASE Tick
  <2>1. clock' = clock + 1 /\ now' = now
    BY <1>3 DEF Tick, calls
  <2>2. \A t \in Threads : now[t] \in Int
    BY BoundsAreNaturals
  <2> QED
    BY <1>0, <2>1, <2>2
<1>4. CASE Restart
  BY <1>0, <1>4 DEF Restart
<1>5. CASE UNCHANGED vars
  BY <1>5 DEF vars, calls
<1> QED
  BY <1>1, <1>2, <1>3, <1>4, <1>5 DEF Next

LEMMA EmptyIsBalanced ==
  ASSUME \A a \in Accounts : Held(a) = {},
         \A a \in Accounts : /\ reserved_notional[a] = 0 /\ reserved_margin[a] = 0
                             /\ reserved_open_orders[a] = 0
  PROVE  Balanced
BY TotalOfNone, FS_EmptySet DEF Balanced, Covers

LEMMA NextBalanced ==
  ASSUME LedgerInv, [Next]_vars
  PROVE  Balanced'
<1>1. CASE Quiet
  <2>1. \A a \in Accounts : BalancedAt(a)
    BY DEF LedgerInv, Balanced, BalancedAt
  <2>2. \A a \in Accounts : BalancedAt(a)'
    BY <1>1, <2>1, UntouchedBalance DEF Quiet, counters
  <2> QED
    BY <2>2 DEF Balanced, BalancedAt
<1>2. CASE Grants
  <2>1. PICK a \in Accounts : \E o \in OrderIds \ Held(a), i \in Intents, e \in Int :
             Occupy(a, o, i, e) /\ reservations[a][o].status = "absent"
    BY <1>2, GrantOccupies DEF LedgerInv
  <2>2. PICK o \in OrderIds \ Held(a), i \in Intents, e \in Int :
             Occupy(a, o, i, e) /\ reservations[a][o].status = "absent"
    BY <2>1
  <2>3. reservations[a][o] = Absent
    BY <2>2 DEF LedgerInv, AbsentIsBlank
  <2> QED
    BY <2>2, <2>3, OccupyBalance
<1>3. CASE Vacates
  BY <1>3, VacateBalance DEF Vacates
<1>4. CASE Restart
  <2>1. \A a \in Accounts : Held(a)' = {}
    BY <1>4 DEF Restart, Held, Absent
  <2>2. \A a \in Accounts :
          /\ reserved_notional'[a] = 0 /\ reserved_margin'[a] = 0
          /\ reserved_open_orders'[a] = 0
    BY <1>4 DEF Restart
  <2> QED
    BY <2>1, <2>2, TotalOfNone, FS_EmptySet DEF Balanced, Covers
<1> QED
  BY <1>1, <1>2, <1>3, <1>4, StepKinds DEF LedgerInv

LEMMA NextLedgerInv ==
  ASSUME LedgerInv, [Next]_vars
  PROVE  LedgerInv'
BY NextTypeOK, NextReadingsArePast, NextAbsentIsBlank, NextBalanced DEF LedgerInv

LEMMA InvariantHolds == Spec => []LedgerInv
<1>1. Init => LedgerInv
  <2> SUFFICES ASSUME Init PROVE LedgerInv
    OBVIOUS
  <2>1. \A a \in Accounts : Held(a) = {}
    BY DEF Init, Held, Absent
  <2>2. Balanced
    BY <2>1, EmptyIsBalanced DEF Init
  <2>3. AbsentIsBlank /\ ReadingsArePast
    BY DEF Init, AbsentIsBlank, ReadingsArePast
  <2> QED
    BY <2>2, <2>3, InitTypeOK DEF LedgerInv
<1>2. LedgerInv /\ [Next]_vars => LedgerInv'
  BY NextLedgerInv
<1> QED
  BY <1>1, <1>2, PTL DEF Spec

(* Whatever threads, sweeps and releases interleave, the order counter of  *)
(* every ledger is the number of its reserved orders, and its two sums     *)
(* never fall short of the totals over them; they are these totals while   *)
(* the account has no record of a negative amount.                         *)
THEOREM CountersAreTotals == Spec => []Balanced
<1>1. LedgerInv => Balanced
  BY DEF LedgerInv
<1> QED
  BY <1>1, InvariantHolds, PTL

----------------------------------------------------------------------------
(* Limits, ends of orders, and the abstract promise                        *)

LEMMA NextAmountTypes ==
  ASSUME BookTypeOK', NEW a \in Accounts
  PROVE  \A o \in OrderIds : NotionalOf(a)'[o] \in Int /\ MarginOf(a)'[o] \in Int
<1>1. \A o \in OrderIds : /\ reservations'[a][o].notional \in Int
                          /\ reservations'[a][o].margin \in Int
  BY DEF BookTypeOK, Reservations
<1> QED
  BY <1>1 DEF NotionalOf, MarginOf

(* What the account has reserved after a grant fits its policy. *)
LEMMA GrantFits ==
  ASSUME LedgerInv, LedgerInv', NEW a \in Accounts, NEW o \in OrderIds,
         NEW i \in Intents, NEW e \in Int, Occupy(a, o, i, e), ~OverLimit(a, i),
         UNCHANGED policy
  PROVE  LET p == policy[a] IN
         /\ WithinLimit(p.max_notional, p.safety_buffer, Total(Held(a), NotionalOf(a))')
         /\ WithinLimit(p.max_margin, p.safety_buffer, Total(Held(a), MarginOf(a))')
         /\ p.max_open_orders > 0 => Cardinality(Held(a)') <= p.max_open_orders
<1>1. /\ reserved_notional'[a] = reserved_notional[a] + Notional(i)
      /\ reserved_margin'[a] = reserved_margin[a] + Margin(i)
      /\ reserved_open_orders'[a] = reserved_open_orders[a] + 1
  BY DEF Occupy, LedgerInv, TypeOK, BookTypeOK
<1>2. /\ reserved_notional'[a] >= Total(Held(a), NotionalOf(a))'
      /\ reserved_margin'[a] >= Total(Held(a), MarginOf(a))'
      /\ reserved_open_orders'[a] = Cardinality(Held(a)')
  BY DEF LedgerInv, Balanced, Covers
<1>3. /\ policy[a].max_notional \in Int /\ policy[a].max_margin \in Int
      /\ policy[a].safety_buffer \in Int /\ policy[a].max_open_orders \in Nat
  BY DEF LedgerInv, TypeOK, BookTypeOK, Limits
<1>4. /\ reserved_notional'[a] \in Int /\ reserved_margin'[a] \in Int
      /\ reserved_open_orders'[a] \in Nat
  BY DEF LedgerInv, TypeOK, BookTypeOK
<1>5. ~NotionalExceeded(a, i) /\ ~MarginExceeded(a, i) /\ ~OrdersExceeded(a)
  BY DEF OverLimit
<1>6. WithinLimit(policy[a].max_notional, policy[a].safety_buffer, reserved_notional'[a])
  BY <1>1, <1>3, <1>4, <1>5 DEF WithinLimit, NotionalExceeded
<1>7. WithinLimit(policy[a].max_margin, policy[a].safety_buffer, reserved_margin'[a])
  BY <1>1, <1>3, <1>4, <1>5 DEF WithinLimit, MarginExceeded
<1>8. policy[a].max_open_orders > 0 => reserved_open_orders'[a] <= policy[a].max_open_orders
  BY <1>1, <1>3, <1>4, <1>5 DEF OrdersExceeded
<1>9. Total(Held(a), NotionalOf(a))' \in Int /\ Total(Held(a), MarginOf(a))' \in Int
  <2>1. \A x \in OrderIds : NotionalOf(a)'[x] \in Int /\ MarginOf(a)'[x] \in Int
    BY NextAmountTypes DEF LedgerInv, TypeOK
  <2>2. Held(a)' \subseteq OrderIds /\ IsFiniteSet(Held(a)')
    BY OrderIdsFinite, FS_Subset DEF Held
  <2> QED
    BY <2>1, <2>2, TotalType
<1>10. WithinLimit(policy[a].max_notional, policy[a].safety_buffer,
                   Total(Held(a), NotionalOf(a))')
  BY <1>2, <1>3, <1>4, <1>6, <1>9 DEF WithinLimit
<1>11. WithinLimit(policy[a].max_margin, policy[a].safety_buffer,
                   Total(Held(a), MarginOf(a))')
  BY <1>2, <1>3, <1>4, <1>7, <1>9 DEF WithinLimit
<1> QED
  BY <1>2, <1>8, <1>10, <1>11

(* What one step does to one order of one account. *)
LEMMA StepOnOrder ==
  ASSUME TypeOK, [Next]_vars, restarts' = restarts,
         NEW a \in Accounts, NEW o \in OrderIds
  PROVE  \/ reservations'[a][o] = reservations[a][o]
         \/ reservations[a][o].status = "absent"
         \/ /\ reservations[a][o].status = "reserved"
            /\ \E s \in Terminal :
                 reservations'[a][o] = [reservations[a][o] EXCEPT !.status = s]
<1>1. CASE Quiet
  BY <1>1 DEF Quiet
<1>2. CASE Grants
  <2>1. PICK b \in Accounts : \E x \in OrderIds \ Held(b), i \in Intents, e \in Int :
             Occupy(b, x, i, e) /\ reservations[b][x].status = "absent"
    BY <1>2, GrantOccupies
  <2>2. PICK x \in OrderIds \ Held(b), i \in Intents, e \in Int :
             Occupy(b, x, i, e) /\ reservations[b][x].status = "absent"
    BY <2>1
  <2>3. ~(a = b /\ o = x) => reservations'[a][o] = reservations[a][o]
    BY <2>2, OccupyHolders DEF TypeOK
  <2> QED
    BY <2>2, <2>3
<1>3. CASE Vacates
  <2>1. PICK b \in Accounts, s \in Terminal : \E x \in Held(b) : Vacate(b, x, s)
    BY <1>3 DEF Vacates
  <2>2. PICK x \in Held(b) : Vacate(b, x, s)
    BY <2>1
  <2>3. x \in OrderIds /\ reservations[b][x].status = "reserved"
    BY DEF Held
  <2>4. CASE a = b /\ o = x
    <3>1. reservations' = [reservations EXCEPT ![b][x].status = s]
      BY <2>2 DEF Vacate
    <3>2. reservations'[b][x] = [reservations[b][x] EXCEPT !.status = s]
      BY <3>1, <2>3 DEF TypeOK, BookTypeOK
    <3> QED
      BY <2>3, <2>4, <3>2
  <2>5. CASE ~(a = b /\ o = x)
    BY <2>2, <2>3, <2>5, VacateHolders DEF TypeOK
  <2> QED
    BY <2>4, <2>5
<1>4. CASE Restart
  BY <1>4 DEF Restart, TypeOK
<1> QED
  BY <1>1, <1>2, <1>3, <1>4, StepKinds

(* Within one life of the process no order is granted twice, ends twice or *)
(* changes what it occupies.                                               *)
THEOREM OrdersEndForGood == Spec => OrdersEndOnce
<1>1. ASSUME TypeOK, [Next]_vars, restarts' = restarts,
             NEW a \in Accounts, NEW o \in OrderIds
      PROVE  LET r == reservations[a][o] IN
             /\ r.status \in Terminal => reservations'[a][o] = r
             /\ r.status = "reserved" =>
                  \E s \in {"reserved"} \cup Terminal :
                    reservations'[a][o] = [r EXCEPT !.status = s]
  <2> DEFINE r == reservations[a][o]
  <2>1. r \in Reservations
    BY <1>1 DEF TypeOK, BookTypeOK
  <2>2. r.status = "reserved" => r = [r EXCEPT !.status = "reserved"]
    BY <2>1 DEF Reservations
  <2> QED
    BY <1>1, <2>2, StepOnOrder
<1>2. TypeOK /\ [Next]_vars =>
        [restarts' = restarts =>
          \A a \in Accounts, o \in OrderIds :
            LET r == reservations[a][o] IN
            /\ r.status \in Terminal => reservations'[a][o] = r
            /\ r.status = "reserved" =>
                 \E s \in {"reserved"} \cup Terminal :
                   reservations'[a][o] = [r EXCEPT !.status = s]]_vars
  BY <1>1
<1> QED
  BY <1>2, TypeCorrect, PTL DEF Spec, OrdersEndOnce

----------------------------------------------------------------------------
(* The ledger implements AccountQuota                                      *)

Administers ==
  \E a \in Accounts, v \in 1..MaxVersion, p \in Policies :
    /\ v >= version[a]
    /\ version' = [version EXCEPT ![a] = v]
    /\ policy' = [policy EXCEPT ![a] = p]
    /\ UNCHANGED <<reservations, clock>>

LEMMA StepOnPolicy ==
  ASSUME TypeOK, [Next]_vars
  PROVE  UNCHANGED <<version, policy>> \/ Administers \/ Restart
<1>1. CASE \E t \in Threads : ThreadStep(t)
  BY <1>1
     DEF ThreadStep, ReserveStep, ReserveLock, ReserveNoLedger, ReserveRefused,
         ReserveReplay, ReserveOverLimit, ReserveGrant, QueryReturn, ListReturn,
         ExpireOne, book
<1>2. CASE \E t \in Threads : ClientCall(t)
  <2>1. PICK t \in Threads : ClientCall(t)
    BY <1>2
  <2>2. CASE \E a \in Accounts, v \in 1..MaxVersion, p \in Policies :
               UpsertPolicy(t, a, v, p)
    <3>1. PICK a \in Accounts, v \in 1..MaxVersion, p \in Policies :
                 UpsertPolicy(t, a, v, p)
      BY <2>2
    <3>2. v >= version[a]
      BY <3>1, BoundsAreNaturals DEF UpsertPolicy, TypeOK, BookTypeOK
    <3> QED
      BY <3>1, <3>2 DEF UpsertPolicy, ReturnAtOnce, Administers
  <2>3. CASE ~ \E a \in Accounts, v \in 1..MaxVersion, p \in Policies :
                 UpsertPolicy(t, a, v, p)
    BY <2>1, <2>3
       DEF ClientCall, ReserveArrive, LockAndSweep, QueryNoLedger, ListNoLedger,
           ReleaseNoLedger, ReleaseNothing, ReleaseHeld, UpsertStale,
           GetAccountRiskPolicy, InvalidArgument, book
  <2> QED
    BY <2>2, <2>3
<1>3. CASE Tick \/ UNCHANGED vars
  BY <1>3 DEF Tick, vars, book
<1> QED
  BY <1>1, <1>2, <1>3 DEF Next

(* The abstract state that a ledger stands for. *)
QuotaLife == [a \in Accounts |-> [o \in OrderIds |-> Life(reservations[a][o].status)]]
QuotaAmount == [a \in Accounts |-> [o \in OrderIds |-> Occupied(reservations[a][o])]]

QuotaUntil == [a \in Accounts |-> [o \in OrderIds |-> reservations[a][o].expires_at]]

(* The abstract module counts and compares as this one does. *)
LEMMA SameCounting ==
  ASSUME NEW S
  PROVE  Quota!Cardinality(S) = Cardinality(S)
BY DEF Quota!Cardinality, Cardinality

LEMMA SameTotals ==
  ASSUME NEW S, NEW amount
  PROVE  Quota!Total(S, amount) = Total(S, amount)
BY SameCounting
   DEF Quota!Total, Total, Quota!Units, Units, Quota!Deficit, Deficit

(* The abstract holders and sums are the concrete ones, before a step and  *)
(* after it.                                                               *)
LEMMA QuotaSums ==
  ASSUME NEW a \in Accounts
  PROVE  /\ Quota!Holders(a) = Held(a) /\ Quota!Holders(a)' = Held(a)'
         /\ Quota!Notional(a)' = Total(Held(a), NotionalOf(a))'
         /\ Quota!Margin(a)' = Total(Held(a), MarginOf(a))'
<1>1. Quota!Holders(a) = Held(a) /\ Quota!Holders(a)' = Held(a)'
  BY DEF Quota!Holders, Held, Life
<1>2. [o \in OrderIds |-> QuotaAmount[a][o].notional]' = NotionalOf(a)'
  BY DEF QuotaAmount, NotionalOf, Occupied
<1>3. [o \in OrderIds |-> QuotaAmount[a][o].margin]' = MarginOf(a)'
  BY DEF QuotaAmount, MarginOf, Occupied
<1>4. Quota!Notional(a)' = Quota!Total(Held(a)', NotionalOf(a)')
  BY <1>1, <1>2 DEF Quota!Notional, QuotaAmount
<1>5. Quota!Margin(a)' = Quota!Total(Held(a)', MarginOf(a)')
  BY <1>1, <1>3 DEF Quota!Margin, QuotaAmount
<1> QED
  BY <1>1, <1>4, <1>5, SameTotals

LEMMA GrantIsQuotaGrant ==
  ASSUME LedgerInv, [Next]_vars, Grants
  PROVE  Quota!Next
<1>1. PICK a \in Accounts, n \in 0..clock, ttl \in Ttls :
        \E o \in OrderIds \ Held(a), i \in Intents : GrantedAt(a, o, i, n, TtlOf(ttl))
  BY GrantIsTimely DEF LedgerInv
<1>2. PICK o \in OrderIds \ Held(a), i \in Intents : GrantedAt(a, o, i, n, TtlOf(ttl))
  BY <1>1
<1> DEFINE d == TtlOf(ttl)
<1>0. n + d \in Int
  BY TtlType
<1> DEFINE x == [notional |-> Notional(i), margin |-> Margin(i)]
<1>3. x \in {[notional |-> Notional(j), margin |-> Margin(j)] : j \in Intents}
  OBVIOUS
<1>4. LedgerInv'
  BY NextLedgerInv
<1>5. /\ \A b \in Accounts \ {a} : reservations'[b] = reservations[b]
      /\ \A y \in OrderIds \ {o} : reservations'[a][y] = reservations[a][y]
  BY <1>0, <1>2, OccupyHolders DEF LedgerInv, TypeOK, GrantedAt
<1>6. /\ reservations'[a][o].status = "reserved"
      /\ reservations'[a][o].notional = Notional(i)
      /\ reservations'[a][o].margin = Margin(i)
      /\ reservations'[a][o].expires_at = n + d
  BY <1>2 DEF GrantedAt, Occupy, LedgerInv, TypeOK, BookTypeOK
<1>7. QuotaLife' = [QuotaLife EXCEPT ![a][o] = "held"]
  <2>1. Life("reserved") = "held"
    BY DEF Life
  <2> QED
    BY <1>5, <1>6, <2>1, ZenonT(60) DEF QuotaLife
<1>8. QuotaAmount' = [QuotaAmount EXCEPT ![a][o] = x]
  <2>1. x = Occupied(reservations'[a][o])
    BY <1>6 DEF Occupied
  <2> HIDE DEF x
  <2> QED
    BY <1>5, <2>1 DEF QuotaAmount
<1>9. QuotaLife[a][o] = "fresh"
  BY <1>2 DEF GrantedAt, QuotaLife, Life
<1>10. /\ Quota!WithinLimit(policy[a].max_notional, policy[a].safety_buffer, Quota!Notional(a)')
       /\ Quota!WithinLimit(policy[a].max_margin, policy[a].safety_buffer, Quota!Margin(a)')
       /\ policy[a].max_open_orders > 0 =>
            Quota!Cardinality(Quota!Holders(a)') <= policy[a].max_open_orders
  <2>1. UNCHANGED policy /\ Occupy(a, o, i, n + d) /\ ~OverLimit(a, i)
    BY <1>2 DEF GrantedAt
  <2>2. o \in OrderIds
    OBVIOUS
  <2> QED
    BY <1>0, <1>4, <2>1, <2>2, GrantFits, QuotaSums, SameCounting
       DEF Quota!WithinLimit, WithinLimit
<1>11. QuotaUntil' = [QuotaUntil EXCEPT ![a][o] = n + d]
  <2> DEFINE e == n + d
  <2>1. reservations'[a][o].expires_at = e
    BY <1>6
  <2> HIDE DEF e
  <2>2. QuotaUntil' = [QuotaUntil EXCEPT ![a][o] = e]
    BY <1>5, <2>1 DEF QuotaUntil
  <2> QED
    BY <2>2 DEF e
<1>12. Quota!InForce(policy[a], n)
  <2>1. PolicyInForce(policy[a], n)
    BY <1>2 DEF GrantedAt
  <2>2. n \in Int /\ policy[a].valid_until \in Int
    BY BoundsAreNaturals DEF LedgerInv, TypeOK, BookTypeOK, Limits
  <2> QED
    BY <2>1, <2>2 DEF Quota!InForce, PolicyInForce
<1>13. UNCHANGED <<clock, version, policy>>
  BY <1>2 DEF GrantedAt
<1>14. Quota!Grant(a, o, x, n, d)
  <2> HIDE DEF x, d
  <2> QED
    BY <1>7, <1>8, <1>9, <1>10, <1>11, <1>12, <1>13
       DEF Quota!Grant, QuotaLife, QuotaAmount, QuotaUntil
<1>15. d \in {TtlOf(u) : u \in Ttls}
  OBVIOUS
<1> QED
  BY <1>3, <1>14, <1>15 DEF Quota!Next

LEMMA VacateIsQuotaEnd ==
  ASSUME LedgerInv, Vacates
  PROVE  Quota!Next
<1>1. PICK a \in Accounts, s \in Terminal : \E o \in Held(a) :
           Vacate(a, o, s) /\ UNCHANGED <<version, policy, restarts, clock>>
  BY DEF Vacates
<1>2. PICK o \in Held(a) : Vacate(a, o, s) /\ UNCHANGED <<version, policy, restarts, clock>>
  BY <1>1
<1>3. o \in OrderIds /\ reservations[a][o].status = "reserved"
  BY DEF Held
<1>4. /\ NotionalOf(a)' = NotionalOf(a) /\ MarginOf(a)' = MarginOf(a)
      /\ \A b \in Accounts \ {a} : reservations'[b] = reservations[b]
      /\ \A y \in OrderIds \ {o} : reservations'[a][y] = reservations[a][y]
  BY <1>2, <1>3, VacateHolders DEF LedgerInv, TypeOK
<1>5. reservations'[a][o].status = s
  <2>1. reservations' = [reservations EXCEPT ![a][o].status = s]
    BY <1>2 DEF Vacate
  <2> QED
    BY <1>3, <2>1 DEF LedgerInv, TypeOK, BookTypeOK, Reservations
<1>6. QuotaLife' = [QuotaLife EXCEPT ![a][o] = "ended"]
  <2>1. Life(s) = "ended"
    BY DEF Life
  <2> QED
    BY <1>3, <1>4, <1>5, <2>1 DEF QuotaLife
<1>7. QuotaAmount' = QuotaAmount
  <2>1. \A x \in OrderIds : NotionalOf(a)'[x] = NotionalOf(a)[x] /\ MarginOf(a)'[x] = MarginOf(a)[x]
    BY <1>4
  <2>2. \A x \in OrderIds : /\ reservations'[a][x].notional = reservations[a][x].notional
                            /\ reservations'[a][x].margin = reservations[a][x].margin
    BY <2>1 DEF NotionalOf, MarginOf
  <2>3. \A x \in OrderIds : Occupied(reservations'[a][x]) = Occupied(reservations[a][x])
    BY <2>2 DEF Occupied
  <2> QED
    BY <1>4, <2>3 DEF QuotaAmount
<1>8. QuotaLife[a][o] = "held"
  BY <1>3 DEF QuotaLife, Life
<1>10. QuotaUntil' = QuotaUntil
  <2>1. reservations' = [reservations EXCEPT ![a][o].status = s]
    BY <1>2 DEF Vacate
  <2>2. reservations'[a][o].expires_at = reservations[a][o].expires_at
    BY <1>3, <2>1 DEF LedgerInv, TypeOK, BookTypeOK, Reservations
  <2> QED
    BY <1>4, <2>2 DEF QuotaUntil
<1>9. Quota!End(a, o)
  BY <1>2, <1>6, <1>7, <1>8, <1>10 DEF Quota!End, QuotaLife, QuotaAmount, QuotaUntil
<1> QED
  BY <1>3, <1>9 DEF Quota!Next

LEMMA ClockGoesOn ==
  ASSUME TypeOK, [Next]_vars
  PROVE  clock' = clock \/ clock' > clock
<1>1. CASE \E t \in Threads : ThreadStep(t)
  BY <1>1
     DEF ThreadStep, ReserveStep, ReserveLock, ReserveNoLedger, ReserveRefused,
         ReserveReplay, ReserveOverLimit, ReserveGrant, QueryReturn, ListReturn,
         ExpireOne
<1>2. CASE \E t \in Threads : ClientCall(t)
  BY <1>2
     DEF ClientCall, ReserveArrive, LockAndSweep, QueryNoLedger, ListNoLedger,
         ReleaseNoLedger, ReleaseNothing, ReleaseHeld, UpsertStale, UpsertPolicy,
         GetAccountRiskPolicy, InvalidArgument, ReturnAtOnce
<1>3. CASE Tick
  BY <1>3, BoundsAreNaturals DEF Tick, TypeOK
<1>4. CASE Restart \/ UNCHANGED vars
  BY <1>4 DEF Restart, vars
<1> QED
  BY <1>1, <1>2, <1>3, <1>4 DEF Next

LEMMA StepKeepsQuota ==
  ASSUME LedgerInv, [Next]_vars
  PROVE  [Quota!Next]_(Quota!vars)
<1>1. CASE Grants
  BY <1>1, GrantIsQuotaGrant
<1>2. CASE Vacates
  BY <1>2, VacateIsQuotaEnd
<1>3. CASE Restart
  <2>1. QuotaLife' = [a \in Accounts |-> [o \in OrderIds |-> "fresh"]]
    BY <1>3 DEF Restart, QuotaLife, Life, Absent
  <2>2. QuotaAmount' = [a \in Accounts |-> [o \in OrderIds |-> Quota!Nothing]]
    BY <1>3 DEF Restart, QuotaAmount, Quota!Nothing, Absent, Occupied
  <2>4. QuotaUntil' = [a \in Accounts |-> [o \in OrderIds |-> 0]]
    BY <1>3 DEF Restart, QuotaUntil, Absent
  <2>3. Quota!Forget
    BY <1>3, <2>1, <2>2, <2>4 DEF Restart, Quota!Forget, QuotaLife, QuotaAmount, QuotaUntil
  <2> QED
    BY <2>3 DEF Quota!Next
<1>4. CASE Quiet /\ ~Restart
  <2>1. QuotaLife' = QuotaLife /\ QuotaAmount' = QuotaAmount /\ QuotaUntil' = QuotaUntil
    BY <1>4 DEF Quiet, QuotaLife, QuotaAmount, QuotaUntil
  <2>2. CASE UNCHANGED <<version, policy>>
    <3>1. CASE clock' = clock
      BY <2>1, <2>2, <3>1 DEF Quota!vars, QuotaLife, QuotaAmount, QuotaUntil
    <3>2. CASE clock' > clock
      <4>1. Quota!TimePasses
        BY <2>1, <2>2, <3>2 DEF Quota!TimePasses, QuotaLife, QuotaAmount, QuotaUntil
      <4> QED
        BY <4>1 DEF Quota!Next
    <3> QED
      BY <3>1, <3>2, ClockGoesOn DEF LedgerInv
  <2>3. CASE Administers
    <3>1. PICK a \in Accounts, v \in 1..MaxVersion, p \in Policies :
            /\ v >= version[a]
            /\ version' = [version EXCEPT ![a] = v]
            /\ policy' = [policy EXCEPT ![a] = p]
            /\ clock' = clock
      BY <2>3 DEF Administers
    <3>2. Quota!Administer(a, v, p)
      BY <2>1, <3>1 DEF Quota!Administer, QuotaLife, QuotaAmount, QuotaUntil
    <3> QED
      BY <3>2 DEF Quota!Next
  <2> QED
    BY <1>4, <2>2, <2>3, StepOnPolicy DEF LedgerInv
<1> QED
  BY <1>1, <1>2, <1>3, <1>4, StepKinds DEF LedgerInv

(* Threads, mutex, lazy sweeps and running counters implement AccountQuota: *)
(* each order takes quota once, within the limits on the true sums, on a   *)
(* policy that had not lapsed when its deadline was counted, and gives it  *)
(* back once; amounts may have either sign.                                *)
THEOREM LedgerKeepsQuota == Spec => KeepsQuota
<1>1. Init => Quota!Init
  <2> SUFFICES ASSUME Init PROVE Quota!Init
    OBVIOUS
  <2>1. QuotaLife = [a \in Accounts |-> [o \in OrderIds |-> "fresh"]]
    BY DEF Init, QuotaLife, Life, Absent
  <2>2. QuotaAmount = [a \in Accounts |-> [o \in OrderIds |-> Quota!Nothing]]
    BY DEF Init, QuotaAmount, Quota!Nothing, Absent, Occupied
  <2>3. QuotaUntil = [a \in Accounts |-> [o \in OrderIds |-> 0]]
    BY DEF Init, QuotaUntil, Absent
  <2> QED
    BY <2>1, <2>2, <2>3 DEF Init, Quota!Init, QuotaLife, QuotaAmount, QuotaUntil
<1>2. LedgerInv /\ [Next]_vars => [Quota!Next]_(Quota!vars)
  BY StepKeepsQuota
<1> QED
  BY <1>1, <1>2, InvariantHolds, PTL DEF Spec, KeepsQuota, Quota!Spec

----------------------------------------------------------------------------
(* Replies                                                                 *)

Decides(t) ==
  \/ ReserveRefused(t) \/ ReserveReplay(t) \/ ReserveOverLimit(t)
  \/ ReserveGrant(t) \/ QueryReturn(t) \/ ListReturn(t)

(* A thread leaves the critical section by its own decision, or dies. *)
LEMMA LeavingDecides ==
  ASSUME TypeOK, [Next]_vars, NEW t \in Threads,
         pc[t] = "sweeping", pc'[t] = "idle"
  PROVE  Decides(t) \/ Restart
<1> USE DEF TypeOK, CallsTypeOK
<1>1. CASE \E u \in Threads : ThreadStep(u)
  <2>1. PICK u \in Threads : ThreadStep(u)
    BY <1>1
  <2>2. CASE u = t
    BY <2>1, <2>2
       DEF ThreadStep, ReserveStep, Decides, ReserveLock, ReserveNoLedger,
           ExpireOne, calls
  <2>3. CASE u # t
    BY <2>1, <2>3
       DEF ThreadStep, ReserveStep, ReserveLock, ReserveNoLedger, ReserveRefused,
           ReserveReplay, ReserveOverLimit, ReserveGrant, QueryReturn, ListReturn,
           ExpireOne, Return, calls
  <2> QED
    BY <2>2, <2>3
<1>2. CASE \E u \in Threads : ClientCall(u)
  <2>1. PICK u \in Threads : ClientCall(u)
    BY <1>2
  <2> QED
    BY <2>1
       DEF ClientCall, ReserveArrive, LockAndSweep, QueryNoLedger, ListNoLedger,
           ReleaseNoLedger, ReleaseNothing, ReleaseHeld, UpsertStale, UpsertPolicy,
           GetAccountRiskPolicy, InvalidArgument, ReturnAtOnce, calls
<1>3. CASE Tick \/ UNCHANGED vars
  BY <1>3 DEF Tick, vars, calls
<1> QED
  BY <1>1, <1>2, <1>3 DEF Next

(* Nothing else is due when a thread decides. *)
LEMMA DecidesSwept ==
  ASSUME NEW t \in Threads, Decides(t)
  PROVE  Live(req[t].account, now[t]) = Held(req[t].account)
<1>1. Due(req[t].account, now[t]) = {}
  BY DEF Decides, ReserveRefused, ReserveReplay, ReserveOverLimit, ReserveGrant,
         QueryReturn, ListReturn, ReserveAdmissible, Swept
<1> QED
  BY <1>1 DEF Live

RejectionEarnedAt(t) ==
  /\ pc[t] = "sweeping" /\ pc'[t] = "idle"
  /\ reply'.op = "Reserve" /\ reply'.outcome \in LimitRejections
  => LET a == req[t].account
         i == req[t].intent
         p == policy[a]
         L == Live(a, now[t])
     IN  /\ reservations[a][req[t].order].status = "absent"
         /\ reply'.outcome = "MAX_NOTIONAL_EXCEEDED" =>
              Passes(p.max_notional, p.safety_buffer, L, NotionalOf(a), Notional(i))
         /\ reply'.outcome = "MAX_MARGIN_EXCEEDED" =>
              Passes(p.max_margin, p.safety_buffer, L, MarginOf(a), Margin(i))
         /\ reply'.outcome = "MAX_OPEN_ORDERS_EXCEEDED" =>
              p.max_open_orders > 0 /\ Cardinality(L) + 1 > p.max_open_orders

LEMMA StepRejectionEarned ==
  ASSUME LedgerInv, [Next]_vars, NEW t \in Threads
  PROVE  RejectionEarnedAt(t)
<1> SUFFICES ASSUME pc[t] = "sweeping", pc'[t] = "idle",
                    reply'.op = "Reserve", reply'.outcome \in LimitRejections
             PROVE  RejectionEarnedAt(t)
  BY DEF RejectionEarnedAt
<1> DEFINE a == req[t].account
           i == req[t].intent
<1>1. ~Restart
  BY DEF Restart, NoReply
<1>2. Decides(t)
  BY <1>1, LeavingDecides DEF LedgerInv
<1>3. ReserveOverLimit(t)
  BY <1>2 DEF Decides, ReserveRefused, ReserveReplay, ReserveGrant, QueryReturn,
              ListReturn, Return, Response, LimitRejections, Swept
<1>4. Live(a, now[t]) = Held(a)
  BY <1>2, DecidesSwept
<1>5. a \in Accounts /\ i \in Intents
  BY <1>3, RequestFields
     DEF ReserveOverLimit, ReserveAdmissible, Swept, LedgerInv, TypeOK
<1>6. /\ Covers(reserved_notional[a], Held(a), NotionalOf(a))
      /\ Covers(reserved_margin[a], Held(a), MarginOf(a))
      /\ reserved_open_orders[a] = Cardinality(Held(a))
  BY <1>5 DEF LedgerInv, Balanced
<1>7. /\ reserved_notional[a] \in Int /\ reserved_margin[a] \in Int
      /\ Notional(i) \in Int /\ Margin(i) \in Int
      /\ policy[a].max_notional \in Int /\ policy[a].max_margin \in Int
      /\ policy[a].safety_buffer \in Int
  BY <1>5, IntentTypes DEF LedgerInv, TypeOK, BookTypeOK, Limits
<1>8. reservations[a][req[t].order].status = "absent"
  BY <1>3 DEF ReserveOverLimit, Known
<1>9. OverLimit(a, i) /\ reply'.outcome = FirstExceeded(a, i)
  BY <1>3 DEF ReserveOverLimit, Return, Response
<1>10. reply'.outcome = "MAX_NOTIONAL_EXCEEDED" =>
         Passes(policy[a].max_notional, policy[a].safety_buffer,
                Held(a), NotionalOf(a), Notional(i))
  <2> SUFFICES ASSUME reply'.outcome = "MAX_NOTIONAL_EXCEEDED",
                      \A o \in OrderIds : NotionalOf(a)[o] >= 0
               PROVE  ~WithinLimit(policy[a].max_notional, policy[a].safety_buffer,
                                   Total(Held(a), NotionalOf(a)) + Notional(i))
    BY DEF Passes
  <2>1. NotionalExceeded(a, i)
    BY <1>9 DEF FirstExceeded
  <2>2. reserved_notional[a] = Total(Held(a), NotionalOf(a))
    BY <1>6 DEF Covers
  <2>3. ~WithinLimit(policy[a].max_notional, policy[a].safety_buffer,
                     reserved_notional[a] + Notional(i))
    BY <1>7, <2>1 DEF NotionalExceeded, WithinLimit
  <2> QED
    BY <2>2, <2>3
<1>11. reply'.outcome = "MAX_MARGIN_EXCEEDED" =>
         Passes(policy[a].max_margin, policy[a].safety_buffer,
                Held(a), MarginOf(a), Margin(i))
  <2> SUFFICES ASSUME reply'.outcome = "MAX_MARGIN_EXCEEDED",
                      \A o \in OrderIds : MarginOf(a)[o] >= 0
               PROVE  ~WithinLimit(policy[a].max_margin, policy[a].safety_buffer,
                                   Total(Held(a), MarginOf(a)) + Margin(i))
    BY DEF Passes
  <2>1. MarginExceeded(a, i)
    BY <1>9 DEF FirstExceeded
  <2>2. reserved_margin[a] = Total(Held(a), MarginOf(a))
    BY <1>6 DEF Covers
  <2>3. ~WithinLimit(policy[a].max_margin, policy[a].safety_buffer,
                     reserved_margin[a] + Margin(i))
    BY <1>7, <2>1 DEF MarginExceeded, WithinLimit
  <2> QED
    BY <2>2, <2>3
<1>12. reply'.outcome = "MAX_OPEN_ORDERS_EXCEEDED" => OrdersExceeded(a)
  BY <1>9 DEF FirstExceeded, OverLimit
<1> QED
  BY <1>4, <1>6, <1>8, <1>10, <1>11, <1>12 DEF RejectionEarnedAt, OrdersExceeded

(* A rejection for a limit is earned: the order is new, and what was live  *)
(* when the request came in really leaves no room for it under the limit   *)
(* the answer names, if no amount recorded for the account is negative.    *)
THEOREM RejectionsAreEarned == Spec => RejectionEarned
<1>1. LedgerInv /\ [Next]_vars => [\A t \in Threads : RejectionEarnedAt(t)]_vars
  BY StepRejectionEarned
<1>2. [\A t \in Threads : RejectionEarnedAt(t)]_vars =>
        [\A t \in Threads :
           /\ pc[t] = "sweeping" /\ pc'[t] = "idle"
           /\ reply'.op = "Reserve" /\ reply'.outcome \in LimitRejections
           => LET a == req[t].account
                  i == req[t].intent
                  p == policy[a]
                  L == Live(a, now[t])
              IN  /\ reservations[a][req[t].order].status = "absent"
                  /\ reply'.outcome = "MAX_NOTIONAL_EXCEEDED" =>
                       Passes(p.max_notional, p.safety_buffer,
                              L, NotionalOf(a), Notional(i))
                  /\ reply'.outcome = "MAX_MARGIN_EXCEEDED" =>
                       Passes(p.max_margin, p.safety_buffer, L, MarginOf(a), Margin(i))
                  /\ reply'.outcome = "MAX_OPEN_ORDERS_EXCEEDED" =>
                       p.max_open_orders > 0 /\ Cardinality(L) + 1 > p.max_open_orders]_vars
  BY DEF RejectionEarnedAt
<1> QED
  BY <1>1, <1>2, InvariantHolds, PTL DEF Spec, RejectionEarned

(* Queries and listings report exactly the reservations that are live.     *)
THEOREM RepliesAreFreshAlways == Spec => RepliesAreFresh
<1>1. ASSUME TypeOK, [Next]_vars, NEW t \in Threads,
             pc[t] = "sweeping", pc'[t] = "idle"
      PROVE  LET alive == Live(req[t].account, now[t]) IN
             /\ reply'.op = "Query" =>
                  (reply'.outcome = "reserved" <=> req[t].order \in alive)
             /\ reply'.op = "List" => reply'.orders = alive
  <2>1. CASE Restart
    BY <2>1 DEF Restart, NoReply
  <2>2. CASE Decides(t)
    <3>1. Live(req[t].account, now[t]) = Held(req[t].account)
      BY <2>2, DecidesSwept
    <3>2. CASE reply'.op = "Query"
      <4>1. QueryReturn(t)
        BY <2>2, <3>2 DEF Decides, ReserveRefused, ReserveReplay, ReserveOverLimit,
                          ReserveGrant, ListReturn, Return, Response, Swept,
                          ReserveAdmissible
      <4>2. req[t].order \in OrderIds
        <5>1. req[t] \in Requests /\ req[t].op = "Query"
          BY <4>1, <1>1 DEF QueryReturn, Swept, TypeOK, CallsTypeOK
        <5>2. req[t] \in QueryRequests
          BY <5>1 DEF Requests, ReserveRequests, ListRequests
        <5> QED
          BY <5>2 DEF QueryRequests
      <4>3. reply'.outcome = "reserved" <=>
              reservations[req[t].account][req[t].order].status = "reserved"
        BY <4>1 DEF QueryReturn, Return, Response
      <4> QED
        BY <3>1, <3>2, <4>2, <4>3 DEF Held
    <3>3. CASE reply'.op = "List"
      BY <2>2, <3>1, <3>3 DEF Decides, ReserveRefused, ReserveReplay, ReserveOverLimit,
                        ReserveGrant, QueryReturn, ListReturn, Return, Response, Swept,
                        ReserveAdmissible
    <3> QED
      BY <3>2, <3>3
  <2> QED
    BY <1>1, <2>1, <2>2, LeavingDecides
<1>2. TypeOK /\ [Next]_vars =>
        [\A t \in Threads :
          pc[t] = "sweeping" /\ pc'[t] = "idle" =>
            LET alive == Live(req[t].account, now[t]) IN
            /\ reply'.op = "Query" =>
                 (reply'.outcome = "reserved" <=> req[t].order \in alive)
            /\ reply'.op = "List" => reply'.orders = alive]_vars
  BY <1>1
<1> QED
  BY <1>2, TypeCorrect, PTL DEF Spec, RepliesAreFresh

----------------------------------------------------------------------------
(* Expiry                                                                  *)

LEMMA StepExpiresOnlyWhenDue ==
  ASSUME TypeOK, ReadingsArePast, [Next]_vars,
         NEW a \in Accounts, NEW o \in OrderIds,
         reservations[a][o].status = "reserved",
         reservations'[a][o].status = "expired"
  PROVE  reservations[a][o].expires_at <= clock
<1>1. CASE Vacates
  <2>1. PICK b \in Accounts, s \in Terminal : \E x \in Held(b) :
               /\ Vacate(b, x, s)
               /\ s = "expired" => \E t \in Threads : x \in Due(b, now[t])
    BY <1>1 DEF Vacates
  <2>2. PICK x \in Held(b) :
               /\ Vacate(b, x, s)
               /\ s = "expired" => \E t \in Threads : x \in Due(b, now[t])
    BY <2>1
  <2>3. x \in OrderIds
    BY DEF Held
  <2>4. a = b /\ o = x
    <3>1. ~(a = b /\ o = x) => reservations'[a][o] = reservations[a][o]
      BY <2>2, <2>3, VacateHolders DEF TypeOK
    <3> QED
      BY <3>1
  <2>5. reservations'[b][x].status = s
    <3>1. reservations' = [reservations EXCEPT ![b][x].status = s]
      BY <2>2 DEF Vacate
    <3> QED
      BY <2>3, <3>1 DEF TypeOK, BookTypeOK, Reservations
  <2>6. PICK t \in Threads : x \in Due(b, now[t])
    BY <2>2, <2>4, <2>5
  <2>7. reservations[b][x].expires_at <= now[t]
    BY <2>6 DEF Due
  <2>8. /\ reservations[b][x].expires_at \in Int
        /\ now[t] \in Int /\ clock \in Int
    BY <2>3, BoundsAreNaturals DEF TypeOK, BookTypeOK, CallsTypeOK, Reservations
  <2> QED
    BY <2>4, <2>7, <2>8 DEF ReadingsArePast
<1>2. CASE Quiet
  BY <1>2 DEF Quiet
<1>3. CASE Grants
  <2>1. PICK b \in Accounts : \E x \in OrderIds \ Held(b), i \in Intents, e \in Int :
             Occupy(b, x, i, e)
    BY <1>3, GrantOccupies
  <2>2. PICK x \in OrderIds \ Held(b), i \in Intents, e \in Int : Occupy(b, x, i, e)
    BY <2>1
  <2>3. o \in Held(a)
    BY DEF Held
  <2>4. reservations'[a][o] = reservations[a][o]
    BY <2>2, <2>3, OccupyHolders DEF TypeOK
  <2> QED
    BY <2>4
<1>4. CASE Restart
  BY <1>4 DEF Restart, Absent
<1> QED
  BY <1>1, <1>2, <1>3, <1>4, StepKinds

(* No reservation is marked expired before its deadline, however stale the *)
(* clock reading of the handler that sweeps.                               *)
THEOREM NoEarlyExpiry == Spec => ExpiresOnlyWhenDue
<1>1. Init => ReadingsArePast
  BY DEF Init, ReadingsArePast
<1>2. TypeOK /\ ReadingsArePast /\ [Next]_vars => ReadingsArePast'
  BY NextReadingsArePast
<1>3. TypeOK /\ ReadingsArePast /\ [Next]_vars =>
        [\A a \in Accounts, o \in OrderIds :
          /\ reservations[a][o].status = "reserved"
          /\ reservations'[a][o].status = "expired"
          => reservations[a][o].expires_at <= clock]_vars
  BY StepExpiresOnlyWhenDue
<1> QED
  BY <1>1, <1>2, <1>3, TypeCorrect, PTL DEF Spec, ExpiresOnlyWhenDue
=============================================================================
