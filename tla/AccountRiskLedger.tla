------------------------- MODULE AccountRiskLedger -------------------------
(***************************************************************************)
(* The in-memory hard-risk ledger of account_risk_service                  *)
(* (account_risk_grpc_service.cpp).                                        *)
(*                                                                         *)
(* Handler threads of the synchronous gRPC server work on one process-wide *)
(* map of ledgers under one mutex.  A ReserveOrder call reads the clock    *)
(* before it takes the mutex, the other calls after; the calls that sweep  *)
(* expired reservations do so in the iteration order of an unordered_map,  *)
(* so the sweep is a loop whose next victim is any reservation that is     *)
(* due.  A restart of the process loses everything.                        *)
(*                                                                         *)
(* Amounts are integers (the code uses doubles) of either sign, the clock  *)
(* is a bounded counter that never goes back, an absent map entry has      *)
(* status "absent".                                                        *)
(***************************************************************************)
EXTENDS ReservedTotals

CONSTANTS
  Accounts,     \* account ids that callers name
  OrderIds,     \* order ids that callers name
  Threads,      \* handler threads of the gRPC server
  Intents,      \* order intents: price, quantity, estimated_notional, estimated_margin
  Ttls,         \* values of reservation_ttl_ms in requests
  Policies,     \* policy contents, without the version
  MaxVersion,   \* bound: the highest policy version an administrator writes
  MaxClock,     \* bound: the last reading of the clock
  MaxRestarts,  \* bound: how often the process restarts
  DefaultTtl,   \* the TTL used when the request has none
  NoRequest     \* an idle thread's request

Limits == [valid_until : Nat, max_notional : Int, max_margin : Int,
           max_gross_exposure : Int, max_open_orders : Nat,
           safety_buffer : Int, enabled : BOOLEAN]

ASSUME BoundsAreNaturals ==
  /\ MaxVersion \in Nat /\ MaxClock \in Nat /\ MaxRestarts \in Nat
  /\ DefaultTtl \in Nat /\ Ttls \subseteq Int

ASSUME IntentsAreRecords ==
  Intents \subseteq [price : Int, quantity : Nat,
                     estimated_notional : Int, estimated_margin : Int]

ASSUME PoliciesAreLimits == Policies \subseteq Limits

ASSUME OrderIdsFinite == IsFiniteSet(OrderIds)

VARIABLES
  ledgers,               \* the keys of g_ledgers
  version,               \* account -> version of its policy, 0 without a ledger
  policy,                \* account -> its policy's contents
  reserved_notional,     \* account -> LedgerState::reserved_notional
  reserved_margin,       \* account -> LedgerState::reserved_margin
  reserved_open_orders,  \* account -> LedgerState::reserved_open_orders
  reservations,          \* account -> order id -> ReservationState
  clock,                 \* UnixMillisNow()
  restarts,              \* how often the process has restarted
  pc,                    \* thread -> "idle", "waiting" for the mutex, "sweeping" under it
  req,                   \* thread -> the request it serves
  now,                   \* thread -> the time the handler read
  reply                  \* the response sent by the last step, if it sent one

counters == <<reserved_notional, reserved_margin, reserved_open_orders>>
book     == <<ledgers, version, policy, counters, reservations>>
calls    == <<pc, req, now>>
vars     == <<book, clock, restarts, calls, reply>>

----------------------------------------------------------------------------
(* Values                                                                  *)

DefaultPolicy ==
  [valid_until |-> 0, max_notional |-> 0, max_margin |-> 0,
   max_gross_exposure |-> 0, max_open_orders |-> 0, safety_buffer |-> 0,
   enabled |-> FALSE]

Absent == [status |-> "absent", notional |-> 0, margin |-> 0, expires_at |-> 0]

Terminal == {"released", "settled", "expired"}

Reservations ==
  [status : {"absent", "reserved"} \cup Terminal, notional : Int,
   margin : Int, expires_at : Int]

ReserveRequests ==
  [op : {"Reserve"}, account : Accounts, order : OrderIds, intent : Intents,
   ttl : Ttls, version : 0..MaxVersion]
QueryRequests == [op : {"Query"}, account : Accounts, order : OrderIds]
ListRequests  == [op : {"List"}, account : Accounts]
Requests      == ReserveRequests \cup QueryRequests \cup ListRequests

NoReply == [op |-> "None", outcome |-> "none", orders |-> {}]

Response(op, outcome, orders) ==
  [op |-> op, outcome |-> outcome, orders |-> orders]

Clamp(x) == IF x > 0 THEN x ELSE 0

(* What an intent occupies, and how long. *)
Notional(i) == IF i.estimated_notional > 0 THEN i.estimated_notional
                                           ELSE i.price * i.quantity
Margin(i)   == i.estimated_margin
TtlOf(ttl)  == IF ttl > 0 THEN ttl ELSE DefaultTtl

(* Mutant: the deadline compared one tick early. *)
DueEarly(a, n) ==
  {o \in OrderIds : /\ reservations[a][o].status = "reserved"
                    /\ reservations[a][o].expires_at <= n + 1}

Held(a)   == {o \in OrderIds : reservations[a][o].status = "reserved"}
Due(a, n) == {o \in Held(a) : reservations[a][o].expires_at <= n}

LockFree == \A t \in Threads : pc[t] # "sweeping"

----------------------------------------------------------------------------
Init ==
  /\ ledgers = {}
  /\ version = [a \in Accounts |-> 0]
  /\ policy = [a \in Accounts |-> DefaultPolicy]
  /\ reserved_notional = [a \in Accounts |-> 0]
  /\ reserved_margin = [a \in Accounts |-> 0]
  /\ reserved_open_orders = [a \in Accounts |-> 0]
  /\ reservations = [a \in Accounts |-> [o \in OrderIds |-> Absent]]
  /\ clock = 0
  /\ restarts = 0
  /\ pc = [t \in Threads |-> "idle"]
  /\ req = [t \in Threads |-> NoRequest]
  /\ now = [t \in Threads |-> 0]
  /\ reply = NoReply

(* The thread's handler returns with this response. *)
Return(t, outcome, orders) ==
  /\ pc' = [pc EXCEPT ![t] = "idle"]
  /\ req' = [req EXCEPT ![t] = NoRequest]
  /\ now' = [now EXCEPT ![t] = 0]
  /\ reply' = Response(req[t].op, outcome, orders)

(* A call that runs from the lock to its response in one critical section. *)
ReturnAtOnce(t, op, outcome, orders) ==
  /\ pc[t] = "idle"
  /\ reply' = Response(op, outcome, orders)
  /\ UNCHANGED <<clock, restarts, calls>>

(* Mutant: the notional is taken off the order counter. *)
VacateWrongCounter(a, o, status) ==
  /\ reservations' = [reservations EXCEPT ![a][o].status = status]
  /\ reserved_open_orders' =
       [reserved_open_orders EXCEPT ![a] = @ - reservations[a][o].notional]
  /\ UNCHANGED <<reserved_notional, reserved_margin>>

(* Order o gives its occupancy back and ends with the given status. *)
Vacate(a, o, status) ==
  /\ reservations' = [reservations EXCEPT ![a][o].status = status]
  /\ reserved_notional' =
       [reserved_notional EXCEPT ![a] = Clamp(@ - reservations[a][o].notional)]
  /\ reserved_margin' =
       [reserved_margin EXCEPT ![a] = Clamp(@ - reservations[a][o].margin)]
  /\ reserved_open_orders' =
       [reserved_open_orders EXCEPT ![a] = IF @ > 0 THEN @ - 1 ELSE @]

----------------------------------------------------------------------------
(* ReserveOrder                                                            *)

(* The arguments are accepted and the clock is read, before the mutex. *)
ReserveArrive(t, r) ==
  /\ pc[t] = "idle"
  /\ pc' = [pc EXCEPT ![t] = "waiting"]
  /\ req' = [req EXCEPT ![t] = r]
  /\ now' = [now EXCEPT ![t] = clock]
  /\ reply' = NoReply
  /\ UNCHANGED <<book, clock, restarts>>

ReserveLock(t) ==
  /\ pc[t] = "waiting"
  /\ LockFree
  /\ req[t].account \in ledgers
  /\ pc' = [pc EXCEPT ![t] = "sweeping"]
  /\ reply' = NoReply
  /\ UNCHANGED <<book, clock, restarts, req, now>>

ReserveNoLedger(t) ==
  /\ pc[t] = "waiting"
  /\ LockFree
  /\ req[t].account \notin ledgers
  /\ Return(t, "ACCOUNT_RISK_POLICY_NOT_FOUND", {req[t].order})
  /\ UNCHANGED <<book, clock, restarts>>

(* One iteration of ExpireReservations that finds a reservation due. *)
ExpireOne(t, o) ==
  /\ pc[t] = "sweeping"
  /\ o \in Due(req[t].account, now[t])
  /\ Vacate(req[t].account, o, "expired")
  /\ reply' = NoReply
  /\ UNCHANGED <<ledgers, version, policy, clock, restarts, calls>>

(* Mutant: the handler answers without sweeping to the end. *)
SweptHalfway(t, op) == pc[t] = "sweeping" /\ req[t].op = op

Swept(t, op) ==
  /\ pc[t] = "sweeping"
  /\ req[t].op = op
  /\ Due(req[t].account, now[t]) = {}

(* Mutant: the lapse of a policy is not looked at. *)
PolicyInForceEver(p, n) == p.enabled

PolicyInForce(p, n) ==
  p.enabled /\ ~(p.valid_until > 0 /\ n > p.valid_until)

VersionAccepted(a, v) == v = 0 \/ v = version[a]

(* The decision once the sweep is over, in the order of the code's returns. *)
ReserveRefused(t) ==
  LET a == req[t].account IN
  /\ Swept(t, "Reserve")
  /\ \/ /\ ~PolicyInForce(policy[a], now[t])
        /\ Return(t, IF policy[a].enabled THEN "ACCOUNT_RISK_POLICY_EXPIRED"
                                          ELSE "ACCOUNT_RISK_DISABLED",
                  {req[t].order})
     \/ /\ PolicyInForce(policy[a], now[t])
        /\ ~VersionAccepted(a, req[t].version)
        /\ Return(t, "RISK_POLICY_VERSION_MISMATCH", {req[t].order})
  /\ UNCHANGED <<book, clock, restarts>>

ReserveAdmissible(t) ==
  /\ Swept(t, "Reserve")
  /\ PolicyInForce(policy[req[t].account], now[t])
  /\ VersionAccepted(req[t].account, req[t].version)

(* Mutants: the buffer forgotten, a limit of zero taken for a limit. *)
NotionalExceededNoBuffer(a, i) ==
  /\ policy[a].max_notional > 0
  /\ reserved_notional[a] + Notional(i) > policy[a].max_notional
OrdersExceededAtZero(a) ==
  reserved_open_orders[a] + 1 > policy[a].max_open_orders

NotionalExceeded(a, i) ==
  /\ policy[a].max_notional > 0
  /\ reserved_notional[a] + Notional(i)
       > policy[a].max_notional - policy[a].safety_buffer
MarginExceeded(a, i) ==
  /\ policy[a].max_margin > 0
  /\ reserved_margin[a] + Margin(i)
       > policy[a].max_margin - policy[a].safety_buffer
OrdersExceeded(a) ==
  /\ policy[a].max_open_orders > 0
  /\ reserved_open_orders[a] + 1 > policy[a].max_open_orders

LimitRejections ==
  {"MAX_NOTIONAL_EXCEEDED", "MAX_MARGIN_EXCEEDED", "MAX_OPEN_ORDERS_EXCEEDED"}

OverLimit(a, i) ==
  NotionalExceeded(a, i) \/ MarginExceeded(a, i) \/ OrdersExceeded(a)

FirstExceeded(a, i) ==
  IF NotionalExceeded(a, i) THEN "MAX_NOTIONAL_EXCEEDED"
  ELSE IF MarginExceeded(a, i) THEN "MAX_MARGIN_EXCEEDED"
  ELSE "MAX_OPEN_ORDERS_EXCEEDED"

Known(t) == reservations[req[t].account][req[t].order].status # "absent"

(* The order id is known: answer from its record, change nothing. *)
ReserveReplay(t) ==
  /\ ReserveAdmissible(t)
  /\ Known(t)
  /\ Return(t, IF req[t].order \in Held(req[t].account)
               THEN "APPROVED" ELSE "ORDER_ID_ALREADY_TERMINAL",
            {req[t].order})
  /\ UNCHANGED <<book, clock, restarts>>

(* Mutant: the limits are checked before the order id is looked up. *)
ReserveOverLimitFirst(t) ==
  /\ ReserveAdmissible(t)
  /\ OverLimit(req[t].account, req[t].intent)
  /\ Return(t, FirstExceeded(req[t].account, req[t].intent), {req[t].order})
  /\ UNCHANGED <<book, clock, restarts>>

ReserveOverLimit(t) ==
  /\ ReserveAdmissible(t)
  /\ ~Known(t)
  /\ OverLimit(req[t].account, req[t].intent)
  /\ Return(t, FirstExceeded(req[t].account, req[t].intent), {req[t].order})
  /\ UNCHANGED <<book, clock, restarts>>

(* Order o of account a is entered and counted. *)
Occupy(a, o, i, expires_at) ==
  /\ reservations' =
       [reservations EXCEPT ![a][o] =
          [status |-> "reserved", notional |-> Notional(i),
           margin |-> Margin(i), expires_at |-> expires_at]]
  /\ reserved_notional' = [reserved_notional EXCEPT ![a] = @ + Notional(i)]
  /\ reserved_margin' = [reserved_margin EXCEPT ![a] = @ + Margin(i)]
  /\ reserved_open_orders' = [reserved_open_orders EXCEPT ![a] = @ + 1]

(* Mutant: an order id that has ended may be used again. *)
ReserveGrantAgain(t) ==
  /\ ReserveAdmissible(t)
  /\ req[t].order \notin Held(req[t].account)
  /\ ~OverLimit(req[t].account, req[t].intent)
  /\ Occupy(req[t].account, req[t].order, req[t].intent,
            now[t] + TtlOf(req[t].ttl))
  /\ Return(t, "APPROVED", {req[t].order})
  /\ UNCHANGED <<ledgers, version, policy, clock, restarts>>

ReserveGrant(t) ==
  /\ ReserveAdmissible(t)
  /\ ~Known(t)
  /\ ~OverLimit(req[t].account, req[t].intent)
  /\ Occupy(req[t].account, req[t].order, req[t].intent,
            now[t] + TtlOf(req[t].ttl))
  /\ Return(t, "APPROVED", {req[t].order})
  /\ UNCHANGED <<ledgers, version, policy, clock, restarts>>

----------------------------------------------------------------------------
(* QueryReservation and ListActiveReservations: lock, read the clock, sweep *)

LockAndSweep(t, r) ==
  /\ pc[t] = "idle"
  /\ LockFree
  /\ r.account \in ledgers
  /\ pc' = [pc EXCEPT ![t] = "sweeping"]
  /\ req' = [req EXCEPT ![t] = r]
  /\ now' = [now EXCEPT ![t] = clock]
  /\ reply' = NoReply
  /\ UNCHANGED <<book, clock, restarts>>

QueryNoLedger(t, r) ==
  /\ LockFree
  /\ r.account \notin ledgers
  /\ ReturnAtOnce(t, "Query", "NOT_FOUND", {r.order})
  /\ UNCHANGED book

QueryReturn(t) ==
  LET known == reservations[req[t].account][req[t].order].status IN
  /\ Swept(t, "Query")
  /\ Return(t, IF known = "absent" THEN "NOT_FOUND" ELSE known, {req[t].order})
  /\ UNCHANGED <<book, clock, restarts>>

ListNoLedger(t, r) ==
  /\ LockFree
  /\ r.account \notin ledgers
  /\ ReturnAtOnce(t, "List", "OK", {})
  /\ UNCHANGED book

ListReturn(t) ==
  /\ Swept(t, "List")
  /\ Return(t, "OK", Held(req[t].account))
  /\ UNCHANGED <<book, clock, restarts>>

----------------------------------------------------------------------------
(* ReleaseOrder: no sweep; the reason only picks the final status          *)

ReleaseNoLedger(t, a, o) ==
  /\ LockFree
  /\ a \notin ledgers
  /\ ReturnAtOnce(t, "Release", "ACCOUNT_RISK_POLICY_NOT_FOUND", {o})
  /\ UNCHANGED book

ReleaseNothing(t, a, o) ==
  /\ LockFree
  /\ a \in ledgers
  /\ o \notin Held(a)
  /\ ReturnAtOnce(t, "Release", "released", {o})
  /\ UNCHANGED book

(* Mutant: a release does not look whether the reservation is still held. *)
ReleaseTwice(t, a, o, settled) ==
  /\ LockFree
  /\ a \in ledgers
  /\ reservations[a][o].status # "absent"
  /\ Vacate(a, o, IF settled THEN "settled" ELSE "released")
  /\ ReturnAtOnce(t, "Release", "released", {o})
  /\ UNCHANGED <<ledgers, version, policy>>

ReleaseHeld(t, a, o, settled) ==
  /\ LockFree
  /\ a \in ledgers
  /\ o \in Held(a)
  /\ Vacate(a, o, IF settled THEN "settled" ELSE "released")
  /\ ReturnAtOnce(t, "Release", "released", {o})
  /\ UNCHANGED <<ledgers, version, policy>>

----------------------------------------------------------------------------
(* Policy administration                                                   *)

GetAccountRiskPolicy(t, a) ==
  /\ LockFree
  /\ ReturnAtOnce(t, "GetPolicy", IF a \in ledgers THEN "OK" ELSE "NOT_FOUND", {})
  /\ UNCHANGED book

UpsertStale(t, a, v) ==
  /\ LockFree
  /\ version[a] > v
  /\ ReturnAtOnce(t, "Upsert", "FAILED_PRECONDITION", {})
  /\ UNCHANGED book

UpsertPolicy(t, a, v, p) ==
  /\ LockFree
  /\ version[a] <= v
  /\ ledgers' = ledgers \cup {a}
  /\ version' = [version EXCEPT ![a] = v]
  /\ policy' = [policy EXCEPT ![a] = p]
  /\ ReturnAtOnce(t, "Upsert", "OK", {})
  /\ UNCHANGED <<counters, reservations>>

(* An empty account or order id, or policy version 0: refused before the lock. *)
InvalidArgument(t, op) ==
  /\ ReturnAtOnce(t, op, "INVALID_ARGUMENT", {})
  /\ UNCHANGED book

----------------------------------------------------------------------------
(* The environment                                                         *)

Tick ==
  /\ clock < MaxClock
  /\ clock' = clock + 1
  /\ reply' = NoReply
  /\ UNCHANGED <<book, restarts, calls>>

(* The process dies at any point, also inside a call, and starts anew. *)
Restart ==
  /\ restarts < MaxRestarts
  /\ restarts' = restarts + 1
  /\ ledgers' = {}
  /\ version' = [a \in Accounts |-> 0]
  /\ policy' = [a \in Accounts |-> DefaultPolicy]
  /\ reserved_notional' = [a \in Accounts |-> 0]
  /\ reserved_margin' = [a \in Accounts |-> 0]
  /\ reserved_open_orders' = [a \in Accounts |-> 0]
  /\ reservations' = [a \in Accounts |-> [o \in OrderIds |-> Absent]]
  /\ pc' = [t \in Threads |-> "idle"]
  /\ req' = [t \in Threads |-> NoRequest]
  /\ now' = [t \in Threads |-> 0]
  /\ reply' = NoReply
  /\ UNCHANGED clock

(* What a thread does by itself once it has a request. *)
ReserveStep(t) ==
  \/ ReserveLock(t) \/ ReserveNoLedger(t)
  \/ ReserveRefused(t) \/ ReserveReplay(t)
  \/ ReserveOverLimit(t) \/ ReserveGrant(t)

ThreadStep(t) ==
  \/ ReserveStep(t)
  \/ \E o \in OrderIds : ExpireOne(t, o)
  \/ QueryReturn(t)
  \/ ListReturn(t)

(* What a thread does when a client's request reaches it. *)
ClientCall(t) ==
  \/ \E r \in ReserveRequests : ReserveArrive(t, r)
  \/ \E r \in QueryRequests : LockAndSweep(t, r) \/ QueryNoLedger(t, r)
  \/ \E r \in ListRequests : LockAndSweep(t, r) \/ ListNoLedger(t, r)
  \/ \E a \in Accounts, o \in OrderIds :
       \/ ReleaseNoLedger(t, a, o)
       \/ ReleaseNothing(t, a, o)
       \/ \E settled \in BOOLEAN : ReleaseHeld(t, a, o, settled)
  \/ \E a \in Accounts, v \in 1..MaxVersion :
       \/ UpsertStale(t, a, v)
       \/ \E p \in Policies : UpsertPolicy(t, a, v, p)
  \/ \E a \in Accounts : GetAccountRiskPolicy(t, a)
  \/ \E op \in {"Reserve", "Query", "Release", "Upsert"} : InvalidArgument(t, op)

Next ==
  \/ \E t \in Threads : ThreadStep(t) \/ ClientCall(t)
  \/ Tick
  \/ Restart

Spec == Init /\ [][Next]_vars

(* A thread inside the critical section runs on: nothing in it blocks. *)
FairSpec ==
  /\ Spec
  /\ \A t \in Threads : WF_vars(pc[t] = "sweeping" /\ ThreadStep(t))
  /\ WF_vars(Tick)

----------------------------------------------------------------------------
(* Properties                                                              *)

BookTypeOK ==
  /\ ledgers \subseteq Accounts
  /\ version \in [Accounts -> 0..MaxVersion]
  /\ policy \in [Accounts -> Limits]
  /\ reserved_notional \in [Accounts -> Int]
  /\ reserved_margin \in [Accounts -> Int]
  /\ reserved_open_orders \in [Accounts -> Nat]
  /\ reservations \in [Accounts -> [OrderIds -> Reservations]]

CallsTypeOK ==
  /\ pc \in [Threads -> {"idle", "waiting", "sweeping"}]
  /\ req \in [Threads -> Requests \cup {NoRequest}]
  /\ \A t \in Threads : pc[t] # "idle" => req[t] \in Requests
  /\ \A t \in Threads : pc[t] = "waiting" => req[t] \in ReserveRequests
  /\ now \in [Threads -> 0..MaxClock]

(* Every variable has its type; the counter of open orders, unsigned in    *)
(* the code, never goes below zero.                                        *)
TypeOK ==
  /\ BookTypeOK
  /\ CallsTypeOK
  /\ clock \in 0..MaxClock
  /\ restarts \in 0..MaxRestarts

NotionalOf(a) == [o \in OrderIds |-> reservations[a][o].notional]
MarginOf(a)   == [o \in OrderIds |-> reservations[a][o].margin]

(* A counter never falls short of the total over the reserved orders, and  *)
(* is that total while no record of the account has a negative amount: the *)
(* clamps of Vacate only ever raise it.                                    *)
Covers(counter, held, amount) ==
  /\ counter >= Total(held, amount)
  /\ (\A o \in OrderIds : amount[o] >= 0) => counter = Total(held, amount)

(* The three running counters of a ledger follow exactly the reservations  *)
(* that are still "reserved": no path of grant, release and sweep counts an *)
(* order twice, forgets one, or is saved by a clamp.  The code checks no   *)
(* sign; once an account has recorded a negative amount its two sums may   *)
(* be too high, but never too low.                                         *)
Balanced ==
  \A a \in Accounts :
    /\ Covers(reserved_notional[a], Held(a), NotionalOf(a))
    /\ Covers(reserved_margin[a], Held(a), MarginOf(a))
    /\ reserved_open_orders[a] = Cardinality(Held(a))

(* Within one life of the process an order id is granted at most once and  *)
(* its end is final: a retry that arrives after a release or an expiry     *)
(* never occupies quota again, and a record never changes its amounts.     *)
OrdersEndOnce ==
  [][restarts' = restarts =>
       \A a \in Accounts, o \in OrderIds :
         LET r == reservations[a][o] IN
         /\ r.status \in Terminal => reservations'[a][o] = r
         /\ r.status = "reserved" =>
              \E s \in {"reserved"} \cup Terminal :
                reservations'[a][o] = [r EXCEPT !.status = s]]_vars

(* A reservation is never marked expired before its deadline, although the *)
(* sweeper may work with a clock reading taken long before its turn.       *)
ExpiresOnlyWhenDue ==
  [][\A a \in Accounts, o \in OrderIds :
       /\ reservations[a][o].status = "reserved"
       /\ reservations'[a][o].status = "expired"
       => reservations[a][o].expires_at <= clock]_vars

(* Reserved orders of a that were not yet due at time n. *)
Live(a, n) == Held(a) \ Due(a, n)

(* The sum of these amounts and one more passes the limit, unless an       *)
(* amount recorded earlier was negative and has left the counter too high. *)
Passes(limit, buffer, S, amount, more) ==
  (\A o \in OrderIds : amount[o] >= 0) =>
    ~WithinLimit(limit, buffer, Total(S, amount) + more)

(* A rejection for a limit is earned: the order has no record, and the     *)
(* reservations that were not yet due when the request came in, together   *)
(* with its own amount, really exceed the limit that the answer names.  No *)
(* quota of a due reservation, no retried order and no limit of zero is    *)
(* held against a caller.                                                  *)
RejectionEarned ==
  [][\A t \in Threads :
       /\ pc[t] = "sweeping" /\ pc'[t] = "idle"
       /\ reply'.op = "Reserve" /\ reply'.outcome \in LimitRejections
       => LET a == req[t].account
              i == req[t].intent
              p == policy[a]
              L == Live(a, now[t])
          IN  /\ reservations[a][req[t].order].status = "absent"
              /\ reply'.outcome = "MAX_NOTIONAL_EXCEEDED" =>
                   Passes(p.max_notional, p.safety_buffer,
                          L, NotionalOf(a), Notional(i))
              /\ reply'.outcome = "MAX_MARGIN_EXCEEDED" =>
                   Passes(p.max_margin, p.safety_buffer, L, MarginOf(a), Margin(i))
              /\ reply'.outcome = "MAX_OPEN_ORDERS_EXCEEDED" =>
                   p.max_open_orders > 0 /\ Cardinality(L) + 1 > p.max_open_orders]_vars

(* A query or a listing never reports a reservation as reserved that was   *)
(* due when the handler ran, and a listing leaves none out that was not.   *)
RepliesAreFresh ==
  [][\A t \in Threads :
       pc[t] = "sweeping" /\ pc'[t] = "idle" =>
         LET alive == Live(req[t].account, now[t]) IN
         /\ reply'.op = "Query" =>
              (reply'.outcome = "reserved" <=> req[t].order \in alive)
         /\ reply'.op = "List" => reply'.orders = alive]_vars

(* The ledger keeps the promise of AccountQuota: its running counters,     *)
(* clamps, lazy sweeps and handler threads amount to orders that take      *)
(* quota once, within limits on the true sums that had not lapsed when the *)
(* order's deadline was counted, and give it back once.                    *)
Life(status) == IF status = "absent" THEN "fresh"
                ELSE IF status = "reserved" THEN "held" ELSE "ended"

Occupied(r) == [notional |-> r.notional, margin |-> r.margin]

Quota == INSTANCE AccountQuota WITH
  Amounts  <- {[notional |-> Notional(i), margin |-> Margin(i)] : i \in Intents},
  Durations <- {TtlOf(ttl) : ttl \in Ttls},
  NoLimits <- DefaultPolicy,
  time     <- clock,
  limits   <- policy,
  life     <- [a \in Accounts |-> [o \in OrderIds |->
                 Life(reservations[a][o].status)]],
  amount   <- [a \in Accounts |-> [o \in OrderIds |->
                 Occupied(reservations[a][o])]],
  until    <- [a \in Accounts |-> [o \in OrderIds |->
                 reservations[a][o].expires_at]]

KeepsQuota == Quota!Spec
============================================================================
