---------------------------- MODULE AccountQuota ----------------------------
(***************************************************************************)
(* What the account risk service promises, without threads, sweeps or      *)
(* running counters: every account has limits and a set of orders that     *)
(* hold quota; an order gets quota at most once, only while the sum over   *)
(* the holders fits the limits of the moment, and gives it back at most    *)
(* once.  The deadline an order is given is counted from a time at which   *)
(* these limits had not lapsed.  The promise does not outlive the process: *)
(* Forget.                                                                 *)
(***************************************************************************)
EXTENDS ReservedTotals

CONSTANTS
  Accounts,
  OrderIds,
  Amounts,     \* what an order can occupy: records of notional and margin
  Durations,   \* how long an order may hold its quota
  Policies,    \* limits an administrator sets
  MaxVersion,
  NoLimits     \* the limits of an account that was never configured: disabled

VARIABLES
  time,        \* the present
  version,     \* account -> version of its limits
  limits,      \* account -> its limits
  life,        \* account -> order -> "fresh", "held" or "ended"
  amount,      \* account -> order -> what it occupies
  until        \* account -> order -> its deadline

vars == <<time, version, limits, life, amount, until>>

Holders(a)  == {o \in OrderIds : life[a][o] = "held"}
Notional(a) == Total(Holders(a), [o \in OrderIds |-> amount[a][o].notional])
Margin(a)   == Total(Holders(a), [o \in OrderIds |-> amount[a][o].margin])

Nothing == [notional |-> 0, margin |-> 0]

(* These limits can be granted on at time n; 0 means that they never lapse. *)
InForce(p, n) == p.enabled /\ (p.valid_until > 0 => n <= p.valid_until)

Init ==
  /\ time = 0
  /\ version = [a \in Accounts |-> 0]
  /\ limits = [a \in Accounts |-> NoLimits]
  /\ life = [a \in Accounts |-> [o \in OrderIds |-> "fresh"]]
  /\ amount = [a \in Accounts |-> [o \in OrderIds |-> Nothing]]
  /\ until = [a \in Accounts |-> [o \in OrderIds |-> 0]]

(* Order o obtains quota x for the duration d from some time n that has    *)
(* come; the sums that include it fit the limits.                          *)
Grant(a, o, x, n, d) ==
  /\ life[a][o] = "fresh"
  /\ InForce(limits[a], n)
  /\ until' = [until EXCEPT ![a][o] = n + d]
  /\ life' = [life EXCEPT ![a][o] = "held"]
  /\ amount' = [amount EXCEPT ![a][o] = x]
  /\ WithinLimit(limits[a].max_notional, limits[a].safety_buffer, Notional(a)')
  /\ WithinLimit(limits[a].max_margin, limits[a].safety_buffer, Margin(a)')
  /\ limits[a].max_open_orders > 0 =>
       Cardinality(Holders(a)') <= limits[a].max_open_orders
  /\ UNCHANGED <<time, version, limits>>

(* Order o gives its quota back, for good. *)
End(a, o) ==
  /\ life[a][o] = "held"
  /\ life' = [life EXCEPT ![a][o] = "ended"]
  /\ UNCHANGED <<time, version, limits, amount, until>>

Administer(a, v, p) ==
  /\ v >= version[a]
  /\ version' = [version EXCEPT ![a] = v]
  /\ limits' = [limits EXCEPT ![a] = p]
  /\ UNCHANGED <<time, life, amount, until>>

Forget ==
  /\ version' = [a \in Accounts |-> 0]
  /\ limits' = [a \in Accounts |-> NoLimits]
  /\ life' = [a \in Accounts |-> [o \in OrderIds |-> "fresh"]]
  /\ amount' = [a \in Accounts |-> [o \in OrderIds |-> Nothing]]
  /\ until' = [a \in Accounts |-> [o \in OrderIds |-> 0]]
  /\ UNCHANGED time

TimePasses ==
  /\ time' > time
  /\ UNCHANGED <<version, limits, life, amount, until>>

Next ==
  \/ \E a \in Accounts, o \in OrderIds :
       End(a, o) \/ \E x \in Amounts, n \in 0..time, d \in Durations : Grant(a, o, x, n, d)
  \/ \E a \in Accounts, v \in 1..MaxVersion, p \in Policies : Administer(a, v, p)
  \/ TimePasses
  \/ Forget

Spec == Init /\ [][Next]_vars
=============================================================================
