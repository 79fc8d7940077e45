------------------------ MODULE MCAccountRiskLedger ------------------------
(* Small instances of AccountRiskLedger for TLC. *)
EXTENDS AccountRiskLedger, FiniteSetsExt, TLC

Intent(price, quantity, notional, margin) ==
  [price |-> price, quantity |-> quantity,
   estimated_notional |-> notional, estimated_margin |-> margin]

(* An order of notional 2, from price and quantity, and margin 1. *)
OneIntent == {Intent(2, 1, 0, 1)}

Policy(until, notional, margin, gross, orders, buffer, enabled) ==
  [valid_until |-> until, max_notional |-> notional, max_margin |-> margin,
   max_gross_exposure |-> gross, max_open_orders |-> orders,
   safety_buffer |-> buffer, enabled |-> enabled]

(* The notional binds: 4 - 1 leaves room for one order of 2, and only the  *)
(* buffer refuses the second.  The order count binds in a policy that      *)
(* lapses, the margin in it too; a third policy is switched off.           *)
ChangingPolicies ==
  {Policy(0, 4, 0, 0, 0, 1, TRUE), Policy(1, 0, 3, 0, 1, 1, TRUE),
   Policy(0, 0, 0, 0, 0, 0, FALSE)}
OpenPolicy == {Policy(0, 0, 0, 0, 0, 0, TRUE)}

TtlDefault == {0}

Symmetry == Permutations(OrderIds) \cup Permutations(Threads)

----------------------------------------------------------------------------
(* What comments of the repository say of the ledger and the code does     *)
(* otherwise.                                                              *)

(* account_risk.proto: a reservation that was refused (REJECTED) holds     *)
(* nothing.  A retry whose first answer was lost can be refused for the    *)
(* policy's version although the first call's reservation is held.         *)
RejectedHoldsNothing ==
  [][\A t \in Threads :
       /\ pc[t] = "sweeping" /\ pc'[t] = "idle"
       /\ reply'.op = "Reserve" /\ reply'.outcome # "APPROVED"
       => reservations'[req[t].account][req[t].order].status # "reserved"]_vars

(* The bootstrap configuration names a scan interval for expired           *)
(* reservations.  Nothing scans: a due reservation waits for a call.       *)
DueGetsSwept ==
  \A a \in Accounts, o \in OrderIds :
    o \in Due(a, clock) ~> o \notin Held(a)
=============================================================================
