--------------------------- MODULE ReservedTotals ---------------------------
(* Totals of integer amounts over a set of orders, and limits on them. *)
EXTENDS Integers, FiniteSets

(* An amount counted unit by unit, so that the sum of amount[o] over S can *)
(* be reasoned about with cardinalities: the pairs of an order in S and one *)
(* of its positive units, less the pairs with one of its negative units.   *)
Units(S, amount)   == UNION {{o} \X (1..amount[o]) : o \in S}
Deficit(S, amount) == UNION {{o} \X (1..(-amount[o])) : o \in S}
Total(S, amount)   == Cardinality(Units(S, amount)) - Cardinality(Deficit(S, amount))

(* A limit of zero does not limit. *)
WithinLimit(limit, buffer, total) == limit > 0 => total <= limit - buffer
=============================================================================
