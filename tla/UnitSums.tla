------------------------------- MODULE UnitSums -------------------------------
(***************************************************************************)
(* Sums of a budget over its holders.  g is a function whose values are    *)
(* natural numbers; Units(g) has one element for every unit some x in its  *)
(* domain holds, so that the sum is the number of units.                   *)
(***************************************************************************)
EXTENDS Integers, FiniteSets

Units(g) == UNION {{x} \X (1..g[x]) : x \in DOMAIN g}

SumOf(g) == Cardinality(Units(g))
===============================================================================
