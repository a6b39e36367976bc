------------------------------- MODULE Totals -------------------------------
(***************************************************************************)
(* The sum of the values of a function into 0..bound, as the cardinality   *)
(* of a disjoint union: one point <<a, k>> for every unit k that a holds.  *)
(* It needs no recursion, so TLC evaluates it and TLAPS proves its laws    *)
(* (BoundlessMarketProofs).                                                *)
(***************************************************************************)
EXTENDS Integers, FiniteSets

Units(f, bound) == {u \in (DOMAIN f) \X (1..bound) : u[2] <= f[u[1]]}

Total(f, bound) == Cardinality(Units(f, bound))

=============================================================================
