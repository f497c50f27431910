------------------------------- MODULE Totals -------------------------------
(***************************************************************************)
(* Sums as cardinalities: a sum that says nothing of the order in which it  *)
(* is taken.                                                                *)
(***************************************************************************)
EXTENDS Integers, FiniteSets

\* As many units as each f[x] says, told apart by their x.
Units(f) == UNION {{x} \X (1..f[x]) : x \in DOMAIN f}

\* The sum of the natural numbers f[x].
Total(f) == Cardinality(Units(f))
=============================================================================
