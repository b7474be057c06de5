------------------------------- MODULE Totals -------------------------------
(***************************************************************************)
(* What the values of a function into the naturals add up to: sum() over   *)
(* the values of a dict.  The units are counted, each with the argument it *)
(* is of, so that cardinalities say all there is to say of sums.           *)
(***************************************************************************)
EXTENDS Naturals, FiniteSets

Units(f) == UNION {{x} \X (1..f[x]) : x \in DOMAIN f}
Total(f) == Cardinality(Units(f))
=============================================================================
