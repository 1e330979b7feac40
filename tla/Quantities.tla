----------------------------- MODULE Quantities -----------------------------
(***************************************************************************)
(* Sums of integer columns over a set of table rows.                       *)
(*                                                                         *)
(* The application adds up columns with Array.prototype.reduce             *)
(* (src/src/lib/allocations.ts).  A quantity is a number of indivisible    *)
(* pieces, so the sum of a column f is the number of pieces <<row, i>>     *)
(* with 1 <= i <= f[row].  Stating the sum as a cardinality, and not as a  *)
(* recursion, lets the lemmas of Quantities_proofs be proved from the      *)
(* library's facts on finite sets.                                         *)
(***************************************************************************)
EXTENDS Integers, FiniteSets

Pieces(f) == UNION {{x} \X (1 .. f[x]) : x \in DOMAIN f}

Total(f) == Cardinality(Pieces(f))

=============================================================================
