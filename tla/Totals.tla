------------------------------- MODULE Totals -------------------------------
(***************************************************************************)
(* The sum of a sequence of numbers.                                       *)
(***************************************************************************)
EXTENDS Integers, Sequences, SequencesExt

Total(numbers) == FoldLeft(LAMBDA m, n : m + n, 0, numbers)
=============================================================================
