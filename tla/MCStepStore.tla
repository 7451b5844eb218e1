----------------------------- MODULE MCStepStore -----------------------------
(***************************************************************************)
(* StepStore for TLC: a few interchangeable writers, one place they race   *)
(* for and, in some runs, another beside it.                               *)
(***************************************************************************)
EXTENDS StepStore, TLC

WriterSymmetry == Permutations(Writers)
=============================================================================
