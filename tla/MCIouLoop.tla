----------------------------- MODULE MCIouLoop -----------------------------
(***************************************************************************)
(* Model checking of IouLoop.                                              *)
(***************************************************************************)
EXTENDS IouLoop, TLC

\* The tasks that are not timers are interchangeable.
Symmetry == Permutations(Task \ Timer)
=============================================================================
