----------------------------- MODULE MCMinHeap -----------------------------
(* MinHeap on small instances: the values are interchangeable. *)
EXTENDS MinHeap, TLC

ValSymmetry == Permutations(Val)
=============================================================================
