---------------------------- MODULE MCLifecycle ----------------------------
(* Lifecycle and FileScan on small instances. *)
EXTENDS Lifecycle, FileScan, TLC

FdSymmetry == Permutations(Fd)
=============================================================================
