------------------------------- MODULE MCQue -------------------------------
(* Model checking of Que, Exeq and FlushScan. *)
EXTENDS Exeq, FlushScan
=============================================================================
