------------------------------- MODULE Loops -------------------------------
(***************************************************************************)
(* A loop of the source in an expression: its body is a function on the    *)
(* values of the variables it changes, which it leaves as they are once    *)
(* the loop has ended.                                                     *)
(***************************************************************************)
EXTENDS Naturals

\* The variables after n iterations of body, when they are s at first.
After(n, body, s) ==
    LET loop[k \in Nat] == IF k = 0 THEN s ELSE body[loop[k - 1]]
    IN  loop[n]
=============================================================================
