------------------------------ MODULE MCKFlash ------------------------------
(* KFlash with a golden image of zero sectors. *)
EXTENDS KFlash
CONSTANT zero
MCgolden == [i \in 1..NSECT |-> zero]
=============================================================================
