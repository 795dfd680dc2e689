------------------------------ MODULE MCKArena ------------------------------
(* A small arena: three programs, one of them linked to the arena's bottom. *)
EXTENDS KArena, TLC

MCImages == {[text |-> 1, data |-> 1, home |-> 0],
             [text |-> 3, data |-> 1, home |-> 0],
             [text |-> 1, data |-> 1, home |-> 1]}
MCSymmetry == Permutations(Slots)
=============================================================================
