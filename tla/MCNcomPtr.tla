----------------------------- MODULE MCNcomPtr -----------------------------
(* NcomPtr on a small instance.  Objects are interchangeable, and so are   *)
(* the client's variables.                                                 *)
EXTENDS NcomPtr, TLC

MCSymmetry == Permutations(Objs) \union Permutations(Locals)

=============================================================================
