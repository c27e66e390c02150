----------------------------- MODULE MCCoreImpl -----------------------------
(* CoreImpl on a small instance: the empty message is the boundary case,    *)
(* and lengths that differ by one are where the NUL decides.                *)
EXTENDS CoreImpl

MCLengths == 0 .. 1

=============================================================================
