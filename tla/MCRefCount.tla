----------------------------- MODULE MCRefCount -----------------------------
(* RefCount on a small instance, with the narrowest counter that fits the   *)
(* references: it would wrap on the first count too many.                   *)
EXTENDS RefCount

MCModulus == Cardinality(Refs) + 1

=============================================================================
