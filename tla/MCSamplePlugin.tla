--------------------------- MODULE MCSamplePlugin ---------------------------
(* SamplePlugin on a small instance. *)
EXTENDS SamplePlugin, TLC

Symmetry == Permutations(Blocks) \union Permutations(Slots)

=============================================================================
