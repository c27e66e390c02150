--------------------------- MODULE MCPluginLoader ---------------------------
(* PluginLoader on a small instance. *)
EXTENDS PluginLoader, TLC

Symmetry ==
  Permutations(Threads) \union Permutations(Files) \union Permutations(Handles)

=============================================================================
