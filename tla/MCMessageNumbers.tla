-------------------------- MODULE MCMessageNumbers --------------------------
(* MessageNumbers for TLC. *)
EXTENDS MessageNumbers, TLC

Symmetry == Permutations(Threads) \union Permutations(Conversations)

=============================================================================
