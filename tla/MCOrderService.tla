--------------------------- MODULE MCOrderService ---------------------------
(* Small instances of OrderService for TLC. *)
EXTENDS OrderService, TLC

\* Threads and customers are interchangeable.
Symmetry == Permutations(Clients) \union Permutations(Users)

=============================================================================
