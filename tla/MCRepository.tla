---------------------------- MODULE MCRepository -----------------------------
(***************************************************************************)
(* Two sessions over two pooled connections, one tenant, two rows.         *)
(***************************************************************************)
EXTENDS Repository, TLC

Symmetry == Permutations(Sessions) \cup Permutations(Conns)

=============================================================================
