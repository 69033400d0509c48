------------------------------- MODULE MCPpa -------------------------------
(* The page allocator on two maximal blocks of four pages.                 *)
EXTENDS Ppa, TLC

Symmetry == Permutations(Clients)

=============================================================================
