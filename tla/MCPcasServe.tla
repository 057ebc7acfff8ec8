----------------------------- MODULE MCPcasServe -----------------------------
(* TLC instances of PcasServe. *)
EXTENDS PcasServe, TLC

Symmetry ==
    Permutations(Paths) \cup Permutations(Inodes) \cup Permutations(Digests)
    \cup Permutations(Clients)
=============================================================================
