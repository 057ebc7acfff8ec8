----------------------------- MODULE MCPcasIndex -----------------------------
(* TLC instances of PcasIndex. *)
EXTENDS PcasIndex, TLC

Symmetry ==
    Permutations(Procs) \cup Permutations(Paths) \cup Permutations(Inodes)
    \cup Permutations(Digests)
=============================================================================
