---------------------------- MODULE MCPakLoader ----------------------------
(* A small instance of PakLoader for TLC. *)
EXTENDS PakLoader, TLC

\* Threads are interchangeable.
Symmetry == Permutations(Threads)
=============================================================================
