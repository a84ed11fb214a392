----------------------------- MODULE MCPyTarget -----------------------------
(* PyTarget for TLC: threads and MIs are interchangeable.                  *)
EXTENDS PyTarget, TLC

Symmetry == Permutations(Threads) \cup Permutations(MIs)

=============================================================================
