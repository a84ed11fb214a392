------------------------------ MODULE MCUpcall ------------------------------
(* Upcall for TLC: threads are interchangeable.                            *)
EXTENDS Upcall, TLC

Symmetry == Permutations(Threads)

=============================================================================
