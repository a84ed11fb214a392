----------------------------- MODULE MCPyProxies -----------------------------
(* PyProxies for TLC: every set of names is interchangeable.               *)
EXTENDS PyProxies, TLC

Symmetry ==
  Permutations(Threads) \cup Permutations(MIs) \cup Permutations(Brokers)
    \cup Permutations(Proxies)

=============================================================================
