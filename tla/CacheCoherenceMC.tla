-------------------------- MODULE CacheCoherenceMC --------------------------
\* CacheCoherence for TLC: nodes, keys and calls are interchangeable.
EXTENDS CacheCoherence, TLC

Symmetry == Permutations(Nodes) \cup Permutations(Keys) \cup Permutations(Calls)
=============================================================================
