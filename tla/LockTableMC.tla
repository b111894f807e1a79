---------------------------- MODULE LockTableMC ----------------------------
\* LockTable for TLC: the clients and resources are interchangeable.
EXTENDS LockTable, TLC

Symmetry == Permutations(Clients) \cup Permutations(Resources)
=============================================================================
