------------------------------- MODULE RaftMC -------------------------------
\* Raft for TLC: the commands are interchangeable; the nodes are not, because
\* they are asked in a fixed order.
EXTENDS Raft, TLC

Symmetry == Permutations(Cmds)
=============================================================================
