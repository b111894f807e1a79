---------------------------- MODULE ShardQueueMC ----------------------------
\* ShardQueue for TLC: messages, consumers and ackers are interchangeable.
EXTENDS ShardQueue, TLC

Symmetry == Permutations(Msgs) \cup Permutations(Consumers) \cup Permutations(Ackers)

\* A constraint for properties that say nothing more of a tainted message, which
\* stays tainted: TLC need not look behind the last one.
Untainted == tainted # Msgs
=============================================================================
