------------------------------- MODULE RingMC -------------------------------
EXTENDS Ring

\* Every ring of up to 4 points with 3 hashes, equal ones among them.
SmallRings ==
  {ring \in UNION {[1..n -> [hash : {1, 2, 3}, peer : Peers]] : n \in 1..4} :
     \A a, b \in DOMAIN ring : a <= b => ring[a].hash <= ring[b].hash}

=============================================================================
