SPECIFICATION Spec
CONSTANT Clients = {c1, c2, c3}
INVARIANTS TypeOK AlarmIsCycle SilenceIsAcyclic
PROPERTY SearchIsLinear
\* A probe ends with its answer.
CHECK_DEADLOCK FALSE
