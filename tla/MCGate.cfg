SPECIFICATION Spec
CONSTANT Threads = {t1, t2, t3}
INVARIANTS GateTypeOK WatchedWereApproved
PROPERTY GateEnds
CHECK_DEADLOCK FALSE
