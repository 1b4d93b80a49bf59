\* A worker that has completed its sync is over just before the kill or its arrival.
SPECIFICATION CommandSpec
CONSTANT Readers = {c1}
INVARIANT TimeoutIsNotSynced
CHECK_DEADLOCK FALSE
