SPECIFICATION TimelySpec
CONSTANTS
  Instances = {p, q, r}
  LeaseTime = 2
  MaxTime = 4
  Faults = {"crash", "interleave", "stall"}
INVARIANTS OneSender LockIsReadable
PROPERTY UnexpiredIsKept
CHECK_DEADLOCK FALSE
