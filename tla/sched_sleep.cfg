SPECIFICATION AttentiveSpec
CONSTANTS
  MaxBlock = 3
  MaxAttempts = 2
  Faults = {"pendingAtStart", "initFails", "cycleFails", "heartbeat", "monitorRpc", "poke", "relay", "shutdown"}
INVARIANT SleepsOnFreshBands
CHECK_DEADLOCK FALSE
