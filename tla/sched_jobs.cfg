SPECIFICATION FairSpec
CONSTANTS
  MaxBlock = 2
  MaxAttempts = 2
  Faults = {"pendingAtStart", "initFails", "cycleFails", "heartbeat", "monitorRpc", "poke", "relay", "shutdown"}
INVARIANTS TypeOK AloneWithTheJournal NoTriggerStranded
PROPERTIES NothingStartsWhileStopping ChangeReachesSnapshot
CHECK_DEADLOCK FALSE
