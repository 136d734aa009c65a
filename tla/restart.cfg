SPECIFICATION Spec
CONSTANTS
  MaxIntents = 2
  MaxAttempts = 1
  NonceStallBlocks = 1
  MaxExternal = 0
  MaxCrashes = 1
  Faults = {"crash"}
INVARIANT ConfirmedDispatchOwed
