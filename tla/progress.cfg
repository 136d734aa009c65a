SPECIFICATION FairSpec
CONSTANTS
  MaxIntents = 4
  MaxAttempts = 1
  NonceStallBlocks = 1
  MaxExternal = 0
  MaxCrashes = 0
  Faults = {"abort", "revert", "evict", "reject"}
PROPERTIES ImplementsProtocol PendingIsSettled BookIsBalanced
