SPECIFICATION OrderlySpec
CONSTANTS
  MaxIntents = 3
  MaxAttempts = 2
  NonceStallBlocks = 1
  MaxExternal = 1
  MaxCrashes = 1
  Faults = {"crash", "revert", "evict", "external", "abort", "reject", "recoveryRpc", "mineDuringRecovery", "clearFails"}
INVARIANTS Fence ObligationKept SwapOnce SwapHasCause PlansWhenBalanced
