SPECIFICATION Spec
CONSTANTS
  MaxIntents = 2
  MaxAttempts = 2
  NonceStallBlocks = 1
  MaxExternal = 1
  MaxCrashes = 1
  Faults = {"crash", "revert", "evict", "external", "abort", "reject", "sendTimeout", "resendTimeout", "alreadyKnown", "receiptRpc", "killSwitch", "recoveryRpc", "mineDuringRecovery", "clearFails", "legacyFees"}
INVARIANTS TypeOK RelayFence LandsOnce
