SPECIFICATION Spec
CONSTANTS
  Modifiers = {m1, m2, m3}
  NoModifier = NoModifier
  Old = m1
  Keys = {1, 2}
  ForceFlag = FALSE
  MaxRuns = 3
  MaxFlight = 2
INVARIANTS KeyOutlivesFunds TradesInsideScope ApprovedOnly QuietAfterDeactivation
CHECK_DEADLOCK FALSE
