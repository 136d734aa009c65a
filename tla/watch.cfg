SPECIFICATION FairSpec
CONSTANTS
  MaxTick = 8
  Threshold = 200
  Slope = 100
  MaxFee = 20
  MaxPriority = 2
  MinPriority = 1
  UrgentPriority = 2
  HedgeMaxBase = 4
  UrgentMaxBase = 8
  BaseFees = {3, 7, 12}
  Estimate = 0
  Need = 3
  UrgentMultiplier = 2
  RetryAfter = 2
  MaxMoves = 3
INVARIANT BandsAgree
PROPERTIES ReplacementClears DriftIsAnswered
CHECK_DEADLOCK FALSE
