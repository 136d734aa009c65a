SPECIFICATION Spec
CONSTANTS
  Unit = 100
  Spacing = 2
  MaxRatio = 8
  FloorBps = 100
  ThresholdBps = 500
  TimedMinBps = 200
  Offsets = {0, 1000}
  MaxSlots = 2
  SanityMax = 2
  SlippageTicks = 1
  ReserveBps = 3328
  RequireBps = 12000
  FeeBps = 100
  BalanceFirst = {TRUE, FALSE}
  Venue = {TRUE, FALSE}
  HedgeWallet = {TRUE, FALSE}
  TicksBelow = 1
  TicksAbove = 1
  OptionDeltas = {0, 2000}
  OptionSize = 20000
  StartAsset = 10000
  StartNumeraire = 10000
  LoanSizes = {4000}
  StartLoans = 2
  Transfer = 2000
  MaxMoves = 2
  MaxQuiet = 7
INVARIANTS SettlesQuickly DriftIsPlanned
PROPERTIES Approaches ConsolidationKeepsHedge ReserveSurvives
CHECK_DEADLOCK FALSE
