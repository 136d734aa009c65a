SPECIFICATION FairSpec
CONSTANTS
  N = 2
  Cooldown = 2
  Buffers = {0, 1, 2}
INVARIANTS TypeOK IncidentCovers SelectionSuffices
PROPERTIES DeleverageEnds RiskIsAnswered
