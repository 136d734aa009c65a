SPECIFICATION FairSpec
CONSTANTS
  Feeds = {binance, kraken, okx}
  Liars = {okx}
  Mids = {1000, 1015}
  LiarMids = {1056, 1500}
  MinFeeds = 2
  Stale = 1
  MaxDispersion = 200
  Flaky = {kraken}
  MaxFaults = 2
INVARIANTS SignalIsFresh LiarIsOutvoted
PROPERTY FeedsRecover
CHECK_DEADLOCK FALSE
