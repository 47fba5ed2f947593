SPECIFICATION FairSpec
CONSTANTS
  s1 = s1
  s2 = s2
  s3 = s3
  m1 = m1
  m2 = m1
  b1 = b1
  b2 = b2
  Signals = {s1, s2}
  NoSignal = NoSignal
  Markets = {m1}
  NoMarket = NoMarket
  Fixtures = {}
  MarketOf <- MCMarketOf
  SideOf <- MCSideOf
  Published <- MCPublished
  Confident = {s1}
  EndOf <- MCEndOf
  Answers <- MCAnswers
  Backfills = {b1}
  Limit = 1
  Window = 2
  PreShort = 1
  PreLong = 1
  Top = 20
  ShortRises <- MCShortRises
  HighSums <- MCHighSums
  Quotes <- MCQuotes
  Delay = 0
  MaxTime = 3
  MaxSnaps <- MCMaxSnaps
  MaxAborts = 0
CHECK_DEADLOCK FALSE
PROPERTIES EverySignalMeasured
