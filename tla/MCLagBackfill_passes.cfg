SPECIFICATION Spec
CONSTANTS
  s1 = s1
  s2 = s2
  s3 = s3
  m1 = m1
  m2 = m2
  b1 = b1
  b2 = b2
  Signals = {s1, s2, s3}
  NoSignal = NoSignal
  Markets = {m1, m2}
  NoMarket = NoMarket
  Fixtures = {m2}
  MarketOf <- MCMarketOf
  SideOf <- MCSideOf
  Published <- MCPublished
  Confident = {s2}
  EndOf <- MCEndOf
  Answers <- MCAnswers
  Backfills = {b1, b2}
  Limit = 3
  Window = 2
  PreShort = 1
  PreLong = 1
  Top = 20
  ShortRises <- MCShortRises
  HighSums <- MCHighSums
  Quotes <- MCQuotes
  Delay = 0
  MaxTime = 2
  MaxSnaps <- MCMaxSnaps
  MaxAborts = 1
CHECK_DEADLOCK FALSE
SYMMETRY AnyBackfill
INVARIANTS CrossingsCohere LeakyHasEvidence
PROPERTIES MeasuredOnce
