\* One pass at a time, and a batch that holds every trade.
SPECIFICATION FairSpec
CONSTANTS
  t1 = t1
  t2 = t2
  m1 = m1
  m2 = m1
  Answers <- OneAnswer
  Trades = {t1, t2}
  Live = {t1}
  Markets = {m1}
  NoMarket = NoMarket
  Settlers = {p1}
  MarketOf <- MCMarketOf
  SideOf <- MCSideOf
  PubTime <- MCPubTime
  Horizon = 3
  MaxSkew = 1
  MaxAge = 1
  BatchLimit = 2
  MaxTime = 4
  MaxSnaps = 2
  MaxAborts = 1
INVARIANTS NoHindsight NoEarlyMark
PROPERTIES KeepsTheBook ResolvedIsSettled MarkableIsSettled
