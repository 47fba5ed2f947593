\* A backtest beside a backfill and syncs, with a failure anywhere.
SPECIFICATION ReplaySpec
CONSTANTS
  s1 = s1
  s2 = s2
  m1 = m1
  b1 = b1
  r1 = r1
  Signals = {s1, s2}
  NoSignal = NoSignal
  Markets = {m1}
  NoMarket = NoMarket
  Fixtures = {}
  MarketOf <- MCMarketOf
  SideOf <- MCSideOf
  Published <- MCPublished
  Confident = {}
  EndOf <- MCEndOf
  Answers <- MCAnswers
  Backfills = {b1}
  Limit = 1
  Window = 2
  PreShort = 0
  PreLong = 0
  Top = 20
  ShortRises <- MCShortRises
  HighSums = {}
  Quotes <- MCQuotes
  Delay = 1
  MaxTime = 2
  MaxSnaps <- MCMaxSnaps
  MaxAborts = 0
  Runs = {r1}
  FetchedAt <- MCFetchedAt
  Unread = {s2}
  Lookback = 1
  ReplayLimit = 2
  MinCoverage = 2
  Windows <- MCWindows
  Horizon = 2
  OnDisk = TRUE
  MaxErrors = 1
INVARIANTS AllOrNothing SummaryTrue FiguresAgree
CHECK_DEADLOCK FALSE
