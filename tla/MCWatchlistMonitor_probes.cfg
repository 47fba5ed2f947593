\* Two overlapping monitors of two markets, with a thin book, a change and a failure.
SPECIFICATION FairSpec
CONSTANTS
  m1 = m1
  m2 = m2
  Monitors = {p1, p2}
  Markets = {m1, m2}
  AutoMarkets = {m1, m2}
  Deep = {m2}
  LowAsk = 2
  MaxAsk = 98
  MaxSpread = 15
  MaxTrades = 1
  Quotes <- MCQuotes
  FirstQuote <- MCFirstQuote
  MaxChanges = 1
  MaxFailures = 1
INVARIANTS TypeOK ProbesBounded
PROPERTIES FitIsProbed
CHECK_DEADLOCK FALSE
