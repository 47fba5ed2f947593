\* A sync, a refresh and a watchlist in one process.
SPECIFICATION FairSpec
CONSTANTS
  m1 = m1
  m2 = m2
  m3 = m3
  y = y
  r = r
  w = w
  p = p
  Markets = {m1, m2, m3}
  Pk <- MCPk
  Watched = {m2, m3}
  Tokens = {m1, m3}
  None = None
  Syncs = {y}
  Refreshers = {r}
  Watchers = {w}
  Processes = {p}
  ProcessOf <- MCProcessOf
  Listings <- MCListings
  Lineups <- MCLineups
  Books <- MCBooks
  Winners <- MCWinners
  ClobLimit = 2
  MaxStarts = 3
  MaxAborts = 1
INVARIANTS QuotesAgree QuotesEvidenced
PROPERTIES WinnerKept SyncEnds
CHECK_DEADLOCK FALSE
