\* Orders of three sizes against books and quotes of every shape, settled at every price.
SPECIFICATION Spec
CONSTANTS
  Dollar = 4
  Slip = 1
  BaseNotional = 12
  Multipliers = {0, 2, 20}
  MostContracts = 12
  EntryRate = 1
  WinRate = 2
  Whole = 10
  Books <- MCBooks
  Quotes <- MCQuotes
INVARIANTS BestExecution RightIsPaid MarkAgrees
CHECK_DEADLOCK FALSE
