\* One run at a time: the table of signals as it looks from outside, and in the end.
SPECIFICATION FairSpec
CONSTANTS
  a1 = a1
  a2 = a2
  m1 = m1
  m2 = m2
  Runs = {r1}
  Articles = {a1, a2}
  Markets = {m1, m2}
  Keyworded <- MCKeyworded
  ArticleLimit = 2
  MaxConfirmed = 1
  Llm = "openai"
  Answers <- MCAnswers
  MaxCalls = 2
  BatchSize = 1
  Concurrency = 2
  QueueLimit = 2
  MaxSignals = 4
  MaxFailures = 1
INVARIANTS TypeOK BudgetRespected ActMeasured
PROPERTIES ImplementsLedger CandidatesDecided LlmFailSafe
CHECK_DEADLOCK FALSE
