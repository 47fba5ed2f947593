\* Two runs that overlap do what one would not.
SPECIFICATION Spec
CONSTANTS
  a1 = a1
  a2 = a2
  m1 = m1
  m2 = m2
  Runs = {r1, r2}
  Articles = {a1}
  Markets = {m1}
  Keyworded <- OneArticle
  ArticleLimit = 1
  MaxConfirmed = 1
  Llm = "anthropic"
  Answers <- MCAnswers
  MaxCalls = 1
  BatchSize = 1
  Concurrency = 1
  QueueLimit = 2
  MaxSignals = 3
  MaxFailures = 1
INVARIANT OneTradePerPair
CHECK_DEADLOCK FALSE
