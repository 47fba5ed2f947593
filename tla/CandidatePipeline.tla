--------------------------- MODULE CandidatePipeline ---------------------------
(***************************************************************************)
(* From articles to paper trades: app/jobs/process_candidates.py with the  *)
(* LLM calls of app/core/interpret.py, the gate of app/core/gating.py and  *)
(* the trade of app/core/paper.py.                                         *)
(*                                                                         *)
(* A run matches recent articles to markets, commits a CANDIDATE signal    *)
(* for each new pair, then hands the stored CANDIDATEs to workers.  Every  *)
(* worker has a database session of its own: it checks its signal, waits   *)
(* for the LLM, and only then writes the decision and maybe a trade.  The  *)
(* loop, the warm start, the cron endpoints and the button of the UI may   *)
(* each have a run in progress.                                            *)
(*                                                                         *)
(* A worker's first write locks the row of its signal until it commits:    *)
(* that is the step to "booking".  Prices, books and texts are abstracted  *)
(* to what the gate distinguishes in them.                                 *)
(***************************************************************************)
EXTENDS Naturals, FiniteSets

CONSTANTS
  Runs,           \* process_candidates runs that may be in progress
  Articles,
  Markets,
  Keyworded,      \* article -> the markets its keywords select, capped
  ArticleLimit,   \* LIMIT of the query for articles: 100
  MaxConfirmed,   \* pairs that go on from an article: 5
  Llm,            \* which API key is set: "openai", "anthropic" or "none"
  Answers,        \* what the LLM may say of an article and a market
  MaxCalls,       \* max_llm_calls_per_run
  BatchSize,      \* matcher_llm_batch_size
  Concurrency,    \* llm_max_concurrency
  QueueLimit,     \* LIMIT of the query for CANDIDATEs
  MaxSignals,     \* bound on the signals ever created
  MaxFailures     \* bound on the workers and runs that fail

VARIABLES
  article,    \* article -> "unseen", "fresh" or "stale" (older than the gate allows)
  signal,     \* news_signals: the committed rows, by id in creation order
  trades,     \* paper_trades: signal -> number of trades on it
  measured,   \* signal_metrics: signals with metric rows
  nextId,
  phase,      \* run -> "idle", "matching", "working"
  toMatch,    \* run -> articles it has not screened yet
  confirmed,  \* run -> <<article, market>> pairs past the relevance screen
  pending,    \* run -> signals it has added and not committed
  calls,      \* run -> relevance-screen LLM calls so far
  work,       \* run -> signal -> where its worker is, and what the LLM said
  failures

vars == <<article, signal, trades, measured, nextId, phase, toMatch, confirmed,
          pending, calls, work, failures>>
dbVars    == <<signal, trades, measured>>
matchVars == <<toMatch, confirmed, pending, calls, nextId>>

--------------------------------------------------------------------------------

SignalIds == 1 .. MaxSignals

\* What interpretation and verification tell the gate: the outcome, whether the
\* evidence is strong enough and the confidence high enough for the active
\* profile, the same of the verifier; and whether the LLM gave both answers.
Outcomes == {"YES", "NO", "UNKNOWN"}
Verdicts == [outcome : Outcomes, strong : BOOLEAN, sure : BOOLEAN,
             agrees : BOOLEAN, verifierSure : BOOLEAN, answered : BOOLEAN]

\* interpret failed, timed out, or no key is set: keyword rules that never name
\* an outcome, and a verifier that does not agree.
RulesOnly == {v \in [outcome : {"UNKNOWN"}, strong : BOOLEAN, sure : BOOLEAN,
                     agrees : {FALSE}, verifierSure : {FALSE}, answered : {FALSE}] :
                v.sure => v.strong}

\* Mutant: a failed verification keeps the interpretation's own confidence.
Unverified_Trusting(v) == [v EXCEPT !.answered = FALSE]

\* verify failed after interpret had answered v.
Unverified(v) == [v EXCEPT !.agrees = FALSE, !.verifierSure = FALSE, !.answered = FALSE]

ASSUME PipelineAssumption ==
  /\ IsFiniteSet(Articles) /\ IsFiniteSet(Markets)
  /\ Keyworded \in [Articles -> SUBSET Markets]
  /\ Llm \in {"openai", "anthropic", "none"}
  /\ Answers \subseteq {v \in Verdicts : v.answered}
  /\ MaxCalls \in Nat /\ BatchSize \in Nat \ {0} /\ Concurrency \in Nat \ {0}
  /\ ArticleLimit \in Nat \ {0} /\ MaxConfirmed \in Nat \ {0}
  /\ QueueLimit \in Nat \ {0} /\ MaxSignals \in Nat /\ MaxFailures \in Nat

NoVerdict == [outcome |-> "UNKNOWN", strong |-> FALSE, sure |-> FALSE,
              agrees |-> FALSE, verifierSure |-> FALSE, answered |-> FALSE]
NoWork    == [at |-> "none", verdict |-> NoVerdict]
NoSignal  == [pair |-> <<>>, action |-> "FREE"]

Pairs   == Articles \X Markets
Decided == {"ABSTAIN", "NO_TRADE", "ACT"}
SignalRows == [pair : Pairs \cup {<<>>}, action : {"FREE", "CANDIDATE"} \cup Decided]
Created == {i \in SignalIds : signal[i].action # "FREE"}

TypeOK ==
  /\ article \in [Articles -> {"unseen", "fresh", "stale"}]
  /\ signal \in [SignalIds -> SignalRows]
  /\ trades \in [SignalIds -> Nat]
  /\ measured \subseteq SignalIds
  /\ nextId \in Nat \ {0}
  /\ phase \in [Runs -> {"idle", "matching", "working"}]
  /\ toMatch \in [Runs -> SUBSET Articles]
  /\ confirmed \in [Runs -> SUBSET Pairs]
  /\ pending \in [Runs -> SUBSET [id : SignalIds, pair : Pairs]]
  /\ calls \in [Runs -> Nat]
  /\ work \in [Runs -> [SignalIds ->
                 [at : {"none", "queued", "llm", "answered", "booking"},
                  verdict : Verdicts]]]
  /\ failures \in Nat

Init ==
  /\ article = [a \in Articles |-> "unseen"]
  /\ signal = [i \in SignalIds |-> NoSignal]
  /\ trades = [i \in SignalIds |-> 0]
  /\ measured = {}
  /\ nextId = 1
  /\ phase = [r \in Runs |-> "idle"]
  /\ toMatch = [r \in Runs |-> {}]
  /\ confirmed = [r \in Runs |-> {}]
  /\ pending = [r \in Runs |-> {}]
  /\ calls = [r \in Runs |-> 0]
  /\ work = [r \in Runs |-> [i \in SignalIds |-> NoWork]]
  /\ failures = 0

--------------------------------------------------------------------------------
(* Articles arrive, and grow too old to trade on.                           *)

Publish(a) ==
  /\ article[a] = "unseen"
  /\ article' = [article EXCEPT ![a] = "fresh"]
  /\ UNCHANGED <<dbVars, nextId, phase, toMatch, confirmed, pending, calls, work, failures>>

GrowStale(a) ==
  /\ article[a] = "fresh"
  /\ article' = [article EXCEPT ![a] = "stale"]
  /\ UNCHANGED <<dbVars, nextId, phase, toMatch, confirmed, pending, calls, work, failures>>

--------------------------------------------------------------------------------
(* Matching.                                                                *)

Smaller(a, b) == IF a < b THEN a ELSE b

\* A run looks at the recent articles, the newest of them when there are many: which
\* these are is abstracted.  Without any it returns at once, leaving the stored
\* CANDIDATEs alone.
BeginRun(r) ==
  LET recent == {a \in Articles : article[a] = "fresh"} IN
  /\ phase[r] = "idle"
  /\ recent # {}
  /\ phase' = [phase EXCEPT ![r] = "matching"]
  /\ \E newest \in SUBSET recent :
       /\ Cardinality(newest) = Smaller(Cardinality(recent), ArticleLimit)
       /\ toMatch' = [toMatch EXCEPT ![r] = newest]
  /\ UNCHANGED <<article, dbVars, nextId, confirmed, pending, calls, work, failures>>

CallsFor(n) == (n + BatchSize - 1) \div BatchSize

\* Mutant: an article that no longer fits into the budget is screened all the same.
Allowance_Uncapped(r, a) ==
  IF Llm = "openai" /\ MaxCalls = calls[r] THEN 0 ELSE Cardinality(Keyworded[a])

\* The markets of an article that the budget lets the run screen: with an OpenAI
\* key, as many as the remaining calls hold; otherwise all.
Allowance(r, a) ==
  LET n    == Cardinality(Keyworded[a])
      room == (MaxCalls - calls[r]) * BatchSize
  IN  IF Llm = "openai" /\ room < n THEN room ELSE n

\* One article: the keyword candidates the budget allows are screened, and of those the
\* screen confirms the best go on.  A failed call, or the lack of a key, confirms all.
Screen(r, a, chosen) ==
  /\ phase[r] = "matching"
  /\ a \in toMatch[r]
  /\ confirmed[r] = {}
  /\ chosen \subseteq Keyworded[a]
  /\ Cardinality(chosen) <= Smaller(Allowance(r, a), MaxConfirmed)
  /\ Llm = "none" => Cardinality(chosen) = Smaller(Allowance(r, a), MaxConfirmed)
  /\ toMatch' = [toMatch EXCEPT ![r] = @ \ {a}]
  /\ confirmed' = [confirmed EXCEPT ![r] = {<<a, m>> : m \in chosen}]
  /\ calls' = [calls EXCEPT ![r] =
                 IF Llm = "openai" THEN @ + CallsFor(Allowance(r, a)) ELSE @]
  /\ UNCHANGED <<article, dbVars, nextId, phase, pending, work, failures>>

\* Mutant: the dedup query misses what earlier runs committed.
SeenPairs_Own(r) == {p.pair : p \in pending[r]}

\* The pairs a session sees: committed by anyone, or added by itself.
SeenPairs(r) == {signal[i].pair : i \in Created} \cup {p.pair : p \in pending[r]}

AddCandidate(r, pair) ==
  /\ phase[r] = "matching"
  /\ pair \in confirmed[r]
  /\ confirmed' = [confirmed EXCEPT ![r] = @ \ {pair}]
  /\ \/ /\ pair \in SeenPairs(r)
        /\ UNCHANGED <<pending, nextId>>
     \/ /\ pair \notin SeenPairs(r)
        /\ nextId <= MaxSignals
        /\ pending' = [pending EXCEPT ![r] = @ \cup {[id |-> nextId, pair |-> pair]}]
        /\ nextId' = nextId + 1
  /\ UNCHANGED <<article, dbVars, phase, toMatch, calls, work, failures>>

\* The newest CANDIDATEs, as many as the query takes.
Newest(S) == {i \in S : Cardinality({j \in S : j > i}) < QueueLimit}

\* Mutant: a run works on what it has created itself.
CommitCandidates_OwnOnly(r) ==
  /\ phase[r] = "matching"
  /\ toMatch[r] = {}
  /\ confirmed[r] = {}
  /\ signal' = [i \in SignalIds |->
                  IF \E p \in pending[r] : p.id = i
                  THEN [pair |-> (CHOOSE p \in pending[r] : p.id = i).pair,
                        action |-> "CANDIDATE"]
                  ELSE signal[i]]
  /\ work' = [work EXCEPT ![r] = [i \in SignalIds |->
                 IF \E p \in pending[r] : p.id = i
                 THEN [NoWork EXCEPT !.at = "queued"] ELSE NoWork]]
  /\ pending' = [pending EXCEPT ![r] = {}]
  /\ phase' = [phase EXCEPT ![r] = "working"]
  /\ UNCHANGED <<article, trades, measured, nextId, toMatch, confirmed, calls, failures>>

\* The signals of the run become visible, and the run queues what it reads back:
\* every CANDIDATE there is, its own and those an earlier run left behind.
CommitCandidates(r) ==
  /\ phase[r] = "matching"
  /\ toMatch[r] = {}
  /\ confirmed[r] = {}
  /\ signal' = [i \in SignalIds |->
                  IF \E p \in pending[r] : p.id = i
                  THEN [pair |-> (CHOOSE p \in pending[r] : p.id = i).pair,
                        action |-> "CANDIDATE"]
                  ELSE signal[i]]
  /\ LET queue == Newest({i \in SignalIds : signal'[i].action = "CANDIDATE"})
     IN  work' = [work EXCEPT ![r] = [i \in SignalIds |->
                    IF i \in queue THEN [NoWork EXCEPT !.at = "queued"] ELSE NoWork]]
  /\ pending' = [pending EXCEPT ![r] = {}]
  /\ phase' = [phase EXCEPT ![r] = "working"]
  /\ UNCHANGED <<article, trades, measured, nextId, toMatch, confirmed, calls, failures>>

--------------------------------------------------------------------------------
(* Workers.                                                                 *)

At(r, i, where) == phase[r] = "working" /\ work[r][i].at = where
Goes(r, i, where) == work' = [work EXCEPT ![r][i].at = where]
Leaves(r, i) == work' = [work EXCEPT ![r][i] = NoWork]

InFlight(r) == {i \in SignalIds : work[r][i].at \in {"llm", "answered", "booking"}}

\* The semaphore admits the worker, which looks at its signal for the only time.
StartWorker(r, i) ==
  /\ At(r, i, "queued")
  /\ Cardinality(InFlight(r)) < Concurrency
  /\ IF signal[i].action = "CANDIDATE" THEN Goes(r, i, "llm") ELSE Leaves(r, i)
  /\ UNCHANGED <<article, dbVars, phase, matchVars, failures>>

\* The LLM answers, or the interpretation falls back to a safe one.
Replies == IF Llm = "none" THEN RulesOnly
           ELSE Answers \cup RulesOnly \cup {Unverified(v) : v \in Answers}

Reply(r, i, v) ==
  /\ At(r, i, "llm")
  /\ v \in Replies
  /\ work' = [work EXCEPT ![r][i] = [at |-> "answered", verdict |-> v]]
  /\ UNCHANGED <<article, dbVars, phase, matchVars, failures>>

\* Mutant: a reason code the gate does not have.
Gate_Misspelt(young, quoted, v) ==
  IF ~young THEN "ABSTAIN" ELSE IF ~quoted THEN "SKIP"
  ELSE IF v.strong /\ v.sure /\ v.agrees /\ v.verifierSure THEN "ACT" ELSE "ABSTAIN"

\* decide_action, in its order: age, liquidity, spread, evidence, confidence,
\* verifier, verifier confidence.
Gate(young, quoted, v) ==
  IF ~young THEN "ABSTAIN"
  ELSE IF ~quoted THEN "NO_TRADE"
  ELSE IF v.strong /\ v.sure /\ v.agrees /\ v.verifierSure THEN "ACT" ELSE "ABSTAIN"

Young(i) == article[signal[i].pair[1]] = "fresh"

\* The verdict is flushed, which waits for any other worker that has written to
\* this signal; then the latest snapshot is read and the gate decides.
Unlocked(i) == \A q \in Runs : work[q][i].at # "booking"

Reject(r, i, quoted) ==
  /\ At(r, i, "answered")
  /\ Unlocked(i)
  /\ Gate(Young(i), quoted, work[r][i].verdict) # "ACT"
  /\ signal' = [signal EXCEPT ![i].action = Gate(Young(i), quoted, work[r][i].verdict)]
  /\ Leaves(r, i)
  /\ UNCHANGED <<article, trades, measured, phase, matchVars, failures>>

Accept(r, i) ==
  /\ At(r, i, "answered")
  /\ Unlocked(i)
  /\ Gate(Young(i), TRUE, work[r][i].verdict) = "ACT"
  /\ Goes(r, i, "booking")
  /\ UNCHANGED <<article, dbVars, phase, matchVars, failures>>

\* Mutant: metrics are computed inside "if trade is not None".
Book_Unmeasured(r, i, filled) ==
  /\ At(r, i, "booking")
  /\ filled => work[r][i].verdict.outcome \in {"YES", "NO"}
  /\ signal' = [signal EXCEPT ![i].action = "ACT"]
  /\ trades' = [trades EXCEPT ![i] = IF filled THEN @ + 1 ELSE @]
  /\ measured' = IF filled THEN measured \cup {i} ELSE measured
  /\ Leaves(r, i)
  /\ UNCHANGED <<article, phase, matchVars, failures>>

\* The order book has arrived.  A trade needs an outcome to bet on and a book
\* that fills it; the signal is ACT either way, and is measured.
Book(r, i, filled) ==
  /\ At(r, i, "booking")
  /\ filled => work[r][i].verdict.outcome \in {"YES", "NO"}
  /\ signal' = [signal EXCEPT ![i].action = "ACT"]
  /\ trades' = [trades EXCEPT ![i] = IF filled THEN @ + 1 ELSE @]
  /\ measured' = measured \cup {i}
  /\ Leaves(r, i)
  /\ UNCHANGED <<article, phase, matchVars, failures>>

\* An exception in a worker, a malformed answer or a refused commit included, is
\* logged and its session rolled back.
WorkerFails(r, i) ==
  /\ phase[r] = "working"
  /\ i \in InFlight(r)
  /\ failures < MaxFailures
  /\ failures' = failures + 1
  /\ Leaves(r, i)
  /\ UNCHANGED <<article, dbVars, phase, matchVars>>

Stop(r) ==
  /\ phase' = [phase EXCEPT ![r] = "idle"]
  /\ toMatch' = [toMatch EXCEPT ![r] = {}]
  /\ confirmed' = [confirmed EXCEPT ![r] = {}]
  /\ pending' = [pending EXCEPT ![r] = {}]
  /\ calls' = [calls EXCEPT ![r] = 0]
  /\ work' = [work EXCEPT ![r] = [i \in SignalIds |-> NoWork]]
  /\ UNCHANGED <<article, dbVars, nextId>>

EndRun(r) ==
  /\ phase[r] = "working"
  /\ \A i \in SignalIds : work[r][i].at = "none"
  /\ Stop(r)
  /\ UNCHANGED failures

\* The run is cancelled, raises while matching, or its process is killed.
RunDies(r) ==
  /\ phase[r] # "idle"
  /\ failures < MaxFailures
  /\ failures' = failures + 1
  /\ Stop(r)

MatchStep(r) ==
  \/ \E a \in Articles : \E chosen \in SUBSET Keyworded[a] : Screen(r, a, chosen)
  \/ \E pair \in Pairs : AddCandidate(r, pair)
  \/ CommitCandidates(r)

WorkerStep(r, i) ==
  \/ StartWorker(r, i)
  \/ \E v \in Replies : Reply(r, i, v)
  \/ \E quoted \in BOOLEAN : Reject(r, i, quoted)
  \/ Accept(r, i)
  \/ \E filled \in BOOLEAN : Book(r, i, filled)

Next ==
  \/ \E a \in Articles : Publish(a) \/ GrowStale(a)
  \/ \E r \in Runs : BeginRun(r) \/ MatchStep(r) \/ EndRun(r) \/ RunDies(r)
  \/ \E r \in Runs, i \in SignalIds : WorkerStep(r, i) \/ WorkerFails(r, i)

Spec == Init /\ [][Next]_vars

\* The background loop starts a run whenever it can, and neither matching nor a
\* worker waits for ever: every LLM call has a timeout.  No article has to come,
\* to stay fresh or to grow old.
Fairness ==
  /\ \A r \in Runs : WF_vars(BeginRun(r) \/ MatchStep(r) \/ EndRun(r))
  /\ \A r \in Runs, i \in SignalIds : WF_vars(WorkerStep(r, i))

FairSpec == Spec /\ Fairness

--------------------------------------------------------------------------------
(* Properties.                                                              *)

OneRun == \A r, s \in Runs : r = s

\* The table as the abstract specification sees it.
Ledger == INSTANCE SignalLedger WITH
  Ids    <- SignalIds,
  Pairs  <- Pairs,
  ledger <- [i \in SignalIds |-> [pair   |-> signal[i].pair,
                                 action |-> signal[i].action,
                                 trades |-> trades[i]]]

\* While no two runs overlap, and however runs and workers fail, a pair of an
\* article and a market has one signal, which is decided once, with at most one
\* trade: the dedup query of the matching loop and the check a worker makes
\* before its LLM call are enough.
ImplementsLedger == Ledger!Spec

\* A signal turns to ACT, and a trade is placed on it, only on the word of the
\* LLM in both of its calls: no timeout, failed call or missing key leads to a
\* trade, whatever the profile's thresholds let the keyword rules pass.
LlmFailSafe ==
  [][\A i \in SignalIds :
       (\/ signal[i].action # "ACT" /\ signal'[i].action = "ACT"
        \/ trades'[i] > trades[i])
       => \E r \in Runs : work[r][i].at = "booking" /\ work[r][i].verdict.answered]_vars

\* Signal metrics exist for every signal that was acted on, with or without a
\* trade, even when a second run has since turned the decision over.
ActMeasured ==
  \A i \in SignalIds : signal[i].action = "ACT" \/ trades[i] > 0 => i \in measured

\* The relevance screen never makes more OpenAI calls in a run than the budget,
\* although each article is planned in whole batches.
BudgetRespected == \A r \in Runs : calls[r] <= MaxCalls

\* As long as news keeps arriving, every CANDIDATE is decided, also one that a
\* run left behind when it failed.
CandidatesDecided ==
  []<>(\E a \in Articles : article[a] = "fresh")
    => \A i \in SignalIds : signal[i].action = "CANDIDATE" ~> signal[i].action \in Decided

\* "All jobs are idempotent" (README.md): two runs over the same articles leave
\* what one would.  The code does not live up to it when they overlap.
OneTradePerPair ==
  \A i, j \in SignalIds : trades[i] > 0 /\ trades[j] > 0 =>
    /\ trades[i] = 1
    /\ signal[i].pair = signal[j].pair => i = j

================================================================================
