# A TLA+ project for the Polymarket news-reaction watcher

The program (`app/`, FastAPI over an async SQLAlchemy session) follows Polymarket
markets and RSS news, lets an LLM judge which article says something about which
market, opens simulated ("paper") trades on what it says, settles them, and
measures how the price lagged behind the news. It trades no money, but its numbers
are only worth something if a trade is opened once, settled once, and never at a
price that was known when it was opened. That is what these modules are about.

## 1. The system

### Components, their state and their operations

| Component | Code | State | Operations |
|---|---|---|---|
| Market sync | `jobs/sync_markets.py` | `markets`, `price_snapshots` | `run` (all markets, under a lock of the process), `refresh_open_position_markets` (those with open trades) |
| News polling | `jobs/poll_news.py` | `news_sources`, `news_articles` | `run`: fetch feeds, dedup by id and URL, insert, one commit |
| Candidate pipeline | `jobs/process_candidates.py`, `core/interpret.py`, `core/gating.py`, `core/paper.py` | `news_signals`, `paper_trades`, `signal_metrics`, counters in `runtime_settings` | match and screen, commit CANDIDATEs, then a worker per CANDIDATE: LLM, gate, trade, metrics, commit |
| Settlement | `jobs/settle_trades.py`, `paper_economics.py` | `paper_trades` | select a batch, decide trade by trade, one commit |
| Lag analytics | `jobs/compute_lag.py`, `core/lag.py`, `jobs/lag_rank.py`, `jobs/signal_metrics.py` | `lag_measurements`, crossings, scores, `signal_metrics` | backfill, scores, ranks, leakage flags |
| Watchlists, backtest, experiments | `jobs/watchlist_monitor.py`, `jobs/*_watchlist.py`, `jobs/backtest_news_reactions.py`, `jobs/crypto_preflight.py`, ... | signals and trades of their own, `backtest_*`, `crypto_market_profiles` | one `run` each |
| Job status | `job_status.py` | `job_statuses` | `run_tracked_job`: mark RUNNING, run, mark SUCCESS or FAILED |
| Schedulers | `main.py`, `background_loops.py`, `realtime_policy.py`, `routers/crons.py`, `routers/api.py`, UI buttons | none but the clock | start jobs |
| Admin | `routers/admin.py`, `init_db.py` | all tables | reset, additive migrations |

### How they interact

Components talk through the database only. Every job has a session of its own,
or that of the request that called it; a candidate worker opens another one. A
session has `expire_on_commit=False`: what it holds it does not read again, and
`session.get` answers from what it holds. On Postgres a session sees, statement by
statement, what others have committed; an UPDATE goes by primary key and carries only
the columns the session believes to have changed.

Nothing excludes two runs of a job from each other. On a long-lived server the loop,
the warm start (`main.py` 183-200), the buttons (`POST /api/jobs/*`) and the cron
endpoints (`GET /api/cron/*`) each start jobs; on Vercel the cron endpoints run in
processes that share nothing but the database, `process_candidates` every minute with
a budget of five. Only market syncs of one process are serialised.

### What is hard

* Runs of one job overlap: settlement, candidates, polling, syncs, the status row.
* State is read, an LLM call or an HTTP request is awaited, and then it is used.
* A run is cancelled by a client that disconnects, or its process ends, between
  two commits; a worker fails while others go on.
* LLM calls time out, fail or answer nonsense; there may be no API key at all.
* Queries have limits (500 trades, 200 signals, 100 articles) and an order, so that
  what stays eligible may starve what stands behind it.
* Prices come at sparse times, quotes may be missing on one side, and the settlement
  window has edges on both sides.

### What makes each component correct

* **Settlement**: a settlement is final; no trade is marked before T+24h or at a price
  from before its entry; a resolved or markable trade is settled in the end.
* **Candidate pipeline**: a pair of article and market has one signal, decided once,
  traded at most once; no trade without both LLM answers; the LLM budget holds; no
  CANDIDATE is forgotten.
* **Job status**: the row says what the job does; a failed run leaves nothing behind,
  a successful one loses nothing.
* **Market sync**: the quotes in a row are those of one book, and a snapshot has them too; a
  known winner is not forgotten; every sync ends and hands its lock on.
* **News polling**: an article is stored once, whatever feeds repeat.
* **Trade construction and economics**: what a trade costs and returns follows from
  the book it was filled from; the portfolio's figures add up.
* **Watchlist monitor**: a market is probed once by a monitor, however many passes follow; one
  that stays fit is probed in the end.
* **Snapshot loop**: full syncs go on behind the refreshes that keep the panel green; a row that
  a run left without the mark of its end does not disable the job.
* **Reset**: it removes what its scope names and nothing else, is refused only because of what
  came meanwhile, ends, and leaves news sources to poll.
* **Lag analytics**: a signal is measured once, its figures agree with each other, it is
  called leaky only on evidence, and every signal is measured in the end.

`PROJECT.json` lists the hazards line by line, with the properties that cover them.

## 2. Modules

| Module | What it is |
|---|---|
| `TradeBook` | abstract: trades are opened once, settled when due, settlements are final |
| `Settlement` | `settle_trades.run` by any number of sessions, against syncs and new trades |
| `SignalLedger` | abstract: a pair is put forward once, decided once, traded at most once |
| `CandidatePipeline` | `process_candidates.run` by any number of runs, with its workers |
| `JobTracker` | `run_tracked_job` by any number of overlapping runs of one job |
| `SnapshotLoop` | the loop of `main.py` with its cadence, and the panel: `JobTracker` with a clock |
| `AdminReset` | `POST /admin/reset` statement by statement, beside jobs that write to the same tables |
| `LagBackfill` | `compute_lag.run_backfill` by any number of sessions, against new signals, snapshots and winners |
| `Backtest` | `backtest_news_reactions.run` by any number of runs, beside the steps of `LagBackfill`, which it extends |
| `MarketSync` | all that writes the quotes of the markets: syncs, refreshes and watchlists |
| `PaperTrade` | one simulated trade: sized, filled from an order book level by level, settled with its fees |
| `NewsPoll` | `poll_news.run` by any number of polls, with the unique link of the table |
| `WatchlistMonitor` | `watchlist_monitor.run` by any number of monitors, beside syncs |
| `MC...` | instances of a module for TLC, with one `.cfg` per run |
| `SettlementProofs`, `CandidatePipelineProofs`, `MarketSyncProofs`, `PaperTradeProofs`, `WatchlistMonitorProofs` | theorems about the module of that name |
| `JobProofs` | theorems about `JobTracker`, `SnapshotLoop` and `NewsPoll` |
| `BacktestProofs` | theorems about `LagBackfill` and `Backtest` |
| `AdminProofs` | theorems about `AdminReset` |

`Settlement` and `CandidatePipeline` instantiate their abstract specifications
(`INSTANCE ... WITH`) and state them as properties. `Backtest` composes backtests with the
backfills whose measurements they read: it extends `LagBackfill` and shares its variables.
`SnapshotLoop` extends `JobTracker` in the same way: each step of the loop is one of a tracked run. The
others share none: each takes what others write to the tables it reads as actions of its
environment (a sync in `Settlement` and `LagBackfill`, new articles in `CandidatePipeline`).

Definitions with a name such as `Usable_AnyAge` are mutants: a plausible mistake in the
definition before the underscore, kept to show that the property they are listed with
in `PROJECT.json` notices it. No specification uses them.

### Settlement

`row`, `winner` and `snaps` are the committed tables; `tx` is the sync in progress, whose
snapshots carry the time they were taken at and become visible at its commit. A pass
is `SelectBatch` (the query with its WHERE, ORDER BY and LIMIT), one of
`SettleResolved`, `SettleAtMark`, `SkipTrade` for each trade in the order of the batch,
and `CommitSettlement`. Between those steps anything else may happen. `seen` is the one
market the session is still holding: `session.get` answers from it when the next
trade is of the same market, and asks the database otherwise. `CommitSettlement` writes
the decided trades by primary key, whatever they hold by then. `AbortSettlement` is an
exception, a cancelled request or the end of the process.

Time is in ticks and all intervals of the code are numbers of ticks. Every trade keeps
the publication time of its article; `MaxAge` is the gate's limit on the age of an
article when a live trade is opened; trades outside `Live` (backtests) may be opened at
any time after it. The assumption `MaxAge + MaxSkew < Horizon` holds of every seeded
profile (at most 4 hours, 2 hours, 24 hours).

Abstracted: prices (a settlement at a mark has no figure, one at a resolution has 0 or
1), P&L, and the syncs of several processes at once.

### Candidate pipeline

`signal`, `trades` and `measured` are the committed tables. A run is `BeginRun` (the newest
`ArticleLimit` fresh articles), `Screen`
per article (keyword selection, budget, relevance screen, the best `MaxConfirmed` markets), `AddCandidate` per confirmed
pair (the dedup query and the insert that is not committed yet), `CommitCandidates`
(commit, and the query for the queue), then workers: `StartWorker` (semaphore, and the
only test that the signal is a CANDIDATE), `Reply` (both LLM calls or what replaces
them), `Reject`, or `Accept` and `Book`. The first flush of a worker writes the verdict
and so locks the row until the commit, hence `Unlocked`; a worker that stays below ACT
flushes and commits with nothing awaited in between but database reads, so `Reject` is
one step. `WorkerFails` and `RunDies` may happen anywhere.

A verdict is what the gate distinguishes: outcome, evidence and confidence good enough
for the profile, the verifier's agreement and confidence, and whether the LLM gave
both answers (a history flag, read by no action). `RulesOnly` are the verdicts of the
keyword fallback, whose confidence a loose profile may accept but whose verifier never
agrees. Texts, scores, books and prices are abstracted away; `Keyworded` is the result of
the matcher.

### Job tracker

`row` is the row of one job, `durable` and `dirty` the writes its runs have committed or still hold in their
session; `made` is history, all that the run in progress has written since it began, which `SuccessKeepsWork`
compares with what is durable at its end. Each mark is two steps, the read in `_get_or_create` and the UPDATE
with the commit. `Merge` is the ORM's UPDATE: a column whose value the mark does not change relative to what was
read keeps what another run wrote meanwhile. `EndsUnmarked` is a cancellation (not an `Exception`, so
`run_tracked_job` does not see it), the end of the process, or a mark that raises: all three commit outside the
`try` (`job_status.py` 93, 111, 130), so the row is left as it is and the session is closed.

### Snapshot loop

One invocation of `JobTracker` is the loop's, the others are those of crons, buttons and the warm start. A tick
of the loop is `LoopBegins` and `LoopDecides` (`_snapshot_once`: a full sync if the last one is `Interval` old,
otherwise a refresh), `LoopWorks`, `LoopReturns` or `LoopRaises`, `LoopMarks`, and `LoopEnds`, which sleeps one
of the times `next_snapshot_tick_sleep_seconds` may come to (`Naps`). When a mark raises (`LoopMarkLost`) the
loop logs that and sleeps its interval, with its idea of the last full sync intact; that is why `Behind` counts
a run and an interval for each run that ends unmarked. `age` is the loop's idea of the last full sync, which
only its own syncs renew and a `Restart` forgets. `synced` is history: the time since anybody's full sync
returned. `Panel` is `_status_row` for this job, whose age of the data is that of the newest snapshot, so a
refresh renews it; `ActionEnabled` is the button of `_with_actions`.

Abstracted: what a sync does (`MarketSync`), which urgency the open trades have (any), and the cadence
of polling and of the pipeline, which differ by their percentages and nobody's state depends on.

### Admin reset

`db` is the set of committed rows. The reset is `Request`, a `Scan` and a `Delete` for each statement (or
`Refused`, by a foreign key), in a full reset `Truncate`, then `CommitReset`, and after a full one `Seed` or
`SeedFails` in a second transaction. A job is a transaction that inserts and updates rows: `Begin` reads what
its rows will refer to, `Do` sends the next write, `Commit` makes them visible, `Fail` is a foreign key or a
missing row. `Crash` ends the process, `Startup` seeds the sources.

Between them stands PostgreSQL, which is external: an insert locks the rows it refers to (`Locked`), a DELETE
finds the rows committed when it starts and waits for whoever locks one (`Waiting`), a job waits for a row that
is being deleted (`Blocked`), TRUNCATE waits for all transactions and keeps new ones out (`KeptOut`), and of a
circle one is aborted (`BreakDeadlock`). TRUNCATE locks table by table, so it may hold a table that a job wants
next and want one that the job holds: `BreakTableDeadlock` lets a circle with any job that still has something
to write end one of the two. It may happen and need not, so `ResetEnds` does not count on it. `ForeignKeys` is
the schema of `models.py`, and an assumption ties the rows of an instance to it: `Of` gives each row its table,
and every reference of a row is along a key of the schema.

`Covered` is what the module's docstring gives to a scope: all tables but those it says are preserved,
and in `pipeline` also but `Upstream`. Two tables the docstring does not name, `audit_logs` and
`crypto_market_profiles`, are in no statement either (`Unnamed`); they are taken to be kept.

Abstracted: the columns of rows, the text of errors, the counts that are returned. A DELETE takes its row locks in
one step, there is one reset at a time, and a job comes round once while a reset goes on.

### Lag backfill

`acted`, `snaps`, `winner` and `row` are the committed tables. A backfill is `SelectSignals`
(the 200 oldest ACT signals, measured or not), then for each of them `SkipMeasured`,
`SkipFixture` or `TakeSignal` (the market as the session holds it, the price before the
article). Without a price before it `InsertInsufficient` inserts a row and commits at once.
Otherwise `FlushMeasurement` inserts the row and later `ObserveClosed` (the market ended
first) or `ObserveWindow` fills in crossings, eventual move and status. `CommitRows` ends the
measurements, `RefreshLeakage` rewrites the leakage of every market outcome touched, and
`CommitFlags` commits that. `Conflict` is the unique constraint on `signal_id`, and `Abort` an
exception, a cancelled request or the end of the process.

Prices are in steps of five cents, thresholds in tenths of a step, since half and 90% of a move are
compared too. The code computes in doubles: `0.15 - 0.10` is less than `0.05`, `0.20 - 0.15` is
more. `ShortRises` and `HighSums` list the ties that rounding decides against; nothing is
assumed of them, so what is proved holds however ties come out.

Abstracted: `recompute`, which no caller sets; drift windows, latency to the close and
hard-source lags, which nothing else reads. Not modelled: `compute_scores` and `lag_rank`.

### Backtest

A step is one of `LagBackfill` (`World`) or one of a backtest. `kept` is what each backtest has committed: its
row with the summary, its cases, simulated trades and events. `run` is what it is doing and what its session
holds uncommitted. `Begin` commits the row as RUNNING and takes the time the cutoff is counted from (`started`),
`Announce` commits the first event, `Select` takes the newest signals and notes which are ACT. Then each case is
built from a query at a time, and the backfills and syncs may commit between any two: `ReadLag` (the
measurement), `ReadBaseline` (the price before the article unless the measurement has one), `ReadWindow` for
each window, `ReadMoves` (all snapshots up to the horizon). `Record` adds the case, its trade and its events. An
event goes to the session and, off Vercel, to a file; when the file fails, `RecordFails` says what is left in
the session: the case, the trade, the events up to that one, and CASE_FAILED. `FinishRun` commits everything
with the summary. `GiveUp` is any failure the outer handler sees, which rolls back; `Fail` records it and
commits. A query that fails inside a case counts as `GiveUp` too, because every later query of the transaction
fails as well. `Kill` is a cancelled request or the end of the process: the row stays RUNNING.

Prices are in the steps of `LagBackfill`, fills in tenths of a cent (50 to a step), so that the
one cent of slippage and the cap of 99.9 cents are exact. Abstracted: sizes and fees of the
simulated trade, medians, delays and moves per window as percentages, and the order of events.

### Market sync

`rows`, `stored` and `snaps` are the committed tables, as far as quotes and winners go. A sync is
`Request`, `Fetch` once the lock of its process is its own (an `asyncio.Lock`, first come first
served, hence `lock` is a queue), `SyncMarket` per market (the book if the CLOB budget allows,
the row, the new values) and `Commit`. A refresh reads all its rows at once and takes over the
books as they arrive (`RefreshMarkets`); nothing is sent meanwhile, so this is one step. A
watchlist has neither lock nor budget (`StartWatch`, `WatchMarket`), and overwrites a value only by
one that is there (`TakeSides`).

Between them stands the database as SQLAlchemy and Postgres present it, which is external
to the code: a session works on a copy of the row, and before its next query it sends the columns
that changed (`Flush`, `Column`), in the order of the primary keys (`Front`), and waits for whoever has
written that row and not committed (`Waits`). The second INSERT of a market fails
(`InsertConflict`), and of sessions that wait in a circle one is aborted (`BreakDeadlock`). What is
committed is merged column by column (`Merged`).

Abstracted: fetching, merging and parsing (`Listings`, `Lineups`: no market twice in an answer),
the mid (represented by the sum of bid and ask), and the descriptive columns: a row whose quotes
stay the same is not sent, although the code may send its title or volume and lock it.

### Paper trade

`Place` is a signal that reaches `maybe_paper_trade`: its side, the multiplier of its profile, the
quotes of row and snapshot, and the book as the exchange sends it. `NoOutcome`, or a book without
an order to make of it (`Size`), or too little of it (`TooThin`), ends without a trade. `Sorted`
is the order `orderbook_levels_from_payload` puts the levels in; `Lift` is one turn of the loop in
`walk_asks_buy` and `walk_bids_sell`; `Fill` opens the trade. Without a book it is `TopOfBook`.
`SettleResolved` and `SettleAtMark` write the figures of `_apply_settlement_pnl`; when they may is the
business of `Settlement`. `LiveMark` is what the pages show of an open trade, from another module.

A fill price is an average, hence a fraction; a trade keeps what all its contracts cost at it (`outlay`)
instead, so that sums are exact. `Ways` are all the ways to buy a number of contracts from a book, whatever the
order, and `CostOf` what one costs (`Total`, a recursive function, sums it up): what `BestExecution` compares
the walk with. Fees are parts of a tick. Contracts are whole, as many as the notional pays for and at least one
(`Contracts`): the code opens a fraction of one when the notional is less than its price. Abstracted: those
fractions and the rounding to four places; rows without a notional, which this code no longer opens.

### News polling

`feed` is what each source lists, `stored` the table as committed. A poll is `Start`, then for each source
`Fetch` (or `FetchFails`: an empty feed) and one step per item: `SkipForeign`, or `Consider`, which looks the
item up and adds it if it is not `Known`. A link in `Unreadable` is one on which `urlparse` raises; that happens
outside any `try`, so it ends the poll of all sources with what it had added (`BadLink`). What is added stays in
the session (`new`) until the next query sends it (`sent`), and is committed at the very end. The unique link is
the database's: an insert waits for a transaction that has sent the same link (`Waits`), fails if it is
committed (`Conflict`), and of two polls that wait for each other one is ended (`Deadlock`). The identity of an
article is a hash of link and date, and an undated item is of now, so identity alone does not find it again.
Abstracted: XML, titles and bodies; the order of the sources.

### Watchlist monitor

`Watch` is `short_term_watchlist.run`, a transaction of its own, for the events that answer. `Select`
copies the rows the query returns. Then, the cheapest first (`IsNext`), a market is passed over
(`Skip`) or probed: `Probe` sends article and signal, `InsertSource` comes before it while the
internal source is not there yet and waits for another monitor that inserts it, `Conflict` is what
follows if that one commits, and `Fill` is the answer of the order book: a trade, or none.
`Commit` writes all. The latest snapshot goes before the row, side by side. `Sync` is the job that
may null the quotes and put the exchange's category back, `Move` the exchange. Abstracted: audit
rows and readiness scores; how `Watch` writes is in `MarketSync`, and what a fill costs in `PaperTrade`.

## 3. Runs

| Run | Question | Result |
|---|---|---|
| `settlement_serial` | one pass at a time: `NoHindsight`, `NoEarlyMark`, `KeepsTheBook` (refinement of `TradeBook`); `ResolvedIsSettled` and `MarkableIsSettled` under fairness while the batch limit is not reached | pass |
| `pipeline_serial` | one run at a time: types, budget, `ActMeasured`, `LlmFailSafe`, `ImplementsLedger` (refinement of `SignalLedger`), and `CandidatesDecided` under fairness | pass |
| `pipeline_double` | one trade per pair with two runs | violated |
| `tracker_overlap` | the loop and another starter, overlapping, one ending unmarked: types, that a failure commits nothing (`FailureCommitsNothing`) and a success loses nothing (`SuccessKeepsWork`), no row left RUNNING, `LiveMeansSynced`, and `PanelRecovers` under fairness | pass |
| `lag_passes` | two overlapping backfills: `CrossingsCohere`, `LeakyHasEvidence`, `MeasuredOnce` | pass |
| `lag_starve` | every signal is measured | violated |
| `backtest_replay` | a backtest beside a backfill and late syncs, failing or killed anywhere: `AllOrNothing`, `SummaryTrue`, `FiguresAgree` | pass |
| `sync_shared` | a sync, a refresh and a watchlist: `QuotesAgree`, `QuotesEvidenced`, `WinnerKept`, and `SyncEnds` under fairness | pass |
| `paper_fills` | every order against every book: `BestExecution`, `RightIsPaid`, `MarkAgrees` | pass |
| `news_feeds` | two overlapping polls, a kill or a feed that fails, and a link that cannot be read: `NoOwnClash`, and `ListedIsStored` under fairness while no unreadable link is listed | pass |
| `watchlist_probes` | two overlapping monitors: types, `ProbesBounded`, and `FitIsProbed` under fairness | pass |
| `reset_jobs` | a reset of each scope from every consistent database, beside four jobs, deadlocks and a crash: types, `ResetExact`, `RefusedOnlyByLatecomers`, and `ResetEnds` and `SourcesReturn` under fairness | pass |

Where a run has no type invariant, that of its module is a theorem (section 4). Every safety property of a
passing run is one too; only the properties under fairness rest on the runs alone.

The violated ones state what a document, a docstring or a comment of the repository says;
`PROJECT.json` quotes it under "findings". In short:

* Two overlapping runs of the pipeline trade one pair twice.
* Once there are 200 ACT signals, no newer one is measured.

Also observed while modelling, without a run of their own:

* A simulated NO position is filled at the price of YES: `p0` is the price of the outcome
  already, and is converted once more (`backtest_news_reactions.py:193`; its comment speaks of the
  historical price plus slippage).
* Two settlement passes that select the same trade both settle it, because the UPDATE goes by
  primary key and does not ask whether the row is still OPEN; the later commit wins
  (`settle_trades.py:143`; hence one settler in the run of `KeepsTheBook`).
* Trades that can never be marked stay eligible, so enough of them fill the 500 of every batch, and
  a resolved trade behind them stays open (`settle_trades.py:54`).
* A backfill that runs within the observation window fixes the eventual move of the part that
  has passed, since measured signals are skipped for ever (`compute_lag.py:130`; `models.py:325`
  defines it over the window).
* With an order book, an order is sized by the best level only, so that walking up a thin book can
  cost many times the notional (`paper.py:56`; `paper_economics.py` speaks of entry notional
  as price times contracts). `cash_spent` takes the average without the cent of slippage, the
  profit takes the fill with it.
* A probe that gets no trade from its book leaves an ACT signal without a trade, in every pass
  anew (`watchlist_monitor.py:96`); of two monitors that insert the internal source first, one
  loses its pass; overlapping monitors can probe a market once each.
* `job_crypto_preflight` (`routers/api.py:234`) uses a `session` it does not have, so its only caller
  fails; `crypto_preflight.py:625` adds a key that is no column of `CryptoMarketProfile`
  (`models.py:545`), so a market that is probed would fail its upsert.
* A reset deletes `backtest_cases` before `paper_trades`, although a simulated trade refers to its case
  (`models.py:269`, set at `backtest_news_reactions.py:219`): while there is one, PostgreSQL refuses the
  scopes `pipeline` and `full`. It is the exception in `RefusedOnlyByLatecomers`.
* A full reset runs the DELETE statements of the pipeline scope before its TRUNCATE, so the race its comment
  (`admin.py:90`) wants to avoid is still there; SQLite knows no TRUNCATE, and since nothing sets `PRAGMA
  foreign_keys` there, jobs beside a reset may leave rows that refer to nothing.
* Seeding after a full reset is a second transaction; when it fails there are no news sources
  until the next start (`admin.py:118`).
* In the loop a lag backfill that fails takes the metrics and ranks of that pass with it
  (`background_loops.py:67`); the cron endpoint goes on to them.
* A link that `urlparse` refuses, such as one with half a bracketed host, raises outside any `try`
  (`poll_news.py:150`, `util.py:28`): as long as a feed lists it among its first 50 items, every poll ends there
  and nothing new is stored of any feed. `ListedIsStored` is false without its `~Blocked`.
* A mark that raises leaves its row as it was, RUNNING if it was to end a run: the commits of the marks stand outside
  the `try` (`job_status.py:111`, `:149`).
* Metrics are deleted and inserted again; of two overlapping runs of `signal_metrics` the second then fails on
  the unique key of signal and window (`signal_metrics.py:25`, `models.py:162`).

Smaller ones: the floor of the adaptive cadence is at least 10 seconds although the base may be 5, so an urgent
market can be refreshed less often than a calm one (`realtime_policy.py:90`); the first tick after the host has
just booted may be a refresh, since `_snapshot_last_full` starts at 0.0 of a monotonic clock (`main.py:34`); the
fallback to the first snapshot after T+24h (README.md:57) is not tried if there is any snapshot before it,
however useless (`settle_trades.py:101`); a signal may stay ACT without a trade if the order book gives no fill,
although the backtest takes an ACT for a trade (`backtest_news_reactions.py:428`); a case may mix the first ten
points of its own snapshots with the first five points of an older measurement, or the other way round, so that
ten come before five (hence `~c.lag` in `CaseCoheres`); a killed backtest stays RUNNING, and after a rollback
the JSONL file has events that the database lacks; without an API key CANDIDATEs do not stall, as README.md:209
says, but are decided by the keyword rules; a killed run leaves its row RUNNING too, and of two overlapping runs
the first to end hides the other, so the panel of `LUCY_STATUS_UI_HANDOFF.md` shows a job that is not running or
misses one that is; README.md:319 and 321 speak of caps on Vercel, but `_on_vercel` (`sync_markets.py:31`,
`process_candidates.py:29`) is never called.

### Bounds

* Settlement: a live trade and a backtest of one market and one session (what holds of
  overlapping passes is proved). A horizon of 3 ticks with a skew of 1 leaves room
  for a price before the window, in its first half, in its second half and after it; two
  snapshots per market are the two queries' answers. One abort shows that a pass may be lost
  between any two steps. The batch holds both trades: what its limit does is described above.
* Pipeline: two articles, of which one matches both markets and the other one of them, a budget of two LLM calls
  with one market to a call, so that the third market does not fit, and one confirmed market to an article, so
  that of two that fit one is dropped; two workers at once and a queue of two, at most four signals, one failure
  at any place. Two runs with one pair where overlap is the question; `ActMeasured` and `LlmFailSafe` are proved
  for any number of runs.
* Tracker: the loop and one other starter, one write each (it is kept or lost), one run that ends unmarked.
  The interval is two ticks and the floor one, so that there are refreshes between full syncs; a run takes at
  most one tick. `LiveMeansSynced` is proved for all of them.
* Reset: eleven rows in ten tables: a chain source, article, signal, measurement, crossing; a market with a
  snapshot; a live trade, a simulated trade with its case, and a hypothesis, which is to be kept. Any subset that
  is closed under references may be there at first. Four jobs: one that inserts at the top of the chain, one
  below, one whose rows nothing refers to, and one that updates; each once per reset; one crash.
* Lag: three signals, of which one is of a fixture market and two share a market outcome (so that one
  refreshes the leakage of the other); two backfills; three snapshots at 10, 15 or 20 cents,
  the prices at which doubles disagree about five points; three ticks, so that the window may be
  open or over; one abort.
* Backtest: one market with a NO signal and a later one without an outcome, NO at 10, 15 or 25 cents, whose
  differences include a tie that rounding decides; a lookback of one tick, so that a signal may be too old when
  the backtest starts; two windows, the longer one the horizon; three snapshots; one backfill, one backtest, and
  one failure or kill at any place. A backtest writes nothing that another one reads, and `AllOrNothing` and
  `SummaryTrue` are proved for any number.
* Sync: one session of each kind, three markets of which the watchlist names two in another
  order than the exchange (so that they can deadlock), books with both sides, with one and with
  none, a CLOB budget of two, three jobs in all, and one abort. Three jobs are enough for
  a row to be read, overwritten by another and written back.

* Paper trade: four ticks to a dollar, so that the cap, the slippage and prices of 25, 50 and 75
  cents all occur; books with several levels at one price, empty levels, one side or none;
  notionals of three multiples, one of them beyond the largest multiplier; every price at settlement.
* News: two polls, two feeds of which one may list links of the other, two links and one that cannot be read, one date and
  undated items; feeds start with one item and change twice, which is enough for a link to come
  back under another date; one feed that fails or one poll that is killed; two items read of a feed.
* Watchlist: two monitors, two markets of which the cheaper has an unreliable book, and one
  trade to a pass, so that the cheaper could use the pass up; quotes that are fit, too wide and
  one-sided; one sync or change of the exchange; one event that does not answer, late snapshot or kill.

CHECK_DEADLOCK is FALSE where the clock, the supply of signals or jobs, or the trade ends, or where
liveness is checked of jobs that start for ever.

### Fairness

* `Settlement`: time passes (`WF` on `Tick`), and each session keeps stepping
  (`WF` on `PassStep`): the hourly loop and the cron start passes for ever, and a pass
  that is not killed runs to its commit. Nothing is assumed of trades, syncs and aborts.
* `CandidatePipeline`: the loop starts runs, matching and each worker go on (`WF`), since
  every LLM call has a timeout; `CandidatesDecided` assumes in addition that fresh articles
  keep arriving, since a run without any returns at once.
* `LagBackfill`: each session keeps stepping (`WF` on `BackfillStep`), as for settlement.
* `MarketSync`: a job goes on (`WF` on `Step`), since every HTTP call has a timeout and a
  bounded number of retries; a row that is waited for is obtained in the end (`SF` on
  `Flush`), since Postgres hands a row lock to whoever has waited longest. No job need be
  started, so `SyncEnds` says only that those asked for end.
* `NewsPoll`, `WatchlistMonitor`: the loop starts polls and passes for ever, and each goes on (`WF`).
  That feeds fail and passes are killed only `MaxFailures` times stands for "not for ever".
* `SnapshotLoop`: time passes as long as no run is overdue (`WF` on `Tick`), the loop takes its next step
  (`WF` on `LoopAdvances`: it sleeps a bounded time and catches every `Exception`), and so does a run of another
  starter that has begun (`WF` on `OtherAdvances`). Nobody else need start one.
* `AdminReset`: the reset and each job that has begun go on (`WF`), and the process is started again (`WF`
  on `Startup`). Nothing is assumed of requests, new jobs and crashes.

## 4. Proofs

All theorems hold for every value of the constants that the modules' assumptions allow; TLC
evaluates the assumptions in every run. Proved are the type invariants of all modules, every other
invariant and action property that a passing run checks, and the refinements.

Induction over data is out of the provers' reach as a rule of its own, since a theorem cannot take
the predicate as a parameter. What is needed of it here comes from a set instead: a set of
naturals that has a member has a least one (`LeastNatural`, from the well-founded order of the
naturals; `Least` in the backfill's proofs), so a set that has a range's first number and
with each number the next has them all (`UpTo`). With the set of the lengths for which a statement holds, that
is enough for sums along a sequence (`Sums`, `TotalChanged`) and for fixpoints.

* **Settlement.** `SafetyInv` is inductive: `TypeOK`; an idle session holds nothing
  (`IdleInv`); a trade in a batch is due, and if only because of its market's winner, the
  session does not hold an older copy of that market without one (`BatchInv`,
  `HeldInv`); decisions and settled rows are marked within the skew of T+24h and not
  before it (`PlanInv`, `RowInv`). `HeldInv` is why a stale market row does no harm:
  without it a trade selected as resolved could be marked early. `NoHindsight`,
  `NoEarlyMark` and `StaysSettled` follow for any number of overlapping passes. With one
  settler at a time, `ExclusiveInv` (what is batched or decided is still open) gives
  `Final` and the refinement of `TradeBook`.
* **Candidate pipeline.** `BookingInv` (a worker about to trade has both LLM answers),
  with `WorkInv`, `PendingInv` and `RowInv`, gives `LlmFailSafe` and `ActMeasured` for any
  number of runs; `BudgetRespected` is arithmetic on `CallsFor` and `Allowance`;
  `LedgerInv` gives the refinement of `SignalLedger` for one run at a time. `UniqueInv` is an invariant of
  the ledger alone, which the refinement (`RefinesStep`) carries over: so what `pipeline_double`
  refutes for two runs, `OneTradePerPair`, is a theorem for one, and overlap is the only reason it fails.
* **Job tracker.** `OwedInv`: while the row is RUNNING and no run has ended unmarked, some run still owes it an
  end mark, and if it has read the row for that it has read RUNNING; so column-wise updates cannot leave RUNNING
  behind (`NeverLeftRunning`), for any number of overlapping runs. `KeptInv`: from its beginning on, whatever a
  run has made is durable or still in its session, unless it has failed; every step of every run keeps that, the
  reads of the marks and its own commits included, and the commit of the mark empties the session into what is
  durable, which gives `SuccessKeepsWork`. `RolledBackInv` gives `FailureCommitsNothing`; `FreshInv` gives
  `Truthful` for one run at a time, which no run checks on its own.
* **Snapshot loop.** Every step of it is one of `JobTracker` or leaves that alone (`LoopIsTracked`), so the theorems above
  carry over. `LiveMeansSynced` rests on three more invariants. `BookInv`: who has read what of the row.
  `ClockInv`, whatever the row shows: a full sync is behind no longer than the loop believes, and not longer than
  a run that has done one, or a refresh that was due before one, takes already. `ShownInv`, while the row shows a
  success: what `synced` can still grow to, by where the loop is in its cycle, with `Spare` for the runs that
  may still end unmarked.
* **Lag backfill.** `Least` (a nonempty set of naturals has a least element) comes from the
  well-founded order of finite sets, and gives what the newest snapshot, the first
  crossing and the peak are. `PendingInv` (what is flushed and not committed is of signals without a
  row, and each of one session only) gives `MeasuredOnce`. `EvidenceInv` says that committed
  rows and pending flags are leaky only with `Evidence`, which never goes away; `StepSources` says
  where rows, drafts and flags come from, so the proofs look at each way to write one once.
  `CoherentInv` says of committed and flushed rows that their figures agree: `HigherIsLater` (a higher
  threshold is crossed later) and the two ways to reach a status, with ties left open.
* **Market sync.** `UpdateInv`: whatever a session changes in a row it has in hand is null or
  stands in a snapshot it commits with it, and never turns a winner into none; what it does not
  change is not sent. That gives `QuotesEvidenced` and `WinnerKept` for any number of processes.
  For `QuotesAgree` all syncs and refreshes are in one process (`OneProcess`): whoever works is
  at the head of the queue (`LockInv`, which rests on `WithoutProperties` about queues),
  watchlists only have watched markets in hand (`LineupInv`), so what is in hand of other
  markets was read from the row as it still is (`TurnInv`), and the column-wise update writes just the
  new book. Without `OneProcess` the statement is false: the rows of two processes'
  syncs mix.

* **Backtest.** Every step is one of `LagBackfill` or leaves it alone, so a run of the one is a run
  of the other and its theorems carry over (`RefinesLagBackfill`). `TidyInv`: a session holds rows
  only while it works on signals, a run that has not ended has not succeeded, and one that has
  not succeeded has committed nothing; that is `AllOrNothing`, and the reason is the rollback
  before `Fail`. `BooksInv`: what a session has counted agrees with what it holds, and no signal is
  worked on twice, without which two cases could be one row of a set; that gives `SummaryTrue` at
  the commit. `SoundInv`: each stamp and each price a case has read is still that of a snapshot of its window
  (`Seen`), since snapshots are never deleted (`SnapsGrow`), and its crossings are those of a coherent
  measurement (`CoherentInv`, carried over); so when the last query returns, the windows, which nest up to the
  horizon, agree with the moves (`FilledCoheres`), and that is `FiguresAgree`.

* **Paper trade.** `PaperInv`: an order that walks has spent, at every level so far, at most the cap
  a contract and at least a tick; so an open trade costs more than nothing and less than a dollar a
  contract. That gives `RightIsPaid` for every book, size and fee. `MarkAgrees` is the algebra of
  two formulas that were written apart. `BestExecution` is an exchange argument. `WalkInv`: the levels
  stand from the best to the worst (`SortedArranges`); what has been taken of each (`Taken`) is all of it
  before the last one touched and nothing after it, and adds up to what is filled and spent.
  `FillInv` keeps that for the trade. Against the last price paid, any other way to buy as much has
  less of the cheaper levels or more of the dearer ones (`LessOfTheCheaper`, `MoreOfTheDearer`), so it
  costs no less (`Weighed`, `WalkIsCheapest`), for books of every length.
* **News polling.** What a poll adds carries its name (`Signed`) and was not among what its queries
  see, which is everything committed and everything it added itself; so only the rows of others can
  clash with it (`NoOwnClash`), for any number of polls.

* **Watchlist monitor.** A pass holds a market while its trade is on the way: the market whose book it
  has asked for, and those it has trades for (`Holders`). `HolderInv`: trades that are committed and passes
  that hold a market are together no more than there are monitors. A pass takes a market up only when it
  has seen no trade of it, so all that can be there are holders, and it was not one of them;
  a commit turns a holder into a trade. `PassInv` says where a pass is within its limit. That gives `ProbesBounded`,
  for any number of monitors, which must be finite, as passes are.
* **Admin reset.** `DataInv`: no committed row refers to a missing one. `LockInv`: what a job has written
  refers to rows that are there, which it has locked, and which the reset has not taken; so its commit
  keeps the references whole. `GoneInv`: what the reset has taken is in its scope, and nothing that
  stays refers to it. `BeforeInv`: a statement that is over has taken every row of its table that was there
  at the request. `ParentsLast` goes through the schema: a table is deleted after those that refer to it, but
  for the trades of a backtest, which is why a refusal needs a latecomer (`RefusedOnlyByLatecomers`).
  `CascadeIsNamed`: TRUNCATE ... CASCADE, a fixpoint over the foreign keys, reaches the tables it names and no
  other. With `CoveredIsDeleted` (every table of a scope is in a statement) and `StatementsStay` (and none outside)
  that is `ResetExact`.

Assumptions the code does not spell out: there are finitely many articles and markets to match and finitely many
monitors; the value that stands for NULL is no market; every row is of a table of the schema.

Only model-checked: the liveness properties (`ResolvedIsSettled`, `MarkableIsSettled`, `CandidatesDecided`,
`PanelRecovers`, `SyncEnds`, `ListedIsStored`, `FitIsProbed`, `ResetEnds`, `SourcesReturn`), since they rest on
fairness, hence on ENABLED, which the provers do not have; and the two violated statements, of which
a run shows a counterexample.

## 5. Not modelled

* Fetching, pagination, parsing, text scoring, prompts, rendering, authentication.
* `resolution/*`, `execution/order.py`, `experimental/*`: stubs and stateless helpers.
* `jobs/crypto_preflight.py`: its only caller raises before it is reached, so no state of it is one the program
  can be in.
* What the plan below still has to bring.

## 6. Plan

1. Done: `Settlement`, `CandidatePipeline`, `JobTracker`, `LagBackfill`, `MarketSync`, `Backtest`,
   `PaperTrade`, `NewsPoll`, their abstract specifications, runs and proofs; `WatchlistMonitor`
   and its run.
2. Done: proofs of all safety properties the runs check, `ProbesBounded` and `BestExecution` included.
3. Done: `SnapshotLoop` and `AdminReset`, with their runs and proofs.
4. `compute_scores` and `lag_rank` beside backfills.
5. More of what is abstracted: the merge and pagination of `sync_markets`, the keyword fallback of
   `interpret`.
6. More to prove: that a conflict or a deadlock of two resets, polls or syncs costs one transaction and no more
   (`Drop`, `BreakDeadlock`), and the first steps of the liveness arguments as action properties: which
   measure each step of a pass lowers.
