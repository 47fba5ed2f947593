------------------------------- MODULE AdminReset ------------------------------
(***************************************************************************)
(* POST /admin/reset (app/routers/admin.py): one transaction deletes the   *)
(* tables of a scope one statement after the other, a full reset then      *)
(* truncates them all and seeds the news sources in a transaction of its   *)
(* own, while the jobs of the loops and crons insert into the same tables. *)
(*                                                                         *)
(* The database is PostgreSQL at READ COMMITTED: a DELETE finds the rows   *)
(* committed when it starts and waits for the transactions that lock one;  *)
(* a row that is still referenced makes it fail; inserting a row locks the *)
(* rows it refers to, and waits while one of them is deleted by a          *)
(* transaction that goes on; TRUNCATE waits for all transactions that have *)
(* used its tables and keeps new ones out until its own is over.           *)
(***************************************************************************)
EXTENDS Naturals, FiniteSets, Sequences

CONSTANTS
  Rows,       \* rows that tables may hold
  Of,         \* row -> its table
  Refs,       \* row -> rows its foreign keys refer to
  Jobs,       \* transactions of the jobs that write to these tables
  Program,    \* job -> its writes, in order: [op, row]
  MaxCrashes  \* bound on the times the process ends

VARIABLES
  db,       \* committed rows
  at,       \* job -> the write it is at, 0 when it is not running
  phase,    \* where the reset is
  scope,
  next,     \* number of the DELETE statement it is at
  scan,     \* rows that statement found
  gone,     \* rows deleted and not committed
  before,   \* history: committed rows when the reset was requested
  started,  \* jobs that began since then
  outcome,  \* of the last reset
  up,       \* the process runs
  crashes

jobVars   == <<at, started>>
resetVars == <<phase, scope, next, scan, gone, before, outcome>>
vars      == <<db, jobVars, resetVars, up, crashes>>

--------------------------------------------------------------------------------
(* The schema.                                                              *)

NewsKeys == {<<"news_articles", "news_sources">>, <<"news_signals", "markets">>,
             <<"news_signals", "news_articles">>}

MarketKeys == {<<"resolution_source_mappings", "markets">>,
               <<"price_snapshots", "markets">>, <<"market_lag_scores", "markets">>}

MetricKeys == {"signal_metrics"} \X {"news_signals", "markets"}

TradeKeys == {"paper_trades"}
               \X {"markets", "news_signals", "bias_hypotheses", "backtest_cases"}

LagKeys == ({"lag_measurements"} \X {"news_signals", "markets"})
             \cup ({"lag_threshold_crossings", "signal_drift_windows",
                    "lag_score_snapshots"} \X {"lag_measurements"})

BacktestKeys == ({"backtest_cases"}
                   \X {"backtest_runs", "news_articles", "markets", "news_signals",
                       "lag_measurements"})
                  \cup ({"backtest_event_logs"} \X {"backtest_runs", "backtest_cases"})

ForeignKeys ==
  NewsKeys \cup MarketKeys \cup MetricKeys \cup TradeKeys \cup LagKeys \cup BacktestKeys

\* What the documentation of the reset preserves, and what it does not name.
Preserved == {"threshold_profiles", "runtime_settings", "job_statuses", "bias_hypotheses"}
Unnamed   == {"audit_logs", "crypto_market_profiles"}

Tables == {k[1] : k \in ForeignKeys} \cup {k[2] : k \in ForeignKeys} \cup Preserved \cup Unnamed

ASSUME ResetAssumption ==
  /\ MaxCrashes \in Nat
  /\ Of \in [Rows -> Tables]
  /\ \A r \in Rows : \A p \in Refs[r] : <<Of[r], Of[p]>> \in ForeignKeys
  /\ \A j \in Jobs : Program[j] \in Seq([op : {"insert", "update"}, row : Rows])

In(tables) == {r \in Rows : Of[r] \in tables}
Sources    == In({"news_sources"})
Closed(s)  == \A r \in s : Refs[r] \subseteq s

--------------------------------------------------------------------------------
(* What the endpoint deletes.                                               *)

\* Mutant: measurements before what refers to them.
Analytics_Parents ==
  <<"lag_score_snapshots", "lag_measurements", "lag_threshold_crossings",
    "signal_drift_windows", "backtest_event_logs", "backtest_cases", "backtest_runs",
    "signal_metrics", "market_lag_scores">>

Analytics ==
  <<"lag_score_snapshots", "lag_threshold_crossings", "signal_drift_windows",
    "backtest_event_logs", "backtest_cases", "backtest_runs", "signal_metrics",
    "market_lag_scores", "lag_measurements">>

PipelineData == <<"news_signals", "price_snapshots", "news_articles">>

\* Mutant: the snapshots are forgotten.
Statements_NoSnapshots(sc) ==
  IF sc = "trades" THEN <<"paper_trades">>
  ELSE Analytics \o <<"paper_trades", "news_signals", "news_articles">>

\* A full reset runs the statements of the pipeline scope too, before TRUNCATE.
Statements(sc) ==
  IF sc = "trades" THEN <<"paper_trades">>
  ELSE Analytics \o <<"paper_trades">> \o PipelineData

Upstream   == {"resolution_source_mappings", "markets", "news_sources"}
FullTables == {Statements("full")[k] : k \in DOMAIN Statements("full")} \cup Upstream

\* TRUNCATE ... CASCADE also empties the tables that refer to one of these, the
\* tables that refer to those, and so on.
Cascade ==
  LET Wider(ts) == ts \cup {k[1] : k \in {f \in ForeignKeys : f[2] \in ts}}
      Reach[n \in Nat] == IF n = 0 THEN FullTables ELSE Wider(Reach[n - 1])
  IN Reach[Cardinality(ForeignKeys)]

Scopes == {"trades", "pipeline", "full"}
Phases == {"idle", "scan", "delete", "truncate", "commit", "seed"}

TypeOK ==
  /\ db \subseteq Rows /\ Closed(db)
  /\ at \in [Jobs -> Nat] /\ \A j \in Jobs : at[j] <= Len(Program[j]) + 1
  /\ phase \in Phases /\ scope \in Scopes
  /\ next \in 0..Len(Statements("full"))
  /\ scan \subseteq Rows /\ gone \subseteq Rows /\ before \subseteq Rows
  /\ started \subseteq Jobs
  /\ outcome \in {"none", "ok", "refused", "deadlock", "unseeded", "lost"}
  /\ up \in BOOLEAN /\ crashes \in 0..MaxCrashes

Init ==
  /\ db \in {s \in SUBSET Rows : Closed(s) /\ Sources \subseteq s}
  /\ at = [j \in Jobs |-> 0]
  /\ phase = "idle" /\ scope = "trades" /\ next = 0
  /\ scan = {} /\ gone = {} /\ before = {} /\ started = {}
  /\ outcome = "none"
  /\ up = TRUE /\ crashes = 0

--------------------------------------------------------------------------------
(* The jobs.                                                                *)

Needs(w) == IF w.op = "insert" THEN Refs[w.row] ELSE {w.row}

Writes(j, k) == {Program[j][n] : n \in 1..k}
Inserted(j)  == {w.row : w \in {v \in Writes(j, at[j] - 1) : v.op = "insert"}}
Own(j)       == {w.row : w \in {v \in Writes(j, Len(Program[j])) : v.op = "insert"}}
Reads(j)     == UNION {Needs(w) : w \in Writes(j, Len(Program[j]))} \ Own(j)

Locked(j)  == IF at[j] = 0 THEN {} ELSE UNION {Needs(w) : w \in Writes(j, at[j] - 1)}
Writing(j) == at[j] \in DOMAIN Program[j]
Blocked(j) == Writing(j) /\ Needs(Program[j][at[j]]) \cap gone # {}
Idle(j)    == at' = [at EXCEPT ![j] = 0]

KeptOut == phase = "truncate" \/ (phase = "commit" /\ scope = "full")

\* A job reads the rows its own will refer to.  No job comes round twice while one
\* reset lasts: the bound on what is started under it.
Begin(j) ==
  /\ up /\ at[j] = 0 /\ ~KeptOut
  /\ j \notin started
  /\ Own(j) \cap db = {} /\ Reads(j) \subseteq db
  /\ at' = [at EXCEPT ![j] = 1]
  /\ started' = IF phase = "idle" THEN {} ELSE started \cup {j}
  /\ UNCHANGED <<db, resetVars, up, crashes>>

\* Mutant: the database does not check foreign keys.
Do_Unchecked(j) ==
  /\ Writing(j) /\ ~Blocked(j)
  /\ at' = [at EXCEPT ![j] = @ + 1]
  /\ UNCHANGED <<db, started, resetVars, up, crashes>>

Do(j) ==
  /\ Writing(j) /\ ~Blocked(j)
  /\ Needs(Program[j][at[j]]) \subseteq db \cup Inserted(j)
  /\ at' = [at EXCEPT ![j] = @ + 1]
  /\ UNCHANGED <<db, started, resetVars, up, crashes>>

\* Mutant: a failed job keeps its session, and so its locks.
Fail_KeepsSession(j) ==
  /\ Writing(j) /\ ~Blocked(j)
  /\ ~(Needs(Program[j][at[j]]) \subseteq db \cup Inserted(j))
  /\ UNCHANGED vars

\* The reset has taken a row the job read: the foreign key refuses the insert, the
\* update finds no row, and the session is rolled back.
Fail(j) ==
  /\ Writing(j) /\ ~Blocked(j)
  /\ ~(Needs(Program[j][at[j]]) \subseteq db \cup Inserted(j))
  /\ Idle(j)
  /\ UNCHANGED <<db, started, resetVars, up, crashes>>

Commit(j) ==
  /\ at[j] = Len(Program[j]) + 1
  /\ db' = db \cup Own(j)
  /\ Idle(j)
  /\ UNCHANGED <<started, resetVars, up, crashes>>

Job(j) == Do(j) \/ Fail(j) \/ Commit(j)

--------------------------------------------------------------------------------
(* The reset.                                                               *)

End(result) ==
  /\ phase' = "idle" /\ outcome' = result
  /\ next' = 0 /\ scan' = {} /\ gone' = {} /\ before' = {}
  /\ started' = {}
  /\ UNCHANGED scope

\* Any other scope is answered with 400.
Request(sc) ==
  /\ up /\ phase = "idle"
  /\ phase' = "scan" /\ scope' = sc /\ next' = 1
  /\ before' = db /\ started' = {} /\ outcome' = "none"
  /\ UNCHANGED <<db, at, scan, gone, up, crashes>>

\* A statement starts: it will delete the rows that are committed now.
Scan ==
  /\ phase = "scan"
  /\ phase' = "delete"
  /\ scan' = {r \in db \ gone : Of[r] = Statements(scope)[next]}
  /\ UNCHANGED <<db, jobVars, scope, next, gone, before, outcome, up, crashes>>

Waiting(j) == scan \cap Locked(j) # {}

StillReferenced == {r \in db \ (gone \cup scan) : Refs[r] \cap scan # {}}

Delete ==
  /\ phase = "delete"
  /\ ~\E j \in Jobs : Waiting(j)
  /\ StillReferenced = {}
  /\ gone' = gone \cup scan /\ scan' = {}
  /\ IF next < Len(Statements(scope))
       THEN phase' = "scan" /\ next' = next + 1
       ELSE phase' = (IF scope = "full" THEN "truncate" ELSE "commit") /\ UNCHANGED next
  /\ UNCHANGED <<db, jobVars, scope, before, outcome, up, crashes>>

\* The foreign key refuses the statement; the request fails and its session is closed.
Refused ==
  /\ phase = "delete"
  /\ ~\E j \in Jobs : Waiting(j)
  /\ StillReferenced # {}
  /\ End("refused")
  /\ UNCHANGED <<db, at, up, crashes>>

Truncate ==
  /\ phase = "truncate"
  /\ \A j \in Jobs : at[j] = 0
  /\ phase' = "commit"
  /\ gone' = gone \cup (db \cap In(Cascade))
  /\ UNCHANGED <<db, jobVars, scope, next, scan, before, outcome, up, crashes>>

\* Mutant: the news sources are left to the next start.
CommitReset_NoSeed ==
  /\ phase = "commit"
  /\ db' = db \ gone
  /\ End("ok")
  /\ UNCHANGED <<at, up, crashes>>

CommitReset ==
  /\ phase = "commit"
  /\ db' = db \ gone
  /\ IF scope = "full"
       THEN phase' = "seed" /\ gone' = {}
              /\ UNCHANGED <<jobVars, scope, next, scan, before, outcome>>
       ELSE End("ok") /\ UNCHANGED at
  /\ UNCHANGED <<up, crashes>>

\* ensure_live_news_sources commits its sources, or raises and leaves none.
Seed ==
  /\ phase = "seed"
  /\ db' = db \cup Sources
  /\ End("ok")
  /\ UNCHANGED <<at, up, crashes>>

SeedFails ==
  /\ phase = "seed"
  /\ End("unseeded")
  /\ UNCHANGED <<db, at, up, crashes>>

\* A job waits for the reset and the reset for the job: PostgreSQL ends one of them.
Deadlocked(j) ==
  /\ Blocked(j)
  /\ phase = "truncate" \/ (phase = "delete" /\ Waiting(j))

GivesWay(j) ==
  /\ \/ Idle(j) /\ UNCHANGED <<started, resetVars>>
     \/ End("deadlock") /\ UNCHANGED at
  /\ UNCHANGED <<db, up, crashes>>

BreakDeadlock(j) == Deadlocked(j) /\ GivesWay(j)

\* TRUNCATE takes its locks table by table: it may already hold one that a job wants
\* next while it waits for one that the job holds.  This may happen and need not, so
\* no fairness is asked of it.
BreakTableDeadlock(j) == phase = "truncate" /\ Writing(j) /\ GivesWay(j)

Reset ==
  \/ Scan \/ Delete \/ Refused \/ Truncate \/ CommitReset \/ Seed \/ SeedFails
  \/ \E j \in Jobs : BreakDeadlock(j)

--------------------------------------------------------------------------------
(* The process.                                                             *)

Crash ==
  /\ up /\ crashes < MaxCrashes
  /\ up' = FALSE /\ crashes' = crashes + 1
  /\ at' = [j \in Jobs |-> 0]
  /\ IF phase = "idle" THEN started' = {} /\ UNCHANGED resetVars ELSE End("lost")
  /\ UNCHANGED db

\* The start seeds the default feeds, or one demo source when that is off and there
\* is none.
Startup ==
  /\ ~up
  /\ up' = TRUE
  /\ db' = db \cup Sources
  /\ UNCHANGED <<jobVars, resetVars, crashes>>

Next ==
  \/ \E j \in Jobs : Begin(j) \/ Job(j) \/ BreakTableDeadlock(j)
  \/ \E sc \in Scopes : Request(sc)
  \/ Reset \/ Crash \/ Startup

Fairness ==
  /\ WF_vars(Reset) /\ WF_vars(Startup)
  /\ \A j \in Jobs : WF_vars(Job(j))

Spec == Init /\ [][Next]_vars /\ Fairness

--------------------------------------------------------------------------------
(* Properties.                                                              *)

\* The rows the endpoint's documentation gives to a scope.
Covered(sc) ==
  CASE sc = "trades"   -> In({"paper_trades"})
    [] sc = "pipeline" -> In(Tables \ (Preserved \cup Unnamed \cup Upstream))
    [] sc = "full"     -> In(Tables \ (Preserved \cup Unnamed))

\* A reset that commits has removed every row of its scope that was there when it was
\* requested, whatever the jobs committed meanwhile, and no row outside its scope:
\* neither a DELETE nor the cascade of TRUNCATE reaches a table that is to be kept.
ResetExact ==
  [][phase = "commit" /\ phase' # "commit" /\ up'
       => /\ before \cap Covered(scope) \cap db' = {}
          /\ db \ Covered(scope) \subseteq db']_vars

\* The order of the statements is right but for one key: a reset is refused only
\* because a job has committed a referring row since it was requested, or because of
\* a trade of a backtest, whose case is deleted before the trades are.
RefusedOnlyByLatecomers ==
  [][phase = "delete" /\ outcome' = "refused"
       => \E r \in StillReferenced :
            r \notin before \/ <<Of[r], Statements(scope)[next]>>
                                 = <<"paper_trades", "backtest_cases">>]_vars

\* A reset ends, committed or not: no order of its locks and those of the jobs it
\* overtakes leaves both waiting, and a job that fails gives its locks back.
ResetEnds == phase # "idle" ~> phase = "idle"

\* A full reset that is about to commit ends with the news sources in place, even when
\* the process dies between its two commits: then the next start brings them back. Only
\* seeding that raised leaves the tables without them.
SourcesReturn ==
  phase = "commit" /\ scope = "full"
    ~> phase = "idle" /\ (Sources \subseteq db \/ outcome = "unseeded")
================================================================================
