-------------------------------- MODULE Backtest --------------------------------
(***************************************************************************)
(* The backtest of news reactions (app/jobs/backtest_news_reactions.py),   *)
(* beside the lag backfills whose measurements it takes over and the syncs *)
(* whose snapshots it reads.                                               *)
(*                                                                         *)
(* A run commits a row that says RUNNING, builds a case per signal from    *)
(* several queries, simulates a trade where the signal did not lead to a   *)
(* live one, and commits all of it with a summary at the end.  Each event  *)
(* goes to the session and, off Vercel, to a file, which may fail.         *)
(*                                                                         *)
(* Prices of snapshots are in steps of five points as in LagBackfill,      *)
(* fills in tenths of a cent.                                              *)
(***************************************************************************)
EXTENDS LagBackfill, Sequences

CONSTANTS
  Runs,         \* backtests
  FetchedAt,    \* signal -> fetched_at of its article
  Unread,       \* signals without a binary outcome
  Lookback,     \* since_hours
  ReplayLimit,  \* max_articles
  MinCoverage,  \* min_snapshot_coverage
  Windows,      \* the lengths in WINDOWS, ascending
  Horizon,      \* 24 hours
  OnDisk,       \* whether events go to a file too: not on Vercel
  MaxErrors     \* bound on the failures and cancellations of backtests

ASSUME ReplayAssumption ==
  /\ FetchedAt \in [Signals -> Nat] /\ Unread \subseteq Signals
  /\ \A s \in Unread : SideOf[s] = "YES"
  /\ Lookback \in Nat /\ ReplayLimit \in Nat \ {0} /\ MinCoverage \in Nat \ {0}
  /\ Windows \in Seq(Nat) /\ Horizon \in Nat
  /\ \A i, j \in DOMAIN Windows : i <= j => Windows[i] <= Windows[j]
  /\ \A i \in DOMAIN Windows : Windows[i] <= Horizon
  /\ Top = 20 /\ OnDisk \in BOOLEAN /\ MaxErrors \in Nat

VARIABLES
  run,     \* what each backtest is doing, and what it has not committed
  kept,    \* what each backtest has committed
  errors   \* failures so far

replayVars == <<run, kept, errors>>

--------------------------------------------------------------------------------
(* Rows.                                                                    *)

PriceOrNone == {NoPrice} \cup 0..Top
Stamp == {NoTs} \cup Nat

\* What a case says; peak stands for max_move_24h, p0 subtracted.
Cases == [signal : Signals \cup {NoSignal}, act : BOOLEAN, lag : BOOLEAN, p0 : PriceOrNone,
          stamps : Seq(Stamp), prices : Seq(PriceOrNone), first5 : Stamp, first10 : Stamp,
          peak : PriceOrNone, early : {"NULL", "TRUE", "FALSE"},
          coverage : {"NO_DATA", "SPARSE", "GOOD"}]
BlankCase == [signal |-> NoSignal, act |-> FALSE, lag |-> FALSE, p0 |-> NoPrice,
              stamps |-> <<>>, prices |-> <<>>, first5 |-> NoTs, first10 |-> NoTs,
              peak |-> NoPrice, early |-> "NULL", coverage |-> "NO_DATA"]

Trades == [signal : Signals, p0 : 0..Top, fill : Int]

EventTypes == {"RUN_STARTED", "LIVE_TRADE_EXISTS", "BACKTEST_TRADE_CREATED", "CASE_RECORDED",
               "CASE_FAILED", "RUN_FINISHED", "RUN_FAILED"}
Events == EventTypes \X (Signals \cup {NoSignal})

Summaries == [cases : Nat, trades : Nat, live : Nat]
NoSummary == [cases |-> 0, trades |-> 0, live |-> 0]

Phases == {"new", "announce", "select", "next", "baseline", "windows", "record", "fail", "end"}
\* started: when the run began, which its lookback counts from.
Sessions == [phase : Phases, started : Nat, todo : SUBSET Signals, acts : SUBSET Signals, case : Cases,
             cases : SUBSET Cases, count : Summaries, trades : SUBSET Trades,
             events : SUBSET Events]
Fresh == [phase |-> "new", started |-> 0, todo |-> {}, acts |-> {}, case |-> BlankCase, cases |-> {},
          count |-> NoSummary, trades |-> {}, events |-> {}]
Ended == [Fresh EXCEPT !.phase = "end"]

RunRows == [status : {"NONE", "RUNNING", "SUCCESS", "FAILED"}, summary : Summaries,
            cases : SUBSET Cases, trades : SUBSET Trades, events : SUBSET Events]
NoRun == [status |-> "NONE", summary |-> NoSummary, cases |-> {}, trades |-> {}, events |-> {}]

ReplayInit ==
  /\ Init
  /\ run = [r \in Runs |-> Fresh]
  /\ kept = [r \in Runs |-> NoRun]
  /\ errors = 0

--------------------------------------------------------------------------------
(* What a case is made of.                                                  *)

Between(s, ticks) ==
  {x \in snaps[MarketOf[s]] : Published[s] < x.ts /\ x.ts <= Published[s] + ticks}

\* The newest snapshot of a window, and the price it gives, if any.
StampIn(s, ticks) ==
  LET S == Between(s, ticks)
  IN  IF S = {} THEN NoTs ELSE (CHOOSE x \in S : \A y \in S : y.ts <= x.ts).ts
PriceIn(s, ticks) ==
  LET S == Between(s, ticks)
      x == CHOOSE x \in S : \A y \in S : y.ts <= x.ts
  IN  IF S = {} THEN NoPrice ELSE IF x.mid = NoPrice THEN NoPrice ELSE Implied(SideOf[s], x.mid)

\* Mutant: the horizon itself left out.
Observed_Open(s) == Between(s, Horizon - 1)

Observed(s) == Between(s, Horizon)

\* The moves from p0, as the prices they lead to.
Moves(s, p0) ==
  IF p0 = NoPrice THEN {}
  ELSE {[ts |-> x.ts, p |-> Implied(SideOf[s], x.mid)] : x \in {y \in Observed(s) : y.mid # NoPrice}}

\* The first move of at least d steps.
FirstMove(s, p0, d) ==
  LET S == {x \in Moves(s, p0) : Rose(SideOf[s], p0, x.p, d)}
  IN  IF S = {} THEN NoTs ELSE (CHOOSE x \in S : \A y \in S : x.ts <= y.ts).ts

Highest(s, p0) ==
  LET S == Moves(s, p0)
  IN  IF S = {} THEN NoPrice ELSE (CHOOSE x \in S : \A y \in S : y.p <= x.p).p

\* move_before_fetch: five points gained before the article was fetched.
Early(s, p0) ==
  IF Moves(s, p0) = {} THEN "NULL"
  ELSE IF \E x \in Moves(s, p0) : Rose(SideOf[s], p0, x.p, 1) /\ x.ts <= FetchedAt[s]
       THEN "TRUE" ELSE "FALSE"

Coverage(s, p0) ==
  IF p0 = NoPrice \/ Observed(s) = {} THEN "NO_DATA"
  ELSE IF Cardinality(Observed(s)) < MinCoverage THEN "SPARSE" ELSE "GOOD"

\* The crossing a measurement gives, or else the first move.
Crossed(ts, s, p0, d) == IF ts # NoTs THEN ts ELSE FirstMove(s, p0, d)

Filled(c) ==
  LET s == c.signal
  IN  [c EXCEPT !.first5 = Crossed(c.first5, s, c.p0, 1), !.first10 = Crossed(c.first10, s, c.p0, 2),
                !.peak = Highest(s, c.p0), !.early = Early(s, c.p0),
                !.coverage = Coverage(s, c.p0)]

\* The fill of a simulated trade (_simulate_backtest_trade), in tenths of a cent: 50 to a step,
\* 10 for slippage.
Fill(side, p0) ==
  LET raw == 10 + 50 * (IF side = "YES" THEN p0 ELSE Top - p0)
  IN  IF raw <= 999 THEN raw ELSE 999

Simulated(c) ==
  IF c.act \/ c.signal \in Unread \/ c.p0 \notin 1 .. (Top - 1) THEN {}
  ELSE {[signal |-> c.signal, p0 |-> c.p0, fill |-> Fill(SideOf[c.signal], c.p0)]}

\* The events of a case, in their order.
Reported(c) ==
  LET s == c.signal
      decided == IF c.act THEN <<<<"LIVE_TRADE_EXISTS", s>>>>
                 ELSE IF Simulated(c) # {} THEN <<<<"BACKTEST_TRADE_CREATED", s>>>> ELSE <<>>
  IN  Append(decided, <<"CASE_RECORDED", s>>)

\* The first k events.
First(k, events) == {events[i] : i \in 1..k}

--------------------------------------------------------------------------------
(* A run.                                                                   *)

Goto(r, phase) == run' = [run EXCEPT ![r] = [run[r] EXCEPT !.phase = phase]]

Fails == errors < MaxErrors /\ errors' = errors + 1

\* The row of the run is committed.
Begin(r) ==
  /\ run[r].phase = "new"
  /\ run' = [run EXCEPT ![r] = [run[r] EXCEPT !.phase = "announce", !.started = clock]]
  /\ kept' = [kept EXCEPT ![r] = [kept[r] EXCEPT !.status = "RUNNING"]]
  /\ UNCHANGED errors

Announce(r) ==
  /\ run[r].phase = "announce"
  /\ Goto(r, "select")
  /\ kept' = [kept EXCEPT ![r] = [kept[r] EXCEPT !.events = {<<"RUN_STARTED", NoSignal>>}]]
  /\ UNCHANGED errors

\* The signals there are of articles no older than the lookback when the run began.
Replayable(r) ==
  {s \in Signals : /\ FetchedAt[s] <= clock /\ MarketOf[s] \notin Fixtures
                   /\ run[r].started <= Published[s] + Lookback}

\* The newest signals, with the action each has now.
Select(r, B) ==
  /\ run[r].phase = "select"
  /\ B \subseteq Replayable(r)
  /\ Cardinality(B) = IF Cardinality(Replayable(r)) < ReplayLimit THEN Cardinality(Replayable(r))
                      ELSE ReplayLimit
  /\ \A s \in B, u \in Replayable(r) \ B : Published[u] <= Published[s]
  /\ run' = [run EXCEPT ![r] = [run[r] EXCEPT !.phase = "next", !.todo = B, !.acts = B \cap acted]]
  /\ UNCHANGED <<kept, errors>>

\* The next signal, and its measurement, if there is one: the crossings are read later, but
\* never change.
ReadLag(r, s) ==
  /\ run[r].phase = "next" /\ s \in run[r].todo
  /\ \A u \in run[r].todo : Published[u] <= Published[s]
  /\ run' = [run EXCEPT ![r] = [run[r] EXCEPT
       !.phase = "baseline", !.todo = run[r].todo \ {s},
       !.case = [BlankCase EXCEPT !.signal = s, !.act = s \in run[r].acts,
                                  !.lag = row[s].status # "NONE", !.p0 = row[s].p0,
                                  !.first5 = row[s].cross["5PT"],
                                  !.first10 = row[s].cross["10PT"]]]]
  /\ UNCHANGED <<kept, errors>>

\* The price at the article is that of the measurement, or that of the nearest snapshot.
ReadBaseline(r) ==
  LET c == run[r].case IN
  /\ run[r].phase = "baseline"
  /\ run' = [run EXCEPT ![r] = [run[r] EXCEPT
       !.phase = "windows",
       !.case = [c EXCEPT !.p0 = IF c.p0 # NoPrice THEN c.p0 ELSE Baseline(c.signal)]]]
  /\ UNCHANGED <<kept, errors>>

\* One query per window.
ReadWindow(r) ==
  LET c == run[r].case
      i == Len(c.stamps) + 1 IN
  /\ run[r].phase = "windows" /\ i <= Len(Windows)
  /\ run' = [run EXCEPT ![r] = [run[r] EXCEPT
       !.case = [c EXCEPT !.stamps = Append(c.stamps, StampIn(c.signal, Windows[i])),
                          !.prices = Append(c.prices, PriceIn(c.signal, Windows[i]))]]]
  /\ UNCHANGED <<kept, errors>>

\* All snapshots up to the horizon.
ReadMoves(r) ==
  /\ run[r].phase = "windows" /\ Len(run[r].case.stamps) = Len(Windows)
  /\ run' = [run EXCEPT ![r] = [run[r] EXCEPT !.phase = "record", !.case = Filled(run[r].case)]]
  /\ UNCHANGED <<kept, errors>>

\* Mutant: nothing is counted before all events are written.
Counted_Late(n, c, well) ==
  IF ~well THEN n
  ELSE [cases |-> n.cases + 1, trades |-> n.trades + Cardinality(Simulated(c)),
        live |-> IF c.act THEN n.live + 1 ELSE n.live]

\* What is counted of a case: that it ended well, its trade, and that it was live.
Counted(n, c, well) ==
  [cases |-> IF well THEN n.cases + 1 ELSE n.cases,
   trades |-> n.trades + Cardinality(Simulated(c)),
   live |-> IF c.act THEN n.live + 1 ELSE n.live]

\* The case goes to the session, its trade too, and the events.
Record(r) ==
  LET c == run[r].case
      events == First(Len(Reported(c)), Reported(c)) IN
  /\ run[r].phase = "record"
  /\ run' = [run EXCEPT ![r] = [run[r] EXCEPT
       !.phase = "next", !.case = BlankCase, !.cases = run[r].cases \cup {c},
       !.trades = run[r].trades \cup Simulated(c), !.count = Counted(run[r].count, c, TRUE),
       !.events = run[r].events \cup events]]
  /\ UNCHANGED <<kept, errors>>

\* The file could not be written: the event is in the session all the same, as are the case and
\* the trade, but the case does not count.
RecordFails(r) ==
  LET c == run[r].case
      failed == <<"CASE_FAILED", c.signal>> IN
  /\ run[r].phase = "record" /\ OnDisk /\ Fails
  /\ \E k \in 1 .. Len(Reported(c)) :
       run' = [run EXCEPT ![r] = [run[r] EXCEPT
            !.phase = "next", !.case = BlankCase, !.cases = run[r].cases \cup {c},
            !.trades = run[r].trades \cup Simulated(c), !.count = Counted(run[r].count, c, FALSE),
            !.events = run[r].events \cup First(k, Reported(c)) \cup {failed}]]
  /\ UNCHANGED kept

\* Everything is committed at once, with the summary.
FinishRun(r) ==
  /\ run[r].phase = "next" /\ run[r].todo = {}
  /\ run' = [run EXCEPT ![r] = Ended]
  /\ kept' = [kept EXCEPT ![r] = [kept[r] EXCEPT
       !.status = "SUCCESS", !.summary = run[r].count, !.cases = run[r].cases,
       !.trades = run[r].trades,
       !.events = kept[r].events \cup run[r].events \cup {<<"RUN_FINISHED", NoSignal>>}]]
  /\ UNCHANGED errors

\* Where a run fails: in a query or a flush, since every later one of the transaction fails too
\* and the commit at last; in the file at CASE_FAILED or at RUN_FINISHED; in the commit.
MayFail(r) == run[r].phase \in {"select", "next", "baseline", "windows", "record"}

\* Mutant: no rollback.
GiveUp_KeepsSession(r) ==
  /\ MayFail(r) /\ Fails
  /\ Goto(r, "fail")
  /\ UNCHANGED kept

\* The session is rolled back.
GiveUp(r) ==
  /\ MayFail(r) /\ Fails
  /\ run' = [run EXCEPT ![r] = [Fresh EXCEPT !.phase = "fail"]]
  /\ UNCHANGED kept

\* The failure is recorded, and committed with what the session holds.
Fail(r) ==
  /\ run[r].phase = "fail"
  /\ run' = [run EXCEPT ![r] = Ended]
  /\ kept' = [kept EXCEPT ![r] = [kept[r] EXCEPT
       !.status = "FAILED", !.cases = run[r].cases, !.trades = run[r].trades,
       !.events = kept[r].events \cup run[r].events \cup {<<"RUN_FAILED", NoSignal>>}]]
  /\ UNCHANGED errors

\* A cancelled request, the end of the process, or an error where none is expected: before the
\* try or while a failure is recorded.  The row stays RUNNING.
Kill(r) ==
  /\ run[r].phase \notin {"new", "end"}
  /\ Fails
  /\ run' = [run EXCEPT ![r] = Ended]
  /\ UNCHANGED kept

--------------------------------------------------------------------------------
(* The specification.                                                       *)

\* Backfills, syncs and the pipeline, which acts on signals that were fetched and understood.
World ==
  /\ Next
  /\ \A s \in acted' : s \notin Unread /\ FetchedAt[s] <= clock
  /\ UNCHANGED replayVars

Replay(r) ==
  /\ \/ Begin(r) \/ Announce(r)
     \/ \E B \in SUBSET Signals : Select(r, B)
     \/ \E s \in Signals : ReadLag(r, s)
     \/ ReadBaseline(r) \/ ReadWindow(r) \/ ReadMoves(r)
     \/ Record(r) \/ RecordFails(r) \/ GiveUp(r)
     \/ FinishRun(r) \/ Fail(r) \/ Kill(r)
  /\ UNCHANGED vars

ReplayNext == World \/ \E r \in Runs : Replay(r)

ReplaySpec == ReplayInit /\ [][ReplayNext]_<<vars, replayVars>>

--------------------------------------------------------------------------------
(* Properties.                                                              *)

ReplayTypeOK ==
  /\ run \in [Runs -> Sessions]
  /\ kept \in [Runs -> RunRows]
  /\ errors \in 0 .. MaxErrors

\* A backtest that has not succeeded has left neither cases nor trades nor events about
\* signals, in whatever query, write or commit it failed, and however it ended.
AllOrNothing ==
  \A r \in Runs :
    kept[r].status # "SUCCESS" =>
      /\ kept[r].cases = {} /\ kept[r].trades = {}
      /\ kept[r].events \subseteq {"RUN_STARTED", "RUN_FAILED"} \X {NoSignal}

\* The summary of a backtest agrees with its rows, with failures in between: its trades and its
\* live signals are counted, and a case is counted or reported as failed; each trade is of a case
\* that did not act, at the price of that case.
SummaryTrue ==
  \A r \in Runs :
    kept[r].status = "SUCCESS" =>
      LET k == kept[r]
          failed == {e \in k.events : e[1] = "CASE_FAILED"} IN
      /\ k.summary.trades = Cardinality(k.trades)
      /\ k.summary.live = Cardinality({c \in k.cases : c.act})
      /\ k.summary.cases + Cardinality(failed) = Cardinality(k.cases)
      /\ \A t \in k.trades : \E c \in k.cases : c.signal = t.signal /\ c.p0 = t.p0 /\ ~c.act

\* The figures of a case agree although each comes from a query of its own, while snapshots and
\* measurements are committed in between: a longer window does not end at an older snapshot; no
\* window shows more than the highest move; a highest move of five points has a first one, and
\* ten points come with five; and without a measurement, ten not before five, and the move is
\* before the fetch just if the first five points were.
CaseCoheres(c) ==
  LET s == c.signal IN
  /\ \A i, j \in DOMAIN c.stamps : i <= j => c.stamps[i] <= c.stamps[j]
  /\ c.p0 # NoPrice => \A i \in DOMAIN c.prices : c.prices[i] <= c.peak
  /\ c.p0 # NoPrice /\ c.peak # NoPrice /\ Rose(SideOf[s], c.p0, c.peak, 1) => c.first5 # NoTs
  /\ c.first10 # NoTs => c.first5 # NoTs
  /\ ~c.lag => /\ c.first10 # NoTs => c.first5 <= c.first10
               /\ c.early = "TRUE" <=> c.first5 # NoTs /\ c.first5 <= FetchedAt[s]

FiguresAgree == \A r \in Runs : \A c \in kept[r].cases : CaseCoheres(c)
=================================================================================
