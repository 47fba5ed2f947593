------------------------------ MODULE LagBackfill ------------------------------
(***************************************************************************)
(* The lag backfill (app/jobs/compute_lag.py, app/core/lag.py): for each   *)
(* ACT signal, how long the price took to follow the article.              *)
(*                                                                         *)
(* Several backfills may run at once (hourly loop, daily cron, button).    *)
(* Each selects the oldest signals, skips those that have a measurement,   *)
(* measures the others, commits, and then marks the measurements of the    *)
(* markets it touched as leaky or not in a second transaction.             *)
(*                                                                         *)
(* Prices are in steps of five points, Top steps to the dollar; time is    *)
(* in ticks.  Prices are doubles in the code, so a rise of just five or    *)
(* ten points may come out smaller: two constants list where it does.      *)
(* Nothing calls run_backfill with recompute, so a measurement that exists *)
(* is never replaced.                                                      *)
(***************************************************************************)
EXTENDS Integers, FiniteSets

CONSTANTS
  Signals,    \* news signals that may become ACT
  NoSignal,   \* no signal
  Markets,
  NoMarket,   \* no market
  Fixtures,   \* markets with is_fixture set
  MarketOf,   \* signal -> its market
  SideOf,     \* signal -> interpreted_outcome
  Published,  \* signal -> published_at of its article
  Confident,  \* signals that meet the confidence minima of the active profile
  EndOf,      \* market -> end_date
  Answers,    \* market -> the winners Gamma may report
  Backfills,  \* sessions that may run a backfill
  Limit,      \* LIMIT of the query for signals
  Window,     \* lag_max_window_hours
  PreShort,   \* 15 minutes
  PreLong,    \* 60 minutes
  Top,        \* price steps to a dollar: 20
  ShortRises, \* <<side, p, d>>: p + d steps minus p comes out below d steps
  HighSums,   \* <<side, label, p, h>>: p plus h tenths of a step comes out above
              \* the price it should equal, in the threshold of that label
  Quotes,     \* the snapshots a sync may take: mid, and liquid with a tight spread
  Delay,      \* bound on how late a snapshot is committed
  MaxTime,    \* bound of the clock
  MaxSnaps,   \* market -> bound on its snapshots
  MaxAborts   \* bound on the backfills that die

NoPrice == -1
NoTs    == -1

ASSUME ConstantsAssumption ==
  /\ IsFiniteSet(Signals) /\ NoSignal \notin Signals
  /\ NoMarket \notin Markets /\ Fixtures \subseteq Markets
  /\ MarketOf \in [Signals -> Markets]
  /\ SideOf \in [Signals -> {"YES", "NO"}]
  /\ Published \in [Signals -> Nat]
  /\ Confident \subseteq Signals
  /\ EndOf \in [Markets -> Nat]
  /\ Answers \in [Markets -> SUBSET {"YES", "NO"}]
  /\ Limit \in Nat /\ Window \in Nat /\ PreShort \in Nat /\ PreLong \in Nat
  /\ Top \in Nat /\ Delay \in Nat /\ MaxTime \in Nat /\ MaxAborts \in Nat
  /\ MaxSnaps \in [Markets -> Nat]
  /\ Quotes \subseteq [mid : {NoPrice} \cup 0..Top, good : BOOLEAN]

VARIABLES
  clock,
  acted,    \* news_signals: those with ACT, an outcome and the verifier's agreement
  snaps,    \* price_snapshots of each market
  winner,   \* markets.winning_outcome, "NONE" while it is null
  row,      \* lag_measurements: the committed row of each signal
  pc,       \* per backfill: "idle", "next", "insert", "observe" or "refresh"
  todo,     \* per backfill: signals of its batch it has not reached
  cur,      \* per backfill: the signal it is measuring
  draft,    \* per backfill: the row it is building
  added,    \* per backfill: rows it has flushed and not committed
  touched,  \* per backfill: the market outcomes whose leakage it must refresh
  flags,    \* per backfill: leakage it has written and not committed
  held,     \* per backfill: the market row its session still holds
  aborts

sessionVars == <<pc, todo, cur, draft, added, touched, flags, held>>
worldVars   == <<clock, acted, snaps, winner>>
vars        == <<clock, acted, snaps, winner, row, pc, todo, cur, draft, added,
                 touched, flags, held, aborts>>

--------------------------------------------------------------------------------
(* Rows.                                                                    *)

Labels    == {"5PT", "10PT", "50PCT", "90PCT"}
Snapshots == [ts : Nat, mid : {NoPrice} \cup 0..Top, good : BOOLEAN]
Outcomes  == {"NONE", "YES", "NO"}
Statuses  == {"INSUFFICIENT_DATA", "MARKET_CLOSED_FIRST", "CROSSED", "NEVER_CROSSED"}
Rows == [status : {"NONE"} \cup Statuses, p0 : {NoPrice} \cup 0..Top, enough : BOOLEAN,
         correct : {"NULL", "TRUE", "FALSE"}, clean : BOOLEAN, stale : BOOLEAN,
         leaky : BOOLEAN, peak : {NoPrice} \cup 0..Top,
         cross : [Labels -> Nat \cup {NoTs}]]

Uncrossed == [l \in Labels |-> NoTs]
NoRow == [status |-> "NONE", p0 |-> NoPrice, enough |-> FALSE, correct |-> "NULL",
          clean |-> FALSE, stale |-> FALSE, leaky |-> FALSE, peak |-> NoPrice,
          cross |-> Uncrossed]
Unheld == [market |-> NoMarket, winner |-> "NONE"]

\* Leakage belongs to a market and an outcome.
Pair(s)   == <<MarketOf[s], SideOf[s]>>
Pairs     == Markets \X {"YES", "NO"}
RowsOf(pair) == {s \in Signals : row[s].status # "NONE" /\ Pair(s) = pair}

TypeOK ==
  /\ clock \in Nat
  /\ acted \subseteq Signals
  /\ snaps \in [Markets -> SUBSET Snapshots]
  /\ winner \in [Markets -> Outcomes]
  /\ row \in [Signals -> Rows]
  /\ pc \in [Backfills -> {"idle", "next", "insert", "observe", "refresh"}]
  /\ todo \in [Backfills -> SUBSET Signals]
  /\ cur \in [Backfills -> Signals \cup {NoSignal}]
  /\ draft \in [Backfills -> Rows]
  /\ added \in [Backfills -> [Signals -> Rows]]
  /\ touched \in [Backfills -> SUBSET Pairs]
  /\ flags \in [Backfills -> [Signals -> {"keep", "TRUE", "FALSE"}]]
  /\ held \in [Backfills -> [market : Markets \cup {NoMarket}, winner : Outcomes]]
  /\ aborts \in Nat

Init ==
  /\ clock = 0
  /\ acted = {}
  /\ snaps = [m \in Markets |-> {}]
  /\ winner = [m \in Markets |-> "NONE"]
  /\ row = [s \in Signals |-> NoRow]
  /\ pc = [b \in Backfills |-> "idle"]
  /\ todo = [b \in Backfills |-> {}]
  /\ cur = [b \in Backfills |-> NoSignal]
  /\ draft = [b \in Backfills |-> NoRow]
  /\ added = [b \in Backfills |-> [s \in Signals |-> NoRow]]
  /\ touched = [b \in Backfills |-> {}]
  /\ flags = [b \in Backfills |-> [s \in Signals |-> "keep"]]
  /\ held = [b \in Backfills |-> Unheld]
  /\ aborts = 0

--------------------------------------------------------------------------------
(* The rest of the system.                                                  *)

Tick ==
  /\ clock < MaxTime
  /\ clock' = clock + 1
  /\ UNCHANGED <<acted, snaps, winner, row, sessionVars, aborts>>

\* A worker of process_candidates, or a watchlist, commits the signal as ACT.
Act(s) ==
  /\ s \notin acted
  /\ Published[s] <= clock
  /\ acted' = acted \cup {s}
  /\ UNCHANGED <<clock, snaps, winner, row, sessionVars, aborts>>

\* A sync commits a snapshot it took up to Delay ticks ago.
Snapshot(m, q, ts) ==
  /\ ts <= clock /\ clock <= ts + Delay
  /\ Cardinality(snaps[m]) < MaxSnaps[m]
  /\ \A x \in snaps[m] : x.ts # ts
  /\ snaps' = [snaps EXCEPT ![m] = @ \cup {[ts |-> ts, mid |-> q.mid, good |-> q.good]}]
  /\ UNCHANGED <<clock, acted, winner, row, sessionVars, aborts>>

Resolve(m, w) ==
  /\ winner[m] # w
  /\ winner' = [winner EXCEPT ![m] = w]
  /\ UNCHANGED <<clock, acted, snaps, row, sessionVars, aborts>>

--------------------------------------------------------------------------------
(* What a measurement says.                                                 *)

Implied(side, mid) == IF side = "YES" THEN mid ELSE Top - mid
Before(m, t) == {x \in snaps[m] : x.ts <= t}
Newest(S)    == {x \in S : \A y \in S : y.ts <= x.ts}

\* The implied price of the nearest snapshot at or before t, if that has a mid.
PriceBefore(m, side, t) ==
  LET S == {x \in Newest(Before(m, t)) : x.mid # NoPrice}
  IN  IF S = {} THEN NoPrice ELSE Implied(side, (CHOOSE x \in S : TRUE).mid)

\* The code's q - p >= d, for prices of that side.
Rose(side, p, q, d) ==
  \/ q - p > d
  \/ q - p = d /\ <<side, p, d>> \notin ShortRises

Baseline(s) == PriceBefore(MarketOf[s], SideOf[s], Published[s])

\* sufficient_liquidity, spread_ok and price_within_range, from 5 to 95 points.
Enough(s) ==
  /\ \E x \in Newest(Before(MarketOf[s], Published[s])) : x.mid # NoPrice /\ x.good
  /\ Baseline(s) \in 1 .. (Top - 1)

Correct(s, w) == IF w = "NONE" THEN "NULL" ELSE IF SideOf[s] = w THEN "TRUE" ELSE "FALSE"

Draft(s, w) ==
  [NoRow EXCEPT !.status = "INSUFFICIENT_DATA", !.p0 = Baseline(s), !.enough = Enough(s),
                !.correct = Correct(s, w)]

\* The price k ticks before the article.
PriceAhead(s, k) == PriceBefore(MarketOf[s], SideOf[s], Published[s] - k)

\* Less than 3 points in 15 minutes and less than 5 in 60, up or down.
Clean(s, p0) ==
  LET short == PriceAhead(s, PreShort)
      long  == PriceAhead(s, PreLong)
  IN  /\ short = p0
      /\ long # NoPrice /\ ~Rose(SideOf[s], long, p0, 1) /\ ~Rose(SideOf[s], p0, long, 1)

\* Up by 5 points in 15 minutes or by 10 in 60.
Stale(s, p0) ==
  \E w \in {<<PriceAhead(s, PreShort), 1>>, <<PriceAhead(s, PreLong), 2>>} :
    w[1] # NoPrice /\ Rose(SideOf[s], w[1], p0, w[2])

NaturalEnd(s) == Published[s] + Window
EndsEarly(s)  == EndOf[MarketOf[s]] < NaturalEnd(s)
WindowEnd(s)  == IF EndsEarly(s) THEN EndOf[MarketOf[s]] ELSE NaturalEnd(s)

InWindow(s) == {x \in snaps[MarketOf[s]] : Published[s] < x.ts /\ x.ts <= WindowEnd(s)}

\* The implied prices of the window, with their times.
Path(s) == {[ts |-> x.ts, p |-> Implied(SideOf[s], x.mid)] :
              x \in {y \in InWindow(s) : y.mid # NoPrice}}

\* first_crossing_after: the threshold is in tenths of a step.
FirstCrossing(s, tenths) ==
  LET S == {x \in Path(s) : 10 * x.p >= tenths}
  IN  IF S = {} THEN NoTs ELSE (CHOOSE x \in S : \A y \in S : x.ts <= y.ts).ts

Peak(s) == IF Path(s) = {} THEN NoPrice
           ELSE (CHOOSE x \in Path(s) : \A y \in Path(s) : y.p <= x.p).p

\* p0 and h tenths of a step; a sum that comes out high is out of reach of its tie.
Threshold(s, l, p0, h) ==
  10 * p0 + h + IF <<SideOf[s], l, p0, h>> \in HighSums THEN 1 ELSE 0

\* Mutant: shares of the eventual move however small it is.
Crossings_AnyMove(s, p0) ==
  LET at(l, h) == FirstCrossing(s, Threshold(s, l, p0, h))
      share(l, tenths) == IF Peak(s) = NoPrice THEN NoTs ELSE at(l, tenths * (Peak(s) - p0))
  IN  [l \in Labels |-> CASE l = "5PT"   -> at(l, 10)
                          [] l = "10PT"  -> at(l, 20)
                          [] l = "50PCT" -> share(l, 5)
                          [] l = "90PCT" -> share(l, 9)]

\* Shares of the eventual move are looked for only if that is 5 points or more.
Crossings(s, p0) ==
  LET at(l, h) == FirstCrossing(s, Threshold(s, l, p0, h))
      share(l, tenths) == IF Peak(s) = NoPrice \/ ~Rose(SideOf[s], p0, Peak(s), 1) THEN NoTs
                          ELSE at(l, tenths * (Peak(s) - p0))
  IN  [l \in Labels |-> CASE l = "5PT"   -> at(l, 10)
                          [] l = "10PT"  -> at(l, 20)
                          [] l = "50PCT" -> share(l, 5)
                          [] l = "90PCT" -> share(l, 9)]

LagStatus(s, cross) ==
  IF cross["5PT"] # NoTs \/ cross["10PT"] # NoTs THEN "CROSSED"
  ELSE IF EndsEarly(s) THEN "MARKET_CLOSED_FIRST"
  ELSE IF InWindow(s) = {} THEN "INSUFFICIENT_DATA"
  ELSE "NEVER_CROSSED"

\* The market had ended at the article: nothing to observe after it.
NoWindow(s) == EndOf[MarketOf[s]] <= Published[s]

Measured(s, r) ==
  LET flagged == [r EXCEPT !.clean = Clean(s, r.p0), !.stale = Stale(s, r.p0)]
      cross   == Crossings(s, r.p0)
  IN  IF NoWindow(s) THEN [flagged EXCEPT !.status = "MARKET_CLOSED_FIRST"]
      ELSE [flagged EXCEPT !.peak = Peak(s), !.cross = cross, !.status = LagStatus(s, cross)]

--------------------------------------------------------------------------------
(* A backfill.                                                              *)

\* Every ACT signal, measured or not.
Selectable == acted

\* ORDER BY published_at LIMIT n; signals published together go either way.
IsBatch(B) ==
  /\ B \subseteq Selectable
  /\ Cardinality(B) = IF Cardinality(Selectable) < Limit THEN Cardinality(Selectable) ELSE Limit
  /\ \A s \in B, u \in Selectable \ B : Published[s] <= Published[u]

SelectSignals(b, B) ==
  /\ pc[b] = "idle"
  /\ IsBatch(B) /\ B # {}
  /\ pc' = [pc EXCEPT ![b] = "next"]
  /\ todo' = [todo EXCEPT ![b] = B]
  /\ UNCHANGED <<worldVars, row, cur, draft, added, touched, flags, held, aborts>>

Reached(b, s) ==
  /\ pc[b] = "next"
  /\ s \in todo[b]
  /\ \A u \in todo[b] : Published[s] <= Published[u]

WinnerRead(b, m) == IF held[b].market = m THEN held[b].winner ELSE winner[m]
Hold(b, m) == held' = [held EXCEPT ![b] = [market |-> m, winner |-> WinnerRead(b, m)]]

SkipMeasured(b, s) ==
  /\ Reached(b, s)
  /\ row[s].status # "NONE"
  /\ todo' = [todo EXCEPT ![b] = @ \ {s}]
  /\ UNCHANGED <<worldVars, row, pc, cur, draft, added, touched, flags, held, aborts>>

SkipFixture(b, s) ==
  /\ Reached(b, s)
  /\ row[s].status = "NONE"
  /\ MarketOf[s] \in Fixtures
  /\ todo' = [todo EXCEPT ![b] = @ \ {s}]
  /\ Hold(b, MarketOf[s])
  /\ UNCHANGED <<worldVars, row, pc, cur, draft, added, touched, flags, aborts>>

\* The signal has no measurement: read its market and the price at the article.
TakeSignal(b, s) ==
  /\ Reached(b, s)
  /\ row[s].status = "NONE"
  /\ MarketOf[s] \notin Fixtures
  /\ todo' = [todo EXCEPT ![b] = @ \ {s}]
  /\ Hold(b, MarketOf[s])
  /\ cur' = [cur EXCEPT ![b] = s]
  /\ draft' = [draft EXCEPT ![b] = Draft(s, WinnerRead(b, MarketOf[s]))]
  /\ touched' = [touched EXCEPT ![b] = @ \cup {Pair(s)}]
  /\ pc' = [pc EXCEPT ![b] = "insert"]
  /\ UNCHANGED <<worldVars, row, added, flags, aborts>>

Clear(b) ==
  /\ todo' = [todo EXCEPT ![b] = {}]
  /\ cur' = [cur EXCEPT ![b] = NoSignal]
  /\ draft' = [draft EXCEPT ![b] = NoRow]
  /\ added' = [added EXCEPT ![b] = [s \in Signals |-> NoRow]]
  /\ touched' = [touched EXCEPT ![b] = {}]
  /\ flags' = [flags EXCEPT ![b] = [s \in Signals |-> "keep"]]
  /\ held' = [held EXCEPT ![b] = Unheld]
  /\ pc' = [pc EXCEPT ![b] = "idle"]

Written(pending) ==
  [s \in Signals |-> IF pending[s].status # "NONE" THEN pending[s] ELSE row[s]]

\* What the session has flushed, and r for signal s, is committed.
CommitWith(b, s, r) ==
  /\ row' = Written([added[b] EXCEPT ![s] = r])
  /\ added' = [added EXCEPT ![b] = [u \in Signals |-> NoRow]]

Finish(b) ==
  /\ cur' = [cur EXCEPT ![b] = NoSignal]
  /\ draft' = [draft EXCEPT ![b] = NoRow]
  /\ pc' = [pc EXCEPT ![b] = "next"]
  /\ UNCHANGED <<worldVars, todo, touched, flags, held, aborts>>

\* signal_id is UNIQUE: an INSERT waits for another session's pending one.
MayInsert(b, s) ==
  /\ pc[b] = "insert"
  /\ cur[b] = s
  /\ \A c \in Backfills \ {b} : added[c][s].status = "NONE"

\* Mutant: without the constraint, the later row replaces the earlier one.
InsertInsufficient_Replaces(b, s) ==
  /\ MayInsert(b, s)
  /\ ~draft[b].enough
  /\ CommitWith(b, s, draft[b])
  /\ Finish(b)

InsertInsufficient(b, s) ==
  /\ MayInsert(b, s)
  /\ row[s].status = "NONE"
  /\ ~draft[b].enough
  /\ CommitWith(b, s, draft[b])
  /\ Finish(b)

FlushMeasurement(b, s) ==
  /\ MayInsert(b, s)
  /\ row[s].status = "NONE"
  /\ draft[b].enough
  /\ added' = [added EXCEPT ![b][s] = draft[b]]
  /\ pc' = [pc EXCEPT ![b] = "observe"]
  /\ UNCHANGED <<worldVars, row, todo, cur, draft, touched, flags, held, aborts>>

\* IntegrityError: the run fails and what it has not committed is lost.
Conflict(b, s) ==
  /\ MayInsert(b, s)
  /\ row[s].status # "NONE"
  /\ Clear(b)
  /\ UNCHANGED <<worldVars, row, aborts>>

ObserveClosed(b, s) ==
  /\ pc[b] = "observe"
  /\ cur[b] = s
  /\ NoWindow(s)
  /\ CommitWith(b, s, Measured(s, added[b][s]))
  /\ Finish(b)

ObserveWindow(b, s) ==
  /\ pc[b] = "observe"
  /\ cur[b] = s
  /\ ~NoWindow(s)
  /\ added' = [added EXCEPT ![b][s] = Measured(s, added[b][s])]
  /\ Finish(b)
  /\ UNCHANGED row

CommitRows(b) ==
  /\ pc[b] = "next"
  /\ todo[b] = {}
  /\ row' = Written(added[b])
  /\ added' = [added EXCEPT ![b] = [s \in Signals |-> NoRow]]
  /\ pc' = [pc EXCEPT ![b] = "refresh"]
  /\ UNCHANGED <<worldVars, todo, cur, draft, touched, flags, held, aborts>>

--------------------------------------------------------------------------------
(* The leakage of a market outcome: did the price move by ten points in the  *)
(* hour before its earliest approved signal?                                 *)

Approved(pair) == {s \in acted \cap Confident : Pair(s) = pair}

Earliest(pair) ==
  {s \in Approved(pair) : \A u \in Approved(pair) : Published[s] <= Published[u]}

\* Prices at the earliest approved signal and an hour before it, if both known.
LeakWindows(pair) ==
  {w \in {<<PriceBefore(pair[1], pair[2], Published[s] - PreLong),
            PriceBefore(pair[1], pair[2], Published[s])>> : s \in Earliest(pair)} :
     NoPrice \notin {w[1], w[2]}}

\* Mutant: a fall counts as well.
Leaks_EitherWay(side, w) == Rose(side, w[1], w[2], 2) \/ Rose(side, w[2], w[1], 2)

Leaks(side, w) == Rose(side, w[1], w[2], 2)

\* The UPDATE waits for rows that another refresh has written.
RefreshLeakage(b, pair) ==
  /\ pc[b] = "refresh"
  /\ pair \in touched[b]
  /\ touched' = [touched EXCEPT ![b] = @ \ {pair}]
  /\ IF LeakWindows(pair) = {} THEN UNCHANGED flags
     ELSE /\ \A c \in Backfills \ {b}, s \in RowsOf(pair) : flags[c][s] = "keep"
          /\ \E w \in LeakWindows(pair) :
               flags' = [flags EXCEPT ![b] =
                           [s \in Signals |-> IF s \in RowsOf(pair)
                                              THEN IF Leaks(pair[2], w) THEN "TRUE" ELSE "FALSE"
                                              ELSE @[s]]]
  /\ UNCHANGED <<worldVars, row, pc, todo, cur, draft, added, held, aborts>>

Flagged(s, f) == IF f = "keep" THEN row[s] ELSE [row[s] EXCEPT !.leaky = (f = "TRUE")]

CommitFlags(b) ==
  /\ pc[b] = "refresh"
  /\ touched[b] = {}
  /\ row' = [s \in Signals |-> Flagged(s, flags[b][s])]
  /\ Clear(b)
  /\ UNCHANGED <<worldVars, aborts>>

Abort(b) ==
  /\ pc[b] # "idle"
  /\ aborts < MaxAborts
  /\ aborts' = aborts + 1
  /\ Clear(b)
  /\ UNCHANGED <<worldVars, row>>

--------------------------------------------------------------------------------
(* The specification.                                                       *)

BackfillStep(b) ==
  \/ \E B \in SUBSET acted : SelectSignals(b, B)
  \/ \E s \in Signals :
       \/ SkipMeasured(b, s) \/ SkipFixture(b, s) \/ TakeSignal(b, s)
       \/ InsertInsufficient(b, s) \/ FlushMeasurement(b, s) \/ Conflict(b, s)
       \/ ObserveClosed(b, s) \/ ObserveWindow(b, s)
  \/ CommitRows(b)
  \/ \E pair \in Pairs : RefreshLeakage(b, pair)
  \/ CommitFlags(b)

Next ==
  \/ Tick
  \/ \E s \in Signals : Act(s)
  \/ \E m \in Markets, q \in Quotes, ts \in 0..clock : Snapshot(m, q, ts)
  \/ \E m \in Markets : \E w \in Answers[m] : Resolve(m, w)
  \/ \E b \in Backfills : BackfillStep(b) \/ Abort(b)

Spec == Init /\ [][Next]_vars

\* The hourly loop and the cron start backfills for ever, and one that is not
\* killed runs to its end.
FairSpec == Spec /\ \A b \in Backfills : WF_vars(BackfillStep(b))

--------------------------------------------------------------------------------
(* Properties.                                                              *)

\* What is measured stays as it was measured, however backfills overlap: only
\* the leakage flag is rewritten (run_backfill skips what exists, signal_id is
\* UNIQUE, the refresh updates one column).
MeasuredOnce ==
  [][\A s \in Signals : row[s].status # "NONE" =>
       row'[s] = [row[s] EXCEPT !.leaky = row'[s].leaky]]_vars

\* The figures of a measurement r of signal s agree with each other.
Coherent(s, r) ==
  LET c == r.cross
  IN  /\ r.status = "CROSSED" <=> c["5PT"] # NoTs
      /\ c["50PCT"] # NoTs => r.peak >= r.p0 + 1
      /\ c["10PT"] # NoTs => c["50PCT"] # NoTs
      /\ c["90PCT"] # NoTs <=> c["50PCT"] # NoTs
      /\ c["10PT"] # NoTs => c["5PT"] # NoTs /\ c["5PT"] <= c["10PT"]
      /\ c["90PCT"] # NoTs => c["50PCT"] <= c["90PCT"]
      /\ \A l \in Labels : c[l] # NoTs => Published[s] < c[l] /\ c[l] <= WindowEnd(s)

\* A measurement is CROSSED exactly if 5 points were crossed; a higher threshold is
\* crossed no earlier; half and 90% of the eventual move are crossed both or neither,
\* only if it was 5 points and surely if it was 10; and all crossings are after the
\* article and within the window (first_crossing_after, eventual_move_thresholds and
\* price_lag_status are computed one by one, in doubles).
CrossingsCohere == \A s \in Signals : Coherent(s, row[s])

\* A confident ACT signal of the same market and outcome was published, and the
\* price had risen by ten points from a snapshot an hour or more before that to
\* one no later than that.
Evidence(s) ==
  \E e \in acted \cap Confident :
    /\ Pair(e) = Pair(s)
    /\ \E x, y \in snaps[MarketOf[s]] :
         /\ x.ts <= Published[e] - PreLong /\ y.ts <= Published[e]
         /\ x.mid # NoPrice /\ y.mid # NoPrice
         /\ Implied(SideOf[s], y.mid) - Implied(SideOf[s], x.mid) >= 2

\* "Leaky" is never raised on nothing (_refresh_leakage_flags_for_market_outcome).
LeakyHasEvidence == \A s \in Signals : row[s].leaky => Evidence(s)

\* Every ACT signal of a real market is measured in the end.
EverySignalMeasured ==
  \A s \in Signals :
    (s \in acted /\ MarketOf[s] \notin Fixtures) ~> row[s].status # "NONE"
================================================================================
