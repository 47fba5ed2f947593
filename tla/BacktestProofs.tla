---------------------------- MODULE BacktestProofs ----------------------------
(***************************************************************************)
(* Theorems about LagBackfill, for any number of signals, markets, syncs   *)
(* and overlapping backfills; and about Backtest, for any number of        *)
(* backtests beside them.  What holds of the measurements is carried over, *)
(* since a backtest only reads them.                                       *)
(***************************************************************************)
EXTENDS Backtest, FiniteSetTheorems, SequenceTheorems, TLAPS

\* A nonempty set of naturals has a least element: the strict subsets of a finite
\* set are well founded, and x is the set of what is below it.
LEMMA Least ==
  ASSUME NEW T, T \subseteq Nat, T # {}
  PROVE  \E x \in T : \A y \in T : x <= y
<1> DEFINE Below == {0 .. (x - 1) : x \in T}
<1>1. Below \subseteq FiniteSubsetsOf(Nat)
  <2>1. ASSUME NEW x \in T PROVE 0 .. (x - 1) \in FiniteSubsetsOf(Nat)
    BY FS_Interval, x - 1 \in Int, 0 \in Int DEF FiniteSubsetsOf
  <2>. QED BY <2>1
<1>2. IsWellFoundedOn(StrictSubsetOrdering(Nat), FiniteSubsetsOf(Nat))
  BY FS_StrictSubsetOrderingWellFounded
<1>3. PICK B \in Below : \A C \in Below : <<C, B>> \notin StrictSubsetOrdering(Nat)
  <2>1. Below # {}
    OBVIOUS
  <2>. HIDE DEF Below
  <2>. QED BY <1>1, <1>2, <2>1, WFMin, Zenon
<1>4. PICK x \in T : B = 0 .. (x - 1)
  BY <1>3
<1>5. ASSUME NEW y \in T, y < x PROVE FALSE
  <2>1. /\ 0 .. (y - 1) \subseteq 0 .. (x - 1)
        /\ y \in 0 .. (x - 1) /\ y \notin 0 .. (y - 1)
    BY <1>5
  <2>2. <<0 .. (y - 1), B>> \in StrictSubsetOrdering(Nat)
    BY <1>4, <2>1 DEF StrictSubsetOrdering
  <2>. QED BY <1>3, <2>2
<1>. QED BY <1>5

\* So a nonempty set of naturals up to n has a greatest one.
LEMMA Greatest ==
  ASSUME NEW n \in Nat, NEW T, T \subseteq 0..n, T # {}
  PROVE  \E x \in T : \A y \in T : y <= x
<1> DEFINE D == {n - x : x \in T}
<1>1. PICK d \in D : \A e \in D : d <= e
  <2>1. ASSUME NEW x \in T PROVE n - x \in Nat
    <3>1. x \in 0..n
      OBVIOUS
    <3>. QED BY <3>1
  <2>2. D \subseteq Nat /\ D # {}
    BY <2>1
  <2>. HIDE DEF D
  <2>. QED BY <2>2, Least
<1>2. PICK x \in T : d = n - x
  OBVIOUS
<1>3. ASSUME NEW y \in T PROVE y <= x
  <2>1. d <= n - y
    BY <1>1
  <2>. QED BY <1>2, <2>1
<1>. QED BY <1>3

--------------------------------------------------------------------------------
(* Types.                                                                       *)

LEMMA ImpliedIsPrice ==
  ASSUME NEW side, NEW mid \in 0..Top
  PROVE  Implied(side, mid) \in 0..Top
BY ConstantsAssumption DEF Implied

\* The price before t is one some snapshot up to t gave, or none.
LEMMA PriceHasSnapshot ==
  ASSUME TypeOK, NEW m \in Markets, NEW side, NEW t
  PROVE  /\ PriceBefore(m, side, t) \in {NoPrice} \cup 0..Top
         /\ PriceBefore(m, side, t) # NoPrice =>
              \E x \in snaps[m] : /\ x.ts <= t /\ x.mid # NoPrice
                                  /\ PriceBefore(m, side, t) = Implied(side, x.mid)
<1> DEFINE S == {x \in Newest(Before(m, t)) : x.mid # NoPrice}
<1>1. CASE S = {}
  BY <1>1 DEF PriceBefore
<1>2. CASE S # {}
  <2> DEFINE x == CHOOSE x \in S : TRUE
  <2>1. x \in S
    BY <1>2
  <2>2. /\ x \in snaps[m] /\ x.ts <= t /\ x.mid # NoPrice
        /\ PriceBefore(m, side, t) = Implied(side, x.mid)
    BY <1>2, <2>1 DEF PriceBefore, Newest, Before
  <2>3. x.mid \in 0..Top
    BY <2>2 DEF TypeOK, Snapshots
  <2>. QED BY <2>2, <2>3, ImpliedIsPrice
<1>. QED BY <1>1, <1>2

LEMMA PathPoints ==
  ASSUME TypeOK, NEW s \in Signals, NEW x \in Path(s)
  PROVE  /\ x.p \in 0..Top /\ x.ts \in Nat
         /\ Published[s] < x.ts /\ x.ts <= WindowEnd(s)
<1>1. PICK y \in InWindow(s) : y.mid # NoPrice /\ x = [ts |-> y.ts, p |-> Implied(SideOf[s], y.mid)]
  BY DEF Path
<1>2. y \in snaps[MarketOf[s]] /\ Published[s] < y.ts /\ y.ts <= WindowEnd(s)
  BY DEF InWindow
<1>3. y.ts \in Nat /\ y.mid \in 0..Top
  BY <1>1, <1>2, ConstantsAssumption DEF TypeOK, Snapshots
<1>. QED BY <1>1, <1>2, <1>3, ImpliedIsPrice

\* A crossing is found exactly if some point of the path is high enough, it is one
\* such point, and no such point is earlier.
LEMMA FirstCrossingIsFirst ==
  ASSUME TypeOK, NEW s \in Signals, NEW h \in Int
  PROVE  LET f == FirstCrossing(s, h)
             S == {x \in Path(s) : 10 * x.p >= h}
         IN  /\ S = {} => f = NoTs
             /\ S # {} => /\ f \in Nat
                          /\ \E x \in S : x.ts = f
                          /\ \A x \in S : f <= x.ts
<1> DEFINE S == {x \in Path(s) : 10 * x.p >= h}
<1>1. CASE S = {}
  BY <1>1 DEF FirstCrossing
<1>2. CASE S # {}
  <2> DEFINE T == {x.ts : x \in S}
  <2>1. PICK t \in T : \A u \in T : t <= u
    <3>1. T \subseteq Nat /\ T # {}
      BY <1>2, PathPoints
    <3>. HIDE DEF T
    <3>. QED BY <3>1, Least
  <2>2. \E x \in S : \A y \in S : x.ts <= y.ts
    BY <2>1
  <2> DEFINE x == CHOOSE x \in S : \A y \in S : x.ts <= y.ts
  <2>3. x \in S /\ \A y \in S : x.ts <= y.ts
    BY <2>2
  <2>4. FirstCrossing(s, h) = x.ts
    BY <1>2 DEF FirstCrossing
  <2>5. x.ts \in Nat
    BY <2>3, PathPoints
  <2>. QED BY <1>2, <2>3, <2>4, <2>5
<1>. QED BY <1>1, <1>2

LEMMA PeakIsPeak ==
  ASSUME TypeOK, NEW s \in Signals
  PROVE  /\ Path(s) = {} => Peak(s) = NoPrice
         /\ Path(s) # {} => /\ Peak(s) \in 0..Top
                            /\ \E x \in Path(s) : x.p = Peak(s)
                            /\ \A x \in Path(s) : x.p <= Peak(s)
<1>1. CASE Path(s) = {}
  BY <1>1 DEF Peak
<1>2. CASE Path(s) # {}
  <2> DEFINE T == {x.p : x \in Path(s)}
  <2>1. PICK t \in T : \A u \in T : u <= t
    <3>1. T \subseteq 0..Top /\ T # {} /\ Top \in Nat
      BY <1>2, PathPoints, ConstantsAssumption
    <3>. HIDE DEF T
    <3>. QED BY <3>1, Greatest
  <2>2. \E x \in Path(s) : \A y \in Path(s) : y.p <= x.p
    BY <2>1
  <2> DEFINE x == CHOOSE x \in Path(s) : \A y \in Path(s) : y.p <= x.p
  <2>3. x \in Path(s) /\ \A y \in Path(s) : y.p <= x.p
    BY <2>2
  <2>4. Peak(s) = x.p
    BY <1>2 DEF Peak
  <2>. QED BY <1>2, <2>3, <2>4, PathPoints
<1>. QED BY <1>1, <1>2

LEMMA NoRowIsRow == NoRow \in Rows
BY DEF NoRow, Rows, Uncrossed

LEMMA DraftIsRow ==
  ASSUME TypeOK, NEW s \in Signals, NEW w \in Outcomes
  PROVE  /\ Draft(s, w) \in Rows
         /\ Draft(s, w).status = "INSUFFICIENT_DATA"
         /\ Draft(s, w).cross = Uncrossed
         /\ Draft(s, w).leaky = FALSE
<1>1. Baseline(s) \in {NoPrice} \cup 0..Top
  BY PriceHasSnapshot, ConstantsAssumption DEF Baseline
<1>2. Enough(s) \in BOOLEAN
  BY DEF Enough
<1>3. Correct(s, w) \in {"NULL", "TRUE", "FALSE"}
  BY DEF Correct
<1>4. /\ NoRow \in Rows /\ NoRow.cross = Uncrossed /\ NoRow.leaky = FALSE
  BY NoRowIsRow DEF NoRow
<1>. QED BY <1>1, <1>2, <1>3, <1>4 DEF Draft, Rows, Statuses

\* Thresholds are whole tenths, a tenth above the tie at most.
LEMMA ThresholdIsInt ==
  ASSUME NEW s, NEW l, NEW p0 \in Int, NEW h \in Int
  PROVE  Threshold(s, l, p0, h) \in {10 * p0 + h, 10 * p0 + h + 1}
BY DEF Threshold

LEMMA CrossingsAreTimes ==
  ASSUME TypeOK, NEW s \in Signals, NEW p0 \in {NoPrice} \cup 0..Top
  PROVE  Crossings(s, p0) \in [Labels -> Nat \cup {NoTs}]
<1> DEFINE at(l, h) == FirstCrossing(s, Threshold(s, l, p0, h))
           share(l, tenths) == IF Peak(s) = NoPrice \/ ~Rose(SideOf[s], p0, Peak(s), 1) THEN NoTs
                               ELSE at(l, tenths * (Peak(s) - p0))
<1>1. p0 \in Int /\ (Peak(s) # NoPrice => Peak(s) \in Int)
  BY PeakIsPeak, ConstantsAssumption DEF NoPrice
<1>2. \A l, h : h \in Int => at(l, h) \in Nat \cup {NoTs}
  <2> SUFFICES ASSUME NEW l, NEW h \in Int PROVE at(l, h) \in Nat \cup {NoTs}
    OBVIOUS
  <2>1. Threshold(s, l, p0, h) \in Int
    BY <1>1, ThresholdIsInt
  <2>. QED BY <2>1, FirstCrossingIsFirst
<1>3. /\ share("50PCT", 5) \in Nat \cup {NoTs}
      /\ share("90PCT", 9) \in Nat \cup {NoTs}
  <2>1. Peak(s) # NoPrice => 5 * (Peak(s) - p0) \in Int /\ 9 * (Peak(s) - p0) \in Int
    BY <1>1
  <2>. HIDE DEF at
  <2>. QED BY <1>2, <2>1
<1>4. Crossings(s, p0) = [l \in Labels |-> CASE l = "5PT"   -> at(l, 10)
                                             [] l = "10PT"  -> at(l, 20)
                                             [] l = "50PCT" -> share(l, 5)
                                             [] l = "90PCT" -> share(l, 9)]
  BY DEF Crossings
<1>. HIDE DEF at, share
<1>. QED BY <1>2, <1>3, <1>4 DEF Labels

LEMMA MeasuredIsRow ==
  ASSUME TypeOK, NEW s \in Signals, NEW r \in Rows
  PROVE  /\ Measured(s, r) \in Rows
         /\ Measured(s, r).status \in Statuses
         /\ Measured(s, r).leaky = r.leaky
<1>1. Clean(s, r.p0) \in BOOLEAN /\ Stale(s, r.p0) \in BOOLEAN
  BY DEF Clean, Stale, Rose
<1>2. r.p0 \in {NoPrice} \cup 0..Top
  BY DEF Rows
<1>3. Crossings(s, r.p0) \in [Labels -> Nat \cup {NoTs}]
  BY <1>2, CrossingsAreTimes
<1>4. Peak(s) \in {NoPrice} \cup 0..Top
  BY PeakIsPeak
<1>5. LagStatus(s, Crossings(s, r.p0)) \in Statuses
  BY DEF LagStatus, Statuses
<1>6. CASE NoWindow(s)
  BY <1>1, <1>6 DEF Measured, Rows, Statuses
<1>7. CASE ~NoWindow(s)
  <2>1. Measured(s, r) = [r EXCEPT !.clean = Clean(s, r.p0), !.stale = Stale(s, r.p0),
                                   !.peak = Peak(s), !.cross = Crossings(s, r.p0),
                                   !.status = LagStatus(s, Crossings(s, r.p0))]
    BY <1>7 DEF Measured, Rows
  <2>. QED BY <1>1, <1>3, <1>4, <1>5, <2>1 DEF Rows, Statuses
<1>. QED BY <1>6, <1>7

LEMMA TypeInit == Init => TypeOK
<1> SUFFICES ASSUME Init PROVE TypeOK
  OBVIOUS
<1>1. /\ \A f \in Signals : NoRow \in Rows
      /\ NoRow \in Rows
  BY NoRowIsRow
<1>. QED BY <1>1, ConstantsAssumption DEF Init, TypeOK, Unheld, Outcomes

LEMMA WrittenIsRows ==
  ASSUME TypeOK, NEW pending \in [Signals -> Rows]
  PROVE  Written(pending) \in [Signals -> Rows]
BY DEF Written, TypeOK

LEMMA ClearTypes ==
  ASSUME TypeOK, NEW b \in Backfills, Clear(b), row' \in [Signals -> Rows],
         aborts' \in Nat, UNCHANGED worldVars
  PROVE  TypeOK'
<1>1. [s \in Signals |-> NoRow] \in [Signals -> Rows]
  BY NoRowIsRow
<1>2. Unheld \in [market : Markets \cup {NoMarket}, winner : Outcomes]
  BY DEF Unheld, Outcomes
<1>. QED BY <1>1, <1>2, NoRowIsRow DEF TypeOK, Clear, worldVars

\* A session that commits what it has flushed, with a row for s, and moves on.
LEMMA CommitTypes ==
  ASSUME TypeOK, NEW b \in Backfills, NEW s \in Signals, NEW r \in Rows,
         CommitWith(b, s, r), Finish(b)
  PROVE  TypeOK'
<1>1. [added[b] EXCEPT ![s] = r] \in [Signals -> Rows]
  BY DEF TypeOK
<1>2. row' \in [Signals -> Rows]
  BY <1>1, WrittenIsRows DEF CommitWith
<1>3. [u \in Signals |-> NoRow] \in [Signals -> Rows]
  BY NoRowIsRow
<1>. QED BY <1>2, <1>3, NoRowIsRow DEF TypeOK, CommitWith, Finish, worldVars

LEMMA WorldTypes ==
  ASSUME TypeOK,
         \/ Tick
         \/ \E s \in Signals : Act(s)
         \/ \E m \in Markets, q \in Quotes, ts \in 0..clock : Snapshot(m, q, ts)
         \/ \E m \in Markets : \E w \in Answers[m] : Resolve(m, w)
  PROVE  TypeOK'
<1>1. CASE Tick
  BY <1>1 DEF Tick, TypeOK, sessionVars
<1>2. ASSUME NEW s \in Signals, Act(s) PROVE TypeOK'
  BY <1>2 DEF Act, TypeOK, sessionVars
<1>3. ASSUME NEW m \in Markets, NEW q \in Quotes, NEW ts \in 0..clock, Snapshot(m, q, ts)
      PROVE  TypeOK'
  <2>1. [ts |-> ts, mid |-> q.mid, good |-> q.good] \in Snapshots
    BY ConstantsAssumption DEF Snapshots, TypeOK
  <2>. QED BY <1>3, <2>1 DEF Snapshot, TypeOK, sessionVars
<1>4. ASSUME NEW m \in Markets, NEW w \in Answers[m], Resolve(m, w) PROVE TypeOK'
  <2>1. w \in Outcomes
    BY ConstantsAssumption DEF Outcomes
  <2>. QED BY <1>4, <2>1 DEF Resolve, TypeOK, sessionVars
<1>. QED BY <1>1, <1>2, <1>3, <1>4

LEMMA TypeStep ==
  ASSUME TypeOK, [Next]_vars
  PROVE  TypeOK'
<1> USE ConstantsAssumption
<1>1. ASSUME \/ Tick
             \/ \E s \in Signals : Act(s)
             \/ \E m \in Markets, q \in Quotes, ts \in 0..clock : Snapshot(m, q, ts)
             \/ \E m \in Markets : \E w \in Answers[m] : Resolve(m, w)
      PROVE  TypeOK'
  BY <1>1, WorldTypes
<1>2. ASSUME NEW b \in Backfills, NEW B \in SUBSET acted, SelectSignals(b, B) PROVE TypeOK'
  <2>1. B \subseteq Signals
    BY DEF TypeOK
  <2>. QED BY <1>2, <2>1 DEF SelectSignals, TypeOK, worldVars
<1>3. ASSUME NEW b \in Backfills, NEW s \in Signals, SkipMeasured(b, s) PROVE TypeOK'
  BY <1>3 DEF SkipMeasured, TypeOK, worldVars
<1>4. ASSUME NEW b \in Backfills, NEW s \in Signals PROVE WinnerRead(b, MarketOf[s]) \in Outcomes
  BY DEF WinnerRead, TypeOK
<1>5. ASSUME NEW b \in Backfills, NEW s \in Signals, SkipFixture(b, s) PROVE TypeOK'
  BY <1>4, <1>5 DEF SkipFixture, Hold, TypeOK, worldVars
<1>6. ASSUME NEW b \in Backfills, NEW s \in Signals, TakeSignal(b, s) PROVE TypeOK'
  <2>1. Draft(s, WinnerRead(b, MarketOf[s])) \in Rows
    BY <1>4, DraftIsRow
  <2>2. Pair(s) \in Pairs
    BY DEF Pair, Pairs
  <2>. QED BY <1>4, <1>6, <2>1, <2>2 DEF TakeSignal, Hold, TypeOK, worldVars
<1>7. ASSUME NEW b \in Backfills, NEW s \in Signals, InsertInsufficient(b, s) PROVE TypeOK'
  <2>1. draft[b] \in Rows
    BY DEF TypeOK
  <2>. QED BY <1>7, <2>1, CommitTypes DEF InsertInsufficient
<1>8. ASSUME NEW b \in Backfills, NEW s \in Signals, FlushMeasurement(b, s) PROVE TypeOK'
  BY <1>8 DEF FlushMeasurement, TypeOK, worldVars
<1>9. ASSUME NEW b \in Backfills, NEW s \in Signals, Conflict(b, s) PROVE TypeOK'
  BY <1>9, ClearTypes DEF Conflict, TypeOK
<1>10. ASSUME NEW b \in Backfills, NEW s \in Signals, ObserveClosed(b, s) PROVE TypeOK'
  <2>1. Measured(s, added[b][s]) \in Rows
    BY MeasuredIsRow DEF TypeOK
  <2>. QED BY <1>10, <2>1, CommitTypes DEF ObserveClosed
<1>11. ASSUME NEW b \in Backfills, NEW s \in Signals, ObserveWindow(b, s) PROVE TypeOK'
  <2>1. Measured(s, added[b][s]) \in Rows
    BY MeasuredIsRow DEF TypeOK
  <2>. QED BY <1>11, <2>1, NoRowIsRow DEF ObserveWindow, Finish, TypeOK, worldVars
<1>12. ASSUME NEW b \in Backfills, CommitRows(b) PROVE TypeOK'
  <2>1. row' \in [Signals -> Rows]
    BY <1>12, WrittenIsRows DEF CommitRows, TypeOK
  <2>. QED BY <1>12, <2>1, NoRowIsRow DEF CommitRows, TypeOK, worldVars
<1>13. ASSUME NEW b \in Backfills, NEW pair \in Pairs, RefreshLeakage(b, pair) PROVE TypeOK'
  <2>1. flags' \in [Backfills -> [Signals -> {"keep", "TRUE", "FALSE"}]]
    <3>1. CASE UNCHANGED flags
      BY <3>1 DEF TypeOK
    <3>2. ASSUME NEW w \in LeakWindows(pair),
                 flags' = [flags EXCEPT ![b] =
                             [s \in Signals |-> IF s \in RowsOf(pair)
                                                THEN IF Leaks(pair[2], w) THEN "TRUE" ELSE "FALSE"
                                                ELSE @[s]]]
          PROVE  flags' \in [Backfills -> [Signals -> {"keep", "TRUE", "FALSE"}]]
      BY <3>2 DEF TypeOK
    <3>. QED BY <1>13, <3>1, <3>2 DEF RefreshLeakage
  <2>. QED BY <1>13, <2>1 DEF RefreshLeakage, TypeOK, worldVars
<1>14. ASSUME NEW b \in Backfills, CommitFlags(b) PROVE TypeOK'
  <2>1. ASSUME NEW s \in Signals PROVE Flagged(s, flags[b][s]) \in Rows
    <3>1. row[s] \in Rows
      BY DEF TypeOK
    <3>2. CASE flags[b][s] = "keep"
      BY <3>1, <3>2 DEF Flagged
    <3>3. CASE flags[b][s] # "keep"
      <4> DEFINE f == flags[b][s] = "TRUE"
      <4>1. f \in BOOLEAN
        OBVIOUS
      <4>2. Flagged(s, flags[b][s]) = [row[s] EXCEPT !.leaky = f]
        BY <3>3 DEF Flagged
      <4>. HIDE DEF f
      <4>. QED BY <3>1, <4>1, <4>2 DEF Rows
    <3>. QED BY <3>2, <3>3
  <2>. QED BY <1>14, <2>1, ClearTypes DEF CommitFlags, TypeOK
<1>15. ASSUME NEW b \in Backfills, Abort(b) PROVE TypeOK'
  BY <1>15, ClearTypes DEF Abort, TypeOK
<1>16. CASE UNCHANGED vars
  BY <1>16 DEF vars, TypeOK
<1>. QED BY <1>1, <1>2, <1>3, <1>5, <1>6, <1>7, <1>8, <1>9, <1>10, <1>11, <1>12, <1>13, <1>14,
            <1>15, <1>16
         DEF Next, BackfillStep

\* Every row, draft and session of the model has its type in every state.
THEOREM Typing == Spec => []TypeOK
BY TypeInit, TypeStep, PTL DEF Spec

--------------------------------------------------------------------------------
(* A signal is measured once.                                                   *)

\* What is flushed is of signals without a row, each of one session: the unique
\* constraint on signal_id.
PendingInv ==
  /\ \A b \in Backfills, s \in Signals :
       added[b][s].status # "NONE" => row[s].status = "NONE"
  /\ \A b, c \in Backfills : b # c =>
       \A s \in Signals : added[b][s].status = "NONE" \/ added[c][s].status = "NONE"
  /\ \A b \in Backfills :
       /\ pc[b] = "insert" => draft[b].status # "NONE"
       /\ pc[b] = "observe" => cur[b] \in Signals /\ added[b][cur[b]].status # "NONE"

\* What MeasuredOnce says of a step.
KeepsRows ==
  \A s \in Signals : row[s].status # "NONE" => row'[s] = [row[s] EXCEPT !.leaky = row'[s].leaky]

LEMMA SameRows ==
  ASSUME TypeOK, row' = row
  PROVE  KeepsRows
<1>1. ASSUME NEW s \in Signals PROVE row[s] = [row[s] EXCEPT !.leaky = row[s].leaky]
  BY DEF TypeOK, Rows
<1>. QED BY <1>1 DEF KeepsRows

\* The commit of rows for signals that have none.
LEMMA CommitKeeps ==
  ASSUME TypeOK, PendingInv, NEW b \in Backfills, NEW pending \in [Signals -> Rows],
         row' = Written(pending),
         \A s \in Signals : pending[s].status # "NONE" =>
            /\ row[s].status = "NONE"
            /\ \A c \in Backfills \ {b} : added[c][s].status = "NONE",
         added' = [added EXCEPT ![b] = [u \in Signals |-> NoRow]]
  PROVE  /\ KeepsRows
         /\ \A c \in Backfills, s \in Signals :
              added'[c][s].status # "NONE" => row'[s].status = "NONE"
         /\ \A a, c \in Backfills : a # c =>
              \A s \in Signals : added'[a][s].status = "NONE" \/ added'[c][s].status = "NONE"
         /\ \A c \in Backfills \ {b} : added'[c] = added[c]
<1>1. \A s \in Signals : added'[b][s].status = "NONE"
  BY DEF TypeOK, NoRow
<1>2. \A c \in Backfills \ {b} : added'[c] = added[c]
  BY DEF TypeOK
<1>3. KeepsRows
  <2>1. ASSUME NEW s \in Signals, row[s].status # "NONE" PROVE row'[s] = row[s]
    BY <2>1 DEF Written
  <2>2. ASSUME NEW s \in Signals PROVE row[s] = [row[s] EXCEPT !.leaky = row[s].leaky]
    BY DEF TypeOK, Rows
  <2>. QED BY <2>1, <2>2 DEF KeepsRows
<1>4. ASSUME NEW c \in Backfills, NEW s \in Signals, added'[c][s].status # "NONE"
      PROVE  row'[s].status = "NONE"
  <2>1. c # b /\ added[c][s].status # "NONE"
    BY <1>1, <1>2, <1>4
  <2>2. pending[s].status = "NONE"
    BY <2>1
  <2>3. row'[s] = row[s]
    BY <2>2 DEF Written
  <2>. QED BY <2>1, <2>3 DEF PendingInv
<1>5. ASSUME NEW a \in Backfills, NEW c \in Backfills, a # c, NEW s \in Signals
      PROVE  added'[a][s].status = "NONE" \/ added'[c][s].status = "NONE"
  BY <1>1, <1>2, <1>5 DEF PendingInv
<1>. QED BY <1>2, <1>3, <1>4, <1>5

LEMMA ClearKeeps ==
  ASSUME TypeOK, PendingInv, NEW b \in Backfills, Clear(b),
         \A s \in Signals : row'[s].status = row[s].status
  PROVE  PendingInv'
<1>1. \A s \in Signals : added'[b][s].status = "NONE"
  BY DEF Clear, TypeOK, NoRow
<1>2. pc'[b] = "idle"
  BY DEF Clear, TypeOK
<1>3. \A c \in Backfills \ {b} :
        added'[c] = added[c] /\ pc'[c] = pc[c] /\ draft'[c] = draft[c] /\ cur'[c] = cur[c]
  BY DEF Clear, TypeOK
<1>. QED BY <1>1, <1>2, <1>3 DEF PendingInv

LEMMA PendingStep ==
  ASSUME TypeOK, PendingInv, [Next]_vars
  PROVE  PendingInv' /\ KeepsRows
<1>1. ASSUME UNCHANGED <<row, pc, cur, draft, added>> PROVE PendingInv' /\ KeepsRows
  BY <1>1, SameRows DEF PendingInv
<1>2. ASSUME NEW b \in Backfills, NEW B \in SUBSET acted, SelectSignals(b, B)
      PROVE  PendingInv' /\ KeepsRows
  <2>1. pc'[b] = "next" /\ \A c \in Backfills \ {b} : pc'[c] = pc[c]
    BY <1>2 DEF SelectSignals, TypeOK
  <2>2. UNCHANGED <<row, cur, draft, added>>
    BY <1>2 DEF SelectSignals
  <2>. QED BY <2>1, <2>2, SameRows DEF PendingInv
<1>3. ASSUME NEW b \in Backfills, NEW s \in Signals, TakeSignal(b, s)
      PROVE  PendingInv' /\ KeepsRows
  <2>1. Draft(s, WinnerRead(b, MarketOf[s])).status # "NONE"
    <3>1. WinnerRead(b, MarketOf[s]) \in Outcomes
      BY ConstantsAssumption DEF WinnerRead, TypeOK
    <3>. QED BY <3>1, DraftIsRow
  <2>2. /\ pc'[b] = "insert" /\ draft'[b].status # "NONE"
        /\ \A c \in Backfills \ {b} : pc'[c] = pc[c] /\ draft'[c] = draft[c] /\ cur'[c] = cur[c]
        /\ UNCHANGED <<row, added>>
    BY <1>3, <2>1 DEF TakeSignal, TypeOK
  <2>. QED BY <2>2, SameRows DEF PendingInv
<1>4. ASSUME NEW b \in Backfills, NEW s \in Signals, InsertInsufficient(b, s)
      PROVE  PendingInv' /\ KeepsRows
  <2> DEFINE pending == [added[b] EXCEPT ![s] = draft[b]]
  <2>1. pending \in [Signals -> Rows]
    BY DEF TypeOK
  <2>2. ASSUME NEW u \in Signals, pending[u].status # "NONE"
        PROVE  /\ row[u].status = "NONE"
               /\ \A c \in Backfills \ {b} : added[c][u].status = "NONE"
    <3>1. CASE u = s
      BY <1>4, <3>1 DEF InsertInsufficient, MayInsert
    <3>2. CASE u # s
      BY <2>2, <3>2 DEF PendingInv, TypeOK
    <3>. QED BY <3>1, <3>2
  <2>3. row' = Written(pending) /\ added' = [added EXCEPT ![b] = [u \in Signals |-> NoRow]]
    BY <1>4 DEF InsertInsufficient, CommitWith
  <2>4. /\ pc'[b] = "next"
        /\ \A c \in Backfills \ {b} : pc'[c] = pc[c] /\ draft'[c] = draft[c] /\ cur'[c] = cur[c]
    BY <1>4 DEF InsertInsufficient, Finish, TypeOK
  <2>. HIDE DEF pending
  <2>5. /\ KeepsRows
        /\ \A c \in Backfills, u \in Signals :
             added'[c][u].status # "NONE" => row'[u].status = "NONE"
        /\ \A a, c \in Backfills : a # c =>
             \A u \in Signals : added'[a][u].status = "NONE" \/ added'[c][u].status = "NONE"
        /\ \A c \in Backfills \ {b} : added'[c] = added[c]
    BY <2>1, <2>2, <2>3, CommitKeeps
  <2>. QED BY <2>4, <2>5 DEF PendingInv
<1>5. ASSUME NEW b \in Backfills, NEW s \in Signals, FlushMeasurement(b, s)
      PROVE  PendingInv' /\ KeepsRows
  <2>1. /\ cur[b] = s /\ row[s].status = "NONE" /\ draft[b].status # "NONE"
        /\ \A c \in Backfills \ {b} : added[c][s].status = "NONE"
    BY <1>5 DEF FlushMeasurement, MayInsert, PendingInv
  <2>2. /\ added'[b][s] = draft[b]
        /\ \A u \in Signals \ {s} : added'[b][u] = added[b][u]
        /\ \A c \in Backfills \ {b} : added'[c] = added[c] /\ pc'[c] = pc[c]
        /\ pc'[b] = "observe"
        /\ UNCHANGED <<row, draft, cur>>
    BY <1>5 DEF FlushMeasurement, TypeOK
  <2>. QED BY <2>1, <2>2, SameRows DEF PendingInv
<1>6. ASSUME NEW b \in Backfills, NEW s \in Signals, Conflict(b, s)
      PROVE  PendingInv' /\ KeepsRows
  BY <1>6, ClearKeeps, SameRows DEF Conflict
<1>7. ASSUME NEW b \in Backfills, NEW s \in Signals, ObserveClosed(b, s)
      PROVE  PendingInv' /\ KeepsRows
  <2> DEFINE pending == [added[b] EXCEPT ![s] = Measured(s, added[b][s])]
  <2>1. pending \in [Signals -> Rows]
    BY MeasuredIsRow DEF TypeOK
  <2>2. ASSUME NEW u \in Signals, pending[u].status # "NONE"
        PROVE  /\ row[u].status = "NONE"
               /\ \A c \in Backfills \ {b} : added[c][u].status = "NONE"
    <3>1. added[b][s].status # "NONE"
      BY <1>7 DEF ObserveClosed, PendingInv
    <3>2. added[b][u].status # "NONE"
      BY <2>2, <3>1 DEF TypeOK
    <3>. QED BY <3>2 DEF PendingInv
  <2>3. row' = Written(pending) /\ added' = [added EXCEPT ![b] = [u \in Signals |-> NoRow]]
    BY <1>7 DEF ObserveClosed, CommitWith
  <2>4. /\ pc'[b] = "next"
        /\ \A c \in Backfills \ {b} : pc'[c] = pc[c] /\ draft'[c] = draft[c] /\ cur'[c] = cur[c]
    BY <1>7 DEF ObserveClosed, Finish, TypeOK
  <2>. HIDE DEF pending
  <2>5. /\ KeepsRows
        /\ \A c \in Backfills, u \in Signals :
             added'[c][u].status # "NONE" => row'[u].status = "NONE"
        /\ \A a, c \in Backfills : a # c =>
             \A u \in Signals : added'[a][u].status = "NONE" \/ added'[c][u].status = "NONE"
        /\ \A c \in Backfills \ {b} : added'[c] = added[c]
    BY <2>1, <2>2, <2>3, CommitKeeps
  <2>. QED BY <2>4, <2>5 DEF PendingInv
<1>8. ASSUME NEW b \in Backfills, NEW s \in Signals, ObserveWindow(b, s)
      PROVE  PendingInv' /\ KeepsRows
  <2>1. added[b][s].status # "NONE"
    BY <1>8 DEF ObserveWindow, PendingInv
  <2>2. /\ \A u \in Signals \ {s} : added'[b][u] = added[b][u]
        /\ \A c \in Backfills \ {b} : /\ added'[c] = added[c] /\ pc'[c] = pc[c]
                                    /\ draft'[c] = draft[c] /\ cur'[c] = cur[c]
        /\ pc'[b] = "next"
        /\ row' = row
    BY <1>8 DEF ObserveWindow, Finish, TypeOK
  <2>. QED BY <2>1, <2>2, SameRows DEF PendingInv
<1>9. ASSUME NEW b \in Backfills, CommitRows(b)
      PROVE  PendingInv' /\ KeepsRows
  <2>1. added[b] \in [Signals -> Rows]
    BY DEF TypeOK
  <2>2. \A u \in Signals : added[b][u].status # "NONE" =>
           /\ row[u].status = "NONE"
           /\ \A c \in Backfills \ {b} : added[c][u].status = "NONE"
    BY DEF PendingInv
  <2>3. row' = Written(added[b]) /\ added' = [added EXCEPT ![b] = [u \in Signals |-> NoRow]]
    BY <1>9 DEF CommitRows
  <2>4. /\ pc'[b] = "refresh"
        /\ \A c \in Backfills \ {b} : pc'[c] = pc[c]
        /\ UNCHANGED <<draft, cur>>
    BY <1>9 DEF CommitRows, TypeOK
  <2>5. /\ KeepsRows
        /\ \A c \in Backfills, u \in Signals :
             added'[c][u].status # "NONE" => row'[u].status = "NONE"
        /\ \A a, c \in Backfills : a # c =>
             \A u \in Signals : added'[a][u].status = "NONE" \/ added'[c][u].status = "NONE"
        /\ \A c \in Backfills \ {b} : added'[c] = added[c]
    BY <2>1, <2>2, <2>3, CommitKeeps
  <2>. QED BY <2>4, <2>5 DEF PendingInv
<1>10. ASSUME NEW b \in Backfills, CommitFlags(b)
      PROVE  PendingInv' /\ KeepsRows
  <2>1. ASSUME NEW s \in Signals
        PROVE  row'[s].status = row[s].status /\ row'[s] = [row[s] EXCEPT !.leaky = row'[s].leaky]
    <3>1. row[s] \in Rows /\ row'[s] = Flagged(s, flags[b][s])
      BY <1>10 DEF CommitFlags, TypeOK
    <3>2. CASE flags[b][s] = "keep"
      BY <3>1, <3>2 DEF Flagged, Rows
    <3>3. CASE flags[b][s] # "keep"
      <4>1. row'[s] = [row[s] EXCEPT !.leaky = (flags[b][s] = "TRUE")]
        BY <3>1, <3>3 DEF Flagged
      <4>. QED BY <3>1, <4>1 DEF Rows
    <3>. QED BY <3>2, <3>3
  <2>. QED BY <1>10, <2>1, ClearKeeps DEF CommitFlags, KeepsRows
<1>11. ASSUME NEW b \in Backfills, Abort(b)
      PROVE  PendingInv' /\ KeepsRows
  BY <1>11, ClearKeeps, SameRows DEF Abort
<1>12. ASSUME \/ Tick
              \/ \E s \in Signals : Act(s)
              \/ \E m \in Markets, q \in Quotes, ts \in 0..clock : Snapshot(m, q, ts)
              \/ \E m \in Markets : \E w \in Answers[m] : Resolve(m, w)
              \/ UNCHANGED vars
       PROVE  UNCHANGED <<row, pc, cur, draft, added>>
  BY <1>12 DEF Tick, Act, Snapshot, Resolve, vars, sessionVars
<1>13. ASSUME NEW b \in Backfills, NEW s \in Signals, SkipMeasured(b, s) \/ SkipFixture(b, s)
       PROVE  UNCHANGED <<row, pc, cur, draft, added>>
  BY <1>13 DEF SkipMeasured, SkipFixture
<1>14. ASSUME NEW b \in Backfills, NEW pair \in Pairs, RefreshLeakage(b, pair)
       PROVE  UNCHANGED <<row, pc, cur, draft, added>>
  BY <1>14 DEF RefreshLeakage
<1>. QED BY <1>1, <1>2, <1>3, <1>4, <1>5, <1>6, <1>7, <1>8, <1>9, <1>10, <1>11, <1>12, <1>13, <1>14
         DEF Next, BackfillStep

LEMMA PendingInit == Init => PendingInv
BY DEF Init, PendingInv, NoRow

\* A committed measurement is never measured again, however many backfills overlap.
THEOREM MeasuredOnceHolds == Spec => MeasuredOnce
<1>1. TypeOK /\ PendingInv /\ [Next]_vars => TypeOK' /\ PendingInv' /\ KeepsRows
  BY TypeStep, PendingStep
<1>2. Init => TypeOK /\ PendingInv
  BY TypeInit, PendingInit
<1>3. KeepsRows => (\A s \in Signals : row[s].status # "NONE" =>
                      row'[s] = [row[s] EXCEPT !.leaky = row'[s].leaky])
  BY DEF KeepsRows
<1>. QED BY <1>1, <1>2, <1>3, PTL DEF Spec, MeasuredOnce

--------------------------------------------------------------------------------
(* Where rows, drafts and flags come from.                                      *)

\* What a step may put into a row, a flushed row, a draft or a flag; signals stay
\* ACT and snapshots stay.
Sources ==
  /\ \A s \in Signals :
       \/ row'[s] = row[s]
       \/ \E b \in Backfills : row'[s] \in {added[b][s], draft[b], Measured(s, added[b][s])}
       \/ \E b \in Backfills : row'[s] = Flagged(s, flags[b][s])
  /\ \A b \in Backfills, s \in Signals :
       added'[b][s] \in {NoRow, added[b][s], draft[b], Measured(s, added[b][s])}
  /\ \A b \in Backfills :
       \/ draft'[b] \in {NoRow, draft[b]}
       \/ \E s \in Signals, w \in Outcomes : draft'[b] = Draft(s, w)
  /\ \A b \in Backfills, s \in Signals :
       flags'[b][s] = "TRUE" => \/ flags[b][s] = "TRUE"
                               \/ \E w \in LeakWindows(Pair(s)) : Leaks(SideOf[s], w)
  /\ acted \subseteq acted'
  /\ \A m \in Markets : snaps[m] \subseteq snaps'[m]

LEMMA QuietSources ==
  ASSUME TypeOK, UNCHANGED <<row, draft, added, flags>>,
         acted \subseteq acted', \A m \in Markets : snaps[m] \subseteq snaps'[m]
  PROVE  Sources
BY DEF Sources

LEMMA ClearSources ==
  ASSUME TypeOK, NEW b \in Backfills, Clear(b), UNCHANGED worldVars,
         \A s \in Signals : row'[s] = row[s] \/ row'[s] = Flagged(s, flags[b][s])
  PROVE  Sources
<1>1. \A c \in Backfills, s \in Signals : added'[c][s] \in {NoRow, added[c][s]}
  BY DEF Clear, TypeOK
<1>2. \A c \in Backfills : draft'[c] \in {NoRow, draft[c]}
  BY DEF Clear, TypeOK
<1>3. \A c \in Backfills, s \in Signals : flags'[c][s] = "TRUE" => flags[c][s] = "TRUE"
  BY DEF Clear, TypeOK
<1>. QED BY <1>1, <1>2, <1>3 DEF Sources, worldVars

LEMMA CommitSources ==
  ASSUME TypeOK, NEW b \in Backfills, NEW pending \in [Signals -> Rows],
         \A s \in Signals : pending[s] \in {added[b][s], draft[b], Measured(s, added[b][s])},
         row' = Written(pending), added' = [added EXCEPT ![b] = [u \in Signals |-> NoRow]],
         NEW d \in {draft[b], NoRow}, draft' = [draft EXCEPT ![b] = d],
         UNCHANGED <<worldVars, flags>>
  PROVE  Sources
<1>1. \A s \in Signals : row'[s] \in {row[s], pending[s]}
  BY DEF Written
<1>2. \A c \in Backfills, s \in Signals : added'[c][s] \in {NoRow, added[c][s]}
  BY DEF TypeOK
<1>3. \A c \in Backfills : draft'[c] \in {NoRow, draft[c]}
  BY DEF TypeOK
<1>. QED BY <1>1, <1>2, <1>3 DEF Sources, worldVars

LEMMA StepSources ==
  ASSUME TypeOK, [Next]_vars
  PROVE  Sources
<1>1. ASSUME \/ Tick
             \/ \E s \in Signals : Act(s)
             \/ \E m \in Markets, q \in Quotes, ts \in 0..clock : Snapshot(m, q, ts)
             \/ \E m \in Markets : \E w \in Answers[m] : Resolve(m, w)
             \/ UNCHANGED vars
      PROVE  Sources
  <2>1. UNCHANGED <<row, draft, added, flags>> /\ acted \subseteq acted'
    BY <1>1 DEF Tick, Act, Snapshot, Resolve, vars, sessionVars
  <2>2. \A m \in Markets : snaps[m] \subseteq snaps'[m]
    BY <1>1 DEF Tick, Act, Snapshot, Resolve, vars, sessionVars, TypeOK
  <2>. QED BY <2>1, <2>2, QuietSources
<1>2. ASSUME NEW b \in Backfills, NEW B \in SUBSET acted, SelectSignals(b, B) PROVE Sources
  BY <1>2, QuietSources DEF SelectSignals, worldVars
<1>3. ASSUME NEW b \in Backfills, NEW s \in Signals, SkipMeasured(b, s) \/ SkipFixture(b, s)
      PROVE  Sources
  BY <1>3, QuietSources DEF SkipMeasured, SkipFixture, worldVars
<1>4. ASSUME NEW b \in Backfills, NEW s \in Signals, TakeSignal(b, s) PROVE Sources
  <2>1. WinnerRead(b, MarketOf[s]) \in Outcomes
    BY ConstantsAssumption DEF WinnerRead, TypeOK
  <2>2. \A c \in Backfills :
          draft'[c] \in {draft[c], Draft(s, WinnerRead(b, MarketOf[s]))}
    BY <1>4 DEF TakeSignal, TypeOK
  <2>. QED BY <1>4, <2>1, <2>2 DEF TakeSignal, Sources, worldVars
<1>5. ASSUME NEW b \in Backfills, NEW s \in Signals, InsertInsufficient(b, s) PROVE Sources
  <2> DEFINE pending == [added[b] EXCEPT ![s] = draft[b]]
  <2>1. /\ pending \in [Signals -> Rows]
        /\ \A u \in Signals : pending[u] \in {added[b][u], draft[b], Measured(u, added[b][u])}
    BY DEF TypeOK
  <2>2. /\ row' = Written(pending) /\ added' = [added EXCEPT ![b] = [u \in Signals |-> NoRow]]
        /\ draft' = [draft EXCEPT ![b] = NoRow]
        /\ UNCHANGED <<worldVars, flags>>
    BY <1>5 DEF InsertInsufficient, CommitWith, Finish
  <2>. HIDE DEF pending
  <2>. QED BY <2>1, <2>2, CommitSources
<1>6. ASSUME NEW b \in Backfills, NEW s \in Signals, FlushMeasurement(b, s) PROVE Sources
  <2>1. \A c \in Backfills, u \in Signals : added'[c][u] \in {added[c][u], draft[c]}
    BY <1>6 DEF FlushMeasurement, TypeOK
  <2>. QED BY <1>6, <2>1 DEF FlushMeasurement, Sources, worldVars
<1>7. ASSUME NEW b \in Backfills, NEW s \in Signals, Conflict(b, s) PROVE Sources
  BY <1>7, ClearSources DEF Conflict
<1>8. ASSUME NEW b \in Backfills, NEW s \in Signals, ObserveClosed(b, s) PROVE Sources
  <2> DEFINE pending == [added[b] EXCEPT ![s] = Measured(s, added[b][s])]
  <2>1. /\ pending \in [Signals -> Rows]
        /\ \A u \in Signals : pending[u] \in {added[b][u], draft[b], Measured(u, added[b][u])}
    BY MeasuredIsRow DEF TypeOK
  <2>2. /\ row' = Written(pending) /\ added' = [added EXCEPT ![b] = [u \in Signals |-> NoRow]]
        /\ draft' = [draft EXCEPT ![b] = NoRow]
        /\ UNCHANGED <<worldVars, flags>>
    BY <1>8 DEF ObserveClosed, CommitWith, Finish
  <2>. HIDE DEF pending
  <2>. QED BY <2>1, <2>2, CommitSources
<1>9. ASSUME NEW b \in Backfills, NEW s \in Signals, ObserveWindow(b, s) PROVE Sources
  <2>1. \A c \in Backfills, u \in Signals : added'[c][u] \in {added[c][u], Measured(u, added[c][u])}
    BY <1>9 DEF ObserveWindow, TypeOK
  <2>2. \A c \in Backfills : draft'[c] \in {NoRow, draft[c]}
    BY <1>9 DEF ObserveWindow, Finish, TypeOK
  <2>. QED BY <1>9, <2>1, <2>2 DEF ObserveWindow, Finish, Sources, worldVars
<1>10. ASSUME NEW b \in Backfills, CommitRows(b) PROVE Sources
  <2> DEFINE pending == added[b]
  <2>1. /\ pending \in [Signals -> Rows]
        /\ \A u \in Signals : pending[u] \in {added[b][u], draft[b], Measured(u, added[b][u])}
    BY DEF TypeOK
  <2>2. /\ row' = Written(pending) /\ added' = [added EXCEPT ![b] = [u \in Signals |-> NoRow]]
        /\ draft' = [draft EXCEPT ![b] = draft[b]]
        /\ UNCHANGED <<worldVars, flags>>
    BY <1>10 DEF CommitRows, TypeOK
  <2>. HIDE DEF pending
  <2>. QED BY <2>1, <2>2, CommitSources
<1>11. ASSUME NEW b \in Backfills, NEW pair \in Pairs, RefreshLeakage(b, pair) PROVE Sources
  <2>1. ASSUME NEW c \in Backfills, NEW s \in Signals, flags'[c][s] = "TRUE", flags[c][s] # "TRUE"
        PROVE  \E w \in LeakWindows(Pair(s)) : Leaks(SideOf[s], w)
    <3>1. flags' # flags
      BY <2>1
    <3>2. PICK w \in LeakWindows(pair) :
            flags' = [flags EXCEPT ![b] =
                        [u \in Signals |-> IF u \in RowsOf(pair)
                                           THEN IF Leaks(pair[2], w) THEN "TRUE" ELSE "FALSE"
                                           ELSE @[u]]]
      BY <1>11, <3>1 DEF RefreshLeakage
    <3>3. s \in RowsOf(pair) /\ Leaks(pair[2], w)
      BY <2>1, <3>2 DEF TypeOK
    <3>. QED BY <3>3 DEF RowsOf, Pair
  <2>. QED BY <1>11, <2>1 DEF RefreshLeakage, Sources, worldVars
<1>12. ASSUME NEW b \in Backfills, CommitFlags(b) PROVE Sources
  BY <1>12, ClearSources DEF CommitFlags
<1>13. ASSUME NEW b \in Backfills, Abort(b) PROVE Sources
  BY <1>13, ClearSources DEF Abort
<1>. QED BY <1>1, <1>2, <1>3, <1>4, <1>5, <1>6, <1>7, <1>8, <1>9, <1>10, <1>11, <1>12, <1>13
         DEF Next, BackfillStep

--------------------------------------------------------------------------------
(* Leakage.                                                                     *)

EvidenceInv ==
  /\ \A s \in Signals : row[s].leaky => Evidence(s)
  /\ \A b \in Backfills, s \in Signals :
       /\ flags[b][s] = "TRUE" => Evidence(s)
       /\ added[b][s].leaky = FALSE
  /\ \A b \in Backfills : draft[b].leaky = FALSE

\* A window that leaks shows two snapshots and the signal it is the window of.
LEMMA LeakIsEvidence ==
  ASSUME TypeOK, NEW s \in Signals, NEW w \in LeakWindows(Pair(s)), Leaks(SideOf[s], w)
  PROVE  Evidence(s)
<1> DEFINE m == MarketOf[s]
           side == SideOf[s]
<1>1. Pair(s)[1] = m /\ Pair(s)[2] = side /\ m \in Markets
  BY ConstantsAssumption DEF Pair
<1>2. PICK e \in Earliest(Pair(s)) :
        /\ w = <<PriceBefore(m, side, Published[e] - PreLong), PriceBefore(m, side, Published[e])>>
        /\ NoPrice \notin {w[1], w[2]}
  BY <1>1 DEF LeakWindows
<1>3. e \in acted \cap Confident /\ Pair(e) = Pair(s)
  BY <1>2 DEF Earliest, Approved
<1>4. PICK x \in snaps[m] : /\ x.ts <= Published[e] - PreLong /\ x.mid # NoPrice
                            /\ w[1] = Implied(side, x.mid)
  BY <1>1, <1>2, PriceHasSnapshot
<1>5. PICK y \in snaps[m] : /\ y.ts <= Published[e] /\ y.mid # NoPrice
                            /\ w[2] = Implied(side, y.mid)
  BY <1>1, <1>2, PriceHasSnapshot
<1>6. w[2] - w[1] >= 2
  <2>1. w[1] \in Int /\ w[2] \in Int
    BY <1>1, <1>2, PriceHasSnapshot, ConstantsAssumption DEF NoPrice
  <2>. QED BY <2>1 DEF Leaks, Rose
<1>. QED BY <1>3, <1>4, <1>5, <1>6 DEF Evidence

LEMMA EvidenceStays ==
  ASSUME Sources, NEW s \in Signals, Evidence(s)
  PROVE  Evidence(s)'
<1>1. acted \subseteq acted' /\ snaps[MarketOf[s]] \subseteq snaps'[MarketOf[s]]
  BY ConstantsAssumption DEF Sources
<1>. QED BY <1>1 DEF Evidence

LEMMA EvidenceStep ==
  ASSUME TypeOK, EvidenceInv, Sources
  PROVE  EvidenceInv'
<1>1. ASSUME NEW b \in Backfills, NEW s \in Signals PROVE Measured(s, added[b][s]).leaky = FALSE
  <2>1. added[b][s] \in Rows /\ added[b][s].leaky = FALSE
    BY DEF TypeOK, EvidenceInv
  <2>. QED BY <2>1, MeasuredIsRow
<1>2. ASSUME NEW s \in Signals, row'[s].leaky PROVE Evidence(s)
  <2>1. CASE row'[s] = row[s]
    BY <1>2, <2>1 DEF EvidenceInv
  <2>2. ASSUME NEW b \in Backfills,
               row'[s] \in {added[b][s], draft[b], Measured(s, added[b][s])}
        PROVE  FALSE
    BY <1>1, <1>2, <2>2 DEF EvidenceInv
  <2>3. ASSUME NEW b \in Backfills, row'[s] = Flagged(s, flags[b][s]) PROVE Evidence(s)
    <3>1. CASE flags[b][s] = "TRUE"
      BY <3>1 DEF EvidenceInv
    <3>2. CASE flags[b][s] = "FALSE"
      BY <1>2, <2>3, <3>2 DEF Flagged, TypeOK, Rows
    <3>3. CASE flags[b][s] = "keep"
      BY <1>2, <2>3, <3>3 DEF Flagged, EvidenceInv
    <3>. QED BY <3>1, <3>2, <3>3 DEF TypeOK
  <2>. QED BY <2>1, <2>2, <2>3 DEF Sources
<1>3. ASSUME NEW b \in Backfills, NEW s \in Signals, flags'[b][s] = "TRUE" PROVE Evidence(s)
  BY <1>3, LeakIsEvidence DEF Sources, EvidenceInv
<1>4. NoRow.leaky = FALSE
  BY DEF NoRow
<1>5. \A b \in Backfills, s \in Signals : added'[b][s].leaky = FALSE
  BY <1>1, <1>4 DEF Sources, EvidenceInv
<1>6. ASSUME NEW b \in Backfills PROVE draft'[b].leaky = FALSE
  <2>1. CASE draft'[b] \in {NoRow, draft[b]}
    BY <1>4, <2>1 DEF EvidenceInv
  <2>2. ASSUME NEW s \in Signals, NEW w \in Outcomes, draft'[b] = Draft(s, w)
        PROVE  draft'[b].leaky = FALSE
    BY <2>2, DraftIsRow
  <2>. QED BY <2>1, <2>2 DEF Sources
<1>. QED BY <1>2, <1>3, <1>5, <1>6, EvidenceStays DEF EvidenceInv

LEMMA EvidenceInit == Init => EvidenceInv
BY DEF Init, EvidenceInv, NoRow

\* No measurement is called leaky without the signal and the prices that make it so.
THEOREM LeakyHasEvidenceHolds == Spec => []LeakyHasEvidence
<1>1. TypeOK /\ EvidenceInv /\ [Next]_vars => TypeOK' /\ EvidenceInv'
  BY TypeStep, StepSources, EvidenceStep
<1>2. Init => TypeOK /\ EvidenceInv
  BY TypeInit, EvidenceInit
<1>3. EvidenceInv => LeakyHasEvidence
  BY DEF EvidenceInv, LeakyHasEvidence
<1>. QED BY <1>1, <1>2, <1>3, PTL DEF Spec

--------------------------------------------------------------------------------
(* Crossings.                                                                   *)

CoherentInv ==
  /\ \A s \in Signals : Coherent(s, row[s])
  /\ \A b \in Backfills, s \in Signals : Coherent(s, added[b][s])
  /\ \A b \in Backfills : draft[b].cross = Uncrossed /\ draft[b].status # "CROSSED"

LEMMA UncrossedCoheres ==
  ASSUME NEW s \in Signals, NEW r, r.cross = Uncrossed, r.status # "CROSSED"
  PROVE  Coherent(s, r)
BY DEF Coherent, Uncrossed, Labels

\* A crossing is a time of the window at which the price was high enough; a higher
\* threshold is crossed no earlier.
LEMMA CrossingInWindow ==
  ASSUME TypeOK, NEW s \in Signals, NEW h \in Int
  PROVE  LET f == FirstCrossing(s, h)
         IN  /\ f # NoTs <=> \E x \in Path(s) : 10 * x.p >= h
             /\ f # NoTs => f \in Nat /\ Published[s] < f /\ f <= WindowEnd(s)
<1> DEFINE f == FirstCrossing(s, h)
           S == {x \in Path(s) : 10 * x.p >= h}
<1>1. CASE S = {}
  BY <1>1, FirstCrossingIsFirst
<1>2. CASE S # {}
  <2>1. f \in Nat /\ \E x \in S : x.ts = f
    BY <1>2, FirstCrossingIsFirst
  <2>2. f # NoTs
    BY <2>1 DEF NoTs
  <2>3. Published[s] < f /\ f <= WindowEnd(s)
    BY <2>1, PathPoints
  <2>. QED BY <1>2, <2>1, <2>2, <2>3
<1>. QED BY <1>1, <1>2

LEMMA HigherIsLater ==
  ASSUME TypeOK, NEW s \in Signals, NEW g \in Int, NEW h \in Int, g <= h,
         FirstCrossing(s, h) # NoTs
  PROVE  FirstCrossing(s, g) # NoTs /\ FirstCrossing(s, g) <= FirstCrossing(s, h)
<1>1. PICK x \in Path(s) : 10 * x.p >= h /\ x.ts = FirstCrossing(s, h)
  BY FirstCrossingIsFirst
<1>2. 10 * x.p >= g
  BY <1>1, PathPoints, ConstantsAssumption
<1>3. x \in {y \in Path(s) : 10 * y.p >= g}
  BY <1>2
<1>. QED BY <1>1, <1>3, FirstCrossingIsFirst DEF NoTs

LEMMA MeasuredCoheres ==
  ASSUME TypeOK, NEW s \in Signals, NEW r \in Rows, Coherent(s, r)
  PROVE  Coherent(s, Measured(s, r))
<1> DEFINE p0 == r.p0
           peak == Peak(s)
           at(l, h) == FirstCrossing(s, Threshold(s, l, p0, h))
           five == at("5PT", 10)
           ten  == at("10PT", 20)
           half == at("50PCT", 5 * (peak - p0))
           most == at("90PCT", 9 * (peak - p0))
           moved == peak # NoPrice /\ Rose(SideOf[s], p0, peak, 1)
<1>1. CASE NoWindow(s)
  <2>1. WindowEnd(s) <= Published[s]
    BY <1>1, ConstantsAssumption DEF NoWindow, WindowEnd, EndsEarly, NaturalEnd
  <2>2. \A l \in Labels : r.cross[l] = NoTs
    BY <2>1, ConstantsAssumption DEF Coherent, Rows, WindowEnd, EndsEarly, NaturalEnd, NoTs
  <2>3. Measured(s, r).cross = r.cross /\ Measured(s, r).status = "MARKET_CLOSED_FIRST"
    BY <1>1 DEF Measured, Rows
  <2>. QED BY <2>2, <2>3 DEF Coherent, Labels
<1>2. CASE ~NoWindow(s)
  <2>1. p0 \in Int /\ (peak # NoPrice => peak \in 0..Top /\ peak \in Int)
    BY ConstantsAssumption, PeakIsPeak DEF Rows, NoPrice
  <2>2. moved => peak \in Int /\ peak - p0 >= 1
    BY <2>1 DEF Rose
  <2>3. ten # NoTs => five # NoTs /\ five <= ten
    <3>1. /\ Threshold(s, "5PT", p0, 10) \in Int /\ Threshold(s, "10PT", p0, 20) \in Int
          /\ Threshold(s, "5PT", p0, 10) <= Threshold(s, "10PT", p0, 20)
      BY <2>1, ThresholdIsInt
    <3>. QED BY <3>1, HigherIsLater
  <2>4. ten # NoTs => moved
    <3> SUFFICES ASSUME ten # NoTs PROVE moved
      OBVIOUS
    <3>1. Threshold(s, "10PT", p0, 20) \in Int /\ Threshold(s, "10PT", p0, 20) >= 10 * p0 + 20
      BY <2>1, ThresholdIsInt
    <3>2. PICK x \in Path(s) : 10 * x.p >= Threshold(s, "10PT", p0, 20)
      BY <3>1, CrossingInWindow
    <3>3. x.p \in Int /\ x.p >= p0 + 2
      BY <2>1, <3>1, <3>2, PathPoints, ConstantsAssumption
    <3>4. peak \in 0..Top /\ peak >= x.p /\ peak # NoPrice
      BY PeakIsPeak DEF NoPrice
    <3>. QED BY <2>1, <3>3, <3>4 DEF Rose
  <2>5. ASSUME moved
        PROVE  /\ half # NoTs /\ most # NoTs /\ half <= most
    <3>1. /\ 5 * (peak - p0) \in Int /\ 9 * (peak - p0) \in Int
          /\ 5 * (peak - p0) + 1 <= 9 * (peak - p0)
          /\ 9 * (peak - p0) + 1 <= 10 * (peak - p0)
      BY <2>1, <2>2, <2>5
    <3>2. /\ Threshold(s, "50PCT", p0, 5 * (peak - p0)) \in Int
          /\ Threshold(s, "90PCT", p0, 9 * (peak - p0)) \in Int
          /\ Threshold(s, "50PCT", p0, 5 * (peak - p0)) <= Threshold(s, "90PCT", p0, 9 * (peak - p0))
          /\ Threshold(s, "90PCT", p0, 9 * (peak - p0)) <= 10 * peak
      <4> DEFINE h5 == 5 * (peak - p0)
                 h9 == 9 * (peak - p0)
      <4>1. /\ Threshold(s, "50PCT", p0, h5) \in {10 * p0 + h5, 10 * p0 + h5 + 1}
            /\ Threshold(s, "90PCT", p0, h9) \in {10 * p0 + h9, 10 * p0 + h9 + 1}
        BY <2>1, <3>1, ThresholdIsInt
      <4>. QED BY <2>1, <2>2, <2>5, <3>1, <4>1
    <3>3. \E x \in Path(s) : x.p = peak
      BY <2>5, PeakIsPeak
    <3>4. most # NoTs
      BY <3>2, <3>3, CrossingInWindow
    <3>. QED BY <3>2, <3>4, HigherIsLater
  <2>6. Measured(s, r).cross = Crossings(s, p0) /\ Measured(s, r).peak = peak /\ Measured(s, r).p0 = p0
    BY <1>2 DEF Measured, Rows
  <2>7. /\ Crossings(s, p0)["5PT"] = five
        /\ Crossings(s, p0)["10PT"] = ten
        /\ Crossings(s, p0)["50PCT"] = IF moved THEN half ELSE NoTs
        /\ Crossings(s, p0)["90PCT"] = IF moved THEN most ELSE NoTs
    BY DEF Crossings, Labels
  <2>8. Measured(s, r).status = LagStatus(s, Crossings(s, p0))
    BY <1>2 DEF Measured, Rows
  <2>9. Measured(s, r).status = "CROSSED" <=> five # NoTs
    BY <2>3, <2>7, <2>8 DEF LagStatus
  <2>10. \A h \in Int : FirstCrossing(s, h) # NoTs =>
           Published[s] < FirstCrossing(s, h) /\ FirstCrossing(s, h) <= WindowEnd(s)
    BY CrossingInWindow
  <2>11. \A l \in Labels : Crossings(s, p0)[l] # NoTs =>
           Published[s] < Crossings(s, p0)[l] /\ Crossings(s, p0)[l] <= WindowEnd(s)
    <3>1. \A l, h : h \in Int => Threshold(s, l, p0, h) \in Int
      BY <2>1, ThresholdIsInt
    <3>2. \A l, h : h \in Int /\ at(l, h) # NoTs => Published[s] < at(l, h) /\ at(l, h) <= WindowEnd(s)
      BY <2>10, <3>1
    <3>3. moved => 5 * (peak - p0) \in Int /\ 9 * (peak - p0) \in Int
      BY <2>1, <2>2
    <3>. HIDE DEF at, moved, peak
    <3>. QED BY <2>7, <3>2, <3>3 DEF Labels
  <2>12. moved => peak >= p0 + 1
    BY <2>1, <2>2
  <2>. HIDE DEF five, ten, half, most, moved
  <2>. QED BY <2>3, <2>4, <2>5, <2>6, <2>7, <2>9, <2>11, <2>12 DEF Coherent
<1>. QED BY <1>1, <1>2

LEMMA CoherentStep ==
  ASSUME TypeOK, CoherentInv, Sources
  PROVE  CoherentInv'
<1>1. ASSUME NEW b \in Backfills, NEW s \in Signals
      PROVE  /\ Coherent(s, draft[b])
             /\ Coherent(s, Measured(s, added[b][s]))
  BY UncrossedCoheres, MeasuredCoheres DEF CoherentInv, TypeOK
<1>2. ASSUME NEW b \in Backfills, NEW s \in Signals PROVE Coherent(s, Flagged(s, flags[b][s]))
  <2>1. row[s] \in Rows /\ Coherent(s, row[s])
    BY DEF TypeOK, CoherentInv
  <2>2. /\ Flagged(s, flags[b][s]).cross = row[s].cross
        /\ Flagged(s, flags[b][s]).status = row[s].status
        /\ Flagged(s, flags[b][s]).peak = row[s].peak
        /\ Flagged(s, flags[b][s]).p0 = row[s].p0
    BY <2>1 DEF Flagged, Rows
  <2>. QED BY <2>1, <2>2 DEF Coherent
<1>3. ASSUME NEW s \in Signals PROVE Coherent(s, row'[s])
  BY <1>1, <1>2 DEF Sources, CoherentInv
<1>4. ASSUME NEW s \in Signals PROVE Coherent(s, NoRow)
  BY UncrossedCoheres DEF NoRow
<1>5. ASSUME NEW b \in Backfills, NEW s \in Signals PROVE Coherent(s, added'[b][s])
  BY <1>1, <1>4 DEF Sources, CoherentInv
<1>6. ASSUME NEW b \in Backfills
      PROVE  draft'[b].cross = Uncrossed /\ draft'[b].status # "CROSSED"
  <2>1. CASE draft'[b] \in {NoRow, draft[b]}
    BY <2>1 DEF CoherentInv, NoRow
  <2>2. ASSUME NEW s \in Signals, NEW w \in Outcomes, draft'[b] = Draft(s, w)
        PROVE  draft'[b].cross = Uncrossed /\ draft'[b].status # "CROSSED"
    BY <2>2, DraftIsRow
  <2>. QED BY <2>1, <2>2 DEF Sources
<1>. QED BY <1>3, <1>5, <1>6 DEF CoherentInv

LEMMA CoherentInit == Init => CoherentInv
<1>1. NoRow.cross = Uncrossed /\ NoRow.status # "CROSSED"
  BY DEF NoRow
<1>2. \A s \in Signals : Coherent(s, NoRow)
  BY <1>1, UncrossedCoheres
<1>. QED BY <1>1, <1>2 DEF Init, CoherentInv

\* The figures of a measurement agree with each other, in every state.
THEOREM CrossingsCohereHolds == Spec => []CrossingsCohere
<1>1. TypeOK /\ CoherentInv /\ [Next]_vars => TypeOK' /\ CoherentInv'
  BY TypeStep, StepSources, CoherentStep
<1>2. Init => TypeOK /\ CoherentInv
  BY TypeInit, CoherentInit
<1>3. CoherentInv => CrossingsCohere
  BY DEF CoherentInv, CrossingsCohere
<1>. QED BY <1>1, <1>2, <1>3, PTL DEF Spec

--------------------------------------------------------------------------------
(***************************************************************************)
(* The rest of the system does what it does without backtests.             *)
(***************************************************************************)

\* Every step is one of LagBackfill or leaves all it speaks of alone.
LEMMA WorldOrReplay ==
  ASSUME [ReplayNext]_<<vars, replayVars>>
  PROVE  [Next]_vars
BY DEF ReplayNext, World, Replay

\* A run with backtests is a run of LagBackfill, so all that is proved of that holds.
LEMMA RefinesLagBackfill == ReplaySpec => Spec
BY WorldOrReplay, PTL DEF ReplaySpec, ReplayInit, Spec

\* Snapshots are never deleted.
LEMMA SnapsGrow ==
  ASSUME TypeOK, [ReplayNext]_<<vars, replayVars>>, NEW m \in Markets
  PROVE  snaps[m] \subseteq snaps'[m]
BY WorldOrReplay, StepSources DEF Sources

(***************************************************************************)
(* What the queries of a case return.                                      *)
(***************************************************************************)

LEMMA BetweenTypes ==
  ASSUME TypeOK, NEW s \in Signals, NEW k, NEW x \in Between(s, k)
  PROVE  /\ x.ts \in Nat /\ Published[s] < x.ts /\ x.ts <= Published[s] + k
         /\ x.mid \in {NoPrice} \cup 0..Top
         /\ x.mid # NoPrice => Implied(SideOf[s], x.mid) \in 0..Top
<1>1. x \in snaps[MarketOf[s]] /\ MarketOf[s] \in Markets
  BY ConstantsAssumption DEF Between
<1>2. x \in Snapshots
  BY <1>1 DEF TypeOK
<1>3. x.mid # NoPrice => Implied(SideOf[s], x.mid) \in 0..Top
  BY <1>2, ImpliedIsPrice DEF Snapshots, NoPrice
<1>. QED BY <1>2, <1>3 DEF Snapshots, Between

\* The newest snapshot of a window is in it and no other one is newer.
LEMMA NewestOfWindow ==
  ASSUME TypeOK, NEW s \in Signals, NEW k \in Nat, Between(s, k) # {}
  PROVE  \E x \in Between(s, k) :
           /\ \A y \in Between(s, k) : y.ts <= x.ts
           /\ x = CHOOSE z \in Between(s, k) : \A y \in Between(s, k) : y.ts <= z.ts
<1> DEFINE T == {x.ts : x \in Between(s, k)}
           n == Published[s] + k
<1>1. n \in Nat /\ T \subseteq 0..n /\ T # {}
  BY BetweenTypes, ConstantsAssumption
<1>2. PICK t \in T : \A u \in T : u <= t
  <2> HIDE DEF T, n
  <2>. QED BY <1>1, Greatest
<1>3. PICK x \in Between(s, k) : x.ts = t
  BY <1>2
<1>4. \A y \in Between(s, k) : y.ts <= x.ts
  BY <1>2, <1>3
<1>. QED BY <1>4

\* StampIn and PriceIn come from a snapshot of the window, StampIn from the newest.
LEMMA WindowReading ==
  ASSUME TypeOK, NEW s \in Signals, NEW k \in Nat
  PROVE  /\ StampIn(s, k) \in Stamp /\ PriceIn(s, k) \in PriceOrNone
         /\ StampIn(s, k) # NoTs => \E x \in Between(s, k) : x.ts = StampIn(s, k)
         /\ \A x \in Between(s, k) : x.ts <= StampIn(s, k)
         /\ PriceIn(s, k) # NoPrice =>
              \E x \in Between(s, k) : /\ x.mid # NoPrice
                                       /\ PriceIn(s, k) = Implied(SideOf[s], x.mid)
<1>1. CASE Between(s, k) = {}
  BY <1>1 DEF StampIn, PriceIn, Stamp, PriceOrNone
<1>2. CASE Between(s, k) # {}
  <2>1. PICK x \in Between(s, k) :
           /\ \A y \in Between(s, k) : y.ts <= x.ts
           /\ x = CHOOSE z \in Between(s, k) : \A y \in Between(s, k) : y.ts <= z.ts
    BY <1>2, NewestOfWindow
  <2>2. StampIn(s, k) = x.ts
    BY <1>2, <2>1 DEF StampIn
  <2>3. PriceIn(s, k) = IF x.mid = NoPrice THEN NoPrice ELSE Implied(SideOf[s], x.mid)
    BY <1>2, <2>1 DEF PriceIn
  <2>. QED BY <2>1, <2>2, <2>3, BetweenTypes DEF Stamp, PriceOrNone
<1>. QED BY <1>1, <1>2

\* A move is that of a snapshot up to the horizon that has a mid.
LEMMA MovePoints ==
  ASSUME TypeOK, NEW s \in Signals, NEW p0 \in PriceOrNone, NEW x \in Moves(s, p0)
  PROVE  p0 # NoPrice /\ x.p \in 0..Top /\ x.ts \in Nat
<1>1. PICK y \in Observed(s) : y.mid # NoPrice /\ x = [ts |-> y.ts, p |-> Implied(SideOf[s], y.mid)]
  BY DEF Moves
<1>. QED BY <1>1, BetweenTypes DEF Moves, Observed

\* FirstMove is the first of the moves of at least d steps.
LEMMA FirstMoveIsFirst ==
  ASSUME TypeOK, NEW s \in Signals, NEW p0 \in PriceOrNone, NEW d
  PROVE  LET S == {x \in Moves(s, p0) : Rose(SideOf[s], p0, x.p, d)}
         IN  /\ S = {} => FirstMove(s, p0, d) = NoTs
             /\ S # {} => /\ FirstMove(s, p0, d) \in Nat
                          /\ \E x \in S : x.ts = FirstMove(s, p0, d)
                          /\ \A x \in S : FirstMove(s, p0, d) <= x.ts
<1> DEFINE S == {x \in Moves(s, p0) : Rose(SideOf[s], p0, x.p, d)}
           T == {x.ts : x \in S}
<1>1. CASE S = {}
  BY <1>1 DEF FirstMove
<1>2. CASE S # {}
  <2>1. T \subseteq Nat /\ T # {}
    BY <1>2, MovePoints
  <2>2. PICK t \in T : \A u \in T : t <= u
    <3> HIDE DEF T
    <3>. QED BY <2>1, Least
  <2>3. PICK x \in S : x.ts = t
    BY <2>2
  <2>4. \A y \in S : x.ts <= y.ts
    BY <2>2, <2>3
  <2> DEFINE f == CHOOSE z \in S : \A y \in S : z.ts <= y.ts
  <2>5. f \in S /\ \A y \in S : f.ts <= y.ts
    BY <2>4
  <2>6. FirstMove(s, p0, d) = f.ts
    BY <1>2 DEF FirstMove
  <2>. QED BY <2>5, <2>6, MovePoints
<1>. QED BY <1>1, <1>2

\* Highest is the highest price of a move.
LEMMA HighestIsHighest ==
  ASSUME TypeOK, NEW s \in Signals, NEW p0 \in PriceOrNone
  PROVE  /\ Moves(s, p0) = {} => Highest(s, p0) = NoPrice
         /\ Moves(s, p0) # {} => /\ Highest(s, p0) \in 0..Top
                                 /\ \E x \in Moves(s, p0) : x.p = Highest(s, p0)
                                 /\ \A x \in Moves(s, p0) : x.p <= Highest(s, p0)
<1> DEFINE T == {x.p : x \in Moves(s, p0)}
<1>1. CASE Moves(s, p0) = {}
  BY <1>1 DEF Highest
<1>2. CASE Moves(s, p0) # {}
  <2>1. Top \in Nat /\ T \subseteq 0..Top /\ T # {}
    BY <1>2, MovePoints, ConstantsAssumption
  <2>2. PICK t \in T : \A u \in T : u <= t
    <3> HIDE DEF T
    <3>. QED BY <2>1, Greatest
  <2>3. PICK x \in Moves(s, p0) : x.p = t
    BY <2>2
  <2>4. \A y \in Moves(s, p0) : y.p <= x.p
    BY <2>2, <2>3
  <2> DEFINE h == CHOOSE z \in Moves(s, p0) : \A y \in Moves(s, p0) : y.p <= z.p
  <2>5. h \in Moves(s, p0) /\ \A y \in Moves(s, p0) : y.p <= h.p
    BY <2>4
  <2>6. Highest(s, p0) = h.p
    BY <1>2 DEF Highest
  <2>. QED BY <2>5, <2>6, MovePoints
<1>. QED BY <1>1, <1>2

(***************************************************************************)
(* Types.                                                                  *)
(***************************************************************************)

LEMMA Initials ==
  /\ BlankCase \in Cases /\ Fresh \in Sessions /\ Ended \in Sessions
  /\ NoRun \in RunRows
<1>1. BlankCase \in Cases
  BY EmptySeq DEF BlankCase, Cases, PriceOrNone, Stamp
<1>2. NoSummary \in Summaries
  BY DEF NoSummary, Summaries
<1>. QED BY <1>1, <1>2 DEF Fresh, Ended, Sessions, Phases, NoRun, RunRows

LEMMA SimulatedType ==
  ASSUME NEW c \in Cases, c.signal \in Signals
  PROVE  /\ Simulated(c) \subseteq Trades
         /\ IsFiniteSet(Simulated(c)) /\ Cardinality(Simulated(c)) \in Nat
<1>1. ASSUME c.p0 \in 1 .. (Top - 1) PROVE Fill(SideOf[c.signal], c.p0) \in Int /\ c.p0 \in 0..Top
  <2>0. Top = 20
    BY ReplayAssumption
  <2>1. Top = 20 /\ c.p0 \in Int /\ Top - c.p0 \in Int
    BY <1>1, <2>0
  <2>2. 10 + 50 * (IF SideOf[c.signal] = "YES" THEN c.p0 ELSE Top - c.p0) \in Int
    BY <2>1
  <2>. QED BY <1>1, <2>1, <2>2 DEF Fill
<1>2. Simulated(c) \subseteq Trades
  BY <1>1 DEF Simulated, Trades
<1>3. Simulated(c) = {} \/ \E t : Simulated(c) = {t}
  BY DEF Simulated
<1>4. IsFiniteSet(Simulated(c)) /\ Cardinality(Simulated(c)) \in {0, 1}
  BY <1>3, FS_EmptySet, FS_Singleton
<1>. QED BY <1>2, <1>4

LEMMA CountedType ==
  ASSUME NEW c \in Cases, c.signal \in Signals, NEW n \in Summaries, NEW well \in BOOLEAN
  PROVE  Counted(n, c, well) \in Summaries
BY SimulatedType DEF Counted, Summaries

\* The events of a case: at most two, about its signal.
LEMMA ReportedEvents ==
  ASSUME NEW c \in Cases, c.signal \in Signals
  PROVE  /\ Len(Reported(c)) \in 1..2
         /\ \A i \in 1 .. Len(Reported(c)) :
              Reported(c)[i] \in {"LIVE_TRADE_EXISTS", "BACKTEST_TRADE_CREATED", "CASE_RECORDED"}
                                   \X {c.signal}
<1> DEFINE s == c.signal
           decided == IF c.act THEN <<<<"LIVE_TRADE_EXISTS", s>>>>
                      ELSE IF Simulated(c) # {} THEN <<<<"BACKTEST_TRADE_CREATED", s>>>> ELSE <<>>
           E == {"LIVE_TRADE_EXISTS", "BACKTEST_TRADE_CREATED", "CASE_RECORDED"} \X {s}
<1>1. decided \in Seq(E) /\ Len(decided) \in 0..1
  BY EmptySeq
<1>2. <<"CASE_RECORDED", s>> \in E
  OBVIOUS
<1>3. Reported(c) = Append(decided, <<"CASE_RECORDED", s>>)
  BY DEF Reported
<1> HIDE DEF decided, E
<1>4. Reported(c) \in Seq(E) /\ Len(Reported(c)) = Len(decided) + 1
  BY <1>1, <1>2, <1>3, AppendProperties
<1>5. \A i \in 1 .. Len(Reported(c)) : Reported(c)[i] \in E
  BY <1>4, ElementOfSeq
<1>. QED BY <1>1, <1>4, <1>5 DEF E

LEMMA FirstEvents ==
  ASSUME NEW c \in Cases, c.signal \in Signals, NEW k \in 1 .. Len(Reported(c))
  PROVE  /\ First(k, Reported(c)) \subseteq Events
         /\ \A e \in First(k, Reported(c)) : e[1] # "CASE_FAILED"
<1>1. k \in 1..2 /\ 1..k \subseteq 1 .. Len(Reported(c))
  BY ReportedEvents
<1>2. \A e \in First(k, Reported(c)) :
        e \in {"LIVE_TRADE_EXISTS", "BACKTEST_TRADE_CREATED", "CASE_RECORDED"} \X {c.signal}
  BY <1>1, ReportedEvents DEF First
<1>. QED BY <1>2 DEF Events, EventTypes

\* A case is filled with figures of the right types.
LEMMA FilledType ==
  ASSUME TypeOK, NEW c \in Cases, c.signal \in Signals
  PROVE  Filled(c) \in Cases
<1> DEFINE s == c.signal
<1>1. \A d : FirstMove(s, c.p0, d) \in Stamp
  BY FirstMoveIsFirst DEF Stamp, Cases
<1>2. Highest(s, c.p0) \in PriceOrNone
  BY HighestIsHighest DEF PriceOrNone, Cases
<1>3. Early(s, c.p0) \in {"NULL", "TRUE", "FALSE"}
  BY DEF Early
<1>4. Coverage(s, c.p0) \in {"NO_DATA", "SPARSE", "GOOD"}
  BY DEF Coverage
<1>5. \A ts \in Stamp, d \in {1, 2} : Crossed(ts, s, c.p0, d) \in Stamp
  BY <1>1 DEF Crossed
<1>. QED BY <1>2, <1>3, <1>4, <1>5 DEF Filled, Cases

\* The signal of a case is known as long as the case is being built.
Building == {"baseline", "windows", "record"}
AboutSignal(x) == x.phase \in Building => x.case.signal \in Signals

ReplayTypeInv == ReplayTypeOK /\ \A r \in Runs : AboutSignal(run[r])

\* A step changes the record of one backtest, and its row.
LEMMA OneRun ==
  ASSUME ReplayTypeInv, NEW r \in Runs, NEW x \in Sessions, AboutSignal(x), NEW k \in RunRows,
         run' = [run EXCEPT ![r] = x], kept' = [kept EXCEPT ![r] = k],
         errors' \in 0 .. MaxErrors
  PROVE  ReplayTypeInv'
BY DEF ReplayTypeInv, ReplayTypeOK, AboutSignal

LEMMA FailsType ==
  ASSUME ReplayTypeOK, Fails
  PROVE  errors' \in 0 .. MaxErrors
BY ReplayAssumption DEF ReplayTypeOK, Fails

LEMMA SameRow ==
  ASSUME ReplayTypeInv, NEW r \in Runs, NEW x \in Sessions, AboutSignal(x),
         run' = [run EXCEPT ![r] = x], UNCHANGED kept, errors' \in 0 .. MaxErrors
  PROVE  ReplayTypeInv'
BY DEF ReplayTypeInv, ReplayTypeOK, AboutSignal

\* A case that is read further.
LEMMA CaseStepType ==
  ASSUME ReplayTypeInv, NEW r \in Runs, NEW phase \in Phases, NEW new \in Cases,
         new.signal \in Signals,
         run' = [run EXCEPT ![r] = [run[r] EXCEPT !.phase = phase, !.case = new]],
         UNCHANGED <<kept, errors>>
  PROVE  ReplayTypeInv'
<1>1. run[r] \in Sessions
  BY DEF ReplayTypeInv, ReplayTypeOK
<1>2. [run[r] EXCEPT !.phase = phase, !.case = new] \in Sessions
  BY <1>1 DEF Sessions
<1>3. AboutSignal([run[r] EXCEPT !.phase = phase, !.case = new])
  BY <1>1 DEF Sessions, AboutSignal
<1>. QED BY <1>2, <1>3, SameRow DEF ReplayTypeInv, ReplayTypeOK

\* What recording its case makes of a session.
Recorded(x, well, events) ==
  [x EXCEPT !.phase = "next", !.case = BlankCase, !.cases = x.cases \cup {x.case},
            !.trades = x.trades \cup Simulated(x.case), !.count = Counted(x.count, x.case, well),
            !.events = x.events \cup events]

LEMMA RecordedType ==
  ASSUME NEW x \in Sessions, x.case.signal \in Signals, NEW well \in BOOLEAN,
         NEW events \in SUBSET Events
  PROVE  Recorded(x, well, events) \in Sessions
<1>1. x.case \in Cases /\ x.count \in Summaries
  BY DEF Sessions
<1>2. Simulated(x.case) \subseteq Trades /\ Counted(x.count, x.case, well) \in Summaries
  BY <1>1, SimulatedType, CountedType
<1>. QED BY <1>1, <1>2, Initials DEF Recorded, Sessions, Phases

LEMMA RecordedIsNext ==
  ASSUME NEW x \in Sessions, NEW well, NEW events
  PROVE  Recorded(x, well, events).phase = "next"
BY DEF Recorded, Sessions

FailedOf(events) == {e \in events : e[1] = "CASE_FAILED"}

\* A case is recorded, well or not, and only in the latter case reported as failed.
LEMMA RecordStep ==
  ASSUME ReplayTypeInv, NEW r \in Runs, Record(r) \/ RecordFails(r)
  PROVE  /\ run[r].phase = "record" /\ run[r].case.signal \in Signals /\ kept' = kept
         /\ \E well \in BOOLEAN, events \in SUBSET Events :
              /\ run' = [run EXCEPT ![r] = Recorded(run[r], well, events)]
              /\ FailedOf(events) = IF well THEN {} ELSE {<<"CASE_FAILED", run[r].case.signal>>}
<1> DEFINE x == run[r]
           c == x.case
           failed == <<"CASE_FAILED", c.signal>>
<1>1. x \in Sessions /\ c \in Cases /\ x.phase = "record" /\ c.signal \in Signals /\ kept' = kept
  BY DEF ReplayTypeInv, ReplayTypeOK, Sessions, Record, RecordFails, AboutSignal, Building
<1>2. CASE Record(r)
  <2> DEFINE events == First(Len(Reported(c)), Reported(c))
  <2>1. Len(Reported(c)) \in 1 .. Len(Reported(c))
    <3>1. Len(Reported(c)) \in 1..2
      BY <1>1, ReportedEvents
    <3>2. \A n \in 1..2 : n \in 1..n
      OBVIOUS
    <3>. QED BY <3>1, <3>2
  <2>2. events \subseteq Events /\ FailedOf(events) = {}
    BY <1>1, <2>1, FirstEvents DEF FailedOf
  <2>3. run' = [run EXCEPT ![r] = Recorded(x, TRUE, events)]
    BY <1>2 DEF Record, Recorded
  <2>. QED BY <1>1, <2>2, <2>3
<1>3. CASE RecordFails(r)
  <2>1. PICK i \in 1 .. Len(Reported(c)) :
          run' = [run EXCEPT ![r] = Recorded(x, FALSE, First(i, Reported(c)) \cup {failed})]
    BY <1>3 DEF RecordFails, Recorded
  <2> DEFINE events == First(i, Reported(c)) \cup {failed}
  <2>2. First(i, Reported(c)) \subseteq Events /\ failed \in Events /\ failed[1] = "CASE_FAILED"
    BY <1>1, FirstEvents DEF Events, EventTypes
  <2>3. events \subseteq Events /\ FailedOf(events) = {failed}
    BY <1>1, <2>2, FirstEvents DEF FailedOf
  <2>. QED BY <1>1, <2>1, <2>3
<1>. QED BY <1>2, <1>3

LEMMA ReplayTypeStep ==
  ASSUME TypeOK, ReplayTypeInv, [ReplayNext]_<<vars, replayVars>>
  PROVE  ReplayTypeInv'
<1>1. CASE World \/ UNCHANGED <<vars, replayVars>>
  BY <1>1 DEF World, replayVars, ReplayTypeInv, ReplayTypeOK, AboutSignal
<1>2. ASSUME NEW r \in Runs, Replay(r) PROVE ReplayTypeInv'
  <2> DEFINE x == run[r]
             c == run[r].case
             k == kept[r]
  <2>1. /\ x \in Sessions /\ c \in Cases /\ k \in RunRows /\ errors \in 0 .. MaxErrors
        /\ AboutSignal(x)
    BY DEF ReplayTypeInv, ReplayTypeOK, Sessions
  <2>2. CASE Begin(r)
    <3> DEFINE y == [x EXCEPT !.phase = "announce", !.started = clock]
               status == [k EXCEPT !.status = "RUNNING"]
    <3>1. y \in Sessions /\ y.phase = "announce"
      BY <2>1 DEF Sessions, Phases, TypeOK
    <3>2. status \in RunRows
      BY <2>1 DEF RunRows
    <3>3. AboutSignal(y)
      BY <3>1 DEF AboutSignal, Building
    <3>4. run' = [run EXCEPT ![r] = y] /\ kept' = [kept EXCEPT ![r] = status] /\ UNCHANGED errors
      BY <2>2 DEF Begin
    <3> HIDE DEF y, status
    <3>. QED BY <2>1, <3>1, <3>2, <3>3, <3>4, OneRun
  <2>3. CASE Announce(r)
    <3>1. [k EXCEPT !.events = {<<"RUN_STARTED", NoSignal>>}] \in RunRows
      BY <2>1 DEF RunRows, Events, EventTypes
    <3>. QED BY <2>1, <2>3, <3>1, OneRun
             DEF Announce, Goto, Sessions, Phases, AboutSignal, Building
  <2>4. ASSUME NEW B \in SUBSET Signals, Select(r, B) PROVE ReplayTypeInv'
    <3> DEFINE y == [x EXCEPT !.phase = "next", !.todo = B, !.acts = B \cap acted]
    <3>1. y \in Sessions /\ y.phase = "next"
      BY <2>1 DEF Sessions, Phases
    <3>2. AboutSignal(y)
      BY <3>1 DEF AboutSignal, Building
    <3>3. run' = [run EXCEPT ![r] = y] /\ UNCHANGED <<kept, errors>>
      BY <2>4 DEF Select
    <3> HIDE DEF y
    <3>. QED BY <2>1, <3>1, <3>2, <3>3, SameRow
  <2>5. ASSUME NEW s \in Signals, ReadLag(r, s) PROVE ReplayTypeInv'
    <3> DEFINE new == [BlankCase EXCEPT !.signal = s, !.act = s \in x.acts,
                                        !.lag = row[s].status # "NONE", !.p0 = row[s].p0,
                                        !.first5 = row[s].cross["5PT"],
                                        !.first10 = row[s].cross["10PT"]]
    <3>1. /\ row[s].p0 \in PriceOrNone
          /\ row[s].cross["5PT"] \in Stamp /\ row[s].cross["10PT"] \in Stamp
      BY DEF TypeOK, Rows, Labels, PriceOrNone, Stamp
    <3>2. new \in Cases /\ new.signal = s
      <4> DEFINE a == s \in x.acts
                 l == row[s].status # "NONE"
      <4>1. a \in BOOLEAN /\ l \in BOOLEAN
        OBVIOUS
      <4> HIDE DEF a, l
      <4>2. [BlankCase EXCEPT !.signal = s, !.act = a, !.lag = l, !.p0 = row[s].p0,
                              !.first5 = row[s].cross["5PT"],
                              !.first10 = row[s].cross["10PT"]] \in Cases
        BY <3>1, <4>1, Initials DEF Cases
      <4>. QED BY <4>2, Initials DEF a, l, Cases
    <3> DEFINE y == [x EXCEPT !.phase = "baseline", !.todo = x.todo \ {s}, !.case = new]
    <3>3. run' = [run EXCEPT ![r] = y] /\ UNCHANGED <<kept, errors>>
      BY <2>5 DEF ReadLag
    <3> HIDE DEF new
    <3>4. y \in Sessions /\ y.case = new
      BY <2>1, <3>2 DEF Sessions, Phases
    <3>5. AboutSignal(y)
      BY <3>2, <3>4 DEF AboutSignal
    <3> HIDE DEF y
    <3>. QED BY <2>1, <3>3, <3>4, <3>5, SameRow
  <2>6. CASE ReadBaseline(r)
    <3> DEFINE new == [c EXCEPT !.p0 = IF c.p0 # NoPrice THEN c.p0 ELSE Baseline(c.signal)]
    <3>1. c.signal \in Signals
      BY <2>1, <2>6 DEF ReadBaseline, AboutSignal, Building
    <3>2. Baseline(c.signal) \in PriceOrNone
      BY <3>1, PriceHasSnapshot, ConstantsAssumption DEF Baseline, PriceOrNone
    <3>3. new \in Cases /\ new.signal = c.signal
      BY <2>1, <3>2 DEF Cases
    <3>4. /\ run' = [run EXCEPT ![r] = [x EXCEPT !.phase = "windows", !.case = new]]
          /\ UNCHANGED <<kept, errors>>
      BY <2>6 DEF ReadBaseline
    <3> HIDE DEF new
    <3>. QED BY <3>1, <3>3, <3>4, CaseStepType DEF Phases
  <2>7. CASE ReadWindow(r)
    <3> DEFINE w == Windows[Len(c.stamps) + 1]
               new == [c EXCEPT !.stamps = Append(c.stamps, StampIn(c.signal, w)),
                                !.prices = Append(c.prices, PriceIn(c.signal, w))]
    <3>1. c.signal \in Signals
      BY <2>1, <2>7 DEF ReadWindow, AboutSignal, Building
    <3>2. c.stamps \in Seq(Stamp) /\ c.prices \in Seq(PriceOrNone)
      BY <2>1 DEF Cases
    <3>3. w \in Nat
      <4>1. Len(c.stamps) + 1 \in 1 .. Len(Windows)
        BY <2>7, <3>2, LenProperties DEF ReadWindow
      <4>. QED BY <4>1, ElementOfSeq, ReplayAssumption
    <3>4. StampIn(c.signal, w) \in Stamp /\ PriceIn(c.signal, w) \in PriceOrNone
      BY <3>1, <3>3, WindowReading
    <3>5. new \in Cases /\ new.signal = c.signal
      BY <2>1, <3>2, <3>4, AppendProperties DEF Cases
    <3>6. /\ run' = [run EXCEPT ![r] = [x EXCEPT !.phase = "windows", !.case = new]]
          /\ UNCHANGED <<kept, errors>>
      <4>1. run' = [run EXCEPT ![r] = [x EXCEPT !.case = new]] /\ x.phase = "windows"
        BY <2>7 DEF ReadWindow
      <4>2. [x EXCEPT !.case = new] = [x EXCEPT !.phase = "windows", !.case = new]
        BY <2>1, <4>1 DEF Sessions
      <4>. QED BY <2>7, <4>1, <4>2 DEF ReadWindow
    <3> HIDE DEF new
    <3>. QED BY <3>1, <3>5, <3>6, CaseStepType DEF Phases
  <2>8. CASE ReadMoves(r)
    <3>1. c.signal \in Signals
      BY <2>1, <2>8 DEF ReadMoves, AboutSignal, Building
    <3>2. Filled(c) \in Cases /\ Filled(c).signal = c.signal
      BY <2>1, <3>1, FilledType DEF Filled, Cases
    <3>3. /\ run' = [run EXCEPT ![r] = [x EXCEPT !.phase = "record", !.case = Filled(c)]]
          /\ UNCHANGED <<kept, errors>>
      BY <2>8 DEF ReadMoves
    <3>. QED BY <3>1, <3>2, <3>3, CaseStepType DEF Phases
  <2>9. CASE Record(r) \/ RecordFails(r)
    <3>1. PICK well \in BOOLEAN, events \in SUBSET Events :
            run' = [run EXCEPT ![r] = Recorded(x, well, events)]
      BY <2>9, RecordStep
    <3> DEFINE y == Recorded(x, well, events)
    <3>2. y \in Sessions /\ AboutSignal(y)
      BY <2>1, <2>9, RecordStep, RecordedType, RecordedIsNext DEF AboutSignal, Building
    <3>3. UNCHANGED kept /\ errors' \in 0 .. MaxErrors
      BY <2>1, <2>9, FailsType DEF Record, RecordFails, ReplayTypeInv
    <3> HIDE DEF y
    <3>4. run' = [run EXCEPT ![r] = y]
      BY <3>1 DEF y
    <3>. QED BY <3>2, <3>3, <3>4, SameRow
  <2>11. CASE GiveUp(r)
    <3> DEFINE y == [Fresh EXCEPT !.phase = "fail"]
    <3>1. y \in Sessions /\ y.phase = "fail"
      BY Initials DEF Sessions, Phases
    <3>2. AboutSignal(y)
      BY <3>1 DEF AboutSignal, Building
    <3>3. run' = [run EXCEPT ![r] = y] /\ UNCHANGED kept /\ errors' \in 0 .. MaxErrors
      BY <2>11, FailsType DEF GiveUp, ReplayTypeInv
    <3> HIDE DEF y
    <3>. QED BY <3>1, <3>2, <3>3, SameRow
  <2>12. CASE FinishRun(r)
    <3>1. [k EXCEPT !.status = "SUCCESS", !.summary = x.count, !.cases = x.cases,
                    !.trades = x.trades,
                    !.events = k.events \cup x.events \cup {<<"RUN_FINISHED", NoSignal>>}] \in RunRows
      <4>1. /\ x.count \in Summaries /\ x.cases \subseteq Cases /\ x.trades \subseteq Trades
            /\ x.events \subseteq Events /\ k.events \subseteq Events
        BY <2>1 DEF Sessions, RunRows
      <4>2. {<<"RUN_FINISHED", NoSignal>>, <<"RUN_FAILED", NoSignal>>} \subseteq Events
        BY DEF Events, EventTypes
      <4>. QED BY <2>1, <4>1, <4>2 DEF RunRows
    <3>. QED BY <2>1, <2>12, <3>1, OneRun, Initials
             DEF FinishRun, Ended, Fresh, AboutSignal, Building
  <2>13. CASE Fail(r)
    <3>1. [k EXCEPT !.status = "FAILED", !.cases = x.cases, !.trades = x.trades,
                    !.events = k.events \cup x.events \cup {<<"RUN_FAILED", NoSignal>>}] \in RunRows
      <4>1. /\ x.count \in Summaries /\ x.cases \subseteq Cases /\ x.trades \subseteq Trades
            /\ x.events \subseteq Events /\ k.events \subseteq Events
        BY <2>1 DEF Sessions, RunRows
      <4>2. {<<"RUN_FINISHED", NoSignal>>, <<"RUN_FAILED", NoSignal>>} \subseteq Events
        BY DEF Events, EventTypes
      <4>. QED BY <2>1, <4>1, <4>2 DEF RunRows
    <3>. QED BY <2>1, <2>13, <3>1, OneRun, Initials
             DEF Fail, Ended, Fresh, AboutSignal, Building
  <2>14. CASE Kill(r)
    <3>1. errors' \in 0 .. MaxErrors
      BY <2>14, FailsType DEF Kill, ReplayTypeInv
    <3>. QED BY <2>1, <2>14, <3>1, SameRow, Initials DEF Kill, Ended, Fresh, AboutSignal, Building
  <2>. QED BY <1>2, <2>2, <2>3, <2>4, <2>5, <2>6, <2>7, <2>8, <2>9, <2>11, <2>12, <2>13, <2>14
            DEF Replay
<1>. QED BY <1>1, <1>2 DEF ReplayNext

LEMMA ReplayTypeInit == ReplayInit => TypeOK /\ ReplayTypeInv
<1>1. ReplayInit => TypeOK
  BY TypeInit DEF ReplayInit
<1>2. ReplayInit => ReplayTypeInv
  BY Initials, ReplayAssumption
     DEF ReplayInit, ReplayTypeInv, ReplayTypeOK, AboutSignal, Building, Fresh
<1>. QED BY <1>1, <1>2

\* The variables of Backtest keep their types.
THEOREM ReplayTyping == ReplaySpec => []ReplayTypeOK
<1>1. TypeOK /\ ReplayTypeInv /\ [ReplayNext]_<<vars, replayVars>> => TypeOK' /\ ReplayTypeInv'
  BY WorldOrReplay, TypeStep, ReplayTypeStep
<1>2. ReplayTypeInv => ReplayTypeOK
  BY DEF ReplayTypeInv
<1>. QED BY <1>1, <1>2, ReplayTypeInit, PTL DEF ReplaySpec

(***************************************************************************)
(* What a backtest commits.                                                *)
(***************************************************************************)

\* A session holds rows only while it works on signals; a run that has not ended has not succeeded,
\* and one that has not succeeded has committed nothing.
Empty(x) == x.cases = {} /\ x.trades = {} /\ x.events = {} /\ x.count = NoSummary
Nothing(k) == /\ k.cases = {} /\ k.trades = {}
              /\ k.events \subseteq {"RUN_STARTED", "RUN_FAILED"} \X {NoSignal}
Tidy(x, k) ==
  /\ x.phase \notin {"next"} \cup Building => Empty(x)
  /\ x.phase # "end" => k.status # "SUCCESS"
  /\ k.status # "SUCCESS" => Nothing(k)

TidyInv == \A r \in Runs : Tidy(run[r], kept[r])

LEMMA TidyInit == ReplayInit => TidyInv
BY DEF ReplayInit, TidyInv, Tidy, Fresh, NoRun, Empty, Nothing

\* A step of one backtest leaves the others alone.
LEMMA OtherRuns ==
  ASSUME ReplayTypeInv, NEW r \in Runs, Replay(r), NEW q \in Runs, q # r
  PROVE  run'[q] = run[q] /\ kept'[q] = kept[q]
<1> USE DEF ReplayTypeInv, ReplayTypeOK
<1>1. CASE Begin(r) \/ Announce(r)
  BY <1>1 DEF Begin, Announce, Goto
<1>2. ASSUME NEW B \in SUBSET Signals, Select(r, B) PROVE run'[q] = run[q] /\ kept'[q] = kept[q]
  BY <1>2 DEF Select
<1>3. ASSUME NEW s \in Signals, ReadLag(r, s) PROVE run'[q] = run[q] /\ kept'[q] = kept[q]
  BY <1>3 DEF ReadLag
<1>4. CASE ReadBaseline(r) \/ ReadWindow(r) \/ ReadMoves(r)
  BY <1>4 DEF ReadBaseline, ReadWindow, ReadMoves
<1>5. CASE Record(r) \/ RecordFails(r)
  BY <1>5 DEF Record, RecordFails
<1>6. CASE GiveUp(r) \/ Kill(r)
  BY <1>6 DEF GiveUp, Kill
<1>7. CASE FinishRun(r) \/ Fail(r)
  BY <1>7 DEF FinishRun, Fail
<1>. QED BY <1>1, <1>2, <1>3, <1>4, <1>5, <1>6, <1>7 DEF Replay

LEMMA TidyStep ==
  ASSUME ReplayTypeInv, TidyInv, [ReplayNext]_<<vars, replayVars>>
  PROVE  TidyInv'
<1>1. CASE World \/ UNCHANGED <<vars, replayVars>>
  BY <1>1 DEF World, replayVars, TidyInv
<1>2. ASSUME NEW r \in Runs, Replay(r) PROVE Tidy(run'[r], kept'[r])
  <2> DEFINE x == run[r]
             k == kept[r]
  <2>1. run \in [Runs -> Sessions] /\ kept \in [Runs -> RunRows] /\ Tidy(x, k)
    BY DEF ReplayTypeInv, ReplayTypeOK, TidyInv
  <2>2. x \in Sessions /\ k \in RunRows
    BY <2>1
  <2>3. CASE Begin(r)
    BY <2>1, <2>2, <2>3 DEF Begin, Goto, Sessions, RunRows, Tidy, Empty, Nothing, Building
  <2>12. CASE Announce(r)
    <3>1. run'[r] = [x EXCEPT !.phase = "select"] /\ x.phase = "announce"
      BY <2>1, <2>12 DEF Announce, Goto
    <3>2. /\ kept'[r].status = k.status /\ kept'[r].cases = k.cases /\ kept'[r].trades = k.trades
          /\ kept'[r].events = {<<"RUN_STARTED", NoSignal>>}
      BY <2>1, <2>2, <2>12 DEF Announce, RunRows
    <3>. QED BY <2>1, <2>2, <3>1, <3>2 DEF Sessions, Tidy, Empty, Nothing, Building
  <2>4. ASSUME NEW B \in SUBSET Signals, Select(r, B) PROVE Tidy(run'[r], kept'[r])
    BY <2>1, <2>2, <2>4 DEF Select, Sessions, Tidy, Empty, Building
  <2>5. ASSUME NEW s \in Signals, ReadLag(r, s) PROVE Tidy(run'[r], kept'[r])
    <3>1. run'[r].phase = "baseline" /\ kept'[r] = k /\ x.phase = "next"
      BY <2>1, <2>2, <2>5 DEF ReadLag, Sessions
    <3>. QED BY <2>1, <3>1 DEF Tidy, Building
  <2>6. CASE ReadBaseline(r) \/ ReadWindow(r) \/ ReadMoves(r)
    <3>1. run'[r].phase \in Building /\ kept'[r] = k /\ x.phase \in Building
      BY <2>1, <2>2, <2>6 DEF ReadBaseline, ReadWindow, ReadMoves, Sessions, Building
    <3>. QED BY <2>1, <3>1 DEF Tidy, Building
  <2>7. CASE Record(r) \/ RecordFails(r)
    <3>1. run'[r].phase = "next" /\ kept'[r] = k /\ x.phase = "record"
      BY <2>1, <2>2, <2>7, RecordStep, RecordedIsNext
    <3>. QED BY <2>1, <3>1 DEF Tidy, Building
  <2>8. CASE GiveUp(r)
    <3>1. run'[r] = [Fresh EXCEPT !.phase = "fail"] /\ kept'[r] = k /\ x.phase # "end"
      BY <2>1, <2>8 DEF GiveUp, MayFail
    <3>. QED BY <2>1, <3>1 DEF Tidy, Fresh, Empty
  <2>9. CASE Kill(r)
    BY <2>1, <2>9 DEF Kill, Tidy, Ended, Fresh, Empty
  <2>10. CASE FinishRun(r)
    <3>1. run'[r] = Ended /\ kept'[r].status = "SUCCESS"
      BY <2>1, <2>2, <2>10 DEF FinishRun, RunRows
    <3>. QED BY <3>1 DEF Tidy, Ended, Fresh, Empty
  <2>11. CASE Fail(r)
    <3>1. x.phase = "fail" /\ Empty(x) /\ Nothing(k)
      BY <2>1, <2>11 DEF Fail, Tidy, Building
    <3>2. run'[r] = Ended /\ Nothing(kept'[r])
      BY <2>1, <2>2, <2>11, <3>1 DEF Fail, Nothing, Empty, RunRows
    <3>. QED BY <3>2 DEF Tidy, Ended, Fresh, Empty
  <2>. QED BY <1>2, <2>3, <2>4, <2>5, <2>6, <2>7, <2>8, <2>9, <2>10, <2>11,
               <2>12 DEF Replay
<1>3. ASSUME NEW r \in Runs, Replay(r) PROVE TidyInv'
  <2>1. \A q \in Runs : q # r => Tidy(run'[q], kept'[q])
    BY <1>3, OtherRuns DEF TidyInv
  <2>. QED BY <1>2, <1>3, <2>1 DEF TidyInv
<1>. QED BY <1>1, <1>3 DEF ReplayNext

\* A backtest that has not succeeded has left nothing, wherever it failed and however many run.
THEOREM AllOrNothingHolds == ReplaySpec => []AllOrNothing
<1>1. /\ TypeOK /\ ReplayTypeInv /\ TidyInv /\ [ReplayNext]_<<vars, replayVars>>
            => TypeOK' /\ ReplayTypeInv' /\ TidyInv'
  BY WorldOrReplay, TypeStep, ReplayTypeStep, TidyStep
<1>2. TidyInv => AllOrNothing
  BY DEF TidyInv, Tidy, Nothing, AllOrNothing
<1>. QED BY <1>1, <1>2, ReplayTypeInit, TidyInit, PTL DEF ReplaySpec

(***************************************************************************)
(* The summary.                                                            *)
(***************************************************************************)

\* The summary n agrees with cases, trades and events.
Agrees(n, cases, trades, events) ==
  /\ IsFiniteSet(cases) /\ IsFiniteSet(trades) /\ IsFiniteSet(FailedOf(events))
  /\ n.trades = Cardinality(trades)
  /\ n.live = Cardinality({c \in cases : c.act})
  /\ n.cases + Cardinality(FailedOf(events)) = Cardinality(cases)
  /\ \A e \in FailedOf(events) : \E c \in cases : c.signal = e[2]
  /\ \A t \in trades : \E c \in cases : c.signal = t.signal /\ c.p0 = t.p0 /\ ~c.act

\* One more case, of a signal without one.
LEMMA AgreesWithCase ==
  ASSUME NEW n \in Summaries, NEW cases \in SUBSET Cases, NEW trades \in SUBSET Trades,
         NEW events \in SUBSET Events, Agrees(n, cases, trades, events),
         NEW c \in Cases, c.signal \in Signals, \A d \in cases : d.signal # c.signal,
         NEW well \in BOOLEAN, NEW more \in SUBSET Events,
         FailedOf(more) = IF well THEN {} ELSE {<<"CASE_FAILED", c.signal>>}
  PROVE  Agrees(Counted(n, c, well), cases \cup {c}, trades \cup Simulated(c), events \cup more)
<1> DEFINE all == cases \cup {c}
           live == {d \in cases : d.act}
           failed == <<"CASE_FAILED", c.signal>>
           m == Counted(n, c, well)
<1>1. /\ IsFiniteSet(cases) /\ IsFiniteSet(trades) /\ IsFiniteSet(FailedOf(events))
      /\ n.trades = Cardinality(trades) /\ n.live = Cardinality(live)
      /\ n.cases + Cardinality(FailedOf(events)) = Cardinality(cases)
      /\ \A e \in FailedOf(events) : \E d \in cases : d.signal = e[2]
      /\ \A t \in trades : \E d \in cases : d.signal = t.signal /\ d.p0 = t.p0 /\ ~d.act
  BY DEF Agrees
<1>2. n.cases \in Nat /\ n.trades \in Nat /\ n.live \in Nat
  BY DEF Summaries
<1>3. /\ m.cases = IF well THEN n.cases + 1 ELSE n.cases
      /\ m.trades = n.trades + Cardinality(Simulated(c))
      /\ m.live = IF c.act THEN n.live + 1 ELSE n.live
  BY DEF Counted
<1> HIDE DEF m
<1>4. c \notin cases /\ IsFiniteSet(all) /\ Cardinality(all) = Cardinality(cases) + 1
  BY <1>1, FS_AddElement
<1>5. m.live = Cardinality({d \in all : d.act})
  <2>1. IsFiniteSet(live) /\ c \notin live
    BY <1>1, <1>4, FS_Subset
  <2>2. {d \in all : d.act} = IF c.act THEN live \cup {c} ELSE live
    OBVIOUS
  <2>3. Cardinality(live \cup {c}) = Cardinality(live) + 1
    BY <2>1, FS_AddElement
  <2> HIDE DEF live, all
  <2>4. CASE c.act
    BY <1>1, <1>3, <2>2, <2>3, <2>4
  <2>5. CASE ~c.act
    BY <1>1, <1>3, <2>2, <2>5
  <2>. QED BY <2>4, <2>5
<1>6. /\ IsFiniteSet(trades \cup Simulated(c))
      /\ m.trades = Cardinality(trades \cup Simulated(c))
  <2>1. CASE Simulated(c) = {}
    BY <1>1, <1>2, <1>3, <2>1, FS_EmptySet
  <2>2. CASE Simulated(c) # {}
    <3>1. PICK t : Simulated(c) = {t} /\ t.signal = c.signal
      BY <2>2 DEF Simulated
    <3>2. t \notin trades
      BY <1>1, <3>1
    <3>3. Cardinality(Simulated(c)) = 1
      BY <3>1, FS_Singleton
    <3>. QED BY <1>1, <1>3, <3>1, <3>2, <3>3, FS_AddElement
  <2>. QED BY <2>1, <2>2
<1>7. FailedOf(events \cup more) = FailedOf(events) \cup FailedOf(more)
  BY DEF FailedOf
<1>8. /\ IsFiniteSet(FailedOf(events \cup more))
      /\ m.cases + Cardinality(FailedOf(events \cup more)) = Cardinality(all)
  <2>0. Cardinality(FailedOf(events)) \in Nat
    BY <1>1, FS_CardinalityType
  <2>1. CASE well
    <3>1. FailedOf(events \cup more) = FailedOf(events)
      BY <1>7, <2>1
    <3>2. m.cases = n.cases + 1
      BY <1>3, <2>1
    <3> HIDE DEF all
    <3>. QED BY <1>1, <1>2, <1>4, <2>0, <3>1, <3>2
  <2>2. CASE ~well
    <3>1. FailedOf(events \cup more) = FailedOf(events) \cup {failed}
      BY <1>7, <2>2
    <3>2. failed \notin FailedOf(events)
      BY <1>1
    <3>3. /\ IsFiniteSet(FailedOf(events) \cup {failed})
          /\ Cardinality(FailedOf(events) \cup {failed}) = Cardinality(FailedOf(events)) + 1
      BY <1>1, <3>2, FS_AddElement
    <3>4. m.cases = n.cases
      BY <1>3, <2>2
    <3>5. n.cases + Cardinality(FailedOf(events)) = Cardinality(cases)
      BY <1>1
    <3>6. Cardinality(all) = Cardinality(cases) + 1
      BY <1>4
    <3> HIDE DEF all, failed
    <3>7. IsFiniteSet(FailedOf(events \cup more))
      BY <3>1, <3>3
    <3>8. Cardinality(FailedOf(events \cup more)) = Cardinality(FailedOf(events)) + 1
      BY <3>1, <3>3
    <3>9. m.cases + Cardinality(FailedOf(events \cup more)) = Cardinality(all)
      BY <1>2, <2>0, <3>4, <3>5, <3>6, <3>8
    <3>. QED BY <3>7, <3>9
  <2>. QED BY <2>1, <2>2
<1>9. \A e \in FailedOf(events \cup more) : \E d \in all : d.signal = e[2]
  BY <1>1, <1>7
<1>10. \A t \in trades \cup Simulated(c) :
         \E d \in all : d.signal = t.signal /\ d.p0 = t.p0 /\ ~d.act
  BY <1>1 DEF Simulated
<1>. QED BY <1>4, <1>5, <1>6, <1>8, <1>9, <1>10 DEF Agrees, m

\* What a session has counted agrees with what it holds, no signal is worked on twice, and what
\* a run has committed with success agrees with its summary.
Books(x, k) ==
  /\ Agrees(x.count, x.cases, x.trades, x.events)
  /\ \A d \in x.cases : d.signal \notin x.todo
  /\ x.phase \in Building =>
       x.case.signal \notin x.todo /\ \A d \in x.cases : d.signal # x.case.signal
  /\ k.status = "SUCCESS" => Agrees(k.summary, k.cases, k.trades, k.events)

BooksInv == \A r \in Runs : Books(run[r], kept[r])

LEMMA NothingAgrees == Agrees(NoSummary, {}, {}, {})
<1>1. FailedOf({}) = {} /\ {c \in {} : c.act} = {}
  BY DEF FailedOf
<1>2. IsFiniteSet({}) /\ Cardinality({}) = 0
  BY FS_EmptySet
<1>3. NoSummary.trades = 0 /\ NoSummary.live = 0 /\ NoSummary.cases = 0
  BY DEF NoSummary
<1>. QED BY <1>1, <1>2, <1>3 DEF Agrees

\* A session that is as it was, but for a phase before the first case or a row without success.
LEMMA BooksOfIdle ==
  ASSUME NEW x \in {Fresh, Ended, [Fresh EXCEPT !.phase = "fail"]}, NEW k, k.status # "SUCCESS"
  PROVE  Books(x, k)
BY NothingAgrees DEF Books, Fresh, Ended, Building

LEMMA BooksInit == ReplayInit => BooksInv
<1>1. Books(Fresh, NoRun)
  BY BooksOfIdle DEF NoRun
<1>. QED BY <1>1 DEF ReplayInit, BooksInv

\* Recording a case keeps the books.
LEMMA BooksOfRecord ==
  ASSUME NEW x \in Sessions, NEW k \in RunRows, Books(x, k), x.phase = "record",
         x.case.signal \in Signals, NEW well \in BOOLEAN, NEW events \in SUBSET Events,
         FailedOf(events) = IF well THEN {} ELSE {<<"CASE_FAILED", x.case.signal>>}
  PROVE  Books(Recorded(x, well, events), k)
<1> DEFINE c == x.case
           y == Recorded(x, well, events)
<1>1. /\ c \in Cases /\ x.count \in Summaries /\ x.cases \in SUBSET Cases
      /\ x.trades \in SUBSET Trades /\ x.events \in SUBSET Events
  BY DEF Sessions
<1>2. /\ Agrees(x.count, x.cases, x.trades, x.events)
      /\ c.signal \notin x.todo /\ \A d \in x.cases : d.signal # c.signal
  BY DEF Books, Building
<1>3. Agrees(Counted(x.count, c, well), x.cases \cup {c}, x.trades \cup Simulated(c),
             x.events \cup events)
  BY <1>1, <1>2, AgreesWithCase
<1>4. /\ y.count = Counted(x.count, c, well) /\ y.cases = x.cases \cup {c}
      /\ y.trades = x.trades \cup Simulated(c) /\ y.events = x.events \cup events
      /\ y.todo = x.todo /\ y.phase = "next"
  BY DEF Recorded, Sessions
<1> HIDE DEF y
<1>5. Agrees(y.count, y.cases, y.trades, y.events)
  BY <1>3, <1>4
<1>6. \A d \in y.cases : d.signal \notin y.todo
  BY <1>2, <1>4 DEF Books
<1>7. Books(y, k)
  BY <1>4, <1>5, <1>6 DEF Books, Building
<1>. QED BY <1>7 DEF y

LEMMA BooksStep ==
  ASSUME ReplayTypeInv, TidyInv, BooksInv, [ReplayNext]_<<vars, replayVars>>
  PROVE  BooksInv'
<1>1. CASE World \/ UNCHANGED <<vars, replayVars>>
  BY <1>1 DEF World, replayVars, BooksInv
<1>2. ASSUME NEW r \in Runs, Replay(r) PROVE Books(run'[r], kept'[r])
  <2> DEFINE x == run[r]
             k == kept[r]
  <2>1. /\ run \in [Runs -> Sessions] /\ kept \in [Runs -> RunRows]
        /\ Tidy(x, k) /\ Books(x, k)
    BY DEF ReplayTypeInv, ReplayTypeOK, TidyInv, BooksInv
  <2>2. x \in Sessions /\ k \in RunRows
    BY <2>1
  <2>3. CASE Begin(r) \/ Announce(r)
    <3>1. /\ run'[r].phase \in {"announce", "select"}
          /\ run'[r].count = x.count /\ run'[r].cases = x.cases /\ run'[r].trades = x.trades
          /\ run'[r].events = x.events /\ run'[r].todo = x.todo
      <4>1. run'[r] \in {[x EXCEPT !.phase = "announce", !.started = clock],
                         [x EXCEPT !.phase = "select"]}
        BY <2>1, <2>3 DEF Begin, Announce, Goto
      <4>. QED BY <2>2, <4>1 DEF Sessions
    <3>2. kept'[r].status # "SUCCESS"
      BY <2>1, <2>2, <2>3 DEF Begin, Announce, Tidy, RunRows
    <3>. QED BY <2>1, <3>1, <3>2 DEF Books, Building
  <2>4. ASSUME NEW B \in SUBSET Signals, Select(r, B) PROVE Books(run'[r], kept'[r])
    <3>1. /\ run'[r].phase = "next" /\ kept'[r] = k
          /\ run'[r].count = x.count /\ run'[r].cases = x.cases /\ run'[r].trades = x.trades
          /\ run'[r].events = x.events
      BY <2>1, <2>2, <2>4 DEF Select, Sessions
    <3>2. x.cases = {}
      BY <2>1, <2>4 DEF Select, Tidy, Empty, Building
    <3>. QED BY <2>1, <3>1, <3>2 DEF Books, Building
  <2>5. ASSUME NEW s \in Signals, ReadLag(r, s) PROVE Books(run'[r], kept'[r])
    <3>1. /\ run'[r].phase = "baseline" /\ kept'[r] = k /\ s \in x.todo
          /\ run'[r].count = x.count /\ run'[r].cases = x.cases /\ run'[r].trades = x.trades
          /\ run'[r].events = x.events /\ run'[r].todo = x.todo \ {s}
          /\ run'[r].case.signal = s
      BY <2>1, <2>2, <2>5, Initials DEF ReadLag, Sessions, Cases
    <3>. QED BY <2>1, <3>1 DEF Books, Building
  <2>6. CASE ReadBaseline(r) \/ ReadWindow(r) \/ ReadMoves(r)
    <3>0. x.case \in Cases
      BY <2>2 DEF Sessions
    <3>1. \E new, phase :
            /\ kept'[r] = k /\ x.phase \in Building
            /\ run'[r] = [x EXCEPT !.phase = phase, !.case = new]
            /\ new.signal = x.case.signal
      <4>1. CASE ReadBaseline(r)
        <5> DEFINE c == x.case
                   new == [c EXCEPT !.p0 = IF c.p0 # NoPrice THEN c.p0 ELSE Baseline(c.signal)]
        <5>1. run'[r] = [x EXCEPT !.phase = "windows", !.case = new]
          BY <2>1, <4>1 DEF ReadBaseline
        <5>2. kept'[r] = k /\ x.phase \in Building /\ new.signal = c.signal
          BY <3>0, <4>1 DEF ReadBaseline, Building, Cases
        <5> HIDE DEF new
        <5>. QED BY <5>1, <5>2
      <4>2. CASE ReadWindow(r)
        <5>1. PICK new : /\ run'[r] = [x EXCEPT !.case = new] /\ new.signal = x.case.signal
                         /\ x.phase = "windows" /\ kept'[r] = k
          BY <2>1, <3>0, <4>2 DEF ReadWindow, Cases
        <5>2. run'[r] = [x EXCEPT !.phase = "windows", !.case = new]
          BY <2>2, <5>1 DEF Sessions
        <5>. QED BY <5>1, <5>2 DEF Building
      <4>3. CASE ReadMoves(r)
        <5>1. run'[r] = [x EXCEPT !.phase = "record", !.case = Filled(x.case)]
          BY <2>1, <4>3 DEF ReadMoves
        <5>2. kept'[r] = k /\ x.phase \in Building /\ Filled(x.case).signal = x.case.signal
          BY <3>0, <4>3 DEF ReadMoves, Filled, Building, Cases
        <5>. QED BY <5>1, <5>2
      <4>. QED BY <2>6, <4>1, <4>2, <4>3
    <3>2. /\ kept'[r] = k /\ x.phase \in Building
          /\ run'[r].count = x.count /\ run'[r].cases = x.cases /\ run'[r].trades = x.trades
          /\ run'[r].events = x.events /\ run'[r].todo = x.todo
          /\ run'[r].case.signal = x.case.signal
      BY <2>2, <3>1 DEF Sessions
    <3>. QED BY <2>1, <3>2 DEF Books
  <2>7. CASE Record(r) \/ RecordFails(r)
    <3>1. PICK well \in BOOLEAN, events \in SUBSET Events :
            /\ run' = [run EXCEPT ![r] = Recorded(x, well, events)]
            /\ FailedOf(events) = IF well THEN {} ELSE {<<"CASE_FAILED", x.case.signal>>}
      BY <2>7, RecordStep
    <3>2. x.phase = "record" /\ x.case.signal \in Signals /\ kept' = kept
      BY <2>7, RecordStep
    <3>3. Books(Recorded(x, well, events), k)
      BY <2>1, <2>2, <3>1, <3>2, BooksOfRecord
    <3>. QED BY <2>1, <3>1, <3>2, <3>3
  <2>8. CASE GiveUp(r) \/ Kill(r)
    <3>1. /\ run'[r] \in {Ended, [Fresh EXCEPT !.phase = "fail"]} /\ kept'[r] = k
          /\ x.phase # "end"
      BY <2>1, <2>8 DEF GiveUp, Kill, MayFail
    <3>2. k.status # "SUCCESS"
      BY <2>1, <3>1 DEF Tidy
    <3>. QED BY <3>1, <3>2, BooksOfIdle
  <2>9. CASE Fail(r)
    <3>1. run'[r] = Ended /\ kept'[r].status = "FAILED"
      BY <2>1, <2>2, <2>9 DEF Fail, RunRows
    <3>. QED BY <3>1, BooksOfIdle
  <2>10. CASE FinishRun(r)
    <3>1. /\ run'[r] = Ended
          /\ kept'[r].summary = x.count /\ kept'[r].cases = x.cases
          /\ kept'[r].trades = x.trades
          /\ kept'[r].events = k.events \cup x.events \cup {<<"RUN_FINISHED", NoSignal>>}
      BY <2>1, <2>2, <2>10 DEF FinishRun, RunRows
    <3>2. Nothing(k)
      BY <2>1, <2>10 DEF FinishRun, Tidy
    <3>3. FailedOf(kept'[r].events) = FailedOf(x.events)
      BY <3>1, <3>2 DEF FailedOf, Nothing
    <3>4. Agrees(kept'[r].summary, kept'[r].cases, kept'[r].trades, kept'[r].events)
      BY <2>1, <3>1, <3>3 DEF Books, Agrees
    <3>. QED BY <3>1, <3>4, NothingAgrees DEF Books, Ended, Fresh, Building
  <2>. QED BY <1>2, <2>3, <2>4, <2>5, <2>6, <2>7, <2>8, <2>9, <2>10 DEF Replay
<1>3. ASSUME NEW r \in Runs, Replay(r) PROVE BooksInv'
  <2>1. \A q \in Runs : q # r => Books(run'[q], kept'[q])
    BY <1>3, OtherRuns DEF BooksInv
  <2>. QED BY <1>2, <1>3, <2>1 DEF BooksInv
<1>. QED BY <1>1, <1>3 DEF ReplayNext

\* The summary of a backtest counts its trades, its live signals and its cases but for the
\* failed ones, however many files failed on the way.
THEOREM SummaryTrueHolds == ReplaySpec => []SummaryTrue
<1>1. /\ TypeOK /\ ReplayTypeInv /\ TidyInv /\ BooksInv /\ [ReplayNext]_<<vars, replayVars>>
            => TypeOK' /\ ReplayTypeInv' /\ TidyInv' /\ BooksInv'
  BY WorldOrReplay, TypeStep, ReplayTypeStep, TidyStep, BooksStep
<1>2. BooksInv => SummaryTrue
  BY DEF BooksInv, Books, Agrees, FailedOf, SummaryTrue
<1>. QED BY <1>1, <1>2, ReplayTypeInit, TidyInit, BooksInit, PTL DEF ReplaySpec

(***************************************************************************)
(* The figures of a case.                                                  *)
(***************************************************************************)

\* Between, of given snapshots.
Within(sn, s, k) == {x \in sn[MarketOf[s]] : Published[s] < x.ts /\ x.ts <= Published[s] + k}

\* What the queries of a case have returned so far: each stamp and each price is still that of
\* a snapshot of its window, the stamps ascend, and the crossings are those of a measurement.
Seen(sn, c) ==
  /\ Len(c.prices) = Len(c.stamps) /\ Len(c.stamps) <= Len(Windows)
  /\ \A i \in 1 .. Len(c.stamps) :
       /\ c.stamps[i] # NoTs => \E x \in Within(sn, c.signal, Windows[i]) : x.ts = c.stamps[i]
       /\ c.prices[i] # NoPrice =>
            \E x \in Within(sn, c.signal, Windows[i]) :
              x.mid # NoPrice /\ c.prices[i] = Implied(SideOf[c.signal], x.mid)
  /\ \A i, j \in 1 .. Len(c.stamps) : i <= j => c.stamps[i] <= c.stamps[j]
  /\ c.first10 # NoTs => c.first5 # NoTs
  /\ ~c.lag => c.first5 = NoTs /\ c.first10 = NoTs

\* More snapshots take nothing from what was seen.
LEMMA SeenStays ==
  ASSUME NEW old, NEW new, \A m \in Markets : old[m] \subseteq new[m],
         NEW c, c.signal \in Signals, Seen(old, c)
  PROVE  Seen(new, c)
<1>1. \A k : Within(old, c.signal, k) \subseteq Within(new, c.signal, k)
  <2>1. MarketOf[c.signal] \in Markets
    BY ConstantsAssumption
  <2>. QED BY <2>1 DEF Within
<1> HIDE DEF Within
<1>. QED BY <1>1 DEF Seen

\* A longer window holds what a shorter one does.
LEMMA WindowsNest ==
  ASSUME NEW sn, NEW s \in Signals, NEW i \in 1 .. Len(Windows), NEW j \in 1 .. Len(Windows),
         i <= j, \A x \in sn[MarketOf[s]] : x.ts \in Nat
  PROVE  /\ Within(sn, s, Windows[i]) \subseteq Within(sn, s, Windows[j])
         /\ Within(sn, s, Windows[j]) \subseteq Within(sn, s, Horizon)
<1>1. /\ Windows[i] \in Nat /\ Windows[j] \in Nat /\ Horizon \in Nat
      /\ Windows[i] <= Windows[j] /\ Windows[j] <= Horizon
  <2>1. Windows \in Seq(Nat) /\ DOMAIN Windows = 1 .. Len(Windows)
    BY ReplayAssumption, LenProperties
  <2>. QED BY <2>1, ReplayAssumption, ElementOfSeq
<1>2. ASSUME NEW k \in Nat, NEW l \in Nat, k <= l
      PROVE  Within(sn, s, k) \subseteq Within(sn, s, l)
  <2>1. Published[s] \in Nat
    BY ConstantsAssumption
  <2>. SUFFICES ASSUME NEW x \in Within(sn, s, k) PROVE x \in Within(sn, s, l)
    OBVIOUS
  <2>2. x \in sn[MarketOf[s]] /\ x.ts \in Nat /\ Published[s] < x.ts /\ x.ts <= Published[s] + k
    BY DEF Within
  <2>3. x.ts <= Published[s] + l
    BY <1>2, <2>1, <2>2
  <2>. QED BY <2>2, <2>3 DEF Within
<1>. QED BY <1>1, <1>2

LEMMA SnapTimes ==
  ASSUME TypeOK, NEW s \in Signals
  PROVE  \A x \in snaps[MarketOf[s]] : x.ts \in Nat
BY ConstantsAssumption DEF TypeOK, Snapshots

\* One more window.
LEMMA SeenWindow ==
  ASSUME TypeOK, NEW c \in Cases, c.signal \in Signals, Seen(snaps, c),
         Len(c.stamps) + 1 <= Len(Windows),
         NEW t, t = StampIn(c.signal, Windows[Len(c.stamps) + 1]),
         NEW p, p = PriceIn(c.signal, Windows[Len(c.stamps) + 1])
  PROVE  Seen(snaps, [c EXCEPT !.stamps = Append(c.stamps, t), !.prices = Append(c.prices, p)])
<1> DEFINE s == c.signal
           n == Len(c.stamps)
           w == Windows[n + 1]
           d == [c EXCEPT !.stamps = Append(c.stamps, t), !.prices = Append(c.prices, p)]
<1>1. c.stamps \in Seq(Stamp) /\ c.prices \in Seq(PriceOrNone)
  BY DEF Cases
<1>2. n \in Nat /\ n + 1 \in 1 .. Len(Windows) /\ Len(c.prices) = n /\ Len(Windows) \in Nat
  BY <1>1, LenProperties, ReplayAssumption DEF Seen
<1>3. w \in Nat
  BY <1>2, ElementOfSeq, ReplayAssumption
<1>4. \A k : Within(snaps, s, k) = Between(s, k)
  BY DEF Within, Between
<1>5. /\ t \in Stamp /\ p \in PriceOrNone
      /\ t # NoTs => \E x \in Within(snaps, s, w) : x.ts = t
      /\ \A x \in Within(snaps, s, w) : x.ts <= t
      /\ p # NoPrice => \E x \in Within(snaps, s, w) :
                          x.mid # NoPrice /\ p = Implied(SideOf[s], x.mid)
  BY <1>3, <1>4, WindowReading
<1>6. /\ d.signal = s /\ d.lag = c.lag /\ d.first5 = c.first5 /\ d.first10 = c.first10
      /\ d.stamps = Append(c.stamps, t) /\ d.prices = Append(c.prices, p)
  BY DEF Cases
<1> HIDE DEF d
<1>7. /\ Len(d.stamps) = n + 1 /\ Len(d.prices) = n + 1
      /\ \A i \in 1 .. n : d.stamps[i] = c.stamps[i] /\ d.prices[i] = c.prices[i]
      /\ d.stamps[n + 1] = t /\ d.prices[n + 1] = p
  BY <1>1, <1>2, <1>5, <1>6, AppendProperties
<1>8. \A i \in 1 .. (n + 1) : i = n + 1 \/ i \in 1 .. n
  BY <1>2
<1>9. \A i \in 1 .. (n + 1) :
        /\ d.stamps[i] # NoTs => \E x \in Within(snaps, s, Windows[i]) : x.ts = d.stamps[i]
        /\ d.prices[i] # NoPrice =>
             \E x \in Within(snaps, s, Windows[i]) :
               x.mid # NoPrice /\ d.prices[i] = Implied(SideOf[s], x.mid)
  BY <1>5, <1>7, <1>8 DEF Seen
<1>10. ASSUME NEW i \in 1 .. n PROVE c.stamps[i] <= t
  <2>1. c.stamps[i] \in Stamp /\ i \in 1 .. Len(Windows) /\ i <= n + 1
    BY <1>1, <1>2, ElementOfSeq
  <2>2. CASE c.stamps[i] = NoTs
    BY <1>5, <2>2 DEF Stamp, NoTs
  <2>3. CASE c.stamps[i] # NoTs
    <3>1. PICK x \in Within(snaps, s, Windows[i]) : x.ts = c.stamps[i]
      BY <2>3 DEF Seen
    <3>2. x \in Within(snaps, s, w)
      BY <1>2, <2>1, <3>1, WindowsNest, SnapTimes
    <3>. QED BY <1>5, <3>1, <3>2
  <2>. QED BY <2>2, <2>3
<1>11. \A i, j \in 1 .. (n + 1) : i <= j => d.stamps[i] <= d.stamps[j]
  <2>1. t <= t
    BY <1>5 DEF Stamp, NoTs
  <2>2. \A i, j \in 1 .. n : i <= j => c.stamps[i] <= c.stamps[j]
    BY DEF Seen
  <2>3. ASSUME NEW i \in 1 .. (n + 1), NEW j \in 1 .. (n + 1), i <= j
        PROVE  d.stamps[i] <= d.stamps[j]
    <3>1. CASE j = n + 1
      BY <1>7, <1>8, <1>10, <2>1, <3>1
    <3>2. CASE j # n + 1
      <4>1. j \in 1 .. n /\ i \in 1 .. n
        BY <1>2, <2>3, <3>2
      <4>. QED BY <1>7, <2>2, <2>3, <4>1
    <3>. QED BY <3>1, <3>2
  <2>. QED BY <2>3
<1>12. /\ c.first10 # NoTs => c.first5 # NoTs
       /\ ~c.lag => c.first5 = NoTs /\ c.first10 = NoTs
  BY DEF Seen
<1>13. Seen(snaps, d)
  BY <1>2, <1>6, <1>7, <1>9, <1>11, <1>12 DEF Seen
<1>. QED BY <1>13 DEF d

\* What ReadMoves makes of a case whose windows were read one by one is coherent.
LEMMA FilledCoheres ==
  ASSUME TypeOK, NEW c \in Cases, c.signal \in Signals, Seen(snaps, c)
  PROVE  CaseCoheres(Filled(c))
<1> DEFINE s == c.signal
           side == SideOf[c.signal]
           p0 == c.p0
           S(d) == {x \in Moves(s, p0) : Rose(side, p0, x.p, d)}
           h == Highest(s, p0)
           f5 == Crossed(c.first5, s, p0, 1)
           f10 == Crossed(c.first10, s, p0, 2)
           e == Early(s, p0)
           F == Filled(c)
<1>1. /\ F.signal = s /\ F.p0 = p0 /\ F.lag = c.lag /\ F.stamps = c.stamps /\ F.prices = c.prices
      /\ F.first5 = f5 /\ F.first10 = f10 /\ F.peak = h /\ F.early = e
  BY DEF Filled, Cases
<1>2. /\ p0 \in PriceOrNone /\ c.first5 \in Stamp /\ c.first10 \in Stamp
      /\ c.stamps \in Seq(Stamp) /\ c.prices \in Seq(PriceOrNone)
      /\ DOMAIN c.stamps = 1 .. Len(c.stamps) /\ DOMAIN c.prices = 1 .. Len(c.stamps)
  <2>1. c.stamps \in Seq(Stamp) /\ c.prices \in Seq(PriceOrNone) /\ Len(c.prices) = Len(c.stamps)
    BY DEF Cases, Seen
  <2>. QED BY <2>1, LenProperties DEF Cases
<1>3. /\ c.first10 # NoTs => c.first5 # NoTs
      /\ ~c.lag => c.first5 = NoTs /\ c.first10 = NoTs
  BY DEF Seen
<1>4. ASSUME NEW d
      PROVE  /\ S(d) = {} => FirstMove(s, p0, d) = NoTs
             /\ S(d) # {} => /\ FirstMove(s, p0, d) \in Nat
                             /\ \E x \in S(d) : x.ts = FirstMove(s, p0, d)
                             /\ \A x \in S(d) : FirstMove(s, p0, d) <= x.ts
  BY <1>2, FirstMoveIsFirst
<1>5. S(2) \subseteq S(1)
  <2>1. ASSUME NEW x \in Moves(s, p0), Rose(side, p0, x.p, 2) PROVE Rose(side, p0, x.p, 1)
    <3>1. x.p \in Int /\ p0 \in Int
      BY <1>2, MovePoints DEF PriceOrNone, NoPrice
    <3>2. x.p - p0 >= 2
      BY <2>1, <3>1 DEF Rose
    <3>. QED BY <3>1, <3>2 DEF Rose
  <2>. QED BY <2>1
<1>6. \A i, j \in DOMAIN F.stamps : i <= j => F.stamps[i] <= F.stamps[j]
  BY <1>1, <1>2 DEF Seen
<1>7. p0 # NoPrice => \A i \in DOMAIN F.prices : F.prices[i] <= h
  <2>. SUFFICES ASSUME p0 # NoPrice, NEW i \in 1 .. Len(c.stamps) PROVE c.prices[i] <= h
    BY <1>1, <1>2
  <2>1. /\ h \in Int /\ NoPrice <= h
        /\ \A x \in Moves(s, p0) : x.p <= h
    <3>1. CASE Moves(s, p0) = {}
      <4>1. h = NoPrice
        BY <1>2, <3>1, HighestIsHighest
      <4>. QED BY <3>1, <4>1 DEF NoPrice
    <3>2. CASE Moves(s, p0) # {}
      <4>1. h \in 0..Top /\ \A x \in Moves(s, p0) : x.p <= h
        BY <1>2, <3>2, HighestIsHighest
      <4>2. h \in Nat
        BY <4>1, ConstantsAssumption
      <4>. QED BY <4>1, <4>2 DEF NoPrice
    <3>. QED BY <3>1, <3>2
  <2>2. CASE c.prices[i] = NoPrice
    BY <2>1, <2>2
  <2>3. CASE c.prices[i] # NoPrice
    <3>1. PICK x \in Within(snaps, s, Windows[i]) :
            x.mid # NoPrice /\ c.prices[i] = Implied(side, x.mid)
      BY <2>3 DEF Seen
    <3>2. i \in 1 .. Len(Windows)
      <4>1. Len(c.stamps) <= Len(Windows) /\ Len(c.stamps) \in Nat /\ Len(Windows) \in Nat
        BY <1>2, LenProperties, ReplayAssumption DEF Seen
      <4>. QED BY <4>1
    <3>3. x \in Within(snaps, s, Horizon)
      <4>1. i <= i
        BY <3>2
      <4>. QED BY <3>1, <3>2, <4>1, WindowsNest, SnapTimes
    <3>4. x \in Observed(s)
      BY <3>3 DEF Within, Observed, Between
    <3>5. [ts |-> x.ts, p |-> Implied(side, x.mid)] \in Moves(s, p0)
      BY <3>1, <3>4 DEF Moves
    <3>. QED BY <2>1, <3>1, <3>5
  <2>. QED BY <2>2, <2>3
<1>8. p0 # NoPrice /\ h # NoPrice /\ Rose(side, p0, h, 1) => f5 # NoTs
  <2>. SUFFICES ASSUME h # NoPrice, Rose(side, p0, h, 1) PROVE f5 # NoTs
    OBVIOUS
  <2>1. PICK x \in Moves(s, p0) : x.p = h
    BY <1>2, HighestIsHighest
  <2>2. S(1) # {}
    BY <2>1
  <2>3. FirstMove(s, p0, 1) # NoTs
    BY <1>4, <2>2 DEF NoTs
  <2>. QED BY <2>3 DEF Crossed
<1>9. f10 # NoTs => f5 # NoTs
  <2>. SUFFICES ASSUME f10 # NoTs, c.first5 = NoTs PROVE f5 # NoTs
    BY DEF Crossed
  <2>1. c.first10 = NoTs
    BY <1>3
  <2>2. FirstMove(s, p0, 2) # NoTs
    BY <2>1 DEF Crossed
  <2>3. S(1) # {}
    BY <1>4, <1>5, <2>2
  <2>4. FirstMove(s, p0, 1) # NoTs
    BY <1>4, <2>3 DEF NoTs
  <2>. QED BY <2>4 DEF Crossed
<1>10. ASSUME ~c.lag
       PROVE  /\ f10 # NoTs => f5 <= f10
              /\ e = "TRUE" <=> f5 # NoTs /\ f5 <= FetchedAt[s]
  <2>1. f5 = FirstMove(s, p0, 1) /\ f10 = FirstMove(s, p0, 2)
    BY <1>3, <1>10 DEF Crossed
  <2>2. f10 # NoTs => f5 <= f10
    <3>. SUFFICES ASSUME f10 # NoTs PROVE f5 <= f10
      OBVIOUS
    <3>1. S(2) # {}
      BY <1>4, <2>1
    <3>2. PICK x \in S(2) : x.ts = FirstMove(s, p0, 2)
      BY <1>4, <3>1
    <3>3. x \in S(1)
      BY <1>5
    <3>4. FirstMove(s, p0, 1) <= x.ts
      BY <1>4, <3>3
    <3>. QED BY <2>1, <3>2, <3>4
  <2>3. e = "TRUE" <=> \E x \in S(1) : x.ts <= FetchedAt[s]
    BY DEF Early
  <2>4. FetchedAt[s] \in Nat
    BY ReplayAssumption
  <2>5. ASSUME NEW x \in S(1), x.ts <= FetchedAt[s] PROVE f5 # NoTs /\ f5 <= FetchedAt[s]
    <3>1. FirstMove(s, p0, 1) \in Nat /\ FirstMove(s, p0, 1) <= x.ts /\ x.ts \in Nat
      <4>1. S(1) # {}
        BY <2>5
      <4>2. x.ts \in Nat
        BY <1>2, MovePoints
      <4>. QED BY <1>4, <4>1, <4>2
    <3>. QED BY <2>1, <2>4, <2>5, <3>1 DEF NoTs
  <2>6. ASSUME f5 # NoTs, f5 <= FetchedAt[s] PROVE \E x \in S(1) : x.ts <= FetchedAt[s]
    BY <1>4, <2>1, <2>6
  <2>. QED BY <2>2, <2>3, <2>5, <2>6
<1> HIDE DEF F, h, f5, f10, e
<1>11. CaseCoheres(F)
  BY <1>1, <1>6, <1>7, <1>8, <1>9, <1>10 DEF CaseCoheres
<1>. QED BY <1>11 DEF F

\* A case being read has seen what it says; one that is read, in a session or committed, coheres.
Sound(sn, x, k) ==
  /\ x.phase \in {"baseline", "windows"} => Seen(sn, x.case)
  /\ x.phase = "record" => CaseCoheres(x.case)
  /\ \A c \in x.cases : CaseCoheres(c)
  /\ \A c \in k.cases : CaseCoheres(c)

SoundInv == \A r \in Runs : Sound(snaps, run[r], kept[r])

LEMMA SoundInit == ReplayInit => SoundInv
BY DEF ReplayInit, SoundInv, Sound, Fresh, NoRun

\* Snapshots committed meanwhile disturb nothing.
LEMMA SoundStays ==
  ASSUME NEW old, NEW new, \A m \in Markets : old[m] \subseteq new[m],
         NEW x, AboutSignal(x), NEW k, Sound(old, x, k)
  PROVE  Sound(new, x, k)
BY SeenStays DEF Sound, AboutSignal, Building

\* A step that adds coherent cases to a session, or commits those it has.
LEMMA SoundTurns ==
  ASSUME NEW sn, NEW x, NEW k, Sound(sn, x, k), NEW y, NEW l,
         y.phase \in {"baseline", "windows"} => Seen(sn, y.case),
         y.phase = "record" => CaseCoheres(y.case),
         \A c \in y.cases : c \in x.cases \/ CaseCoheres(c),
         l.cases \subseteq k.cases \cup x.cases
  PROVE  Sound(sn, y, l)
BY DEF Sound

\* The measurement a case starts from is coherent, and if there is none it has no crossing.
LEMMA SeenLag ==
  ASSUME TypeOK, CoherentInv, NEW s \in Signals,
         NEW new, new.stamps = <<>>, new.prices = <<>>, new.lag <=> row[s].status # "NONE",
         new.first5 = row[s].cross["5PT"], new.first10 = row[s].cross["10PT"]
  PROVE  Seen(snaps, new)
<1>1. Len(new.stamps) = 0 /\ Len(new.prices) = 0 /\ Len(Windows) \in Nat
  BY EmptySeq, LenProperties, ReplayAssumption
<1>2. Coherent(s, row[s])
  BY DEF CoherentInv
<1>3. /\ new.first10 # NoTs => new.first5 # NoTs
      /\ ~new.lag => new.first5 = NoTs /\ new.first10 = NoTs
  BY <1>2 DEF Coherent
<1>4. 1 .. Len(new.stamps) = {}
  BY <1>1
<1>. QED BY <1>1, <1>3, <1>4 DEF Seen

LEMMA SoundStep ==
  ASSUME TypeOK, CoherentInv, ReplayTypeInv, TidyInv, SoundInv, [ReplayNext]_<<vars, replayVars>>
  PROVE  SoundInv'
<1>1. CASE World \/ UNCHANGED <<vars, replayVars>>
  <2>1. run' = run /\ kept' = kept
    BY <1>1 DEF World, replayVars
  <2>2. ASSUME NEW r \in Runs PROVE Sound(snaps', run[r], kept[r])
    <3>1. \A m \in Markets : snaps[m] \subseteq snaps'[m]
      BY SnapsGrow
    <3>2. Sound(snaps, run[r], kept[r]) /\ AboutSignal(run[r])
      BY DEF SoundInv, ReplayTypeInv
    <3>. QED BY <3>1, <3>2, SoundStays
  <2>. QED BY <2>1, <2>2 DEF SoundInv
<1>2. ASSUME NEW r \in Runs, Replay(r) PROVE Sound(snaps, run'[r], kept'[r])
  <2> DEFINE x == run[r]
             c == x.case
             k == kept[r]
  <2>1. /\ run \in [Runs -> Sessions] /\ kept \in [Runs -> RunRows]
        /\ Sound(snaps, x, k) /\ Tidy(x, k) /\ AboutSignal(x)
    BY DEF ReplayTypeInv, ReplayTypeOK, SoundInv, TidyInv
  <2>2. x \in Sessions /\ k \in RunRows /\ c \in Cases
    BY <2>1 DEF Sessions
  <2>3. CASE Begin(r) \/ Announce(r)
    <3>1. /\ run'[r].phase \in {"announce", "select"} /\ run'[r].cases = x.cases
          /\ kept'[r].cases = k.cases
      <4>1. run'[r] \in {[x EXCEPT !.phase = "announce", !.started = clock],
                         [x EXCEPT !.phase = "select"]}
        BY <2>1, <2>3 DEF Begin, Announce, Goto
      <4>2. kept'[r].cases = k.cases
        BY <2>1, <2>2, <2>3 DEF Begin, Announce, RunRows
      <4>. QED BY <2>2, <4>1, <4>2 DEF Sessions
    <3>. QED BY <2>1, <3>1, SoundTurns
  <2>4. ASSUME NEW B \in SUBSET Signals, Select(r, B) PROVE Sound(snaps, run'[r], kept'[r])
    <3>1. run'[r].phase = "next" /\ run'[r].cases = x.cases /\ kept'[r] = k
      BY <2>1, <2>2, <2>4 DEF Select, Sessions
    <3>. QED BY <2>1, <3>1, SoundTurns
  <2>5. ASSUME NEW s \in Signals, ReadLag(r, s) PROVE Sound(snaps, run'[r], kept'[r])
    <3> DEFINE new == [BlankCase EXCEPT !.signal = s, !.act = s \in x.acts,
                         !.lag = row[s].status # "NONE", !.p0 = row[s].p0,
                         !.first5 = row[s].cross["5PT"], !.first10 = row[s].cross["10PT"]]
    <3>1. Seen(snaps, new)
      <4> DEFINE a == s \in x.acts
                 l == row[s].status # "NONE"
      <4>1. /\ new.stamps = <<>> /\ new.prices = <<>> /\ new.lag = l
            /\ new.first5 = row[s].cross["5PT"] /\ new.first10 = row[s].cross["10PT"]
        <5> HIDE DEF a, l
        <5>1. \A p0, f, g : LET m == [BlankCase EXCEPT !.signal = s, !.act = a, !.lag = l, !.p0 = p0,
                                                       !.first5 = f, !.first10 = g]
                            IN  /\ m.stamps = <<>> /\ m.prices = <<>> /\ m.lag = l
                                /\ m.first5 = f /\ m.first10 = g
          BY DEF BlankCase
        <5>. QED BY <5>1 DEF a, l
      <4> HIDE DEF new
      <4>. QED BY <4>1, SeenLag
    <3>2. /\ run'[r] = [x EXCEPT !.phase = "baseline", !.todo = x.todo \ {s}, !.case = new]
          /\ kept'[r] = k
      BY <2>1, <2>5 DEF ReadLag
    <3> HIDE DEF new
    <3>3. run'[r].phase = "baseline" /\ run'[r].cases = x.cases /\ run'[r].case = new
      BY <2>2, <3>2 DEF Sessions
    <3>. QED BY <2>1, <3>1, <3>2, <3>3, SoundTurns
  <2>6. CASE ReadBaseline(r)
    <3> DEFINE new == [c EXCEPT !.p0 = IF c.p0 # NoPrice THEN c.p0 ELSE Baseline(c.signal)]
    <3>1. x.phase = "baseline" /\ kept'[r] = k
          /\ run'[r] = [x EXCEPT !.phase = "windows", !.case = new]
      BY <2>1, <2>6 DEF ReadBaseline
    <3>2. /\ new.signal = c.signal /\ new.stamps = c.stamps /\ new.prices = c.prices
          /\ new.lag = c.lag /\ new.first5 = c.first5 /\ new.first10 = c.first10
      BY <2>2 DEF Cases
    <3>3. Seen(snaps, c)
      BY <2>1, <3>1 DEF Sound
    <3> HIDE DEF new
    <3>4. Seen(snaps, new)
      BY <3>2, <3>3 DEF Seen
    <3>5. run'[r].phase = "windows" /\ run'[r].cases = x.cases /\ run'[r].case = new
      BY <2>2, <3>1 DEF Sessions
    <3>. QED BY <2>1, <3>1, <3>4, <3>5, SoundTurns
  <2>7. CASE ReadWindow(r)
    <3> DEFINE t == StampIn(c.signal, Windows[Len(c.stamps) + 1])
               p == PriceIn(c.signal, Windows[Len(c.stamps) + 1])
               new == [c EXCEPT !.stamps = Append(c.stamps, t), !.prices = Append(c.prices, p)]
    <3>1. /\ x.phase = "windows" /\ kept'[r] = k /\ Len(c.stamps) + 1 <= Len(Windows)
          /\ run'[r] = [x EXCEPT !.case = new]
      BY <2>1, <2>7 DEF ReadWindow
    <3>2. Seen(snaps, c) /\ c.signal \in Signals
      BY <2>1, <3>1 DEF Sound, AboutSignal, Building
    <3>3. Seen(snaps, new)
      <4>1. t = StampIn(c.signal, Windows[Len(c.stamps) + 1])
            /\ p = PriceIn(c.signal, Windows[Len(c.stamps) + 1])
        OBVIOUS
      <4> HIDE DEF t, p
      <4>. QED BY <2>2, <3>1, <3>2, <4>1, SeenWindow
    <3> HIDE DEF new
    <3>4. run'[r].phase = "windows" /\ run'[r].cases = x.cases /\ run'[r].case = new
      BY <2>2, <3>1 DEF Sessions
    <3>. QED BY <2>1, <3>1, <3>3, <3>4, SoundTurns
  <2>8. CASE ReadMoves(r)
    <3>1. /\ x.phase = "windows" /\ kept'[r] = k
          /\ run'[r] = [x EXCEPT !.phase = "record", !.case = Filled(c)]
      BY <2>1, <2>8 DEF ReadMoves
    <3>2. Seen(snaps, c) /\ c.signal \in Signals
      BY <2>1, <3>1 DEF Sound, AboutSignal, Building
    <3>3. CaseCoheres(Filled(c))
      BY <2>2, <3>2, FilledCoheres
    <3>4. run'[r].phase = "record" /\ run'[r].cases = x.cases /\ run'[r].case = Filled(c)
      BY <2>2, <3>1 DEF Sessions
    <3>. QED BY <2>1, <3>1, <3>3, <3>4, SoundTurns
  <2>9. CASE Record(r) \/ RecordFails(r)
    <3>1. PICK well \in BOOLEAN, events \in SUBSET Events :
            run' = [run EXCEPT ![r] = Recorded(x, well, events)]
      BY <2>9, RecordStep
    <3>2. x.phase = "record" /\ kept'[r] = k
      BY <2>9, RecordStep
    <3>3. run'[r] = Recorded(x, well, events)
      BY <2>1, <3>1
    <3>4. run'[r].phase = "next" /\ run'[r].cases = x.cases \cup {c}
      BY <2>2, <3>3 DEF Recorded, Sessions
    <3>5. CaseCoheres(c)
      BY <2>1, <3>2 DEF Sound
    <3>. QED BY <2>1, <3>2, <3>4, <3>5, SoundTurns
  <2>10. CASE GiveUp(r) \/ Kill(r)
    <3>1. /\ run'[r].phase \in {"fail", "end"} /\ run'[r].cases = {} /\ kept'[r] = k
      BY <2>1, <2>10 DEF GiveUp, Kill, Ended, Fresh
    <3>. QED BY <2>1, <3>1, SoundTurns
  <2>11. CASE FinishRun(r) \/ Fail(r)
    <3>1. /\ run'[r].phase = "end" /\ run'[r].cases = {} /\ kept'[r].cases = x.cases
      <4>1. run'[r] = Ended
        BY <2>1, <2>11 DEF FinishRun, Fail
      <4>2. FinishRun(r) => kept'[r].cases = x.cases
        BY <2>1, <2>2 DEF FinishRun, RunRows
      <4>3. Fail(r) => kept'[r].cases = x.cases
        BY <2>1, <2>2 DEF Fail, RunRows
      <4>4. kept'[r].cases = x.cases
        BY <2>11, <4>2, <4>3
      <4>. QED BY <4>1, <4>4 DEF Ended, Fresh
    <3>. QED BY <2>1, <3>1, SoundTurns
  <2>. QED BY <1>2, <2>3, <2>4, <2>5, <2>6, <2>7, <2>8, <2>9, <2>10, <2>11 DEF Replay
<1>3. ASSUME NEW r \in Runs, Replay(r) PROVE SoundInv'
  <2>1. snaps' = snaps
    BY <1>3 DEF Replay, vars
  <2>2. \A q \in Runs : q # r => Sound(snaps, run'[q], kept'[q])
    BY <1>3, OtherRuns DEF SoundInv
  <2>. QED BY <1>2, <1>3, <2>1, <2>2 DEF SoundInv
<1>. QED BY <1>1, <1>3 DEF ReplayNext

\* The figures of every committed case agree, for any windows and any number of snapshots and
\* backfills that come between its queries.
THEOREM FiguresAgreeHolds == ReplaySpec => []FiguresAgree
<1>1. TypeOK /\ CoherentInv /\ ReplayTypeInv /\ TidyInv /\ SoundInv
        /\ [ReplayNext]_<<vars, replayVars>>
      => TypeOK' /\ CoherentInv' /\ ReplayTypeInv' /\ TidyInv' /\ SoundInv'
  <2>. SUFFICES ASSUME TypeOK, CoherentInv, ReplayTypeInv, TidyInv, SoundInv,
                       [ReplayNext]_<<vars, replayVars>>
                PROVE  TypeOK' /\ CoherentInv' /\ ReplayTypeInv' /\ TidyInv' /\ SoundInv'
    OBVIOUS
  <2>1. [Next]_vars
    BY WorldOrReplay
  <2>2. TypeOK' /\ Sources
    BY <2>1, TypeStep, StepSources
  <2>3. CoherentInv'
    BY <2>2, CoherentStep
  <2>4. ReplayTypeInv' /\ TidyInv'
    BY ReplayTypeStep, TidyStep
  <2>5. SoundInv'
    BY SoundStep
  <2>. QED BY <2>2, <2>3, <2>4, <2>5
<1>2. ReplayInit => TypeOK /\ CoherentInv /\ ReplayTypeInv /\ TidyInv /\ SoundInv
  BY ReplayTypeInit, CoherentInit, TidyInit, SoundInit DEF ReplayInit
<1>3. SoundInv => FiguresAgree
  BY DEF SoundInv, Sound, FiguresAgree
<1>. QED BY <1>1, <1>2, <1>3, PTL DEF ReplaySpec
===============================================================================
