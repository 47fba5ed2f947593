------------------------------ MODULE AdminProofs ------------------------------
(***************************************************************************)
(* What the reset removes and keeps, for every schema of rows, every set   *)
(* of jobs and every number of crashes.                                    *)
(***************************************************************************)
EXTENDS AdminReset, FiniteSetTheorems, SequenceTheorems, WellFoundedInduction, TLAPS

\* Induction, as the provers can use it: a set of naturals that has a member has a least one.
LEMMA LeastNatural ==
  ASSUME NEW T, T \subseteq Nat, T # {}
  PROVE  \E n \in T : \A m \in T : n <= m
<1>. DEFINE R == OpToRel(<, Nat)
<1>1. IsWellFoundedOn(R, Nat)
  BY NatLessThanWellFounded
<1>. HIDE DEF R
<1>2. PICK n \in T : \A m \in T : ~(<<m, n>> \in R)
  BY <1>1, WFMin
<1>3. ASSUME NEW m \in T PROVE n <= m
  <2>1. <<m, n>> \notin R
    BY <1>2
  <2>2. <<m, n>> \in Nat \X Nat
    OBVIOUS
  <2>3. ~(m < n)
    BY <2>1, <2>2 DEF R, OpToRel
  <2>. QED  BY <2>3
<1>. QED  BY <1>3

--------------------------------------------------------------------------------
(* The statements, the schema and the scopes.                               *)

Deleted == {"lag_score_snapshots", "lag_threshold_crossings", "signal_drift_windows",
            "backtest_event_logs", "backtest_cases", "backtest_runs", "signal_metrics",
            "market_lag_scores", "lag_measurements", "paper_trades", "news_signals",
            "price_snapshots", "news_articles"}

LEMMA Joined ==
  ASSUME NEW S, NEW s \in Seq(S), NEW t \in Seq(S)
  PROVE  /\ s \o t \in Seq(S) /\ Len(s \o t) = Len(s) + Len(t)
         /\ \A i \in 1..Len(s) : (s \o t)[i] = s[i]
         /\ \A i \in 1..Len(t) : (s \o t)[Len(s) + i] = t[i]
<1>1. Len(s) \in Nat /\ Len(t) \in Nat
  OBVIOUS
<1>2. /\ s \o t \in Seq(S) /\ Len(s \o t) = Len(s) + Len(t)
      /\ \A i \in 1..Len(s) + Len(t) : (s \o t)[i] = IF i <= Len(s) THEN s[i] ELSE t[i - Len(s)]
  BY ConcatProperties
<1>3. ASSUME NEW i \in 1..Len(s) PROVE (s \o t)[i] = s[i]
  BY <1>1, <1>2
<1>4. ASSUME NEW i \in 1..Len(t) PROVE (s \o t)[Len(s) + i] = t[i]
  <2>1. Len(s) + i \in 1..Len(s) + Len(t) /\ ~(Len(s) + i <= Len(s)) /\ (Len(s) + i) - Len(s) = i
    BY <1>1
  <2>. QED  BY <1>2, <2>1
<1>. QED  BY <1>2, <1>3, <1>4

\* The statements of the two larger scopes, one by one.
LEMMA StatementsAre ==
  ASSUME NEW sc \in {"pipeline", "full"}
  PROVE  /\ Statements(sc) \in Seq(Deleted) /\ Len(Statements(sc)) = 13
         /\ Statements(sc)[1] = "lag_score_snapshots" /\ Statements(sc)[2] = "lag_threshold_crossings"
         /\ Statements(sc)[3] = "signal_drift_windows" /\ Statements(sc)[4] = "backtest_event_logs"
         /\ Statements(sc)[5] = "backtest_cases" /\ Statements(sc)[6] = "backtest_runs"
         /\ Statements(sc)[7] = "signal_metrics" /\ Statements(sc)[8] = "market_lag_scores"
         /\ Statements(sc)[9] = "lag_measurements" /\ Statements(sc)[10] = "paper_trades"
         /\ Statements(sc)[11] = "news_signals" /\ Statements(sc)[12] = "price_snapshots"
         /\ Statements(sc)[13] = "news_articles"
<1>. DEFINE a == Analytics
            one == <<"paper_trades">>
            b == a \o one
            st == b \o PipelineData
<1>1. Statements(sc) = st
  BY DEF Statements
<1>2. a \in Seq(Deleted) /\ Len(a) = 9
  BY DEF Analytics, Deleted
<1>2a. a \in Seq(Deleted)
  BY <1>2
<1>3. /\ a[1] = "lag_score_snapshots" /\ a[2] = "lag_threshold_crossings"
      /\ a[3] = "signal_drift_windows" /\ a[4] = "backtest_event_logs" /\ a[5] = "backtest_cases"
      /\ a[6] = "backtest_runs" /\ a[7] = "signal_metrics" /\ a[8] = "market_lag_scores"
      /\ a[9] = "lag_measurements"
  BY DEF Analytics
<1>4. one \in Seq(Deleted) /\ Len(one) = 1 /\ one[1] = "paper_trades"
  BY DEF Deleted
<1>4a. one \in Seq(Deleted)
  BY <1>4
<1>5. /\ PipelineData \in Seq(Deleted) /\ Len(PipelineData) = 3
      /\ PipelineData[1] = "news_signals" /\ PipelineData[2] = "price_snapshots"
      /\ PipelineData[3] = "news_articles"
  BY DEF PipelineData, Deleted
<1>. HIDE DEF a, one
<1>6. /\ b \in Seq(Deleted) /\ Len(b) = 10
      /\ \A i \in 1..9 : b[i] = a[i]
      /\ \A i \in 1..1 : b[9 + i] = one[i]
  <2>1. /\ a \o one \in Seq(Deleted) /\ Len(a \o one) = Len(a) + Len(one)
        /\ \A i \in 1..Len(a) : (a \o one)[i] = a[i]
        /\ \A i \in 1..Len(one) : (a \o one)[Len(a) + i] = one[i]
    BY <1>2a, <1>4a, Joined
  <2>. QED  BY <1>2, <1>4, <2>1
<1>. HIDE DEF b
<1>7. /\ b[1] = a[1] /\ b[2] = a[2] /\ b[3] = a[3] /\ b[4] = a[4] /\ b[5] = a[5] /\ b[6] = a[6]
      /\ b[7] = a[7] /\ b[8] = a[8] /\ b[9] = a[9] /\ b[10] = one[1]
  <2>1. b[9 + 1] = one[1]
    BY <1>6
  <2>. QED  BY <1>6, <2>1
<1>7a. b \in Seq(Deleted) /\ PipelineData \in Seq(Deleted)
  BY <1>5, <1>6
<1>7b. /\ st \in Seq(Deleted) /\ Len(st) = Len(b) + Len(PipelineData)
       /\ \A i \in 1..Len(b) : st[i] = b[i]
       /\ \A i \in 1..Len(PipelineData) : st[Len(b) + i] = PipelineData[i]
  BY <1>7a, Joined
<1>. HIDE DEF st
<1>8. /\ st \in Seq(Deleted) /\ Len(st) = 13
      /\ \A i \in 1..10 : st[i] = b[i]
      /\ \A i \in 1..3 : st[10 + i] = PipelineData[i]
  BY <1>5, <1>6, <1>7b
<1>9. /\ st[1] = b[1] /\ st[2] = b[2] /\ st[3] = b[3] /\ st[4] = b[4] /\ st[5] = b[5]
      /\ st[6] = b[6] /\ st[7] = b[7] /\ st[8] = b[8] /\ st[9] = b[9] /\ st[10] = b[10]
  BY <1>8
<1>10. /\ st[11] = PipelineData[1] /\ st[12] = PipelineData[2] /\ st[13] = PipelineData[3]
  <2>1. st[10 + 1] = PipelineData[1] /\ st[10 + 2] = PipelineData[2] /\ st[10 + 3] = PipelineData[3]
    BY <1>8
  <2>. QED  BY <2>1
<1>. QED  BY <1>1, <1>3, <1>4, <1>5, <1>7, <1>8, <1>9, <1>10

LEMMA TradesStatement ==
  Statements("trades") = <<"paper_trades">> /\ Len(Statements("trades")) = 1
    /\ Statements("trades")[1] = "paper_trades"
BY DEF Statements

LEMMA StatementsType ==
  ASSUME NEW sc \in Scopes
  PROVE  /\ Statements(sc) \in Seq(Deleted) /\ Len(Statements(sc)) \in 1..13
         /\ DOMAIN Statements(sc) = 1..Len(Statements(sc))
<1>1. CASE sc = "trades"
  <2>1. <<"paper_trades">> \in Seq(Deleted)
    BY DEF Deleted
  <2>2. Len(Statements(sc)) = 1 /\ Statements(sc) \in Seq(Deleted)
    BY <1>1, <2>1, TradesStatement
  <2>. QED  BY <2>2
<1>2. CASE sc # "trades"
  <2>1. Len(Statements(sc)) = 13 /\ Statements(sc) \in Seq(Deleted)
    BY <1>2, StatementsAre DEF Scopes
  <2>. QED  BY <2>1
<1>. QED  BY <1>1, <1>2

LEMMA StatementsDelete ==
  ASSUME NEW sc \in {"pipeline", "full"}
  PROVE  {Statements(sc)[k] : k \in DOMAIN Statements(sc)} = Deleted
<1>1. DOMAIN Statements(sc) = 1..13
  BY StatementsAre, StatementsType DEF Scopes
<1>2. ASSUME NEW k \in 1..13 PROVE Statements(sc)[k] \in Deleted
  <2>1. k \in {1, 2, 3, 4, 5, 6, 7, 8, 9, 10, 11, 12, 13}
    OBVIOUS
  <2>. QED  BY <2>1, StatementsAre DEF Deleted
<1>3. ASSUME NEW t \in Deleted PROVE \E k \in 1..13 : Statements(sc)[k] = t
  BY StatementsAre DEF Deleted
<1>. QED  BY <1>1, <1>2, <1>3

LEMMA FullTablesAre == FullTables = Deleted \cup Upstream
BY StatementsDelete DEF FullTables

\* Every table of the schema is deleted by a scope, preserved, or not named.
LEMMA TablesAre == Tables = Deleted \cup Upstream \cup Preserved \cup Unnamed
<1>1. ASSUME NEW k \in ForeignKeys PROVE k[1] \in Deleted \cup Upstream
  BY DEF ForeignKeys, NewsKeys, MarketKeys, MetricKeys, TradeKeys, LagKeys, BacktestKeys,
         Deleted, Upstream
<1>2. ASSUME NEW k \in ForeignKeys PROVE k[2] \in Deleted \cup Upstream \cup Preserved
  BY DEF ForeignKeys, NewsKeys, MarketKeys, MetricKeys, TradeKeys, LagKeys, BacktestKeys,
         Deleted, Upstream, Preserved
<1>. DEFINE K1 == {k[1] : k \in ForeignKeys}
            K2 == {k[2] : k \in ForeignKeys}
<1>3. \A t, u : <<t, u>> \in ForeignKeys => t \in K1 /\ u \in K2
  <2>. SUFFICES ASSUME NEW t, NEW u, <<t, u>> \in ForeignKeys PROVE t \in K1 /\ u \in K2
    OBVIOUS
  <2>1. <<t, u>>[1] = t /\ <<t, u>>[2] = u
    OBVIOUS
  <2>. QED  BY <2>1
<1>. HIDE DEF K1, K2
<1>4. {"news_articles", "news_signals", "resolution_source_mappings", "price_snapshots",
       "market_lag_scores", "news_sources", "markets"} \subseteq K1 \cup K2
  <2>1. /\ <<"news_articles", "news_sources">> \in ForeignKeys
        /\ <<"news_signals", "markets">> \in ForeignKeys
        /\ <<"resolution_source_mappings", "markets">> \in ForeignKeys
        /\ <<"price_snapshots", "markets">> \in ForeignKeys
        /\ <<"market_lag_scores", "markets">> \in ForeignKeys
    BY DEF ForeignKeys, NewsKeys, MarketKeys
  <2>. QED  BY <2>1, <1>3
<1>5. {"signal_metrics", "paper_trades", "lag_measurements", "lag_threshold_crossings",
       "signal_drift_windows", "lag_score_snapshots"} \subseteq K1 \cup K2
  <2>1. /\ <<"signal_metrics", "markets">> \in ForeignKeys
        /\ <<"paper_trades", "markets">> \in ForeignKeys
        /\ <<"lag_measurements", "markets">> \in ForeignKeys
        /\ <<"lag_threshold_crossings", "lag_measurements">> \in ForeignKeys
        /\ <<"signal_drift_windows", "lag_measurements">> \in ForeignKeys
        /\ <<"lag_score_snapshots", "lag_measurements">> \in ForeignKeys
    BY DEF ForeignKeys, MetricKeys, TradeKeys, LagKeys
  <2>. QED  BY <2>1, <1>3
<1>6. {"backtest_cases", "backtest_event_logs", "backtest_runs"} \subseteq K1 \cup K2
  <2>1. /\ <<"backtest_cases", "backtest_runs">> \in ForeignKeys
        /\ <<"backtest_event_logs", "backtest_runs">> \in ForeignKeys
    BY DEF ForeignKeys, BacktestKeys
  <2>. QED  BY <2>1, <1>3
<1>7. Deleted \cup Upstream \subseteq K1 \cup K2
  BY <1>4, <1>5, <1>6 DEF Deleted, Upstream
<1>8. K1 \cup K2 \subseteq Deleted \cup Upstream \cup Preserved
  BY <1>1, <1>2 DEF K1, K2
<1>9. Tables = K1 \cup K2 \cup Preserved \cup Unnamed
  BY DEF Tables, K1, K2
<1>. QED  BY <1>7, <1>8, <1>9

\* A statement deletes rows of its scope only.
LEMMA StatementsStay ==
  ASSUME NEW sc \in Scopes, NEW k \in DOMAIN Statements(sc),
         NEW r \in Rows, Of[r] = Statements(sc)[k]
  PROVE  r \in Covered(sc)
<1>1. CASE sc = "trades"
  BY <1>1, TradesStatement DEF Covered, In
<1>2. CASE sc # "trades"
  <2>1. sc \in {"pipeline", "full"}
    BY <1>2 DEF Scopes
  <2>2. Of[r] \in Deleted
    BY <2>1, StatementsDelete
  <2>3. Of[r] \in Tables \ (Preserved \cup Unnamed \cup Upstream)
    BY <2>2, TablesAre DEF Deleted, Preserved, Unnamed, Upstream
  <2>. QED  BY <2>1, <2>3 DEF Covered, In
<1>. QED  BY <1>1, <1>2

\* Every row of a scope is in the table of a statement, or of TRUNCATE.
LEMMA CoveredIsDeleted ==
  ASSUME NEW sc \in Scopes, NEW r \in Covered(sc)
  PROVE  /\ r \in Rows
         /\ sc # "full" => \E k \in DOMAIN Statements(sc) : Of[r] = Statements(sc)[k]
         /\ sc = "full" => Of[r] \in FullTables
<1>1. r \in Rows
  BY DEF Covered, In, Scopes
<1>2. CASE sc = "trades"
  <2>1. Of[r] = "paper_trades"
    BY <1>2 DEF Covered, In
  <2>2. 1 \in DOMAIN Statements(sc)
    BY <1>2, TradesStatement
  <2>. QED  BY <1>1, <1>2, <2>1, <2>2, TradesStatement
<1>3. CASE sc = "pipeline"
  <2>1. Of[r] \in Deleted
    BY <1>3, TablesAre DEF Covered, In
  <2>. QED  BY <1>1, <1>3, <2>1, StatementsDelete
<1>4. CASE sc = "full"
  <2>1. Of[r] \in Deleted \cup Upstream
    BY <1>4, TablesAre DEF Covered, In
  <2>. QED  BY <1>1, <1>4, <2>1, FullTablesAre
<1>. QED  BY <1>2, <1>3, <1>4 DEF Scopes

\* A table that refers to another is deleted before it, but for the trades of a backtest.
LEMMA ParentsLast ==
  ASSUME NEW sc \in Scopes, NEW k \in DOMAIN Statements(sc),
         NEW f \in ForeignKeys, f[2] = Statements(sc)[k],
         f # <<"paper_trades", "backtest_cases">>
  PROVE  \E n \in DOMAIN Statements(sc) : n < k /\ Statements(sc)[n] = f[1]
<1>1. CASE sc = "trades"
  <2>1. f[2] = "paper_trades"
    BY <1>1, TradesStatement
  <2>. QED
    BY <2>1 DEF ForeignKeys, NewsKeys, MarketKeys, MetricKeys, TradeKeys, LagKeys, BacktestKeys
<1>2. CASE sc # "trades"
  <2>. DEFINE st == Statements(sc)
  <2>1. sc \in {"pipeline", "full"}
    BY <1>2 DEF Scopes
  <2>2. DOMAIN st = 1..13
    BY <2>1, StatementsAre, StatementsType
  <2>3. f[2] \in Deleted
    BY <2>1, StatementsDelete
  <2>4. f[2] = "news_articles" => f[1] \in {"news_signals", "backtest_cases"}
    BY DEF ForeignKeys, NewsKeys, MarketKeys, MetricKeys, TradeKeys, LagKeys, BacktestKeys
  <2>5. f[2] = "news_signals"
          => f[1] \in {"signal_metrics", "paper_trades", "lag_measurements", "backtest_cases"}
    BY DEF ForeignKeys, NewsKeys, MarketKeys, MetricKeys, TradeKeys, LagKeys, BacktestKeys
  <2>6. f[2] = "lag_measurements"
          => f[1] \in {"lag_threshold_crossings", "signal_drift_windows", "lag_score_snapshots",
                       "backtest_cases"}
    BY DEF ForeignKeys, NewsKeys, MarketKeys, MetricKeys, TradeKeys, LagKeys, BacktestKeys
  <2>7. f[2] = "backtest_runs" => f[1] \in {"backtest_cases", "backtest_event_logs"}
    BY DEF ForeignKeys, NewsKeys, MarketKeys, MetricKeys, TradeKeys, LagKeys, BacktestKeys
  <2>8. f[2] = "backtest_cases" => f[1] = "backtest_event_logs"
    BY DEF ForeignKeys, NewsKeys, MarketKeys, MetricKeys, TradeKeys, LagKeys, BacktestKeys
  <2>9. f[2] \in {"news_articles", "news_signals", "lag_measurements", "backtest_runs",
                  "backtest_cases"}
    BY <2>3 DEF Deleted, ForeignKeys, NewsKeys, MarketKeys, MetricKeys, TradeKeys, LagKeys,
         BacktestKeys
  <2>10. /\ st[1] = "lag_score_snapshots" /\ st[2] = "lag_threshold_crossings"
         /\ st[3] = "signal_drift_windows" /\ st[4] = "backtest_event_logs"
         /\ st[5] = "backtest_cases" /\ st[6] = "backtest_runs" /\ st[7] = "signal_metrics"
         /\ st[8] = "market_lag_scores" /\ st[9] = "lag_measurements" /\ st[10] = "paper_trades"
         /\ st[11] = "news_signals" /\ st[12] = "price_snapshots" /\ st[13] = "news_articles"
    BY <2>1, StatementsAre
  <2>11. f[2] = st[k]
    OBVIOUS
  <2>. HIDE DEF st
  <2>12. k \in {1, 2, 3, 4, 5, 6, 7, 8, 9, 10, 11, 12, 13}
    BY <2>2 DEF st
  <2>13. k \in {5, 6, 9, 11, 13}
    BY <2>9, <2>10, <2>11, <2>12
  <2>14. \E n \in {1, 2, 3, 4, 5, 7, 9, 10, 11} : n < k /\ st[n] = f[1]
    BY <2>4, <2>5, <2>6, <2>7, <2>8, <2>10, <2>11, <2>13
  <2>. QED  BY <2>2, <2>14 DEF st
<1>. QED  BY <1>1, <1>2

\* TRUNCATE ... CASCADE reaches the tables it names and no other: whatever refers to one of them is
\* one of them.
LEMMA CascadeIsNamed == Cascade = FullTables
<1>. DEFINE Wider(ts) == ts \cup {k[1] : k \in {f \in ForeignKeys : f[2] \in ts}}
            named == [n \in Nat |-> FullTables]
            Reach[n \in Nat] == IF n = 0 THEN FullTables ELSE Wider(Reach[n - 1])
<1>1. ASSUME NEW k \in ForeignKeys PROVE k[1] \in FullTables
  <2>1. k[1] \in Deleted \cup Upstream
    BY DEF ForeignKeys, NewsKeys, MarketKeys, MetricKeys, TradeKeys, LagKeys, BacktestKeys,
           Deleted, Upstream
  <2>. QED  BY <2>1, FullTablesAre
<1>2. Wider(FullTables) = FullTables
  BY <1>1
<1>. HIDE DEF Wider
<1>3. named = [n \in Nat |-> IF n = 0 THEN FullTables ELSE Wider(named[n - 1])]
  <2>1. \A n \in Nat : named[n] = IF n = 0 THEN FullTables ELSE Wider(named[n - 1])
    BY <1>2
  <2>. QED  BY <2>1
<1>4. Reach = [n \in Nat |-> IF n = 0 THEN FullTables ELSE Wider(Reach[n - 1])]
  <2>. HIDE DEF named
  <2>. QED  BY <1>3
<1>5. Cascade = Reach[Cardinality(ForeignKeys)]
  BY DEF Cascade, Wider
<1>. HIDE DEF Reach
<1>6. \A n \in Nat : Reach[n] = FullTables
  <2>. DEFINE bad == {n \in Nat : Reach[n] # FullTables}
  <2>1. ASSUME bad # {} PROVE FALSE
    <3>1. PICK n \in bad : \A m \in bad : n <= m
      BY <2>1, LeastNatural
    <3>2. CASE n = 0
      BY <1>4, <3>2
    <3>3. CASE n # 0
      <4>1. n - 1 \in Nat /\ n - 1 \notin bad
        BY <3>1, <3>3
      <4>2. Reach[n] = Wider(Reach[n - 1])
        BY <1>4, <3>3
      <4>. QED  BY <1>2, <4>1, <4>2
    <3>. QED  BY <3>2, <3>3
  <2>. QED  BY <2>1
<1>7. IsFiniteSet(ForeignKeys)
  <2>. DEFINE Both == Deleted \cup Upstream \cup {"bias_hypotheses"}
  <2>1. IsFiniteSet(Deleted)
    <3>. DEFINE st == Statements("full")
                f == [k \in 1..13 |-> st[k]]
    <3>1. Deleted = {st[k] : k \in 1..13}
      BY StatementsAre, StatementsType, StatementsDelete DEF Scopes
    <3>. HIDE DEF st
    <3>2. f \in Surjection(1..13, Deleted)
      BY <3>1 DEF Surjection
    <3>3. \A m, n \in Int : IsFiniteSet(m..n)
      BY FS_Interval
    <3>4. IsFiniteSet(1..13)
      <4>. DEFINE first == 1
                  last == 13
      <4>1. first \in Int /\ last \in Int
        OBVIOUS
      <4>. HIDE DEF first, last
      <4>2. IsFiniteSet(first..last)
        BY <3>3, <4>1
      <4>. QED  BY <4>2 DEF first, last
    <3>. QED  BY <3>2, <3>4, FS_Surjection
  <2>2. IsFiniteSet({"resolution_source_mappings"}) /\ IsFiniteSet({"markets"})
          /\ IsFiniteSet({"news_sources"}) /\ IsFiniteSet({"bias_hypotheses"})
    BY FS_Singleton
  <2>3. IsFiniteSet({"resolution_source_mappings"} \cup {"markets"})
    BY <2>2, FS_Union
  <2>4. IsFiniteSet(({"resolution_source_mappings"} \cup {"markets"}) \cup {"news_sources"})
    BY <2>2, <2>3, FS_Union
  <2>5. Upstream = ({"resolution_source_mappings"} \cup {"markets"}) \cup {"news_sources"}
    BY DEF Upstream
  <2>6. IsFiniteSet(Deleted \cup Upstream)
    BY <2>1, <2>4, <2>5, FS_Union
  <2>7. IsFiniteSet(Both)
    BY <2>2, <2>6, FS_Union
  <2>8. ForeignKeys \subseteq Both \X Both
    BY DEF ForeignKeys, NewsKeys, MarketKeys, MetricKeys, TradeKeys, LagKeys, BacktestKeys,
           Deleted, Upstream
  <2>9. IsFiniteSet(Both \X Both)
    BY <2>7, FS_Product
  <2>. QED  BY <2>8, <2>9, FS_Subset
<1>8. Cardinality(ForeignKeys) \in Nat
  BY <1>7, FS_CardinalityType
<1>. QED  BY <1>5, <1>6, <1>8

--------------------------------------------------------------------------------
(* The locks of the jobs.                                                   *)

\* What a job has written so far refers to rows that are there, and that the reset has not taken.
LockOf(j) ==
  /\ at[j] \in Nat /\ at[j] <= Len(Program[j]) + 1
  /\ Locked(j) \cap gone = {}
  /\ Locked(j) \subseteq db \cup Inserted(j)

LockInv == /\ at \in [Jobs -> Nat] /\ \A j \in Jobs : LockOf(j)

LEMMA ProgramType ==
  ASSUME NEW j \in Jobs
  PROVE  /\ Len(Program[j]) \in Nat /\ DOMAIN Program[j] = 1..Len(Program[j])
         /\ \A n \in 1..Len(Program[j]) :
              Program[j][n] \in [op : {"insert", "update"}, row : Rows]
<1>. DEFINE S == [op : {"insert", "update"}, row : Rows]
<1>1. Program[j] \in Seq(S)
  BY ResetAssumption
<1>. HIDE DEF S
<1>2. /\ Len(Program[j]) \in Nat /\ DOMAIN Program[j] = 1..Len(Program[j])
      /\ \A n \in 1..Len(Program[j]) : Program[j][n] \in S
  BY <1>1
<1>. QED  BY <1>2 DEF S

LEMMA OwnRows ==
  ASSUME NEW j \in Jobs
  PROVE  Own(j) \subseteq Rows
BY ProgramType DEF Own, Writes

\* A job that is not running, or has only begun, holds no lock.
LEMMA NoLocks ==
  ASSUME NEW j \in Jobs
  PROVE  /\ at[j] \in {0, 1} => Locked(j) = {}
         /\ at'[j] \in {0, 1} => Locked(j)' = {}
<1>1. Writes(j, 1 - 1) = {}
  BY DEF Writes
<1>2. at[j] \in {0, 1} => Locked(j) = {}
  BY <1>1 DEF Locked
<1>3. at'[j] \in {0, 1} => Locked(j)' = {}
  BY <1>1 DEF Locked
<1>. QED  BY <1>2, <1>3

LEMMA SameLocks ==
  ASSUME NEW j \in Jobs, at'[j] = at[j]
  PROVE  Locked(j)' = Locked(j) /\ Inserted(j)' = Inserted(j)
BY DEF Locked, Inserted

\* A write adds what it needs.
LEMMA MoreLocks ==
  ASSUME NEW j \in Jobs, at[j] \in 1..Len(Program[j]), at'[j] = at[j] + 1
  PROVE  /\ Locked(j)' = Locked(j) \cup Needs(Program[j][at[j]])
         /\ Inserted(j) \subseteq Inserted(j)'
<1>1. Len(Program[j]) \in Nat
  BY ProgramType
<1>2. Writes(j, at[j]) = Writes(j, at[j] - 1) \cup {Program[j][at[j]]}
  BY <1>1 DEF Writes
<1>3. at'[j] - 1 = at[j] /\ at[j] # 0 /\ at'[j] # 0
  BY <1>1
<1>4. Locked(j)' = UNION {Needs(w) : w \in Writes(j, at[j])}
  BY <1>3 DEF Locked
<1>5. Locked(j) = UNION {Needs(w) : w \in Writes(j, at[j] - 1)}
  BY <1>3 DEF Locked
<1>6. Inserted(j)' = {w.row : w \in {v \in Writes(j, at[j]) : v.op = "insert"}}
  BY <1>3 DEF Inserted
<1>7. Inserted(j) = {w.row : w \in {v \in Writes(j, at[j] - 1) : v.op = "insert"}}
  BY DEF Inserted
<1>. QED  BY <1>2, <1>4, <1>5, <1>6, <1>7

\* At its commit a job has inserted all its rows, and locked all that they refer to.
LEMMA AllLocks ==
  ASSUME NEW j \in Jobs, at[j] = Len(Program[j]) + 1
  PROVE  /\ Inserted(j) = Own(j)
         /\ \A r \in Own(j) : Refs[r] \subseteq Locked(j)
<1>1. Len(Program[j]) \in Nat
  BY ProgramType
<1>2. at[j] - 1 = Len(Program[j]) /\ at[j] # 0
  BY <1>1
<1>3. Inserted(j) = Own(j)
  BY <1>2 DEF Inserted, Own
<1>4. ASSUME NEW r \in Own(j) PROVE Refs[r] \subseteq Locked(j)
  <2>1. PICK w \in Writes(j, Len(Program[j])) : w.op = "insert" /\ w.row = r
    BY DEF Own
  <2>2. Needs(w) = Refs[r]
    BY <2>1 DEF Needs
  <2>. QED  BY <1>2, <2>2 DEF Locked
<1>. QED  BY <1>3, <1>4

\* The reset has ended: no row is taken.
LEMMA EndType ==
  ASSUME NEW result, End(result)
  PROVE  /\ gone' = {} /\ scan' = {} /\ before' = {} /\ next' = 0 /\ started' = {}
         /\ phase' = "idle" /\ outcome' = result /\ scope' = scope
BY DEF End

LEMMA LockStep ==
  ASSUME LockInv, [Next]_vars
  PROVE  LockInv'
<1>. USE DEF LockInv
<1>1. CASE UNCHANGED vars
  BY <1>1 DEF vars, jobVars, resetVars, LockOf, Locked, Inserted
<1>2. ASSUME NEW j \in Jobs, Begin(j) PROVE LockInv'
  <2>1. at' = [at EXCEPT ![j] = 1] /\ db' = db /\ gone' = gone
    BY <1>2 DEF Begin, resetVars
  <2>2. LockOf(j)'
    BY <2>1, NoLocks, ProgramType DEF LockOf
  <2>3. ASSUME NEW i \in Jobs, i # j PROVE LockOf(i)'
    BY <2>1, <2>3, SameLocks DEF LockOf
  <2>. QED  BY <2>1, <2>2, <2>3
<1>3. ASSUME NEW j \in Jobs, Do(j) PROVE LockInv'
  <2>1. at' = [at EXCEPT ![j] = at[j] + 1] /\ db' = db /\ gone' = gone
    BY <1>3 DEF Do, resetVars
  <2>2. /\ at[j] \in 1..Len(Program[j])
        /\ Needs(Program[j][at[j]]) \cap gone = {}
        /\ Needs(Program[j][at[j]]) \subseteq db \cup Inserted(j)
    BY <1>3, ProgramType DEF Do, Blocked, Writing
  <2>3. at'[j] = at[j] + 1 /\ at'[j] \in Nat /\ at'[j] <= Len(Program[j]) + 1
    BY <2>1, <2>2, ProgramType
  <2>4. LockOf(j)'
    BY <2>1, <2>2, <2>3, MoreLocks DEF LockOf
  <2>5. ASSUME NEW i \in Jobs, i # j PROVE LockOf(i)'
    BY <2>1, <2>5, SameLocks DEF LockOf
  <2>. QED  BY <2>1, <2>3, <2>4, <2>5
<1>4. ASSUME NEW j \in Jobs, at' = [at EXCEPT ![j] = 0], db \subseteq db', gone' = gone
      PROVE LockInv'
  <2>1. LockOf(j)'
    BY <1>4, NoLocks, ProgramType DEF LockOf
  <2>2. ASSUME NEW i \in Jobs, i # j PROVE LockOf(i)'
    BY <1>4, <2>2, SameLocks DEF LockOf
  <2>. QED  BY <1>4, <2>1, <2>2
<1>5. ASSUME NEW j \in Jobs, Fail(j) \/ Commit(j) PROVE LockInv'
  BY <1>4, <1>5 DEF Fail, Commit, Idle, resetVars
<1>6. ASSUME at' = at, db \subseteq db', gone' = gone \/ gone' = {} PROVE LockInv'
  <2>1. ASSUME NEW i \in Jobs PROVE LockOf(i)'
    BY <1>6, <2>1, SameLocks DEF LockOf
  <2>. QED  BY <1>6, <2>1
<1>7. ASSUME NEW sc \in Scopes, Request(sc) PROVE LockInv'
  BY <1>6, <1>7 DEF Request
<1>8. CASE Scan
  BY <1>6, <1>8 DEF Scan, jobVars
<1>9. CASE Delete
  <2>1. at' = at /\ db' = db /\ gone' = gone \cup scan /\ \A i \in Jobs : scan \cap Locked(i) = {}
    BY <1>9 DEF Delete, Waiting, jobVars
  <2>2. ASSUME NEW i \in Jobs PROVE LockOf(i)'
    BY <2>1, <2>2, SameLocks DEF LockOf
  <2>. QED  BY <2>1, <2>2
<1>10. CASE Refused \/ SeedFails
  BY <1>6, <1>10, EndType DEF Refused, SeedFails
<1>11. CASE Truncate
  <2>1. at' = at /\ db' = db /\ \A i \in Jobs : at[i] = 0
    BY <1>11 DEF Truncate, jobVars
  <2>2. ASSUME NEW i \in Jobs PROVE LockOf(i)'
    BY <2>1, NoLocks, ProgramType DEF LockOf
  <2>. QED  BY <2>1, <2>2
<1>12. CASE CommitReset
  <2>1. at' = at /\ db' = db \ gone /\ gone' = {}
    BY <1>12, EndType DEF CommitReset, jobVars
  <2>2. ASSUME NEW i \in Jobs PROVE LockOf(i)'
    BY <2>1, <2>2, SameLocks DEF LockOf
  <2>. QED  BY <2>1, <2>2
<1>13. CASE Seed
  BY <1>6, <1>13, EndType DEF Seed
<1>14. ASSUME NEW j \in Jobs, GivesWay(j) PROVE LockInv'
  <2>1. CASE Idle(j) /\ UNCHANGED <<started, resetVars>>
    BY <1>4, <1>14, <2>1 DEF GivesWay, Idle, resetVars
  <2>2. CASE End("deadlock") /\ UNCHANGED at
    BY <1>6, <1>14, <2>2, EndType DEF GivesWay
  <2>. QED  BY <1>14, <2>1, <2>2 DEF GivesWay
<1>15. CASE Crash
  <2>1. at' = [j \in Jobs |-> 0] /\ db' = db
    BY <1>15 DEF Crash
  <2>2. ASSUME NEW i \in Jobs PROVE LockOf(i)'
    BY <2>1, NoLocks, ProgramType DEF LockOf
  <2>. QED  BY <2>1, <2>2
<1>16. CASE Startup
  BY <1>6, <1>16 DEF Startup, jobVars, resetVars
<1>. QED
  BY <1>1, <1>2, <1>3, <1>5, <1>7, <1>8, <1>9, <1>10, <1>11, <1>12, <1>13, <1>14, <1>15, <1>16
     DEF Next, Job, Reset, BreakDeadlock, BreakTableDeadlock

--------------------------------------------------------------------------------
(* The statements of a reset, and what they have taken.                     *)

Deleting == phase \in {"scan", "delete", "truncate", "commit"}

\* Where a reset is.
PhaseInv ==
  /\ phase \in Phases /\ scope \in Scopes /\ next \in Nat
  /\ phase \in {"idle", "seed"} => gone = {}
  /\ phase # "delete" => scan = {}
  /\ next = 0 \/ next \in 1..Len(Statements(scope))
  /\ Deleting => next \in 1..Len(Statements(scope))
  /\ phase \in {"truncate", "commit"} => next = Len(Statements(scope))
  /\ Deleting => outcome = "none"
  /\ phase \in {"truncate", "seed"} => scope = "full"

\* What it has taken is in its scope, and nothing that stays refers to it.
GoneInv ==
  /\ gone \subseteq Covered(scope)
  /\ \A r \in db \ gone : Refs[r] \cap gone = {}
  /\ phase = "delete" => \A r \in scan : r \in Rows /\ Of[r] = Statements(scope)[next]

\* A statement that is over has taken all rows of its table that were there at the request.
Passed(k) == k < next \/ (phase \in {"truncate", "commit"} /\ k <= next)

BeforeInv ==
  Deleting =>
    /\ before \subseteq db
    /\ \A r \in before, k \in DOMAIN Statements(scope) :
         Of[r] = Statements(scope)[k] =>
           /\ Passed(k) => r \in gone
           /\ phase = "delete" /\ k = next => r \in gone \cup scan
    /\ phase = "commit" /\ scope = "full" =>
         \A r \in before : r \in Rows /\ Of[r] \in FullTables => r \in gone

\* What the jobs and a start do to the tables.
Adds == UNCHANGED resetVars /\ db \subseteq db'

LEMMA PhaseStep ==
  ASSUME PhaseInv, [Next]_vars
  PROVE  PhaseInv'
<1>. USE DEF PhaseInv, Deleting
<1>1. ASSUME UNCHANGED resetVars PROVE PhaseInv'
  BY <1>1 DEF resetVars
<1>2. CASE UNCHANGED vars
  BY <1>1, <1>2 DEF vars
<1>3. ASSUME NEW j \in Jobs, Begin(j) \/ Job(j) PROVE PhaseInv'
  BY <1>1, <1>3 DEF Begin, Job, Do, Fail, Commit
<1>4. ASSUME NEW result, End(result) PROVE PhaseInv'
  BY <1>4, EndType DEF Phases
<1>5. ASSUME NEW sc \in Scopes, Request(sc) PROVE PhaseInv'
  <2>1. Len(Statements(sc)) \in 1..13
    BY StatementsType
  <2>2. phase' = "scan" /\ scope' = sc /\ next' = 1 /\ outcome' = "none" /\ scan' = scan /\ scan = {}
    BY <1>5 DEF Request
  <2>3. 1 \in 1..Len(Statements(sc))
    <3>. DEFINE last == Len(Statements(sc))
    <3>. HIDE DEF last
    <3>1. last \in 1..13
      BY <2>1 DEF last
    <3>2. 1 \in 1..last
      BY <3>1
    <3>. QED  BY <3>2 DEF last
  <2>4. next' \in 1..Len(Statements(scope'))
    BY <2>2, <2>3
  <2>. QED  BY <2>2, <2>4 DEF Phases
<1>6. CASE Scan
  BY <1>6 DEF Scan, Phases
<1>7. CASE Delete
  <2>1. Len(Statements(scope)) \in 1..13 /\ next \in 1..Len(Statements(scope))
    BY <1>7, StatementsType DEF Delete
  <2>2. scan' = {} /\ scope' = scope /\ outcome' = outcome
    BY <1>7 DEF Delete
  <2>3. CASE next < Len(Statements(scope))
    BY <1>7, <2>1, <2>2, <2>3 DEF Delete, Phases
  <2>4. CASE ~(next < Len(Statements(scope)))
    <3>1. next' = next /\ next = Len(Statements(scope))
            /\ phase' = IF scope = "full" THEN "truncate" ELSE "commit"
      BY <1>7, <2>1, <2>4 DEF Delete
    <3>. QED  BY <1>7, <2>1, <2>2, <3>1 DEF Delete, Phases
  <2>. QED  BY <2>3, <2>4
<1>8. CASE Refused \/ Seed \/ SeedFails
  BY <1>4, <1>8 DEF Refused, Seed, SeedFails
<1>9. CASE Truncate
  BY <1>9 DEF Truncate, Phases
<1>10. CASE CommitReset
  <2>1. CASE scope = "full"
    BY <1>10, <2>1 DEF CommitReset, Phases
  <2>. QED  BY <1>4, <1>10, <2>1 DEF CommitReset
<1>11. ASSUME NEW j \in Jobs, GivesWay(j) PROVE PhaseInv'
  BY <1>1, <1>4, <1>11 DEF GivesWay
<1>12. CASE Crash
  BY <1>1, <1>4, <1>12 DEF Crash
<1>13. CASE Startup
  BY <1>1, <1>13 DEF Startup
<1>. QED
  BY <1>2, <1>3, <1>5, <1>6, <1>7, <1>8, <1>9, <1>10, <1>11, <1>12, <1>13
     DEF Next, Reset, BreakDeadlock, BreakTableDeadlock

--------------------------------------------------------------------------------

DataInv == db \subseteq Rows /\ Closed(db)

\* Sources refer to nothing.
LEMMA SourcesAreRoots ==
  ASSUME NEW r \in Sources
  PROVE  r \in Rows /\ Refs[r] = {}
<1>1. r \in Rows /\ Of[r] = "news_sources"
  BY DEF Sources, In
<1>2. \A p \in Refs[r] : <<Of[r], Of[p]>> \in ForeignKeys
  BY <1>1, ResetAssumption
<1>3. \A t : <<"news_sources", t>> \notin ForeignKeys
  BY DEF ForeignKeys, NewsKeys, MarketKeys, MetricKeys, TradeKeys, LagKeys, BacktestKeys
<1>. QED  BY <1>1, <1>2, <1>3

\* The references between the rows hold in every committed state.
LEMMA DataStep ==
  ASSUME DataInv, LockInv, GoneInv, [Next]_vars
  PROVE  DataInv'
<1>. USE DEF DataInv, Closed
<1>1. CASE db' = db
  BY <1>1
<1>2. ASSUME NEW j \in Jobs, Commit(j) PROVE DataInv'
  <2>1. at[j] = Len(Program[j]) + 1 /\ db' = db \cup Own(j)
    BY <1>2 DEF Commit
  <2>2. \A r \in Own(j) : Refs[r] \subseteq db \cup Own(j)
    BY <2>1, AllLocks DEF LockInv, LockOf
  <2>. QED  BY <2>1, <2>2, OwnRows
<1>3. CASE db' = db \cup Sources
  BY <1>3, SourcesAreRoots
<1>4. CASE CommitReset
  BY <1>4 DEF CommitReset, GoneInv
<1>. QED
  BY <1>1, <1>2, <1>3, <1>4 DEF Next, vars, Job, Reset, Begin, Do, Fail, Request, Scan, Delete, Refused,
     Truncate, Seed, SeedFails, BreakDeadlock, BreakTableDeadlock, GivesWay, Crash, Startup

LEMMA GoneStep ==
  ASSUME DataInv, LockInv, PhaseInv, GoneInv, [Next]_vars
  PROVE  GoneInv'
<1>. USE DEF GoneInv
<1>1. ASSUME NEW new, db' = db \cup new, UNCHANGED resetVars,
             \A r \in new : Refs[r] \cap gone = {}
      PROVE GoneInv'
  BY <1>1 DEF resetVars, Covered, In
<1>2. CASE UNCHANGED vars
  BY <1>1, <1>2 DEF vars, resetVars, Covered, In
<1>3. ASSUME NEW j \in Jobs, Begin(j) \/ Do(j) \/ Fail(j) PROVE GoneInv'
  BY <1>3 DEF Begin, Do, Fail, resetVars, Covered, In
<1>4. ASSUME NEW j \in Jobs, Commit(j) PROVE GoneInv'
  <2>1. at[j] = Len(Program[j]) + 1 /\ db' = db \cup Own(j) /\ UNCHANGED resetVars
    BY <1>4 DEF Commit
  <2>2. \A r \in Own(j) : Refs[r] \cap gone = {}
    BY <2>1, AllLocks DEF LockInv, LockOf
  <2>. QED  BY <1>1, <2>1, <2>2
<1>5. ASSUME phase' \in {"idle", "seed"}, gone' = {} PROVE GoneInv'
  BY <1>5
<1>6. ASSUME NEW result, End(result) PROVE GoneInv'
  BY <1>5, <1>6, EndType
<1>7. ASSUME NEW sc \in Scopes, Request(sc) PROVE GoneInv'
  BY <1>7 DEF Request, PhaseInv
<1>8. CASE Scan
  <2>1. \A r \in scan' : r \in Rows /\ Of[r] = Statements(scope)[next]
    BY <1>8 DEF Scan, DataInv
  <2>. QED  BY <1>8, <2>1 DEF Scan
<1>9. CASE Delete
  <2>1. /\ gone' = gone \cup scan /\ db' = db /\ scope' = scope /\ phase' # "delete"
        /\ StillReferenced = {}
    BY <1>9 DEF Delete, jobVars
  <2>2. scan \subseteq Covered(scope)
    <3>1. next \in DOMAIN Statements(scope) /\ scope \in Scopes
      BY <1>9, StatementsType DEF Delete, PhaseInv, Deleting
    <3>. QED  BY <1>9, <3>1, StatementsStay DEF Delete
  <2>3. ASSUME NEW r \in db' \ gone' PROVE Refs[r] \cap gone' = {}
    BY <2>1, <2>3 DEF StillReferenced
  <2>4. Covered(scope') = Covered(scope)
    BY <2>1
  <2>. QED  BY <2>1, <2>2, <2>3, <2>4
<1>10. CASE Refused \/ Seed \/ SeedFails
  BY <1>6, <1>10 DEF Refused, Seed, SeedFails
<1>11. CASE Truncate
  <2>1. /\ gone' = gone \cup (db \cap In(FullTables)) /\ db' = db /\ scope' = scope
        /\ phase' = "commit" /\ scope = "full"
    BY <1>11, CascadeIsNamed DEF Truncate, PhaseInv
  <2>2. ASSUME NEW r \in Rows, Of[r] \in FullTables PROVE r \in Covered("full")
    <3>1. Of[r] \in Deleted \cup Upstream
      BY <2>2, FullTablesAre
    <3>2. Of[r] \in Tables \ (Preserved \cup Unnamed)
      BY <3>1, TablesAre DEF Deleted, Upstream, Preserved, Unnamed
    <3>. QED  BY <2>2, <3>2 DEF Covered, In
  <2>3. ASSUME NEW r \in db' \ gone' PROVE Refs[r] \cap gone' = {}
    <3>1. r \in Rows /\ r \in db \ gone /\ Of[r] \notin FullTables
      BY <2>1, <2>3 DEF DataInv, In
    <3>2. ASSUME NEW p \in Refs[r], p \in Rows, Of[p] \in FullTables PROVE FALSE
      <4>1. <<Of[r], Of[p]>> \in ForeignKeys
        BY <3>1, ResetAssumption
      <4>2. Of[r] \in Deleted \cup Upstream
        BY <4>1 DEF ForeignKeys, NewsKeys, MarketKeys, MetricKeys, TradeKeys, LagKeys,
           BacktestKeys, Deleted, Upstream
      <4>. QED  BY <3>1, <4>2, FullTablesAre
    <3>. QED  BY <2>1, <3>1, <3>2 DEF In
  <2>4. gone' \subseteq Covered(scope')
    BY <2>1, <2>2 DEF In
  <2>. QED  BY <2>1, <2>3, <2>4
<1>12. CASE CommitReset
  <2>1. CASE scope = "full"
    BY <1>5, <1>12, <2>1 DEF CommitReset
  <2>. QED  BY <1>6, <1>12, <2>1 DEF CommitReset
<1>13. ASSUME NEW j \in Jobs, GivesWay(j) PROVE GoneInv'
  <2>1. CASE End("deadlock")
    BY <1>6, <2>1
  <2>. QED  BY <1>13, <2>1 DEF GivesWay, resetVars
<1>14. CASE Crash
  <2>1. CASE phase = "idle"
    BY <1>14, <2>1 DEF Crash, resetVars
  <2>. QED  BY <1>6, <1>14, <2>1 DEF Crash
<1>15. CASE Startup
  <2>1. db' = db \cup Sources /\ UNCHANGED resetVars
    BY <1>15 DEF Startup
  <2>. QED  BY <1>1, <2>1, SourcesAreRoots
<1>. QED
  BY <1>2, <1>3, <1>4, <1>7, <1>8, <1>9, <1>10, <1>11, <1>12, <1>13, <1>14, <1>15
     DEF Next, Job, Reset, BreakDeadlock, BreakTableDeadlock

LEMMA BeforeStep ==
  ASSUME DataInv, PhaseInv, BeforeInv, [Next]_vars
  PROVE  BeforeInv'
<1>. USE DEF BeforeInv
<1>1. ASSUME db \subseteq db', UNCHANGED resetVars PROVE BeforeInv'
  BY <1>1 DEF resetVars, Deleting, Passed
<1>2. ASSUME phase' \in {"idle", "seed"} PROVE BeforeInv'
  BY <1>2 DEF Deleting
<1>3. CASE UNCHANGED vars
  BY <1>1, <1>3 DEF vars
<1>4. ASSUME NEW j \in Jobs, Begin(j) \/ Job(j) PROVE BeforeInv'
  BY <1>1, <1>4 DEF Begin, Job, Do, Fail, Commit
<1>5. ASSUME NEW result, End(result) PROVE BeforeInv'
  BY <1>2, <1>5, EndType
<1>6. ASSUME NEW sc \in Scopes, Request(sc) PROVE BeforeInv'
  <2>1. phase' = "scan" /\ next' = 1 /\ before' = db /\ db' = db /\ scope' = sc
    BY <1>6 DEF Request
  <2>2. \A k \in DOMAIN Statements(sc) : k \in Nat /\ k >= 1
    BY StatementsType
  <2>3. \A k \in DOMAIN Statements(sc) : ~Passed(k)'
    BY <2>1, <2>2 DEF Passed
  <2>. QED  BY <2>1, <2>3 DEF Deleting
<1>7. CASE Scan
  <2>1. /\ phase = "scan" /\ phase' = "delete" /\ UNCHANGED <<db, scope, next, gone, before>>
        /\ scan' = {r \in db \ gone : Of[r] = Statements(scope)[next]}
    BY <1>7 DEF Scan
  <2>2. before \subseteq db
    BY <2>1 DEF Deleting
  <2>3. ASSUME NEW r \in before, NEW k \in DOMAIN Statements(scope), Of[r] = Statements(scope)[k]
        PROVE  /\ Passed(k)' => r \in gone'
               /\ k = next' => r \in gone' \cup scan'
    <3>1. Passed(k)' => Passed(k)
      BY <2>1 DEF Passed
    <3>2. Passed(k) => r \in gone
      BY <2>1, <2>3 DEF Deleting
    <3>. QED  BY <2>1, <2>2, <2>3, <3>1, <3>2
  <2>. QED  BY <2>1, <2>2, <2>3
<1>8. CASE Delete
  <2>1. /\ phase = "delete" /\ UNCHANGED <<db, scope, before>> /\ gone' = gone \cup scan
        /\ \/ phase' = "scan" /\ next' = next + 1
           \/ phase' = "truncate" /\ scope = "full" /\ next' = next
           \/ phase' = "commit" /\ scope # "full" /\ next' = next
    BY <1>8 DEF Delete
  <2>2. next \in Nat
    BY DEF PhaseInv
  <2>3. ASSUME NEW r \in before, NEW k \in DOMAIN Statements(scope), Of[r] = Statements(scope)[k],
               Passed(k)'
        PROVE  r \in gone'
    <3>1. k \in Nat
      BY StatementsType DEF PhaseInv
    <3>2. Passed(k) \/ k = next
      BY <2>1, <2>2, <2>3, <3>1 DEF Passed
    <3>3. Passed(k) => r \in gone
      BY <2>1, <2>3 DEF Deleting
    <3>4. k = next => r \in gone \cup scan
      BY <2>1, <2>3 DEF Deleting
    <3>. QED  BY <2>1, <3>2, <3>3, <3>4
  <2>4. before' \subseteq db'
    BY <2>1 DEF Deleting
  <2>. QED  BY <2>1, <2>3, <2>4
<1>9. CASE Refused \/ Seed \/ SeedFails
  BY <1>5, <1>9 DEF Refused, Seed, SeedFails
<1>10. CASE Truncate
  <2>1. /\ phase = "truncate" /\ phase' = "commit" /\ UNCHANGED <<db, scope, next, before>>
        /\ gone' = gone \cup (db \cap In(FullTables))
    BY <1>10, CascadeIsNamed DEF Truncate
  <2>2. before \subseteq db
    BY <2>1 DEF Deleting
  <2>3. ASSUME NEW r \in before, NEW k \in DOMAIN Statements(scope), Of[r] = Statements(scope)[k],
               Passed(k)'
        PROVE  r \in gone'
    BY <2>1, <2>3 DEF Passed, Deleting
  <2>4. ASSUME NEW r \in before, r \in Rows, Of[r] \in FullTables PROVE r \in gone'
    BY <2>1, <2>2, <2>4 DEF In
  <2>. QED  BY <2>1, <2>2, <2>3, <2>4
<1>11. CASE CommitReset
  <2>1. CASE scope = "full"
    BY <1>2, <1>11, <2>1 DEF CommitReset
  <2>. QED  BY <1>5, <1>11, <2>1 DEF CommitReset
<1>12. ASSUME NEW j \in Jobs, GivesWay(j) PROVE BeforeInv'
  BY <1>1, <1>5, <1>12 DEF GivesWay
<1>13. CASE Crash
  <2>1. CASE phase = "idle"
    BY <1>1, <1>13, <2>1 DEF Crash
  <2>. QED  BY <1>5, <1>13, <2>1 DEF Crash
<1>14. CASE Startup
  BY <1>1, <1>14 DEF Startup
<1>. QED
  BY <1>3, <1>4, <1>6, <1>7, <1>8, <1>9, <1>10, <1>11, <1>12, <1>13, <1>14
     DEF Next, Reset, BreakDeadlock, BreakTableDeadlock

--------------------------------------------------------------------------------
(* The invariant, and the types.                                            *)

Inv == DataInv /\ LockInv /\ PhaseInv /\ GoneInv /\ BeforeInv

LEMMA InvHolds == Spec => []Inv
<1>1. Init => Inv
  <2>. SUFFICES ASSUME Init PROVE Inv
    OBVIOUS
  <2>1. DataInv
    BY DEF Init, DataInv
  <2>2. LockInv
    <3>1. at \in [Jobs -> Nat] /\ gone = {} /\ \A j \in Jobs : at[j] = 0
      BY DEF Init
    <3>. QED  BY <3>1, NoLocks, ProgramType DEF LockInv, LockOf
  <2>3. PhaseInv
    BY DEF Init, PhaseInv, Phases, Scopes, Deleting
  <2>4. GoneInv /\ BeforeInv
    BY DEF Init, GoneInv, BeforeInv, Deleting
  <2>. QED  BY <2>1, <2>2, <2>3, <2>4 DEF Inv
<1>2. Inv /\ [Next]_vars => Inv'
  BY DataStep, LockStep, PhaseStep, GoneStep, BeforeStep DEF Inv
<1>. QED  BY <1>1, <1>2, PTL DEF Spec

\* The variables that only history and outcome look at.
RestInv ==
  /\ scan \subseteq Rows /\ before \subseteq Rows /\ started \subseteq Jobs
  /\ outcome \in {"none", "ok", "refused", "deadlock", "unseeded", "lost"}
  /\ up \in BOOLEAN /\ crashes \in 0..MaxCrashes

LEMMA RestStep ==
  ASSUME Inv, RestInv, [Next]_vars
  PROVE  RestInv'
<1>. USE ResetAssumption DEF RestInv
<1>1. ASSUME NEW result \in {"ok", "refused", "deadlock", "unseeded", "lost"}, End(result)
      PROVE  /\ scan' \subseteq Rows /\ before' \subseteq Rows /\ started' \subseteq Jobs
             /\ outcome' \in {"none", "ok", "refused", "deadlock", "unseeded", "lost"}
  BY <1>1, EndType
<1>2. CASE UNCHANGED vars
  BY <1>2 DEF vars, jobVars, resetVars
<1>3. ASSUME NEW j \in Jobs, Begin(j) PROVE RestInv'
  BY <1>3 DEF Begin, resetVars
<1>4. ASSUME NEW j \in Jobs, Job(j) PROVE RestInv'
  BY <1>4 DEF Job, Do, Fail, Commit, resetVars
<1>5. ASSUME NEW sc \in Scopes, Request(sc) PROVE RestInv'
  BY <1>5 DEF Request, Inv, DataInv
<1>6. CASE Scan
  BY <1>6 DEF Scan, Inv, DataInv, jobVars
<1>7. CASE Delete \/ Truncate
  BY <1>7 DEF Delete, Truncate, jobVars
<1>8. CASE Refused \/ Seed \/ SeedFails
  BY <1>1, <1>8 DEF Refused, Seed, SeedFails
<1>9. CASE CommitReset
  BY <1>1, <1>9 DEF CommitReset, jobVars
<1>10. ASSUME NEW j \in Jobs, GivesWay(j) PROVE RestInv'
  BY <1>1, <1>10 DEF GivesWay, resetVars
<1>11. CASE Crash
  <2>1. up' = FALSE /\ crashes' = crashes + 1 /\ crashes < MaxCrashes
    BY <1>11 DEF Crash
  <2>2. crashes' \in 0..MaxCrashes
    BY <2>1
  <2>3. CASE phase = "idle"
    BY <1>11, <2>1, <2>2, <2>3 DEF Crash, resetVars
  <2>4. CASE phase # "idle"
    BY <1>1, <1>11, <2>1, <2>2, <2>4 DEF Crash
  <2>. QED  BY <2>3, <2>4
<1>12. CASE Startup
  BY <1>12 DEF Startup, jobVars, resetVars
<1>. QED
  BY <1>2, <1>3, <1>4, <1>5, <1>6, <1>7, <1>8, <1>9, <1>10, <1>11, <1>12
     DEF Next, Reset, BreakDeadlock, BreakTableDeadlock

\* The variables keep their types, and the references between the committed rows hold whatever a
\* reset and the jobs do to each other.
THEOREM ResetTyping == Spec => []TypeOK
<1>1. Init => RestInv
  BY ResetAssumption DEF Init, RestInv
<1>2. Inv /\ RestInv /\ [Next]_vars => RestInv'
  BY RestStep
<1>3. Inv /\ RestInv => TypeOK
  <2>. SUFFICES ASSUME Inv, RestInv PROVE TypeOK
    OBVIOUS
  <2>1. next \in 0..Len(Statements("full"))
    <3>. DEFINE last == Len(Statements(scope))
    <3>1. Len(Statements("full")) = 13
      BY StatementsAre
    <3>2. last \in 1..13
      BY StatementsType DEF Inv, PhaseInv
    <3>3. next = 0 \/ next \in 1..last
      BY DEF Inv, PhaseInv
    <3>. HIDE DEF last
    <3>4. next \in 0..13
      BY <3>2, <3>3
    <3>. QED  BY <3>1, <3>4
  <2>2. gone \subseteq Rows
    BY CoveredIsDeleted DEF Inv, PhaseInv, GoneInv
  <2>. QED  BY <2>1, <2>2 DEF Inv, DataInv, LockInv, LockOf, PhaseInv, RestInv, TypeOK
<1>. QED  BY <1>1, <1>2, <1>3, InvHolds, PTL DEF Spec

--------------------------------------------------------------------------------
(* What a reset removes, and what refuses it.                               *)

\* A reset that commits has removed every row of its scope that was there when it was requested, and
\* no row outside its scope.
THEOREM ResetExactHolds == Spec => ResetExact
<1>1. Inv /\ [Next]_vars =>
        [phase = "commit" /\ phase' # "commit" /\ up'
           => /\ before \cap Covered(scope) \cap db' = {}
              /\ db \ Covered(scope) \subseteq db']_vars
  <2>. SUFFICES ASSUME Inv, Next, phase = "commit", phase' # "commit", up'
                PROVE  /\ before \cap Covered(scope) \cap db' = {}
                       /\ db \ Covered(scope) \subseteq db'
    OBVIOUS
  <2>1. CommitReset
    BY DEF Next, Job, Reset, Begin, Do, Fail, Commit, Request, Scan, Delete, Refused, Truncate, Seed,
       SeedFails, BreakDeadlock, BreakTableDeadlock, GivesWay, Deadlocked, Crash, Startup, resetVars
  <2>2. db' = db \ gone
    BY <2>1 DEF CommitReset
  <2>3. ASSUME NEW r \in before, r \in Covered(scope) PROVE r \in gone
    <3>1. /\ r \in Rows
          /\ scope # "full" => \E k \in DOMAIN Statements(scope) : Of[r] = Statements(scope)[k]
          /\ scope = "full" => Of[r] \in FullTables
      BY <2>3, CoveredIsDeleted DEF Inv, PhaseInv
    <3>2. CASE scope = "full"
      BY <2>3, <3>1, <3>2 DEF Inv, BeforeInv, Deleting
    <3>3. CASE scope # "full"
      <4>1. PICK k \in DOMAIN Statements(scope) : Of[r] = Statements(scope)[k]
        BY <3>1, <3>3
      <4>2. k \in 1..Len(Statements(scope)) /\ next = Len(Statements(scope)) /\ next \in Nat
        BY StatementsType DEF Inv, PhaseInv
      <4>3. Passed(k)
        BY <4>2 DEF Passed
      <4>. QED  BY <2>3, <4>1, <4>3 DEF Inv, BeforeInv, Deleting
    <3>. QED  BY <3>2, <3>3
  <2>4. gone \subseteq Covered(scope)
    BY DEF Inv, GoneInv
  <2>. QED  BY <2>2, <2>3, <2>4
<1>. QED  BY <1>1, InvHolds, PTL DEF Spec, ResetExact

\* A reset is refused only because a job has committed a referring row since it was requested, or
\* because of a trade of a backtest.
THEOREM RefusedOnlyByLatecomersHolds == Spec => RefusedOnlyByLatecomers
<1>1. Inv /\ [Next]_vars =>
        [phase = "delete" /\ outcome' = "refused"
           => \E r \in StillReferenced :
                r \notin before \/ <<Of[r], Statements(scope)[next]>>
                                     = <<"paper_trades", "backtest_cases">>]_vars
  <2>. SUFFICES ASSUME Inv, Next, phase = "delete", outcome' = "refused"
                PROVE  \E r \in StillReferenced :
                         r \notin before \/ <<Of[r], Statements(scope)[next]>>
                                              = <<"paper_trades", "backtest_cases">>
    OBVIOUS
  <2>1. outcome = "none"
    BY DEF Inv, PhaseInv, Deleting
  <2>2. ASSUME NEW result, End(result) PROVE result = "refused"
    BY <2>2, EndType
  <2>3. Refused
    BY <2>1, <2>2 DEF Next, Job, Reset, Begin, Do, Fail, Commit, Request, Scan, Delete, Truncate,
       CommitReset, Seed, SeedFails, BreakDeadlock, BreakTableDeadlock, GivesWay, Crash, Startup, resetVars
  <2>4. PICK r \in StillReferenced : TRUE
    BY <2>3 DEF Refused
  <2>5. PICK p \in Refs[r] : p \in scan
    BY <2>4 DEF StillReferenced
  <2>6. /\ r \in Rows /\ r \notin gone /\ r \notin scan
        /\ Of[p] = Statements(scope)[next]
    BY <2>4, <2>5 DEF StillReferenced, Inv, DataInv, GoneInv
  <2>7. <<Of[r], Of[p]>> \in ForeignKeys
    BY <2>5, <2>6, ResetAssumption
  <2>8. next \in DOMAIN Statements(scope) /\ scope \in Scopes
    BY StatementsType DEF Inv, PhaseInv, Deleting
  <2>9. ASSUME r \in before,
               <<Of[r], Statements(scope)[next]>> # <<"paper_trades", "backtest_cases">>
        PROVE  FALSE
    <3>. DEFINE f == <<Of[r], Of[p]>>
    <3>1. f \in ForeignKeys /\ f[2] = Statements(scope)[next] /\ f[1] = Of[r]
            /\ f # <<"paper_trades", "backtest_cases">>
      BY <2>6, <2>7, <2>9
    <3>. HIDE DEF f
    <3>2. PICK n \in DOMAIN Statements(scope) : n < next /\ Statements(scope)[n] = f[1]
      BY <2>8, <3>1, ParentsLast
    <3>3. r \in gone
      BY <2>9, <3>1, <3>2 DEF Inv, BeforeInv, Deleting, Passed
    <3>. QED  BY <2>6, <3>3
  <2>. QED  BY <2>4, <2>9
<1>. QED  BY <1>1, InvHolds, PTL DEF Spec, RefusedOnlyByLatecomers

================================================================================
