------------------------------- MODULE MCBacktest -------------------------------
(* Instances of Backtest for TLC: a tick is half the horizon, s2 has no binary  *)
(* outcome, and NO costs 10, 15 or 25 cents.  As doubles, both 0.25 - 0.15 and  *)
(* 0.85 - 0.75 are less than 0.10.                                              *)
EXTENDS Backtest, TLC

CONSTANTS s1, s2, m1, b1, r1

MCMarketOf   == [s \in Signals |-> m1]
MCSideOf     == [s \in Signals |-> IF s = s1 THEN "NO" ELSE "YES"]
MCPublished  == [s \in Signals |-> IF s = s1 THEN 0 ELSE 1]
MCFetchedAt  == [s \in Signals |-> 1]
MCEndOf      == [m \in Markets |-> 3]
MCAnswers    == [m \in Markets |-> {}]
MCMaxSnaps   == [m \in Markets |-> 3]
MCQuotes     == [mid : {15, 17, 18}, good : {TRUE}]
MCShortRises == {<<"NO", 3, 2>>, <<"YES", 15, 2>>}
MCWindows    == <<1, 2>>
=================================================================================
