----------------------------- MODULE MCLagBackfill -----------------------------
(* Instances of LagBackfill for TLC: a tick stands for an hour before the       *)
(* article and for half the observation window after it; s3 is of a fixture     *)
(* market, only s2 is confident, and m1 ends when s2 is published.  The prices  *)
(* 10, 15 and 20 cents are among those whose differences and sums as doubles    *)
(* go either way: 0.15 - 0.10 < 0.05 < 0.20 - 0.15 and 0.10 + 0.05 > 0.15, but  *)
(* 0.20 - 0.10 = 0.10.                                                          *)
EXTENDS LagBackfill, TLC

CONSTANTS s1, s2, s3, m1, m2, b1, b2

MCMarketOf   == [s \in Signals |-> IF s = s3 THEN m2 ELSE m1]
MCSideOf     == [s \in Signals |-> "YES"]
MCPublished  == [s \in Signals |-> IF s = s2 THEN 2 ELSE 0]
MCEndOf      == [m \in Markets |-> 2]
MCAnswers    == [m \in Markets |-> IF m = m1 THEN {} ELSE {"NO"}]
MCMaxSnaps   == [m \in Markets |-> IF m = m1 THEN 3 ELSE 0]
MCQuotes     == [mid : {2, 3, 4}, good : {TRUE}]
MCShortRises == {<<"YES", 2, 1>>}
MCHighSums   == {<<"YES", "5PT", 2, 10>>, <<"YES", "50PCT", 2, 10>>}
AnyBackfill  == Permutations(Backfills)
================================================================================
