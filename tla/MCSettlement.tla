----------------------------- MODULE MCSettlement ------------------------------
(* An instance of Settlement for TLC: one tick stands for a part of the       *)
(* horizon; t1 is a live trade, t2 a backtest on the other side of its market. *)
EXTENDS Settlement

CONSTANTS t1, t2, m1, m2

MCMarketOf == [t \in Trades |-> IF t = t2 THEN m2 ELSE m1]
MCSideOf   == [t \in Trades |-> IF t = t1 THEN "YES" ELSE "NO"]
OneAnswer   == [m \in Markets |-> {"YES"}]
MCPubTime  == [t \in Trades |-> 0]
================================================================================
