--------------------------- MODULE MCWatchlistMonitor --------------------------
(* An instance of WatchlistMonitor for TLC: the cheaper market may have a thin *)
(* book, and a pass makes one trade.                                           *)
EXTENDS WatchlistMonitor

CONSTANTS m1, m2

Fair(ask)  == [bid |-> ask - 10, ask |-> ask, spread |-> 10, open |-> TRUE]
Wide       == [bid |-> 20, ask |-> 50, spread |-> 30, open |-> TRUE]
OneSided   == [bid |-> 20, ask |-> None, spread |-> None, open |-> TRUE]
MCQuotes   == {Fair(30), Fair(50), Wide, OneSided}
MCFirstQuote == [m \in Markets |-> IF m = m1 THEN Fair(30) ELSE Fair(50)]
=================================================================================
