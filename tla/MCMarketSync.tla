---------------------------- MODULE MCMarketSync ----------------------------
(* Instances of MarketSync for TLC. *)
EXTENDS MarketSync

CONSTANTS m1, m2, m3, y, r, w, p

MCPk == [m \in Markets |-> CASE m = m1 -> 1 [] m = m2 -> 2 [] m = m3 -> 3]
MCProcessOf == [s \in Sessions |-> p]
\* The exchange sorts by volume, the watchlist as it was written down.
MCListings == {<<m3, m1, m2>>}
MCLineups == {<<m2, m3>>}
MCBooks == {NoBook, [bid |-> 1, ask |-> 3], [bid |-> 2, ask |-> None]}
MCWinners == [m \in Markets |-> IF m = m3 THEN {None, "YES"} ELSE {None}]
=============================================================================
