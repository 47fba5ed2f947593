------------------------------ MODULE MCPaperTrade ------------------------------
(* An instance of PaperTrade for TLC: four ticks to a dollar, a tick of slippage. *)
(* Books come in any order, with empty levels, one-sided, thin, or not at all.    *)
EXTENDS PaperTrade, TLC

L(p, z) == [price |-> p, size |-> z]
MCBooks ==
  {[bids |-> b, asks |-> a] :
     b \in {<<>>, <<L(1, 4), L(2, 1), L(1, 9)>>, <<L(2, 0)>>, <<L(1, 9), L(3, 4)>>},
     a \in {<<>>, <<L(3, 9), L(2, 4), L(3, 0)>>, <<L(2, 1), L(1, 4)>>, <<L(3, 4)>>}}
MCQuotes == {[bid |-> -1, ask |-> -1], [bid |-> 0, ask |-> 3], [bid |-> 1, ask |-> 2],
             [bid |-> 2, ask |-> 4]}
=================================================================================
