------------------------------- MODULE TradeBook -------------------------------
(***************************************************************************)
(* What settlement promises its readers (the dashboard, the P&L totals and *)
(* the lag analytics): a paper trade is opened once, is settled only after *)
(* it has become due, and its settlement is final.  The module Settlement  *)
(* models the job that has to keep this promise.                           *)
(***************************************************************************)
CONSTANTS Trades, SettledStatuses

VARIABLES
  book,   \* trade -> its row: status, settlement price, settlement mark
  due     \* the trades that may be settled

vars == <<book, due>>

NewTrade == [status |-> "OPEN", price |-> 0, markTs |-> 0]

Init ==
  /\ book = [t \in Trades |-> [status |-> "NONE", price |-> 0, markTs |-> 0]]
  /\ due \subseteq Trades

\* A trade is recorded, open and without a settlement.
Open(t) ==
  /\ book[t].status = "NONE"
  /\ book' = [book EXCEPT ![t] = NewTrade]
  /\ UNCHANGED due

\* Some trades become due; none stops being due.
MoreDue ==
  /\ due \subseteq due'
  /\ due' \subseteq Trades
  /\ UNCHANGED book

\* A settlement pass: it touches open, due trades only, and closes each of them.
Settle ==
  /\ DOMAIN book' = Trades
  /\ \A t \in Trades :
        book'[t] # book[t] =>
           /\ book[t].status = "OPEN"
           /\ t \in due
           /\ book'[t].status \in SettledStatuses
  /\ UNCHANGED due

Next == (\E t \in Trades : Open(t)) \/ MoreDue \/ Settle

Spec == Init /\ [][Next]_vars

================================================================================
