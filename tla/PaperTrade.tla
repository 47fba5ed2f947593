------------------------------- MODULE PaperTrade -------------------------------
(***************************************************************************)
(* A simulated trade: sized to a notional and filled from an order book,   *)
(* level by level, or at the top of the book (app/core/paper.py,           *)
(* app/core/clob_depth.py), and settled with its fees                      *)
(* (app/paper_economics.py, app/jobs/settle_trades.py).                    *)
(*                                                                         *)
(* Prices are in ticks.  A fill price is an average: it stands as what all *)
(* contracts cost at it.  Sums are in ticks, those with fees in parts of a *)
(* tick, Whole to a tick.  Contracts are whole: a fraction is cut off, but *)
(* less than one contract counts as one.                                   *)
(***************************************************************************)
EXTENDS Integers, Sequences, FiniteSets

CONSTANTS
  Dollar,       \* a dollar
  Slip,         \* a cent, the slippage of a fill
  BaseNotional, \* paper_trade_notional_usd
  Multipliers,  \* paper_size_multiplier of the profiles, in quarters
  MostContracts, \* max_contracts of contracts_for_notional
  EntryRate, WinRate, Whole, \* fees, as parts of Whole
  Books,        \* order books, as the exchange sends them
  Quotes        \* top of the book, in the market's row or in a snapshot

None == -1

Cap == Dollar - 1 \* 99.9 cents, the highest fill: a tick is a tenth of a cent

Price == 1..Cap
Level == [price : Price, size : Nat]
Book == [bids : Seq(Level), asks : Seq(Level)]
Quote == [bid : {None} \cup 0..Dollar, ask : {None} \cup 0..Dollar]

ASSUME PaperAssumption ==
  /\ Dollar \in Nat /\ Dollar > 1 /\ Slip \in Nat \ {0}
  /\ BaseNotional \in Nat \ {0} /\ Multipliers \subseteq Nat /\ MostContracts \in Nat \ {0}
  /\ EntryRate \in Nat /\ WinRate \in Nat /\ Whole \in Nat \ {0} /\ WinRate <= Whole
  /\ Books \subseteq Book /\ Quotes \subseteq Quote

VARIABLES
  order,  \* the order being filled
  trade   \* the row of the trade

vars == <<order, trade>>

--------------------------------------------------------------------------------
(* The order and the row.                                                   *)

Lesser(a, b) == IF a <= b THEN a ELSE b
Greater(a, b) == IF a <= b THEN b ELSE a

Phases == {"new", "size", "walk", "done"}
Sides == {"YES", "NO"}
Orders == [phase : Phases, side : Sides \cup {"UNKNOWN"}, notional : Nat,
           bid : {None} \cup 0..Dollar, ask : {None} \cup 0..Dollar, book : Book,
           levels : Seq(Level), target : Nat, rem : Nat, filled : Nat, amount : Nat, next : Nat \ {0}]
NoOrder == [phase |-> "new", side |-> "UNKNOWN", notional |-> 0, bid |-> None, ask |-> None,
            book |-> [bids |-> <<>>, asks |-> <<>>], levels |-> <<>>,
            target |-> 0, rem |-> 0, filled |-> 0, amount |-> 0, next |-> 1]

Trades == [status : {"NONE", "OPEN", "SETTLED_RESOLVED", "SETTLED_T24H"}, mode : {"depth", "top"},
           side : Sides, contracts : Nat, outlay : Nat, entryFee : Nat, cash : Nat,
           mid : 0..Dollar, gross : Int, fee : Nat, net : Int]
NoTrade == [status |-> "NONE", mode |-> "top", side |-> "YES", contracts |-> 0, outlay |-> 0,
            entryFee |-> 0, cash |-> 0, mid |-> 0, gross |-> 0, fee |-> 0, net |-> 0]

Init == order = NoOrder /\ trade = NoTrade

--------------------------------------------------------------------------------
(* Sizes and fees.                                                          *)

\* The notional: a multiplier of zero is none, and others are kept between 1/4 and 3.
Sized(mult) ==
  LET m == IF mult = 0 THEN 4 ELSE Greater(1, Lesser(12, mult)) IN (BaseNotional * m) \div 4

\* contracts_for_notional: what the notional buys, which is never nothing.
Contracts(notional, price) ==
  IF price \notin 1 .. (Dollar - 1) THEN 0
  ELSE Lesser(MostContracts, Greater(1, notional \div price))

EntryFee(notional) == notional * EntryRate

WinFee(gross) == Greater(0, gross) * WinRate

\* What is left of a gross gain: net_pnl_after_fees.
Net(gross, entryFee, fee) == gross * Whole - entryFee - fee

\* Mutant: no cap.
Capped_Off(sum, contracts) == sum

\* The price of a fill may not exceed the cap.
Capped(sum, contracts) == Lesser(Cap * contracts, sum)

--------------------------------------------------------------------------------
(* The book.                                                                *)

\* Mutant: bids sorted as asks are.
Before_Asks(side, x, y) == x.price <= y.price

\* The order of the levels: asks ascending, bids descending.
Before(side, x, y) == IF side = "YES" THEN x.price <= y.price ELSE y.price <= x.price

\* The levels that have a size.
Kept(raw) == {i \in DOMAIN raw : raw[i].size > 0}

\* orderbook_levels_from_payload: the levels with a size, in order.
Sorted(raw, side) ==
  LET n == Cardinality(Kept(raw)) IN
  {s \in {[i \in 1..n |-> raw[f[i]]] :
          f \in {g \in [1..n -> Kept(raw)] : \A i, j \in 1..n : g[i] = g[j] => i = j}} :
     \A i, j \in 1..n : i <= j => Before(side, s[i], s[j])}

\* What a YES price is for the one who buys this side.
Own(side, price) == IF side = "YES" THEN price ELSE Dollar - price

\* The price an order is sized by: the best level, else the quote, else 50 cents; a price of
\* zero counts as almost nothing.
Target(o, levels) ==
  LET quote == IF o.side = "YES" THEN o.ask ELSE o.bid
      best == IF levels # <<>> THEN levels[1].price
              ELSE IF quote \in {None, 0} THEN Dollar \div 2 ELSE quote
  IN  IF o.side = "NO" /\ Own("NO", best) = 0 THEN MostContracts
      ELSE Contracts(o.notional, Own(o.side, best))

\* What the contracts bought so far cost this side.
Spent(o) == IF o.side = "YES" THEN o.amount ELSE Dollar * o.filled - o.amount

--------------------------------------------------------------------------------
(* Opening a trade.                                                         *)

Prefer(first, second) == IF first # None THEN first ELSE second

\* A signal becomes an order; the snapshot's quotes go first.
Place ==
  /\ order.phase = "new"
  /\ \E side \in Sides \cup {"UNKNOWN"}, mult \in Multipliers, book \in Books, row, snap \in Quotes :
       order' = [order EXCEPT !.phase = "size", !.side = side, !.notional = Sized(mult),
                              !.book = book, !.bid = Prefer(snap.bid, row.bid),
                              !.ask = Prefer(snap.ask, row.ask)]
  /\ UNCHANGED trade

Refuse ==
  /\ order' = [order EXCEPT !.phase = "done"]
  /\ UNCHANGED trade

Open(mode, contracts, outlay, cost) ==
  /\ order' = [order EXCEPT !.phase = "done"]
  /\ LET entryFee == EntryFee(order.notional) IN
     trade' = [NoTrade EXCEPT
       !.status = "OPEN", !.mode = mode, !.side = order.side, !.contracts = contracts,
       !.outlay = outlay, !.entryFee = entryFee, !.cash = cost * Whole + entryFee]

NoOutcome == order.phase = "size" /\ order.side = "UNKNOWN" /\ Refuse

Listed(book) == book.bids # <<>> \/ book.asks # <<>>

\* There is a book: the order is sized by its best level, and the walk begins.
Size ==
  /\ order.phase = "size" /\ order.side \in Sides /\ Listed(order.book)
  /\ \E levels \in Sorted(IF order.side = "YES" THEN order.book.asks ELSE order.book.bids, order.side) :
       LET target == Target(order, levels) IN
       IF target = 0 THEN Refuse
       ELSE /\ order' = [order EXCEPT !.phase = "walk", !.levels = levels,
                                      !.target = target, !.rem = target]
            /\ UNCHANGED trade

Walking == order.phase = "walk" /\ order.rem > 0 /\ order.next <= Len(order.levels)

\* One level of the walk (walk_asks_buy, walk_bids_sell).
Lift ==
  LET level == order.levels[order.next]
      take == Lesser(order.rem, level.size) IN
  /\ Walking
  /\ order' = [order EXCEPT !.rem = order.rem - take, !.filled = order.filled + take,
                            !.amount = order.amount + take * level.price, !.next = order.next + 1]
  /\ UNCHANGED trade

Thin(o) == o.filled = 0 \/ 2 * o.filled < o.target

TooThin == order.phase = "walk" /\ ~Walking /\ Thin(order) /\ Refuse

\* The walk is over: filled at the average price and a cent.
Fill ==
  LET o == order IN
  /\ o.phase = "walk" /\ ~Walking /\ ~Thin(o)
  /\ Open("depth", o.filled, Capped(Spent(o) + Slip * o.filled, o.filled), Spent(o))

\* There is no book: filled at the quote and a cent.
TopOfBook ==
  LET o == order
      quote == IF o.side = "YES" THEN o.ask ELSE o.bid
      price == Capped(Own(o.side, quote) + Slip, 1)
      contracts == Contracts(o.notional, price) IN
  /\ o.phase = "size" /\ o.side \in Sides /\ ~Listed(o.book)
  /\ IF quote = None \/ contracts = 0 THEN Refuse
     ELSE Open("top", contracts, contracts * price, contracts * price)

--------------------------------------------------------------------------------
(* Settling it.                                                             *)

\* Mutant: the price of YES for either side.
Exit_Yes(side, mid) == mid

\* What a contract is worth at the end, by the price of YES.
Exit(side, mid) == IF side = "YES" THEN mid ELSE Dollar - mid

Settle(mid, status) ==
  LET t == trade
      gross == Exit(t.side, mid) * t.contracts - t.outlay
      fee == WinFee(gross) IN
  /\ t.status = "OPEN"
  /\ trade' = [t EXCEPT !.status = status, !.mid = mid, !.gross = gross, !.fee = fee,
                        !.net = Net(gross, t.entryFee, fee)]
  /\ UNCHANGED order

SettleResolved == \E mid \in {0, Dollar} : Settle(mid, "SETTLED_RESOLVED")
SettleAtMark == \E mid \in 0..Dollar : Settle(mid, "SETTLED_T24H")

Next == Place \/ NoOutcome \/ Size \/ Lift \/ TooThin \/ Fill \/ TopOfBook
        \/ SettleResolved \/ SettleAtMark

Spec == Init /\ [][Next]_vars

\* What the pages show of an open trade (gross_unrealized_usd, live_net_mark_usd).
Unrealized(t, mid) ==
  t.contracts * (IF t.side = "YES" THEN mid ELSE Dollar - mid) - t.outlay
LiveMark(t, mid) ==
  LET gross == Unrealized(t, mid) IN gross * Whole - t.entryFee - Greater(0, gross) * WinRate

--------------------------------------------------------------------------------
(* Properties.                                                              *)

TypeOK == order \in Orders /\ trade \in Trades

Opened == trade.status # "NONE"

Total(s) ==
  LET sum[n \in 0..Len(s)] == IF n = 0 THEN 0 ELSE sum[n - 1] + s[n] IN sum[Len(s)]

\* Ways to buy n contracts from the levels, and what they cost this side.
Ways(levels, n) ==
  {w \in [DOMAIN levels -> 0..n] :
     Total(w) = n /\ \A i \in DOMAIN levels : w[i] <= levels[i].size}
CostOf(side, levels, w) == Total([i \in DOMAIN levels |-> w[i] * Own(side, levels[i].price)])

\* The walk is the cheapest way to buy what it buys, in whatever order the exchange sends the levels;
\* it stops short of the target only where the book ends, and at half of it at worst; and the fill is
\* no better than the best price of the book, and no worse than the last one taken and a cent.
BestExecution ==
  Opened /\ trade.mode = "depth" =>
    /\ \A w \in Ways(order.levels, order.filled) : CostOf(order.side, order.levels, w) >= Spent(order)
    /\ order.filled < order.target => order.next = Len(order.levels) + 1
    /\ 2 * trade.contracts >= order.target
    /\ Own(order.side, order.levels[1].price) * trade.contracts <= trade.outlay
    /\ trade.outlay <= (Own(order.side, order.levels[order.next - 1].price) + Slip) * trade.contracts

\* Whoever is right gains and pays a fee on the gain only; whoever is wrong loses the outlay; and
\* the gain of both is after the fee of the entry.
RightIsPaid ==
  trade.status = "SETTLED_RESOLVED" =>
    IF trade.mid = Own(trade.side, Dollar)
    THEN trade.gross > 0 /\ trade.net <= trade.gross * Whole - trade.entryFee
    ELSE trade.gross = 0 - trade.outlay /\ trade.gross < 0 /\ trade.fee = 0

\* What the pages show of an open trade at a price is what settlement at that price makes of it,
\* though two modules compute it.
MarkAgrees ==
  trade.status \in {"SETTLED_RESOLVED", "SETTLED_T24H"} =>
    trade.net = LiveMark(trade, trade.mid)
=================================================================================
