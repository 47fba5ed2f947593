---------------------------- MODULE WatchlistMonitor ---------------------------
(***************************************************************************)
(* The watchlist monitor (app/jobs/watchlist_monitor.py): any number of    *)
(* passes, started by a loop, a cron and a button.  A pass takes over the  *)
(* quotes of the watchlist (app/jobs/short_term_watchlist.py, whose writes *)
(* MarketSync has in detail) and then probes the cheapest markets that are *)
(* fit for it, in one transaction.                                         *)
(*                                                                         *)
(* Prices are in cents.  Of the signals of a pass only the markets count.  *)
(***************************************************************************)
EXTENDS Integers, FiniteSets

CONSTANTS
  Monitors, Markets,
  AutoMarkets, \* markets of a category that may be traded automatically
  Deep,       \* markets whose order book always gives a fill
  LowAsk, MaxAsk, MaxSpread, \* 2, 98 and 15 cents
  MaxTrades,  \* max_trades
  Quotes,     \* what the exchange may say of a market
  FirstQuote, \* what it says at first
  MaxChanges, \* bound: changes of the exchange, and syncs
  MaxFailures \* bound: events that do not answer, late snapshots, passes killed

None == -1
Prices == 0..100

ASSUME MonitorAssumption ==
  /\ LowAsk \in Nat /\ MaxAsk \in Nat /\ MaxSpread \in Nat
  /\ MaxTrades \in Nat \ {0} /\ MaxChanges \in Nat /\ MaxFailures \in Nat
  /\ Quotes \subseteq [bid : Prices \cup {None}, ask : Prices \cup {None},
                       spread : Prices \cup {None}, open : BOOLEAN]
  /\ FirstQuote \in [Markets -> Quotes]
  /\ None \notin Markets /\ IsFiniteSet(Monitors)

VARIABLES
  quote, changes, failures,
  row,        \* the rows of the markets
  snap,       \* the latest snapshot of each
  source,     \* whether the internal news source is stored
  signalled,  \* markets with a probe signal
  trades,     \* how many probe trades each market has
  pass        \* what each monitor is at

tables == <<row, snap, source, signalled, trades>>
vars == <<quote, changes, failures, tables, pass>>

--------------------------------------------------------------------------------
Rows == [listed : BOOLEAN, auto : BOOLEAN, open : BOOLEAN, bid : Prices \cup {None},
         ask : Prices \cup {None}]
BlankRow == [listed |-> FALSE, auto |-> FALSE, open |-> FALSE, bid |-> None, ask |-> None]

Snapshots == [bid : Prices \cup {None}, ask : Prices \cup {None}, spread : Prices \cup {None}]
NoSnapshot == [bid |-> None, ask |-> None, spread |-> None]

Phases == {"idle", "watched", "screen", "source", "fill"}
Passes == [phase : Phases,
           copy : [Markets -> Rows],  \* the rows it selected
           todo : SUBSET Markets, market : Markets \cup {None},
           source : BOOLEAN,          \* it has inserted the source
           signals : SUBSET Markets, new : SUBSET Markets] \* what it has added
Idle == [phase |-> "idle", copy |-> [m \in Markets |-> BlankRow], todo |-> {}, market |-> None,
         source |-> FALSE, signals |-> {}, new |-> {}]

Init ==
  /\ quote = FirstQuote /\ changes = 0 /\ failures = 0
  /\ row = [m \in Markets |-> BlankRow] /\ snap = [m \in Markets |-> NoSnapshot]
  /\ source = FALSE /\ signalled = {} /\ trades = [m \in Markets |-> 0]
  /\ pass = [p \in Monitors |-> Idle]

--------------------------------------------------------------------------------
(* The exchange, and other jobs.                                            *)

Move(m) ==
  /\ changes < MaxChanges /\ changes' = changes + 1
  /\ \E q \in Quotes : quote' = [quote EXCEPT ![m] = q]
  /\ UNCHANGED <<failures, tables, pass>>

Shown(q) == [bid |-> q.bid, ask |-> q.ask, spread |-> q.spread]
Priced(q) == q.bid # None \/ q.ask # None

\* A sync takes over both sides, or none if it did not ask for the book, and may put the category
\* of the exchange in the place of the watchlist's; its snapshot may be older than the latest.
Sync(m) ==
  /\ changes < MaxChanges /\ changes' = changes + 1
  /\ \E asked, newest, auto \in BOOLEAN :
       /\ auto => row[m].auto
       /\ row' = [row EXCEPT ![m].open = quote[m].open, ![m].auto = auto,
                             ![m].bid = IF asked THEN quote[m].bid ELSE None,
                             ![m].ask = IF asked THEN quote[m].ask ELSE None]
       /\ snap' = IF asked /\ Priced(quote[m]) /\ (newest \/ snap[m] = NoSnapshot)
                  THEN [snap EXCEPT ![m] = Shown(quote[m])] ELSE snap
  /\ UNCHANGED <<quote, failures, source, signalled, trades, pass>>

--------------------------------------------------------------------------------
(* A pass.                                                                  *)

Prefer(first, second) == IF first # None THEN first ELSE second

\* short_term_watchlist.run: rows and snapshots of the events that answer, committed.
Watch(p) ==
  /\ pass[p].phase = "idle"
  /\ \E answered \in SUBSET Markets, newest \in BOOLEAN :
       /\ failures' = IF answered = Markets /\ newest THEN failures ELSE failures + 1
       /\ failures' <= MaxFailures
       /\ row' = [m \in Markets |->
            IF m \notin answered THEN row[m]
            ELSE [listed |-> TRUE, auto |-> m \in AutoMarkets, open |-> quote[m].open,
                  bid |-> Prefer(quote[m].bid, row[m].bid), ask |-> Prefer(quote[m].ask, row[m].ask)]]
       /\ snap' = [m \in Markets |->
            IF m \in answered /\ Priced(quote[m]) /\ (newest \/ snap[m] = NoSnapshot)
            THEN Shown(quote[m]) ELSE snap[m]]
  /\ pass' = [pass EXCEPT ![p].phase = "watched"]
  /\ UNCHANGED <<quote, changes, source, signalled, trades>>

\* The open markets of the watchlist that have an ask.
Select(p) ==
  /\ pass[p].phase = "watched"
  /\ pass' = [pass EXCEPT ![p].phase = "screen",
       ![p].todo = {m \in Markets : row[m].listed /\ row[m].open /\ row[m].ask # None},
       ![p].copy = row]
  /\ UNCHANGED <<quote, changes, failures, tables>>

Ask(p, m) == Prefer(snap[m].ask, pass[p].copy[m].ask)
Bid(p, m) == Prefer(snap[m].bid, pass[p].copy[m].bid)
Spread(p, m) ==
  IF snap[m].spread # None THEN snap[m].spread
  ELSE IF None \in {Bid(p, m), Ask(p, m)} THEN None ELSE Ask(p, m) - Bid(p, m)

\* Mutant: only what this pass has added.
AlreadyTraded_Own(p, m) == m \in pass[p].new

\* A probe trade that is committed, or of this pass.
AlreadyTraded(p, m) == trades[m] > 0 \/ m \in pass[p].new

Fit(p, m) ==
  /\ pass[p].copy[m].auto
  /\ LowAsk < Ask(p, m) /\ Ask(p, m) < MaxAsk
  /\ Spread(p, m) # None /\ Spread(p, m) <= MaxSpread
  /\ ~AlreadyTraded(p, m)

\* Mutant: probes without a trade count too.
Created_Signals(p) == Cardinality(pass[p].signals)

\* The trades of the pass.
Created(p) == Cardinality(pass[p].new)

\* Mutant: one too many.
MayProbe_OneMore(p) == Created(p) <= MaxTrades

MayProbe(p) == Created(p) < MaxTrades

\* The next market: rows were sorted by their ask.
IsNext(p, m) ==
  /\ pass[p].phase = "screen" /\ m \in pass[p].todo /\ MayProbe(p)
  /\ \A n \in pass[p].todo : pass[p].copy[m].ask <= pass[p].copy[n].ask

Skip(p, m) ==
  /\ IsNext(p, m) /\ ~Fit(p, m)
  /\ pass' = [pass EXCEPT ![p].todo = @ \ {m}]
  /\ UNCHANGED <<quote, changes, failures, tables>>

HasSource(p) == source \/ pass[p].source

\* A market that is fit: the source is looked up; if it is there, article and signal are sent.
Probe(p, m) ==
  /\ IsNext(p, m) /\ Fit(p, m)
  /\ pass' = [pass EXCEPT ![p] = [pass[p] EXCEPT
       !.phase = IF HasSource(p) THEN "fill" ELSE "source",
       !.todo = pass[p].todo \ {m}, !.market = m,
       !.signals = IF HasSource(p) THEN pass[p].signals \cup {m} ELSE pass[p].signals]]
  /\ UNCHANGED <<quote, changes, failures, tables>>

\* It is not: it is inserted, which waits for whoever else has inserted it and not committed.
InsertSource(p) ==
  /\ pass[p].phase = "source" /\ ~source
  /\ \A q \in Monitors : ~pass[q].source
  /\ pass' = [pass EXCEPT ![p] = [pass[p] EXCEPT
       !.phase = "fill", !.source = TRUE, !.signals = pass[p].signals \cup {pass[p].market}]]
  /\ UNCHANGED <<quote, changes, failures, tables>>

\* Another pass has committed it in between: its domain is unique, and the pass fails.
Conflict(p) ==
  /\ pass[p].phase = "source" /\ source
  /\ pass' = [pass EXCEPT ![p] = Idle]
  /\ UNCHANGED <<quote, changes, failures, tables>>

\* The order book has answered: it gives a trade, or is too thin for one.
Fill(p) ==
  /\ pass[p].phase = "fill"
  /\ \E filled \in BOOLEAN :
       /\ pass[p].market \in Deep => filled
       /\ pass' = [pass EXCEPT ![p] = [pass[p] EXCEPT
            !.phase = "screen", !.market = None,
            !.new = IF filled THEN pass[p].new \cup {pass[p].market} ELSE pass[p].new]]
  /\ UNCHANGED <<quote, changes, failures, tables>>

Commit(p) ==
  /\ pass[p].phase = "screen" /\ (pass[p].todo = {} \/ ~MayProbe(p))
  /\ source' = HasSource(p)
  /\ signalled' = signalled \cup pass[p].signals
  /\ trades' = [m \in Markets |-> IF m \in pass[p].new THEN trades[m] + 1 ELSE trades[m]]
  /\ pass' = [pass EXCEPT ![p] = Idle]
  /\ UNCHANGED <<quote, changes, failures, row, snap>>

\* The pass is cancelled or its process ends.
Abort(p) ==
  /\ pass[p].phase # "idle" /\ failures < MaxFailures
  /\ failures' = failures + 1
  /\ pass' = [pass EXCEPT ![p] = Idle]
  /\ UNCHANGED <<quote, changes, tables>>

PassStep(p) ==
  \/ Watch(p) \/ Select(p)
  \/ \E m \in Markets : Skip(p, m) \/ Probe(p, m)
  \/ InsertSource(p) \/ Conflict(p) \/ Fill(p) \/ Commit(p)

Next ==
  \/ \E m \in Markets : Move(m) \/ Sync(m)
  \/ \E p \in Monitors : PassStep(p) \/ Abort(p)

Spec == Init /\ [][Next]_vars

\* The loop starts passes for ever, and each goes on: the order book has a timeout.
FairSpec == Spec /\ \A p \in Monitors : WF_vars(PassStep(p))

--------------------------------------------------------------------------------
(* Properties.                                                              *)

TypeOK ==
  /\ quote \in [Markets -> Quotes] /\ changes \in 0..MaxChanges /\ failures \in 0..MaxFailures
  /\ row \in [Markets -> Rows] /\ snap \in [Markets -> Snapshots]
  /\ source \in BOOLEAN /\ signalled \subseteq Markets /\ trades \in [Markets -> Nat]
  /\ pass \in [Monitors -> Passes]
  /\ \A p \in Monitors : Cardinality(pass[p].new) <= MaxTrades

\* However many passes follow each other, a market is probed at most once by as many monitors as
\* overlap; a monitor alone probes it once (_already_traded).
ProbesBounded == \A m \in Markets : trades[m] <= Cardinality(Monitors)

\* What the exchange says of a market makes it fit for a probe that succeeds.
Fits(m) ==
  /\ m \in AutoMarkets \cap Deep /\ quote[m].open
  /\ LowAsk < quote[m].ask /\ quote[m].ask < MaxAsk
  /\ quote[m].spread # None /\ quote[m].spread <= MaxSpread

\* A market that stays fit is probed in the end, though thin books, cheaper markets, and the passes
\* that race for the source stand before it.
FitIsProbed == \A m \in Markets : <>[]Fits(m) => <>(trades[m] > 0)
=================================================================================
