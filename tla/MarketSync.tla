----------------------------- MODULE MarketSync -----------------------------
(***************************************************************************)
(* What writes the quotes of the markets: the full sync                    *)
(* (jobs/sync_markets.py run), the refresh of the markets with open        *)
(* positions (refresh_open_position_markets) and the watchlists            *)
(* (jobs/short_term_watchlist.py and jobs/nba_test_watchlist.py), each in  *)
(* a session of its own.  Syncs and refreshes of one process go one after  *)
(* the other, under _sync_markets_lock; nothing holds back the watchlists  *)
(* or the syncs of another process.                                        *)
(*                                                                         *)
(* A session reads a row, works on its copy, and sends to the database     *)
(* only the columns in which the copy differs from what it read.  The      *)
(* UPDATE waits for a session that has written the row and not committed   *)
(* yet, and an INSERT for one that has inserted it; the one that comes     *)
(* second with an INSERT fails.  Sessions that wait for each other in a    *)
(* circle lose one of them.                                                *)
(*                                                                         *)
(* Prices are natural numbers.  The mean of bid and ask is represented by  *)
(* their sum.                                                              *)
(***************************************************************************)
EXTENDS Naturals, Sequences, FiniteSets

CONSTANTS
    Markets,      \* markets the exchange may list
    Pk,           \* the order of their primary keys
    Watched,      \* those the watchlists name
    Tokens,       \* those with an order book and a token to ask for it
    None,         \* no price, no winner
    Syncs,        \* sessions that run a full sync
    Refreshers,   \* sessions that refresh the open positions
    Watchers,     \* sessions that run a watchlist
    Processes,
    ProcessOf,    \* the process a session belongs to
    Listings,     \* what a fetch may bring, in the order of the merged answer
    Lineups,      \* the markets a watchlist may select, in its order
    Books,        \* best bid and ask of an order book, or of none
    Winners,      \* what the exchange may say of a market's winner
    ClobLimit,    \* settings.sync_clob_snapshot_limit
    MaxStarts,    \* bound on the jobs started
    MaxAborts     \* bound on the jobs lost to errors or cancellation

Sessions == Syncs \cup Refreshers \cup Watchers
Price == Nat \cup {None}
Winner == {"YES", "NO", None}
Book == [bid : Price, ask : Price]
NoBook == [bid |-> None, ask |-> None]

ASSUME MarketsAssumption ==
    /\ Pk \in [Markets -> Nat]
    /\ \A m, n \in Markets : Pk[m] = Pk[n] => m = n
    /\ Watched \subseteq Markets /\ Tokens \subseteq Markets
    /\ None \notin Nat /\ None \notin {"YES", "NO"}
    /\ Listings \subseteq Seq(Markets) /\ Lineups \subseteq Seq(Watched)
    /\ Books \subseteq Book /\ NoBook \in Books
    /\ Winners \in [Markets -> SUBSET Winner]
    /\ ClobLimit \in Nat /\ MaxStarts \in Nat /\ MaxAborts \in Nat

ASSUME SessionsAssumption ==
    /\ Syncs \cap Refreshers = {} /\ Syncs \cap Watchers = {} /\ Refreshers \cap Watchers = {}
    /\ ProcessOf \in [Sessions -> Processes]

\* No answer names a market twice: the fetch merges by id.
ASSUME DistinctAssumption ==
    \A list \in Listings \cup Lineups : \A i, j \in DOMAIN list : list[i] = list[j] => i = j

VARIABLES
    rows,      \* the quotes and the winner of each market, as committed
    stored,    \* the markets that have a row
    snaps,     \* the books that have a committed snapshot
    lock,      \* who holds the lock of a process, then who waits for it
    sess,      \* what each session is doing
    started,   \* jobs started so far
    aborts     \* jobs lost so far

vars == <<rows, stored, snaps, lock, sess, started, aborts>>

Row == [bid : Price, ask : Price, last : Price, winner : Winner]
BlankRow == [bid |-> None, ask |-> None, last |-> None, winner |-> None]
Snapshot == [market : Markets, bid : Price, ask : Price]

\* A row a session works on: what it read, what it made of it, and whether it is new.
Update == [market : Markets, insert : BOOLEAN, old : Row, new : Row]

Session == [phase : {"idle", "queued", "running"}, todo : Seq(Markets), spent : Nat,
            dirty : SUBSET Update, written : SUBSET Update, shots : SUBSET Snapshot]

Idle == [phase |-> "idle", todo |-> <<>>, spent |-> 0, dirty |-> {}, written |-> {}, shots |-> {}]

-----------------------------------------------------------------------------
(* Quotes *)

Quoted(book) == book.bid # None \/ book.ask # None

Mid(book) == IF book.bid = None \/ book.ask = None THEN None ELSE book.bid + book.ask

\* A mutant: no snapshot of a book with one side only.
Shots_BothSides(m, book) ==
    IF book.bid # None /\ book.ask # None
    THEN {[market |-> m, bid |-> book.bid, ask |-> book.ask]} ELSE {}

\* A snapshot is taken of whatever side the book has.
Shots(m, book) ==
    IF Quoted(book) THEN {[market |-> m, bid |-> book.bid, ask |-> book.ask]} ELSE {}

\* A sync and a refresh take the book as it is, a missing side too.
TakeBook(row, book) == [row EXCEPT !.bid = book.bid, !.ask = book.ask, !.last = Mid(book)]

Or(value, default) == IF value = None THEN default ELSE value

\* A watchlist takes over only the values there are.
TakeSides(row, book) ==
    [row EXCEPT !.bid = Or(book.bid, row.bid), !.ask = Or(book.ask, row.ask),
                !.last = Or(Mid(book), row.last)]

\* A mutant: a winner that is not reported any more is forgotten.
TakeWinner_Forgets(row, winner) == [row EXCEPT !.winner = winner]

\* A winner that is not reported (any more) is kept.
TakeWinner(row, winner) == [row EXCEPT !.winner = Or(winner, row.winner)]

\* The work on market m of a session that reads its row, if there is one.
Work(m, new) ==
    [market |-> m, insert |-> m \notin stored, old |-> rows[m], new |-> new]

-----------------------------------------------------------------------------
(* Rows under way *)

\* What an UPDATE leaves of a column: only columns that were changed are sent.
Column(now, old, new) == IF new = old THEN now ELSE new

Merged(row, u) ==
    [bid |-> Column(row.bid, u.old.bid, u.new.bid),
     ask |-> Column(row.ask, u.old.ask, u.new.ask),
     last |-> Column(row.last, u.old.last, u.new.last),
     winner |-> Column(row.winner, u.old.winner, u.new.winner)]

\* Rows go to the database in the order of their keys.
Front(s) ==
    {u \in sess[s].dirty : \A v \in sess[s].dirty : Pk[u.market] <= Pk[v.market]}

\* A row that was read and not changed is not sent at all.
Sent(u) == u.insert \/ u.new # u.old

Holds(s, m) == \E u \in sess[s].written : u.market = m /\ Sent(u)

\* Session s has to send a row that session t holds.
Waits(s, t) == s # t /\ \E u \in Front(s) : Sent(u) /\ Holds(t, u.market)

Free(s) == \A t \in Sessions : ~Waits(s, t)

Running(s) == sess[s].phase = "running"

Clean(s) == Running(s) /\ sess[s].dirty = {}

\* A queue without session s, which stands in it once if at all.
Without(queue, s) ==
    IF \E i \in DOMAIN queue : queue[i] = s
    THEN LET i == CHOOSE i \in DOMAIN queue : queue[i] = s
         IN SubSeq(queue, 1, i - 1) \o SubSeq(queue, i + 1, Len(queue))
    ELSE queue

Release(s) == lock' = [lock EXCEPT ![ProcessOf[s]] = Without(lock[ProcessOf[s]], s)]

\* A mutant: no lock.
MayRun_Unlocked(s) == sess[s].phase = "queued"

\* The lock goes to whoever has waited longest.
MayRun(s) ==
    /\ sess[s].phase = "queued"
    /\ lock[ProcessOf[s]] # <<>> /\ Head(lock[ProcessOf[s]]) = s

-----------------------------------------------------------------------------
(* Steps *)

Init ==
    /\ rows = [m \in Markets |-> BlankRow]
    /\ stored = {}
    /\ snaps = {}
    /\ lock = [p \in Processes |-> <<>>]
    /\ sess = [s \in Sessions |-> Idle]
    /\ started = 0
    /\ aborts = 0

\* A loop, a button or a cron calls run or refresh_open_position_markets.
Request(s) ==
    /\ s \in Syncs \cup Refreshers
    /\ sess[s].phase = "idle" /\ started < MaxStarts
    /\ sess' = [sess EXCEPT ![s] = [sess[s] EXCEPT !.phase = "queued"]]
    /\ lock' = [lock EXCEPT ![ProcessOf[s]] = Append(lock[ProcessOf[s]], s)]
    /\ started' = started + 1
    /\ UNCHANGED <<rows, stored, snaps, aborts>>

\* The lock is taken and the markets are fetched, from the exchange or from the fixture.
Fetch(s) ==
    /\ s \in Syncs /\ MayRun(s)
    /\ \E list \in Listings :
        sess' = [sess EXCEPT ![s] = [sess[s] EXCEPT !.phase = "running", !.todo = list]]
    /\ UNCHANGED <<rows, stored, snaps, lock, started, aborts>>

\* The next market of a sync: its book if the budget allows, its row, the new values.
SyncMarket(s) ==
    /\ s \in Syncs /\ Clean(s) /\ sess[s].todo # <<>>
    /\ LET m == Head(sess[s].todo)
           asks == m \in Tokens /\ sess[s].spent < ClobLimit IN
       \E book \in (IF asks THEN Books ELSE {NoBook}), winner \in Winners[m] :
        sess' = [sess EXCEPT ![s] = [sess[s] EXCEPT
            !.todo = Tail(@),
            !.spent = IF asks THEN @ + 1 ELSE @,
            !.dirty = {Work(m, TakeWinner(TakeBook(rows[m], book), winner))},
            !.shots = @ \cup Shots(m, book)]]
    /\ UNCHANGED <<rows, stored, snaps, lock, started, aborts>>

\* The lock is taken, the rows of the markets held are read at once, and the books of those
\* with a token are taken over as they arrive.  Nothing is sent before all have arrived.
RefreshMarkets(s) ==
    /\ s \in Refreshers /\ MayRun(s)
    /\ \E held \in SUBSET (stored \cap Tokens) : \E book \in [held -> Books] :
        sess' = [sess EXCEPT ![s] = [sess[s] EXCEPT
            !.phase = "running",
            !.dirty = {Work(m, TakeBook(rows[m], book[m])) : m \in held},
            !.shots = UNION {Shots(m, book[m]) : m \in held}]]
    /\ UNCHANGED <<rows, stored, snaps, lock, started, aborts>>

\* A watchlist has fetched its events; those that could not be fetched are left out.
StartWatch(s) ==
    /\ s \in Watchers /\ sess[s].phase = "idle" /\ started < MaxStarts
    /\ \E list \in Lineups : sess' = [sess EXCEPT ![s] = [sess[s] EXCEPT !.phase = "running", !.todo = list]]
    /\ started' = started + 1
    /\ UNCHANGED <<rows, stored, snaps, lock, aborts>>

\* The next market of a watchlist (_upsert_market).
WatchMarket(s) ==
    /\ s \in Watchers /\ Clean(s) /\ sess[s].todo # <<>>
    /\ LET m == Head(sess[s].todo) IN
       \E book \in Books :
        sess' = [sess EXCEPT ![s] = [sess[s] EXCEPT
            !.todo = Tail(@),
            !.dirty = {Work(m, TakeSides(rows[m], book))},
            !.shots = @ \cup Shots(m, book)]]
    /\ UNCHANGED <<rows, stored, snaps, lock, started, aborts>>

\* Before the next query, or the commit, a row is sent.
Flush(s) ==
    /\ Running(s) /\ Free(s)
    /\ \E u \in Front(s) :
        /\ u.insert => u.market \notin stored
        /\ sess' = [sess EXCEPT ![s] = [sess[s] EXCEPT !.dirty = @ \ {u}, !.written = @ \cup {u}]]
    /\ UNCHANGED <<rows, stored, snaps, lock, started, aborts>>

\* A mutant: a failed sync keeps the lock.
Drop_KeepsLock(s) ==
    /\ sess' = [sess EXCEPT ![s] = Idle]
    /\ UNCHANGED <<rows, stored, snaps, lock, started>>

\* Nothing of the session stays behind, and its lock goes to the next.
Drop(s) ==
    /\ sess' = [sess EXCEPT ![s] = Idle]
    /\ Release(s)
    /\ UNCHANGED <<rows, stored, snaps, started>>

\* Another session has inserted the market in the meantime: an IntegrityError.
InsertConflict(s) ==
    /\ Running(s) /\ Free(s)
    /\ \E u \in Front(s) : u.insert /\ u.market \in stored
    /\ Drop(s)
    /\ UNCHANGED aborts

\* Sessions that wait in a circle: the database ends one of them.
BreakDeadlock(s) ==
    /\ \E S \in SUBSET Sessions :
        /\ s \in S
        /\ \A t \in S : (\E v \in S : Waits(t, v)) /\ (\E v \in S : Waits(v, t))
    /\ Drop(s)
    /\ UNCHANGED aborts

Commit(s) ==
    /\ Clean(s) /\ sess[s].todo = <<>>
    /\ LET W == sess[s].written IN
        /\ rows' = [m \in Markets |->
              IF \E u \in W : u.market = m
              THEN Merged(rows[m], CHOOSE u \in W : u.market = m) ELSE rows[m]]
        /\ stored' = stored \cup {u.market : u \in W}
    /\ snaps' = snaps \cup sess[s].shots
    /\ sess' = [sess EXCEPT ![s] = Idle]
    /\ Release(s)
    /\ UNCHANGED <<started, aborts>>

\* An exception that is not an httpx.HTTPError, a cancelled request, the end of the process.
Abort(s) ==
    /\ sess[s].phase # "idle" /\ aborts < MaxAborts
    /\ aborts' = aborts + 1
    /\ Drop(s)

Step(s) ==
    \/ Fetch(s) \/ SyncMarket(s) \/ RefreshMarkets(s) \/ WatchMarket(s)
    \/ InsertConflict(s) \/ BreakDeadlock(s) \/ Commit(s)

Next == \E s \in Sessions : Request(s) \/ StartWatch(s) \/ Step(s) \/ Flush(s) \/ Abort(s)

Spec == Init /\ [][Next]_vars

\* HTTP calls time out, and the database hands a row to whoever has waited longest for it.
FairSpec == Spec /\ \A s \in Sessions : WF_vars(Step(s)) /\ SF_vars(Flush(s))

-----------------------------------------------------------------------------
(* Properties *)

TypeOK ==
    /\ rows \in [Markets -> Row]
    /\ stored \subseteq Markets
    /\ snaps \subseteq Snapshot
    /\ lock \in [Processes -> Seq(Sessions)]
    /\ sess \in [Sessions -> Session]
    /\ started \in 0 .. MaxStarts
    /\ aborts \in 0 .. MaxAborts

\* Outside the watchlists the bid, the ask and the last price in a row are those of one and the
\* same book, and that book has a snapshot, even though rows are written column by column: syncs
\* and refreshes of one process take turns.
QuotesAgree ==
    \A m \in Markets \ Watched :
        LET book == [bid |-> rows[m].bid, ask |-> rows[m].ask] IN
        /\ rows[m].last = Mid(book)
        /\ Shots(m, book) \subseteq snaps

\* All syncs and refreshes run in one process, as on a server of one's own.
OneProcess == \A s, t \in Syncs \cup Refreshers : ProcessOf[s] = ProcessOf[t]

\* Whoever writes, and however writes interleave, each price in a row stands in a snapshot of
\* the market: what a trade was offered is there for settlement and lag analysis to find.
QuotesEvidenced ==
    \A m \in Markets :
        /\ rows[m].bid # None => \E x \in snaps : x.market = m /\ x.bid = rows[m].bid
        /\ rows[m].ask # None => \E x \in snaps : x.market = m /\ x.ask = rows[m].ask
        /\ rows[m].last # None => \E x \in snaps : x.market = m /\ Mid(x) = rows[m].last

\* No write makes a market lose its winner, not even one that was prepared before the winner
\* was known.  Settlement relies on it.
WinnerKept == [][\A m \in Markets : rows[m].winner # None => rows'[m].winner # None]_vars

\* A sync or refresh that was asked for ends, whoever else holds the lock or the rows.
SyncEnds == \A s \in Sessions : sess[s].phase # "idle" ~> sess[s].phase = "idle"
=============================================================================
