------------------------------ MODULE Settlement -------------------------------
(***************************************************************************)
(* The settlement of paper trades (app/jobs/settle_trades.py) against the  *)
(* market syncs that feed it (app/jobs/sync_markets.py).                   *)
(*                                                                         *)
(* Several settlement passes may run at once: the hourly loop, the warm    *)
(* start, the cron endpoint and the button of the UI each start one, in    *)
(* its own database session, and nothing excludes them from each other.    *)
(* A pass selects a batch, decides trade by trade with reads that see what *)
(* other sessions have committed by then, and commits all its decisions    *)
(* at the end.  Time is counted in ticks; every interval of the code       *)
(* (24 hours, the two-hour skew, the article age) is a number of ticks.    *)
(***************************************************************************)
EXTENDS Naturals, FiniteSets

CONSTANTS
  Trades,      \* paper trades that may come into being
  Live,        \* those opened by process_candidates; the others are backtests
  Markets,
  NoMarket,    \* no market
  Settlers,    \* sessions that may run a settlement pass
  MarketOf,    \* trade -> its market
  Answers,     \* market -> the winners Gamma may report of it
  SideOf,      \* trade -> "YES" (BUY_YES) or "NO" (BUY_NO)
  PubTime,     \* trade -> published_at of the article of its signal
  Horizon,     \* 24 hours
  MaxSkew,     \* settle_t24_snapshot_max_skew_seconds
  MaxAge,      \* max_article_age_minutes of the active threshold profile
  BatchLimit,  \* LIMIT of the settlement query
  MaxTime,     \* bound of the clock
  MaxSnaps,    \* bound on the snapshots taken of one market
  MaxAborts    \* bound on the settlement passes that die before their commit

(***************************************************************************)
(* The widest seeded profile accepts articles of 4 hours, the skew is 2    *)
(* hours and the horizon 24: a live trade is entered well before the       *)
(* earliest price that may settle it.                                      *)
(***************************************************************************)
ASSUME ConstantsAssumption ==
  /\ IsFiniteSet(Trades)
  /\ Live \subseteq Trades
  /\ NoMarket \notin Markets
  /\ MarketOf \in [Trades -> Markets]
  /\ Answers \in [Markets -> SUBSET {"YES", "NO"}]
  /\ SideOf \in [Trades -> {"YES", "NO"}]
  /\ PubTime \in [Trades -> Nat]
  /\ Horizon \in Nat /\ MaxSkew \in Nat /\ MaxAge \in Nat
  /\ MaxAge + MaxSkew < Horizon
  /\ BatchLimit \in Nat /\ MaxTime \in Nat /\ MaxSnaps \in Nat /\ MaxAborts \in Nat

VARIABLES
  clock,
  row,      \* paper_trades: the committed row of each trade
  winner,   \* markets.winning_outcome, "NONE" while it is null
  snaps,    \* price_snapshots: the committed snapshots of each market
  tx,       \* the sync in progress: markets it has upserted, what it will commit
  pc,       \* per settler: "idle" or "settling"
  todo,     \* per settler: the trades of its batch it has not reached
  plan,     \* per settler: the settlements it has decided and not committed
  seen,     \* per settler: the market row its session holds
  aborts    \* passes that died so far

dbVars      == <<row, winner, snaps>>
settlerVars == <<pc, todo, plan, seen>>
vars        == <<clock, row, winner, snaps, tx, pc, todo, plan, seen, aborts>>

--------------------------------------------------------------------------------
(* Rows and decisions.                                                      *)

Outcomes        == {"NONE", "YES", "NO"}
SettledStatuses == {"SETTLED_RESOLVED", "SETTLED_T24H"}
Snapshots       == [ts : Nat, mid : BOOLEAN]
Rows            == [status : {"NONE", "OPEN"} \cup SettledStatuses,
                    created : Nat, openedAt : Nat, price : {0, 1}, markTs : Nat]
Decisions       == [status : {"OPEN"} \cup SettledStatuses,
                    price : {0, 1}, markTs : Nat]

Undecided     == [status |-> "OPEN", price |-> 0, markTs |-> 0]
Resolved(t, w) == [status |-> "SETTLED_RESOLVED",
                   price |-> IF SideOf[t] = w THEN 1 ELSE 0, markTs |-> 0]
Marked(s)      == [status |-> "SETTLED_T24H", price |-> 0, markTs |-> s.ts]

EmptyTx == [done |-> {}, win |-> [m \in Markets |-> "NONE"],
            snaps |-> [m \in Markets |-> {}]]
NoRow   == [market |-> NoMarket, winner |-> "NONE"]

TypeOK ==
  /\ clock \in Nat
  /\ row \in [Trades -> Rows]
  /\ winner \in [Markets -> Outcomes]
  /\ snaps \in [Markets -> SUBSET Snapshots]
  /\ tx \in [done : SUBSET Markets, win : [Markets -> Outcomes],
             snaps : [Markets -> SUBSET Snapshots]]
  /\ pc \in [Settlers -> {"idle", "settling"}]
  /\ todo \in [Settlers -> SUBSET Trades]
  /\ plan \in [Settlers -> [Trades -> Decisions]]
  /\ seen \in [Settlers -> [market : Markets \cup {NoMarket}, winner : Outcomes]]
  /\ aborts \in Nat

Init ==
  /\ clock = 0
  /\ row = [t \in Trades |-> [status |-> "NONE", created |-> 0, openedAt |-> 0,
                              price |-> 0, markTs |-> 0]]
  /\ winner = [m \in Markets |-> "NONE"]
  /\ snaps = [m \in Markets |-> {}]
  /\ tx = EmptyTx
  /\ pc = [p \in Settlers |-> "idle"]
  /\ todo = [p \in Settlers |-> {}]
  /\ plan = [p \in Settlers |-> [t \in Trades |-> Undecided]]
  /\ seen = [p \in Settlers |-> NoRow]
  /\ aborts = 0

--------------------------------------------------------------------------------
(* The rest of the system: time, new trades, market syncs.                  *)

Tick ==
  /\ clock < MaxTime
  /\ clock' = clock + 1
  /\ UNCHANGED <<row, winner, snaps, tx, pc, todo, plan, seen, aborts>>

\* A trade is committed.  The age gate bounds how long after its article a
\* live trade can be; a backtest replays articles of any age.
OpenTrade(t) ==
  /\ row[t].status = "NONE"
  /\ PubTime[t] <= clock
  /\ t \in Live => clock <= PubTime[t] + MaxAge
  /\ row' = [row EXCEPT ![t] =
               [status |-> "OPEN", openedAt |-> clock, price |-> 0, markTs |-> 0,
                created |-> 1 + Cardinality({u \in Trades : row[u].status # "NONE"})]]
  /\ UNCHANGED <<clock, winner, snaps, tx, settlerVars, aborts>>

\* The sync upserts market m: a known winner w replaces the stored one, an
\* unknown one leaves it alone; a snapshot is added when a side of the book is
\* quoted, with a mid only when both are.  The snapshots of a market have distinct
\* timestamps.  Nothing is visible before the commit.
SyncMarket(m, w, quote) ==
  /\ m \notin tx.done
  /\ w \in Answers[m] \cup {"NONE"}
  /\ quote # "none" => /\ Cardinality(snaps[m]) < MaxSnaps
                       /\ \A s \in snaps[m] : s.ts < clock
  /\ tx' = [done  |-> tx.done \cup {m},
            win   |-> [tx.win EXCEPT ![m] = w],
            snaps |-> [tx.snaps EXCEPT ![m] =
                         IF quote = "none" THEN {}
                         ELSE {[ts |-> clock, mid |-> quote = "both"]}]]
  /\ UNCHANGED <<clock, dbVars, settlerVars, aborts>>

\* Mutant: a sync that does not see the winner clears it.
SyncCommit_Forgets ==
  /\ tx.done # {}
  /\ winner' = [m \in Markets |-> IF m \in tx.done THEN tx.win[m] ELSE winner[m]]
  /\ snaps' = [m \in Markets |-> snaps[m] \cup tx.snaps[m]]
  /\ tx' = EmptyTx
  /\ UNCHANGED <<clock, row, settlerVars, aborts>>

SyncCommit ==
  /\ tx.done # {}
  /\ winner' = [m \in Markets |-> IF tx.win[m] = "NONE" THEN winner[m] ELSE tx.win[m]]
  /\ snaps' = [m \in Markets |-> snaps[m] \cup tx.snaps[m]]
  /\ tx' = EmptyTx
  /\ UNCHANGED <<clock, row, settlerVars, aborts>>

SyncRollback ==
  /\ tx.done # {}
  /\ tx' = EmptyTx
  /\ UNCHANGED <<clock, dbVars, settlerVars, aborts>>

--------------------------------------------------------------------------------
(* A settlement pass.                                                       *)

SettleTime(t) == PubTime[t] + Horizon

\* The WHERE clause: open, and resolved or published at least 24 hours ago.
Due      == {t \in Trades : winner[MarketOf[t]] # "NONE" \/ SettleTime(t) <= clock}

\* Mutant: the query forgets the due time.
Eligible_Early == {t \in Trades : row[t].status = "OPEN"}

Eligible == {t \in Due : row[t].status = "OPEN"}

\* ORDER BY created_at LIMIT n.
Oldest(S, n) ==
  {t \in S : Cardinality({u \in S : row[u].created < row[t].created}) < n}

SelectBatch(p) ==
  /\ pc[p] = "idle"
  /\ pc' = [pc EXCEPT ![p] = "settling"]
  /\ todo' = [todo EXCEPT ![p] = Oldest(Eligible, BatchLimit)]
  /\ UNCHANGED <<clock, dbVars, tx, plan, seen, aborts>>

Reached(p, t) ==
  /\ pc[p] = "settling"
  /\ t \in todo[p]
  /\ \A u \in todo[p] : row[t].created <= row[u].created

\* session.get answers from the row the previous iteration still holds, and
\* asks the database for any other market.
WinnerRead(p, m) == IF seen[p].market = m THEN seen[p].winner ELSE winner[m]

Newest(S) == {s \in S : \A r \in S : r.ts <= s.ts}
First(S)  == {s \in S : \A r \in S : s.ts <= r.ts}

\* Mutant: the first query sorts ascending.
MarkCandidates_Ascending(t) ==
  LET S      == snaps[MarketOf[t]]
      before == First({s \in S : s.ts <= SettleTime(t)})
      after  == First({s \in S : /\ SettleTime(t) < s.ts
                                 /\ s.ts <= SettleTime(t) + MaxSkew})
  IN  IF \E s \in before : s.mid THEN before ELSE after

\* The snapshots the two queries can end up with: the newest one at or before
\* the settle time; if there is none or it has no mid, the first one after it.
MarkCandidates(t) ==
  LET S      == snaps[MarketOf[t]]
      before == Newest({s \in S : s.ts <= SettleTime(t)})
      after  == First({s \in S : /\ SettleTime(t) < s.ts
                                 /\ s.ts <= SettleTime(t) + MaxSkew})
  IN  IF \E s \in before : s.mid THEN before ELSE after

\* Mutant: a snapshot of any age before the settle time will do.
Usable_AnyAge(s, t) == s.mid /\ PubTime[t] < s.ts /\ s.ts <= SettleTime(t) + MaxSkew

\* The checks a snapshot must pass: a mid, after the article, within the skew.
Usable(s, t) ==
  /\ s.mid
  /\ PubTime[t] < s.ts
  /\ s.ts <= SettleTime(t) + MaxSkew
  /\ SettleTime(t) <= s.ts + MaxSkew

MoveOn(p, t) ==
  /\ todo' = [todo EXCEPT ![p] = @ \ {t}]
  /\ seen' = [seen EXCEPT ![p] = [market |-> MarketOf[t],
                                  winner |-> WinnerRead(p, MarketOf[t])]]
  /\ UNCHANGED <<clock, dbVars, tx, pc, aborts>>

SettleResolved(p, t) ==
  /\ Reached(p, t)
  /\ WinnerRead(p, MarketOf[t]) # "NONE"
  /\ plan' = [plan EXCEPT ![p][t] = Resolved(t, WinnerRead(p, MarketOf[t]))]
  /\ MoveOn(p, t)

SettleAtMark(p, t) ==
  /\ Reached(p, t)
  /\ WinnerRead(p, MarketOf[t]) = "NONE"
  /\ \E s \in MarkCandidates(t) :
        /\ Usable(s, t)
        /\ plan' = [plan EXCEPT ![p][t] = Marked(s)]
  /\ MoveOn(p, t)

SkipTrade(p, t) ==
  /\ Reached(p, t)
  /\ WinnerRead(p, MarketOf[t]) = "NONE"
  /\ \A s \in MarkCandidates(t) : ~Usable(s, t)
  /\ MoveOn(p, t)
  /\ UNCHANGED plan

\* Mutant: the session outlives the pass and keeps the market row it holds.
Retire_KeepsRow(p) ==
  /\ pc' = [pc EXCEPT ![p] = "idle"]
  /\ todo' = [todo EXCEPT ![p] = {}]
  /\ plan' = [plan EXCEPT ![p] = [t \in Trades |-> Undecided]]
  /\ UNCHANGED seen

Retire(p) ==
  /\ pc' = [pc EXCEPT ![p] = "idle"]
  /\ todo' = [todo EXCEPT ![p] = {}]
  /\ plan' = [plan EXCEPT ![p] = [t \in Trades |-> Undecided]]
  /\ seen' = [seen EXCEPT ![p] = NoRow]

\* What the UPDATEs of a pass write: by primary key, whatever the row holds now.
Settled(p, t) ==
  [row[t] EXCEPT !.status = plan[p][t].status, !.price = plan[p][t].price,
                 !.markTs = plan[p][t].markTs]

CommitSettlement(p) ==
  /\ pc[p] = "settling"
  /\ todo[p] = {}
  /\ row' = [t \in Trades |-> IF plan[p][t].status = "OPEN" THEN row[t] ELSE Settled(p, t)]
  /\ Retire(p)
  /\ UNCHANGED <<clock, winner, snaps, tx, aborts>>

\* The pass raises, is cancelled or its process dies: the session rolls back.
AbortSettlement(p) ==
  /\ pc[p] = "settling"
  /\ aborts < MaxAborts
  /\ aborts' = aborts + 1
  /\ Retire(p)
  /\ UNCHANGED <<clock, dbVars, tx>>

SettleOne(p, t) == SettleResolved(p, t) \/ SettleAtMark(p, t) \/ SkipTrade(p, t)

PassStep(p) ==
  \/ SelectBatch(p)
  \/ \E t \in Trades : SettleOne(p, t)
  \/ CommitSettlement(p)

Next ==
  \/ Tick
  \/ \E t \in Trades : OpenTrade(t)
  \/ \E m \in Markets, w \in Outcomes, q \in {"none", "one", "both"} : SyncMarket(m, w, q)
  \/ SyncCommit
  \/ SyncRollback
  \/ \E p \in Settlers : PassStep(p) \/ AbortSettlement(p)

Spec == Init /\ [][Next]_vars

\* The hourly loop, the cron and the warm start keep starting passes, and a
\* pass that is not killed runs to its commit; time passes.  Nothing obliges a
\* trade, a sync or a crash to happen.
Fairness ==
  /\ WF_vars(Tick)
  /\ \A p \in Settlers : WF_vars(PassStep(p))

FairSpec == Spec /\ Fairness
--------------------------------------------------------------------------------
(* The inductive invariants behind the safety properties.                   *)

\* A trade waiting in a batch is old enough, or its market is resolved and the
\* session does not hold an older, unresolved copy of that market.
BatchInv ==
  \A p \in Settlers : \A t \in todo[p] :
     /\ row[t].status # "NONE"
     /\ \/ SettleTime(t) <= clock
        \/ /\ winner[MarketOf[t]] # "NONE"
           /\ seen[p].market = MarketOf[t] => seen[p].winner # "NONE"

HeldInv ==
  \A p \in Settlers : seen[p].winner # "NONE" =>
     seen[p].market \in Markets /\ winner[seen[p].market] # "NONE"

\* A session that runs no pass holds no market and has decided nothing.
IdleInv ==
  \A p \in Settlers : pc[p] = "idle" =>
     seen[p] = NoRow /\ plan[p] = [t \in Trades |-> Undecided]

GoodMark(t, ts) ==
  /\ SettleTime(t) <= clock
  /\ SettleTime(t) <= ts + MaxSkew

PlanInv ==
  \A p \in Settlers, t \in Trades :
     /\ plan[p][t].status # "OPEN" => row[t].status # "NONE" /\ t \in Due
     /\ plan[p][t].status = "SETTLED_T24H" => GoodMark(t, plan[p][t].markTs)

RowInv ==
  \A t \in Trades :
     /\ row[t].status = "SETTLED_T24H" => GoodMark(t, row[t].markTs)
     /\ t \in Live /\ row[t].status # "NONE" => row[t].openedAt <= PubTime[t] + MaxAge

SafetyInv == TypeOK /\ IdleInv /\ BatchInv /\ HeldInv /\ PlanInv /\ RowInv

\* With one settler, what it has selected or decided is still open.
OneSettler == \A p, q \in Settlers : p = q

ExclusiveInv ==
  \A p \in Settlers, t \in Trades :
     t \in todo[p] \/ plan[p][t].status # "OPEN" => row[t].status = "OPEN"

--------------------------------------------------------------------------------
(* Properties.                                                              *)

\* A live trade settled at T+24h is marked at a price taken after its entry: no
\* pass settles a trade at a price that was known when the trade was opened.
NoHindsight ==
  \A t \in Live :
     row[t].status = "SETTLED_T24H" => row[t].openedAt < row[t].markTs

\* No trade is marked to market before 24 hours have passed since its article,
\* also when the pass selected it because its market had resolved.
NoEarlyMark ==
  \A t \in Trades : row[t].status = "SETTLED_T24H" => SettleTime(t) <= clock

\* However many passes overlap, none of them reopens a settled trade.
StaysSettled ==
  [][\A t \in Trades :
       row[t].status \in SettledStatuses => row'[t].status \in SettledStatuses]_vars

\* The settlement of a trade is final: no later commit changes its status, its
\* price or its mark.
Final ==
  [][\A t \in Trades : row[t].status \in SettledStatuses => row'[t] = row[t]]_vars

\* The job keeps the promise of TradeBook.
Book == [t \in Trades |-> [status |-> row[t].status, price |-> row[t].price,
                           markTs |-> row[t].markTs]]

Ledger == INSTANCE TradeBook WITH book <- Book, due <- Due

KeepsTheBook == Ledger!Spec

\* An open trade of a market known to be resolved is settled in the end, whatever
\* the other trades of the batch look like.
ResolvedIsSettled ==
  \A t \in Trades :
     row[t].status = "OPEN" /\ winner[MarketOf[t]] # "NONE"
        ~> row[t].status \in SettledStatuses

\* An open trade past its T+24h does not stay open for good while the snapshot
\* the query prefers is usable.
Markable(t) ==
  /\ row[t].status # "NONE"
  /\ SettleTime(t) <= clock
  /\ \E s \in Newest({x \in snaps[MarketOf[t]] : x.ts <= SettleTime(t)}) : Usable(s, t)

MarkableIsSettled ==
  \A t \in Trades : <>[]Markable(t) => <>(row[t].status \in SettledStatuses)
================================================================================
