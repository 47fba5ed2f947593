------------------------- MODULE WatchlistMonitorProofs -------------------------
(***************************************************************************)
(* What holds of the watchlist monitor however many passes overlap, for    *)
(* every set of markets and every course of the exchange.                  *)
(***************************************************************************)
EXTENDS WatchlistMonitor, FiniteSetTheorems, TLAPS

\* Where a pass is: it asks for one market's book at a time, below its limit.
PassOK(r) ==
  /\ r \in Passes
  /\ IsFiniteSet(r.new) /\ Cardinality(r.new) <= MaxTrades
  /\ IF r.phase \in {"source", "fill"}
     THEN r.market \in Markets /\ Cardinality(r.new) < MaxTrades
     ELSE r.market = None

PassInv ==
  /\ pass \in [Monitors -> Passes]
  /\ \A p \in Monitors : PassOK(pass[p])

\* A pass that will add a trade of a market unless it fails.
Holds(p, m) == m \in pass[p].new \/ pass[p].market = m
Holders(m)  == {p \in Monitors : Holds(p, m)}

\* A market has as many trades, committed or on their way, as there are monitors at most: whoever
\* takes up a market has seen that it has none.
HolderInv == \A m \in Markets : trades[m] + Cardinality(Holders(m)) <= Cardinality(Monitors)

PlainTypes ==
  /\ quote \in [Markets -> Quotes] /\ changes \in 0..MaxChanges /\ failures \in 0..MaxFailures
  /\ row \in [Markets -> Rows] /\ snap \in [Markets -> Snapshots]
  /\ source \in BOOLEAN /\ signalled \subseteq Markets /\ trades \in [Markets -> Nat]

LEMMA QuoteType ==
  ASSUME PlainTypes, NEW m \in Markets
  PROVE  /\ quote[m].bid \in Prices \cup {None}
         /\ quote[m].ask \in Prices \cup {None}
         /\ quote[m].spread \in Prices \cup {None}
         /\ quote[m].open \in BOOLEAN
<1>1. quote[m] \in [bid : Prices \cup {None}, ask : Prices \cup {None},
                     spread : Prices \cup {None}, open : BOOLEAN]
  BY MonitorAssumption DEF PlainTypes
<1>. QED  BY <1>1

LEMMA PlainStep ==
  ASSUME PlainTypes, PassInv, [Next]_vars
  PROVE  PlainTypes'
<1>. USE DEF PlainTypes
<1>0. MaxChanges \in Nat /\ MaxFailures \in Nat
  BY MonitorAssumption
<1>1. CASE UNCHANGED vars
  BY <1>1 DEF vars, tables
<1>2. ASSUME NEW m \in Markets, Move(m) PROVE PlainTypes'
  BY <1>0, <1>2, MonitorAssumption DEF Move, tables
<1>3. ASSUME NEW m \in Markets, Sync(m) PROVE PlainTypes'
  <2>1. PICK asked \in BOOLEAN, newest \in BOOLEAN, auto \in BOOLEAN :
          /\ row' = [row EXCEPT ![m].open = quote[m].open, ![m].auto = auto,
                                ![m].bid = IF asked THEN quote[m].bid ELSE None,
                                ![m].ask = IF asked THEN quote[m].ask ELSE None]
          /\ snap' = IF asked /\ Priced(quote[m]) /\ (newest \/ snap[m] = NoSnapshot)
                     THEN [snap EXCEPT ![m] = Shown(quote[m])] ELSE snap
    BY <1>3 DEF Sync
  <2>2. Shown(quote[m]) \in Snapshots
    BY QuoteType DEF Shown, Snapshots
  <2>3. snap' \in [Markets -> Snapshots]
    BY <2>1, <2>2
  <2>4. row' \in [Markets -> Rows]
    <3>. DEFINE bid == IF asked THEN quote[m].bid ELSE None
                ask == IF asked THEN quote[m].ask ELSE None
    <3>1. /\ bid \in Prices \cup {None} /\ ask \in Prices \cup {None}
          /\ quote[m].open \in BOOLEAN
      BY QuoteType
    <3>2. row[m] \in Rows
      OBVIOUS
    <3>. HIDE DEF bid, ask
    <3>3. [row[m] EXCEPT !.open = quote[m].open, !.auto = auto, !.bid = bid, !.ask = ask]
            \in Rows
      BY <3>1, <3>2 DEF Rows
    <3>4. row' = [row EXCEPT ![m] = [row[m] EXCEPT !.open = quote[m].open, !.auto = auto,
                                                   !.bid = bid, !.ask = ask]]
      BY <2>1 DEF bid, ask
    <3>. QED  BY <3>3, <3>4
  <2>. QED  BY <1>0, <1>3, <2>3, <2>4 DEF Sync
<1>4. ASSUME NEW p \in Monitors, Watch(p) PROVE PlainTypes'
  <2>1. PICK answered \in SUBSET Markets, newest \in BOOLEAN :
          /\ failures' = IF answered = Markets /\ newest THEN failures ELSE failures + 1
          /\ failures' <= MaxFailures
          /\ row' = [m \in Markets |->
               IF m \notin answered THEN row[m]
               ELSE [listed |-> TRUE, auto |-> m \in AutoMarkets, open |-> quote[m].open,
                     bid |-> Prefer(quote[m].bid, row[m].bid),
                     ask |-> Prefer(quote[m].ask, row[m].ask)]]
          /\ snap' = [m \in Markets |->
               IF m \in answered /\ Priced(quote[m])
                    /\ (newest \/ snap[m] = NoSnapshot)
               THEN Shown(quote[m]) ELSE snap[m]]
    BY <1>4 DEF Watch
  <2>2. ASSUME NEW m \in Markets PROVE row'[m] \in Rows
    <3>1. row[m] \in Rows
      OBVIOUS
    <3>2. [listed |-> TRUE, auto |-> m \in AutoMarkets, open |-> quote[m].open,
           bid |-> Prefer(quote[m].bid, row[m].bid),
           ask |-> Prefer(quote[m].ask, row[m].ask)] \in Rows
      BY <3>1, QuoteType DEF Rows, Prefer
    <3>. QED  BY <2>1, <3>1, <3>2
  <2>3. row' \in [Markets -> Rows]
    BY <2>1, <2>2
  <2>4. ASSUME NEW m \in Markets PROVE snap'[m] \in Snapshots
    <3>1. Shown(quote[m]) \in Snapshots
      BY QuoteType DEF Shown, Snapshots
    <3>. QED  BY <2>1, <3>1
  <2>5. snap' \in [Markets -> Snapshots]
    BY <2>1, <2>4
  <2>6. failures' \in 0..MaxFailures
    BY <1>0, <2>1
  <2>. QED  BY <1>4, <2>3, <2>5, <2>6 DEF Watch
<1>5. CASE UNCHANGED <<quote, changes, failures, tables>>
  BY <1>5 DEF tables
<1>6. ASSUME NEW p \in Monitors, Commit(p) PROVE PlainTypes'
  <2>1. pass[p].source \in BOOLEAN /\ pass[p].signals \subseteq Markets
    BY DEF PassInv, Passes
  <2>2. trades' \in [Markets -> Nat]
    BY <1>6 DEF Commit
  <2>3. source' \in BOOLEAN
    BY <1>6, <2>1 DEF Commit, HasSource
  <2>. QED  BY <1>6, <2>1, <2>2, <2>3 DEF Commit
<1>7. ASSUME NEW p \in Monitors, Abort(p) PROVE PlainTypes'
  BY <1>0, <1>7 DEF Abort, tables
<1>. QED
  BY <1>1, <1>2, <1>3, <1>4, <1>5, <1>6, <1>7
     DEF Next, PassStep, Select, Skip, Probe,
         InsertSource, Conflict, Fill

\* What each action makes of the pass that takes it.
LEMMA PassTaken ==
  ASSUME PlainTypes, PassInv, NEW p \in Monitors,
         PassStep(p) \/ Abort(p)
  PROVE  \E r : PassOK(r) /\ pass' = [pass EXCEPT ![p] = r]
<1>1. PassOK(pass[p]) /\ pass[p] \in Passes /\ MaxTrades \in Nat \ {0}
  BY MonitorAssumption DEF PassInv
<1>2. PassOK(Idle)
  <2>1. Idle \in Passes
    BY DEF Idle, Passes, Phases, BlankRow, Rows
  <2>. QED  BY <1>1, <2>1, FS_EmptySet DEF PassOK, Idle
<1>3. CASE Watch(p)
  <2>1. PassOK([pass[p] EXCEPT !.phase = "watched"])
    BY <1>1, <1>3 DEF Watch, PassOK, Passes, Phases
  <2>. QED  BY <1>3, <2>1 DEF Watch
<1>4. CASE Select(p)
  <2>. DEFINE some == {m \in Markets : row[m].listed /\ row[m].open /\ row[m].ask # None}
  <2>1. row \in [Markets -> Rows] /\ some \in SUBSET Markets
    BY DEF PlainTypes
  <2>2. pass' = [pass EXCEPT ![p] = [pass[p] EXCEPT !.phase = "screen", !.todo = some, !.copy = row]]
    BY <1>4 DEF Select, PassInv
  <2>. HIDE DEF some
  <2>3. PassOK([pass[p] EXCEPT !.phase = "screen", !.todo = some, !.copy = row])
    BY <1>1, <1>4, <2>1 DEF Select, PassOK, Passes, Phases
  <2>. QED  BY <2>2, <2>3
<1>5. ASSUME NEW m \in Markets, Skip(p, m)
      PROVE  \E r : PassOK(r) /\ pass' = [pass EXCEPT ![p] = r]
  <2>. DEFINE rest == pass[p].todo \ {m}
  <2>1. rest \in SUBSET Markets
    BY <1>1 DEF Passes
  <2>2. pass' = [pass EXCEPT ![p] = [pass[p] EXCEPT !.todo = rest]]
    BY <1>5 DEF Skip, PassInv
  <2>. HIDE DEF rest
  <2>3. PassOK([pass[p] EXCEPT !.todo = rest])
    BY <1>1, <2>1 DEF PassOK, Passes
  <2>. QED  BY <2>2, <2>3
<1>6. ASSUME NEW m \in Markets, Probe(p, m)
      PROVE  \E r : PassOK(r) /\ pass' = [pass EXCEPT ![p] = r]
  <2>. DEFINE rest == pass[p].todo \ {m}
              to == IF HasSource(p) THEN "fill" ELSE "source"
              sigs == IF HasSource(p) THEN pass[p].signals \cup {m} ELSE pass[p].signals
  <2>1. rest \in SUBSET Markets /\ sigs \in SUBSET Markets /\ to \in {"source", "fill"}
    BY <1>1 DEF Passes
  <2>2. pass' = [pass EXCEPT ![p] = [pass[p] EXCEPT
          !.phase = to, !.todo = rest, !.market = m, !.signals = sigs]]
    BY <1>6 DEF Probe
  <2>3. Cardinality(pass[p].new) < MaxTrades
    BY <1>6 DEF Probe, IsNext, MayProbe, Created
  <2>. HIDE DEF rest, to, sigs
  <2>4. PassOK([pass[p] EXCEPT !.phase = to, !.todo = rest, !.market = m, !.signals = sigs])
    BY <1>1, <2>1, <2>3 DEF PassOK, Passes, Phases
  <2>. QED  BY <2>2, <2>4
<1>7. CASE InsertSource(p)
  <2>. DEFINE sigs == pass[p].signals \cup {pass[p].market}
  <2>1. sigs \in SUBSET Markets
    BY <1>1, <1>7 DEF InsertSource, PassOK, Passes
  <2>2. pass' = [pass EXCEPT ![p] = [pass[p] EXCEPT
          !.phase = "fill", !.source = TRUE, !.signals = sigs]]
    BY <1>7 DEF InsertSource
  <2>. HIDE DEF sigs
  <2>3. PassOK([pass[p] EXCEPT !.phase = "fill", !.source = TRUE, !.signals = sigs])
    BY <1>1, <1>7, <2>1 DEF InsertSource, PassOK, Passes, Phases
  <2>. QED  BY <2>2, <2>3
<1>8. CASE Fill(p)
  <2>1. PICK filled \in BOOLEAN : pass' = [pass EXCEPT ![p] = [pass[p] EXCEPT
          !.phase = "screen", !.market = None,
          !.new = IF filled THEN pass[p].new \cup {pass[p].market} ELSE pass[p].new]]
    BY <1>8 DEF Fill
  <2>. DEFINE more == IF filled THEN pass[p].new \cup {pass[p].market} ELSE pass[p].new
  <2>2. /\ pass[p].market \in Markets /\ Cardinality(pass[p].new) < MaxTrades
        /\ IsFiniteSet(pass[p].new) /\ pass[p].new \subseteq Markets
    BY <1>1, <1>8 DEF Fill, PassOK, Passes
  <2>3. Cardinality(pass[p].new) \in Nat
    BY <2>2, FS_CardinalityType
  <2>4. /\ IsFiniteSet(pass[p].new \cup {pass[p].market})
        /\ Cardinality(pass[p].new \cup {pass[p].market}) <= Cardinality(pass[p].new) + 1
    <3>. DEFINE old == pass[p].new  mkt == pass[p].market
    <3>. HIDE DEF old, mkt
    <3>1. IsFiniteSet(old) /\ Cardinality(old) \in Nat
      BY <2>2, <2>3 DEF old
    <3>2. IsFiniteSet(old \cup {mkt}) /\ Cardinality(old \cup {mkt}) <= Cardinality(old) + 1
      BY <3>1, FS_AddElement
    <3>. QED  BY <3>2 DEF old, mkt
  <2>5. Cardinality(pass[p].new \cup {pass[p].market}) \in Nat
    BY <2>4, FS_CardinalityType
  <2>6. IsFiniteSet(more) /\ Cardinality(more) <= MaxTrades /\ more \subseteq Markets
    <3>1. CASE filled
      BY <1>1, <2>2, <2>3, <2>4, <2>5, <3>1
    <3>2. CASE ~filled
      BY <1>1, <2>2, <2>3, <3>2
    <3>. QED  BY <3>1, <3>2
  <2>. HIDE DEF more
  <2>7. PassOK([pass[p] EXCEPT !.phase = "screen", !.market = None, !.new = more])
    BY <1>1, <2>6 DEF PassOK, Passes, Phases
  <2>. QED  BY <2>1, <2>7 DEF more
<1>9. CASE Conflict(p) \/ Commit(p) \/ Abort(p)
  BY <1>2, <1>9 DEF Conflict, Commit, Abort
<1>. QED
  BY <1>3, <1>4, <1>5, <1>6, <1>7, <1>8, <1>9 DEF PassStep

LEMMA PassInvStep ==
  ASSUME PlainTypes, PassInv, [Next]_vars
  PROVE  PassInv'
<1>1. CASE UNCHANGED pass
  BY <1>1 DEF PassInv
<1>2. ASSUME NEW p \in Monitors, PassStep(p) \/ Abort(p)
      PROVE  PassInv'
  <2>1. PICK r : PassOK(r) /\ pass' = [pass EXCEPT ![p] = r]
    BY <1>2, PassTaken
  <2>2. r \in Passes
    BY <2>1 DEF PassOK
  <2>3. pass' \in [Monitors -> Passes]
    BY <2>1, <2>2 DEF PassInv
  <2>4. ASSUME NEW q \in Monitors PROVE PassOK(pass[q])'
    <3>1. PassOK(pass'[q])
      BY <2>1 DEF PassInv
    <3>. QED  BY <3>1 DEF PassOK
  <2>. QED  BY <2>3, <2>4 DEF PassInv
<1>. QED
  BY <1>1, <1>2 DEF Next, vars, Move, Sync

\* What holds of a market still holds when a pass lets go of it or of others.
LEMMA LetGo ==
  ASSUME PassInv, HolderInv, NEW p \in Monitors, NEW r, NEW m \in Markets,
         pass' = [pass EXCEPT ![p] = r], trades'[m] = trades[m], trades[m] \in Nat,
         (m \in r.new \/ r.market = m) => Holds(p, m)
  PROVE  trades'[m] + Cardinality(Holders(m)') <= Cardinality(Monitors)
<1>1. IsFiniteSet(Monitors)
  BY MonitorAssumption
<1>2. Holders(m) \subseteq Monitors
  BY DEF Holders
<1>3. Holders(m)' \subseteq Holders(m)
  BY DEF Holders, Holds, PassInv
<1>4. IsFiniteSet(Holders(m))
  BY <1>1, <1>2, FS_Subset
<1>5. IsFiniteSet(Holders(m)') /\ Cardinality(Holders(m)') <= Cardinality(Holders(m))
  BY <1>3, <1>4, FS_Subset
<1>6. /\ Cardinality(Holders(m)') \in Nat /\ Cardinality(Holders(m)) \in Nat
      /\ Cardinality(Monitors) \in Nat
  BY <1>1, <1>4, <1>5, FS_CardinalityType
<1>. QED  BY <1>5, <1>6 DEF HolderInv

LEMMA ProbeKeeps ==
  ASSUME PlainTypes, PassInv, HolderInv, NEW p \in Monitors,
         NEW m \in Markets, Probe(p, m)
  PROVE  HolderInv'
<1>1. PICK r : pass' = [pass EXCEPT ![p] = r] /\ r.new = pass[p].new /\ r.market = m
  <2>. DEFINE r == [pass[p] EXCEPT
       !.phase = IF HasSource(p) THEN "fill" ELSE "source",
       !.todo = pass[p].todo \ {m}, !.market = m,
       !.signals = IF HasSource(p) THEN pass[p].signals \cup {m} ELSE pass[p].signals]
  <2>1. pass' = [pass EXCEPT ![p] = r]
    BY DEF Probe
  <2>2. r.new = pass[p].new /\ r.market = m
    BY DEF PassInv, Passes
  <2>. HIDE DEF r
  <2>. QED  BY <2>1, <2>2
<1>2. trades' = trades /\ trades \in [Markets -> Nat]
  BY DEF Probe, tables, PlainTypes
<1>3. trades'[m] + Cardinality(Holders(m)') <= Cardinality(Monitors)
  <2>1. trades'[m] = 0
    BY <1>2 DEF Probe, Fit, AlreadyTraded
  <2>2. Holders(m)' \subseteq Monitors
    BY DEF Holders
  <2>3. IsFiniteSet(Monitors)
    BY MonitorAssumption
  <2>4. IsFiniteSet(Holders(m)') /\ Cardinality(Holders(m)') <= Cardinality(Monitors)
    BY <2>2, <2>3, FS_Subset
  <2>5. Cardinality(Holders(m)') \in Nat /\ Cardinality(Monitors) \in Nat
    BY <2>3, <2>4, FS_CardinalityType
  <2>. QED  BY <2>1, <2>4, <2>5
<1>4. ASSUME NEW n \in Markets, n # m
      PROVE  trades'[n] + Cardinality(Holders(n)') <= Cardinality(Monitors)
  BY <1>1, <1>2, <1>4, LetGo DEF Holds
<1>. QED  BY <1>3, <1>4 DEF HolderInv

LEMMA CommitKeeps ==
  ASSUME PlainTypes, PassInv, HolderInv, NEW p \in Monitors,
         Commit(p)
  PROVE  HolderInv'
<1>1. /\ pass' = [pass EXCEPT ![p] = Idle]
      /\ trades' = [m \in Markets |-> IF m \in pass[p].new THEN trades[m] + 1 ELSE trades[m]]
  BY DEF Commit
<1>2. trades \in [Markets -> Nat]
  BY DEF PlainTypes
<1>3. ASSUME NEW m \in Markets
      PROVE  ~(m \in Idle.new \/ Idle.market = m)
  BY MonitorAssumption DEF Idle
<1>4. ASSUME NEW m \in Markets, m \notin pass[p].new
      PROVE  trades'[m] + Cardinality(Holders(m)') <= Cardinality(Monitors)
  BY <1>1, <1>2, <1>3, <1>4, LetGo
<1>5. ASSUME NEW m \in Markets, m \in pass[p].new
      PROVE  trades'[m] + Cardinality(Holders(m)') <= Cardinality(Monitors)
  <2>1. p \in Holders(m) /\ Holders(m) \subseteq Monitors
    BY <1>5 DEF Holders, Holds
  <2>2. Holders(m)' = Holders(m) \ {p}
    BY <1>1, <1>3 DEF Holders, Holds, PassInv
  <2>3. IsFiniteSet(Monitors)
    BY MonitorAssumption
  <2>4. IsFiniteSet(Holders(m))
    BY <2>1, <2>3, FS_Subset
  <2>5. Cardinality(Holders(m)') = Cardinality(Holders(m)) - 1
    BY <2>1, <2>2, <2>4, FS_RemoveElement
  <2>6. Cardinality(Holders(m)) \in Nat /\ Cardinality(Monitors) \in Nat
    BY <2>3, <2>4, FS_CardinalityType
  <2>7. trades'[m] = trades[m] + 1 /\ trades[m] \in Nat
    BY <1>1, <1>2, <1>5
  <2>8. trades[m] + Cardinality(Holders(m)) <= Cardinality(Monitors)
    BY DEF HolderInv
  <2>. QED  BY <2>5, <2>6, <2>7, <2>8
<1>. QED  BY <1>4, <1>5 DEF HolderInv

\* Every other step of a pass only lets go, or keeps to the market it is at.
LEMMA OthersKeep ==
  ASSUME PlainTypes, PassInv, HolderInv, NEW p \in Monitors, NEW r,
         pass' = [pass EXCEPT ![p] = r], UNCHANGED trades,
         r.new \subseteq pass[p].new \cup {pass[p].market},
         r.market \in {None, pass[p].market}
  PROVE  HolderInv'
<1>1. ASSUME NEW m \in Markets
      PROVE  trades'[m] + Cardinality(Holders(m)') <= Cardinality(Monitors)
  <2>1. trades'[m] = trades[m] /\ trades[m] \in Nat
    BY DEF PlainTypes
  <2>2. (m \in r.new \/ r.market = m) => Holds(p, m)
    BY MonitorAssumption DEF Holds
  <2>. QED  BY <2>1, <2>2, LetGo
<1>. QED  BY <1>1 DEF HolderInv

LEMMA HolderStep ==
  ASSUME PlainTypes, PassInv, HolderInv, [Next]_vars
  PROVE  HolderInv'
<1>1. CASE UNCHANGED <<trades, pass>>
  BY <1>1 DEF HolderInv, Holders, Holds
<1>2. ASSUME NEW p \in Monitors, Watch(p) PROVE HolderInv'
  <2>. DEFINE r == [pass[p] EXCEPT !.phase = "watched"]
  <2>1. pass' = [pass EXCEPT ![p] = r] /\ UNCHANGED trades
    BY <1>2 DEF Watch
  <2>2. r.new = pass[p].new /\ r.market = pass[p].market
    BY DEF PassInv, Passes
  <2>. HIDE DEF r
  <2>. QED  BY <2>1, <2>2, OthersKeep
<1>3. ASSUME NEW p \in Monitors, Select(p) PROVE HolderInv'
  <2>. DEFINE r == [pass[p] EXCEPT !.phase = "screen",
         !.todo = {m \in Markets : row[m].listed /\ row[m].open /\ row[m].ask # None},
         !.copy = row]
  <2>1. pass' = [pass EXCEPT ![p] = r] /\ UNCHANGED trades
    BY <1>3 DEF Select, tables, PassInv
  <2>2. r.new = pass[p].new /\ r.market = pass[p].market
    BY DEF PassInv, Passes
  <2>. HIDE DEF r
  <2>. QED  BY <2>1, <2>2, OthersKeep
<1>4. ASSUME NEW p \in Monitors, NEW m \in Markets, Skip(p, m) PROVE HolderInv'
  <2>. DEFINE r == [pass[p] EXCEPT !.todo = pass[p].todo \ {m}]
  <2>1. pass' = [pass EXCEPT ![p] = r] /\ UNCHANGED trades
    BY <1>4 DEF Skip, tables, PassInv
  <2>2. r.new = pass[p].new /\ r.market = pass[p].market
    BY DEF PassInv, Passes
  <2>. HIDE DEF r
  <2>. QED  BY <2>1, <2>2, OthersKeep
<1>5. ASSUME NEW p \in Monitors, InsertSource(p) PROVE HolderInv'
  <2>. DEFINE r == [pass[p] EXCEPT
         !.phase = "fill", !.source = TRUE, !.signals = pass[p].signals \cup {pass[p].market}]
  <2>1. pass' = [pass EXCEPT ![p] = r] /\ UNCHANGED trades
    BY <1>5 DEF InsertSource, tables
  <2>2. r.new = pass[p].new /\ r.market = pass[p].market
    BY DEF PassInv, Passes
  <2>. HIDE DEF r
  <2>. QED  BY <2>1, <2>2, OthersKeep
<1>6. ASSUME NEW p \in Monitors, Fill(p) PROVE HolderInv'
  <2>1. PICK filled \in BOOLEAN : pass' = [pass EXCEPT ![p] = [pass[p] EXCEPT
          !.phase = "screen", !.market = None,
          !.new = IF filled THEN pass[p].new \cup {pass[p].market} ELSE pass[p].new]]
    BY <1>6 DEF Fill
  <2>. DEFINE r == [pass[p] EXCEPT
         !.phase = "screen", !.market = None,
         !.new = IF filled THEN pass[p].new \cup {pass[p].market} ELSE pass[p].new]
  <2>2. r.new \subseteq pass[p].new \cup {pass[p].market} /\ r.market = None
    BY DEF PassInv, Passes
  <2>3. pass' = [pass EXCEPT ![p] = r] /\ UNCHANGED trades
    BY <1>6, <2>1 DEF Fill, tables
  <2>. HIDE DEF r
  <2>. QED  BY <2>2, <2>3, OthersKeep
<1>7. ASSUME NEW p \in Monitors, Conflict(p) \/ Abort(p) PROVE HolderInv'
  <2>1. pass' = [pass EXCEPT ![p] = Idle] /\ UNCHANGED trades
    BY <1>7 DEF Conflict, Abort, tables
  <2>2. Idle.new = {} /\ Idle.market = None
    BY DEF Idle
  <2>. QED  BY <2>1, <2>2, OthersKeep
<1>. QED
  BY <1>1, <1>2, <1>3, <1>4, <1>5, <1>6, <1>7, ProbeKeeps, CommitKeeps
     DEF Next, PassStep, vars, tables, Move, Sync

LEMMA MonitorInvHolds == Spec => [](PlainTypes /\ PassInv /\ HolderInv)
<1>1. Init => PlainTypes /\ PassInv /\ HolderInv
  <2>. SUFFICES ASSUME Init PROVE PlainTypes /\ PassInv /\ HolderInv
    OBVIOUS
  <2>1. PlainTypes
    <3>1. BlankRow \in Rows /\ NoSnapshot \in Snapshots
      BY DEF BlankRow, Rows, NoSnapshot, Snapshots
    <3>2. MaxChanges \in Nat /\ MaxFailures \in Nat /\ FirstQuote \in [Markets -> Quotes]
      BY MonitorAssumption
    <3>3. /\ quote = FirstQuote /\ changes = 0 /\ failures = 0 /\ source = FALSE /\ signalled = {}
          /\ row = [m \in Markets |-> BlankRow] /\ trades = [m \in Markets |-> 0]
          /\ snap = [m \in Markets |-> NoSnapshot]
      BY DEF Init
    <3>4. row \in [Markets -> Rows] /\ snap \in [Markets -> Snapshots]
      BY <3>1, <3>3
    <3>5. trades \in [Markets -> Nat]
      BY <3>3
    <3>6. quote \in [Markets -> Quotes] /\ changes \in 0..MaxChanges /\ failures \in 0..MaxFailures
      BY <3>2, <3>3
    <3>7. source \in BOOLEAN /\ signalled \subseteq Markets
      BY <3>3
    <3>. QED  BY <3>4, <3>5, <3>6, <3>7 DEF PlainTypes
  <2>2. PassOK(Idle) /\ Idle \in Passes
    <3>1. Idle \in Passes
      BY DEF Idle, Passes, Phases, BlankRow, Rows
    <3>2. MaxTrades \in Nat
      BY MonitorAssumption
    <3>. QED  BY <3>1, <3>2, FS_EmptySet DEF PassOK, Idle
  <2>3. pass = [p \in Monitors |-> Idle]
    BY DEF Init
  <2>4. PassInv
    BY <2>2, <2>3 DEF PassInv
  <2>5. ASSUME NEW m \in Markets
        PROVE  trades[m] + Cardinality(Holders(m)) <= Cardinality(Monitors)
    <3>1. Holders(m) = {}
      BY <2>3, MonitorAssumption DEF Holders, Holds, Idle
    <3>2. trades[m] = 0
      BY DEF Init
    <3>3. Cardinality(Monitors) \in Nat
      BY MonitorAssumption, FS_CardinalityType
    <3>. QED  BY <3>1, <3>2, <3>3, FS_EmptySet
  <2>. QED  BY <2>1, <2>4, <2>5 DEF HolderInv
<1>2. PlainTypes /\ PassInv /\ HolderInv /\ [Next]_vars
        => (PlainTypes /\ PassInv /\ HolderInv)'
  BY PlainStep, PassInvStep, HolderStep
<1>. QED  BY <1>1, <1>2, PTL DEF Spec

\* The tables and the passes have their types, and a pass never has more trades than its limit.
THEOREM MonitorTyping == Spec => []TypeOK
<1>1. PlainTypes /\ PassInv /\ HolderInv => TypeOK
  BY DEF PlainTypes, PassInv, PassOK, TypeOK
<1>. QED  BY <1>1, MonitorInvHolds, PTL

\* However many monitors overlap and whatever fails, they never give a market more probe trades than
\* there are monitors; a monitor alone gives it one (_already_traded).
THEOREM ProbesBoundedHolds == Spec => []ProbesBounded
<1>1. PlainTypes /\ PassInv /\ HolderInv => ProbesBounded
  <2>. SUFFICES ASSUME PlainTypes, PassInv, HolderInv, NEW m \in Markets
                PROVE  trades[m] <= Cardinality(Monitors)
    BY DEF ProbesBounded
  <2>1. IsFiniteSet(Monitors) /\ Holders(m) \subseteq Monitors
    BY MonitorAssumption DEF Holders
  <2>2. Cardinality(Holders(m)) \in Nat /\ Cardinality(Monitors) \in Nat
    BY <2>1, FS_Subset, FS_CardinalityType
  <2>. QED  BY <2>2 DEF HolderInv, PlainTypes
<1>. QED  BY <1>1, MonitorInvHolds, PTL

================================================================================
