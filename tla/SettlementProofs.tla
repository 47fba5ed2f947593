--------------------------- MODULE SettlementProofs ----------------------------
(* Proofs about settlement, for every number of trades, markets and sessions.  *)
EXTENDS Settlement, TLAPS, FiniteSetTheorems

\* Counting the trades that exist gives a natural number: OpenTrade ranks by it.
LEMMA CountIsNat ==
  ASSUME NEW S, S \subseteq Trades
  PROVE  Cardinality(S) \in Nat
BY ConstantsAssumption, FS_Subset, FS_CardinalityType

LEMMA NewRowIsRow ==
  ASSUME TypeOK, NEW t \in Trades, OpenTrade(t)
  PROVE  row' \in [Trades -> Rows]
<1>1. 1 + Cardinality({u \in Trades : row[u].status # "NONE"}) \in Nat
  BY CountIsNat
<1>. QED BY <1>1 DEF OpenTrade, TypeOK, Rows, SettledStatuses

LEMMA TypeInit == Init => TypeOK
BY ConstantsAssumption, SMT
   DEF Init, TypeOK, Rows, Decisions, EmptyTx, NoRow, Undecided, Outcomes, SettledStatuses

LEMMA TypeStep ==
  ASSUME TypeOK, [Next]_vars
  PROVE  TypeOK'
<1> USE ConstantsAssumption
<1>1. CASE Tick
  BY <1>1 DEF Tick, TypeOK
<1>2. ASSUME NEW t \in Trades, OpenTrade(t) PROVE TypeOK'
  BY <1>2, NewRowIsRow DEF OpenTrade, TypeOK, settlerVars
<1>3. ASSUME NEW m \in Markets, NEW w \in Outcomes, NEW q \in {"none", "one", "both"},
             SyncMarket(m, w, q)
      PROVE  TypeOK'
  <2>1. tx' \in [done : SUBSET Markets, win : [Markets -> Outcomes],
                 snaps : [Markets -> SUBSET Snapshots]]
    BY <1>3 DEF SyncMarket, TypeOK, Snapshots
  <2>. QED BY <1>3, <2>1 DEF SyncMarket, TypeOK, dbVars, settlerVars
<1>4. CASE SyncCommit
  <2>1. winner' \in [Markets -> Outcomes]
    BY <1>4 DEF SyncCommit, TypeOK
  <2>2. snaps' \in [Markets -> SUBSET Snapshots]
    BY <1>4 DEF SyncCommit, TypeOK
  <2>3. tx' \in [done : SUBSET Markets, win : [Markets -> Outcomes],
                 snaps : [Markets -> SUBSET Snapshots]]
    BY <1>4 DEF SyncCommit, EmptyTx, Outcomes
  <2>. QED BY <1>4, <2>1, <2>2, <2>3 DEF SyncCommit, TypeOK, settlerVars
<1>5. CASE SyncRollback
  <2>1. tx' \in [done : SUBSET Markets, win : [Markets -> Outcomes],
                 snaps : [Markets -> SUBSET Snapshots]]
    BY <1>5 DEF SyncRollback, EmptyTx, Outcomes
  <2>. QED BY <1>5, <2>1 DEF SyncRollback, TypeOK, dbVars, settlerVars
<1>6. ASSUME NEW p \in Settlers, SelectBatch(p) PROVE TypeOK'
  <2>1. Oldest(Eligible, BatchLimit) \subseteq Trades
    BY DEF Oldest, Eligible, Due
  <2>. QED BY <1>6, <2>1 DEF SelectBatch, TypeOK, dbVars
<1>7. ASSUME NEW p \in Settlers, NEW t \in Trades, SettleOne(p, t) PROVE TypeOK'
  <2>1. WinnerRead(p, MarketOf[t]) \in Outcomes
    BY DEF WinnerRead, TypeOK
  <2>2. MoveOn(p, t)
    BY <1>7 DEF SettleOne, SettleResolved, SettleAtMark, SkipTrade
  <2>3. /\ todo' \in [Settlers -> SUBSET Trades]
        /\ seen' \in [Settlers -> [market : Markets \cup {NoMarket}, winner : Outcomes]]
    BY <2>1, <2>2 DEF MoveOn, TypeOK
  <2>4. plan' \in [Settlers -> [Trades -> Decisions]]
    <3>1. Resolved(t, WinnerRead(p, MarketOf[t])) \in Decisions
      BY DEF Resolved, Decisions, SettledStatuses
    <3>2. \A s \in MarkCandidates(t) : Marked(s) \in Decisions
      BY DEF MarkCandidates, Newest, First, Marked, Decisions, SettledStatuses, TypeOK,
             Snapshots
    <3>3. CASE SettleResolved(p, t)
      BY <3>1, <3>3 DEF SettleResolved, TypeOK
    <3>4. CASE SettleAtMark(p, t)
      BY <3>2, <3>4 DEF SettleAtMark, TypeOK
    <3>5. CASE SkipTrade(p, t)
      BY <3>5 DEF SkipTrade, TypeOK
    <3>. QED BY <1>7, <3>3, <3>4, <3>5 DEF SettleOne
  <2>. QED BY <2>2, <2>3, <2>4 DEF MoveOn, TypeOK, dbVars
<1>8. ASSUME NEW p \in Settlers, Retire(p) PROVE
        /\ pc' \in [Settlers -> {"idle", "settling"}]
        /\ todo' \in [Settlers -> SUBSET Trades]
        /\ plan' \in [Settlers -> [Trades -> Decisions]]
        /\ seen' \in [Settlers -> [market : Markets \cup {NoMarket}, winner : Outcomes]]
  <2>1. [t \in Trades |-> Undecided] \in [Trades -> Decisions]
    BY DEF Undecided, Decisions
  <2>. QED BY <1>8, <2>1 DEF Retire, TypeOK, NoRow, Outcomes
<1>9. ASSUME NEW p \in Settlers, CommitSettlement(p) PROVE TypeOK'
  <2>1. ASSUME NEW t \in Trades PROVE Settled(p, t) \in Rows
    <3>1. row[t] \in Rows /\ plan[p][t] \in Decisions
      BY DEF TypeOK
    <3>. QED BY <3>1 DEF Settled, Rows, Decisions, SettledStatuses
  <2>2. row' \in [Trades -> Rows]
    BY <1>9, <2>1 DEF CommitSettlement, TypeOK
  <2>. QED BY <1>8, <1>9, <2>2 DEF CommitSettlement, TypeOK
<1>10. ASSUME NEW p \in Settlers, AbortSettlement(p) PROVE TypeOK'
  BY <1>8, <1>10 DEF AbortSettlement, TypeOK, dbVars
<1>11. CASE UNCHANGED vars
  BY <1>11 DEF vars, TypeOK
<1>. QED BY <1>1, <1>2, <1>3, <1>4, <1>5, <1>6, <1>7, <1>9, <1>10, <1>11
         DEF Next, PassStep

\* Every row, plan and session of the model has its type in every state.
THEOREM Typing == Spec => []TypeOK
BY TypeInit, TypeStep, PTL DEF Spec

--------------------------------------------------------------------------------

\* A sync never forgets a winner and the clock never goes back: what is due
\* stays due.
LEMMA DueSticks ==
  ASSUME TypeOK, [Next]_vars
  PROVE  /\ \A m \in Markets : winner[m] # "NONE" => winner'[m] # "NONE"
         /\ clock <= clock'
         /\ clock' \in Nat
<1> USE DEF TypeOK
<1>1. CASE Tick
  BY <1>1 DEF Tick
<1>2. CASE SyncCommit
  BY <1>2 DEF SyncCommit
<1>3. CASE SyncRollback
  BY <1>3 DEF SyncRollback, dbVars
<1>4. ASSUME NEW t \in Trades, OpenTrade(t) PROVE UNCHANGED <<winner, clock>>
  BY <1>4 DEF OpenTrade
<1>5. ASSUME NEW m \in Markets, NEW w \in Outcomes, NEW q \in {"none", "one", "both"},
             SyncMarket(m, w, q)
      PROVE  UNCHANGED <<winner, clock>>
  BY <1>5 DEF SyncMarket, dbVars
<1>6. ASSUME NEW p \in Settlers, PassStep(p) \/ AbortSettlement(p)
      PROVE  UNCHANGED <<winner, clock>>
  BY <1>6 DEF PassStep, AbortSettlement, SelectBatch, SettleOne, SettleResolved,
              SettleAtMark, SkipTrade, MoveOn, CommitSettlement, dbVars
<1>7. CASE UNCHANGED vars
  BY <1>7 DEF vars
<1>. QED BY <1>1, <1>2, <1>3, <1>4, <1>5, <1>6, <1>7 DEF Next

\* The part of a step that touches no settler: trades appear, syncs commit, time
\* passes.
EnvStep ==
  \/ Tick \/ SyncCommit \/ SyncRollback
  \/ \E t \in Trades : OpenTrade(t)
  \/ \E m \in Markets, w \in Outcomes, q \in {"none", "one", "both"} : SyncMarket(m, w, q)

LEMMA EnvEffect ==
  ASSUME TypeOK, EnvStep
  PROVE  /\ UNCHANGED <<todo, plan, seen, pc>>
         /\ \A t \in Trades : row[t].status # "NONE" => row'[t] = row[t]
         /\ \A t \in Trades : \/ row'[t] = row[t]
                              \/ /\ row'[t].status = "OPEN"
                                 /\ row'[t].openedAt \in Nat
                                 /\ t \in Live => row'[t].openedAt <= PubTime[t] + MaxAge
<1>1. ASSUME NEW t \in Trades, OpenTrade(t)
      PROVE  /\ row[t].status = "NONE"
             /\ row'[t].status = "OPEN" /\ row'[t].openedAt = clock
             /\ t \in Live => clock <= PubTime[t] + MaxAge
             /\ \A u \in Trades \ {t} : row'[u] = row[u]
             /\ UNCHANGED <<todo, plan, seen, pc>>
  BY <1>1 DEF OpenTrade, TypeOK, settlerVars
<1>2. (~ \E t \in Trades : OpenTrade(t)) => UNCHANGED <<row, todo, plan, seen, pc>>
  BY DEF EnvStep, Tick, SyncCommit, SyncRollback, SyncMarket, dbVars, settlerVars
<1>. QED BY <1>1, <1>2 DEF TypeOK

LEMMA SafetyInit == Init => SafetyInv
<1> SUFFICES ASSUME Init PROVE SafetyInv
  OBVIOUS
<1>1. TypeOK
  BY TypeInit
<1>2. IdleInv /\ BatchInv /\ HeldInv /\ PlanInv /\ RowInv
  BY DEF Init, IdleInv, BatchInv, HeldInv, PlanInv, RowInv, NoRow, Undecided
<1>. QED BY <1>1, <1>2 DEF SafetyInv

LEMMA SafetyEnvStep ==
  ASSUME SafetyInv, EnvStep, TypeOK',
         \A m \in Markets : winner[m] # "NONE" => winner'[m] # "NONE",
         clock <= clock', clock' \in Nat
  PROVE  IdleInv' /\ BatchInv' /\ HeldInv' /\ PlanInv' /\ RowInv'
<1> USE ConstantsAssumption DEF SafetyInv
<1>1. \A t \in Trades : SettleTime(t) \in Nat /\ MarketOf[t] \in Markets
  BY DEF SettleTime
<1>2. \A t \in Trades : row[t].status # "NONE" => row'[t] = row[t]
  BY EnvEffect
<1>3. UNCHANGED <<todo, plan, seen, pc>>
  BY EnvEffect
<1>4. BatchInv'
  BY <1>1, <1>2, <1>3 DEF BatchInv, TypeOK, SettleTime
<1>5. HeldInv'
  BY <1>3 DEF HeldInv
<1>6. PlanInv'
  <2> SUFFICES ASSUME NEW p \in Settlers, NEW t \in Trades
               PROVE  /\ plan[p][t].status # "OPEN" => row'[t].status # "NONE" /\ t \in Due'
                      /\ plan[p][t].status = "SETTLED_T24H" => GoodMark(t, plan[p][t].markTs)'
    BY <1>3 DEF PlanInv, GoodMark
  <2>1. t \in Due => t \in Due'
    BY <1>1 DEF Due, TypeOK, SettleTime
  <2>2. GoodMark(t, plan[p][t].markTs) => GoodMark(t, plan[p][t].markTs)'
    BY <1>1, <1>3 DEF GoodMark, TypeOK, SettleTime
  <2>. QED BY <1>2, <2>1, <2>2 DEF PlanInv
<1>7. RowInv'
  <2> SUFFICES ASSUME NEW t \in Trades
               PROVE  /\ row'[t].status = "SETTLED_T24H" =>
                           SettleTime(t) <= clock' /\ SettleTime(t) <= row'[t].markTs + MaxSkew
                      /\ t \in Live /\ row'[t].status # "NONE" =>
                           row'[t].openedAt <= PubTime[t] + MaxAge
    BY DEF RowInv, GoodMark, SettleTime
  <2>1. CASE row'[t] = row[t]
    BY <1>1, <2>1 DEF RowInv, GoodMark, TypeOK
  <2>2. CASE row'[t] # row[t]
    BY <2>2, EnvEffect
  <2>. QED BY <2>1, <2>2
<1>8. IdleInv'
  BY <1>3 DEF IdleInv
<1>. QED BY <1>4, <1>5, <1>6, <1>7, <1>8

LEMMA SafetySelect ==
  ASSUME SafetyInv, NEW p \in Settlers, SelectBatch(p)
  PROVE  IdleInv' /\ BatchInv' /\ HeldInv' /\ PlanInv' /\ RowInv'
<1> USE ConstantsAssumption DEF SafetyInv
<1>1. UNCHANGED <<clock, row, winner, plan, seen>>
  BY DEF SelectBatch, dbVars
<1>2. \A t \in Oldest(Eligible, BatchLimit) :
         t \in Trades /\ t \in Due /\ row[t].status = "OPEN"
  BY DEF Oldest, Eligible, Due
<1>3. BatchInv'
  <2> SUFFICES ASSUME NEW q \in Settlers, NEW t \in todo'[q]
               PROVE  /\ row[t].status # "NONE"
                      /\ \/ SettleTime(t) <= clock
                         \/ /\ winner[MarketOf[t]] # "NONE"
                            /\ seen[q].market = MarketOf[t] => seen[q].winner # "NONE"
    BY <1>1 DEF BatchInv, SettleTime
  <2>1. CASE q = p
    <3>1. t \in Oldest(Eligible, BatchLimit)
      BY <2>1 DEF SelectBatch, TypeOK
    <3>2. seen[p] = NoRow /\ MarketOf[t] \in Markets
      BY <1>2, <3>1 DEF SelectBatch, IdleInv
    <3>3. seen[p].market # MarketOf[t]
      BY <3>2 DEF NoRow
    <3>. QED BY <2>1, <1>2, <3>1, <3>3 DEF Due
  <2>2. CASE q # p
    BY <2>2 DEF SelectBatch, TypeOK, BatchInv
  <2>. QED BY <2>1, <2>2
<1>4. HeldInv' /\ PlanInv' /\ RowInv'
  BY <1>1 DEF HeldInv, PlanInv, RowInv, GoodMark, Due, SettleTime
<1>5. IdleInv'
  BY <1>1 DEF IdleInv, SelectBatch, TypeOK
<1>. QED BY <1>3, <1>4, <1>5

\* What deciding one trade does to the session, whatever the decision.
LEMMA SettleOneEffect ==
  ASSUME TypeOK, NEW p \in Settlers, NEW t \in Trades, SettleOne(p, t)
  PROVE  /\ t \in todo[p] /\ pc[p] = "settling"
         /\ todo' = [todo EXCEPT ![p] = @ \ {t}]
         /\ seen' = [seen EXCEPT ![p] = [market |-> MarketOf[t],
                                         winner |-> WinnerRead(p, MarketOf[t])]]
         /\ \A q \in Settlers \ {p} : plan'[q] = plan[q]
         /\ \A u \in Trades \ {t} : plan'[p][u] = plan[p][u]
         /\ UNCHANGED <<clock, row, winner, snaps, pc>>
BY DEF SettleOne, SettleResolved, SettleAtMark, SkipTrade, MoveOn, Reached, dbVars, TypeOK

\* The decision itself: nothing, a resolution the session has read, or a mark
\* within the skew when the session has read no winner.
LEMMA DecisionCases ==
  ASSUME TypeOK, NEW p \in Settlers, NEW t \in Trades, SettleOne(p, t)
  PROVE  \/ plan'[p][t] = plan[p][t]
         \/ /\ WinnerRead(p, MarketOf[t]) # "NONE"
            /\ plan'[p][t].status = "SETTLED_RESOLVED"
         \/ /\ WinnerRead(p, MarketOf[t]) = "NONE"
            /\ plan'[p][t].status = "SETTLED_T24H"
            /\ SettleTime(t) <= plan'[p][t].markTs + MaxSkew
<1>1. CASE SettleResolved(p, t)
  BY <1>1 DEF SettleResolved, Resolved, TypeOK
<1>2. CASE SettleAtMark(p, t)
  BY <1>2 DEF SettleAtMark, Marked, Usable, TypeOK
<1>3. CASE SkipTrade(p, t)
  BY <1>3 DEF SkipTrade
<1>. QED BY <1>1, <1>2, <1>3 DEF SettleOne

LEMMA SafetySettleOne ==
  ASSUME SafetyInv, NEW p \in Settlers, NEW t \in Trades, SettleOne(p, t)
  PROVE  IdleInv' /\ BatchInv' /\ HeldInv' /\ PlanInv' /\ RowInv'
<1> USE ConstantsAssumption DEF SafetyInv
<1>1. /\ t \in todo[p] /\ pc[p] = "settling"
      /\ todo' = [todo EXCEPT ![p] = @ \ {t}]
      /\ seen' = [seen EXCEPT ![p] = [market |-> MarketOf[t],
                                      winner |-> WinnerRead(p, MarketOf[t])]]
      /\ \A q \in Settlers \ {p} : plan'[q] = plan[q]
      /\ \A u \in Trades \ {t} : plan'[p][u] = plan[p][u]
      /\ UNCHANGED <<clock, row, winner, snaps, pc>>
  BY SettleOneEffect
<1>2. row[t].status # "NONE" /\ MarketOf[t] \in Markets
  BY <1>1 DEF BatchInv
<1>3. WinnerRead(p, MarketOf[t]) # "NONE" => winner[MarketOf[t]] # "NONE"
  BY DEF WinnerRead, HeldInv
<1>4. WinnerRead(p, MarketOf[t]) = "NONE" => SettleTime(t) <= clock
  BY <1>1 DEF BatchInv, WinnerRead
<1>5. BatchInv'
  <2> SUFFICES ASSUME NEW q \in Settlers, NEW u \in todo'[q]
               PROVE  /\ row[u].status # "NONE"
                      /\ \/ SettleTime(u) <= clock
                         \/ /\ winner[MarketOf[u]] # "NONE"
                            /\ seen'[q].market = MarketOf[u] => seen'[q].winner # "NONE"
    BY <1>1 DEF BatchInv, SettleTime
  <2>1. u \in todo[q]
    BY <1>1 DEF TypeOK
  <2>2. CASE q # p
    BY <1>1, <2>1, <2>2 DEF BatchInv, TypeOK
  <2>3. CASE q = p /\ ~(SettleTime(u) <= clock)
    <3>1. /\ row[u].status # "NONE" /\ winner[MarketOf[u]] # "NONE"
          /\ seen[p].market = MarketOf[u] => seen[p].winner # "NONE"
      BY <2>1, <2>3 DEF BatchInv
    <3>2. WinnerRead(p, MarketOf[u]) # "NONE"
      BY <3>1 DEF WinnerRead
    <3>3. seen'[p] = [market |-> MarketOf[t], winner |-> WinnerRead(p, MarketOf[t])]
      BY <1>1 DEF TypeOK
    <3>. QED BY <2>3, <3>1, <3>2, <3>3
  <2>4. CASE q = p /\ SettleTime(u) <= clock
    BY <2>1, <2>4 DEF BatchInv
  <2>. QED BY <2>2, <2>3, <2>4
<1>6. HeldInv'
  BY <1>1, <1>2, <1>3 DEF HeldInv, TypeOK
<1>7. PlanInv'
  <2>1. t \in Due
    BY <1>3, <1>4 DEF Due
  <2>2. ASSUME NEW q \in Settlers, NEW u \in Trades, q # p \/ u # t
        PROVE  /\ plan'[q][u].status # "OPEN" => row[u].status # "NONE" /\ u \in Due
               /\ plan'[q][u].status = "SETTLED_T24H" => GoodMark(u, plan'[q][u].markTs)
    BY <1>1, <2>2 DEF PlanInv
  <2>3. plan'[p][t].status = "SETTLED_T24H" => GoodMark(t, plan'[p][t].markTs)
    BY <1>4, DecisionCases DEF PlanInv, GoodMark
  <2>4. ASSUME NEW q \in Settlers, NEW u \in Trades
        PROVE  /\ plan'[q][u].status # "OPEN" => row[u].status # "NONE" /\ u \in Due
               /\ plan'[q][u].status = "SETTLED_T24H" => GoodMark(u, plan'[q][u].markTs)
    BY <1>2, <2>1, <2>2, <2>3
  <2>. QED BY <1>1, <2>4 DEF PlanInv, GoodMark, Due, SettleTime
<1>8. RowInv'
  BY <1>1 DEF RowInv, GoodMark, SettleTime
<1>9. IdleInv'
  <2>1. ASSUME NEW q \in Settlers, pc'[q] = "idle"
        PROVE  seen'[q] = NoRow /\ plan'[q] = [u \in Trades |-> Undecided]
    <3>1. q # p
      BY <1>1, <2>1
    <3>. QED BY <1>1, <2>1, <3>1 DEF IdleInv, TypeOK
  <2>. QED BY <2>1 DEF IdleInv, NoRow, Undecided
<1>. QED BY <1>5, <1>6, <1>7, <1>8, <1>9

\* A pass that ends, in a commit or not, leaves an empty session behind.
LEMMA SafetyEnd ==
  ASSUME SafetyInv, NEW p \in Settlers, CommitSettlement(p) \/ AbortSettlement(p)
  PROVE  IdleInv' /\ BatchInv' /\ HeldInv' /\ PlanInv' /\ RowInv'
<1> USE ConstantsAssumption DEF SafetyInv
<1>1. UNCHANGED <<clock, winner>> /\ Retire(p)
  BY DEF CommitSettlement, AbortSettlement, dbVars
<1>2. /\ \A q \in Settlers \ {p} :
            UNCHANGED <<pc[q], todo[q], plan[q], seen[q]>>
      /\ todo'[p] = {} /\ plan'[p] = [t \in Trades |-> Undecided] /\ seen'[p] = NoRow
  BY <1>1 DEF Retire, TypeOK
<1>3. ASSUME NEW t \in Trades
      PROVE  \/ row'[t] = row[t]
             \/ /\ plan[p][t].status # "OPEN"
                /\ row'[t].status = plan[p][t].status
                /\ row'[t].openedAt = row[t].openedAt
                /\ row'[t].markTs = plan[p][t].markTs
  <2>1. row[t] \in Rows
    BY DEF TypeOK
  <2>2. CASE CommitSettlement(p) /\ plan[p][t].status # "OPEN"
    <3>1. row'[t] = Settled(p, t)
      BY <2>2 DEF CommitSettlement
    <3>. QED BY <2>1, <2>2, <3>1 DEF Settled, Rows
  <2>3. CASE CommitSettlement(p) /\ plan[p][t].status = "OPEN"
    BY <2>3 DEF CommitSettlement
  <2>4. CASE AbortSettlement(p)
    BY <2>4 DEF AbortSettlement, dbVars
  <2>. QED BY <2>2, <2>3, <2>4
<1>4. \A t \in Trades : plan[p][t].status \in {"OPEN"} \cup SettledStatuses
  BY DEF TypeOK, Decisions
<1>5. \A t \in Trades : row[t].status # "NONE" => row'[t].status # "NONE"
  BY <1>3, <1>4 DEF SettledStatuses
<1>6. IdleInv'
  <2>1. ASSUME NEW q \in Settlers, pc'[q] = "idle"
        PROVE  seen'[q] = NoRow /\ plan'[q] = [t \in Trades |-> Undecided]
    <3>1. CASE q = p
      BY <1>2, <3>1
    <3>2. CASE q # p
      BY <1>2, <2>1, <3>2 DEF IdleInv
    <3>. QED BY <3>1, <3>2
  <2>. QED BY <2>1 DEF IdleInv, NoRow, Undecided
<1>7. BatchInv'
  <2>1. ASSUME NEW q \in Settlers, NEW t \in todo'[q]
        PROVE  /\ row'[t].status # "NONE"
               /\ \/ SettleTime(t) <= clock
                  \/ /\ winner[MarketOf[t]] # "NONE"
                     /\ seen'[q].market = MarketOf[t] => seen'[q].winner # "NONE"
    <3>1. q # p
      BY <1>2, <2>1
    <3>2. todo'[q] = todo[q] /\ seen'[q] = seen[q]
      BY <1>2, <3>1
    <3>3. t \in Trades
      BY <2>1, <3>2 DEF TypeOK
    <3>. QED  BY <1>5, <2>1, <3>2, <3>3 DEF BatchInv
  <2>. QED  BY <1>1, <2>1 DEF BatchInv, SettleTime
<1>8. HeldInv'
  BY <1>1, <1>2 DEF HeldInv, NoRow
<1>9. PlanInv'
  <2>1. ASSUME NEW q \in Settlers, NEW t \in Trades
        PROVE  /\ plan'[q][t].status # "OPEN" => row'[t].status # "NONE" /\ t \in Due
               /\ plan'[q][t].status = "SETTLED_T24H" => GoodMark(t, plan'[q][t].markTs)
    BY <1>2, <1>5 DEF PlanInv, Undecided
  <2>. QED BY <1>1, <2>1 DEF PlanInv, GoodMark, Due, SettleTime
<1>10. RowInv'
  <2>1. ASSUME NEW t \in Trades
        PROVE  /\ row'[t].status = "SETTLED_T24H" => GoodMark(t, row'[t].markTs)
               /\ t \in Live /\ row'[t].status # "NONE" =>
                    row'[t].openedAt <= PubTime[t] + MaxAge
    BY <1>3 DEF RowInv, PlanInv
  <2>. QED BY <1>1, <2>1 DEF RowInv, GoodMark, SettleTime
<1>. QED BY <1>6, <1>7, <1>8, <1>9, <1>10

THEOREM Safety == Spec => []SafetyInv
<1>1. SafetyInv /\ [Next]_vars => SafetyInv'
  <2> SUFFICES ASSUME SafetyInv, [Next]_vars PROVE SafetyInv'
    OBVIOUS
  <2>1. TypeOK'
    BY TypeStep DEF SafetyInv
  <2>2. CASE EnvStep
    BY <2>1, <2>2, DueSticks, SafetyEnvStep DEF SafetyInv
  <2>3. ASSUME NEW p \in Settlers, PassStep(p) \/ AbortSettlement(p)
        PROVE  SafetyInv'
    BY <2>1, <2>3, SafetySelect, SafetySettleOne, SafetyEnd DEF PassStep, SafetyInv
  <2>4. CASE UNCHANGED vars
    BY <2>1, <2>4 DEF vars, SafetyInv, IdleInv, BatchInv, HeldInv, PlanInv, RowInv, GoodMark,
       Due, SettleTime
  <2>. QED BY <2>2, <2>3, <2>4 DEF Next, EnvStep
<1>. QED BY <1>1, SafetyInit, PTL DEF Spec

--------------------------------------------------------------------------------

\* A live trade is never marked at a price at or before its own entry.
THEOREM NoHindsightHolds == Spec => []NoHindsight
<1>1. SafetyInv => NoHindsight
  <2> SUFFICES ASSUME SafetyInv, NEW t \in Live, row[t].status = "SETTLED_T24H"
               PROVE  row[t].openedAt < row[t].markTs
    BY DEF NoHindsight
  <2>1. t \in Trades /\ PubTime[t] \in Nat /\ row[t] \in Rows
    BY ConstantsAssumption DEF SafetyInv, TypeOK
  <2>2. row[t].openedAt \in Nat /\ row[t].markTs \in Nat
    BY <2>1 DEF Rows
  <2>3. PubTime[t] + Horizon <= row[t].markTs + MaxSkew
    BY <2>1 DEF SafetyInv, RowInv, GoodMark, SettleTime
  <2>4. row[t].openedAt <= PubTime[t] + MaxAge
    BY <2>1 DEF SafetyInv, RowInv
  <2>. QED BY <2>1, <2>2, <2>3, <2>4, ConstantsAssumption
<1>. QED BY <1>1, Safety, PTL

\* No trade is marked to market before its T+24h.
THEOREM NoEarlyMarkHolds == Spec => []NoEarlyMark
<1>1. SafetyInv => NoEarlyMark
  BY DEF SafetyInv, RowInv, GoodMark, NoEarlyMark
<1>. QED BY <1>1, Safety, PTL

\* What a step does to the rows: a new trade, or the settlements a pass decided.
LEMMA RowStep ==
  ASSUME SafetyInv, [Next]_vars, NEW t \in Trades, row'[t] # row[t]
  PROVE  \/ /\ row[t].status = "NONE"
            /\ Book' = [Book EXCEPT ![t] = Ledger!NewTrade]
            /\ Due' = Due
         \/ \E p \in Settlers :
              /\ CommitSettlement(p)
              /\ plan[p][t].status \in SettledStatuses
              /\ row'[t].status = plan[p][t].status
<1>1. CASE \E u \in Trades : OpenTrade(u)
  <2>1. PICK u \in Trades : OpenTrade(u)
    BY <1>1
  <2>2. u = t /\ row[t].status = "NONE"
    BY <2>1 DEF OpenTrade, SafetyInv, TypeOK
  <2>3. Book' = [Book EXCEPT ![t] = Ledger!NewTrade]
    BY <2>1, <2>2 DEF OpenTrade, Book, Ledger!NewTrade, SafetyInv, TypeOK
  <2>4. Due' = Due
    BY <2>1 DEF OpenTrade, Due, SettleTime
  <2>. QED BY <2>2, <2>3, <2>4
<1>2. CASE \E p \in Settlers : CommitSettlement(p)
  <2>1. PICK p \in Settlers : CommitSettlement(p)
    BY <1>2
  <2>2. plan[p][t].status # "OPEN" /\ row'[t] = Settled(p, t)
    BY <2>1 DEF CommitSettlement
  <2>3. row[t] \in Rows /\ plan[p][t] \in Decisions
    BY DEF SafetyInv, TypeOK
  <2>. QED BY <2>1, <2>2, <2>3 DEF Settled, Rows, Decisions
<1>3. CASE ~(\E u \in Trades : OpenTrade(u)) /\ ~(\E p \in Settlers : CommitSettlement(p))
  <2>1. UNCHANGED row
    BY <1>3 DEF Next, vars, Tick, SyncMarket, SyncCommit, SyncRollback, PassStep,
       AbortSettlement, SelectBatch, SettleOne, SettleResolved, SettleAtMark, SkipTrade,
       MoveOn, dbVars
  <2>. QED BY <2>1
<1>. QED BY <1>1, <1>2, <1>3

\* Overlapping passes may change a settlement, but never reopen the trade.
THEOREM StaysSettledHolds == Spec => StaysSettled
<1>1. SafetyInv /\ [Next]_vars =>
        [\A t \in Trades :
           row[t].status \in SettledStatuses => row'[t].status \in SettledStatuses]_vars
  <2> SUFFICES ASSUME SafetyInv, [Next]_vars, NEW t \in Trades,
                      row[t].status \in SettledStatuses
               PROVE  row'[t].status \in SettledStatuses
    OBVIOUS
  <2>1. CASE row'[t] = row[t]
    BY <2>1
  <2>2. CASE row'[t] # row[t]
    BY <2>2, RowStep DEF SettledStatuses
  <2>. QED BY <2>1, <2>2
<1>. QED BY <1>1, Safety, PTL DEF Spec, StaysSettled

--------------------------------------------------------------------------------
(* What holds only while one session settles at a time.                        *)

LEMMA ExclusiveStep ==
  ASSUME OneSettler, SafetyInv, ExclusiveInv, [Next]_vars
  PROVE  ExclusiveInv'
<1> USE DEF SafetyInv
<1> SUFFICES ASSUME NEW p \in Settlers, NEW t \in Trades,
                    t \in todo'[p] \/ plan'[p][t].status # "OPEN"
             PROVE  row'[t].status = "OPEN"
  BY DEF ExclusiveInv
<1>1. CASE EnvStep
  <2>1. row[t].status = "OPEN"
    BY <1>1, EnvEffect DEF ExclusiveInv
  <2>. QED BY <1>1, <2>1, EnvEffect
<1>2. ASSUME NEW q \in Settlers, SelectBatch(q) PROVE row'[t].status = "OPEN"
  <2>1. q = p
    BY DEF OneSettler
  <2>2. t \in Oldest(Eligible, BatchLimit) \/ plan[p][t].status # "OPEN"
    BY <1>2, <2>1 DEF SelectBatch, TypeOK
  <2>3. row[t].status = "OPEN"
    BY <2>2 DEF ExclusiveInv, Oldest, Eligible
  <2>. QED BY <1>2, <2>3 DEF SelectBatch, dbVars
<1>3. ASSUME NEW q \in Settlers, NEW u \in Trades, SettleOne(q, u)
      PROVE  row'[t].status = "OPEN"
  <2>1. q = p
    BY DEF OneSettler
  <2>2. t \in todo[p] \/ plan[p][t].status # "OPEN"
    <3>1. /\ u \in todo[p]
          /\ todo' = [todo EXCEPT ![p] = @ \ {u}]
          /\ t # u => plan'[p][t] = plan[p][t]
      BY <1>3, <2>1, SettleOneEffect
    <3>2. t \in todo'[p] => t \in todo[p]
      BY <3>1 DEF TypeOK
    <3>. QED  BY <3>1, <3>2
  <2>. QED BY <1>3, <2>2, SettleOneEffect DEF ExclusiveInv
<1>4. ASSUME NEW q \in Settlers, CommitSettlement(q) \/ AbortSettlement(q)
      PROVE  FALSE
  <2>1. q = p
    BY DEF OneSettler
  <2>2. todo'[p] = {} /\ plan'[p] = [u \in Trades |-> Undecided]
    BY <1>4, <2>1 DEF CommitSettlement, AbortSettlement, Retire, TypeOK
  <2>. QED BY <2>2 DEF Undecided
<1>5. CASE UNCHANGED vars
  BY <1>5 DEF vars, ExclusiveInv
<1>. QED BY <1>1, <1>2, <1>3, <1>4, <1>5 DEF Next, EnvStep, PassStep

LEMMA Exclusive == ASSUME OneSettler PROVE Spec => []ExclusiveInv
<1>1. Init => ExclusiveInv
  BY DEF Init, ExclusiveInv, Undecided
<1>2. SafetyInv /\ ExclusiveInv /\ [Next]_vars => ExclusiveInv'
  BY ExclusiveStep
<1>. QED BY <1>1, <1>2, Safety, PTL DEF Spec

\* With one settler, settlements are final.
THEOREM FinalHolds == ASSUME OneSettler PROVE Spec => Final
<1>1. SafetyInv /\ ExclusiveInv /\ [Next]_vars =>
        [\A t \in Trades : row[t].status \in SettledStatuses => row'[t] = row[t]]_vars
  <2> SUFFICES ASSUME SafetyInv, ExclusiveInv, [Next]_vars, NEW t \in Trades,
                      row[t].status \in SettledStatuses, row'[t] # row[t]
               PROVE  FALSE
    OBVIOUS
  <2>1. PICK p \in Settlers : plan[p][t].status \in SettledStatuses
    BY RowStep DEF SettledStatuses
  <2>2. row[t].status = "OPEN"
    BY <2>1 DEF ExclusiveInv, SettledStatuses
  <2>. QED BY <2>2 DEF SettledStatuses
<1>. QED BY <1>1, Safety, Exclusive, PTL DEF Spec, Final

\* With one settler, the job keeps the promise of TradeBook.
THEOREM KeepsTheBookHolds == ASSUME OneSettler PROVE Spec => KeepsTheBook
<1>1. Init => Ledger!Init
  BY DEF Init, Ledger!Init, Book, Due
<1>2. SafetyInv /\ ExclusiveInv /\ [Next]_vars => [Ledger!Next]_(Ledger!vars)
  <2> SUFFICES ASSUME SafetyInv, ExclusiveInv, [Next]_vars
               PROVE  [Ledger!Next]_(Ledger!vars)
    OBVIOUS
  <2>1. CASE \E t \in Trades : row'[t] # row[t] /\ row[t].status = "NONE"
    <3>1. PICK t \in Trades : row'[t] # row[t] /\ row[t].status = "NONE"
      BY <2>1
    <3>2. ~ \E p \in Settlers : plan[p][t].status \in SettledStatuses
      BY <3>1 DEF ExclusiveInv, SettledStatuses
    <3>3. Book' = [Book EXCEPT ![t] = Ledger!NewTrade] /\ Due' = Due
      BY <3>1, <3>2, RowStep
    <3>4. Ledger!Open(t)
      BY <3>1, <3>3 DEF Ledger!Open, Book
    <3>. QED BY <3>1, <3>4 DEF Ledger!Next
  <2>2. CASE \E p \in Settlers : CommitSettlement(p)
    <3>1. PICK p \in Settlers : CommitSettlement(p)
      BY <2>2
    <3>2. Due' = Due
      BY <3>1 DEF CommitSettlement, Due, SettleTime
    <3>3. ASSUME NEW t \in Trades, Book'[t] # Book[t]
          PROVE  /\ Book[t].status = "OPEN" /\ t \in Due
                 /\ Book'[t].status \in SettledStatuses
      <4>1. plan[p][t].status # "OPEN" /\ row'[t] = Settled(p, t)
        BY <3>1, <3>3 DEF CommitSettlement, Book
      <4>2. row[t].status = "OPEN" /\ t \in Due
        BY <4>1 DEF ExclusiveInv, SafetyInv, PlanInv
      <4>3. row[t] \in Rows /\ plan[p][t] \in Decisions
        BY DEF SafetyInv, TypeOK
      <4>. QED BY <4>1, <4>2, <4>3 DEF Book, Settled, Rows, Decisions
    <3>4. Ledger!Settle
      BY <3>2, <3>3 DEF Ledger!Settle, Book
    <3>. QED BY <3>4 DEF Ledger!Next
  <2>3. CASE \A t \in Trades : row'[t] = row[t]
    <3>1. Book' = Book
      BY <2>3 DEF Book
    <3>2. Due \subseteq Due' /\ Due' \subseteq Trades
      BY DueSticks, ConstantsAssumption DEF Due, SettleTime, SafetyInv, TypeOK
    <3>3. Ledger!MoreDue
      BY <3>1, <3>2 DEF Ledger!MoreDue
    <3>. QED BY <3>3 DEF Ledger!Next
  <2>. QED BY <2>1, <2>2, <2>3, RowStep
<1>. QED BY <1>1, <1>2, Safety, Exclusive, PTL DEF Spec, KeepsTheBook, Ledger!Spec

================================================================================
