------------------------ MODULE CandidatePipelineProofs ------------------------
(***************************************************************************)
(* Theorems about CandidatePipeline.  Type correctness first; then what    *)
(* holds for any number of overlapping runs (the budget of LLM calls, the  *)
(* fail-safe, the metrics); then, for one run at a time, the refinement of *)
(* SignalLedger.                                                           *)
(***************************************************************************)
EXTENDS CandidatePipeline, FiniteSetTheorems, TLAPS

\* A worker that is booking has both answers of the LLM, and they agree.
BookingInv ==
  \A r \in Runs, i \in SignalIds :
    work[r][i].at \in {"answered", "booking"} =>
      /\ work[r][i].verdict.agrees => work[r][i].verdict.answered
      /\ work[r][i].at = "booking" => work[r][i].verdict.agrees

\* What a run has added and not committed: ids and pairs of its own, both unused.
PendingInv ==
  \A r \in Runs :
    /\ \A p \in pending[r] : /\ p.id < nextId
                             /\ signal[p.id].action = "FREE"
                             /\ \A i \in Created : signal[i].pair # p.pair
    /\ \A p, q \in pending[r] : p.id = q.id \/ p.pair = q.pair => p = q

\* An id not yet given out is free, and no trade precedes the decision.
RowInv ==
  \A i \in SignalIds :
    /\ i >= nextId => signal[i].action = "FREE"
    /\ signal[i].action \in {"FREE", "CANDIDATE"} => trades[i] = 0

\* A worker's signal is still undecided.
WorkInv ==
  \A r \in Runs, i \in SignalIds :
    work[r][i].at # "none" => phase[r] = "working" /\ signal[i].action = "CANDIDATE"

LedgerInv == PendingInv /\ RowInv /\ WorkInv

--------------------------------------------------------------------------------
(* Lemmas on the data.                                                      *)

\* The LLM's word is needed for the verifier to agree.
LEMMA ReplyShape ==
  ASSUME NEW v \in Replies
  PROVE  v \in Verdicts /\ (v.agrees => v.answered)
<1>1. RulesOnly \subseteq {w \in Verdicts : ~w.agrees}
  BY DEF RulesOnly, Verdicts, Outcomes
<1>2. \A w \in Answers : w \in Verdicts /\ w.answered
  BY PipelineAssumption
<1>3. \A w \in Answers : Unverified(w) \in Verdicts /\ ~Unverified(w).agrees
  BY <1>2 DEF Unverified, Verdicts
<1>4. QED
  BY <1>1, <1>2, <1>3 DEF Replies

WorkRecords == [at : {"none", "queued", "llm", "answered", "booking"}, verdict : Verdicts]

LEMMA NoWorkType == NoWork.at = "none" /\ NoVerdict \in Verdicts /\ NoWork \in WorkRecords
BY DEF NoWork, NoVerdict, Verdicts, Outcomes, WorkRecords

\* What moving or retiring one worker does to "work".
LEMMA GoesEffect ==
  ASSUME TypeOK, NEW r \in Runs, NEW i \in SignalIds,
         NEW where \in {"none", "queued", "llm", "answered", "booking"},
         Goes(r, i, where)
  PROVE  /\ work' \in [Runs -> [SignalIds -> WorkRecords]]
         /\ work'[r][i].at = where /\ work'[r][i].verdict = work[r][i].verdict
         /\ \A q \in Runs, j \in SignalIds : q # r \/ j # i => work'[q][j] = work[q][j]
<1>1. work[r][i] \in WorkRecords /\ work \in [Runs -> [SignalIds -> WorkRecords]]
  BY DEF TypeOK, WorkRecords
<1>2. [work[r][i] EXCEPT !.at = where] \in WorkRecords
  BY <1>1 DEF WorkRecords
<1>3. work' = [work EXCEPT ![r] = [work[r] EXCEPT ![i] = [work[r][i] EXCEPT !.at = where]]]
  BY <1>1 DEF Goes
<1>4. work'[r][i] = [work[r][i] EXCEPT !.at = where]
  BY <1>1, <1>3
<1>5. QED
  BY <1>1, <1>2, <1>3, <1>4 DEF WorkRecords

LEMMA UpdateEffect ==
  ASSUME TypeOK, NEW r \in Runs, NEW i \in SignalIds, NEW w \in WorkRecords,
         work' = [work EXCEPT ![r][i] = w]
  PROVE  /\ work' \in [Runs -> [SignalIds -> WorkRecords]]
         /\ work'[r][i] = w
         /\ \A q \in Runs, j \in SignalIds : q # r \/ j # i => work'[q][j] = work[q][j]
<1>1. work \in [Runs -> [SignalIds -> WorkRecords]]
  BY DEF TypeOK, WorkRecords
<1>2. QED
  BY <1>1

LEMMA LeavesEffect ==
  ASSUME TypeOK, NEW r \in Runs, NEW i \in SignalIds, Leaves(r, i)
  PROVE  /\ work' \in [Runs -> [SignalIds -> WorkRecords]]
         /\ work'[r][i] = NoWork
         /\ \A q \in Runs, j \in SignalIds : q # r \/ j # i => work'[q][j] = work[q][j]
<1>1. work' = [work EXCEPT ![r][i] = NoWork]
  BY DEF Leaves
<1>2. NoWork \in WorkRecords
  BY NoWorkType
<1>3. work \in [Runs -> [SignalIds -> WorkRecords]]
  BY DEF TypeOK, WorkRecords
<1>4. QED
  BY <1>1, <1>2, <1>3

--------------------------------------------------------------------------------
(* The budget of LLM calls.                                                 *)

\* Rounding up stays within a whole number of batches.
LEMMA Rounding ==
  ASSUME NEW n \in Nat, NEW k \in Nat, n <= k * BatchSize
  PROVE  CallsFor(n) \in Nat /\ CallsFor(n) <= k
<1> DEFINE B == BatchSize
           q == (n + B - 1) \div B
<1>1. B \in Nat /\ B > 0
  BY PipelineAssumption
<1>2. n + B - 1 \in Nat /\ n + B - 1 < k * B + B
  BY <1>1
<1>3. q \in Nat
  BY <1>1, <1>2
<1>4. q * B <= n + B - 1
  BY <1>1, <1>2
<1>5. q * B < (k + 1) * B
  BY <1>1, <1>2, <1>3, <1>4
<1>6. q < k + 1
  <2> SUFFICES ASSUME q >= k + 1 PROVE FALSE
    BY <1>3
  <2> DEFINE d == q - (k + 1)
  <2>1. d \in Nat /\ q = (k + 1) + d
    <3> HIDE DEF q
    <3> QED
      BY <1>3
  <2> HIDE DEF d
  <2>2. q * B = (k + 1) * B + d * B /\ d * B >= 0
    BY <1>1, <2>1
  <2>3. QED
    BY <1>1, <1>3, <1>5, <2>2
<1>7. QED
  BY <1>3, <1>6 DEF CallsFor

\* What an article costs, for a screen the budget lets through.
LEMMA ScreenCost ==
  ASSUME TypeOK, BudgetRespected, NEW r \in Runs, NEW a \in Articles,
         NEW chosen \in SUBSET Keyworded[a], Screen(r, a, chosen)
  PROVE  /\ calls'[r] \in Nat /\ calls'[r] <= MaxCalls
         /\ calls' = [calls EXCEPT ![r] = calls'[r]]
<1>1. IsFiniteSet(Keyworded[a]) /\ IsFiniteSet(chosen)
  BY PipelineAssumption, FS_Subset
<1>2. Cardinality(Keyworded[a]) \in Nat /\ Cardinality(chosen) \in Nat
  BY <1>1, FS_CardinalityType
<1>3. calls[r] \in Nat /\ MaxCalls \in Nat /\ calls[r] <= MaxCalls /\ BatchSize \in Nat
  BY PipelineAssumption DEF TypeOK, BudgetRespected
<1>4. CASE Llm = "openai"
  <2>1. MaxCalls - calls[r] \in Nat
    BY <1>3
  <2>2. (MaxCalls - calls[r]) * BatchSize \in Nat
    BY <1>3, <2>1
  <2>3. Allowance(r, a) \in Nat /\ Allowance(r, a) <= (MaxCalls - calls[r]) * BatchSize
    BY <1>2, <1>4, <2>2 DEF Allowance
  <2>4. CallsFor(Allowance(r, a)) \in Nat /\ CallsFor(Allowance(r, a)) <= MaxCalls - calls[r]
    BY <2>1, <2>3, Rounding
  <2>5. calls' = [calls EXCEPT ![r] = calls[r] + CallsFor(Allowance(r, a))]
    BY <1>4 DEF Screen
  <2>6. calls'[r] = calls[r] + CallsFor(Allowance(r, a))
    BY <2>5 DEF TypeOK
  <2>7. calls' = [calls EXCEPT ![r] = calls'[r]]
    BY <2>5, <2>6
  <2>8. calls'[r] \in Nat /\ calls'[r] <= MaxCalls
    BY <1>3, <2>4, <2>6
  <2>9. QED
    BY <2>7, <2>8
<1>5. CASE Llm # "openai"
  BY <1>3, <1>5 DEF Screen, TypeOK
<1>6. QED
  BY <1>4, <1>5

--------------------------------------------------------------------------------
(* Type correctness, with the budget, which keeps the number of calls a number. *)

LEMMA TypeInit == Init => TypeOK /\ BudgetRespected
BY NoWorkType, PipelineAssumption
   DEF Init, TypeOK, NoSignal, SignalRows, WorkRecords, BudgetRespected

LEMMA GateRange ==
  ASSUME NEW young, NEW quoted, NEW v
  PROVE  Gate(young, quoted, v) \in Decided
BY DEF Gate, Decided

LEMMA StopType ==
  ASSUME TypeOK, NEW r \in Runs, Stop(r), failures' \in Nat
  PROVE  TypeOK'
BY NoWorkType DEF TypeOK, Stop, dbVars, WorkRecords

LEMMA TypeStep == TypeOK /\ BudgetRespected /\ [Next]_vars => TypeOK'
<1> SUFFICES ASSUME TypeOK, BudgetRespected, [Next]_vars PROVE TypeOK'
  OBVIOUS
<1> USE DEF WorkRecords
<1>1. CASE UNCHANGED vars
  BY <1>1 DEF vars, TypeOK
<1>2. CASE \E a \in Articles : Publish(a) \/ GrowStale(a)
  BY <1>2 DEF Publish, GrowStale, TypeOK, dbVars
<1>3. ASSUME NEW r \in Runs, BeginRun(r) PROVE TypeOK'
  BY <1>3 DEF BeginRun, TypeOK, dbVars
<1>4. ASSUME NEW r \in Runs, NEW a \in Articles, NEW chosen \in SUBSET Keyworded[a],
             Screen(r, a, chosen)
      PROVE  TypeOK'
  <2>1. {<<a, m>> : m \in chosen} \subseteq Pairs
    BY PipelineAssumption DEF Pairs
  <2>2. calls' \in [Runs -> Nat]
    BY <1>4, ScreenCost DEF TypeOK
  <2>3. QED
    BY <1>4, <2>1, <2>2 DEF Screen, TypeOK, dbVars
<1>5. ASSUME NEW r \in Runs, NEW pair \in Pairs, AddCandidate(r, pair) PROVE TypeOK'
  <2>1. confirmed' \in [Runs -> SUBSET Pairs]
    BY <1>5 DEF AddCandidate, TypeOK
  <2>2. CASE pair \in SeenPairs(r) /\ UNCHANGED <<pending, nextId>>
    BY <1>5, <2>1, <2>2 DEF AddCandidate, TypeOK, dbVars
  <2>3. CASE /\ nextId <= MaxSignals
             /\ pending' = [pending EXCEPT ![r] = @ \cup {[id |-> nextId, pair |-> pair]}]
             /\ nextId' = nextId + 1
    <3>1. nextId \in SignalIds /\ nextId' \in Nat \ {0}
      BY <2>3, PipelineAssumption DEF TypeOK, SignalIds
    <3>2. [id |-> nextId, pair |-> pair] \in [id : SignalIds, pair : Pairs]
      BY <3>1
    <3>3. pending' \in [Runs -> SUBSET [id : SignalIds, pair : Pairs]]
      BY <2>3, <3>2 DEF TypeOK
    <3>4. UNCHANGED <<article, dbVars, phase, toMatch, calls, work, failures>>
      BY <1>5 DEF AddCandidate
    <3>5. QED
      BY <2>1, <3>1, <3>3, <3>4 DEF TypeOK, dbVars
  <2>4. QED
    BY <1>5, <2>2, <2>3 DEF AddCandidate
<1>6. ASSUME NEW r \in Runs, CommitCandidates(r) PROVE TypeOK'
  <2>1. signal' \in [SignalIds -> SignalRows]
    BY <1>6 DEF CommitCandidates, TypeOK, SignalRows
  <2>2. work' \in [Runs -> [SignalIds -> WorkRecords]]
    BY <1>6, NoWorkType DEF CommitCandidates, TypeOK
  <2>3. QED
    BY <1>6, <2>1, <2>2 DEF CommitCandidates, TypeOK
<1>7. ASSUME NEW r \in Runs, EndRun(r) \/ RunDies(r) PROVE TypeOK'
  BY <1>7, StopType DEF EndRun, RunDies, TypeOK
<1>8. ASSUME NEW r \in Runs, NEW i \in SignalIds, StartWorker(r, i) PROVE TypeOK'
  <2>1. work' \in [Runs -> [SignalIds -> WorkRecords]]
    BY <1>8, GoesEffect, LeavesEffect DEF StartWorker
  <2>2. QED
    BY <1>8, <2>1 DEF StartWorker, TypeOK, dbVars, matchVars
<1>9. ASSUME NEW r \in Runs, NEW i \in SignalIds, NEW v \in Replies, Reply(r, i, v)
      PROVE  TypeOK'
  <2>1. [at |-> "answered", verdict |-> v] \in WorkRecords
    BY ReplyShape
  <2>2. work' \in [Runs -> [SignalIds -> WorkRecords]]
    BY <1>9, <2>1, UpdateEffect DEF Reply
  <2>3. QED
    BY <1>9, <2>2 DEF Reply, TypeOK, dbVars, matchVars
<1>10. ASSUME NEW r \in Runs, NEW i \in SignalIds, NEW quoted \in BOOLEAN, Reject(r, i, quoted)
       PROVE  TypeOK'
  <2>1. work' \in [Runs -> [SignalIds -> WorkRecords]]
    BY <1>10, LeavesEffect DEF Reject
  <2>2. signal' \in [SignalIds -> SignalRows]
    BY <1>10, GateRange DEF Reject, TypeOK, SignalRows
  <2>3. QED
    BY <1>10, <2>1, <2>2 DEF Reject, TypeOK, matchVars
<1>11. ASSUME NEW r \in Runs, NEW i \in SignalIds, Accept(r, i) PROVE TypeOK'
  <2>1. work' \in [Runs -> [SignalIds -> WorkRecords]]
    BY <1>11, GoesEffect DEF Accept
  <2>2. QED
    BY <1>11, <2>1 DEF Accept, TypeOK, dbVars, matchVars
<1>12. ASSUME NEW r \in Runs, NEW i \in SignalIds, NEW filled \in BOOLEAN, Book(r, i, filled)
       PROVE  TypeOK'
  <2>1. work' \in [Runs -> [SignalIds -> WorkRecords]]
    BY <1>12, LeavesEffect DEF Book
  <2>2. signal' \in [SignalIds -> SignalRows]
    <3>1. signal \in [SignalIds -> SignalRows]
      BY DEF TypeOK
    <3>2. [signal[i] EXCEPT !.action = "ACT"] \in SignalRows
      BY <3>1 DEF SignalRows, Decided
    <3>3. signal' = [signal EXCEPT ![i] = [signal[i] EXCEPT !.action = "ACT"]]
      BY <1>12 DEF Book
    <3>. QED  BY <3>1, <3>2, <3>3
  <2>3. trades' \in [SignalIds -> Nat]
    <3>1. trades' = [trades EXCEPT ![i] = IF filled THEN trades[i] + 1 ELSE trades[i]]
      BY <1>12 DEF Book
    <3>2. (IF filled THEN trades[i] + 1 ELSE trades[i]) \in Nat
      BY DEF TypeOK
    <3>3. QED
      BY <3>1, <3>2 DEF TypeOK
  <2>4. QED
    BY <1>12, <2>1, <2>2, <2>3 DEF Book, TypeOK, matchVars
<1>13. ASSUME NEW r \in Runs, NEW i \in SignalIds, WorkerFails(r, i) PROVE TypeOK'
  <2>1. work' \in [Runs -> [SignalIds -> WorkRecords]]
    BY <1>13, LeavesEffect DEF WorkerFails
  <2>2. QED
    BY <1>13, <2>1 DEF WorkerFails, TypeOK, dbVars, matchVars
<1>14. QED
  BY <1>1, <1>2, <1>3, <1>4, <1>5, <1>6, <1>7, <1>8, <1>9, <1>10, <1>11, <1>12, <1>13
     DEF Next, MatchStep, WorkerStep

\* Only the screen counts calls, and the end of a run forgets them.
LEMMA CallsFrame ==
  ASSUME Next
  PROVE  \/ UNCHANGED calls
         \/ \E r \in Runs, a \in Articles : \E chosen \in SUBSET Keyworded[a] : Screen(r, a, chosen)
         \/ \E r \in Runs : Stop(r)
<1>1. ASSUME NEW a \in Articles, Publish(a) \/ GrowStale(a) PROVE UNCHANGED calls
  BY <1>1 DEF Publish, GrowStale
<1>2. ASSUME NEW r \in Runs, NEW pair \in Pairs, AddCandidate(r, pair) PROVE UNCHANGED calls
  BY <1>2 DEF AddCandidate
<1>3. ASSUME NEW r \in Runs, BeginRun(r) \/ CommitCandidates(r) PROVE UNCHANGED calls
  BY <1>3 DEF BeginRun, CommitCandidates
<1>4. ASSUME NEW r \in Runs, EndRun(r) \/ RunDies(r) PROVE Stop(r)
  BY <1>4 DEF EndRun, RunDies
<1>5. ASSUME NEW r \in Runs, NEW i \in SignalIds, WorkerStep(r, i) \/ WorkerFails(r, i)
      PROVE  UNCHANGED calls
  BY <1>5 DEF WorkerStep, StartWorker, Reply, Reject, Accept, Book, WorkerFails, matchVars
<1>. QED  BY <1>1, <1>2, <1>3, <1>4, <1>5 DEF Next, MatchStep

LEMMA BudgetStep == TypeOK /\ BudgetRespected /\ [Next]_vars => BudgetRespected'
<1> SUFFICES ASSUME TypeOK, BudgetRespected, [Next]_vars PROVE BudgetRespected'
  OBVIOUS
<1>1. CASE UNCHANGED calls
  BY <1>1 DEF BudgetRespected
<1>2. ASSUME NEW r \in Runs, NEW a \in Articles, NEW chosen \in SUBSET Keyworded[a],
             Screen(r, a, chosen)
      PROVE  BudgetRespected'
  BY <1>2, ScreenCost DEF BudgetRespected, TypeOK
<1>3. ASSUME NEW r \in Runs, Stop(r) PROVE BudgetRespected'
  BY <1>3, PipelineAssumption DEF Stop, BudgetRespected, TypeOK
<1>4. QED
  BY <1>1, <1>2, <1>3, CallsFrame DEF vars

\* Type correctness of the pipeline, for any number of overlapping runs.
THEOREM Typing == Spec => []TypeOK
<1>1. TypeOK /\ BudgetRespected /\ [Next]_vars => (TypeOK /\ BudgetRespected)'
  BY TypeStep, BudgetStep
<1>2. QED
  BY TypeInit, <1>1, PTL DEF Spec

\* No run exceeds the budget of OpenAI calls, whatever the batch size, the number
\* of markets an article selects, and the failures.
THEOREM BudgetHolds == Spec => []BudgetRespected
<1>1. TypeOK /\ BudgetRespected /\ [Next]_vars => (TypeOK /\ BudgetRespected)'
  BY TypeStep, BudgetStep
<1>2. QED
  BY TypeInit, <1>1, PTL DEF Spec

--------------------------------------------------------------------------------
(* The fail-safe: what a worker knows when it writes.                       *)

LEMMA GateAct ==
  ASSUME NEW young, NEW quoted, NEW v, Gate(young, quoted, v) = "ACT"
  PROVE  v.agrees
BY DEF Gate

\* What a step may do to the workers.
LEMMA WorkFrame ==
  ASSUME Next
  PROVE  \/ UNCHANGED work
         \/ \E r \in Runs : CommitCandidates(r) \/ Stop(r)
         \/ \E r \in Runs, i \in SignalIds :
               Leaves(r, i) \/ Goes(r, i, "llm") \/ Accept(r, i)
         \/ \E r \in Runs, i \in SignalIds, v \in Replies : Reply(r, i, v)
<1>1. ASSUME NEW a \in Articles, Publish(a) \/ GrowStale(a) PROVE UNCHANGED work
  BY <1>1 DEF Publish, GrowStale
<1>2. ASSUME NEW r \in Runs, NEW a \in Articles, NEW chosen \in SUBSET Keyworded[a],
             Screen(r, a, chosen)
      PROVE  UNCHANGED work
  BY <1>2 DEF Screen
<1>3. ASSUME NEW r \in Runs, NEW pair \in Pairs, AddCandidate(r, pair) PROVE UNCHANGED work
  BY <1>3 DEF AddCandidate
<1>4. ASSUME NEW r \in Runs, BeginRun(r) PROVE UNCHANGED work
  BY <1>4 DEF BeginRun
<1>5. ASSUME NEW r \in Runs, EndRun(r) \/ RunDies(r) PROVE Stop(r)
  BY <1>5 DEF EndRun, RunDies
<1>6. ASSUME NEW r \in Runs, NEW i \in SignalIds, StartWorker(r, i)
      PROVE  Leaves(r, i) \/ Goes(r, i, "llm")
  BY <1>6 DEF StartWorker
<1>7. ASSUME NEW r \in Runs, NEW i \in SignalIds,
             (\E quoted \in BOOLEAN : Reject(r, i, quoted))
             \/ (\E filled \in BOOLEAN : Book(r, i, filled)) \/ WorkerFails(r, i)
      PROVE  Leaves(r, i)
  BY <1>7 DEF Reject, Book, WorkerFails
<1>. QED  BY <1>1, <1>2, <1>3, <1>4, <1>5, <1>6, <1>7 DEF Next, MatchStep, WorkerStep

LEMMA BookingStep == TypeOK /\ BookingInv /\ [Next]_vars => BookingInv'
<1> SUFFICES ASSUME TypeOK, BookingInv, [Next]_vars PROVE BookingInv'
  OBVIOUS
<1> USE DEF BookingInv
<1>1. CASE UNCHANGED work
  BY <1>1
<1>2. ASSUME NEW r \in Runs, CommitCandidates(r) PROVE BookingInv'
  BY <1>2, NoWorkType DEF CommitCandidates, TypeOK
<1>3. ASSUME NEW r \in Runs, Stop(r) PROVE BookingInv'
  BY <1>3, NoWorkType DEF Stop, TypeOK
<1>4. ASSUME NEW r \in Runs, NEW i \in SignalIds, Leaves(r, i) PROVE BookingInv'
  BY <1>4, LeavesEffect, NoWorkType
<1>5. ASSUME NEW r \in Runs, NEW i \in SignalIds, Goes(r, i, "llm") PROVE BookingInv'
  BY <1>5, GoesEffect
<1>6. ASSUME NEW r \in Runs, NEW i \in SignalIds, NEW v \in Replies, Reply(r, i, v)
      PROVE  BookingInv'
  <2>1. [at |-> "answered", verdict |-> v] \in WorkRecords
    BY ReplyShape DEF WorkRecords
  <2>2. QED
    BY <1>6, <2>1, ReplyShape, UpdateEffect DEF Reply
<1>7. ASSUME NEW r \in Runs, NEW i \in SignalIds, Accept(r, i) PROVE BookingInv'
  <2>1. work[r][i].at = "answered" /\ work[r][i].verdict.agrees
    BY <1>7, GateAct DEF Accept, At
  <2>2. QED
    BY <1>7, <2>1, GoesEffect DEF Accept
<1>8. QED
  BY <1>1, <1>2, <1>3, <1>4, <1>5, <1>6, <1>7, WorkFrame DEF vars

\* Only the steps of a worker at its gate or its booking change a decision or a
\* trade.
LEMMA WhoDecides ==
  ASSUME TypeOK, [Next]_vars
  PROVE  \/ UNCHANGED dbVars
         \/ \E r \in Runs : CommitCandidates(r)
         \/ \E r \in Runs, i \in SignalIds, quoted \in BOOLEAN : Reject(r, i, quoted)
         \/ \E r \in Runs, i \in SignalIds, filled \in BOOLEAN : Book(r, i, filled)
<1>1. CASE UNCHANGED vars
  BY <1>1 DEF vars, dbVars
<1>2. ASSUME NEW a \in Articles, Publish(a) \/ GrowStale(a) PROVE UNCHANGED dbVars
  BY <1>2 DEF Publish, GrowStale, dbVars
<1>3. ASSUME NEW r \in Runs, NEW a \in Articles, NEW chosen \in SUBSET Keyworded[a],
             Screen(r, a, chosen)
      PROVE  UNCHANGED dbVars
  BY <1>3 DEF Screen, dbVars
<1>4. ASSUME NEW r \in Runs, NEW pair \in Pairs, AddCandidate(r, pair) PROVE UNCHANGED dbVars
  BY <1>4 DEF AddCandidate, dbVars
<1>5. ASSUME NEW r \in Runs, BeginRun(r) \/ EndRun(r) \/ RunDies(r) PROVE UNCHANGED dbVars
  BY <1>5 DEF BeginRun, EndRun, RunDies, Stop, dbVars
<1>6. ASSUME NEW r \in Runs, NEW i \in SignalIds,
             StartWorker(r, i) \/ (\E v \in Replies : Reply(r, i, v))
             \/ Accept(r, i) \/ WorkerFails(r, i)
      PROVE  UNCHANGED dbVars
  BY <1>6 DEF StartWorker, Reply, Accept, WorkerFails, dbVars
<1>. QED  BY <1>1, <1>2, <1>3, <1>4, <1>5, <1>6 DEF Next, MatchStep, WorkerStep

\* However runs overlap and fail, no signal turns to ACT and no trade is placed
\* without the LLM's answer to both questions.
THEOREM LlmFailSafeHolds == Spec => LlmFailSafe
<1> DEFINE Ruled == \A i \in SignalIds :
             (\/ signal[i].action # "ACT" /\ signal'[i].action = "ACT"
              \/ trades'[i] > trades[i])
             => \E r \in Runs : work[r][i].at = "booking" /\ work[r][i].verdict.answered
<1>1. Init => BookingInv
  BY NoWorkType DEF Init, BookingInv
<1>2. TypeOK /\ BookingInv /\ [Next]_vars => [Ruled]_vars
  <2> SUFFICES ASSUME TypeOK, BookingInv, [Next]_vars PROVE Ruled
    OBVIOUS
  <2>1. CASE UNCHANGED dbVars
    BY <2>1 DEF dbVars, TypeOK
  <2>2. ASSUME NEW r \in Runs, CommitCandidates(r) PROVE Ruled
    BY <2>2 DEF CommitCandidates, TypeOK
  <2>3. ASSUME NEW r \in Runs, NEW i \in SignalIds, NEW quoted \in BOOLEAN, Reject(r, i, quoted)
        PROVE  Ruled
    <3>1. /\ \A j \in SignalIds : j # i => signal'[j] = signal[j]
          /\ signal'[i].action # "ACT" /\ trades' = trades
      BY <2>3, GateRange DEF Reject, TypeOK, SignalRows
    <3>2. \A j \in SignalIds : ~(trades'[j] > trades[j])
      BY <3>1 DEF TypeOK
    <3>3. \A j \in SignalIds : signal'[j].action = "ACT" => signal[j].action = "ACT"
      BY <3>1
    <3>4. QED
      BY <3>2, <3>3
  <2>4. ASSUME NEW r \in Runs, NEW i \in SignalIds, NEW filled \in BOOLEAN, Book(r, i, filled)
        PROVE  Ruled
    <3>1. work[r][i].at = "booking" /\ work[r][i].verdict.answered
      BY <2>4 DEF Book, At, BookingInv
    <3>2. \A j \in SignalIds : j # i => signal'[j] = signal[j] /\ trades'[j] = trades[j]
      BY <2>4 DEF Book, TypeOK
    <3>3. \A j \in SignalIds : trades[j] \in Nat
      BY DEF TypeOK
    <3>4. QED
      BY <3>1, <3>2, <3>3
  <2>5. QED
    BY <2>1, <2>2, <2>3, <2>4, WhoDecides
<1>3. QED
  BY Typing, BookingStep, <1>1, <1>2, PTL DEF Spec, LlmFailSafe

\* However runs overlap and fail, what was acted on has its metrics.
THEOREM ActMeasuredHolds == Spec => []ActMeasured
<1>1. Init => ActMeasured
  BY DEF Init, ActMeasured, NoSignal
<1>2. TypeOK /\ ActMeasured /\ [Next]_vars => ActMeasured'
  <2> SUFFICES ASSUME TypeOK, ActMeasured, [Next]_vars PROVE ActMeasured'
    OBVIOUS
  <2>1. CASE UNCHANGED dbVars
    BY <2>1 DEF dbVars, ActMeasured
  <2>2. ASSUME NEW r \in Runs, CommitCandidates(r) PROVE ActMeasured'
    BY <2>2 DEF CommitCandidates, TypeOK, ActMeasured
  <2>3. ASSUME NEW r \in Runs, NEW i \in SignalIds, NEW quoted \in BOOLEAN, Reject(r, i, quoted)
        PROVE  ActMeasured'
    <3>1. /\ \A j \in SignalIds : j # i => signal'[j] = signal[j]
          /\ signal'[i].action # "ACT" /\ trades' = trades /\ measured' = measured
      BY <2>3, GateRange DEF Reject, TypeOK, SignalRows
    <3>2. QED
      BY <3>1 DEF ActMeasured
  <2>4. ASSUME NEW r \in Runs, NEW i \in SignalIds, NEW filled \in BOOLEAN, Book(r, i, filled)
        PROVE  ActMeasured'
    <3>1. /\ \A j \in SignalIds : j # i => signal'[j] = signal[j] /\ trades'[j] = trades[j]
          /\ measured' = measured \cup {i}
      BY <2>4 DEF Book, TypeOK
    <3>2. QED
      BY <3>1 DEF ActMeasured
  <2>5. QED
    BY <2>1, <2>2, <2>3, <2>4, WhoDecides
<1>3. QED
  BY Typing, <1>1, <1>2, PTL DEF Spec

--------------------------------------------------------------------------------
(* One run at a time: the invariant behind the refinement.                  *)

LEMMA LedgerInit == Init => LedgerInv
BY NoWorkType, PipelineAssumption
   DEF Init, LedgerInv, PendingInv, RowInv, WorkInv, NoSignal, SignalIds

\* Steps that leave the tables, the ids and the pending rows as they are.
LEMMA LedgerFrame ==
  ASSUME LedgerInv, UNCHANGED <<signal, trades, nextId, pending>>, WorkInv'
  PROVE  LedgerInv'
BY DEF LedgerInv, PendingInv, RowInv, Created

LEMMA AddLedger ==
  ASSUME TypeOK, LedgerInv, OneRun, NEW r \in Runs, NEW pair \in Pairs, AddCandidate(r, pair)
  PROVE  LedgerInv'
<1>1. WorkInv'
  BY DEF AddCandidate, LedgerInv, WorkInv, dbVars
<1>2. CASE UNCHANGED <<pending, nextId>>
  BY <1>1, <1>2, LedgerFrame DEF AddCandidate, dbVars
<1>3. CASE /\ pair \notin SeenPairs(r)
           /\ nextId <= MaxSignals
           /\ pending' = [pending EXCEPT ![r] = @ \cup {[id |-> nextId, pair |-> pair]}]
           /\ nextId' = nextId + 1
  <2>1. nextId \in SignalIds /\ signal' = signal /\ trades' = trades
    BY <1>3, PipelineAssumption DEF AddCandidate, dbVars, TypeOK, SignalIds
  <2>2. signal[nextId].action = "FREE"
    BY <2>1 DEF LedgerInv, RowInv, TypeOK
  <2>3. pending'[r] = pending[r] \cup {[id |-> nextId, pair |-> pair]}
    BY <1>3 DEF TypeOK
  <2>4. RowInv'
    BY <1>3, <2>1 DEF LedgerInv, RowInv, TypeOK, SignalIds
  <2>5. /\ \A p \in pending[r] : p.id < nextId /\ p.pair # pair
        /\ \A i \in Created : signal[i].pair # pair
    BY <1>3 DEF LedgerInv, PendingInv, SeenPairs
  <2>6. /\ \A p \in pending[r] : /\ p.id < nextId /\ p.id \in Nat
                                 /\ signal[p.id].action = "FREE"
                                 /\ \A i \in Created : signal[i].pair # p.pair
        /\ \A p, q \in pending[r] : p.id = q.id \/ p.pair = q.pair => p = q
    BY DEF LedgerInv, PendingInv, TypeOK, SignalIds
  <2>7. Created' = Created
    BY <2>1 DEF Created
  <2>8. \A p \in pending'[r] : /\ p.id < nextId'
                               /\ signal'[p.id].action = "FREE"
                               /\ \A i \in Created' : signal'[i].pair # p.pair
    BY <1>3, <2>1, <2>2, <2>3, <2>5, <2>6, <2>7 DEF TypeOK
  <2>9. \A p, q \in pending'[r] : p.id = q.id \/ p.pair = q.pair => p = q
    <3>1. \A p \in pending[r] : p.id # nextId
      BY <2>5 DEF TypeOK
    <3>2. QED
      BY <2>3, <2>5, <2>6, <3>1
  <2>10. PendingInv'
    BY <2>8, <2>9 DEF PendingInv, OneRun
  <2>11. QED
    BY <1>1, <2>4, <2>10 DEF LedgerInv
<1>4. QED
  BY <1>2, <1>3 DEF AddCandidate

\* Committing: the pending pairs become rows, and no pair twice.
LEMMA CommitRows ==
  ASSUME TypeOK, LedgerInv, NEW r \in Runs, CommitCandidates(r)
  PROVE  /\ \A p \in pending[r] : signal'[p.id] = [pair |-> p.pair, action |-> "CANDIDATE"]
         /\ \A i \in SignalIds : (\A p \in pending[r] : p.id # i) => signal'[i] = signal[i]
<1>1. \A p \in pending[r] : p.id \in SignalIds
  BY DEF TypeOK
<1>2. ASSUME NEW p \in pending[r]
      PROVE  signal'[p.id] = [pair |-> p.pair, action |-> "CANDIDATE"]
  <2>1. (CHOOSE q \in pending[r] : q.id = p.id) = p
    BY DEF LedgerInv, PendingInv
  <2>2. QED
    BY <1>1, <2>1 DEF CommitCandidates
<1>3. QED
  BY <1>2 DEF CommitCandidates

LEMMA CommitLedger ==
  ASSUME TypeOK, LedgerInv, OneRun, NEW r \in Runs, CommitCandidates(r)
  PROVE  LedgerInv'
<1>1. /\ \A p \in pending[r] : signal'[p.id] = [pair |-> p.pair, action |-> "CANDIDATE"]
      /\ \A i \in SignalIds : (\A p \in pending[r] : p.id # i) => signal'[i] = signal[i]
  BY CommitRows
<1>2. pending' = [pending EXCEPT ![r] = {}] /\ trades' = trades /\ nextId' = nextId
  BY DEF CommitCandidates
<1>3. PendingInv'
  BY <1>2 DEF PendingInv, OneRun, TypeOK
<1>4. RowInv'
  <2> SUFFICES ASSUME NEW i \in SignalIds
               PROVE  /\ i >= nextId' => signal'[i].action = "FREE"
                      /\ signal'[i].action \in {"FREE", "CANDIDATE"} => trades'[i] = 0
    BY DEF RowInv
  <2>1. CASE \A p \in pending[r] : p.id # i
    BY <1>1, <1>2, <2>1 DEF LedgerInv, RowInv
  <2>2. CASE \E p \in pending[r] : p.id = i
    <3>1. i < nextId /\ signal[i].action = "FREE" /\ i \in Nat /\ nextId \in Nat
      BY <2>2, PipelineAssumption DEF LedgerInv, PendingInv, TypeOK, SignalIds
    <3>2. QED
      BY <1>2, <3>1 DEF LedgerInv, RowInv
  <2>3. QED
    BY <2>1, <2>2
<1>5. WorkInv'
  <2> SUFFICES ASSUME NEW q \in Runs, NEW i \in SignalIds, work'[q][i].at # "none"
               PROVE  phase'[q] = "working" /\ signal'[i].action = "CANDIDATE"
    BY DEF WorkInv
  <2>1. q = r /\ phase'[q] = "working"
    BY DEF OneRun, CommitCandidates, TypeOK
  <2>2. i \in Newest({j \in SignalIds : signal'[j].action = "CANDIDATE"})
    BY <2>1, NoWorkType DEF CommitCandidates, TypeOK
  <2>3. QED
    BY <2>1, <2>2 DEF Newest
<1>6. QED
  BY <1>3, <1>4, <1>5 DEF LedgerInv

\* A worker decides its signal: nobody else is at work on it.
LEMMA DecideLedger ==
  ASSUME TypeOK, LedgerInv, OneRun, NEW r \in Runs, NEW i \in SignalIds,
         work[r][i].at # "none", Leaves(r, i),
         signal'[i].action \in Decided, signal'[i].pair = signal[i].pair,
         \A j \in SignalIds : j # i => signal'[j] = signal[j] /\ trades'[j] = trades[j],
         UNCHANGED <<phase, matchVars>>
  PROVE  LedgerInv'
<1>1. signal[i].action = "CANDIDATE"
  BY DEF LedgerInv, WorkInv
<1>2. pending' = pending /\ nextId' = nextId
  BY DEF matchVars
<1>3. WorkInv'
  BY LeavesEffect, NoWorkType DEF LedgerInv, WorkInv, OneRun
<1>4. RowInv'
  BY <1>1, <1>2 DEF LedgerInv, RowInv, Decided
<1>5. \A q \in Runs : \A p \in pending[q] : p.id # i /\ p.id \in SignalIds
  BY <1>1 DEF LedgerInv, PendingInv, TypeOK
<1>6. PendingInv'
  <2>1. Created' = Created
    BY <1>1 DEF Created, Decided
  <2>2. \A j \in Created : signal'[j].pair = signal[j].pair
    BY DEF Created
  <2>3. QED
    BY <1>2, <1>5, <2>1, <2>2 DEF LedgerInv, PendingInv
<1>7. QED
  BY <1>3, <1>4, <1>6 DEF LedgerInv

\* The effect of the two deciding steps on the row of the signal.
LEMMA RejectRow ==
  ASSUME TypeOK, NEW r \in Runs, NEW i \in SignalIds, NEW quoted \in BOOLEAN,
         Reject(r, i, quoted)
  PROVE  /\ work[r][i].at # "none" /\ Leaves(r, i) /\ UNCHANGED <<phase, matchVars>>
         /\ signal'[i].action \in Decided /\ signal'[i].action # "ACT"
         /\ signal'[i].pair = signal[i].pair /\ trades' = trades
         /\ \A j \in SignalIds : j # i => signal'[j] = signal[j]
BY GateRange DEF Reject, At, TypeOK, SignalRows

LEMMA BookRow ==
  ASSUME TypeOK, NEW r \in Runs, NEW i \in SignalIds, NEW filled \in BOOLEAN,
         Book(r, i, filled)
  PROVE  /\ work[r][i].at # "none" /\ Leaves(r, i) /\ UNCHANGED <<phase, matchVars>>
         /\ signal'[i].action = "ACT" /\ signal'[i].pair = signal[i].pair
         /\ trades'[i] = IF filled THEN trades[i] + 1 ELSE trades[i]
         /\ \A j \in SignalIds : j # i => signal'[j] = signal[j] /\ trades'[j] = trades[j]
BY DEF Book, At, TypeOK, SignalRows

LEMMA LedgerStep == TypeOK /\ LedgerInv /\ OneRun /\ [Next]_vars => LedgerInv'
<1> SUFFICES ASSUME TypeOK, LedgerInv, OneRun, [Next]_vars PROVE LedgerInv'
  OBVIOUS
<1>1. CASE UNCHANGED vars
  BY <1>1, LedgerFrame DEF vars, LedgerInv, WorkInv
<1>2. CASE \E a \in Articles : Publish(a) \/ GrowStale(a)
  BY <1>2, LedgerFrame DEF Publish, GrowStale, dbVars, LedgerInv, WorkInv
<1>3. ASSUME NEW r \in Runs, BeginRun(r) PROVE LedgerInv'
  BY <1>3, LedgerFrame DEF BeginRun, dbVars, LedgerInv, WorkInv, TypeOK
<1>4. ASSUME NEW r \in Runs, NEW a \in Articles, NEW chosen \in SUBSET Keyworded[a],
             Screen(r, a, chosen)
      PROVE  LedgerInv'
  <2>1. UNCHANGED <<signal, trades, phase, work, pending>>
    BY <1>4 DEF Screen, dbVars
  <2>2. nextId' = nextId
    BY <1>4 DEF Screen
  <2>3. QED
    BY <2>1, <2>2, LedgerFrame DEF LedgerInv, WorkInv
<1>5. ASSUME NEW r \in Runs, NEW pair \in Pairs, AddCandidate(r, pair) PROVE LedgerInv'
  BY <1>5, AddLedger
<1>6. ASSUME NEW r \in Runs, CommitCandidates(r) PROVE LedgerInv'
  BY <1>6, CommitLedger
<1>7. ASSUME NEW r \in Runs, Stop(r) PROVE LedgerInv'
  <2>1. pending'[r] = {} /\ UNCHANGED <<signal, trades, nextId>>
    BY <1>7 DEF Stop, TypeOK, dbVars
  <2>2. WorkInv'
    BY <1>7, NoWorkType DEF Stop, TypeOK, OneRun, WorkInv
  <2>3. QED
    BY <2>1, <2>2 DEF LedgerInv, PendingInv, RowInv, OneRun
<1>8. ASSUME NEW r \in Runs, NEW i \in SignalIds, WorkerFails(r, i) PROVE LedgerInv'
  <2>1. WorkInv'
    BY <1>8, LeavesEffect, NoWorkType DEF WorkerFails, LedgerInv, WorkInv, dbVars
  <2>2. QED
    BY <1>8, <2>1, LedgerFrame DEF WorkerFails, dbVars, matchVars
<1>9. ASSUME NEW r \in Runs, NEW i \in SignalIds, StartWorker(r, i) PROVE LedgerInv'
  <2>1. WorkInv'
    BY <1>9, GoesEffect, LeavesEffect, NoWorkType
       DEF StartWorker, At, LedgerInv, WorkInv, dbVars
  <2>2. QED
    BY <1>9, <2>1, LedgerFrame DEF StartWorker, dbVars, matchVars
<1>10. ASSUME NEW r \in Runs, NEW i \in SignalIds, NEW v \in Replies, Reply(r, i, v)
       PROVE  LedgerInv'
  <2>1. [at |-> "answered", verdict |-> v] \in WorkRecords
    BY ReplyShape DEF WorkRecords
  <2>2. WorkInv'
    BY <1>10, <2>1, UpdateEffect DEF Reply, At, LedgerInv, WorkInv, dbVars
  <2>3. QED
    BY <1>10, <2>2, LedgerFrame DEF Reply, dbVars, matchVars
<1>11. ASSUME NEW r \in Runs, NEW i \in SignalIds, Accept(r, i) PROVE LedgerInv'
  <2>1. WorkInv'
    BY <1>11, GoesEffect DEF Accept, At, LedgerInv, WorkInv, dbVars
  <2>2. QED
    BY <1>11, <2>1, LedgerFrame DEF Accept, dbVars, matchVars
<1>12. ASSUME NEW r \in Runs, NEW i \in SignalIds, NEW quoted \in BOOLEAN, Reject(r, i, quoted)
       PROVE  LedgerInv'
  BY <1>12, RejectRow, DecideLedger
<1>13. ASSUME NEW r \in Runs, NEW i \in SignalIds, NEW filled \in BOOLEAN, Book(r, i, filled)
       PROVE  LedgerInv'
  BY <1>13, BookRow, DecideLedger DEF Decided
<1>14. QED
  BY <1>1, <1>2, <1>3, <1>4, <1>5, <1>6, <1>7, <1>8, <1>9, <1>10, <1>11, <1>12, <1>13
     DEF Next, MatchStep, WorkerStep, EndRun, RunDies

--------------------------------------------------------------------------------
(* The refinement.                                                          *)

\* The abstract table, as the mapping of Ledger defines it.
Rows == [i \in SignalIds |-> [pair   |-> signal[i].pair,
                              action |-> signal[i].action,
                              trades |-> trades[i]]]

LEMMA RefinesInit == Init => Ledger!Init
BY DEF Init, Ledger!Init, Ledger!Unused, NoSignal

LEMMA RefinesCommit ==
  ASSUME TypeOK, LedgerInv, NEW r \in Runs, CommitCandidates(r)
  PROVE  Ledger!Offer
<1> DEFINE new == {p.id : p \in pending[r]}
<1>1. /\ \A p \in pending[r] : signal'[p.id] = [pair |-> p.pair, action |-> "CANDIDATE"]
      /\ \A i \in SignalIds : (\A p \in pending[r] : p.id # i) => signal'[i] = signal[i]
  BY CommitRows
<1>2. trades' = trades
  BY DEF CommitCandidates
<1>3. \A p \in pending[r] : /\ p.id \in SignalIds /\ p.pair \in Pairs
                            /\ signal[p.id].action = "FREE" /\ trades[p.id] = 0
                            /\ \A i \in Created : signal[i].pair # p.pair
  BY DEF TypeOK, LedgerInv, PendingInv, RowInv
<1>4. new \in SUBSET {i \in SignalIds : Ledger!Unused(i)}
  BY <1>3 DEF Ledger!Unused
<1>5. ASSUME NEW p \in pending[r]
      PROVE  Rows'[p.id] = [pair |-> p.pair, action |-> "CANDIDATE", trades |-> 0]
  <2>1. Rows'[p.id] = [pair   |-> signal'[p.id].pair, action |-> signal'[p.id].action,
                       trades |-> trades'[p.id]]
    BY <1>3 DEF Rows
  <2>2. trades'[p.id] = 0 /\ signal'[p.id] = [pair |-> p.pair, action |-> "CANDIDATE"]
    BY <1>1, <1>2, <1>3
  <2>3. QED
    BY <2>1, <2>2
<1>6. \A i \in new : /\ Rows'[i].pair \in Pairs \ Ledger!Listed
                     /\ Rows'[i].action = "CANDIDATE"
                     /\ Rows'[i].trades = 0
  <2> SUFFICES ASSUME NEW p \in pending[r]
               PROVE  /\ Rows'[p.id].pair \in Pairs \ Ledger!Listed
                      /\ Rows'[p.id].action = "CANDIDATE"
                      /\ Rows'[p.id].trades = 0
    OBVIOUS
  <2>1. p.pair \notin Ledger!Listed
    BY <1>3 DEF Ledger!Listed, Ledger!Unused, Created
  <2>2. Rows'[p.id] = [pair |-> p.pair, action |-> "CANDIDATE", trades |-> 0]
    BY <1>5
  <2>3. p.pair \in Pairs
    BY <1>3
  <2> HIDE DEF Rows
  <2>4. QED
    BY <2>1, <2>2, <2>3
<1>7. \A i, j \in new : Rows'[i].pair = Rows'[j].pair => i = j
  <2> SUFFICES ASSUME NEW p \in pending[r], NEW q \in pending[r],
                      Rows'[p.id].pair = Rows'[q.id].pair
               PROVE  p.id = q.id
    OBVIOUS
  <2>1. \A s \in pending[r] : Rows'[s.id].pair = s.pair
    <3> SUFFICES ASSUME NEW s \in pending[r] PROVE Rows'[s.id].pair = s.pair
      OBVIOUS
    <3>1. Rows'[s.id] = [pair |-> s.pair, action |-> "CANDIDATE", trades |-> 0]
      BY <1>5
    <3> HIDE DEF Rows
    <3>2. QED
      BY <3>1
  <2>2. p.pair = q.pair
    BY <2>1
  <2>3. \A s, t \in pending[r] : s.pair = t.pair => s = t
    BY DEF LedgerInv, PendingInv
  <2>4. QED
    BY <2>2, <2>3
<1>8. \A i \in SignalIds \ new : Rows'[i] = Rows[i]
  BY <1>1, <1>2 DEF Rows
<1>9. QED
  BY <1>4, <1>6, <1>7, <1>8 DEF Ledger!Offer, Rows

LEMMA RefinesDecide ==
  ASSUME TypeOK, LedgerInv, NEW r \in Runs, NEW i \in SignalIds, work[r][i].at # "none",
         NEW n \in {0, 1}, n = 1 => signal'[i].action = "ACT",
         signal'[i].action \in Decided, signal'[i].pair = signal[i].pair,
         trades'[i] = trades[i] + n,
         \A j \in SignalIds : j # i => signal'[j] = signal[j] /\ trades'[j] = trades[j]
  PROVE  Ledger!Decide(i)
<1>1. signal[i].action = "CANDIDATE" /\ trades[i] = 0
  BY DEF LedgerInv, WorkInv, RowInv
<1>2. Rows[i].action = "CANDIDATE"
  BY <1>1 DEF Rows
<1>3. Rows'[i] = [pair |-> Rows[i].pair, action |-> signal'[i].action, trades |-> n]
  BY <1>1 DEF Rows
<1>4. signal'[i].action \in Ledger!Decisions
  BY DEF Ledger!Decisions, Ledger!States, Decided
<1>5. \A j \in SignalIds \ {i} : Rows'[j] = Rows[j]
  BY DEF Rows
<1>6. QED
  BY <1>2, <1>3, <1>4, <1>5 DEF Ledger!Decide, Rows

\* Every step of one run at a time is a step of the ledger, or none of it.
LEMMA RefinesStep == TypeOK /\ LedgerInv /\ OneRun /\ [Next]_vars => [Ledger!Next]_(Rows)
<1> SUFFICES ASSUME TypeOK, LedgerInv, OneRun, [Next]_vars PROVE [Ledger!Next]_(Rows)
  OBVIOUS
<1>1. CASE UNCHANGED dbVars
  BY <1>1 DEF dbVars, Rows
<1>2. ASSUME NEW r \in Runs, CommitCandidates(r) PROVE Ledger!Next
  BY <1>2, RefinesCommit DEF Ledger!Next
<1>3. ASSUME NEW r \in Runs, NEW i \in SignalIds, NEW quoted \in BOOLEAN, Reject(r, i, quoted)
      PROVE  Ledger!Next
  <2>1. trades'[i] = trades[i] + 0
    BY <1>3, RejectRow DEF TypeOK
  <2>2. Ledger!Decide(i)
    BY <1>3, <2>1, RejectRow, RefinesDecide
  <2>3. QED
    BY <2>2 DEF Ledger!Next
<1>4. ASSUME NEW r \in Runs, NEW i \in SignalIds, NEW filled \in BOOLEAN, Book(r, i, filled)
      PROVE  Ledger!Next
  <2> DEFINE n == IF filled THEN 1 ELSE 0
  <2>1. n \in {0, 1} /\ trades'[i] = trades[i] + n
    BY <1>4, BookRow DEF TypeOK
  <2>2. Ledger!Decide(i)
    <3> HIDE DEF n
    <3> QED
      BY <1>4, <2>1, BookRow, RefinesDecide DEF Decided
  <2>3. QED
    BY <2>2 DEF Ledger!Next
<1>5. QED
  BY <1>1, <1>2, <1>3, <1>4, WhoDecides

\* While runs do not overlap, every behaviour of the pipeline is one of the
\* ledger: a pair is put forward once and decided once, whatever fails.
THEOREM ImplementsLedgerHolds == ASSUME OneRun PROVE Spec => ImplementsLedger
<1>1. TypeOK /\ LedgerInv /\ [Next]_vars => LedgerInv'
  BY LedgerStep
<1>2. TypeOK /\ LedgerInv /\ [Next]_vars => [Ledger!Next]_(Rows)
  BY RefinesStep
<1>3. QED
  BY Typing, LedgerInit, RefinesInit, <1>1, <1>2, PTL
     DEF Spec, ImplementsLedger, Ledger!Spec, Rows

--------------------------------------------------------------------------------
(* What an operator reads off the ledger.                                   *)

\* Rows that were put forward differ in their pairs, and only those are traded,
\* at most once.
UniqueInv ==
  \A i, j \in SignalIds :
    /\ Rows[i].trades \in {0, 1}
    /\ Rows[i].action = "FREE" => Rows[i].trades = 0
    /\ Rows[i].action # "FREE" /\ Rows[j].action # "FREE" /\ Rows[i].pair = Rows[j].pair
       => i = j

\* It is an invariant of the ledger alone.
LEMMA UniqueStep == UniqueInv /\ [Ledger!Next]_(Rows) => UniqueInv'
<1> SUFFICES ASSUME UniqueInv, [Ledger!Next]_(Rows) PROVE UniqueInv'
  OBVIOUS
<1>1. CASE UNCHANGED Rows
  BY <1>1 DEF UniqueInv
<1>2. CASE Ledger!Offer
  <2>1. PICK new \in SUBSET {i \in SignalIds : Rows[i].action = "FREE"} :
          /\ \A i \in new : /\ Rows'[i].pair \notin Ledger!Listed
                            /\ Rows'[i].action = "CANDIDATE"
                            /\ Rows'[i].trades = 0
          /\ \A i, j \in new : Rows'[i].pair = Rows'[j].pair => i = j
          /\ \A i \in SignalIds \ new : Rows'[i] = Rows[i]
    BY <1>2 DEF Ledger!Offer, Ledger!Unused, Rows
  <2>2. \A j \in SignalIds : Rows[j].action # "FREE" => Rows[j].pair \in Ledger!Listed
    BY DEF Ledger!Listed, Ledger!Unused, Rows
  <2> HIDE DEF Rows
  <2>3. QED
    BY <2>1, <2>2 DEF UniqueInv
<1>3. ASSUME NEW i \in SignalIds, Ledger!Decide(i) PROVE UniqueInv'
  <2>1. PICK a \in Ledger!Decisions, n \in {0, 1} :
          Rows'[i] = [pair |-> Rows[i].pair, action |-> a, trades |-> n]
    BY <1>3 DEF Ledger!Decide, Rows
  <2>2. Rows[i].action # "FREE" /\ \A j \in SignalIds \ {i} : Rows'[j] = Rows[j]
    BY <1>3 DEF Ledger!Decide, Rows
  <2>3. a # "FREE"
    BY DEF Ledger!Decisions
  <2>4. Rows'[i].pair = Rows[i].pair /\ Rows'[i].action # "FREE" /\ Rows'[i].trades \in {0, 1}
    BY <2>1, <2>3
  <2> HIDE DEF Rows
  <2>5. QED
    BY <2>2, <2>4 DEF UniqueInv
<1>4. QED
  BY <1>1, <1>2, <1>3 DEF Ledger!Next

\* While runs do not overlap, they leave what one would: no pair of an article and
\* a market is ever traded twice, however runs and workers fail.
THEOREM OneTradePerPairHolds == ASSUME OneRun PROVE Spec => []OneTradePerPair
<1>1. Init => UniqueInv
  BY DEF Init, UniqueInv, Rows, NoSignal
<1>2. TypeOK /\ LedgerInv /\ [Next]_vars => LedgerInv'
  BY LedgerStep
<1>3. TypeOK /\ LedgerInv /\ UniqueInv /\ [Next]_vars => UniqueInv'
  BY RefinesStep, UniqueStep
<1>4. TypeOK /\ UniqueInv => OneTradePerPair
  <2> SUFFICES ASSUME UniqueInv, NEW i \in SignalIds, NEW j \in SignalIds,
                      trades[i] > 0, trades[j] > 0
               PROVE  trades[i] = 1 /\ (signal[i].pair = signal[j].pair => i = j)
    BY DEF OneTradePerPair
  <2>1. \A k \in SignalIds : /\ Rows[k].pair = signal[k].pair
                             /\ Rows[k].action = signal[k].action
                             /\ Rows[k].trades = trades[k]
    BY DEF Rows
  <2> HIDE DEF Rows
  <2>2. trades[i] \in {0, 1} /\ trades[j] \in {0, 1}
    BY <2>1 DEF UniqueInv
  <2>3. Rows[i].action # "FREE" /\ Rows[j].action # "FREE"
    BY <2>1, <2>2 DEF UniqueInv
  <2>4. signal[i].pair = signal[j].pair => i = j
    BY <2>1, <2>3 DEF UniqueInv
  <2>5. QED
    BY <2>2, <2>4
<1>5. QED
  BY Typing, LedgerInit, <1>1, <1>2, <1>3, <1>4, PTL DEF Spec
================================================================================
