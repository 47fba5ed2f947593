-------------------------------- MODULE JobProofs -------------------------------
(***************************************************************************)
(* What holds of jobs of which any number of runs overlap: of the status   *)
(* row of a job and of the panel that shows it when the snapshot loop is   *)
(* one of its starters, and of the polls of the news feeds.                *)
(***************************************************************************)
EXTENDS SnapshotLoop, NewsPoll, FiniteSetTheorems, TLAPS

--------------------------------------------------------------------------------
(* The status row.                                                          *)

LEMMA MergeType ==
  ASSUME NEW read \in JobRows, NEW mark \in JobRows, NEW now \in JobRows
  PROVE  Merge(read, mark, now) \in JobRows
<1>1. Column(read.status, mark.status, now.status) \in Statuses
  BY DEF Column, JobRows
<1>2. Column(read.finished, mark.finished, now.finished) \in BOOLEAN
  BY DEF Column, JobRows
<1>3. Column(read.error, mark.error, now.error) \in BOOLEAN
  BY DEF Column, JobRows
<1>. QED  BY <1>1, <1>2, <1>3 DEF Merge, JobRows

LEMMA MarksAreRows ==
  Running \in JobRows /\ Success \in JobRows /\ Failed \in JobRows /\ NewRow \in JobRows
BY DEF Running, Success, Failed, NewRow, JobRows, Statuses

\* A mark leaves the row and the tables well-typed.
LEMMA WriteType ==
  ASSUME TypeOK, NEW i \in Invocations, NEW mark \in JobRows, Write(i, mark)
  PROVE  /\ row' \in JobRows
         /\ durable' \subseteq Invocations \X Writes
         /\ dirty' \in [Invocations -> SUBSET Writes]
<1>1. (IF loaded[i] = NoRow THEN NewRow ELSE loaded[i]) \in JobRows
  BY MarksAreRows DEF TypeOK
<1>2. (IF row = NoRow THEN NewRow ELSE row) \in JobRows
  BY MarksAreRows DEF TypeOK
<1>3. row' \in JobRows
  BY <1>1, <1>2, MergeType DEF Write
<1>. QED  BY <1>3 DEF Write, TypeOK

LEMMA ReadType ==
  ASSUME TypeOK, NEW i \in Invocations, BeginStart(i) \/ BeginEnd(i)
  PROVE  TypeOK'
<1>1. CASE BeginStart(i)
  BY <1>1 DEF BeginStart, Read, TypeOK
<1>2. CASE BeginEnd(i)
  BY <1>2 DEF BeginEnd, Read, TypeOK
<1>. QED  BY <1>1, <1>2

\* The variables keep their types.
THEOREM Typing == Spec => []TypeOK
<1>1. Init => TypeOK
  BY TrackerAssumption DEF Init, TypeOK
<1>2. TypeOK /\ [Next]_vars => TypeOK'
  <2>. SUFFICES ASSUME TypeOK, [Next]_vars PROVE TypeOK'
    OBVIOUS
  <2>1. CASE UNCHANGED vars
    BY <2>1 DEF vars, TypeOK
  <2>2. ASSUME NEW i \in Invocations, BeginStart(i) PROVE TypeOK'
    BY <2>2, ReadType
  <2>3. ASSUME NEW i \in Invocations, MarkRunning(i) PROVE TypeOK'
    BY <2>3, WriteType, MarksAreRows DEF MarkRunning, TypeOK
  <2>4. ASSUME NEW i \in Invocations, StartRefused(i) PROVE TypeOK'
    BY <2>4 DEF StartRefused, TypeOK
  <2>5. ASSUME NEW i \in Invocations, NEW w \in Writes, Work(i, w) PROVE TypeOK'
    BY <2>5 DEF Work, TypeOK
  <2>6. ASSUME NEW i \in Invocations, CommitWork(i) PROVE TypeOK'
    BY <2>6 DEF CommitWork, TypeOK
  <2>7. ASSUME NEW i \in Invocations, Return(i) PROVE TypeOK'
    BY <2>7 DEF Return, TypeOK
  <2>8. ASSUME NEW i \in Invocations, Raise(i) PROVE TypeOK'
    BY <2>8 DEF Raise, TypeOK
  <2>9. ASSUME NEW i \in Invocations, BeginEnd(i) PROVE TypeOK'
    BY <2>9, ReadType
  <2>10. ASSUME NEW i \in Invocations, MarkSuccess(i) PROVE TypeOK'
    BY <2>10, WriteType, MarksAreRows DEF MarkSuccess, TypeOK
  <2>11. ASSUME NEW i \in Invocations, MarkFailed(i) PROVE TypeOK'
    BY <2>11, WriteType, MarksAreRows DEF MarkFailed, TypeOK
  <2>12. ASSUME NEW i \in Invocations, EndsUnmarked(i) PROVE TypeOK'
    BY <2>12 DEF EndsUnmarked, TypeOK
  <2>. QED
    BY <2>1, <2>2, <2>3, <2>4, <2>5, <2>6, <2>7, <2>8, <2>9, <2>10, <2>11, <2>12
       DEF Next, Tracked
<1>. QED  BY <1>1, <1>2, PTL DEF Spec

--------------------------------------------------------------------------------
(* No row is left RUNNING.  The run whose RUNNING was written last is still to *)
(* end, and when it has read the row for that it has read RUNNING.             *)

Owes(i) ==
  \/ pc[i] \in {"working", "succeeded", "failed"}
  \/ pc[i] \in {"succeeding", "failing"} /\ loaded[i].status = "RUNNING"

OwedInv == row.status = "RUNNING" /\ unmarked = 0 => \E i \in Invocations : Owes(i)

\* An end mark replaces the RUNNING it has read, and never writes RUNNING.
LEMMA EndMark ==
  ASSUME TypeOK, NEW i \in Invocations, NEW mark \in {Success, Failed}, Write(i, mark),
         row'.status = "RUNNING"
  PROVE  row.status = "RUNNING" /\ loaded[i].status # "RUNNING"
<1>1. mark.status \in {"SUCCESS", "FAILED"}
  BY DEF Success, Failed
<1>2. row'.status = Column((IF loaded[i] = NoRow THEN NewRow ELSE loaded[i]).status, mark.status,
                           (IF row = NoRow THEN NewRow ELSE row).status)
  BY DEF Write, Merge
<1>3. /\ mark.status = (IF loaded[i] = NoRow THEN NewRow ELSE loaded[i]).status
      /\ (IF row = NoRow THEN NewRow ELSE row).status = "RUNNING"
  BY <1>1, <1>2 DEF Column
<1>4. row.status = "RUNNING"
  BY <1>3 DEF NewRow
<1>5. loaded[i].status # "RUNNING"
  BY <1>1, <1>3 DEF NoRow
<1>. QED  BY <1>4, <1>5

LEMMA OwedStep == TypeOK /\ OwedInv /\ [Next]_vars => OwedInv'
<1>. SUFFICES ASSUME TypeOK, OwedInv, [Next]_vars, row'.status = "RUNNING", unmarked' = 0
              PROVE  \E i \in Invocations : Owes(i)'
  BY DEF OwedInv
<1>1. CASE UNCHANGED vars
  BY <1>1 DEF vars, OwedInv, Owes
<1>2. ASSUME NEW j \in Invocations, BeginStart(j) PROVE \E i \in Invocations : Owes(i)'
  <2>1. PICK i \in Invocations : Owes(i)
    BY <1>2 DEF BeginStart, Read, OwedInv
  <2>2. i # j
    BY <1>2, <2>1 DEF BeginStart, Read, Owes
  <2>. QED  BY <1>2, <2>1, <2>2 DEF BeginStart, Read, Owes, TypeOK
<1>3. ASSUME NEW j \in Invocations, MarkRunning(j) PROVE \E i \in Invocations : Owes(i)'
  BY <1>3 DEF MarkRunning, Owes, TypeOK
<1>4. ASSUME NEW j \in Invocations, StartRefused(j) PROVE \E i \in Invocations : Owes(i)'
  <2>1. PICK i \in Invocations : Owes(i)
    BY <1>4 DEF StartRefused, OwedInv
  <2>2. i # j
    BY <1>4, <2>1 DEF StartRefused, Owes
  <2>. QED  BY <1>4, <2>1, <2>2 DEF StartRefused, Owes, TypeOK
<1>5. ASSUME NEW j \in Invocations, \/ \E w \in Writes : Work(j, w)
                                    \/ CommitWork(j) \/ Return(j) \/ Raise(j)
      PROVE \E i \in Invocations : Owes(i)'
  <2>1. row' = row /\ unmarked' = unmarked /\ loaded' = loaded
    BY <1>5 DEF Work, CommitWork, Return, Raise
  <2>2. PICK i \in Invocations : Owes(i)
    BY <2>1 DEF OwedInv
  <2>. QED  BY <1>5, <2>1, <2>2 DEF Work, CommitWork, Return, Raise, Owes, TypeOK
<1>6. ASSUME NEW j \in Invocations, BeginEnd(j) PROVE \E i \in Invocations : Owes(i)'
  <2>1. /\ loaded'[j] = row
        /\ pc'[j] \in {"succeeding", "failing"}
        /\ row' = row
    BY <1>6 DEF BeginEnd, Read, TypeOK
  <2>. QED  BY <2>1 DEF Owes
<1>7. ASSUME NEW j \in Invocations, MarkSuccess(j) \/ MarkFailed(j)
      PROVE \E i \in Invocations : Owes(i)'
  <2>1. PICK mark \in {Success, Failed} : Write(j, mark)
    BY <1>7 DEF MarkSuccess, MarkFailed
  <2>2. row.status = "RUNNING" /\ loaded[j].status # "RUNNING"
    BY <2>1, EndMark
  <2>3. PICK i \in Invocations : Owes(i)
    BY <1>7, <2>2 DEF OwedInv, MarkSuccess, MarkFailed
  <2>4. i # j
    BY <1>7, <2>2, <2>3 DEF Owes, MarkSuccess, MarkFailed
  <2>. QED  BY <1>7, <2>3, <2>4 DEF MarkSuccess, MarkFailed, Owes, TypeOK
<1>8. ASSUME NEW j \in Invocations, EndsUnmarked(j) PROVE \E i \in Invocations : Owes(i)'
  BY <1>8 DEF EndsUnmarked, TypeOK
<1>. QED
  BY <1>1, <1>2, <1>3, <1>4, <1>5, <1>6, <1>7, <1>8 DEF Next, Tracked

\* However many runs overlap, the row does not stay RUNNING once all runs are over,
\* unless one of them ended unmarked.
THEOREM NeverLeftRunningHolds == Spec => []NeverLeftRunning
<1>1. Init => OwedInv
  BY DEF Init, OwedInv, NoRow
<1>2. OwedInv => NeverLeftRunning
  BY DEF OwedInv, NeverLeftRunning, Owes
<1>. QED  BY <1>1, <1>2, OwedStep, Typing, PTL DEF Spec

--------------------------------------------------------------------------------
(* What the marks commit.                                                   *)

RolledBackInv == \A i \in Invocations : pc[i] \in {"failed", "failing"} => dirty[i] = {}

LEMMA RolledBackStep == TypeOK /\ RolledBackInv /\ [Next]_vars => RolledBackInv'
<1>. SUFFICES ASSUME TypeOK, RolledBackInv, [Next]_vars, NEW i \in Invocations,
                     pc'[i] \in {"failed", "failing"}
              PROVE  dirty'[i] = {}
  BY DEF RolledBackInv
<1>1. CASE UNCHANGED vars
  BY <1>1 DEF vars, RolledBackInv
<1>2. ASSUME NEW j \in Invocations, Tracked(j) \/ EndsUnmarked(j) PROVE dirty'[i] = {}
  <2>1. CASE i # j
    BY <1>2, <2>1 DEF Tracked, EndsUnmarked, BeginStart, Read, MarkRunning, StartRefused, Work,
         CommitWork, Return, Raise, BeginEnd, MarkSuccess, MarkFailed, Write,
         RolledBackInv, TypeOK
  <2>2. CASE i = j
    BY <1>2, <2>2 DEF Tracked, EndsUnmarked, BeginStart, Read, MarkRunning, StartRefused, Work,
         CommitWork, Return, Raise, BeginEnd, MarkSuccess, MarkFailed, Write,
         RolledBackInv, TypeOK
  <2>. QED  BY <2>1, <2>2
<1>. QED  BY <1>1, <1>2 DEF Next

\* The commit that records a failure carries nothing of the failed run into the
\* database, however many runs overlap.
THEOREM FailureCommitsNothingHolds == Spec => FailureCommitsNothing
<1>1. Init => RolledBackInv
  BY DEF Init, RolledBackInv
<1>2. TypeOK /\ RolledBackInv /\ [Next]_vars =>
        [\A i \in Invocations : pc[i] \in {"failed", "failing"} =>
           \A w \in Writes : <<i, w>> \in durable' => <<i, w>> \in durable]_vars
  <2>. SUFFICES ASSUME TypeOK, RolledBackInv, Next, NEW i \in Invocations,
                       pc[i] \in {"failed", "failing"}, NEW w \in Writes,
                       <<i, w>> \in durable'
                PROVE  <<i, w>> \in durable
    OBVIOUS
  <2>1. PICK j \in Invocations : Tracked(j) \/ EndsUnmarked(j)
    BY DEF Next
  <2>2. durable' \subseteq durable \cup ({j} \X dirty[j])
    BY <2>1 DEF Tracked, EndsUnmarked, BeginStart, Read, MarkRunning, StartRefused, Work,
         CommitWork, Return, Raise, BeginEnd, MarkSuccess, MarkFailed, Write
  <2>3. dirty[i] = {}
    BY DEF RolledBackInv
  <2>. QED  BY <2>2, <2>3
<1>. QED  BY <1>1, <1>2, RolledBackStep, Typing, PTL DEF Spec, FailureCommitsNothing

\* What a run has made, unless it has failed, is in its session or in the database.
KeptInv ==
  \A i \in Invocations : pc[i] \in {"starting", "working", "succeeded", "succeeding"} =>
    \A w \in made[i] : w \in dirty[i] \/ <<i, w>> \in durable

\* A commit takes what the session holds.
LEMMA WriteKeeps ==
  ASSUME TypeOK, KeptInv, NEW j \in Invocations, NEW mark, Write(j, mark), made' = made,
         \A i \in Invocations : pc'[i] # "idle" => i # j \/ pc[j] = "starting",
         \A i \in Invocations \ {j} : pc'[i] = pc[i]
  PROVE  /\ pc[j] \in {"starting", "succeeding"} => {j} \X made[j] \subseteq durable'
         /\ KeptInv'
<1>1. pc[j] \in {"starting", "succeeding"} => \A w \in made[j] : <<j, w>> \in durable'
  BY DEF Write, KeptInv
<1>2. \A i \in Invocations \ {j} : dirty'[i] = dirty[i]
  BY DEF Write, TypeOK
<1>3. durable \subseteq durable'
  BY DEF Write
<1>. QED  BY <1>1, <1>2, <1>3 DEF KeptInv

LEMMA KeptStep == TypeOK /\ KeptInv /\ [Next]_vars => KeptInv'
<1>. SUFFICES ASSUME TypeOK, KeptInv, [Next]_vars PROVE KeptInv'
  OBVIOUS
<1>1. CASE UNCHANGED vars
  BY <1>1 DEF vars, KeptInv
<1>2. ASSUME NEW j \in Invocations, BeginStart(j) PROVE KeptInv'
  <2>1. made'[j] = {} /\ \A i \in Invocations \ {j} : made'[i] = made[i] /\ pc'[i] = pc[i]
    BY <1>2 DEF BeginStart, Read, TypeOK
  <2>2. \A i \in Invocations \ {j} : \A w : <<i, w>> \in durable => <<i, w>> \in durable'
    BY <1>2 DEF BeginStart
  <2>3. dirty' = dirty
    BY <1>2 DEF BeginStart
  <2>. QED  BY <2>1, <2>2, <2>3 DEF KeptInv
<1>3. ASSUME NEW j \in Invocations, MarkRunning(j) \/ MarkSuccess(j) \/ MarkFailed(j)
      PROVE  KeptInv'
  <2>1. PICK mark : Write(j, mark)
    BY <1>3 DEF MarkRunning, MarkSuccess, MarkFailed
  <2>2. made' = made /\ \A i \in Invocations \ {j} : pc'[i] = pc[i]
    BY <1>3 DEF MarkRunning, MarkSuccess, MarkFailed, TypeOK
  <2>3. pc'[j] = "idle" \/ pc[j] = "starting"
    BY <1>3 DEF MarkRunning, MarkSuccess, MarkFailed, TypeOK
  <2>. QED  BY <2>1, <2>2, <2>3, WriteKeeps
<1>4. ASSUME NEW j \in Invocations, NEW w \in Writes, Work(j, w) PROVE KeptInv'
  BY <1>4 DEF Work, KeptInv, TypeOK
<1>5. ASSUME NEW j \in Invocations, CommitWork(j) PROVE KeptInv'
  <2>1. durable \subseteq durable' /\ \A w \in dirty[j] : <<j, w>> \in durable'
    BY <1>5 DEF CommitWork
  <2>2. /\ \A i \in Invocations \ {j} : dirty'[i] = dirty[i]
        /\ made' = made /\ pc' = pc
    BY <1>5 DEF CommitWork, TypeOK
  <2>. QED  BY <2>1, <2>2 DEF KeptInv
<1>6. ASSUME NEW j \in Invocations, Return(j) PROVE KeptInv'
  BY <1>6 DEF Return, KeptInv, TypeOK
<1>7. ASSUME NEW j \in Invocations, StartRefused(j) \/ Raise(j) \/ EndsUnmarked(j) PROVE KeptInv'
  <2>1. /\ pc'[j] \in {"idle", "failed"} /\ made' = made /\ durable' = durable
        /\ \A i \in Invocations \ {j} : pc'[i] = pc[i] /\ dirty'[i] = dirty[i]
    BY <1>7 DEF StartRefused, Raise, EndsUnmarked, TypeOK
  <2>. QED  BY <2>1 DEF KeptInv
<1>8. ASSUME NEW j \in Invocations, BeginEnd(j) PROVE KeptInv'
  BY <1>8 DEF BeginEnd, Read, KeptInv, TypeOK
<1>. QED  BY <1>1, <1>2, <1>3, <1>4, <1>5, <1>6, <1>7, <1>8 DEF Next, Tracked

\* A run that ends as a success has lost nothing of what it wrote since it began, neither before its
\* session read the row for the mark nor with the mark, however many runs overlap.
THEOREM SuccessKeepsWorkHolds == Spec => SuccessKeepsWork
<1>1. Init => KeptInv
  BY DEF Init, KeptInv
<1>2. TypeOK /\ KeptInv /\ [Next]_vars =>
        [\A i \in Invocations :
           pc[i] = "succeeding" /\ pc'[i] = "idle" /\ unmarked' = unmarked
             => {i} \X made[i] \subseteq durable']_vars
  <2>. SUFFICES ASSUME TypeOK, KeptInv, Next, NEW i \in Invocations,
                       pc[i] = "succeeding", pc'[i] = "idle", unmarked' = unmarked
                PROVE  {i} \X made[i] \subseteq durable'
    OBVIOUS
  <2>1. PICK j \in Invocations : Tracked(j) \/ EndsUnmarked(j)
    BY DEF Next
  <2>2. i = j
    BY <2>1 DEF Tracked, EndsUnmarked, BeginStart, Read, MarkRunning, StartRefused, Work,
         CommitWork, Return, Raise, BeginEnd, MarkSuccess, MarkFailed, Write, TypeOK
  <2>3. MarkSuccess(i)
    BY <2>1, <2>2 DEF Tracked, EndsUnmarked, BeginStart, Read, MarkRunning, StartRefused, Work,
         CommitWork, Return, Raise, BeginEnd, MarkFailed, TypeOK
  <2>4. Write(i, Success)
    BY <2>3 DEF MarkSuccess
  <2>. QED  BY <2>4 DEF Write, KeptInv
<1>. QED  BY <1>1, <1>2, KeptStep, Typing, PTL DEF Spec, SuccessKeepsWork

--------------------------------------------------------------------------------
(* One run at a time.                                                       *)

FreshInv ==
  \A i \in Invocations : pc[i] \in {"starting", "succeeding", "failing"} => loaded[i] = row

TruthInv == FreshInv /\ Truthful

LEMMA FreshMark ==
  ASSUME TypeOK, NEW i \in Invocations, NEW mark \in {Running, Success, Failed},
         loaded[i] = row, Write(i, mark)
  PROVE  row' = mark
<1>. DEFINE r == IF row = NoRow THEN NewRow ELSE row
<1>1. r \in JobRows /\ mark \in JobRows
  BY MarksAreRows DEF TypeOK
<1>2. row' = Merge(r, mark, r)
  BY DEF Write
<1>. HIDE DEF r
<1>3. Merge(r, mark, r) = [status |-> mark.status, finished |-> mark.finished,
                           error |-> mark.error]
  BY DEF Merge, Column
<1>. QED  BY <1>1, <1>2, <1>3 DEF JobRows

LEMMA TruthStep ==
  ASSUME OneInvocation, TypeOK, TruthInv, [Next]_vars
  PROVE  TruthInv'
<1>1. CASE UNCHANGED vars
  BY <1>1 DEF vars, TruthInv, FreshInv, Truthful, Underway
<1>2. ASSUME NEW j \in Invocations, Tracked(j) \/ EndsUnmarked(j) PROVE TruthInv'
  <2>. DEFINE under == pc[j] \in {"working", "succeeded", "failed", "succeeding", "failing"}
  <2>1. /\ \A i \in Invocations : i = j
        /\ pc[j] \in {"starting", "succeeding", "failing"} => loaded[j] = row
        /\ under => row = Running
        /\ unmarked = 0 => row \in {NoRow, Success, Failed} \/ under
        /\ row \in {NoRow, Running, Success, Failed}
    BY DEF OneInvocation, TruthInv, FreshInv, Truthful, Underway
  <2>2. SUFFICES
        /\ pc'[j] \in {"starting", "succeeding", "failing"} => loaded'[j] = row'
        /\ under' => row' = Running
        /\ unmarked' = 0 => row' \in {NoRow, Success, Failed} \/ under'
        /\ row' \in {NoRow, Running, Success, Failed}
    BY <2>1 DEF TruthInv, FreshInv, Truthful, Underway
  <2>3. CASE MarkRunning(j)
    <3>1. row' = Running /\ pc'[j] = "working"
      BY <2>1, <2>3, FreshMark DEF MarkRunning, TypeOK
    <3>. QED  BY <3>1
  <2>4. CASE MarkSuccess(j)
    <3>1. row' = Success /\ pc'[j] = "idle"
      BY <2>1, <2>4, FreshMark DEF MarkSuccess, TypeOK
    <3>. QED  BY <3>1
  <2>5. CASE MarkFailed(j)
    <3>1. row' = Failed /\ pc'[j] = "idle"
      BY <2>1, <2>5, FreshMark DEF MarkFailed, TypeOK
    <3>. QED  BY <3>1
  <2>6. CASE BeginStart(j)
    BY <2>1, <2>6 DEF BeginStart, Read, TypeOK
  <2>7. CASE BeginEnd(j)
    BY <2>1, <2>7 DEF BeginEnd, Read, TypeOK
  <2>8. CASE StartRefused(j) \/ EndsUnmarked(j)
    BY <2>1, <2>8 DEF StartRefused, EndsUnmarked, TypeOK
  <2>9. CASE (\E w \in Writes : Work(j, w)) \/ CommitWork(j) \/ Return(j) \/ Raise(j)
    BY <2>1, <2>9 DEF Work, CommitWork, Return, Raise, TypeOK
  <2>. QED  BY <1>2, <2>3, <2>4, <2>5, <2>6, <2>7, <2>8, <2>9 DEF Tracked
<1>. QED  BY <1>1, <1>2 DEF Next

\* The row of a job whose runs do not overlap tells the truth about it.
THEOREM TruthfulHolds == ASSUME OneInvocation PROVE Spec => []Truthful
<1>1. Init => TruthInv
  BY DEF Init, TruthInv, FreshInv, Truthful, Underway
<1>2. TypeOK /\ TruthInv /\ [Next]_vars => TruthInv'
  BY OneInvocation, TruthStep
<1>3. TruthInv => Truthful
  BY DEF TruthInv
<1>. QED  BY <1>1, <1>2, <1>3, Typing, PTL DEF Spec
--------------------------------------------------------------------------------
(* The panel and the snapshot loop.  How long ago a full sync may have ended   *)
(* while the row shows a success depends on where the loop is: Spare is what   *)
(* the runs that end unmarked may still cost.                                  *)

Shown == row # NoRow /\ row.status \notin {"RUNNING", "FAILED"}

Spare == (MaxUnmarked - unmarked) * (MaxRun + Interval)

IdleBound     == pc[Loop] = "idle" => synced + wait + MaxRun + Spare <= Behind
StartingBound == pc[Loop] = "starting" => synced + (MaxRun - elapsed[Loop]) + Spare <= Behind

\* A row that says RUNNING, or none, when the loop's session reads it.
OvertakenBound ==
  pc[Loop] = "starting" /\ loaded[Loop].status \in {"RUNNING", "ABSENT"}
    => synced <= MaxRun + elapsed[Loop]

UnderwayBound == Underway(Loop) => synced <= (Interval - 1) + MaxRun + elapsed[Loop]

ShownInv == Shown => IdleBound /\ StartingBound /\ OvertakenBound /\ UnderwayBound

Ended(i) == pc[i] \in {"succeeded", "succeeding"}

BookInv ==
  /\ unmarked <= MaxUnmarked
  /\ row = NoRow => \A i \in Invocations : loaded[i] = NoRow

\* What the clocks and the loop have to do with each other whatever the row shows.
ClockInv ==
  /\ age < Interval => synced <= age
  /\ \A i \in Invocations : Ended(i) /\ (i = Loop => full) => synced <= elapsed[i]
  /\ Underway(Loop) /\ ~full => synced <= (Interval - 1) + elapsed[Loop]


\* A step of the loop, of another invocation or of the clock is one of the tracker.
LEMMA StepIsTracked == [LoopNext]_loopVars => [Next]_vars
<1>. SUFFICES ASSUME LoopNext PROVE [Next]_vars
  BY DEF loopVars, vars
<1>1. CASE LoopAdvances \/ LoopWorks
  BY <1>1, LoopAssumption
     DEF LoopAdvances, LoopWorks, LoopBegins, LoopDecides, LoopReturns, LoopRaises,
         LoopMarks, LoopEnds, Next, Tracked
<1>2. CASE LoopMarkLost \/ Restart
  BY <1>2, LoopAssumption DEF LoopMarkLost, Restart, Next
<1>3. CASE Tick
  BY <1>3 DEF Tick
<1>4. CASE \E i \in Invocations : Other(i)
  BY <1>4
     DEF Other, OtherAdvances, OtherReturns, OtherBegins, OtherWorks, OtherMarks, OtherEnds,
         Next, Tracked
<1>. QED  BY <1>1, <1>2, <1>3, <1>4 DEF LoopNext

\* Runs driven by the loop are runs of the tracker: all that is proved of the tracker
\* holds of the loop and the crons together.
THEOREM LoopIsTracked == LoopSpec => Spec
<1>1. LoopInit => Init
  BY DEF LoopInit
<1>. QED  BY <1>1, StepIsTracked, PTL DEF LoopSpec, Spec

LEMMA Bounds ==
  /\ Interval \in Nat /\ MaxRun \in Nat /\ LongestNap \in Nat /\ Floor \in Nat
  /\ 1 <= Interval /\ 1 <= MaxRun /\ Interval <= LongestNap /\ Floor <= LongestNap
  /\ MaxUnmarked * (MaxRun + Interval) \in Nat
  /\ Behind = (Interval - 1) + LongestNap + 3 * MaxRun + MaxUnmarked * (MaxRun + Interval)
  /\ Behind \in Nat
<1>1. /\ Interval \in Nat /\ MaxRun \in Nat /\ Floor \in Nat /\ MaxUnmarked \in Nat
      /\ 1 <= Interval /\ 1 <= MaxRun
  BY LoopAssumption, TrackerAssumption
<1>2. LongestNap \in Nat /\ Interval <= LongestNap /\ Floor <= LongestNap
  BY <1>1 DEF LongestNap, Longer
<1>3. MaxUnmarked * (MaxRun + Interval) \in Nat
  BY <1>1
<1>. HIDE DEF LongestNap
<1>4. Behind = (Interval - 1) + LongestNap + 3 * MaxRun + MaxUnmarked * (MaxRun + Interval)
  BY <1>1, <1>2, <1>3 DEF Behind
<1>. QED  BY <1>1, <1>2, <1>3, <1>4

LEMMA NapsInRange == Naps \subseteq 0..LongestNap
<1>1. \A u \in Urgencies : Scaled(Interval, u) \in 0..Interval
  BY Bounds DEF Urgencies, Scaled
<1>2. \A u \in Urgencies : Longer(Floor, Scaled(Interval, u)) \in 0..LongestNap
  BY <1>1, Bounds DEF Longer
<1>. QED  BY <1>2, Bounds DEF Naps

\* The loop's variables keep their types.
THEOREM LoopTyping == LoopSpec => []LoopTypeOK
<1>1. LoopInit => LoopTypeOK
  <2>1. Init => TypeOK
    BY TrackerAssumption DEF Init, TypeOK
  <2>2. \A n \in Nat : 0 \in 0..n /\ n \in 0..n
    OBVIOUS
  <2>3. Behind + 1 \in Nat
    BY Bounds
  <2>. QED  BY <2>1, <2>2, <2>3, Bounds DEF LoopInit, LoopTypeOK
<1>2. TypeOK' /\ LoopTypeOK /\ [LoopNext]_loopVars => LoopTypeOK'
  <2>. SUFFICES ASSUME TypeOK', LoopTypeOK, [LoopNext]_loopVars PROVE LoopTypeOK'
    OBVIOUS
  <2>. SUFFICES /\ wait' \in 0..LongestNap
                /\ full' \in BOOLEAN
                /\ age' \in 0..Interval
                /\ elapsed' \in [Invocations -> 0..MaxRun]
                /\ synced' \in 0..(Behind + 1)
    BY DEF LoopTypeOK
  <2>1. CASE UNCHANGED clockVars
    BY <2>1 DEF clockVars, LoopTypeOK
  <2>. DEFINE Spans == 0..MaxRun
  <2>a. 0 \in Spans /\ elapsed \in [Invocations -> Spans]
    BY Bounds DEF LoopTypeOK
  <2>b. \A i : [elapsed EXCEPT ![i] = 0] \in [Invocations -> Spans]
    <3>. HIDE DEF Spans
    <3>. QED  BY <2>a
  <2>2. CASE LoopDecides \/ LoopReturns
    <3>1. full' \in BOOLEAN
      <4>1. (age >= Interval) \in BOOLEAN
        OBVIOUS
      <4>. QED  BY <2>2, <4>1, Zenon DEF LoopDecides, LoopReturns, LoopTypeOK
    <3>2. age' \in 0..Interval /\ synced' \in 0..(Behind + 1)
      BY <2>2, Bounds DEF LoopDecides, LoopReturns, LoopTypeOK
    <3>. QED  BY <2>2, <3>1, <3>2 DEF LoopDecides, LoopReturns, LoopTypeOK
  <2>3. CASE LoopEnds \/ LoopMarkLost
    <3>1. PICK times \in {Naps, {Interval}} : LoopSleeps(times)
      BY <2>3 DEF LoopEnds, LoopMarkLost
    <3>2. wait' \in 0..LongestNap
      BY <3>1, NapsInRange, Bounds DEF LoopSleeps
    <3>3. elapsed' \in [Invocations -> 0..MaxRun]
      BY <3>1, <2>b DEF LoopSleeps
    <3>. QED  BY <3>1, <3>2, <3>3 DEF LoopSleeps, LoopTypeOK
  <2>4. CASE Restart
    <3>1. elapsed' \in [Invocations -> 0..MaxRun]
      BY <2>4, <2>b DEF Restart
    <3>2. wait' \in 0..LongestNap /\ age' \in 0..Interval
      BY <2>4, Bounds DEF Restart
    <3>. QED  BY <2>4, <3>1, <3>2 DEF Restart, LoopTypeOK
  <2>5. CASE Tick
    <3>1. \A i \in Invocations : pc[i] # "idle" => elapsed[i] + 1 \in 0..MaxRun
      BY <2>5, Bounds DEF Tick, LoopTypeOK
    <3>2. elapsed' \in [Invocations -> 0..MaxRun]
      BY <2>5, <3>1, Bounds DEF Tick
    <3>3. wait' \in 0..LongestNap /\ age' \in 0..Interval /\ synced' \in 0..(Behind + 1)
      BY <2>5, Bounds DEF Tick, LoopTypeOK, Smaller
    <3>. QED  BY <2>5, <3>2, <3>3 DEF Tick, LoopTypeOK
  <2>6. CASE \E i \in Invocations : OtherReturns(i) \/ OtherEnds(i)
    <3>1. PICK i \in Invocations : OtherReturns(i) \/ OtherEnds(i)
      BY <2>6
    <3>2. elapsed' \in [Invocations -> 0..MaxRun]
      BY <3>1, <2>a, <2>b DEF OtherReturns, OtherEnds
    <3>3. synced' \in 0..(Behind + 1)
      BY <3>1, Bounds DEF OtherReturns, OtherEnds, LoopTypeOK
    <3>. QED  BY <3>1, <3>2, <3>3 DEF OtherReturns, OtherEnds, LoopTypeOK
  <2>. QED
    BY <2>1, <2>2, <2>3, <2>4, <2>5, <2>6
       DEF LoopNext, LoopAdvances, LoopWorks, LoopBegins, LoopRaises, LoopMarks,
           Other, OtherAdvances, OtherBegins, OtherWorks, OtherMarks, loopVars, clockVars
<1>. QED  BY <1>1, <1>2, LoopIsTracked, Typing, PTL DEF LoopSpec

LEMMA BookStep == TypeOK /\ BookInv /\ [Next]_vars => BookInv'
<1>. SUFFICES ASSUME TypeOK, BookInv, [Next]_vars PROVE BookInv'
  OBVIOUS
<1>. NoRow \notin JobRows
  BY DEF NoRow, JobRows, Statuses
<1>1. CASE UNCHANGED vars
  BY <1>1 DEF vars, BookInv
<1>2. ASSUME NEW i \in Invocations, NEW mark \in JobRows, Write(i, mark), unmarked' = unmarked
      PROVE  BookInv'
  BY <1>2, WriteType DEF BookInv
<1>3. ASSUME NEW i \in Invocations, BeginStart(i) \/ BeginEnd(i) PROVE BookInv'
  BY <1>3 DEF BeginStart, BeginEnd, Read, BookInv, TypeOK
<1>4. ASSUME NEW i \in Invocations,
             \/ StartRefused(i) \/ (\E w \in Writes : Work(i, w)) \/ CommitWork(i)
             \/ Return(i) \/ Raise(i)
      PROVE  BookInv'
  BY <1>4 DEF StartRefused, Work, CommitWork, Return, Raise, BookInv
<1>5. ASSUME NEW i \in Invocations, EndsUnmarked(i) PROVE BookInv'
  BY <1>5, TrackerAssumption DEF EndsUnmarked, BookInv, TypeOK
<1>. QED
  BY <1>1, <1>2, <1>3, <1>4, <1>5, MarksAreRows
     DEF Next, Tracked, MarkRunning, MarkSuccess, MarkFailed

LEMMA BookHolds == LoopSpec => []BookInv
<1>1. Init => BookInv
  BY TrackerAssumption DEF Init, BookInv
<1>. QED  BY <1>1, BookStep, LoopIsTracked, Typing, PTL DEF Spec

LEMMA ClockStep == LoopTypeOK /\ ClockInv /\ [LoopNext]_loopVars => ClockInv'
<1>. SUFFICES ASSUME LoopTypeOK, ClockInv, [LoopNext]_loopVars PROVE ClockInv'
  OBVIOUS
<1>. USE Bounds, LoopAssumption DEF LoopTypeOK, TypeOK, ClockInv, Ended, Underway
<1>1. CASE UNCHANGED loopVars
  BY <1>1 DEF loopVars, vars, clockVars
<1>2. CASE LoopBegins
  BY <1>2 DEF LoopBegins, BeginStart, Read, clockVars
<1>3. CASE LoopDecides
  <2>1. ~full' => ~(age >= Interval)
    BY <1>3, Zenon DEF LoopDecides
  <2>2. ~full' => synced <= Interval - 1
    BY <2>1
  <2>. QED  BY <1>3, <2>2 DEF LoopDecides, MarkRunning
<1>4. CASE LoopReturns
  BY <1>4 DEF LoopReturns, Return
<1>5. CASE LoopRaises
  BY <1>5 DEF LoopRaises, Raise, clockVars
<1>6. CASE LoopMarks
  BY <1>6 DEF LoopMarks, BeginEnd, Read, clockVars
<1>7. CASE LoopWorks
  BY <1>7 DEF LoopWorks, Work, CommitWork, clockVars
<1>8. CASE LoopEnds \/ LoopMarkLost
  BY <1>8 DEF LoopEnds, LoopMarkLost, LoopSleeps, MarkSuccess, MarkFailed, StartRefused, EndsUnmarked
<1>9. CASE Restart
  BY <1>9 DEF Restart, EndsUnmarked
<1>10. CASE Tick
  BY <1>10 DEF Tick, Smaller, vars
<1>11. ASSUME NEW j \in Invocations, j # Loop, OtherReturns(j) PROVE ClockInv'
  BY <1>11 DEF OtherReturns, Return
<1>12. ASSUME NEW j \in Invocations, j # Loop, OtherBegins(j) \/ OtherWorks(j)
       PROVE  ClockInv'
  BY <1>12 DEF OtherBegins, BeginStart, Read, OtherWorks, Work, CommitWork, clockVars
<1>13. ASSUME NEW j \in Invocations, j # Loop, OtherMarks(j) PROVE ClockInv'
  BY <1>13 DEF OtherMarks, MarkRunning, Raise, BeginEnd, Read, clockVars
<1>14. ASSUME NEW j \in Invocations, j # Loop, OtherEnds(j) PROVE ClockInv'
  BY <1>14 DEF OtherEnds, MarkSuccess, MarkFailed, StartRefused, EndsUnmarked
<1>. QED
  BY <1>1, <1>2, <1>3, <1>4, <1>5, <1>6, <1>7, <1>8, <1>9, <1>10, <1>11, <1>12, <1>13, <1>14
     DEF LoopNext, LoopAdvances, Other, OtherAdvances

\* A mark other than a success makes no row show one.
LEMMA MarkHides ==
  ASSUME TypeOK, BookInv, NEW i \in Invocations, NEW mark \in {Running, Failed},
         Write(i, mark), Shown'
  PROVE  Shown /\ loaded[i].status = mark.status
<1>. DEFINE read == IF loaded[i] = NoRow THEN NewRow ELSE loaded[i]
            now  == IF row = NoRow THEN NewRow ELSE row
<1>1. mark.status \in {"RUNNING", "FAILED"}
  BY DEF Running, Failed
<1>2. row'.status = Column(read.status, mark.status, now.status)
  BY DEF Write, Merge
<1>3. mark.status = read.status /\ row'.status = now.status
  BY <1>1, <1>2 DEF Column, Shown
<1>4. loaded[i] # NoRow /\ read = loaded[i]
  BY <1>1, <1>3 DEF NewRow
<1>5. now = row /\ row # NoRow
  BY <1>4 DEF BookInv
<1>. QED  BY <1>3, <1>4, <1>5 DEF Shown

LEMMA SpareIs ==
  ASSUME TypeOK, BookInv
  PROVE  /\ Spare \in Nat /\ Spare <= MaxUnmarked * (MaxRun + Interval)
         /\ unmarked' = unmarked => Spare' = Spare
         /\ unmarked' = unmarked + 1 => Spare' = Spare - (MaxRun + Interval)
<1>. DEFINE cost == MaxRun + Interval
<1>1. unmarked \in Nat /\ MaxUnmarked \in Nat /\ cost \in Nat /\ unmarked <= MaxUnmarked
  BY TrackerAssumption, Bounds DEF TypeOK, BookInv
<1>2. Spare = (MaxUnmarked - unmarked) * cost /\ Spare' = (MaxUnmarked - unmarked') * cost
  BY DEF Spare
<1>. HIDE DEF cost
<1>3. /\ (MaxUnmarked - unmarked) * cost = MaxUnmarked * cost - unmarked * cost
      /\ (MaxUnmarked - (unmarked + 1)) * cost = (MaxUnmarked - unmarked) * cost - cost
      /\ unmarked * cost \in Nat /\ (MaxUnmarked - unmarked) * cost \in Nat
      /\ MaxUnmarked * cost \in Nat
  BY <1>1
<1>4. /\ Spare \in Nat /\ Spare <= MaxUnmarked * cost
      /\ unmarked' = unmarked => Spare' = Spare
      /\ unmarked' = unmarked + 1 => Spare' = Spare - cost
  BY <1>1, <1>2, <1>3
<1>. QED  BY <1>4 DEF cost

LEMMA ShownStep ==
  LoopTypeOK /\ BookInv /\ ClockInv /\ ShownInv /\ [LoopNext]_loopVars => ShownInv'
<1>. SUFFICES ASSUME LoopTypeOK, BookInv, ClockInv, ShownInv, [LoopNext]_loopVars, Shown'
              PROVE  (IdleBound /\ StartingBound /\ OvertakenBound /\ UnderwayBound)'
  BY DEF ShownInv
<1>a. TypeOK
  BY DEF LoopTypeOK
<1>b. Shown => IdleBound /\ StartingBound /\ OvertakenBound /\ UnderwayBound
  BY DEF ShownInv
<1>. USE <1>a, <1>b, Bounds, SpareIs, LoopAssumption
     DEF LoopTypeOK, TypeOK, Underway, IdleBound, StartingBound, OvertakenBound, UnderwayBound
<1>. HIDE DEF LongestNap, Behind, Spare
<1>1. CASE UNCHANGED loopVars
  BY <1>1 DEF loopVars, vars, clockVars, Shown
<1>2. CASE LoopBegins
  <2>1. Shown /\ loaded'[Loop].status \notin {"RUNNING", "ABSENT"}
    BY <1>2 DEF LoopBegins, BeginStart, Read, Shown, JobRows, Statuses
  <2>2. pc'[Loop] = "starting" /\ pc[Loop] = "idle" /\ wait = 0 /\ UNCHANGED clockVars
    BY <1>2 DEF LoopBegins, BeginStart, Read
  <2>3. unmarked' = unmarked
    BY <1>2 DEF LoopBegins, BeginStart, Read
  <2>. QED  BY <2>1, <2>2, <2>3 DEF clockVars
<1>3. CASE LoopDecides
  <2>1. Shown /\ loaded[Loop].status = "RUNNING"
    BY <1>3, MarkHides DEF LoopDecides, MarkRunning, Running
  <2>. QED  BY <1>3, <2>1 DEF LoopDecides, MarkRunning
<1>4. CASE LoopReturns
  BY <1>4 DEF LoopReturns, Return, Shown
<1>5. CASE LoopRaises
  BY <1>5 DEF LoopRaises, Raise, clockVars, Shown
<1>6. CASE LoopMarks
  BY <1>6 DEF LoopMarks, BeginEnd, Read, clockVars, Shown
<1>7. CASE LoopWorks
  BY <1>7 DEF LoopWorks, Work, CommitWork, clockVars, Shown
<1>8. CASE MarkSuccess(Loop) /\ LoopSleeps(Naps)
  <2>1. synced <= (Interval - 1) + 2 * MaxRun
    BY <1>8 DEF MarkSuccess, ClockInv, Ended
  <2>2. wait' \in 0..LongestNap
    BY <1>8, NapsInRange DEF LoopSleeps
  <2>. QED  BY <1>8, <2>1, <2>2 DEF MarkSuccess, LoopSleeps
<1>9. CASE MarkFailed(Loop) /\ LoopSleeps({Interval})
  <2>1. Shown
    BY <1>9, MarkHides DEF MarkFailed
  <2>. QED  BY <1>9, <2>1 DEF MarkFailed, LoopSleeps
<1>10. CASE StartRefused(Loop) /\ LoopSleeps({Interval})
  <2>1. Shown /\ loaded[Loop].status = "ABSENT"
    BY <1>10 DEF StartRefused, Refused, Shown, NoRow
  <2>. QED  BY <1>10, <2>1 DEF StartRefused, LoopSleeps
<1>11. CASE LoopMarkLost \/ Restart
  <2>1. Shown /\ UNCHANGED synced /\ pc[Loop] # "idle" /\ pc'[Loop] = "idle"
    BY <1>11 DEF LoopMarkLost, LoopSleeps, Restart, EndsUnmarked, Shown
  <2>2. wait' <= Interval /\ Spare' = Spare - (MaxRun + Interval) /\ wait' \in Nat
    BY <1>11 DEF LoopMarkLost, LoopSleeps, Restart, EndsUnmarked
  <2>3. synced <= (Interval - 1) + 2 * MaxRun \/ synced + Spare <= Behind
    BY <2>1
  <2>. QED  BY <2>1, <2>2, <2>3
<1>12. CASE Tick
  BY <1>12 DEF Tick, Smaller, vars, Shown
<1>13. ASSUME NEW j \in Invocations, j # Loop, Other(j) PROVE
         /\ pc'[Loop] = pc[Loop] /\ loaded'[Loop] = loaded[Loop]
         /\ elapsed'[Loop] = elapsed[Loop] /\ wait' = wait
         /\ unmarked' \in {unmarked, unmarked + 1}
         /\ synced' \in {synced, 0} /\ (Shown \/ synced' <= MaxRun)
  <2>1. CASE OtherReturns(j)
    BY <1>13, <2>1 DEF OtherReturns, Return
  <2>2. CASE OtherBegins(j) \/ OtherWorks(j)
    BY <1>13, <2>2 DEF OtherBegins, BeginStart, Read, OtherWorks, Work, CommitWork, clockVars,
                       Shown
  <2>3. CASE MarkRunning(j) /\ UNCHANGED clockVars
    BY <1>13, <2>3, MarkHides DEF MarkRunning, clockVars
  <2>4. CASE (Raise(j) \/ BeginEnd(j)) /\ UNCHANGED clockVars
    BY <1>13, <2>4 DEF Raise, BeginEnd, Read, clockVars, Shown
  <2>5. CASE OtherEnds(j) /\ MarkSuccess(j)
    BY <1>13, <2>5 DEF OtherEnds, MarkSuccess, ClockInv, Ended
  <2>6. CASE OtherEnds(j) /\ MarkFailed(j)
    BY <1>13, <2>6, MarkHides DEF OtherEnds, MarkFailed
  <2>7. CASE OtherEnds(j) /\ (StartRefused(j) \/ EndsUnmarked(j))
    BY <1>13, <2>7 DEF OtherEnds, StartRefused, EndsUnmarked, Shown
  <2>. QED
    BY <1>13, <2>1, <2>2, <2>3, <2>4, <2>5, <2>6, <2>7
       DEF Other, OtherAdvances, OtherMarks, OtherEnds
<1>14. ASSUME NEW j \in Invocations, j # Loop, Other(j)
       PROVE  (IdleBound /\ StartingBound /\ OvertakenBound /\ UnderwayBound)'
  <2>1. Spare' = Spare \/ Spare' = Spare - (MaxRun + Interval)
    BY <1>13, <1>14
  <2>4. /\ elapsed[Loop] \in Nat /\ elapsed[Loop] <= MaxRun /\ wait \in Nat /\ wait <= LongestNap
        /\ Spare \in Nat /\ Spare <= MaxUnmarked * (MaxRun + Interval) /\ synced \in Nat
    OBVIOUS
  <2>2. CASE Shown
    BY <1>13, <1>14, <2>1, <2>2, <2>4
  <2>3. CASE synced' <= MaxRun
    BY <1>13, <1>14, <2>1, <2>3, <2>4
  <2>. QED  BY <1>13, <1>14, <2>2, <2>3
<1>15. \A j \in Invocations : Other(j) => j # Loop
  BY DEF Other, OtherAdvances
<1>. QED
  BY <1>1, <1>2, <1>3, <1>4, <1>5, <1>6, <1>7, <1>8, <1>9, <1>10, <1>11, <1>12, <1>14, <1>15
     DEF LoopNext, LoopAdvances, LoopEnds

\* A panel that shows the market sync as live does not hide that only refreshes succeed.
THEOREM LiveMeansSyncedHolds == LoopSpec => []LiveMeansSynced
<1>1. LoopInit => ClockInv /\ ShownInv
  <2>. SUFFICES ASSUME LoopInit PROVE ClockInv /\ ShownInv
    OBVIOUS
  <2>1. age = Interval /\ row = NoRow /\ \A i \in Invocations : pc[i] = "idle"
    BY DEF LoopInit, Init
  <2>2. ClockInv
    BY <2>1, Bounds, LoopAssumption DEF ClockInv, Ended, Underway
  <2>. QED  BY <2>1, <2>2 DEF ShownInv, Shown
<1>2. LoopTypeOK /\ BookInv /\ ShownInv => LiveMeansSynced
  <2>. SUFFICES ASSUME LoopTypeOK, BookInv, ShownInv, row # NoRow, Panel(TRUE) = "Live"
                PROVE  synced <= Behind
    BY DEF LiveMeansSynced
  <2>1. Shown
    BY DEF Panel, Shown
  <2>2. pc[Loop] \in {"idle", "starting"} \/ Underway(Loop)
    BY LoopAssumption DEF LoopTypeOK, TypeOK, Underway
  <2>. QED
    BY <2>1, <2>2, Bounds, SpareIs, LoopAssumption
       DEF ShownInv, IdleBound, StartingBound, UnderwayBound, LoopTypeOK
<1>. QED
  BY <1>1, <1>2, ClockStep, ShownStep, LoopTyping, BookHolds, PTL DEF LoopSpec

--------------------------------------------------------------------------------
(* The polls of the feeds.                                                  *)

\* Deduplication keeps items.
LEMMA DeduplicatedType ==
  ASSUME NEW items \in Seq(Items), NEW list \in Deduplicated(items)
  PROVE  list \in Seq(Items)
<1>. DEFINE first == {i \in DOMAIN items : \A j \in 1 .. (i - 1) : items[j].url # items[i].url}
            n == Cardinality(first)
<1>1. IsFiniteSet(first)
  <2>1. first \subseteq 1 .. Len(items)
    OBVIOUS
  <2>2. IsFiniteSet(1 .. Len(items))
    BY FS_Interval
  <2>. QED  BY <2>1, <2>2, FS_Subset
<1>2. n \in Nat
  BY <1>1, FS_CardinalityType
<1>3. PICK f \in [1..n -> first] : list = [k \in 1..n |-> items[f[k]]]
  BY DEF Deduplicated
<1>4. \A k \in 1..n : items[f[k]] \in Items
  BY <1>3
<1>5. list \in [1..n -> Items]
  BY <1>3, <1>4
<1>. HIDE DEF n
<1>. QED  BY <1>2, <1>5

LEMMA FirstType ==
  ASSUME NEW list \in Seq(Items) PROVE First(list) \in Seq(Items)
BY PollAssumption DEF First

\* What a poll has added is its own.
Signed == \A p \in Polls : \A a \in poll[p].new \cup poll[p].sent : a.by = p

\* A poll reads the feed of a source.
Reads == \A p \in Polls : poll[p].phase = "read" => poll[p].source \in Sources

PollInv == PollTypeOK /\ NoOwnClash /\ Signed /\ Reads

IdleType == Idle \in PollStates

LEMMA IdleIsState == IdleType
BY DEF IdleType, Idle, PollStates, PollPhases

\* A poll that keeps what it has added, or drops it, disturbs nothing.
LEMMA KeepsOrDrops ==
  ASSUME PollInv, NEW p \in Polls, NEW state \in PollStates,
         poll' = [poll EXCEPT ![p] = state], stored' = stored,
         \/ state.new = poll[p].new /\ state.sent = poll[p].sent
         \/ state.new = {} /\ state.sent = {},
         state.phase = "read" => state.source \in Sources
  PROVE  NoOwnClash' /\ Signed' /\ Reads' /\ poll' \in [Polls -> PollStates]
<1>1. poll' \in [Polls -> PollStates] /\ \A q \in Polls : poll'[q] = IF q = p THEN state ELSE poll[q]
  BY DEF PollInv, PollTypeOK
<1>2. \A q \in Polls : poll'[q].new \subseteq poll[q].new /\ poll'[q].sent \subseteq poll[q].sent
  BY <1>1
<1>. QED  BY <1>1, <1>2 DEF PollInv, NoOwnClash, Signed, Reads

LEMMA StartKeeps == ASSUME PollInv, NEW p \in Polls, Start(p) PROVE PollInv'
<1>. DEFINE state == [Idle EXCEPT !.phase = "fetch", !.todo = Sources]
<1>1. state.new = {} /\ state.sent = {} /\ state.phase = "fetch"
  BY DEF Idle
<1>2. state \in PollStates
  BY IdleIsState DEF IdleType, PollStates, PollPhases
<1>. HIDE DEF state
<1>3. poll' = [poll EXCEPT ![p] = state] /\ UNCHANGED <<World, stored>>
  BY DEF Start, state
<1>. QED  BY <1>1, <1>2, <1>3, KeepsOrDrops DEF PollInv, PollTypeOK, World

LEMMA FetchKeeps ==
  ASSUME PollInv, NEW p \in Polls, NEW s \in Sources, NEW items \in Seq(Items),
         FetchWith(p, s, items)
  PROVE  NoOwnClash' /\ Signed' /\ Reads' /\ poll' \in [Polls -> PollStates] /\ stored' = stored
<1>. DEFINE state == [poll[p] EXCEPT !.phase = "read", !.todo = poll[p].todo \ {s},
                                     !.source = s, !.items = items]
<1>1. /\ state \in PollStates /\ state.new = poll[p].new /\ state.sent = poll[p].sent
      /\ state.source \in Sources
  BY DEF PollInv, PollTypeOK, PollStates, PollPhases
<1>. HIDE DEF state
<1>2. poll' = [poll EXCEPT ![p] = state] /\ stored' = stored
  BY DEF FetchWith, state
<1>. QED  BY <1>1, <1>2, KeepsOrDrops

LEMMA SkipKeeps == ASSUME PollInv, NEW p \in Polls, SkipForeign(p) PROVE PollInv'
<1>. DEFINE state == [poll[p] EXCEPT !.items = Tail(poll[p].items)]
<1>1. poll[p] \in PollStates /\ poll[p].items # <<>>
  BY DEF PollInv, PollTypeOK, SkipForeign, Reading
<1>2. Tail(poll[p].items) \in Seq(Items)
  BY <1>1 DEF PollStates
<1>3. /\ state \in PollStates /\ state.new = poll[p].new /\ state.sent = poll[p].sent
      /\ state.phase = "read" => state.source \in Sources
  BY <1>1, <1>2 DEF PollStates, PollInv, Reads
<1>4. poll' = [poll EXCEPT ![p] = state] /\ UNCHANGED <<World, stored>>
  BY DEF SkipForeign, PollInv, PollTypeOK
<1>. HIDE DEF state
<1>. QED  BY <1>3, <1>4, KeepsOrDrops DEF PollInv, PollTypeOK, World

LEMMA NextFeedKeeps == ASSUME PollInv, NEW p \in Polls, NextFeed(p) PROVE PollInv'
<1>. DEFINE state == [poll[p] EXCEPT !.phase = "fetch"]
<1>1. /\ state \in PollStates /\ state.new = poll[p].new /\ state.sent = poll[p].sent
      /\ state.phase = "fetch"
  BY DEF PollInv, PollTypeOK, PollStates, PollPhases
<1>2. poll' = [poll EXCEPT ![p] = state] /\ UNCHANGED <<World, stored>>
  BY DEF NextFeed, PollInv, PollTypeOK
<1>. HIDE DEF state
<1>. QED  BY <1>1, <1>2, KeepsOrDrops DEF PollInv, PollTypeOK, World

LEMMA DropKeeps ==
  ASSUME PollInv, NEW p \in Polls, Drop(p)
  PROVE  NoOwnClash' /\ Signed' /\ Reads' /\ poll' \in [Polls -> PollStates] /\ stored' = stored
<1>1. Idle \in PollStates /\ Idle.new = {} /\ Idle.sent = {} /\ Idle.phase = "idle"
  BY IdleIsState DEF IdleType, Idle
<1>. QED  BY <1>1, KeepsOrDrops DEF Drop

\* What is added clashes with nothing that the queries have seen.
LEMMA ConsiderKeeps == ASSUME PollInv, NEW p \in Polls, Consider(p) PROVE PollInv'
<1>. DEFINE item == Head(poll[p].items)
<1>1. poll[p] \in PollStates /\ poll[p].items # <<>> /\ poll[p].items \in Seq(Items)
  BY DEF PollInv, PollTypeOK, Consider, Reading, PollStates
<1>2. item \in Items /\ Tail(poll[p].items) \in Seq(Items)
  BY <1>1
<1>3. PICK date \in Published(item) :
        poll' = [poll EXCEPT ![p] = [poll[p] EXCEPT
          !.items = Rest(p, Known(item, date, Seen(p))),
          !.sent = poll[p].sent \cup poll[p].new,
          !.new = IF Known(item, date, Seen(p)) THEN {}
                  ELSE {[url |-> item.url, published |-> date, source |-> poll[p].source,
                         by |-> p]}]]
  BY DEF Consider
<1>. DEFINE known == Known(item, date, Seen(p))
            article == [url |-> item.url, published |-> date, source |-> poll[p].source, by |-> p]
            new == IF known THEN {} ELSE {article}
            sent == poll[p].sent \cup poll[p].new
<1>4. UNCHANGED <<World, stored>>
  BY DEF Consider
<1>5. date \in Nat
  BY <1>2, <1>3, PollAssumption DEF Published, Items
<1>6. poll[p].source \in Sources
  BY DEF Consider, Reading, PollInv, Reads
<1>7. article \in Articles
  BY <1>2, <1>5, <1>6 DEF Articles, Items
<1>8. new \subseteq Articles /\ sent \subseteq Articles
  BY <1>1, <1>7 DEF PollStates
<1>9. /\ poll' \in [Polls -> PollStates]
      /\ \A q \in Polls \ {p} : poll'[q] = poll[q]
      /\ poll'[p].new = new /\ poll'[p].sent = sent /\ poll'[p].source = poll[p].source
  <2>1. Rest(p, known) \in Seq(Items)
    BY <1>2 DEF Rest
  <2>2. poll'[p] = [poll[p] EXCEPT !.items = Rest(p, known), !.sent = sent, !.new = new]
    BY <1>3 DEF PollInv, PollTypeOK
  <2>. HIDE DEF known, new, sent
  <2>3. /\ poll'[p] \in PollStates /\ poll'[p].new = new /\ poll'[p].sent = sent
        /\ poll'[p].source = poll[p].source
    BY <1>1, <1>8, <2>1, <2>2 DEF PollStates
  <2>. QED  BY <1>3, <2>3 DEF PollInv, PollTypeOK
<1>10. \A a \in new, b \in stored \cup sent : ~Clash(a, b)
  BY DEF Known, Seen, Clash
<1>. HIDE DEF new, sent, article
<1>11. NoOwnClash'
  <2>. SUFFICES ASSUME NEW q \in Polls
                PROVE  /\ \A a \in poll'[q].new, b \in stored' : Clash(a, b) => b.by # q
                       /\ \A a, b \in poll'[q].new \cup poll'[q].sent : Clash(a, b) => a = b
    BY DEF NoOwnClash
  <2>1. CASE q # p
    BY <1>4, <1>9, <2>1 DEF PollInv, NoOwnClash
  <2>2. CASE q = p
    <3>1. \A a, b \in sent : Clash(a, b) => a = b
      BY DEF PollInv, NoOwnClash, sent
    <3>2. \A a, b \in new : a = b
      BY DEF new
    <3>3. \A a \in new, b \in sent : ~Clash(b, a)
      BY <1>10 DEF Clash
    <3>. QED  BY <1>4, <1>9, <1>10, <2>2, <3>1, <3>2, <3>3
  <2>. QED  BY <2>1, <2>2
<1>12. Signed'
  <2>1. \A a \in new \cup sent : a.by = p
    BY DEF PollInv, Signed, new, sent, article
  <2>. QED  BY <1>9, <2>1 DEF PollInv, Signed
<1>13. Reads'
  BY <1>6, <1>9 DEF PollInv, Reads
<1>. QED  BY <1>4, <1>9, <1>11, <1>12, <1>13 DEF PollInv, PollTypeOK, World

\* Rows of another poll carry its name.
LEMMA CommitKeeps == ASSUME PollInv, NEW p \in Polls, Commit(p) PROVE PollInv'
<1>1. /\ stored' = stored \cup poll[p].sent \cup poll[p].new
      /\ poll' = [poll EXCEPT ![p] = Idle] /\ UNCHANGED World
  BY DEF Commit
<1>2. poll[p] \in PollStates
  BY DEF PollInv, PollTypeOK
<1>3. stored' \subseteq Articles
  BY <1>1, <1>2 DEF PollInv, PollTypeOK, PollStates
<1>4. /\ poll' \in [Polls -> PollStates]
      /\ \A q \in Polls \ {p} : poll'[q] = poll[q]
      /\ poll'[p].new = {} /\ poll'[p].sent = {} /\ poll'[p].phase = "idle"
  BY <1>1, IdleIsState DEF PollInv, PollTypeOK, IdleType, Idle
<1>5. NoOwnClash'
  <2>1. \A b \in stored' \ stored : b.by = p
    BY <1>1 DEF PollInv, Signed
  <2>. QED  BY <1>4, <2>1 DEF PollInv, NoOwnClash
<1>6. Signed' /\ Reads'
  BY <1>4 DEF PollInv, Signed, Reads
<1>. QED  BY <1>1, <1>3, <1>4, <1>5, <1>6 DEF PollInv, PollTypeOK, World

LEMMA BadLinkKeeps == ASSUME PollInv, NEW p \in Polls, BadLink(p) PROVE PollInv'
BY DropKeeps DEF BadLink, PollInv, PollTypeOK, World

LEMMA DeadlockKeeps ==
  ASSUME PollInv, NEW p \in Polls, NEW q \in Polls, Deadlock(p, q) PROVE PollInv'
<1>1. p # q /\ UNCHANGED <<World, stored>>
  BY DEF Deadlock
<1>2. poll[q] \in PollStates
  BY DEF PollInv, PollTypeOK
<1>. DEFINE state == [poll[q] EXCEPT !.sent = poll[q].sent \cup poll[q].new, !.new = {}]
<1>3. /\ state \in PollStates /\ state.new = {} /\ state.sent = poll[q].sent \cup poll[q].new
      /\ state.phase = poll[q].phase /\ state.source = poll[q].source
  BY <1>2 DEF PollStates
<1>4. poll' = [[poll EXCEPT ![p] = Idle] EXCEPT ![q] = state]
  BY <1>1, <1>2 DEF Deadlock, PollInv, PollTypeOK, PollStates
<1>. HIDE DEF state
<1>5. /\ poll' \in [Polls -> PollStates]
      /\ \A r \in Polls \ {p, q} : poll'[r] = poll[r]
      /\ poll'[p].new = {} /\ poll'[p].sent = {} /\ poll'[p].phase = "idle"
      /\ poll'[q].phase = poll[q].phase /\ poll'[q].source = poll[q].source
      /\ poll'[q].new = {} /\ poll'[q].sent = poll[q].sent \cup poll[q].new
  BY <1>1, <1>3, <1>4, IdleIsState DEF PollInv, PollTypeOK, IdleType, Idle
<1>6. NoOwnClash'
  <2>1. \A r \in Polls :
          /\ poll'[r].new \subseteq poll[r].new
          /\ poll'[r].new \cup poll'[r].sent \subseteq poll[r].new \cup poll[r].sent
    BY <1>5
  <2>. QED  BY <1>1, <2>1 DEF PollInv, NoOwnClash
<1>7. Signed' /\ Reads'
  BY <1>5 DEF PollInv, Signed, Reads
<1>. QED  BY <1>1, <1>5, <1>6, <1>7 DEF PollInv, PollTypeOK, World

LEMMA PublishKeeps == ASSUME PollInv, NEW s \in Sources, Publish(s) PROVE PollInv'
<1>1. PICK item \in Items :
        feed' = [feed EXCEPT ![s] =
          SubSeq(<<item>> \o feed[s], 1,
                 IF Len(<<item>> \o feed[s]) < MaxItems THEN Len(<<item>> \o feed[s]) ELSE MaxItems)]
  BY DEF Publish
<1>2. <<item>> \o feed[s] \in Seq(Items)
  BY DEF PollInv, PollTypeOK
<1>3. \A list \in Seq(Items) :
        SubSeq(list, 1, IF Len(list) < MaxItems THEN Len(list) ELSE MaxItems) \in Seq(Items)
  BY PollAssumption
<1>4. feed' \in [Sources -> Seq(Items)]
  BY <1>1, <1>2, <1>3 DEF PollInv, PollTypeOK
<1>5. changes' \in 0..MaxChanges /\ UNCHANGED <<failures, stored, poll>>
  BY PollAssumption DEF Publish, PollInv, PollTypeOK
<1>. QED  BY <1>4, <1>5 DEF PollInv, PollTypeOK, NoOwnClash, Signed, Reads

\* The inductive invariant.
THEOREM PollSafety == PollSpec => []PollInv
<1>1. PollInit => PollInv
  BY IdleIsState, PollAssumption
  DEF PollInit, PollInv, PollTypeOK, NoOwnClash, Signed, Reads, IdleType, Idle
<1>2. PollInv /\ [PollNext]_pollVars => PollInv'
  <2>. SUFFICES ASSUME PollInv, [PollNext]_pollVars PROVE PollInv'
    OBVIOUS
  <2>1. CASE UNCHANGED pollVars
    BY <2>1 DEF pollVars, PollInv, PollTypeOK, NoOwnClash, Signed, Reads
  <2>2. ASSUME NEW s \in Sources, Publish(s) PROVE PollInv'
    BY <2>2, PublishKeeps
  <2>3. ASSUME NEW p \in Polls, Start(p) PROVE PollInv'
    BY <2>3, StartKeeps
  <2>4. ASSUME NEW p \in Polls, NEW s \in Sources, Fetch(p, s) PROVE PollInv'
    <3>1. PICK list \in Deduplicated(feed[s]) : FetchWith(p, s, First(list))
      BY <2>4 DEF Fetch
    <3>2. First(list) \in Seq(Items)
      BY DeduplicatedType, FirstType DEF PollInv, PollTypeOK
    <3>. QED  BY <2>4, <3>1, <3>2, FetchKeeps DEF Fetch, PollInv, PollTypeOK, World
  <2>5. ASSUME NEW p \in Polls, NEW s \in Sources, FetchFails(p, s) PROVE PollInv'
    <3>1. FetchWith(p, s, <<>>) /\ <<>> \in Seq(Items)
      BY <2>5 DEF FetchFails
    <3>2. failures' \in 0..MaxFailures /\ UNCHANGED <<feed, changes>>
      BY <2>5, PollAssumption DEF FetchFails, PollInv, PollTypeOK
    <3>. QED  BY <3>1, <3>2, FetchKeeps DEF PollInv, PollTypeOK
  <2>6. ASSUME NEW p \in Polls, SkipForeign(p) PROVE PollInv'
    BY <2>6, SkipKeeps
  <2>7. ASSUME NEW p \in Polls, Consider(p) PROVE PollInv'
    BY <2>7, ConsiderKeeps
  <2>8. ASSUME NEW p \in Polls, NextFeed(p) PROVE PollInv'
    BY <2>8, NextFeedKeeps
  <2>9. ASSUME NEW p \in Polls, Commit(p) PROVE PollInv'
    BY <2>9, CommitKeeps
  <2>10. ASSUME NEW p \in Polls, Conflict(p) PROVE PollInv'
    BY <2>10, DropKeeps DEF Conflict, PollInv, PollTypeOK, World
  <2>11. ASSUME NEW p \in Polls, NEW q \in Polls, Deadlock(p, q) PROVE PollInv'
    BY <2>11, DeadlockKeeps
  <2>12. ASSUME NEW p \in Polls, Abort(p) PROVE PollInv'
    <3>1. failures' \in 0..MaxFailures /\ UNCHANGED <<feed, changes>> /\ Drop(p)
      BY <2>12, PollAssumption DEF Abort, PollInv, PollTypeOK
    <3>. QED  BY <3>1, DropKeeps DEF PollInv, PollTypeOK
  <2>13. ASSUME NEW p \in Polls, BadLink(p) PROVE PollInv'
    BY <2>13, BadLinkKeeps
  <2>. QED  BY <2>1, <2>2, <2>3, <2>4, <2>5, <2>6, <2>7, <2>8, <2>9, <2>10, <2>11, <2>12, <2>13
            DEF PollNext, PollStep
<1>. QED  BY <1>1, <1>2, PTL DEF PollSpec

\* The variables keep their types.
THEOREM PollTyping == PollSpec => []PollTypeOK
<1>1. PollInv => PollTypeOK
  BY DEF PollInv
<1>. QED  BY <1>1, PollSafety, PTL

\* No poll is ended by a row of its own, whatever the feeds repeat or date anew.
THEOREM NoOwnClashHolds == PollSpec => []NoOwnClash
<1>1. PollInv => NoOwnClash
  BY DEF PollInv
<1>. QED  BY <1>1, PollSafety, PTL
=================================================================================
