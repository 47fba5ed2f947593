------------------------------ MODULE SnapshotLoop -----------------------------
(***************************************************************************)
(* The snapshot loop (app/main.py, app/realtime_policy.py) and what the    *)
(* status panel says of it (app/job_status.py).  The loop runs the job     *)
(* sync_markets again and again as one tracked invocation: a full sync     *)
(* when the last one is snapshot_interval_seconds old, and otherwise a     *)
(* refresh of the markets with open trades; it sleeps less the sooner one  *)
(* of these resolves.  Crons, buttons and the warm start run full syncs    *)
(* under the same status row, as the other invocations.                    *)
(*                                                                         *)
(* The panel has only the row and the age of the newest snapshot, which a  *)
(* refresh, or a watchlist, renews as well as a full sync does.            *)
(***************************************************************************)
EXTENDS JobTracker

CONSTANTS
  Loop,       \* the invocation the loop uses, one after the other
  Interval,   \* snapshot_interval_seconds, at least 5, in units of time
  Floor,      \* realtime_snapshot_min_seconds, at least 10, in the same units
  Adaptive,   \* realtime_adaptive_enabled
  MaxRun      \* bound on the time a run takes, the marks of its row included

VARIABLES
  wait,      \* what is left of the loop's sleep
  full,      \* the loop's current run is a full sync
  age,       \* time since _snapshot_last_full was set, up to Interval
  elapsed,   \* invocation -> how long its current run takes already
  synced     \* time since a full sync ended well, up to one more than Behind

clockVars == <<wait, full, age, elapsed, synced>>
loopVars  == <<vars, clockVars>>

ASSUME LoopAssumption ==
  /\ Loop \in Invocations
  /\ Interval \in Nat \ {0} /\ Floor \in Nat \ {0} /\ MaxRun \in Nat \ {0}
  /\ Adaptive \in BOOLEAN

--------------------------------------------------------------------------------
(* The cadence.                                                             *)

\* Urgency in hundredths, by the hours to the first end date among the markets with
\* open trades: none known, from 48, 24, 12, 6, 2, and less.
Urgencies == {0, 15, 35, 55, 70, 85, 100}

\* Seconds to sleep when trades are open; int() cuts off.
Scaled(base, urgency) == (base * (10000 - 75 * urgency)) \div 10000

Longer(a, b) == IF a > b THEN a ELSE b

\* With no open trades, or when the adaptive cadence is off, the base interval.
Naps ==
  {Interval} \cup IF Adaptive THEN {Longer(Floor, Scaled(Interval, u)) : u \in Urgencies}
                              ELSE {}

LongestNap == Longer(Floor, Interval)

\* A bound on how far a full sync can be behind while the row shows a success.  The
\* last refresh starts just before a full sync is due, takes its time, and the loop
\* sleeps; the next run takes its time to be marked, and each one that ends unmarked
\* starts it anew, after a sleep when the process goes on.  A run that ends between the
\* read and the write of a mark may hide one more run.
Behind == (Interval - 1) + LongestNap + 3 * MaxRun + MaxUnmarked * (MaxRun + Interval)

LoopTypeOK ==
  /\ TypeOK
  /\ wait \in 0..LongestNap
  /\ full \in BOOLEAN
  /\ age \in 0..Interval
  /\ elapsed \in [Invocations -> 0..MaxRun]
  /\ synced \in 0..(Behind + 1)

\* The process starts: _snapshot_last_full is 0.0 on a clock that began long before.
LoopInit ==
  /\ Init
  /\ wait = 0 /\ full = FALSE
  /\ age = Interval /\ synced = Behind + 1
  /\ elapsed = [i \in Invocations |-> 0]

--------------------------------------------------------------------------------
(* One tick of the loop.                                                    *)

LoopBegins ==
  /\ wait = 0
  /\ BeginStart(Loop)
  /\ UNCHANGED clockVars

\* Mutant: a row that says RUNNING keeps the job from being started.
LoopDecides_Polite ==
  /\ row.status # "RUNNING"
  /\ MarkRunning(Loop)
  /\ full' = (age >= Interval)
  /\ UNCHANGED <<wait, age, elapsed, synced>>

\* _snapshot_once: whether a full sync is due.
LoopDecides ==
  /\ MarkRunning(Loop)
  /\ full' = (age >= Interval)
  /\ UNCHANGED <<wait, age, elapsed, synced>>

\* Mutant: a refresh counts as a full sync.
LoopReturns_Any ==
  /\ Return(Loop)
  /\ age' = 0
  /\ synced' = IF full THEN 0 ELSE synced
  /\ UNCHANGED <<wait, full, elapsed>>

\* A full sync sets _snapshot_last_full when it has ended.
LoopReturns ==
  /\ Return(Loop)
  /\ age' = IF full THEN 0 ELSE age
  /\ synced' = IF full THEN 0 ELSE synced
  /\ UNCHANGED <<wait, full, elapsed>>

LoopRaises == Raise(Loop) /\ UNCHANGED clockVars

LoopWorks ==
  /\ (\E w \in Writes : Work(Loop, w)) \/ CommitWork(Loop)
  /\ UNCHANGED clockVars

LoopMarks == BeginEnd(Loop) /\ UNCHANGED clockVars

LoopSleeps(times) ==
  /\ wait' \in times
  /\ elapsed' = [elapsed EXCEPT ![Loop] = 0]
  /\ UNCHANGED <<full, age, synced>>

\* The sleep is the one _snapshot_once found, or the base interval when it raised.
LoopEnds ==
  \/ MarkSuccess(Loop) /\ LoopSleeps(Naps)
  \/ (MarkFailed(Loop) \/ StartRefused(Loop)) /\ LoopSleeps({Interval})

\* A mark raises: the loop logs that, as it does an exception of the job, and sleeps.
LoopMarkLost ==
  /\ pc[Loop] # "working"
  /\ EndsUnmarked(Loop)
  /\ LoopSleeps({Interval})

\* What brings a run of the loop closer to its end.
LoopAdvances ==
  LoopBegins \/ LoopDecides \/ LoopReturns \/ LoopRaises \/ LoopMarks \/ LoopEnds

--------------------------------------------------------------------------------
(* The other invocations, and the clock.                                    *)

OtherReturns(i) ==
  /\ Return(i)
  /\ synced' = 0
  /\ UNCHANGED <<wait, full, age, elapsed>>

OtherBegins(i) == BeginStart(i) /\ UNCHANGED clockVars

OtherWorks(i) ==
  /\ (\E w \in Writes : Work(i, w)) \/ CommitWork(i)
  /\ UNCHANGED clockVars

OtherMarks(i) ==
  /\ MarkRunning(i) \/ Raise(i) \/ BeginEnd(i)
  /\ UNCHANGED clockVars

OtherEnds(i) ==
  /\ MarkSuccess(i) \/ MarkFailed(i) \/ StartRefused(i) \/ EndsUnmarked(i)
  /\ elapsed' = [elapsed EXCEPT ![i] = 0]
  /\ UNCHANGED <<wait, full, age, synced>>

OtherAdvances(i) == i # Loop /\ (OtherReturns(i) \/ OtherMarks(i) \/ OtherEnds(i))

Other(i) == OtherAdvances(i) \/ (i # Loop /\ (OtherBegins(i) \/ OtherWorks(i)))

\* The process ends within a run and starts again.
Restart ==
  /\ EndsUnmarked(Loop)
  /\ wait' = 0 /\ age' = Interval
  /\ elapsed' = [elapsed EXCEPT ![Loop] = 0]
  /\ UNCHANGED <<full, synced>>

Smaller(a, b) == IF a < b THEN a ELSE b

\* Time passes, but not while the loop has a run to start, nor beyond the longest run.
Tick ==
  /\ pc[Loop] = "idle" => wait > 0
  /\ \A i \in Invocations : pc[i] # "idle" => elapsed[i] < MaxRun
  /\ wait' = IF wait = 0 THEN 0 ELSE wait - 1
  /\ age' = Smaller(age + 1, Interval)
  /\ synced' = Smaller(synced + 1, Behind + 1)
  /\ elapsed' = [i \in Invocations |-> IF pc[i] = "idle" THEN 0 ELSE elapsed[i] + 1]
  /\ UNCHANGED <<vars, full>>

LoopNext ==
  \/ LoopAdvances \/ LoopWorks \/ LoopMarkLost \/ Restart \/ Tick
  \/ \E i \in Invocations : Other(i)

LoopSpec ==
  /\ LoopInit /\ [][LoopNext]_loopVars
  /\ WF_loopVars(Tick) /\ WF_loopVars(LoopAdvances)
  /\ \A i \in Invocations : WF_loopVars(OtherAdvances(i))

--------------------------------------------------------------------------------
(* The panel.                                                               *)

\* _status_row for sync_markets, when there is a snapshot: whether the newest is at
\* most five minutes old is up to refreshes and watchlists too.
Panel(recent) ==
  CASE row.status = "RUNNING" -> "Running"
    [] row.status = "FAILED"  -> "Failed"
    [] row.status \notin {"RUNNING", "FAILED"} -> IF recent THEN "Live" ELSE "Stale"

\* _with_actions: the panel's button.
ActionEnabled == \A recent \in BOOLEAN : Panel(recent) # "Running"

--------------------------------------------------------------------------------
(* Properties.                                                              *)

\* Once a job has run, a panel that shows the market sync as live does not hide that
\* only refreshes succeed: a full sync has ended well not long ago, however runs
\* overlap, fail and end unmarked, and whoever adds snapshots.
LiveMeansSynced ==
  row # NoRow /\ Panel(TRUE) = "Live" => synced <= Behind

\* The row of a run that ended unmarked does not disable the button for good: the loop starts
\* the job again without asking the row, and its end is marked.
PanelRecovers == ~ActionEnabled ~> ActionEnabled
================================================================================
