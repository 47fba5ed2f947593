------------------------------- MODULE JobTracker ------------------------------
(***************************************************************************)
(* The status row of one job (app/job_status.py): run_tracked_job marks it *)
(* RUNNING, awaits the job in the same database session, and marks it      *)
(* SUCCESS or FAILED.  Loops, cron endpoints and buttons start a job       *)
(* without looking whether it runs already, so invocations overlap.        *)
(*                                                                         *)
(* Every mark reads the row, sets its columns and commits.  The UPDATE     *)
(* carries only the columns whose value differs from what was read, so a   *)
(* mark that another one overtakes between its read and its write leaves a *)
(* mixture of both.                                                        *)
(***************************************************************************)
EXTENDS Naturals, FiniteSets

CONSTANTS
  Invocations,  \* runs of the job that may be in progress, each in its session
  Writes,       \* changes a run may make to other tables
  MaxUnmarked   \* bound on the runs that end without the mark of their end

VARIABLES
  row,       \* job_statuses: the row of the job, NoRow before the first run
  durable,   \* the committed <<invocation, write>> pairs of the latest runs
  pc,        \* invocation -> where run_tracked_job is
  loaded,    \* invocation -> the row as its session last read it
  dirty,     \* invocation -> writes its session has made and not committed
  made,      \* history: invocation -> all writes its latest run has made
  unmarked   \* the runs that have ended without the mark of their end

vars == <<row, durable, pc, loaded, dirty, made, unmarked>>

ASSUME TrackerAssumption == MaxUnmarked \in Nat

--------------------------------------------------------------------------------

\* finished and error: finished_at and last_error are not null.
Statuses == {"NEVER", "RUNNING", "SUCCESS", "FAILED"}
JobRows  == [status : Statuses, finished : BOOLEAN, error : BOOLEAN]
NoRow    == [status |-> "ABSENT", finished |-> FALSE, error |-> FALSE]
NewRow   == [status |-> "NEVER", finished |-> FALSE, error |-> FALSE]

Running == [status |-> "RUNNING", finished |-> FALSE, error |-> FALSE]
Success == [status |-> "SUCCESS", finished |-> TRUE, error |-> FALSE]
\* Mutant: a misspelt status.
Failed_Misspelt == [status |-> "ERROR", finished |-> TRUE, error |-> TRUE]

Failed  == [status |-> "FAILED", finished |-> TRUE, error |-> TRUE]

TypeOK ==
  /\ row \in JobRows \cup {NoRow}
  /\ durable \subseteq Invocations \X Writes
  /\ pc \in [Invocations -> {"idle", "starting", "working", "succeeded", "failed",
                             "succeeding", "failing"}]
  /\ loaded \in [Invocations -> JobRows \cup {NoRow}]
  /\ dirty \in [Invocations -> SUBSET Writes]
  /\ made \in [Invocations -> SUBSET Writes]
  /\ unmarked \in Nat

Init ==
  /\ row = NoRow
  /\ durable = {}
  /\ pc = [i \in Invocations |-> "idle"]
  /\ loaded = [i \in Invocations |-> NoRow]
  /\ dirty = [i \in Invocations |-> {}]
  /\ made = [i \in Invocations |-> {}]
  /\ unmarked = 0

\* _get_or_create, up to the flush: the row is read, and is to be inserted when
\* there is none.
Read(i, from, to) ==
  /\ pc[i] = from
  /\ pc' = [pc EXCEPT ![i] = to]
  /\ loaded' = [loaded EXCEPT ![i] = row]
  /\ UNCHANGED <<row, unmarked>>

\* The session sets the columns to those of mark and commits: an UPDATE of the
\* columns that differ from what it read, with all else it has pending.
Column(read, mark, now) == IF mark = read THEN now ELSE mark

Merge(read, mark, now) ==
  [status   |-> Column(read.status, mark.status, now.status),
   finished |-> Column(read.finished, mark.finished, now.finished),
   error    |-> Column(read.error, mark.error, now.error)]

Write(i, mark) ==
  /\ row' = Merge(IF loaded[i] = NoRow THEN NewRow ELSE loaded[i], mark,
                  IF row = NoRow THEN NewRow ELSE row)
  /\ durable' = durable \cup ({i} \X dirty[i])
  /\ dirty' = [dirty EXCEPT ![i] = {}]

\* Two first runs: the second INSERT breaks the primary key, and the exception
\* leaves run_tracked_job before the job is called.
Refused(i) == loaded[i] = NoRow /\ row # NoRow

\* A new run, in a new session: what earlier runs committed is not its work.
BeginStart(i) ==
  /\ Read(i, "idle", "starting")
  /\ durable' = {d \in durable : d[1] # i}
  /\ made' = [made EXCEPT ![i] = {}]
  /\ UNCHANGED dirty

MarkRunning(i) ==
  /\ pc[i] = "starting"
  /\ ~Refused(i)
  /\ Write(i, Running)
  /\ pc' = [pc EXCEPT ![i] = "working"]
  /\ UNCHANGED <<loaded, made, unmarked>>

StartRefused(i) ==
  /\ pc[i] = "starting"
  /\ Refused(i)
  /\ pc' = [pc EXCEPT ![i] = "idle"]
  /\ UNCHANGED <<row, durable, loaded, dirty, made, unmarked>>

\* The job writes to its tables and commits when it likes.
Work(i, w) ==
  /\ pc[i] = "working"
  /\ dirty' = [dirty EXCEPT ![i] = @ \cup {w}]
  /\ made' = [made EXCEPT ![i] = @ \cup {w}]
  /\ UNCHANGED <<row, durable, pc, loaded, unmarked>>

CommitWork(i) ==
  /\ pc[i] = "working"
  /\ dirty[i] # {}
  /\ durable' = durable \cup ({i} \X dirty[i])
  /\ dirty' = [dirty EXCEPT ![i] = {}]
  /\ UNCHANGED <<row, pc, loaded, made, unmarked>>

Return(i) ==
  /\ pc[i] = "working"
  /\ pc' = [pc EXCEPT ![i] = "succeeded"]
  /\ UNCHANGED <<row, durable, loaded, dirty, made, unmarked>>

\* Mutant: mark_job_failed does not roll back.
Raise_NoRollback(i) ==
  /\ pc[i] = "working"
  /\ pc' = [pc EXCEPT ![i] = "failed"]
  /\ UNCHANGED <<row, durable, loaded, dirty, made, unmarked>>

\* The job raises, and mark_job_failed rolls its session back first.
Raise(i) ==
  /\ pc[i] = "working"
  /\ pc' = [pc EXCEPT ![i] = "failed"]
  /\ dirty' = [dirty EXCEPT ![i] = {}]
  /\ UNCHANGED <<row, durable, loaded, made, unmarked>>

\* Mutant: mark_job_success rolls its session back first, as mark_job_failed does.
BeginEnd_RollsBack(i) ==
  /\ \/ Read(i, "succeeded", "succeeding")
     \/ Read(i, "failed", "failing")
  /\ dirty' = [dirty EXCEPT ![i] = {}]
  /\ UNCHANGED <<durable, made>>

BeginEnd(i) ==
  /\ \/ Read(i, "succeeded", "succeeding")
     \/ Read(i, "failed", "failing")
  /\ UNCHANGED <<durable, dirty, made>>

MarkSuccess(i) ==
  /\ pc[i] = "succeeding"
  /\ Write(i, Success)
  /\ pc' = [pc EXCEPT ![i] = "idle"]
  /\ UNCHANGED <<loaded, made, unmarked>>

\* Mutant: a failure is noted as an error and leaves the status alone.
MarkFailed_KeepsStatus(i) ==
  /\ pc[i] = "failing"
  /\ Write(i, [Failed EXCEPT !.status = loaded[i].status])
  /\ pc' = [pc EXCEPT ![i] = "idle"]
  /\ UNCHANGED <<loaded, made, unmarked>>

MarkFailed(i) ==
  /\ pc[i] = "failing"
  /\ Write(i, Failed)
  /\ pc' = [pc EXCEPT ![i] = "idle"]
  /\ UNCHANGED <<loaded, made, unmarked>>

\* The request is cancelled, which "except Exception" does not see, the process ends, or
\* a statement or the commit of a mark raises, outside the try: the end of the run is
\* not marked, and what its session has not committed is lost.
EndsUnmarked(i) ==
  /\ pc[i] # "idle"
  /\ unmarked < MaxUnmarked
  /\ unmarked' = unmarked + 1
  /\ pc' = [pc EXCEPT ![i] = "idle"]
  /\ dirty' = [dirty EXCEPT ![i] = {}]
  /\ UNCHANGED <<row, durable, loaded, made>>

Tracked(i) ==
  \/ BeginStart(i) \/ MarkRunning(i) \/ StartRefused(i)
  \/ (\E w \in Writes : Work(i, w)) \/ CommitWork(i) \/ Return(i) \/ Raise(i)
  \/ BeginEnd(i) \/ MarkSuccess(i) \/ MarkFailed(i)

Next == \E i \in Invocations : Tracked(i) \/ EndsUnmarked(i)

Spec == Init /\ [][Next]_vars

--------------------------------------------------------------------------------
(* Properties.                                                              *)

Underway(i) == pc[i] \in {"working", "succeeded", "failed", "succeeding", "failing"}

\* However runs overlap, the commit that records a failure carries nothing of the
\* failed run into the database.
FailureCommitsNothing ==
  [][\A i \in Invocations :
       pc[i] \in {"failed", "failing"} =>
         \A w \in Writes : <<i, w>> \in durable' => <<i, w>> \in durable]_vars

\* A run that ends as a success has lost nothing of what it wrote since it began, whether
\* the job committed that itself, or left it to the mark of its success, such as the
\* counters process_candidates raises after its last own commit.
SuccessKeepsWork ==
  [][\A i \in Invocations :
       pc[i] = "succeeding" /\ pc'[i] = "idle" /\ unmarked' = unmarked
         => {i} \X made[i] \subseteq durable']_vars

OneInvocation == \A i, j \in Invocations : i = j

\* A job whose runs do not overlap has a truthful row: RUNNING while a run is
\* under way, and otherwise, unless a run ended unmarked, the outcome of the last one,
\* with an error exactly if it failed.
Truthful ==
  /\ (\E i \in Invocations : Underway(i)) => row = Running
  /\ unmarked = 0 => row \in {NoRow, Success, Failed} \/ \E i \in Invocations : Underway(i)
  /\ row \in {NoRow, Running, Success, Failed}

\* However runs overlap, and whatever mixture of columns their marks leave, the row
\* does not stay RUNNING once all runs are over, unless one of them ended unmarked.
NeverLeftRunning ==
  unmarked = 0 /\ (\A i \in Invocations : pc[i] = "idle") => row.status # "RUNNING"
================================================================================
