------------------------------ MODULE MCJobTracker -----------------------------
(* Instances of JobTracker for TLC, driven by the snapshot loop.             *)
EXTENDS SnapshotLoop

CONSTANT Cron   \* the other invocation

MCInvocations == {Loop, Cron}
================================================================================
