\* The runs of the loop and those of a cron, a button or the warm start overlap at will.
SPECIFICATION LoopSpec
CONSTANTS
  Loop = loop
  Cron = cron
  Invocations <- MCInvocations
  Writes = {w1}
  MaxUnmarked = 1
  Interval = 2
  Floor = 1
  Adaptive = TRUE
  MaxRun = 1
INVARIANTS LoopTypeOK NeverLeftRunning LiveMeansSynced
PROPERTIES FailureCommitsNothing SuccessKeepsWork PanelRecovers
