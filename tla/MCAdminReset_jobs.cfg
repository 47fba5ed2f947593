\* Resets of every scope, from every consistent database, against the jobs.
SPECIFICATION Spec
CONSTANTS
  Rows <- MCRows
  Of <- MCOf
  Refs <- MCRefs
  Jobs <- MCJobs
  Program <- MCProgram
  MaxCrashes = 1
INVARIANTS TypeOK
PROPERTIES ResetExact RefusedOnlyByLatecomers ResetEnds SourcesReturn
