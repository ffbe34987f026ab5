CONSTANTS
  s1 = s1
  s2 = s2
  Sections = {s1, s2}
  Durations = {1, 2}
  MaxChrono = 1
  MaxRuns = 4
  Programs = {"watering", "flooding"}
  SequenceOf <- Sequences
  Threads = {t1, t2}
  Executor = executor
SPECIFICATION FairProgramSpec
INVARIANTS
  ProgramTypeOK
  RunSyncWaitsForAll
PROPERTIES
  ExecutorGoesOn
  BusyProgramEnds
CHECK_DEADLOCK FALSE
