CONSTANTS
  Sections = {s1, s2}
  Durations = {0, 2, 3}
  MaxChrono = 2
  MaxRuns = 3
SPECIFICATION FairSpec
INVARIANTS
  TypeOK
  ValveFollowsRun
  RunsInOrder
  NotifiedOnce
  SleepMatchesRun
PROPERTIES
  ImplementsSectionRuns
  RunEnds
  BusyQueueMoves
  StopWhileRunning
