CONSTANTS
  Clients = {c1, c2}
  Schedules = {"weekly", "season"}
  Data = {"works"}
  Panicking = {}
  NextRuns <- Answers
  LastInstant = 3
SPECIFICATION FairSpec
PROPERTIES
  ScannedRunFires
CHECK_DEADLOCK FALSE
