CONSTANTS
  Clients = {c1}
  Schedules = {"weekly", "season"}
  Data = {"works"}
  Panicking = {}
  NextRuns <- Answers
  LastInstant = 5
SPECIFICATION Spec
INVARIANTS
  DormantRunsAreOver
CHECK_DEADLOCK FALSE
