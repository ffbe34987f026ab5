CONSTANTS
  Clients = {c1, c2}
  Schedules = {"weekly", "twice"}
  Data = {"works", "panics"}
  Panicking = {"panics"}
  NextRuns <- Answers
  LastInstant = 4
SPECIFICATION Spec
SYMMETRY Symmetry
INVARIANTS
  TypeOK
  SleepCoversSeen
  GuardsStayValid
PROPERTIES
  FiresOnce
  FiresAsAsked
  ImplementsSubscriptions
CHECK_DEADLOCK FALSE
