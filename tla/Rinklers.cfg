CONSTANTS
  s1 = s1
  Sections = {s1}
  Durations = {1, 2}
  MaxChrono = 1
  MaxRuns = 3
  Programs = {"flooding"}
  SequenceOf <- Sequences
  Threads = {}
  Executor = executor
  NoSection = NoSection
  NotAnIndex = NotAnIndex
  Blank = Blank
  Requests <- SomeRequests
  MaxRequests = 2
SPECIFICATION FairRinklersSpec
INVARIANTS
  RinklersTypeOK
  AnswersTellEffects
  OrderlyStop
  EverythingEnds
PROPERTIES
  ImplementsOrders
  QuietAfterStop
  InterruptedApiStops
  Reconnects
CHECK_DEADLOCK FALSE
