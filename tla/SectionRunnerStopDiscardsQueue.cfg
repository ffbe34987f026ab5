CONSTANTS
  Sections = {s1}
  Durations = {1}
  MaxChrono = 2
  MaxRuns = 2
SPECIFICATION Spec
PROPERTIES
  StopDiscardsQueue
