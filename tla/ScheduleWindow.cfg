CONSTANTS
  WeekLength = 3
  DayLength = 2
  YearDays = 5
  LeapDay = 2
  LeapYears = {1}
  LastInstant = 25
  Schedules <- Definites
SPECIFICATION Spec
INVARIANTS
  WindowedScheduleRuns
