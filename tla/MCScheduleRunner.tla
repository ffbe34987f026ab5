-------------------------- MODULE MCScheduleRunner --------------------------
(***************************************************************************)
(* ScheduleRunner on small instances.  The schedules are real ones, on a   *)
(* calendar of three-day weeks, one-instant days and four-day years: one   *)
(* triggers on the last day of every week, one on the last two, and one on *)
(* the day before the last, not later than the second day of each year.    *)
(***************************************************************************)
EXTENDS ScheduleRunner, TLC

Cal == INSTANCE Schedule
         WITH WeekLength <- 3, DayLength <- 1, YearDays <- 4, LeapDay <- 3, LeapYears <- {}

Definition == [
  weekly |-> [times |-> {0}, weekdays |-> {2}, from |-> Cal!NoBound, to |-> Cal!NoBound],
  twice  |-> [times |-> {0}, weekdays |-> {1, 2}, from |-> Cal!NoBound, to |-> Cal!NoBound],
  season |-> [times |-> {0}, weekdays |-> {1}, from |-> Cal!NoBound, to |-> Cal!Yearly(1)]]

AnswersOf(s) ==
  [t \in Instants |->
     LET r == Cal!NextRunAfter(Definition[s], t) IN IF r < LastInstant THEN r ELSE Never]

Answers == [s \in Schedules |-> AnswersOf(s)]

Symmetry == Permutations(Clients)
=============================================================================
