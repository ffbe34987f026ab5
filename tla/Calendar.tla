------------------------------ MODULE Calendar ------------------------------
(***************************************************************************)
(* The part of the chrono library that schedule.rs uses: instants, their   *)
(* dates, times of day, weekdays and years, and with_year, which has no    *)
(* answer for the leap day in a year without one.  The calendar is small:  *)
(* a week of WeekLength days, a day of DayLength instants, years of        *)
(* YearDays days, one less when the leap day is missing.  Local time       *)
(* without daylight saving: every date has every time of day, once.        *)
(***************************************************************************)
EXTENDS Integers, FiniteSets

CONSTANTS WeekLength, DayLength, YearDays,
          LeapDay,     \* the place of the leap day in a year that has one
          LeapYears    \* the years that have one

ASSUME CalendarAssumption ==
  /\ WeekLength \in Nat \ {0}
  /\ DayLength \in Nat \ {0}
  /\ YearDays \in Nat \ {0, 1}
  /\ LeapDay \in 0 .. YearDays - 1
  /\ LeapYears \subseteq Nat
  /\ IsFiniteSet(LeapYears)

(* Option::None of a date and time. *)
Never == -1

Week == WeekLength * DayLength

Day(t) == t \div DayLength          \* DateTime::date
TimeOf(t) == t % DayLength          \* DateTime::time
Weekday(d) == d % WeekLength        \* Date::weekday

FirstDay(y) == y * (YearDays - 1) + Cardinality({x \in LeapYears : x < y})

YearOf(t) == CHOOSE y \in 0 .. Day(t) : FirstDay(y) <= Day(t) /\ Day(t) < FirstDay(y + 1)

(* The month and day of a date: its place in a year that has a leap day. *)
MonthDay(t) ==
  LET place == Day(t) - FirstDay(YearOf(t)) IN
  IF YearOf(t) \in LeapYears \/ place < LeapDay THEN place ELSE place + 1

WithYear(t, y) ==
  IF MonthDay(t) = LeapDay /\ y \notin LeapYears THEN Never
  ELSE LET place == IF y \in LeapYears \/ MonthDay(t) < LeapDay
                    THEN MonthDay(t) ELSE MonthDay(t) - 1
       IN (FirstDay(y) + place) * DayLength + TimeOf(t)
=============================================================================
