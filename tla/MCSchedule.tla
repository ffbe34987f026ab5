----------------------------- MODULE MCSchedule -----------------------------
(***************************************************************************)
(* Schedules on a calendar of three-day weeks, two-instant days and years  *)
(* of four days, five in the one leap year.                                *)
(***************************************************************************)
EXTENDS ScheduleClock

ScheduleSet(from, to) ==
  [times : SUBSET (0 .. DayLength - 1), weekdays : SUBSET (0 .. WeekLength - 1),
   from : from, to : to]

Instants == 0 .. LastInstant
OneYear == {t \in Instants : YearOf(t) = 1}

DefiniteBounds == {Definite(t) : t \in Instants}
YearlyBounds == {Yearly(t) : t \in OneYear}

(* At most one bound. *)
OneSided ==
  ScheduleSet({NoBound}, {NoBound} \cup DefiniteBounds \cup YearlyBounds)
    \cup ScheduleSet(DefiniteBounds \cup YearlyBounds, {NoBound})

(* Both bounds, of all kinds, with the first weekday and one time. *)
TwoSidedSchedules ==
  {s \in ScheduleSet(DefiniteBounds \cup YearlyBounds, DefiniteBounds \cup YearlyBounds) :
     s.weekdays = {0} /\ Cardinality(s.times) = 1}

AllKinds == OneSided \cup TwoSidedSchedules

Definites == {s \in TwoSidedSchedules : ~Repeating(s) /\ s.from.at < s.to.at}
=============================================================================
