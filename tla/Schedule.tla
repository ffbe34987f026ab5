------------------------------ MODULE Schedule ------------------------------
(***************************************************************************)
(* Schedule (schedule.rs): times of day, weekdays, and bounds on the first *)
(* and the last run, from which next_run_after computes when an event runs *)
(* next.                                                                   *)
(***************************************************************************)
EXTENDS Calendar, FiniteSetsExt

NoBound     == [kind |-> "None"]
Yearly(t)   == [kind |-> "Yearly", at |-> t]
Definite(t) == [kind |-> "Definite", at |-> t]

(* DateTimeBound::resolve_from *)
ResolveFrom(bound, date) ==
  CASE bound.kind = "None"     -> Never
    [] bound.kind = "Yearly"   -> WithYear(bound.at, YearOf(date))
    [] bound.kind = "Definite" -> bound.at

(* Variant: the search begins a day too late. *)
NextWeekdayAfter(day, weekday) ==
  Min({d \in day + 1 .. day + WeekLength : Weekday(d) = weekday})

(* The first date with the weekday, from a date on: that date included. *)
NextWeekday(day, weekday) ==
  Min({d \in day .. day + WeekLength - 1 : Weekday(d) = weekday})

(* The bounds on the runs after `ref`: both resolved in its year, and the  *)
(* first one moved to the following year when it is the earlier of them.   *)
To(s, ref) == ResolveFrom(s.to, ref)

From(s, ref) ==
  LET from == ResolveFrom(s.from, ref) IN
  IF from # Never /\ To(s, ref) # Never /\ from < To(s, ref)
  THEN WithYear(from, YearOf(from) + 1)
  ELSE from

(* Variant: the first bound is not looked at. *)
StartAtRef(s, ref) == ref

(* Where the search begins. *)
Start(s, ref) == IF From(s, ref) > ref THEN From(s, ref) ELSE ref

(* Variants: a run earlier on the first day is not moved, or is moved the  *)
(* wrong way.                                                              *)
CandidateUnmoved(start, weekday, time) ==
  NextWeekday(Day(start), weekday) * DayLength + time
CandidateMovedBack(start, weekday, time) ==
  LET date == NextWeekday(Day(start), weekday) * DayLength + time IN
  IF date < start THEN date - Week ELSE date

Candidate(start, weekday, time) ==
  LET date == NextWeekday(Day(start), weekday) * DayLength + time IN
  IF date < start THEN date + Week ELSE date

NotTooLate(date, to) == to = Never \/ date <= to

NextRunAfter(s, ref) ==
  LET dates == {Candidate(Start(s, ref), w, t) : w \in s.weekdays, t \in s.times}
      allowed == {d \in dates : NotTooLate(d, To(s, ref))}
  IN IF allowed = {} THEN Never ELSE Min(allowed)
=============================================================================
