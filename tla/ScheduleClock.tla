--------------------------- MODULE ScheduleClock ---------------------------
(***************************************************************************)
(* The clock runs on a schedule that somebody chose, and next_run_after is *)
(* asked at every instant.                                                 *)
(***************************************************************************)
EXTENDS Schedule

CONSTANTS Schedules,   \* the schedules somebody may choose
          LastInstant  \* bound: where the clock stops

IsBound(b) == b.kind = "None" \/ (b.kind \in {"Yearly", "Definite"} /\ b.at \in Nat)

IsSchedule(s) ==
  /\ s.times \subseteq 0 .. DayLength - 1
  /\ s.weekdays \subseteq 0 .. WeekLength - 1
  /\ IsBound(s.from) /\ IsBound(s.to)

ASSUME ScheduleClockAssumption ==
  /\ \A s \in Schedules : IsSchedule(s)
  /\ LastInstant \in Nat

VARIABLES sched, now

vars == <<sched, now>>

NextRun == NextRunAfter(sched, now)
-----------------------------------------------------------------------------
TypeOK ==
  /\ sched \in Schedules
  /\ now \in 0 .. LastInstant
  /\ NextRun \in Nat \cup {Never}

Init == sched \in Schedules /\ now = 0

Tick ==
  /\ now < LastInstant
  /\ now' = now + 1
  /\ UNCHANGED sched

ClockStops == now = LastInstant /\ UNCHANGED vars

Next == Tick \/ ClockStops

Spec == Init /\ [][Next]_vars
-----------------------------------------------------------------------------
(* What a schedule means, without computing anything. *)
Matches(s, t) == Weekday(Day(t)) \in s.weekdays /\ TimeOf(t) \in s.times

NotEarly(s, t, ref) == ResolveFrom(s.from, ref) = Never \/ ResolveFrom(s.from, ref) <= t
NotLate(s, t, ref) == ResolveFrom(s.to, ref) = Never \/ t <= ResolveFrom(s.to, ref)

Within(s, t, ref) == NotEarly(s, t, ref) /\ NotLate(s, t, ref)

(* Far enough to find the first run from `ref` on, if there is one. *)
Reach(s, ref) == Max({ref, ResolveFrom(s.from, ref)}) + Week

RunsFrom(s, ref) == {t \in ref .. Reach(s, ref) : Matches(s, t) /\ Within(s, t, ref)}

FirstRunFrom(s, ref) == IF RunsFrom(s, ref) = {} THEN Never ELSE Min(RunsFrom(s, ref))

TwoSided(s) == s.from.kind # "None" /\ s.to.kind # "None"
Repeating(s) == "Yearly" \in {s.from.kind, s.to.kind}

(***************************************************************************)
(* NextRunIsTheFirst: with one bound at most, next_run_after answers the   *)
(* first instant, from the reference on, that has one of the weekdays and  *)
(* one of the times and respects the bound; and None when there is none.   *)
(***************************************************************************)
NextRunIsTheFirst == ~TwoSided(sched) => NextRun = FirstRunFrom(sched, now)

(* When `from` is moved to the next year, with_year answers None for a     *)
(* leap day if that year has none, and next_run_after forgets the bound.   *)
FromIsLost(s, ref) ==
  LET from == ResolveFrom(s.from, ref) IN
  /\ from # Never /\ from < ResolveFrom(s.to, ref)
  /\ MonthDay(from) = LeapDay /\ YearOf(from) + 1 \notin LeapYears

(***************************************************************************)
(* NextRunRespectsBounds: whatever the bounds, and although next_run_after *)
(* moves one of them, an answer is a run of the schedule at the reference  *)
(* or later, not later than `to`, and not earlier than `from`, unless that *)
(* is a leap day which is lost on the way.                                 *)
(***************************************************************************)
NextRunRespectsBounds ==
  NextRun # Never =>
    /\ NextRun >= now
    /\ Matches(sched, NextRun)
    /\ NotLate(sched, NextRun, now)
    /\ NotEarly(sched, NextRun, now) \/ FromIsLost(sched, now)

(***************************************************************************)
(* AnswerStaysRight: an answer remains the answer until its time comes,    *)
(* and None remains None, unless a bound repeats.  SchedRun::next_run is   *)
(* computed once and kept, which is right only because of this.            *)
(***************************************************************************)
AnswerStaysRight ==
  [][~Repeating(sched) /\ (NextRun > now \/ NextRun = Never) => NextRun' = NextRun]_vars
-----------------------------------------------------------------------------
(* What the documentation says and the code does not do. *)

(***************************************************************************)
(* WindowedScheduleRuns: `from` and `to` "are restrictions on the end and  *)
(* beginning of event runs": between two definite bounds the event runs.   *)
(***************************************************************************)
WindowedScheduleRuns == NextRun = FirstRunFrom(sched, now)
=============================================================================
