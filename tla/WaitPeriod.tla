----------------------------- MODULE WaitPeriod -----------------------------
(***************************************************************************)
(* WaitPeriod (util.rs): how long a runner thread sleeps before it looks   *)
(* at its data again.  A period is Wait (until notified), AtMost(d) (until *)
(* notified or until d time units have passed) or NoWait, the code's       *)
(* WaitPeriod::None (do not sleep at all).                                 *)
(***************************************************************************)
EXTENDS Integers

Wait      == [kind |-> "Wait",   dur |-> 0]
AtMost(d) == [kind |-> "AtMost", dur |-> d]
NoWait    == [kind |-> "None",   dur |-> 0]

WaitPeriods == {Wait, NoWait} \cup [kind : {"AtMost"}, dur : Nat]

(***************************************************************************)
(* Ord::cmp of WaitPeriod: the arms of the match, in the code's order.     *)
(* NoWait is the shortest period, Wait the longest, and two AtMost         *)
(* compare by their durations.                                             *)
(***************************************************************************)
CmpDur(d, e) == IF d < e THEN "Less" ELSE IF d > e THEN "Greater" ELSE "Equal"

Cmp(p, q) ==
  IF p.kind = q.kind /\ p.kind # "AtMost" THEN "Equal"
  ELSE IF p.kind = "Wait" \/ q.kind = "None" THEN "Greater"
  ELSE IF q.kind = "Wait" \/ p.kind = "None" THEN "Less"
  ELSE CmpDur(p.dur, q.dur)

(* Variants of min: the period so far stays; the last one counts. *)
MinPeriodFirst(p, q) == p
MinPeriodLast(p, q) == q

(* std::cmp::min: the first argument unless it is greater than the second. *)
MinPeriod(p, q) == IF Cmp(p, q) = "Greater" THEN q ELSE p
=============================================================================
