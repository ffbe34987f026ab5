---------------------------- MODULE RunnerFacts ----------------------------
(***************************************************************************)
(* What both runners rely on: the order of wait periods, and the types of  *)
(* the runner thread's part of the state.                                  *)
(***************************************************************************)
EXTENDS RunnerState, TLAPS

(* The runner thread's part of the state keeps its type. *)
LEMMA RunnerTypes ==
  ASSUME RunnerTypeOK
  PROVE  /\ NotifyOne => RunnerTypeOK'
         /\ WaitUpdate => RunnerTypeOK'
         /\ Wake => RunnerTypeOK'
         /\ Relock => RunnerTypeOK'
         /\ Return => RunnerTypeOK'
         /\ Panic => RunnerTypeOK'
         /\ TimerTick => RunnerTypeOK'
         /\ \A p \in WaitPeriods : Continue(p) \/ Hold(p) => RunnerTypeOK'
         /\ UNCHANGED runnerVars => RunnerTypeOK'
<1> USE DEF RunnerTypeOK, Places, Forever
<1>1. NotifyOne => RunnerTypeOK'
  BY DEF NotifyOne
<1>2. WaitUpdate => RunnerTypeOK'
  <2> SUFFICES ASSUME WaitUpdate PROVE RunnerTypeOK'
    OBVIOUS
  <2>1. wait_period.kind = "AtMost" => wait_period.dur \in Nat
    BY DEF WaitPeriods, Wait, NoWait
  <2> QED BY <2>1 DEF WaitUpdate
<1>3. Wake => RunnerTypeOK'
  BY DEF Wake
<1>4. Relock => RunnerTypeOK'
  BY DEF Relock
<1>5. Return => RunnerTypeOK'
  BY DEF Return
<1>6. Panic => RunnerTypeOK'
  BY DEF Panic
<1>7. TimerTick => RunnerTypeOK'
  BY DEF TimerTick, TimerRuns
<1>8. \A p \in WaitPeriods : Continue(p) \/ Hold(p) => RunnerTypeOK'
  BY DEF Continue, Hold
<1>9. UNCHANGED runnerVars => RunnerTypeOK'
  BY DEF runnerVars
<1> QED BY <1>1, <1>2, <1>3, <1>4, <1>5, <1>6, <1>7, <1>8, <1>9

(* A period built from a natural number is a period. *)
LEMMA PeriodsAreTyped ==
  /\ Wait \in WaitPeriods
  /\ NoWait \in WaitPeriods
  /\ \A d \in Nat : AtMost(d) \in WaitPeriods
BY DEF WaitPeriods, Wait, NoWait, AtMost
-----------------------------------------------------------------------------
(* What a wait period is. *)
LEMMA PeriodFields ==
  ASSUME NEW p \in WaitPeriods
  PROVE  /\ p.kind \in {"Wait", "AtMost", "None"}
         /\ p.dur \in Nat
         /\ p.kind = "Wait" => p = Wait
         /\ p.kind = "None" => p = NoWait
         /\ p.kind = "AtMost" => p = AtMost(p.dur)
BY DEF WaitPeriods, Wait, NoWait, AtMost

(***************************************************************************)
(* PeriodsAreOrdered: Ord::cmp of WaitPeriod is a total order, as Rust     *)
(* asks of it: two periods compare Equal only if they are equal, comparing *)
(* them the other way round gives the opposite, and it is transitive.      *)
(***************************************************************************)
THEOREM PeriodsAreOrdered ==
  ASSUME NEW p \in WaitPeriods, NEW q \in WaitPeriods, NEW r \in WaitPeriods
  PROVE  /\ Cmp(p, q) \in {"Less", "Equal", "Greater"}
         /\ Cmp(p, q) = "Equal" <=> p = q
         /\ Cmp(p, q) = "Less" <=> Cmp(q, p) = "Greater"
         /\ Cmp(p, q) = "Less" /\ Cmp(q, r) = "Less" => Cmp(p, r) = "Less"
<1> USE DEF Cmp, CmpDur
<1>1. Cmp(p, q) \in {"Less", "Equal", "Greater"}
  OBVIOUS
<1>2. Cmp(p, q) = "Equal" <=> p = q
  BY PeriodFields DEF Wait, NoWait, AtMost
<1>3. Cmp(p, q) = "Less" <=> Cmp(q, p) = "Greater"
  BY PeriodFields
<1>4. Cmp(p, q) = "Less" /\ Cmp(q, r) = "Less" => Cmp(p, r) = "Less"
  BY PeriodFields
<1> QED BY <1>1, <1>2, <1>3, <1>4

(***************************************************************************)
(* MinIsShortest: std::cmp::min of two wait periods is one of them and no  *)
(* longer than either.                                                     *)
(***************************************************************************)
THEOREM MinIsShortest ==
  ASSUME NEW p \in WaitPeriods, NEW q \in WaitPeriods
  PROVE  /\ MinPeriod(p, q) \in {p, q}
         /\ Cmp(MinPeriod(p, q), p) # "Greater"
         /\ Cmp(MinPeriod(p, q), q) # "Greater"
<1>1. Cmp(p, p) = "Equal" /\ Cmp(q, q) = "Equal"
  BY PeriodsAreOrdered
<1>2. Cmp(p, q) = "Greater" => Cmp(q, p) = "Less"
  BY PeriodsAreOrdered
<1> QED BY <1>1, <1>2 DEF MinPeriod
=============================================================================
