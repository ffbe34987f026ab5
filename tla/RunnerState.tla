---------------------------- MODULE RunnerState ----------------------------
(***************************************************************************)
(* RunnerState (util.rs): data behind a Mutex, and a Condvar on which one  *)
(* runner thread sleeps.  Any other thread changes the data through        *)
(* update(), whose guard calls notify_one when it is dropped.              *)
(*                                                                         *)
(* The runner thread is in one of these places:                            *)
(*   "top"      at the top of its loop, the mutex not held                 *)
(*   "waiting"  inside Condvar::wait or wait_timeout, the mutex released   *)
(*   "woken"    notified, timed out or spuriously woken, not yet relocked  *)
(*   "locked"   holding the mutex, in the body of its loop                 *)
(*   "exited"   returned from its function                                 *)
(*   "panicked" unwound while it held the mutex, which is now poisoned     *)
(*                                                                         *)
(* The other threads hold the mutex only from the start to the end of one  *)
(* action, so the mutex is free exactly when the runner does not hold it.  *)
(***************************************************************************)
EXTENDS WaitPeriod

VARIABLES thread,     \* where the runner thread is
          wait_period,\* the loop's local variable of that name
          timer       \* time left of the wait_timeout in progress

runnerVars == <<thread, wait_period, timer>>

(* No wait_timeout is in progress. *)
Forever == -1

Places == {"top", "waiting", "woken", "locked", "exited", "panicked"}

RunnerTypeOK ==
  /\ thread \in Places
  /\ wait_period \in WaitPeriods
  /\ timer \in Nat \cup {Forever}

RunnerInit ==
  /\ thread = "top"
  /\ wait_period = Wait
  /\ timer = Forever

LockFree == thread # "locked"

(* Mutex::lock answers Err once its owner has panicked; callers unwrap it. *)
Poisoned == thread = "panicked"
-----------------------------------------------------------------------------
(* notify_one.  Only the runner ever waits on this Condvar, and a          *)
(* notification that finds nobody waiting is not remembered.               *)
NotifyOne ==
  /\ thread' = IF thread = "waiting" THEN "woken" ELSE thread
  /\ timer' = IF thread = "waiting" THEN Forever ELSE timer
  /\ UNCHANGED wait_period

(* update(): lock, let the caller change the data, notify, unlock.  The    *)
(* caller conjoins its change of the data.                                 *)
Update ==
  /\ LockFree
  /\ ~Poisoned
  /\ NotifyOne

(* wait_update_for_period(&wait_period): the mutex is locked first, and    *)
(* then, whatever the data says by now, the wait begins.                   *)
WaitUpdate ==
  /\ thread = "top"
  /\ \/ /\ wait_period.kind = "Wait"
        /\ thread' = "waiting"
        /\ timer' = Forever
     \/ /\ wait_period.kind = "AtMost"
        /\ thread' = "waiting"
        /\ timer' = wait_period.dur
     \/ /\ wait_period.kind = "None"
        /\ thread' = "locked"
        /\ timer' = Forever
  /\ UNCHANGED wait_period

Wake ==
  /\ thread = "waiting"
  /\ thread' = "woken"
  /\ timer' = Forever
  /\ UNCHANGED wait_period

TimeOut == timer = 0 /\ Wake

(* Condvar::wait may return without a notification. *)
SpuriousWake == Wake

(* Before wait returns it locks the mutex again. *)
Relock ==
  /\ thread = "woken"
  /\ thread' = "locked"
  /\ UNCHANGED <<wait_period, timer>>
-----------------------------------------------------------------------------
(* The ends of the loop's body: next iteration (the guard is dropped       *)
(* without notifying), return, and panic.                                  *)
Continue(p) ==
  /\ thread = "locked"
  /\ thread' = "top"
  /\ wait_period' = p
  /\ UNCHANGED timer

(* The body goes on, the mutex still held, with another wait_period. *)
Hold(p) ==
  /\ thread = "locked"
  /\ wait_period' = p
  /\ UNCHANGED <<thread, timer>>

Return ==
  /\ thread = "locked"
  /\ thread' = "exited"
  /\ UNCHANGED <<wait_period, timer>>

Panic ==
  /\ thread = "locked"
  /\ thread' = "panicked"
  /\ UNCHANGED <<wait_period, timer>>

(* One unit of time passes for the wait_timeout in progress. *)
TimerRuns == thread = "waiting" /\ timer > 0

TimerTick ==
  /\ timer' = IF TimerRuns THEN timer - 1 ELSE timer
  /\ UNCHANGED <<thread, wait_period>>
=============================================================================
