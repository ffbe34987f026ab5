--------------------------- MODULE Subscriptions ---------------------------
(***************************************************************************)
(* What a ScheduleRunner promises its clients, without threads, locks,     *)
(* naps, guards or a map of entries: a client with a subscription has its  *)
(* event executed when it is due and not before; it is due when the        *)
(* schedule said so at the moment the client asked or the last execution   *)
(* ended.  One event is executed at a time, and meanwhile no subscription  *)
(* changes.  When the runner is closed nothing is executed any more.       *)
(***************************************************************************)
EXTENDS Integers

CONSTANTS Clients, Schedules, NextRuns, LastInstant, Never

VARIABLES now,     \* the time
          wants,   \* the schedule of each client's subscription, in a set
          due,     \* when its event is to be executed, or Never
          busy,    \* whose event is being executed
          fired,   \* the instant each client's event was last executed for, or Never
          closed

vars == <<now, wants, due, busy, fired, closed>>

Init ==
  /\ now = 0
  /\ wants = [c \in Clients |-> {}]
  /\ due = [c \in Clients |-> Never]
  /\ busy = {}
  /\ fired = [c \in Clients |-> Never]
  /\ closed = FALSE

Pass ==
  /\ now < LastInstant
  /\ now' = now + 1
  /\ UNCHANGED <<wants, due, busy, fired, closed>>

(* A first schedule or another one. *)
Ask(c, s) ==
  /\ ~closed /\ busy = {}
  /\ wants' = [wants EXCEPT ![c] = {s}]
  /\ due' = [due EXCEPT ![c] = NextRuns[s][now]]
  /\ UNCHANGED <<now, busy, fired, closed>>

Cancel(c) ==
  /\ ~closed /\ busy = {}
  /\ wants' = [wants EXCEPT ![c] = {}]
  /\ due' = [due EXCEPT ![c] = Never]
  /\ UNCHANGED <<now, busy, fired, closed>>

Fire(c) ==
  /\ ~closed /\ busy = {}
  /\ due[c] # Never /\ due[c] <= now
  /\ fired' = [fired EXCEPT ![c] = due[c]]
  /\ busy' = {c}
  /\ UNCHANGED <<now, wants, due, closed>>

Renew(c, s) ==
  /\ busy = {c} /\ wants[c] = {s}
  /\ due' = [due EXCEPT ![c] = NextRuns[s][now]]
  /\ busy' = {}
  /\ UNCHANGED <<now, wants, fired, closed>>

Close ==
  /\ ~closed /\ busy = {}
  /\ closed' = TRUE
  /\ UNCHANGED <<now, wants, due, busy, fired>>

Next ==
  \/ \E c \in Clients, s \in Schedules : Ask(c, s) \/ Renew(c, s)
  \/ \E c \in Clients : Cancel(c) \/ Fire(c)
  \/ Close
  \/ Pass

Spec == Init /\ [][Next]_vars
=============================================================================
