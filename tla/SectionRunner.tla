--------------------------- MODULE SectionRunner ---------------------------
(***************************************************************************)
(* SectionRunner (section_runner.rs): a thread that takes section runs     *)
(* from a queue, one at a time, switches the section on, sleeps for the    *)
(* run's duration and switches it off again, and tells the run's caller    *)
(* about it through a channel.  Callers queue runs and one of them stops   *)
(* the runner.  The MQTT API may set a section's state behind its back.    *)
(*                                                                         *)
(* Time is discrete.  What the loop asks of the clock is how long the      *)
(* current run has lasted (Instant::elapsed), so that is what is kept,     *)
(* counted up to the run's duration.                                       *)
(***************************************************************************)
EXTENDS RunnerState, Sequences

CONSTANTS Sections,   \* the sections (irrigation zones)
          Durations,  \* durations a caller may ask for
          MaxChrono,  \* the longest duration chrono::Duration can represent
          MaxRuns     \* bound: how many runs are ever queued

ASSUME SectionRunnerAssumption ==
  /\ Durations \subseteq Nat
  /\ MaxChrono \in Nat
  /\ MaxRuns \in Nat

VARIABLES quit,       \* RunnerData.quit
          queue,      \* RunnerData.queue
          current,    \* the loop's current_run, with how long it has lasted
          state,      \* the state of each section
          sent,       \* what was sent on each run's notification channel
          queued,     \* how many runs were ever queued; they are numbered in order
          manual,     \* sections whose state was last set by somebody else
          stopper,    \* the caller of stop()
          awake       \* history: time that passed between the computation of
                      \* wait_period and the wait, while a run was current

dataVars == <<quit, queue, current, state, sent, queued, manual, stopper, awake>>
vars == <<runnerVars, dataVars>>

RunIds == 1 .. MaxRuns

SecRun == [id : RunIds, sec : Sections, dur : Durations]

Run == [id : RunIds, sec : Sections, dur : Durations, elapsed : Nat]
NoRun == [id |-> 0]   \* the code's None

Notification == {"Start", "Finish", "Interrupted"}

TypeOK ==
  /\ RunnerTypeOK
  /\ quit \in BOOLEAN
  /\ queue \in Seq(SecRun)
  /\ current \in Run \cup {NoRun}
  /\ state \in [Sections -> BOOLEAN]
  /\ sent \in [RunIds -> Seq(Notification)]
  /\ queued \in 0 .. MaxRuns
  /\ manual \in SUBSET Sections
  /\ stopper \in {"idle", "joining", "stopped", "panicked"}
  /\ awake \in Nat

Init ==
  /\ RunnerInit
  /\ quit = FALSE
  /\ queue = <<>>
  /\ current = NoRun
  /\ state = [s \in Sections |-> FALSE]
  /\ sent = [i \in RunIds |-> <<>>]
  /\ queued = 0
  /\ manual = {}
  /\ stopper = "idle"
  /\ awake = 0
-----------------------------------------------------------------------------
(* The other threads. *)

(* Variant: push_front, the newest run first. *)
PushFront(run) == queue' = <<run>> \o queue

(* queue.push_back(run) *)
PushBack(run) == queue' = Append(queue, run)

(* run_section(): a new channel, and the run goes to the back of the queue. *)
(* (With the mutex poisoned the caller panics and nothing changes here.)    *)
RunSection(s, d) ==
  /\ queued < MaxRuns
  /\ Update
  /\ queued' = queued + 1
  /\ PushBack([id |-> queued + 1, sec |-> s, dur |-> d])
  /\ UNCHANGED <<quit, current, state, sent, manual, stopper, awake>>

(* stop(), up to the join.  A poisoned mutex makes update() panic. *)
Stop ==
  /\ stopper = "idle"
  /\ IF Poisoned
     THEN stopper' = "panicked" /\ UNCHANGED <<runnerVars, quit>>
     ELSE stopper' = "joining" /\ Update /\ quit' = TRUE
  /\ UNCHANGED <<queue, current, state, sent, queued, manual, awake>>

(* The rest of stop(): join() waits for the thread and unwraps its result. *)
Join ==
  /\ stopper = "joining"
  /\ thread \in {"exited", "panicked"}
  /\ stopper' = IF thread = "exited" THEN "stopped" ELSE "panicked"
  /\ UNCHANGED <<runnerVars, quit, queue, current, state, sent, queued, manual, awake>>

(* Variant: the section is switched over, whatever it is told. *)
SwitchOver(s, b) ==
  /\ state' = [state EXCEPT ![s] = ~@]
  /\ manual' = manual \cup {s}
  /\ UNCHANGED <<runnerVars, quit, queue, current, sent, queued, stopper, awake>>

(* Section::set_state called by another thread: no lock is involved. *)
SetState(s, b) ==
  /\ state' = [state EXCEPT ![s] = b]
  /\ manual' = manual \cup {s}
  /\ UNCHANGED <<runnerVars, quit, queue, current, sent, queued, stopper, awake>>
-----------------------------------------------------------------------------
(* The body of the loop in run(): one action per path through it. *)

(* Variant: the call that switches a section off is missing. *)
RunnerOnlySwitchesOn(s, b) ==
  /\ state' = [state EXCEPT ![s] = @ \/ b]
  /\ manual' = manual \ {s}

RunnerSets(s, b) ==
  /\ state' = [state EXCEPT ![s] = b]
  /\ manual' = manual \ {s}

Notify(i, n) == sent' = [sent EXCEPT ![i] = Append(@, n)]

(* Variants: everybody is told of an interruption, or nobody. *)
EveryId == 1 .. queued
NobodysId == {}

QueuedIds == {queue[k].id : k \in 1 .. Len(queue)}

Expired(run) == run.elapsed >= run.dur

(* Variants: the subtraction the other way round, the whole run for what   *)
(* is left of it, and no timeout.                                          *)
SleepForReversed(run) == AtMost(run.elapsed - run.dur)
SleepForWhole(run) == AtMost(run.dur)
SleepForEver(run) == Wait

(* What is left of the run, which is how long to sleep for it. *)
SleepFor(run) == AtMost(run.dur - run.elapsed)

(* Variant: after a run the thread waits for an update. *)
AfterFinishWait == Wait

(* A finished run is followed at once by another look at the queue. *)
AfterFinish == NoWait

(* quit while a run is current: it is switched off, and it and every run   *)
(* still in the queue are told that they were interrupted.                 *)
Interrupt ==
  /\ quit
  /\ current # NoRun
  /\ Return
  /\ RunnerSets(current.sec, FALSE)
  /\ sent' = [i \in RunIds |-> IF i = current.id \/ i \in QueuedIds
                               THEN Append(sent[i], "Interrupted")
                               ELSE sent[i]]
  /\ queue' = <<>>
  /\ current' = NoRun
  /\ awake' = 0
  /\ UNCHANGED <<quit, queued, stopper>>

(* quit while no run is current: the thread returns and touches nothing. *)
QuitIdle ==
  /\ quit
  /\ current = NoRun
  /\ Return
  /\ UNCHANGED dataVars

FinishRun ==
  /\ ~quit
  /\ current # NoRun
  /\ Expired(current)
  /\ RunnerSets(current.sec, FALSE)
  /\ Notify(current.id, "Finish")
  /\ current' = NoRun
  /\ Continue(AfterFinish)
  /\ awake' = 0
  /\ UNCHANGED <<quit, queue, queued, stopper>>

KeepRunning ==
  /\ ~quit
  /\ current # NoRun
  /\ ~Expired(current)
  /\ Continue(SleepFor(current))
  /\ awake' = 0
  /\ UNCHANGED <<quit, queue, current, state, sent, queued, manual, stopper>>

(* duration_string(&run.dur), evaluated for the debug! line before the     *)
(* section is switched on, panics when chrono cannot represent it.  (The   *)
(* trace! line at the top of the loop would do so earlier; it is left out: *)
(* trace is off unless RUST_LOG asks for it.)                              *)
Representable(d) == d <= MaxChrono

StartRun ==
  /\ ~quit
  /\ current = NoRun
  /\ queue # <<>>
  /\ Representable(Head(queue).dur)
  /\ LET run == Head(queue) IN
       /\ queue' = Tail(queue)
       /\ RunnerSets(run.sec, TRUE)
       /\ Notify(run.id, "Start")
       /\ current' = [id |-> run.id, sec |-> run.sec, dur |-> run.dur, elapsed |-> 0]
       /\ Continue(AtMost(run.dur))
  /\ awake' = 0
  /\ UNCHANGED <<quit, queued, stopper>>

(* The run was already popped: it is dropped while the thread unwinds. *)
StartPanics ==
  /\ ~quit
  /\ current = NoRun
  /\ queue # <<>>
  /\ ~Representable(Head(queue).dur)
  /\ queue' = Tail(queue)
  /\ Panic
  /\ UNCHANGED <<quit, current, state, sent, queued, manual, stopper, awake>>

Idle ==
  /\ ~quit
  /\ current = NoRun
  /\ queue = <<>>
  /\ Continue(Wait)
  /\ UNCHANGED dataVars

LoopBody ==
  \/ Interrupt \/ QuitIdle \/ FinishRun \/ KeepRunning
  \/ StartRun \/ StartPanics \/ Idle

(* Everything the runner thread does that the operating system schedules. *)
RunnerThread ==
  \/ (WaitUpdate \/ TimeOut \/ Relock) /\ UNCHANGED dataVars
  \/ LoopBody

Spurious == SpuriousWake /\ UNCHANGED dataVars

(* One unit of time.  A run's age is counted up to its duration. *)
RunAges == current # NoRun /\ current.elapsed < current.dur

Tick ==
  /\ TimerRuns \/ RunAges
  /\ TimerTick
  /\ current' = IF RunAges THEN [current EXCEPT !.elapsed = @ + 1] ELSE current
  /\ awake' = IF RunAges /\ thread = "top" THEN awake + 1 ELSE awake
  /\ UNCHANGED <<quit, queue, state, sent, queued, manual, stopper>>

Callers ==
  \/ \E s \in Sections, d \in Durations : RunSection(s, d)
  \/ \E s \in Sections, b \in BOOLEAN : SetState(s, b)
  \/ Stop
  \/ Join

Next == Callers \/ RunnerThread \/ Spurious \/ Tick

Spec == Init /\ [][Next]_vars

(* The operating system runs the runner thread and the thread in join()    *)
(* when they can run, and time passes.  Nobody has to call anything, and   *)
(* spurious wake-ups need not happen.                                      *)
Fairness == WF_vars(RunnerThread) /\ WF_vars(Join) /\ WF_vars(Tick)

FairSpec == Spec /\ Fairness
-----------------------------------------------------------------------------
(* Safety. *)

(***************************************************************************)
(* ValveFollowsRun: unless somebody else set its state last, a section is  *)
(* on exactly while its run is the current one.  In particular the runner  *)
(* never has two sections on, never forgets to switch one off when a run   *)
(* finishes, is interrupted or when the thread dies, and never lets go of  *)
(* the section in the middle of a run (run(): the set_state calls).        *)
(***************************************************************************)
ValveFollowsRun ==
  \A s \in Sections \ manual :
    state[s] <=> (current # NoRun /\ current.sec = s)

(* The conversations a caller may see on its RunNotifier. *)
Ended == {<<"Start", "Finish">>, <<"Start", "Interrupted">>, <<"Interrupted">>}

(***************************************************************************)
(* RunsInOrder: a run hears nothing before every run queued earlier has    *)
(* heard its last word ("Sections are queued to run in the same order that *)
(* this method is called in", and never two at a time).                    *)
(***************************************************************************)
RunsInOrder ==
  \A i, j \in RunIds : i < j /\ sent[j] # <<>> => sent[i] \in Ended

(***************************************************************************)
(* NotifiedOnce: each caller sees a prefix of one of the conversations,    *)
(* and has seen Start and nothing else exactly while its run is current:   *)
(* no Finish without a Start, no second end, no Interrupted for a run that *)
(* already finished when the queue is drained.                             *)
(***************************************************************************)
NotifiedOnce ==
  \A i \in RunIds :
    /\ sent[i] \in {<<>>, <<"Start">>} \cup Ended
    /\ sent[i] = <<"Start">> <=> current.id = i

(***************************************************************************)
(* SleepMatchesRun: with a run current the thread sleeps neither too long  *)
(* nor too short: there is a timeout, it never fires before the run's time *)
(* is up, and it fires then, or later only by what passed before the sleep *)
(* began; with none current it never sleeps with a timeout.  (wait_period  *)
(* is computed from the age of the run before the mutex is released, and   *)
(* used after.)                                                            *)
(***************************************************************************)
SleepMatchesRun ==
  thread = "waiting" =>
    IF current = NoRun
    THEN timer = Forever
    ELSE timer # Forever /\ current.elapsed + timer \in current.dur .. current.dur + awake
-----------------------------------------------------------------------------
(* The invariant behind those properties. *)

(* Runs 1 .. Popped have left the queue, the others wait in it in order. *)
Popped == queued - Len(queue)

QueueHoldsTheRest ==
  /\ Len(queue) <= queued
  /\ \A k \in 1 .. Len(queue) : queue[k].id = Popped + k

CurrentCameLast ==
  current # NoRun =>
    current.id = Popped /\ sent[current.id] = <<"Start">> /\ thread \notin {"exited", "panicked"}

HeardNothingYet == \A i \in RunIds : i > Popped => sent[i] = <<>>

(* All the others that left the queue have ended, but for the one whose    *)
(* duration made the thread panic.                                         *)
HeardItAll ==
  \A i \in RunIds : i <= Popped /\ i # current.id =>
    sent[i] \in Ended \/ (Poisoned /\ i = Popped /\ sent[i] = <<>>)

(* The period the thread is about to sleep for suits the current run. *)
PeriodMatchesRun ==
  thread = "top" =>
    IF current = NoRun
    THEN wait_period.kind # "AtMost"
    ELSE /\ wait_period.kind = "AtMost"
         /\ current.elapsed + wait_period.dur \in current.dur .. current.dur + awake

RunInv ==
  /\ TypeOK
  /\ QueueHoldsTheRest
  /\ CurrentCameLast
  /\ HeardNothingYet
  /\ HeardItAll

SleepInv ==
  /\ TypeOK
  /\ PeriodMatchesRun
  /\ SleepMatchesRun
-----------------------------------------------------------------------------
(* What the callers can tell of a run, from its channel and the queue. *)
Phase(i) ==
  CASE i > queued -> "new"
    [] i <= queued /\ sent[i] = <<"Start">> -> "running"
    [] i <= queued /\ sent[i] = <<"Start", "Finish">> -> "finished"
    [] i <= queued /\ sent[i] \in {<<"Start", "Interrupted">>, <<"Interrupted">>} -> "interrupted"
    [] i <= queued /\ sent[i] = <<>> -> IF i \in QueuedIds THEN "queued" ELSE "lost"

Runs == INSTANCE SectionRuns
          WITH phase  <- [i \in RunIds |-> Phase(i)],
               closed <- thread \in {"exited", "panicked"}

(***************************************************************************)
(* ImplementsSectionRuns: the thread, its lock, its naps and its channels  *)
(* together do nothing but what SectionRuns allows.                        *)
(***************************************************************************)
ImplementsSectionRuns == Runs!Spec
-----------------------------------------------------------------------------
(* Liveness, under FairSpec. *)

(***************************************************************************)
(* RunEnds: a run that has started ends, whether it runs out or is         *)
(* interrupted, so no section stays on for ever.                           *)
(***************************************************************************)
RunEnds ==
  \A i \in RunIds : current.id = i ~> sent[i] \in Ended

(***************************************************************************)
(* BusyQueueMoves: a run that is in the queue while another one is current *)
(* leaves the queue, or the thread is gone.  (Nothing of the kind holds    *)
(* for a run queued while the runner is idle: its notification may find    *)
(* nobody waiting, as the one of StopReturns does.)                        *)
(***************************************************************************)
BusyQueueMoves ==
  \A i \in RunIds :
    i \in QueuedIds /\ current # NoRun
      ~> i \notin QueuedIds \/ thread \in {"exited", "panicked"}

(***************************************************************************)
(* StopWhileRunning: stop() called while a run is current returns.         *)
(***************************************************************************)
StopWhileRunning ==
  stopper = "joining" /\ current # NoRun ~> stopper = "stopped"
-----------------------------------------------------------------------------
(* What the documentation says and the code does not do. *)

(***************************************************************************)
(* StopReturns: "Tells the SectionRunner to stop and waits until its       *)
(* thread quits": a call of stop() returns.                                *)
(***************************************************************************)
StopReturns == stopper = "joining" ~> stopper = "stopped"

(***************************************************************************)
(* StopDiscardsQueue: "Any section runs that are queued are discarded":    *)
(* when the thread returns, no run is left behind in the queue, still      *)
(* holding the sending end of its caller's channel.                        *)
(***************************************************************************)
StopDiscardsQueue ==
  [][thread # "exited" /\ thread' = "exited" => queue' = <<>>]_vars
=============================================================================
