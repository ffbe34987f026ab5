--------------------------- MODULE ProgramRunner ---------------------------
(***************************************************************************)
(* Programs at work (program.rs, program_runner.rs, State::stop_all of     *)
(* main.rs) on top of the SectionRunner.  A program is a sequence of       *)
(* sections and durations.  Threads run one with run_sync, which waits for *)
(* it; the ScheduleRunner's thread runs one with ProgramExecutor::execute, *)
(* which does not, and which holds that runner's mutex meanwhile.  Each    *)
(* item is queued by a call of run_section of its own, so that the items   *)
(* of several programs mix.                                                *)
(*                                                                         *)
(* When the executor is called is the ScheduleRunner's business: here it   *)
(* may be at any time.  Setting a section's state by hand is left to       *)
(* SectionRunner: nothing here depends on it.                              *)
(***************************************************************************)
EXTENDS SectionRunner, FiniteSetsExt

CONSTANTS Programs,
          SequenceOf,  \* Program.sequence
          Threads,     \* who calls run_sync, once each
          Executor     \* the ScheduleRunner's thread

ASSUME ProgramAssumption ==
  /\ SequenceOf \in [Programs -> Seq([sec : Sections, dur : Durations])]
  /\ Executor \notin Threads
  /\ IsFiniteSet(Threads)

Workers == Threads \cup {Executor}

VARIABLES job,        \* what each worker is doing
          program,    \* the program it runs
          notifiers,  \* the runs queue_run has queued so far, by their numbers
          shutdown    \* how far stop_all has come

jobVars == <<job, program, notifiers>>
programVars == <<vars, jobVars, shutdown>>

ProgramTypeOK ==
  /\ TypeOK
  /\ job \in [Workers -> {"idle", "queueing", "waiting", "returned", "panicked"}]
  /\ program \in [Workers -> Programs]
  /\ notifiers \in [Workers -> Seq(1 .. queued)]
  /\ shutdown \in {"no", "sections", "programs", "done", "panicked"}

ProgramInit ==
  /\ Init
  /\ job = [w \in Workers |-> "idle"]
  /\ program \in [Workers -> Programs]
  /\ notifiers = [w \in Workers |-> <<>>]
  /\ shutdown = "no"
-----------------------------------------------------------------------------
Items(w) == SequenceOf[program[w]]

StillToQueue(w) == IF job[w] = "queueing" THEN Len(Items(w)) - Len(notifiers[w]) ELSE 0

(* The bound on the runs leaves room for a whole program. *)
Room(p) ==
  queued + MapThenSumSet(StillToQueue, Workers) + Len(SequenceOf[p]) <= MaxRuns

Begin(w, p) ==
  /\ job[w] = "idle"
  /\ Room(p)
  /\ job' = [job EXCEPT ![w] = "queueing"]
  /\ program' = [program EXCEPT ![w] = p]
  /\ notifiers' = [notifiers EXCEPT ![w] = <<>>]
  /\ UNCHANGED <<vars, shutdown>>

RunSync(w, p) == w \in Threads /\ Begin(w, p)

(* Once the ScheduleRunner's quit is set its thread executes nothing. *)
Execute(p) == shutdown \in {"no", "sections"} /\ Begin(Executor, p)

(* One call of run_section in queue_run. *)
QueueItem(w) ==
  /\ job[w] = "queueing"
  /\ Len(notifiers[w]) < Len(Items(w))
  /\ LET item == Items(w)[Len(notifiers[w]) + 1] IN RunSection(item.sec, item.dur)
  /\ notifiers' = [notifiers EXCEPT ![w] = Append(@, queued + 1)]
  /\ UNCHANGED <<job, program, shutdown>>

(* update() unwraps the lock of a poisoned mutex. *)
QueuePanics(w) ==
  /\ job[w] = "queueing"
  /\ Len(notifiers[w]) < Len(Items(w))
  /\ Poisoned
  /\ job' = [job EXCEPT ![w] = "panicked"]
  /\ UNCHANGED <<vars, program, notifiers, shutdown>>

(* Variant: the executor calls run_sync instead of queue_run. *)
EverybodyWaits(w) == TRUE

(* execute() drops the notifiers; run_sync goes on to wait for the last. *)
WaitsForRuns(w) == w # Executor

(* Variant: run_sync waits for the first item's notifier. *)
AwaitedFirst(w) == notifiers[w][1]

Awaited(w) == notifiers[w][Len(notifiers[w])]

EndQueueing(w) ==
  /\ job[w] = "queueing"
  /\ Len(notifiers[w]) = Len(Items(w))
  /\ job' = [job EXCEPT ![w] =
               IF WaitsForRuns(w) /\ notifiers[w] # <<>> THEN "waiting"
               ELSE IF w = Executor THEN "idle" ELSE "returned"]
  /\ UNCHANGED <<vars, program, notifiers, shutdown>>

(* The run was popped and then dropped, with its sender, by the panic. *)
SenderDropped(i) == i \notin QueuedIds /\ sent[i] = <<>>

(* The loop over the notifications: the last word was said, or the channel *)
(* is closed.                                                              *)
Over(i) == sent[i] \in Ended \/ SenderDropped(i)

EndWaiting(w) ==
  /\ job[w] = "waiting"
  /\ Over(Awaited(w))
  /\ job' = [job EXCEPT ![w] = IF w = Executor THEN "idle" ELSE "returned"]
  /\ UNCHANGED <<vars, program, notifiers, shutdown>>
-----------------------------------------------------------------------------
(* stop_all(): section_runner.stop(), and then program_runner.stop(), with *)
(* which main goes on only if the first has not panicked.                  *)

StopSections ==
  /\ Stop
  /\ shutdown' = "sections"
  /\ UNCHANGED jobVars

JoinSections == Join /\ UNCHANGED <<jobVars, shutdown>>

(* Drop for ScheduleRunner sets quit when the executor has given its mutex *)
(* back, and then joins its thread, if that wakes up: the notification may *)
(* be lost, as the section runner's may.                                   *)
QuitPrograms ==
  /\ shutdown = "sections"
  /\ \/ stopper = "stopped" /\ job[Executor] = "idle" /\ shutdown' = "programs"
     \/ stopper = "panicked" /\ shutdown' = "panicked"
  /\ UNCHANGED <<vars, jobVars>>

JoinPrograms ==
  /\ shutdown = "programs"
  /\ shutdown' = "done"
  /\ UNCHANGED <<vars, jobVars>>
-----------------------------------------------------------------------------
Worker(w) == QueueItem(w) \/ QueuePanics(w) \/ EndQueueing(w) \/ EndWaiting(w)

SectionThread == RunnerThread /\ UNCHANGED <<jobVars, shutdown>>

Environment == (Spurious \/ Tick) /\ UNCHANGED <<jobVars, shutdown>>

ProgramNext ==
  \/ \E w \in Threads, p \in Programs : RunSync(w, p)
  \/ \E p \in Programs : Execute(p)
  \/ \E w \in Workers : Worker(w)
  \/ StopSections \/ JoinSections \/ QuitPrograms \/ JoinPrograms
  \/ SectionThread
  \/ Environment

ProgramSpec == ProgramInit /\ [][ProgramNext]_programVars

(* As in SectionRunner, and every worker goes on with what it has begun:   *)
(* strong fairness, because a mutex that is released again and again does  *)
(* not keep the same thread out for ever.                                  *)
FairProgramSpec ==
  /\ ProgramSpec
  /\ WF_programVars(SectionThread)
  /\ WF_programVars(JoinSections)
  /\ WF_programVars(Tick /\ UNCHANGED <<jobVars, shutdown>>)
  /\ \A w \in Workers : SF_programVars(Worker(w))
-----------------------------------------------------------------------------
Gone == thread \in {"exited", "panicked"}

(***************************************************************************)
(* RunSyncWaitsForAll: run_sync waits for the last item's notifier only,   *)
(* and yet, when it returns, every item of its program is over, whatever   *)
(* other programs were queued in between and however the runner was        *)
(* stopped ("blocking until the whole program finishes before returning"). *)
(***************************************************************************)
RunSyncWaitsForAll ==
  \A w \in Threads : job[w] = "returned" =>
    \A k \in 1 .. Len(notifiers[w]) : Over(notifiers[w][k])

(***************************************************************************)
(* ExecutorGoesOn: execute() returns, or panics, whatever has become of    *)
(* the section runner and however long its runs take, so that the mutex    *)
(* the schedule runner holds meanwhile is given back.                      *)
(***************************************************************************)
ExecutorGoesOn ==
  job[Executor] \notin {"idle", "panicked"} ~> job[Executor] \in {"idle", "panicked"}

(***************************************************************************)
(* BusyProgramEnds: run_sync returns if a section is running while it      *)
(* waits, however many runs are queued before its own, or the runner's     *)
(* thread ends.  (Without a section running a notification may be lost,    *)
(* and the caller is blocked for ever.)                                    *)
(***************************************************************************)
BusyProgramEnds ==
  \A w \in Threads :
    job[w] = "waiting" /\ current # NoRun ~> job[w] = "returned" \/ Gone
=============================================================================
