--------------------------- MODULE ScheduleRunner ---------------------------
(***************************************************************************)
(* ScheduleRunner (schedule_runner.rs): a thread that keeps an IndexMap of *)
(* scheduled runs, sleeps until the earliest of them is due, and executes  *)
(* what is due, the mutex held all the time.  Clients schedule runs,       *)
(* change them and take them out through the guards they were given; the   *)
(* owner of the runner drops it when no guard is left.                     *)
(*                                                                         *)
(* The clock (Local::now) is read again and again while the thread is at   *)
(* work, and may or may not have moved on each time.                       *)
(***************************************************************************)
EXTENDS RunnerState, IndexMap

CONSTANTS Clients,      \* who schedules runs
          Schedules,
          Data,         \* what the executor is given
          Panicking,    \* data that makes the executor panic
          NextRuns,     \* what Schedule::next_run_after answers
          LastInstant   \* bound: where the clock stops

Never == -1   \* Option::None of a date and time
Instants == 0 .. LastInstant

(* See NextRunRespectsBounds of ScheduleClock.  The last instant is kept   *)
(* free of runs, so that what happens does not depend on the bound.        *)
ASSUME ScheduleRunnerAssumption ==
  /\ LastInstant \in Nat
  /\ Panicking \subseteq Data
  /\ NextRuns \in [Schedules -> [Instants -> Instants \cup {Never}]]
  /\ \A s \in Schedules, t \in Instants :
       NextRuns[s][t] # Never => NextRuns[s][t] >= t /\ NextRuns[s][t] < LastInstant

VARIABLES quit,      \* RunnerData.quit
          runs,      \* RunnerData.runs
          stage,     \* what the body of the loop is doing
          passed,    \* the entries its iterator has passed
          now,       \* the clock
          held,      \* the index in each client's ScheduleGuard, or None
          asked,     \* the schedule each client last asked for, in a set; {} if none
          given,     \* history: the data each client last gave, in a set; {} if none
          forgotten, \* clients that dropped their guard without stop()
          fired,     \* history: the instant each client's run was last executed for
          still,     \* history: the clients for which the clock stood still meanwhile
          seen,      \* auxiliary: whose runs the last scan made the thread wait for
          late,      \* auxiliary: time since that scan began, while still awake
          stopper    \* the thread that drops the runner

scanVars == <<stage, passed, seen>>
clientVars == <<held, asked, given, forgotten>>
firedVars == <<fired, still>>
vars == <<runnerVars, quit, runs, scanVars, now, clientVars, firedVars, late, stopper>>

SchedRun == [owner : Clients, sched : Schedules, data : Data, next_run : Instants \cup {Never}]

TypeOK ==
  /\ RunnerTypeOK
  /\ quit \in BOOLEAN
  /\ runs \in Maps(SchedRun)
  /\ stage \in {"idle", "scanning", "executing"}
  /\ passed \in 0 .. Len(runs.entries)
  /\ now \in Instants
  /\ held \in [Clients -> {None} \cup Indexes(runs)]
  /\ asked \in [Clients -> SUBSET Schedules]
  /\ given \in [Clients -> SUBSET Data]
  /\ forgotten \in SUBSET Clients
  /\ fired \in [Clients -> Instants \cup {Never}]
  /\ still \in SUBSET Clients
  /\ seen \in SUBSET Clients
  /\ late \in Instants
  /\ stopper \in {"idle", "joining", "stopped", "panicked"}

Init ==
  /\ RunnerInit
  /\ quit = FALSE
  /\ runs = NewMap
  /\ stage = "idle" /\ passed = 0 /\ seen = {}
  /\ now = 0
  /\ held = [c \in Clients |-> None]
  /\ asked = [c \in Clients |-> {}]
  /\ given = [c \in Clients |-> {}]
  /\ forgotten = {}
  /\ fired = [c \in Clients |-> Never]
  /\ still = {}
  /\ late = 0
  /\ stopper = "idle"
-----------------------------------------------------------------------------
(* The clients.  Each call holds the mutex from its start to its end. *)

(* SchedRun::update_next_run at the current time. *)
NextRun(s) == NextRuns[s][now]

Schedule(c, s, d) ==
  /\ held[c] = None /\ c \notin forgotten
  /\ stopper = "idle"
  /\ Update
  /\ runs' = Insert(runs, [owner |-> c, sched |-> s, data |-> d, next_run |-> NextRun(s)])
  /\ held' = [held EXCEPT ![c] = InsertIndex(runs)]
  /\ asked' = [asked EXCEPT ![c] = {s}]
  /\ given' = [given EXCEPT ![c] = {d}]
  /\ UNCHANGED <<quit, scanVars, now, forgotten, firedVars, late, stopper>>

(* Variant: the stored next_run is not computed again. *)
RescheduledLater(r, s) == [r EXCEPT !.sched = s]

(* SchedRun::update_schedule *)
Rescheduled(r, s) == [r EXCEPT !.sched = s, !.next_run = NextRun(s)]

UpdateSchedule(c, s) ==
  /\ held[c] # None
  /\ Update
  /\ runs' = Assign(runs, held[c], Rescheduled(ElementAt(runs, held[c]), s))
  /\ asked' = [asked EXCEPT ![c] = {s}]
  /\ seen' = seen \ {c}
  /\ UNCHANGED <<quit, stage, passed, now, held, given, forgotten, firedVars, late, stopper>>

(* ScheduleGuard::update_data *)
GivenData(r, d) == [r EXCEPT !.data = d]

UpdateData(c, d) ==
  /\ held[c] # None
  /\ Update
  /\ runs' = Assign(runs, held[c], GivenData(ElementAt(runs, held[c]), d))
  /\ given' = [given EXCEPT ![c] = {d}]
  /\ UNCHANGED <<quit, scanVars, now, held, asked, forgotten, firedVars, late, stopper>>

(* ScheduleGuard::stop *)
StopGuard(c) ==
  /\ held[c] # None
  /\ Update
  /\ runs' = Remove(runs, held[c])
  /\ held' = [held EXCEPT ![c] = None]
  /\ asked' = [asked EXCEPT ![c] = {}]
  /\ given' = [given EXCEPT ![c] = {}]
  /\ seen' = seen \ {c}
  /\ UNCHANGED <<quit, stage, passed, now, forgotten, firedVars, late, stopper>>

(* The guard goes out of scope: the run stays. *)
Forget(c) ==
  /\ held[c] # None
  /\ held' = [held EXCEPT ![c] = None]
  /\ forgotten' = forgotten \cup {c}
  /\ UNCHANGED <<runnerVars, quit, runs, scanVars, now, asked, given, firedVars, late, stopper>>

(* drop(), up to the join.  The guards borrow the runner, so it can only   *)
(* be dropped when they are gone.  update() panics on a poisoned mutex.    *)
Drop ==
  /\ stopper = "idle"
  /\ \A c \in Clients : held[c] = None
  /\ IF Poisoned
     THEN stopper' = "panicked" /\ UNCHANGED <<runnerVars, quit>>
     ELSE stopper' = "joining" /\ Update /\ quit' = TRUE
  /\ UNCHANGED <<runs, scanVars, now, clientVars, firedVars, late>>

Join ==
  /\ stopper = "joining"
  /\ thread \in {"exited", "panicked"}
  /\ stopper' = IF thread = "exited" THEN "stopped" ELSE "panicked"
  /\ UNCHANGED <<runnerVars, quit, runs, scanVars, now, clientVars, firedVars, late>>
-----------------------------------------------------------------------------
(* The body of the loop in run(), one entry of the map at a time. *)

Quit ==
  /\ quit /\ stage = "idle"
  /\ Return
  /\ UNCHANGED <<quit, runs, scanVars, now, clientVars, firedVars, late, stopper>>

BeginScan ==
  /\ ~quit /\ stage = "idle"
  /\ Hold(Wait)
  /\ stage' = "scanning" /\ passed' = 0 /\ seen' = {}
  /\ late' = 0
  /\ UNCHANGED <<quit, runs, now, clientVars, firedVars, stopper>>

(* The entry the iterator comes to, if any is left. *)
Upcoming == NextIndex(runs, passed)
Run == ElementAt(runs, Upcoming)
AtEntry == stage = "scanning" /\ Upcoming # None

(* till_run() answers None. *)
PassDormant ==
  /\ AtEntry
  /\ Run.next_run = Never
  /\ Hold(wait_period)
  /\ passed' = Upcoming
  /\ UNCHANGED <<quit, runs, stage, seen, now, clientVars, firedVars, late, stopper>>

PassNotDue ==
  /\ AtEntry
  /\ Run.next_run > now
  /\ Hold(MinPeriod(wait_period, AtMost(Run.next_run - now)))
  /\ passed' = Upcoming
  /\ seen' = seen \cup {Run.owner}
  /\ UNCHANGED <<quit, runs, stage, now, clientVars, firedVars, late, stopper>>

Due == AtEntry /\ Run.next_run # Never /\ Run.next_run <= now

Execute ==
  /\ Due
  /\ Run.data \notin Panicking
  /\ Hold(wait_period)
  /\ fired' = [fired EXCEPT ![Run.owner] = Run.next_run]
  /\ stage' = "executing"
  /\ UNCHANGED <<quit, runs, passed, seen, now, clientVars, still, late, stopper>>

ExecutorPanics ==
  /\ Due
  /\ Run.data \in Panicking
  /\ Panic
  /\ UNCHANGED <<quit, runs, scanVars, now, clientVars, firedVars, late, stopper>>

(* Variant: the next run is looked for from the last one on. *)
NextRunFromLast(r) == NextRuns[r.sched][r.next_run]

(* The clock is read again when the executor has returned. *)
NextRunFromNow(r) == NextRun(r.sched)

(* Nothing makes the clock move on from the instant the run was due to     *)
(* this reading of it; while it does not, the run is due again at once.    *)
StandsStill == Run.next_run = now

UpdateNextRun ==
  /\ stage = "executing"
  /\ Hold(NoWait)
  /\ runs' = Assign(runs, Upcoming, [Run EXCEPT !.next_run = NextRunFromNow(Run)])
  /\ stage' = "scanning" /\ passed' = Upcoming
  /\ still' = IF StandsStill THEN still \cup {Run.owner} ELSE still \ {Run.owner}
  /\ UNCHANGED <<quit, seen, now, clientVars, fired, late, stopper>>

EndScan ==
  /\ stage = "scanning" /\ Upcoming = None
  /\ Continue(wait_period)
  /\ stage' = "idle" /\ passed' = 0
  /\ UNCHANGED <<quit, runs, seen, now, clientVars, firedVars, late, stopper>>

LoopBody ==
  \/ Quit \/ BeginScan \/ PassDormant \/ PassNotDue \/ Execute
  \/ ExecutorPanics \/ UpdateNextRun \/ EndScan

RunnerThread ==
  \/ /\ WaitUpdate \/ TimeOut \/ Relock
     /\ UNCHANGED <<quit, runs, scanVars, now, clientVars, firedVars, late, stopper>>
  \/ LoopBody

Spurious ==
  SpuriousWake /\ UNCHANGED <<quit, runs, scanVars, now, clientVars, firedVars, late, stopper>>

(* One unit of time. *)
Tick ==
  /\ now < LastInstant \/ TimerRuns
  /\ TimerTick
  /\ now' = IF now < LastInstant THEN now + 1 ELSE now
  /\ late' = IF thread \in {"locked", "top"} /\ late < LastInstant THEN late + 1 ELSE late
  /\ UNCHANGED <<quit, runs, scanVars, clientVars, firedVars, stopper>>

Callers ==
  \/ \E c \in Clients, s \in Schedules, d \in Data : Schedule(c, s, d)
  \/ \E c \in Clients, s \in Schedules : UpdateSchedule(c, s)
  \/ \E c \in Clients, d \in Data : UpdateData(c, d)
  \/ \E c \in Clients : StopGuard(c) \/ Forget(c)
  \/ Drop
  \/ Join

Next == Callers \/ RunnerThread \/ Spurious \/ Tick

Spec == Init /\ [][Next]_vars

(* The operating system runs the runner thread and the thread in join()    *)
(* when they can run, and time passes.  Nobody has to call anything, and   *)
(* spurious wake-ups need not happen.                                      *)
FairSpec == Spec /\ WF_vars(RunnerThread) /\ WF_vars(Join) /\ WF_vars(Tick)
-----------------------------------------------------------------------------
(* Safety. *)

InExecutor == stage = "executing"

Gone == thread \in {"exited", "panicked"}

(* The scheduled runs, by their owners. *)
RunsOf(c) == {i \in OccupiedIndexes(runs) : ElementAt(runs, i).owner = c}

Triggers(s) == {NextRuns[s][t] : t \in Instants}

(* The executor is given the run of client c. *)
Fires(c) == ~InExecutor /\ InExecutor' /\ c = Run.owner

(***************************************************************************)
(* FiresAsAsked: an event is executed only for a client that has a run     *)
(* scheduled, at an instant of the schedule that client asked for last,    *)
(* and not before that instant: nothing fires after ScheduleGuard::stop    *)
(* or on an old schedule after update_schedule has returned, however the   *)
(* calls fall between the scans.                                           *)
(***************************************************************************)
FiresAsAsked ==
  [][\A c \in Clients : Fires(c) =>
       /\ \E s \in asked[c] : fired'[c] \in Triggers(s)
       /\ fired'[c] <= now]_vars

(***************************************************************************)
(* FiresOnce: the instants for which a client's event is executed come in  *)
(* order, whatever changes of schedule lie between them, and none comes    *)
(* again unless the clock still showed that very instant when the next one *)
(* was looked for (update_next_run reads the clock after the executor has  *)
(* returned, which need not be later).                                     *)
(***************************************************************************)
FiresOnce ==
  [][\A c \in Clients : Fires(c) =>
       fired[c] < fired'[c] \/ (fired[c] = fired'[c] /\ c \in still)]_vars

(***************************************************************************)
(* SleepCoversSeen: whatever runs the last scan found not yet due, the     *)
(* thread does not sleep longer than until the first of them, but for the  *)
(* time that passed between the scan's reading of the clock and the start  *)
(* of the wait.                                                            *)
(***************************************************************************)
SleepCoversSeen ==
  thread = "waiting" =>
    \A c \in seen : \A i \in RunsOf(c) :
      timer = 0 \/ timer \in 1 .. ElementAt(runs, i).next_run + late - now

(***************************************************************************)
(* GuardsStayValid: a client that has not stopped or dropped its guard     *)
(* finds its own run through it ("invalid ScheduleGuard index" never comes *)
(* up), the map holds no other runs but those of clients that dropped      *)
(* their guards, and each run has the schedule and the data its client     *)
(* last set.                                                               *)
(***************************************************************************)
GuardsStayValid ==
  /\ ~InsertPanics(runs)
  /\ \A c \in Clients :
       /\ held[c] # None => RunsOf(c) = {held[c]}
       /\ RunsOf(c) # {} => held[c] # None \/ c \in forgotten
       /\ \A i \in RunsOf(c) :
            asked[c] = {ElementAt(runs, i).sched} /\ given[c] = {ElementAt(runs, i).data}
-----------------------------------------------------------------------------
(* The invariants behind those properties. *)

(* The empty entries are in their chain; no client has two runs; one that  *)
(* holds an index finds its run there, and a run nobody holds is one of a  *)
(* client that forgot it; runs have the schedules that were asked for and  *)
(* the data that was given.                                                *)
ChainIntact == \E s \in Seq(Indexes(runs)) : IsChain(runs, s)

HoldersOwn ==
  \A c \in Clients : held[c] # None =>
    held[c] \in OccupiedIndexes(runs) /\ ElementAt(runs, held[c]).owner = c

RunIsKnown(i, r) ==
  /\ held[r.owner] = i \/ (held[r.owner] = None /\ r.owner \in forgotten)
  /\ asked[r.owner] = {r.sched} /\ given[r.owner] = {r.data}
  /\ r.next_run \in Triggers(r.sched)

OneRunEach ==
  \A i, j \in OccupiedIndexes(runs) :
    ElementAt(runs, i).owner = ElementAt(runs, j).owner => i = j

GuardInv ==
  /\ ChainIntact
  /\ HoldersOwn
  /\ \A i \in OccupiedIndexes(runs) : RunIsKnown(i, ElementAt(runs, i))
  /\ OneRunEach

(* The mutex is held all through a scan, and a runner that was dropped     *)
(* begins no other one.                                                    *)
ScanInv ==
  /\ stage = "scanning" => thread \in {"locked", "panicked"}
  /\ InExecutor =>
       thread = "locked" /\ Upcoming # None /\ Run.next_run # Never /\ Run.next_run <= now
  /\ stopper # "idle" =>
       /\ \A c \in Clients : held[c] = None
       /\ thread = "panicked" \/ (quit /\ stage = "idle")

(* What was executed is past, and before what is to come, but for the run  *)
(* that is being executed and where the clock stood still.                 *)
Behind(c, t) ==
  fired[c] < t \/ (fired[c] = t /\ (c \in still \/ (InExecutor /\ Run.owner = c)))

FiredInv ==
  \A c \in Clients :
    /\ Behind(c, now)
    /\ \A i \in RunsOf(c) :
         LET next == ElementAt(runs, i).next_run IN next = Never \/ Behind(c, next)

(* From the scan to the start of the wait the period covers every run the  *)
(* scan has found not yet due.                                             *)
Covers(p, d) == p.kind = "None" \/ (p.kind = "AtMost" /\ p.dur <= d)

TimeLeft(i) == ElementAt(runs, i).next_run + late - now

AtWork == thread = "locked" /\ stage # "idle"

NapInv ==
  /\ now < LastInstant => late <= now
  /\ \A c \in seen : RunsOf(c) # {}
  /\ AtWork => \A c \in seen : \A i \in RunsOf(c) : i <= passed
  /\ AtWork \/ thread = "top" =>
       \A c \in seen : \A i \in RunsOf(c) : Covers(wait_period, TimeLeft(i))
  /\ SleepCoversSeen

RunnerInv == TypeOK /\ GuardInv /\ ScanInv /\ FiredInv /\ NapInv
-----------------------------------------------------------------------------
(* Refinement. *)

DueOf(c) ==
  IF RunsOf(c) = {} THEN Never ELSE (ElementAt(runs, CHOOSE i \in RunsOf(c) : TRUE)).next_run

Promised == INSTANCE Subscriptions
              WITH wants  <- asked,
                   due    <- [c \in Clients |-> DueOf(c)],
                   busy   <- IF InExecutor THEN {Run.owner} ELSE {},
                   closed <- stopper # "idle"

(***************************************************************************)
(* ImplementsSubscriptions: the thread with its scans and its naps, the    *)
(* guards and the map with its reused entries do nothing but what          *)
(* Subscriptions allows.                                                   *)
(***************************************************************************)
ImplementsSubscriptions == Promised!Spec
-----------------------------------------------------------------------------
(* Liveness, under FairSpec. *)

Pending(c, t) == \E i \in RunsOf(c) : ElementAt(runs, i).next_run = t

(***************************************************************************)
(* ScannedRunFires: a run that is in the map when a scan begins is         *)
(* executed, unless its client changes it or takes it out, or the thread   *)
(* ends first.  (One that is scheduled between two waits of the thread may *)
(* never be seen by a scan: StopReturns of SectionRunner has the reason.)  *)
(***************************************************************************)
ScannedRunFires ==
  \A c \in Clients, t \in Instants :
    stage = "scanning" /\ passed = 0 /\ Pending(c, t) ~> ~Pending(c, t) \/ Gone
-----------------------------------------------------------------------------
(* What the documentation says and the code does not do. *)

(***************************************************************************)
(* DormantRunsAreOver: a Yearly bound is "a bound that repeats every       *)
(* year": a run is set aside, its next_run None, only while its schedule   *)
(* has no run to come.                                                     *)
(***************************************************************************)
DormantRunsAreOver ==
  \A i \in OccupiedIndexes(runs) :
    ElementAt(runs, i).next_run = Never => NextRun(ElementAt(runs, i).sched) = Never
=============================================================================
