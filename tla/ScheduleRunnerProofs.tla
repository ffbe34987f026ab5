------------------------ MODULE ScheduleRunnerProofs ------------------------
(***************************************************************************)
(* Proofs about ScheduleRunner, for any clients, any schedules and any     *)
(* answers of theirs, and any end of the clock.                            *)
(***************************************************************************)
EXTENDS ScheduleRunner, IndexMapFacts, RunnerFacts

(* What the fields of a scheduled run are. *)
LEMMA RunFields ==
  ASSUME TypeOK, NEW i \in OccupiedIndexes(runs)
  PROVE  /\ ElementAt(runs, i) \in SchedRun
         /\ ElementAt(runs, i).owner \in Clients
         /\ ElementAt(runs, i).sched \in Schedules
         /\ ElementAt(runs, i).data \in Data
         /\ ElementAt(runs, i).next_run \in Instants \cup {Never}
         /\ i \in Indexes(runs)
         /\ i \in Nat
<1>1. ElementAt(runs, i) \in SchedRun
  BY MapFields DEF TypeOK
<1>2. i \in Indexes(runs) /\ i \in Nat
  BY DEF OccupiedIndexes, Indexes
<1> QED BY <1>1, <1>2 DEF SchedRun

(* The entry the iterator comes to holds a run. *)
LEMMA UpcomingRun ==
  ASSUME TypeOK
  PROVE  /\ Upcoming # None =>
              /\ Upcoming \in OccupiedIndexes(runs)
              /\ Upcoming \in 0 .. Len(runs.entries)
              /\ Upcoming > passed
              /\ Run \in SchedRun
              /\ Run.owner \in Clients
              /\ Run.sched \in Schedules
              /\ Run.next_run \in Instants \cup {Never}
         /\ passed \in Nat
<1>1. runs \in Maps(SchedRun) /\ passed \in Nat
  BY MapFields DEF TypeOK
<1>2. Upcoming # None => Upcoming \in OccupiedIndexes(runs) /\ Upcoming > passed
  BY <1>1, NextIndexIsNext DEF Upcoming
<1>3. \A i \in OccupiedIndexes(runs) : i \in 0 .. Len(runs.entries)
  BY DEF OccupiedIndexes, Indexes
<1> QED BY <1>1, <1>2, <1>3, RunFields DEF Run

(* What a schedule answers. *)
LEMMA AnswerIsAhead ==
  ASSUME TypeOK, NEW s \in Schedules
  PROVE  /\ NextRun(s) \in Instants \cup {Never}
         /\ NextRun(s) \in Triggers(s)
         /\ NextRun(s) # Never => NextRun(s) >= now /\ NextRun(s) < LastInstant
BY ScheduleRunnerAssumption DEF TypeOK, NextRun, Triggers

(* Instants and None. *)
LEMMA InstantsAreNumbers ==
  ASSUME TypeOK
  PROVE  /\ LastInstant \in Nat
         /\ \A t \in Instants : t \in Nat /\ t <= LastInstant /\ t # Never
         /\ Instants \subseteq Nat
         /\ now \in Instants /\ now \in Nat /\ now <= LastInstant
         /\ late \in Instants /\ late \in Nat /\ late <= LastInstant
         /\ Never \in Int
BY ScheduleRunnerAssumption DEF TypeOK, Instants, Never
-----------------------------------------------------------------------------
(* What the steps do to the runs.                                          *)

(* The entries that hold a run, but for those in X, are the same. *)
KeepsRuns(X) ==
  \A i : i \notin X =>
    /\ i \in OccupiedIndexes(runs) <=> i \in OccupiedIndexes(runs)'
    /\ i \in OccupiedIndexes(runs) => ElementAt(runs', i) = ElementAt(runs, i)

(* A client that asks for its first run has none. *)
LEMMA NoRunYet ==
  ASSUME TypeOK, GuardInv, NEW c \in Clients, held[c] = None, c \notin forgotten
  PROVE  RunsOf(c) = {}
<1> SUFFICES ASSUME NEW i \in RunsOf(c) PROVE FALSE
  OBVIOUS
<1>1. i \in OccupiedIndexes(runs) /\ ElementAt(runs, i).owner = c /\ i # None
  BY DEF RunsOf, OccupiedIndexes, Indexes, None
<1>2. RunIsKnown(i, ElementAt(runs, i))
  BY <1>1 DEF GuardInv
<1> QED BY <1>1, <1>2 DEF RunIsKnown

(* insert() *)
LEMMA InsertKeepsRuns ==
  ASSUME TypeOK, ChainIntact, NEW r \in SchedRun, runs' = Insert(runs, r)
  PROVE  LET i == InsertIndex(runs) IN
         /\ runs' \in Maps(SchedRun)
         /\ Len(runs'.entries) \in Nat /\ Len(runs'.entries) >= Len(runs.entries)
         /\ Indexes(runs)' = Indexes(runs) \cup {i}
         /\ i # None
         /\ i \notin OccupiedIndexes(runs)
         /\ i \in OccupiedIndexes(runs)'
         /\ ElementAt(runs', i) = r
         /\ KeepsRuns({i})
         /\ ChainIntact'
<1> DEFINE i == InsertIndex(runs)
<1>1. runs \in Maps(SchedRun)
  BY DEF TypeOK
<1>2. PICK s \in Seq(Indexes(runs)) : IsChain(runs, s)
  BY DEF ChainIntact
<1>3. /\ runs' \in Maps(SchedRun)
      /\ Len(runs'.entries) \in Nat /\ Len(runs'.entries) >= Len(runs.entries)
      /\ i \notin OccupiedIndexes(runs) /\ i # None
      /\ Indexes(runs') = Indexes(runs) \cup {i}
      /\ OccupiedIndexes(runs') = OccupiedIndexes(runs) \cup {i}
      /\ ElementAt(runs', i) = r
      /\ \A j \in Indexes(runs) \ {i} : runs'.entries[j] = runs.entries[j]
  BY <1>1, <1>2, InsertElementAt
<1>4. \E t \in Seq(Indexes(runs')) : IsChain(runs', t)
  BY <1>1, <1>2, ChainAfterInsert
<1> HIDE DEF i
<1>5. KeepsRuns({i})
  BY <1>3 DEF KeepsRuns, OccupiedIndexes, ElementAt
<1> QED BY <1>3, <1>4, <1>5 DEF ChainIntact, i

(* remove() *)
LEMMA RemoveKeepsRuns ==
  ASSUME TypeOK, ChainIntact, NEW i \in OccupiedIndexes(runs), runs' = Remove(runs, i)
  PROVE  /\ runs' \in Maps(SchedRun)
         /\ Len(runs'.entries) = Len(runs.entries)
         /\ Indexes(runs)' = Indexes(runs)
         /\ i \notin OccupiedIndexes(runs)'
         /\ KeepsRuns({i})
         /\ ChainIntact'
<1>1. runs \in Maps(SchedRun)
  BY DEF TypeOK
<1>2. PICK s \in Seq(Indexes(runs)) : IsChain(runs, s)
  BY DEF ChainIntact
<1>3. /\ runs' \in Maps(SchedRun)
      /\ Len(runs'.entries) = Len(runs.entries)
      /\ Indexes(runs') = Indexes(runs)
      /\ OccupiedIndexes(runs') = OccupiedIndexes(runs) \ {i}
      /\ \A j \in Indexes(runs) \ {i} : runs'.entries[j] = runs.entries[j]
  BY <1>1, RemoveElementAt
<1>4. \E t \in Seq(Indexes(runs')) : IsChain(runs', t)
  BY <1>1, <1>2, ChainAfterRemove
<1>5. KeepsRuns({i})
  BY <1>3 DEF KeepsRuns, OccupiedIndexes, ElementAt
<1> QED BY <1>3, <1>4, <1>5 DEF ChainIntact

(* An assignment through index_mut() *)
LEMMA AssignKeepsRuns ==
  ASSUME TypeOK, ChainIntact, NEW i \in OccupiedIndexes(runs), NEW r \in SchedRun,
         runs' = Assign(runs, i, r)
  PROVE  /\ runs' \in Maps(SchedRun)
         /\ Len(runs'.entries) = Len(runs.entries)
         /\ Indexes(runs)' = Indexes(runs)
         /\ OccupiedIndexes(runs)' = OccupiedIndexes(runs)
         /\ ElementAt(runs', i) = r
         /\ KeepsRuns({i})
         /\ ChainIntact'
<1>1. runs \in Maps(SchedRun)
  BY DEF TypeOK
<1>2. PICK s \in Seq(Indexes(runs)) : IsChain(runs, s)
  BY DEF ChainIntact
<1>3. /\ runs' \in Maps(SchedRun)
      /\ Len(runs'.entries) = Len(runs.entries)
      /\ Indexes(runs') = Indexes(runs)
      /\ OccupiedIndexes(runs') = OccupiedIndexes(runs)
      /\ ElementAt(runs', i) = r
      /\ \A j \in Indexes(runs) \ {i} : runs'.entries[j] = runs.entries[j]
      /\ IsChain(runs', s)
  BY <1>1, <1>2, AssignElementAt
<1>4. KeepsRuns({i})
  BY <1>3 DEF KeepsRuns, OccupiedIndexes, ElementAt
<1> QED BY <1>2, <1>3, <1>4 DEF ChainIntact

(* The run a client finds through its guard is its own and its only one. *)
LEMMA HeldRun ==
  ASSUME TypeOK, GuardInv, NEW c \in Clients, held[c] # None
  PROVE  /\ held[c] \in OccupiedIndexes(runs)
         /\ ElementAt(runs, held[c]).owner = c
         /\ RunsOf(c) = {held[c]}
<1>1. held[c] \in OccupiedIndexes(runs) /\ ElementAt(runs, held[c]).owner = c
  BY DEF GuardInv, HoldersOwn
<1>2. \A i \in RunsOf(c) : i = held[c]
  BY <1>1 DEF GuardInv, OneRunEach, RunsOf
<1> QED BY <1>1, <1>2 DEF RunsOf

(* Nobody but the runner itself changes anything while it is at work. *)
LEMMA UpdateFindsItIdle ==
  ASSUME TypeOK, ScanInv, Update
  PROVE  /\ stage = "idle" /\ ~InExecutor /\ ~AtWork
         /\ thread \in {"top", "waiting", "woken", "exited"}
         /\ thread' \in {"top", "woken", "exited"}
         /\ thread' = "top" => thread = "top"
         /\ wait_period' = wait_period
BY DEF TypeOK, RunnerTypeOK, Places, ScanInv, InExecutor, AtWork, Update, NotifyOne,
       LockFree, Poisoned

(* Schedule: a new run, of a client that had none. *)
LEMMA ScheduleRuns ==
  ASSUME TypeOK, GuardInv, NEW c \in Clients, NEW s \in Schedules, NEW d \in Data,
         Schedule(c, s, d)
  PROVE  LET i == held'[c] IN
         /\ runs' \in Maps(SchedRun)
         /\ Len(runs'.entries) \in Nat /\ Len(runs'.entries) >= Len(runs.entries)
         /\ Indexes(runs)' = Indexes(runs) \cup {i}
         /\ i # None
         /\ i \notin OccupiedIndexes(runs)
         /\ i \in OccupiedIndexes(runs)'
         /\ ElementAt(runs', i) = [owner |-> c, sched |-> s, data |-> d, next_run |-> NextRun(s)]
         /\ KeepsRuns({i})
         /\ ChainIntact'
         /\ held' = [held EXCEPT ![c] = i]
<1>1. [owner |-> c, sched |-> s, data |-> d, next_run |-> NextRun(s)] \in SchedRun
  BY AnswerIsAhead DEF SchedRun
<1>2. held'[c] = InsertIndex(runs)
  BY DEF Schedule, TypeOK
<1>3. runs' = Insert(runs, [owner |-> c, sched |-> s, data |-> d, next_run |-> NextRun(s)])
      /\ held' = [held EXCEPT ![c] = InsertIndex(runs)]
  BY DEF Schedule
<1> QED BY <1>1, <1>2, <1>3, InsertKeepsRuns DEF GuardInv

(* update_schedule() and update_data(): one run is another one. *)
LEMMA UpdateScheduleRuns ==
  ASSUME TypeOK, GuardInv, NEW c \in Clients, NEW s \in Schedules, UpdateSchedule(c, s)
  PROVE  LET i == held[c] IN
         /\ runs' \in Maps(SchedRun)
         /\ Len(runs'.entries) = Len(runs.entries)
         /\ Indexes(runs)' = Indexes(runs)
         /\ OccupiedIndexes(runs)' = OccupiedIndexes(runs)
         /\ ElementAt(runs', i) = Rescheduled(ElementAt(runs, i), s)
         /\ ElementAt(runs', i).owner = c
         /\ ElementAt(runs', i).sched = s
         /\ ElementAt(runs', i).data = ElementAt(runs, i).data
         /\ ElementAt(runs', i).next_run = NextRun(s)
         /\ KeepsRuns({i})
         /\ ChainIntact'
<1> DEFINE r == ElementAt(runs, held[c])
<1>1. held[c] \in OccupiedIndexes(runs) /\ r \in SchedRun /\ r.owner = c
  BY HeldRun, RunFields DEF UpdateSchedule
<1> HIDE DEF r
<1>2. /\ Rescheduled(r, s) \in SchedRun
      /\ Rescheduled(r, s).owner = c
      /\ Rescheduled(r, s).sched = s
      /\ Rescheduled(r, s).data = r.data
      /\ Rescheduled(r, s).next_run = NextRun(s)
  BY <1>1, AnswerIsAhead DEF Rescheduled, SchedRun
<1>3. runs' = Assign(runs, held[c], Rescheduled(r, s))
  BY DEF UpdateSchedule, r
<1> QED BY <1>1, <1>2, <1>3, AssignKeepsRuns DEF GuardInv, r

LEMMA UpdateDataRuns ==
  ASSUME TypeOK, GuardInv, NEW c \in Clients, NEW d \in Data, UpdateData(c, d)
  PROVE  LET i == held[c] IN
         /\ runs' \in Maps(SchedRun)
         /\ Len(runs'.entries) = Len(runs.entries)
         /\ Indexes(runs)' = Indexes(runs)
         /\ OccupiedIndexes(runs)' = OccupiedIndexes(runs)
         /\ ElementAt(runs', i).owner = c
         /\ ElementAt(runs', i).sched = ElementAt(runs, i).sched
         /\ ElementAt(runs', i).data = d
         /\ ElementAt(runs', i).next_run = ElementAt(runs, i).next_run
         /\ KeepsRuns({i})
         /\ ChainIntact'
<1> DEFINE r == ElementAt(runs, held[c])
           q == GivenData(r, d)
<1>1. held[c] \in OccupiedIndexes(runs) /\ r \in SchedRun /\ r.owner = c
  BY HeldRun, RunFields DEF UpdateData
<1> HIDE DEF r
<1>2. /\ q \in SchedRun /\ q.owner = c /\ q.data = d
      /\ q.sched = r.sched /\ q.next_run = r.next_run
  BY <1>1 DEF GivenData, SchedRun
<1>3. runs' = Assign(runs, held[c], q)
  BY DEF UpdateData, r
<1> HIDE DEF q
<1> QED BY <1>1, <1>2, <1>3, AssignKeepsRuns DEF GuardInv, r

(* ScheduleGuard::stop: one run less. *)
LEMMA StopGuardRuns ==
  ASSUME TypeOK, GuardInv, NEW c \in Clients, StopGuard(c)
  PROVE  LET i == held[c] IN
         /\ runs' \in Maps(SchedRun)
         /\ Len(runs'.entries) = Len(runs.entries)
         /\ Indexes(runs)' = Indexes(runs)
         /\ i \notin OccupiedIndexes(runs)'
         /\ KeepsRuns({i})
         /\ ChainIntact'
<1>1. held[c] \in OccupiedIndexes(runs) /\ runs' = Remove(runs, held[c])
  BY HeldRun DEF StopGuard
<1> QED BY <1>1, RemoveKeepsRuns DEF GuardInv

(* The run that was executed gets its next instant. *)
LEMMA UpdateNextRunRuns ==
  ASSUME TypeOK, GuardInv, ScanInv, UpdateNextRun
  PROVE  LET i == Upcoming IN
         /\ i \in OccupiedIndexes(runs)
         /\ runs' \in Maps(SchedRun)
         /\ Len(runs'.entries) = Len(runs.entries)
         /\ Indexes(runs)' = Indexes(runs)
         /\ OccupiedIndexes(runs)' = OccupiedIndexes(runs)
         /\ ElementAt(runs', i).owner = Run.owner
         /\ ElementAt(runs', i).sched = Run.sched
         /\ ElementAt(runs', i).data = Run.data
         /\ ElementAt(runs', i).next_run = NextRun(Run.sched)
         /\ KeepsRuns({i})
         /\ ChainIntact'
<1> DEFINE i == Upcoming
           r == Run
           q == [r EXCEPT !.next_run = NextRunFromNow(r)]
<1>1. i # None
  BY DEF UpdateNextRun, ScanInv, InExecutor
<1>2. i \in OccupiedIndexes(runs) /\ r \in SchedRun /\ r.sched \in Schedules
  BY <1>1, UpcomingRun
<1> HIDE DEF r
<1>3. /\ q \in SchedRun /\ q.owner = r.owner
      /\ q.sched = r.sched /\ q.data = r.data /\ q.next_run = NextRun(r.sched)
  BY <1>2, AnswerIsAhead DEF SchedRun, NextRunFromNow
<1>4. runs' = Assign(runs, i, q)
  BY DEF UpdateNextRun, r
<1> HIDE DEF q, i
<1>5. /\ runs' \in Maps(SchedRun)
      /\ Len(runs'.entries) = Len(runs.entries)
      /\ Indexes(runs)' = Indexes(runs)
      /\ OccupiedIndexes(runs)' = OccupiedIndexes(runs)
      /\ ElementAt(runs', i) = q
      /\ KeepsRuns({i})
      /\ ChainIntact'
  BY <1>2, <1>3, <1>4, AssignKeepsRuns DEF GuardInv
<1> QED BY <1>2, <1>3, <1>5 DEF r, i
-----------------------------------------------------------------------------
(* No step takes a variable out of its type. *)
LEMMA StepKeepsTypes == TypeOK /\ GuardInv /\ ScanInv /\ [Next]_vars => TypeOK'
<1> SUFFICES ASSUME TypeOK, GuardInv, ScanInv, [Next]_vars PROVE TypeOK'
  OBVIOUS
<1> USE RunnerTypes, InstantsAreNumbers
<1>1. ASSUME NEW c \in Clients, NEW s \in Schedules, NEW d \in Data, Schedule(c, s, d)
      PROVE  TypeOK'
  <2>1. /\ runs' \in Maps(SchedRun)
        /\ Len(runs'.entries) \in Nat /\ Len(runs'.entries) >= Len(runs.entries)
        /\ Indexes(runs)' = Indexes(runs) \cup {held'[c]}
        /\ held' = [held EXCEPT ![c] = held'[c]]
    BY <1>1, ScheduleRuns
  <2>2. held' \in [Clients -> {None} \cup Indexes(runs)']
    BY <2>1 DEF TypeOK
  <2>3. passed' \in 0 .. Len(runs'.entries)
    BY <1>1, <2>1, UpcomingRun, MapFields DEF Schedule, scanVars, TypeOK
  <2>4. RunnerTypeOK'
    BY <1>1 DEF Schedule, Update, TypeOK
  <2> QED BY <1>1, <2>1, <2>2, <2>3, <2>4 DEF Schedule, scanVars, firedVars, TypeOK
<1>2. ASSUME NEW c \in Clients, NEW s \in Schedules, UpdateSchedule(c, s)
      PROVE  TypeOK'
  <2>1. /\ runs' \in Maps(SchedRun)
        /\ Len(runs'.entries) = Len(runs.entries)
        /\ Indexes(runs)' = Indexes(runs)
    BY <1>2, UpdateScheduleRuns
  <2>2. RunnerTypeOK'
    BY <1>2 DEF UpdateSchedule, Update, TypeOK
  <2> QED BY <1>2, <2>1, <2>2 DEF UpdateSchedule, firedVars, TypeOK
<1>3. ASSUME NEW c \in Clients, NEW d \in Data, UpdateData(c, d)
      PROVE  TypeOK'
  <2>1. /\ runs' \in Maps(SchedRun)
        /\ Len(runs'.entries) = Len(runs.entries)
        /\ Indexes(runs)' = Indexes(runs)
    BY <1>3, UpdateDataRuns
  <2>2. RunnerTypeOK'
    BY <1>3 DEF UpdateData, Update, TypeOK
  <2> QED BY <1>3, <2>1, <2>2 DEF UpdateData, scanVars, clientVars, firedVars, TypeOK
<1>4. ASSUME NEW c \in Clients, StopGuard(c)
      PROVE  TypeOK'
  <2>1. /\ runs' \in Maps(SchedRun)
        /\ Len(runs'.entries) = Len(runs.entries)
        /\ Indexes(runs)' = Indexes(runs)
    BY <1>4, StopGuardRuns
  <2>2. RunnerTypeOK'
    BY <1>4 DEF StopGuard, Update, TypeOK
  <2> QED BY <1>4, <2>1, <2>2 DEF StopGuard, firedVars, TypeOK
<1>5. ASSUME NEW c \in Clients, Forget(c)
      PROVE  TypeOK'
  <2>1. held' \in [Clients -> {None} \cup Indexes(runs)']
    BY <1>5 DEF Forget, TypeOK
  <2>2. RunnerTypeOK'
    BY <1>5 DEF Forget, TypeOK
  <2> QED BY <1>5, <2>1, <2>2 DEF Forget, scanVars, firedVars, TypeOK
<1>6. CASE Drop
  BY <1>6 DEF Drop, Update, scanVars, clientVars, firedVars, TypeOK
<1>7. CASE Join
  BY <1>7 DEF Join, scanVars, clientVars, firedVars, TypeOK
<1>8. CASE (WaitUpdate \/ TimeOut \/ Relock)
           /\ UNCHANGED <<quit, runs, scanVars, now, clientVars, firedVars, late, stopper>>
  BY <1>8 DEF TimeOut, scanVars, clientVars, firedVars, TypeOK
<1>9. CASE Quit
  BY <1>9 DEF Quit, scanVars, clientVars, firedVars, TypeOK
<1>10. CASE BeginScan
  <2>1. passed' \in 0 .. Len(runs.entries)
    BY <1>10, MapFields DEF BeginScan, TypeOK
  <2> QED BY <1>10, <2>1, PeriodsAreTyped DEF BeginScan, clientVars, firedVars, TypeOK, Instants
<1>11. CASE PassDormant
  BY <1>11, UpcomingRun DEF PassDormant, AtEntry, clientVars, firedVars, TypeOK, RunnerTypeOK
<1>12. CASE PassNotDue
  <2>1. /\ Upcoming \in 0 .. Len(runs.entries) /\ Run.owner \in Clients
        /\ Run.next_run - now \in Nat
    BY <1>12, UpcomingRun DEF PassNotDue, AtEntry, Never
  <2>2. MinPeriod(wait_period, AtMost(Run.next_run - now)) \in WaitPeriods
    BY <2>1, PeriodsAreTyped, MinIsShortest DEF TypeOK, RunnerTypeOK
  <2> QED BY <1>12, <2>1, <2>2 DEF PassNotDue, clientVars, firedVars, TypeOK
<1>13. CASE Execute
  <2>1. Run.owner \in Clients /\ Run.next_run \in Instants
    BY <1>13, UpcomingRun DEF Execute, Due, AtEntry
  <2>2. fired' \in [Clients -> Instants \cup {Never}]
    BY <1>13, <2>1 DEF Execute, TypeOK
  <2> QED BY <1>13, <2>2 DEF Execute, clientVars, TypeOK, RunnerTypeOK
<1>14. CASE ExecutorPanics
  BY <1>14 DEF ExecutorPanics, scanVars, clientVars, firedVars, TypeOK
<1>15. CASE UpdateNextRun
  <2>1. /\ runs' \in Maps(SchedRun)
        /\ Len(runs'.entries) = Len(runs.entries)
        /\ Indexes(runs)' = Indexes(runs)
        /\ Upcoming \in 0 .. Len(runs.entries)
    BY <1>15, UpdateNextRunRuns DEF OccupiedIndexes, Indexes
  <2>2. still' \in SUBSET Clients
    BY <1>15, UpcomingRun DEF UpdateNextRun, ScanInv, InExecutor, TypeOK
  <2> QED BY <1>15, <2>1, <2>2, PeriodsAreTyped DEF UpdateNextRun, clientVars, TypeOK
<1>16. CASE EndScan
  <2>1. passed' \in 0 .. Len(runs.entries)
    BY <1>16, MapFields DEF EndScan, TypeOK
  <2> QED BY <1>16, <2>1 DEF EndScan, clientVars, firedVars, TypeOK, RunnerTypeOK
<1>17. CASE Spurious
  BY <1>17 DEF Spurious, SpuriousWake, scanVars, clientVars, firedVars, TypeOK
<1>18. CASE Tick
  <2>1. now' \in Instants /\ late' \in Instants
    BY <1>18 DEF Tick, Instants
  <2> QED BY <1>18, <2>1 DEF Tick, scanVars, clientVars, firedVars, TypeOK
<1>19. CASE UNCHANGED vars
  BY <1>19 DEF vars, scanVars, clientVars, firedVars, TypeOK
<1> QED
  BY <1>1, <1>2, <1>3, <1>4, <1>5, <1>6, <1>7, <1>8, <1>9, <1>10, <1>11, <1>12, <1>13, <1>14,
     <1>15, <1>16, <1>17, <1>18, <1>19
  DEF Next, Callers, RunnerThread, LoopBody
-----------------------------------------------------------------------------
(* The guards.                                                             *)

(* A step that neither touches a run nor a guard. *)
LEMMA GuardsUntouched ==
  ASSUME GuardInv, UNCHANGED <<runs, clientVars>>
  PROVE  GuardInv'
BY DEF clientVars, GuardInv, ChainIntact, HoldersOwn, RunIsKnown, OneRunEach

(* A step that gives client c the run r at index i, new or in place of the *)
(* one it had, and leaves the other runs alone.                            *)
LEMMA GuardsAfterRunOf ==
  ASSUME GuardInv, ChainIntact', NEW c \in Clients, NEW i,
         KeepsRuns({i}), i \in OccupiedIndexes(runs)', 
         \A j \in RunsOf(c) : j = i,
         i \in OccupiedIndexes(runs) => ElementAt(runs, i).owner = c,
         ElementAt(runs', i).owner = c,
         RunIsKnown(i, ElementAt(runs, i))',
         \A b \in Clients \ {c} :
           held'[b] = held[b] /\ asked'[b] = asked[b] /\ given'[b] = given[b],
         held'[c] = i \/ held'[c] = None,
         forgotten' = forgotten,
         TypeOK
  PROVE  GuardInv'
<1>1. ASSUME NEW j \in OccupiedIndexes(runs)', j # i
      PROVE  /\ j \in OccupiedIndexes(runs)
             /\ ElementAt(runs', j) = ElementAt(runs, j)
             /\ ElementAt(runs, j).owner \in Clients \ {c}
  <2>1. j \in OccupiedIndexes(runs) /\ ElementAt(runs', j) = ElementAt(runs, j)
    BY <1>1 DEF KeepsRuns
  <2> QED BY <2>1, <1>1, RunFields DEF RunsOf
<1>2. HoldersOwn'
  <2> SUFFICES ASSUME NEW b \in Clients, held'[b] # None
               PROVE  held'[b] \in OccupiedIndexes(runs)' /\ ElementAt(runs', held'[b]).owner = b
    BY DEF HoldersOwn
  <2>1. CASE b = c
    BY <2>1
  <2>2. CASE b # c
    <3>1. /\ held'[b] = held[b]
          /\ held[b] \in OccupiedIndexes(runs) /\ ElementAt(runs, held[b]).owner = b
      BY <2>2 DEF GuardInv, HoldersOwn
    <3>2. held[b] # i
      BY <2>2, <3>1
    <3> QED BY <3>1, <3>2 DEF KeepsRuns
  <2> QED BY <2>1, <2>2
<1>3. ASSUME NEW j \in OccupiedIndexes(runs)'
      PROVE  RunIsKnown(j, ElementAt(runs, j))'
  <2>1. CASE j = i
    BY <2>1
  <2>2. CASE j # i
    <3>1. RunIsKnown(j, ElementAt(runs, j))
      BY <1>1, <2>2 DEF GuardInv
    <3> QED BY <1>1, <2>2, <3>1 DEF RunIsKnown
  <2> QED BY <2>1, <2>2
<1>4. OneRunEach'
  <2> SUFFICES ASSUME NEW j \in OccupiedIndexes(runs)', NEW k \in OccupiedIndexes(runs)',
                      ElementAt(runs', j).owner = ElementAt(runs', k).owner
               PROVE  j = k
    BY DEF OneRunEach
  <2>1. CASE j = i \/ k = i
    BY <2>1, <1>1
  <2>2. CASE j # i /\ k # i
    BY <2>2, <1>1 DEF GuardInv, OneRunEach
  <2> QED BY <2>1, <2>2
<1> QED BY <1>2, <1>3, <1>4 DEF GuardInv

LEMMA StepKeepsGuards == TypeOK /\ GuardInv /\ ScanInv /\ [Next]_vars => GuardInv'
<1> SUFFICES ASSUME TypeOK, GuardInv, ScanInv, [Next]_vars PROVE GuardInv'
  OBVIOUS
<1>1. ASSUME NEW c \in Clients, NEW s \in Schedules, NEW d \in Data, Schedule(c, s, d)
      PROVE  GuardInv'
  <2>0. PICK i : i = held'[c]
    OBVIOUS
  <2>1. RunsOf(c) = {}
    BY <1>1, NoRunYet DEF Schedule
  <2>2. /\ i \notin OccupiedIndexes(runs) /\ i \in OccupiedIndexes(runs)'
        /\ ElementAt(runs', i) = [owner |-> c, sched |-> s, data |-> d, next_run |-> NextRun(s)]
        /\ KeepsRuns({i}) /\ ChainIntact'
    BY <2>0, <1>1, ScheduleRuns
  <2>3. /\ \A b \in Clients \ {c} :
             held'[b] = held[b] /\ asked'[b] = asked[b] /\ given'[b] = given[b]
        /\ asked'[c] = {s} /\ given'[c] = {d}
        /\ forgotten' = forgotten
    BY <1>1 DEF Schedule, TypeOK
  <2>4. RunIsKnown(i, ElementAt(runs, i))'
    BY <2>0, <2>2, <2>3, AnswerIsAhead DEF RunIsKnown
  <2> QED BY <2>0, <2>1, <2>2, <2>3, <2>4, GuardsAfterRunOf
<1>2. ASSUME NEW c \in Clients, NEW s \in Schedules, UpdateSchedule(c, s)
      PROVE  GuardInv'
  <2>0. PICK i : i = held[c]
    OBVIOUS
  <2>1. /\ i \in OccupiedIndexes(runs) /\ ElementAt(runs, i).owner = c /\ RunsOf(c) = {i}
    BY <2>0, <1>2, HeldRun DEF UpdateSchedule
  <2>2. /\ i \in OccupiedIndexes(runs)'
        /\ ElementAt(runs', i).owner = c
        /\ ElementAt(runs', i).sched = s
        /\ ElementAt(runs', i).data = ElementAt(runs, i).data
        /\ ElementAt(runs', i).next_run = NextRun(s)
        /\ KeepsRuns({i}) /\ ChainIntact'
    BY <2>0, <1>2, <2>1, UpdateScheduleRuns
  <2>3. /\ held' = held /\ given' = given
        /\ \A b \in Clients \ {c} : asked'[b] = asked[b]
        /\ asked'[c] = {s}
        /\ forgotten' = forgotten
    BY <1>2 DEF UpdateSchedule, TypeOK
  <2>4. RunIsKnown(i, ElementAt(runs, i))'
    <3>1. given[c] = {ElementAt(runs, i).data}
      BY <2>1 DEF GuardInv, RunIsKnown
    <3> QED BY <3>1, <2>0, <2>2, <2>3, AnswerIsAhead DEF RunIsKnown
  <2> QED BY <2>0, <2>1, <2>2, <2>3, <2>4, GuardsAfterRunOf
<1>3. ASSUME NEW c \in Clients, NEW d \in Data, UpdateData(c, d)
      PROVE  GuardInv'
  <2>0. PICK i : i = held[c]
    OBVIOUS
  <2>1. /\ i \in OccupiedIndexes(runs) /\ ElementAt(runs, i).owner = c /\ RunsOf(c) = {i}
    BY <2>0, <1>3, HeldRun DEF UpdateData
  <2>2. /\ i \in OccupiedIndexes(runs)'
        /\ ElementAt(runs', i).owner = c
        /\ ElementAt(runs', i).sched = ElementAt(runs, i).sched
        /\ ElementAt(runs', i).data = d
        /\ ElementAt(runs', i).next_run = ElementAt(runs, i).next_run
        /\ KeepsRuns({i}) /\ ChainIntact'
    BY <2>0, <1>3, <2>1, UpdateDataRuns
  <2>3. /\ held' = held /\ asked' = asked /\ forgotten' = forgotten
        /\ \A b \in Clients \ {c} : given'[b] = given[b]
        /\ given'[c] = {d}
    BY <1>3 DEF UpdateData, TypeOK
  <2>4. RunIsKnown(i, ElementAt(runs, i))'
    <3>1. RunIsKnown(i, ElementAt(runs, i))
      BY <2>1 DEF GuardInv
    <3> QED BY <2>1, <2>2, <2>3, <3>1 DEF RunIsKnown
  <2> QED BY <2>0, <2>1, <2>2, <2>3, <2>4, GuardsAfterRunOf
<1>4. ASSUME NEW c \in Clients, StopGuard(c)
      PROVE  GuardInv'
  <2>0. PICK i : i = held[c]
    OBVIOUS
  <2>1. i \in OccupiedIndexes(runs) /\ ElementAt(runs, i).owner = c /\ RunsOf(c) = {i}
    BY <2>0, <1>4, HeldRun DEF StopGuard
  <2>2. i \notin OccupiedIndexes(runs)' /\ KeepsRuns({i}) /\ ChainIntact'
    BY <2>0, <1>4, StopGuardRuns
  <2>3. /\ \A b \in Clients \ {c} :
             held'[b] = held[b] /\ asked'[b] = asked[b] /\ given'[b] = given[b]
        /\ held'[c] = None
        /\ forgotten' = forgotten
    BY <1>4 DEF StopGuard, TypeOK
  <2>4. ASSUME NEW j \in OccupiedIndexes(runs)'
        PROVE  /\ j \in OccupiedIndexes(runs)
               /\ ElementAt(runs', j) = ElementAt(runs, j)
               /\ ElementAt(runs, j).owner \in Clients \ {c}
    <3>1. j # i /\ j \in OccupiedIndexes(runs) /\ ElementAt(runs', j) = ElementAt(runs, j)
      BY <2>2 DEF KeepsRuns
    <3> QED BY <3>1, <2>1, RunFields DEF RunsOf
  <2>5. HoldersOwn'
    BY <2>0, <2>1, <2>2, <2>3 DEF GuardInv, HoldersOwn, KeepsRuns
  <2>6. \A j \in OccupiedIndexes(runs)' : RunIsKnown(j, ElementAt(runs, j))'
    BY <2>3, <2>4 DEF GuardInv, RunIsKnown
  <2>7. OneRunEach'
    BY <2>4 DEF GuardInv, OneRunEach
  <2> QED BY <2>2, <2>5, <2>6, <2>7 DEF GuardInv
<1>5. ASSUME NEW c \in Clients, Forget(c)
      PROVE  GuardInv'
  <2>1. /\ \A b \in Clients \ {c} : held'[b] = held[b]
        /\ held'[c] = None
        /\ forgotten' = forgotten \cup {c}
        /\ asked' = asked /\ given' = given /\ runs' = runs
    BY <1>5 DEF Forget, TypeOK
  <2>2. HoldersOwn'
    BY <2>1 DEF GuardInv, HoldersOwn
  <2>3. ASSUME NEW j \in OccupiedIndexes(runs)
        PROVE  RunIsKnown(j, ElementAt(runs, j))'
    <3>1. RunIsKnown(j, ElementAt(runs, j)) /\ ElementAt(runs, j).owner \in Clients
      BY RunFields DEF GuardInv
    <3> QED BY <2>1, <3>1 DEF RunIsKnown
  <2> QED BY <2>1, <2>2, <2>3 DEF GuardInv, ChainIntact, OneRunEach
<1>6. CASE UpdateNextRun
  <2>0. PICK i, c : i = Upcoming /\ c = Run.owner
    OBVIOUS
  <2>1. i \in OccupiedIndexes(runs) /\ ElementAt(runs, i).owner = c /\ c \in Clients
    BY <2>0, <1>6, UpdateNextRunRuns, UpcomingRun, RunFields DEF Run
  <2>2. /\ i \in OccupiedIndexes(runs)'
        /\ ElementAt(runs', i).owner = c
        /\ ElementAt(runs', i).sched = Run.sched
        /\ ElementAt(runs', i).data = Run.data
        /\ ElementAt(runs', i).next_run = NextRun(Run.sched)
        /\ KeepsRuns({i}) /\ ChainIntact'
    BY <2>0, <1>6, UpdateNextRunRuns
  <2>3. held' = held /\ asked' = asked /\ given' = given /\ forgotten' = forgotten
    BY <1>6 DEF UpdateNextRun, clientVars
  <2>4. RunIsKnown(i, Run) /\ Run.sched \in Schedules
    BY <2>0, <2>1, RunFields DEF GuardInv, Run
  <2>5. RunIsKnown(i, ElementAt(runs, i))'
    BY <2>0, <2>1, <2>2, <2>3, <2>4, AnswerIsAhead DEF RunIsKnown
  <2>6. \A j \in RunsOf(c) : j = i
    BY <2>0, <2>1 DEF GuardInv, OneRunEach, RunsOf
  <2>7. held'[c] = i \/ held'[c] = None
    BY <2>0, <2>3, <2>4 DEF RunIsKnown
  <2> QED BY <2>1, <2>2, <2>3, <2>5, <2>6, <2>7, GuardsAfterRunOf
<1>7. CASE UNCHANGED <<runs, clientVars>>
  BY <1>7, GuardsUntouched
<1>8. Drop \/ Join \/ Spurious \/ Tick \/ UNCHANGED vars => UNCHANGED <<runs, clientVars>>
  BY DEF Drop, Join, Spurious, Tick, vars
<1>9. LoopBody => UpdateNextRun \/ UNCHANGED <<runs, clientVars>>
  BY DEF LoopBody, Quit, BeginScan, PassDormant, PassNotDue, Execute, ExecutorPanics, EndScan
<1> QED
  BY <1>1, <1>2, <1>3, <1>4, <1>5, <1>6, <1>7, <1>8, <1>9 DEF Next, Callers, RunnerThread
-----------------------------------------------------------------------------
(* The scans.                                                              *)

LEMMA SameEntry ==
  ASSUME UNCHANGED <<runs, passed>>
  PROVE  Upcoming' = Upcoming /\ Run' = Run
BY DEF Upcoming, Run

LEMMA StepKeepsScan == TypeOK /\ GuardInv /\ ScanInv /\ [Next]_vars => ScanInv'
<1> SUFFICES ASSUME TypeOK, GuardInv, ScanInv, [Next]_vars PROVE ScanInv'
  OBVIOUS
<1>1. ASSUME Update, stage' = stage,
             stopper' = "idle" \/ (/\ \A c \in Clients : held'[c] = None
                                   /\ quit')
      PROVE  ScanInv'
  BY <1>1, UpdateFindsItIdle DEF ScanInv, InExecutor
<1>2. ASSUME NEW c \in Clients, NEW s \in Schedules, NEW d \in Data, Schedule(c, s, d)
      PROVE  ScanInv'
  BY <1>1, <1>2 DEF Schedule, scanVars
<1>3. ASSUME NEW c \in Clients, held[c] # None
      PROVE  stopper = "idle"
  BY <1>3 DEF ScanInv
<1>4. ASSUME NEW c \in Clients, NEW s \in Schedules, UpdateSchedule(c, s)
      PROVE  ScanInv'
  BY <1>1, <1>3, <1>4 DEF UpdateSchedule
<1>5. ASSUME NEW c \in Clients, NEW d \in Data, UpdateData(c, d)
      PROVE  ScanInv'
  BY <1>1, <1>3, <1>5 DEF UpdateData, scanVars
<1>6. ASSUME NEW c \in Clients, StopGuard(c)
      PROVE  ScanInv'
  BY <1>1, <1>3, <1>6 DEF StopGuard
<1>7. ASSUME NEW c \in Clients, Forget(c)
      PROVE  ScanInv'
  <2>1. stopper' = "idle" /\ UNCHANGED <<stage, thread, now>> /\ UNCHANGED <<runs, passed>>
    BY <1>3, <1>7 DEF Forget, runnerVars, scanVars
  <2> QED BY <2>1, SameEntry DEF ScanInv, InExecutor
<1>8. CASE Drop
  <2>1. CASE Poisoned
    <3>1. UNCHANGED <<stage, thread, now, held>> /\ UNCHANGED <<runs, passed>>
          /\ thread = "panicked" /\ \A c \in Clients : held[c] = None
      BY <1>8, <2>1 DEF Drop, Poisoned, runnerVars, scanVars, clientVars
    <3> QED BY <3>1, SameEntry DEF ScanInv, InExecutor
  <2>2. CASE ~Poisoned
    BY <1>1, <1>8, <2>2 DEF Drop, scanVars, clientVars
  <2> QED BY <2>1, <2>2
<1>9. CASE Join
  <2>1. UNCHANGED <<stage, thread, now, held, quit>> /\ UNCHANGED <<runs, passed>>
        /\ stopper # "idle"
    BY <1>9 DEF Join, runnerVars, scanVars, clientVars
  <2> QED BY <2>1, SameEntry DEF ScanInv, InExecutor
<1>10. CASE (WaitUpdate \/ TimeOut \/ Relock \/ SpuriousWake)
            /\ UNCHANGED <<quit, runs, scanVars, now, clientVars, firedVars, late, stopper>>
  <2>1. thread \notin {"locked", "panicked"} /\ UNCHANGED <<stage, held, stopper, quit>>
    BY <1>10 DEF WaitUpdate, TimeOut, Relock, SpuriousWake, Wake, scanVars, clientVars
  <2> QED BY <2>1 DEF ScanInv, InExecutor, TypeOK
<1>11. CASE Quit
  BY <1>11 DEF Quit, Return, scanVars, clientVars, ScanInv, InExecutor
<1>12. CASE BeginScan
  BY <1>12 DEF BeginScan, Hold, clientVars, ScanInv, InExecutor
<1>13. CASE PassDormant
  BY <1>13 DEF PassDormant, AtEntry, Hold, clientVars, ScanInv, InExecutor
<1>14. CASE PassNotDue
  BY <1>14 DEF PassNotDue, AtEntry, Hold, clientVars, ScanInv, InExecutor
<1>15. CASE Execute
  <2>1. UNCHANGED <<runs, passed>> /\ UNCHANGED <<thread, now, held, stopper>>
        /\ thread = "locked" /\ stopper = "idle" /\ stage' = "executing"
        /\ Upcoming # None /\ Run.next_run # Never /\ Run.next_run <= now
    BY <1>15 DEF Execute, Due, AtEntry, Hold, clientVars, ScanInv
  <2> QED BY <2>1, SameEntry DEF ScanInv, InExecutor
<1>16. CASE ExecutorPanics
  BY <1>16 DEF ExecutorPanics, Due, AtEntry, Panic, scanVars, clientVars, ScanInv, InExecutor
<1>17. CASE UpdateNextRun
  BY <1>17 DEF UpdateNextRun, Hold, clientVars, ScanInv, InExecutor
<1>18. CASE EndScan
  BY <1>18 DEF EndScan, Continue, clientVars, ScanInv, InExecutor
<1>19. CASE Tick
  <2>1. UNCHANGED <<runs, passed>> /\ UNCHANGED <<thread, quit, held, stopper, stage>>
    BY <1>19 DEF Tick, TimerTick, scanVars, clientVars
  <2>2. InExecutor => Run.next_run # Never /\ Run.next_run <= now'
    <3>1. now' >= now /\ now' \in Nat
      BY <1>19, InstantsAreNumbers DEF Tick
    <3>2. InExecutor => Run.next_run \in Nat
      BY UpcomingRun, InstantsAreNumbers DEF ScanInv
    <3> QED BY <3>1, <3>2, InstantsAreNumbers DEF ScanInv
  <2> QED BY <2>1, <2>2, SameEntry DEF ScanInv, InExecutor
<1>20. CASE UNCHANGED vars
  <2>1. UNCHANGED <<runs, passed>> /\ UNCHANGED <<thread, quit, held, stopper, stage, now>>
    BY <1>20 DEF vars, runnerVars, scanVars, clientVars
  <2> QED BY <2>1, SameEntry DEF ScanInv, InExecutor
<1> QED
  BY <1>2, <1>4, <1>5, <1>6, <1>7, <1>8, <1>9, <1>10, <1>11, <1>12, <1>13, <1>14, <1>15,
     <1>16, <1>17, <1>18, <1>19, <1>20
  DEF Next, Callers, RunnerThread, LoopBody, Spurious
-----------------------------------------------------------------------------
(* What was executed.                                                      *)

(* The instant a client's run was last executed for. *)
LEMMA FiredFields ==
  ASSUME TypeOK, NEW c \in Clients
  PROVE  fired[c] \in Instants \cup {Never} /\ fired[c] \in Int
BY InstantsAreNumbers DEF TypeOK

LEMMA FiredUntouched ==
  ASSUME FiredInv, UNCHANGED <<firedVars, now, stage>>, UNCHANGED <<runs, passed>>
  PROVE  FiredInv'
<1>1. Upcoming' = Upcoming /\ Run' = Run /\ UNCHANGED <<fired, still>>
  BY SameEntry DEF firedVars
<1> QED BY <1>1 DEF FiredInv, Behind, InExecutor, RunsOf

(* A step outside of the executor, after which every run is dormant, due   *)
(* now or later, or as it was.                                             *)
LEMMA FiredStaysBehind ==
  ASSUME TypeOK, FiredInv, UNCHANGED <<firedVars, now>>, ~InExecutor, ~InExecutor',
         \A i \in OccupiedIndexes(runs)' :
           LET r == ElementAt(runs', i) IN
             \/ r.next_run = Never
             \/ r.next_run \in Instants /\ r.next_run >= now
             \/ /\ i \in OccupiedIndexes(runs)
                /\ r.owner = ElementAt(runs, i).owner
                /\ r.next_run = ElementAt(runs, i).next_run
  PROVE  FiredInv'
<1>1. UNCHANGED <<fired, still>>
  BY DEF firedVars
<1> SUFFICES ASSUME NEW c \in Clients
             PROVE  /\ Behind(c, now)'
                    /\ \A i \in RunsOf(c)' :
                         \/ ElementAt(runs', i).next_run = Never
                         \/ Behind(c, ElementAt(runs, i).next_run)'
  BY DEF FiredInv
<1>2. fired[c] < now \/ (fired[c] = now /\ c \in still)
  BY DEF FiredInv, Behind
<1>3. ASSUME NEW i \in RunsOf(c)'
      PROVE  \/ ElementAt(runs', i).next_run = Never
             \/ Behind(c, ElementAt(runs, i).next_run)'
  <2>1. i \in OccupiedIndexes(runs)' /\ ElementAt(runs', i).owner = c
    BY DEF RunsOf
  <2>2. CASE ElementAt(runs', i).next_run \in Instants /\ ElementAt(runs', i).next_run >= now
    <3> DEFINE n == ElementAt(runs', i).next_run
    <3>1. n \in Int /\ now \in Int /\ fired[c] \in Int
      BY <2>2, FiredFields, InstantsAreNumbers
    <3>2. n >= now
      BY <2>2
    <3> HIDE DEF n
    <3>3. fired[c] < n \/ (fired[c] = n /\ c \in still)
      BY <1>2, <3>1, <3>2
    <3> QED BY <1>1, <3>3 DEF Behind, n
  <2>3. CASE /\ i \in OccupiedIndexes(runs)
             /\ c = ElementAt(runs, i).owner
             /\ ElementAt(runs', i).next_run = ElementAt(runs, i).next_run
    <3>1. i \in RunsOf(c)
      BY <2>3 DEF RunsOf
    <3> QED BY <1>1, <2>3, <3>1 DEF FiredInv, Behind
  <2> QED BY <2>1, <2>2, <2>3
<1> QED BY <1>1, <1>2, <1>3 DEF Behind

LEMMA StepKeepsFired == TypeOK /\ GuardInv /\ ScanInv /\ FiredInv /\ [Next]_vars => FiredInv'
<1> SUFFICES ASSUME TypeOK, GuardInv, ScanInv, FiredInv, [Next]_vars PROVE FiredInv'
  OBVIOUS
<1>1. ASSUME NEW c \in Clients, NEW s \in Schedules, NEW d \in Data, Schedule(c, s, d)
      PROVE  FiredInv'
  <2>1. ~InExecutor' /\ UNCHANGED <<firedVars, now>>
    BY <1>1, UpdateFindsItIdle DEF Schedule, scanVars, InExecutor
  <2>2. PICK i : i = held'[c]
    OBVIOUS
  <2>3. /\ ElementAt(runs', i) = [owner |-> c, sched |-> s, data |-> d, next_run |-> NextRun(s)]
        /\ KeepsRuns({i})
    BY <1>1, <2>2, ScheduleRuns
  <2>4. NextRun(s) = Never \/ (NextRun(s) \in Instants /\ NextRun(s) >= now)
    BY AnswerIsAhead
  <2>5. ~InExecutor
    BY <1>1, UpdateFindsItIdle DEF Schedule
  <2> QED BY <2>1, <2>3, <2>4, <2>5, FiredStaysBehind DEF KeepsRuns
<1>2. ASSUME NEW c \in Clients, NEW s \in Schedules, UpdateSchedule(c, s)
      PROVE  FiredInv'
  <2>1. ~InExecutor' /\ UNCHANGED <<firedVars, now>>
    BY <1>2, UpdateFindsItIdle DEF UpdateSchedule, InExecutor
  <2>2. PICK i : i = held[c]
    OBVIOUS
  <2>3. ElementAt(runs', i).next_run = NextRun(s) /\ KeepsRuns({i})
    BY <1>2, <2>2, UpdateScheduleRuns
  <2>4. NextRun(s) = Never \/ (NextRun(s) \in Instants /\ NextRun(s) >= now)
    BY AnswerIsAhead
  <2>5. ~InExecutor
    BY <1>2, UpdateFindsItIdle DEF UpdateSchedule
  <2> QED BY <2>1, <2>3, <2>4, <2>5, FiredStaysBehind DEF KeepsRuns
<1>3. ASSUME NEW c \in Clients, NEW d \in Data, UpdateData(c, d)
      PROVE  FiredInv'
  <2>1. ~InExecutor' /\ UNCHANGED <<firedVars, now>>
    BY <1>3, UpdateFindsItIdle DEF UpdateData, scanVars, InExecutor
  <2>2. PICK i : i = held[c]
    OBVIOUS
  <2>3. /\ i \in OccupiedIndexes(runs) /\ ElementAt(runs, i).owner = c
        /\ ElementAt(runs', i).owner = c
        /\ ElementAt(runs', i).next_run = ElementAt(runs, i).next_run
        /\ KeepsRuns({i})
    BY <1>3, <2>2, UpdateDataRuns, HeldRun DEF UpdateData
  <2>4. ~InExecutor
    BY <1>3, UpdateFindsItIdle DEF UpdateData
  <2> QED BY <2>1, <2>3, <2>4, FiredStaysBehind DEF KeepsRuns
<1>4. ASSUME NEW c \in Clients, StopGuard(c)
      PROVE  FiredInv'
  <2>1. ~InExecutor' /\ UNCHANGED <<firedVars, now>>
    BY <1>4, UpdateFindsItIdle DEF StopGuard, InExecutor
  <2>2. PICK i : i = held[c]
    OBVIOUS
  <2>3. i \notin OccupiedIndexes(runs)' /\ KeepsRuns({i})
    BY <1>4, <2>2, StopGuardRuns
  <2>4. ~InExecutor
    BY <1>4, UpdateFindsItIdle DEF StopGuard
  <2> QED BY <2>1, <2>3, <2>4, FiredStaysBehind DEF KeepsRuns
<1>5. CASE UpdateNextRun
  <2>1. PICK o, n, u : o = Run.owner /\ n = Run.next_run /\ u = Upcoming
    OBVIOUS
  <2>2. /\ InExecutor /\ ~InExecutor' /\ UNCHANGED <<fired, now>>
        /\ still' = IF n = now THEN still \cup {o} ELSE still \ {o}
    BY <1>5, <2>1 DEF UpdateNextRun, StandsStill, InExecutor
  <2>3. /\ u \in OccupiedIndexes(runs) /\ ElementAt(runs, u) = Run /\ o \in Clients
        /\ n \in Instants /\ n <= now
    BY <2>1, <2>2, UpcomingRun DEF ScanInv, Run
  <2>4. /\ ElementAt(runs', u).owner = o /\ u \in OccupiedIndexes(runs)'
        /\ ElementAt(runs', u).next_run = NextRun(Run.sched) /\ KeepsRuns({u})
        /\ Run.sched \in Schedules
    BY <1>5, <2>1, <2>2, UpdateNextRunRuns, UpcomingRun DEF ScanInv
  <2>5. fired[o] < now \/ (fired[o] = now /\ n = now)
    <3>1. u \in RunsOf(o)
      BY <2>1, <2>3 DEF RunsOf
    <3>2. Behind(o, now) /\ Behind(o, n)
      BY <2>1, <2>3, <3>1, InstantsAreNumbers DEF FiredInv
    <3>3. fired[o] \in Int /\ n \in Int /\ now \in Int
      BY <2>3, FiredFields, InstantsAreNumbers
    <3> QED BY <2>3, <3>2, <3>3 DEF Behind
  <2>6. ASSUME NEW c \in Clients
        PROVE  \/ fired[c] < now
               \/ fired[c] = now /\ c \in still'
    <3>1. CASE c = o
      BY <2>2, <2>5, <3>1
    <3>2. CASE c # o
      BY <2>1, <2>2, <3>2 DEF FiredInv, Behind
    <3> QED BY <3>1, <3>2
  <2>7. ASSUME NEW c \in Clients, NEW i \in RunsOf(c)', ElementAt(runs', i).next_run # Never
        PROVE  Behind(c, ElementAt(runs, i).next_run)'
    <3>1. CASE i = u
      <4>1. NextRun(Run.sched) \in Int /\ NextRun(Run.sched) >= now
        BY <2>4, <2>7, <3>1, AnswerIsAhead, InstantsAreNumbers
      <4>2. fired[c] \in Int /\ now \in Int
        BY FiredFields, InstantsAreNumbers
      <4>3. fired[c] < NextRun(Run.sched) \/ (fired[c] = NextRun(Run.sched) /\ c \in still')
        BY <2>6, <4>1, <4>2
      <4> QED BY <2>2, <2>4, <3>1, <4>3 DEF Behind
    <3>2. CASE i # u
      <4>1. i \in OccupiedIndexes(runs) /\ ElementAt(runs', i) = ElementAt(runs, i)
            /\ ElementAt(runs, i).owner = c
        BY <2>4, <3>2 DEF RunsOf, KeepsRuns
      <4>2. c # o
        BY <2>1, <2>3, <3>2, <4>1 DEF GuardInv, OneRunEach
      <4>3. Behind(c, ElementAt(runs, i).next_run)
        BY <2>7, <4>1 DEF FiredInv, RunsOf
      <4> QED BY <2>1, <2>2, <4>1, <4>2, <4>3 DEF Behind
    <3> QED BY <3>1, <3>2
  <2> QED BY <2>2, <2>6, <2>7 DEF FiredInv, Behind
<1>6. CASE Execute
  <2>1. PICK o, n, u : o = Run.owner /\ n = Run.next_run /\ u = Upcoming
    OBVIOUS
  <2>2. /\ u \in OccupiedIndexes(runs) /\ o \in Clients /\ n \in Instants
        /\ ElementAt(runs, u).owner = o /\ ElementAt(runs, u).next_run = n /\ n <= now
        /\ UNCHANGED <<now, still>> /\ UNCHANGED <<runs, passed>>
        /\ fired' = [fired EXCEPT ![o] = n]
        /\ ~InExecutor /\ InExecutor'
    BY <1>6, <2>1, UpcomingRun DEF Execute, Due, AtEntry, Run, InExecutor
  <2>3. Run'.owner = o
    BY <2>1, <2>2, SameEntry
  <2>4. ASSUME NEW c \in Clients, c # o
        PROVE  fired'[c] = fired[c]
    BY <2>2, <2>4 DEF TypeOK
  <2>5. fired'[o] = n
    BY <2>2 DEF TypeOK
  <2>6. \A i \in RunsOf(o) : i = u
    BY <2>2 DEF GuardInv, OneRunEach, RunsOf
  <2>7. ASSUME NEW c \in Clients
        PROVE  /\ Behind(c, now)'
               /\ \A i \in RunsOf(c) :
                    \/ ElementAt(runs, i).next_run = Never
                    \/ Behind(c, ElementAt(runs, i).next_run)'
    <3>1. CASE c = o
      BY <2>2, <2>3, <2>5, <2>6, <3>1, InstantsAreNumbers DEF Behind
    <3>2. CASE c # o
      BY <2>2, <2>4, <3>2 DEF FiredInv, Behind
    <3> QED BY <3>1, <3>2
  <2> QED BY <2>2, <2>7 DEF FiredInv, RunsOf
<1>7. CASE Tick
  <2>1. /\ UNCHANGED <<fired, still>> /\ UNCHANGED <<runs, passed>>
        /\ InExecutor' = InExecutor
    BY <1>7 DEF Tick, firedVars, scanVars, InExecutor
  <2>2. Upcoming' = Upcoming /\ Run' = Run
    BY <2>1, SameEntry
  <2>3. ASSUME NEW c \in Clients
        PROVE  Behind(c, now)'
    <3>1. Behind(c, now) /\ fired[c] \in Int /\ now \in Int /\ (now' = now \/ now' = now + 1)
      BY <1>7, FiredFields, InstantsAreNumbers DEF FiredInv, Tick
    <3> QED BY <2>1, <2>2, <3>1 DEF Behind
  <2> QED BY <2>1, <2>2, <2>3 DEF FiredInv, Behind, RunsOf
<1>8. CASE \/ \E c \in Clients : Forget(c)
           \/ Drop \/ Join \/ Spurious \/ UNCHANGED vars
           \/ /\ WaitUpdate \/ TimeOut \/ Relock
              /\ UNCHANGED <<quit, runs, scanVars, now, clientVars, firedVars, late, stopper>>
           \/ Quit \/ ExecutorPanics
  <2>1. UNCHANGED <<firedVars, now, stage>> /\ UNCHANGED <<runs, passed>>
    BY <1>8 DEF Forget, Drop, Join, Spurious, vars, scanVars, Quit, ExecutorPanics
  <2> QED BY <2>1, FiredUntouched
<1>9. CASE BeginScan \/ PassDormant \/ PassNotDue \/ EndScan
  <2>1. UNCHANGED <<firedVars, now>> /\ runs' = runs /\ ~InExecutor /\ ~InExecutor'
    BY <1>9 DEF BeginScan, PassDormant, PassNotDue, AtEntry, EndScan, InExecutor
  <2> QED BY <2>1, FiredStaysBehind
<1> QED
  BY <1>1, <1>2, <1>3, <1>4, <1>5, <1>6, <1>7, <1>8, <1>9
  DEF Next, Callers, RunnerThread, LoopBody
-----------------------------------------------------------------------------
(* The naps.                                                               *)

(* What the shortest period so far covers. *)
LEMMA MinCovers ==
  ASSUME NEW p \in WaitPeriods, NEW d \in Int, NEW e \in Nat,
         Covers(p, d) \/ e <= d
  PROVE  Covers(MinPeriod(p, AtMost(e)), d)
<1>1. AtMost(e).kind = "AtMost" /\ AtMost(e).dur = e
  BY DEF AtMost
<1> QED BY <1>1, PeriodFields DEF MinPeriod, Cmp, CmpDur, Covers

LEMMA CoversLonger ==
  ASSUME NEW p \in WaitPeriods, NEW d \in Int, NEW e \in Int, d <= e, Covers(p, d)
  PROVE  Covers(p, e)
BY PeriodFields DEF Covers

LEMMA TimeLeftIsNumber ==
  ASSUME TypeOK, NEW i \in OccupiedIndexes(runs)
  PROVE  TimeLeft(i) \in Int /\ ElementAt(runs, i).next_run \in Int
<1>1. ElementAt(runs, i).next_run \in Int /\ late \in Int /\ now \in Int
  BY RunFields, InstantsAreNumbers
<1> QED BY <1>1 DEF TimeLeft

(* A client's change leaves the runs of the others that were seen alone,   *)
(* and has the thread look again.                                          *)
LEMMA NapAfterUpdate ==
  ASSUME TypeOK, ScanInv, NapInv, Update, UNCHANGED <<now, late, stage>>, seen' \subseteq seen,
         \A c \in seen' : \A i :
           /\ i \in RunsOf(c)' <=> i \in RunsOf(c)
           /\ i \in RunsOf(c) => ElementAt(runs', i).next_run = ElementAt(runs, i).next_run
  PROVE  NapInv'
<1>1. ~AtWork' /\ thread' # "waiting" /\ (thread' = "top" => thread = "top")
      /\ wait_period' = wait_period
  BY UpdateFindsItIdle DEF AtWork
<1>2. \A c \in seen' : RunsOf(c)' # {}
  BY DEF NapInv
<1>3. ASSUME thread' = "top", NEW c \in seen', NEW i \in RunsOf(c)'
      PROVE  Covers(wait_period, TimeLeft(i)')
  <2>1. Covers(wait_period, TimeLeft(i))
    BY <1>1, <1>3 DEF NapInv
  <2>2. TimeLeft(i)' = TimeLeft(i)
    BY <1>3 DEF TimeLeft
  <2> QED BY <2>1, <2>2
<1>4. (now < LastInstant => late <= now)'
  BY DEF NapInv
<1>5. SleepCoversSeen'
  BY <1>1 DEF SleepCoversSeen
<1> QED BY <1>1, <1>2, <1>3, <1>4, <1>5 DEF NapInv, Covers

(* A step that changes neither what was seen nor the thread's place. *)
LEMMA NapUntouched ==
  ASSUME NapInv, UNCHANGED <<runs, now, late, seen, passed, thread, timer, wait_period>>,
         AtWork' => AtWork
  PROVE  NapInv'
BY DEF NapInv, SleepCoversSeen, RunsOf, TimeLeft

(* A client's changes. *)
LEMMA CallersKeepNaps ==
  ASSUME TypeOK, GuardInv, ScanInv, NapInv, Callers
  PROVE  NapInv'
<1>1. ASSUME NEW c \in Clients, NEW s \in Schedules, NEW d \in Data, Schedule(c, s, d)
      PROVE  NapInv'
  <2>1. PICK i : i = held'[c]
    OBVIOUS
  <2>2. /\ i \notin OccupiedIndexes(runs) /\ i \in OccupiedIndexes(runs)'
        /\ ElementAt(runs', i) = [owner |-> c, sched |-> s, data |-> d, next_run |-> NextRun(s)]
        /\ KeepsRuns({i})
    BY <1>1, <2>1, ScheduleRuns
  <2>3. Update /\ UNCHANGED <<now, late, stage>> /\ seen' = seen
    BY <1>1 DEF Schedule, scanVars
  <2>4. c \notin seen
    BY <1>1, NoRunYet DEF Schedule, NapInv
  <2>5. ElementAt(runs', i).owner = c
    BY <2>2
  <2>6. \A b \in seen' : \A j :
          /\ j \in RunsOf(b)' <=> j \in RunsOf(b)
          /\ j \in RunsOf(b) => ElementAt(runs', j).next_run = ElementAt(runs, j).next_run
    BY <2>2, <2>3, <2>4, <2>5 DEF RunsOf, KeepsRuns
  <2> QED BY <2>3, <2>6, NapAfterUpdate
<1>2. ASSUME NEW c \in Clients, NEW s \in Schedules, UpdateSchedule(c, s)
      PROVE  NapInv'
  <2>1. PICK i : i = held[c]
    OBVIOUS
  <2>2. /\ i \in OccupiedIndexes(runs) /\ ElementAt(runs, i).owner = c
        /\ ElementAt(runs', i).owner = c
        /\ KeepsRuns({i})
    BY <1>2, <2>1, UpdateScheduleRuns, HeldRun DEF UpdateSchedule
  <2>3. Update /\ UNCHANGED <<now, late, stage>> /\ seen' = seen \ {c}
    BY <1>2 DEF UpdateSchedule
  <2>4. \A b \in seen' : \A j :
          /\ j \in RunsOf(b)' <=> j \in RunsOf(b)
          /\ j \in RunsOf(b) => ElementAt(runs', j).next_run = ElementAt(runs, j).next_run
    BY <2>2, <2>3 DEF RunsOf, KeepsRuns
  <2> QED BY <2>3, <2>4, NapAfterUpdate
<1>3. ASSUME NEW c \in Clients, NEW d \in Data, UpdateData(c, d)
      PROVE  NapInv'
  <2>1. PICK i : i = held[c]
    OBVIOUS
  <2>2. /\ i \in OccupiedIndexes(runs) /\ ElementAt(runs, i).owner = c
        /\ i \in OccupiedIndexes(runs)'
        /\ ElementAt(runs', i).owner = c
        /\ ElementAt(runs', i).next_run = ElementAt(runs, i).next_run
        /\ KeepsRuns({i})
    BY <1>3, <2>1, UpdateDataRuns, HeldRun DEF UpdateData
  <2>3. Update /\ UNCHANGED <<now, late, stage>> /\ seen' = seen
    BY <1>3 DEF UpdateData, scanVars
  <2>4. \A b \in seen' : \A j :
          /\ j \in RunsOf(b)' <=> j \in RunsOf(b)
          /\ j \in RunsOf(b) => ElementAt(runs', j).next_run = ElementAt(runs, j).next_run
    BY <2>2, <2>3 DEF RunsOf, KeepsRuns
  <2> QED BY <2>3, <2>4, NapAfterUpdate
<1>4. ASSUME NEW c \in Clients, StopGuard(c)
      PROVE  NapInv'
  <2>1. PICK i : i = held[c]
    OBVIOUS
  <2>2. /\ i \in OccupiedIndexes(runs) /\ ElementAt(runs, i).owner = c
        /\ i \notin OccupiedIndexes(runs)'
        /\ KeepsRuns({i})
    BY <1>4, <2>1, StopGuardRuns, HeldRun DEF StopGuard
  <2>3. Update /\ UNCHANGED <<now, late, stage>> /\ seen' = seen \ {c}
    BY <1>4 DEF StopGuard
  <2>4. \A b \in seen' : \A j :
          /\ j \in RunsOf(b)' <=> j \in RunsOf(b)
          /\ j \in RunsOf(b) => ElementAt(runs', j).next_run = ElementAt(runs, j).next_run
    BY <2>2, <2>3 DEF RunsOf, KeepsRuns
  <2> QED BY <2>3, <2>4, NapAfterUpdate
<1>5. ASSUME NEW c \in Clients, Forget(c)
      PROVE  NapInv'
  BY <1>5, NapUntouched DEF Forget, runnerVars, scanVars, AtWork
<1>6. CASE Drop
  <2>1. CASE Poisoned
    BY <1>6, <2>1, NapUntouched DEF Drop, runnerVars, scanVars, AtWork
  <2>2. CASE ~Poisoned
    <3>1. Update /\ UNCHANGED <<now, late, stage>> /\ seen' = seen /\ runs' = runs
      BY <1>6, <2>2 DEF Drop, scanVars
    <3> QED BY <3>1, NapAfterUpdate DEF RunsOf
  <2> QED BY <2>1, <2>2
<1>7. CASE Join
  BY <1>7, NapUntouched DEF Join, runnerVars, scanVars, AtWork
<1> QED BY <1>1, <1>2, <1>3, <1>4, <1>5, <1>6, <1>7 DEF Callers

(* Falling asleep, waking up, and locking the mutex again. *)
LEMMA WaitKeepsNaps ==
  ASSUME TypeOK, ScanInv, NapInv, WaitUpdate \/ Wake \/ Relock,
         UNCHANGED <<runs, now, late, seen, passed, stage>>
  PROVE  NapInv'
<1>1. thread \in {"top", "waiting", "woken"} /\ stage = "idle"
  BY DEF WaitUpdate, Wake, Relock, ScanInv, InExecutor, TypeOK
<1>2. thread' # "top" /\ ~AtWork'
  BY <1>1 DEF WaitUpdate, Wake, Relock, AtWork
<1>3. SleepCoversSeen'
  <2> SUFFICES ASSUME thread' = "waiting", NEW c \in seen, NEW i \in RunsOf(c)
               PROVE  timer' \in 1 .. TimeLeft(i) \/ timer' = 0
    BY DEF SleepCoversSeen, RunsOf, TimeLeft
  <2>1. WaitUpdate /\ thread = "top" /\ wait_period \in WaitPeriods
    BY <1>1 DEF Wake, Relock, TypeOK, RunnerTypeOK, WaitUpdate
  <2>2. Covers(wait_period, TimeLeft(i))
    BY <2>1 DEF NapInv
  <2>3. TimeLeft(i) \in Int
    BY TimeLeftIsNumber DEF RunsOf
  <2>4. wait_period.kind = "AtMost" /\ timer' = wait_period.dur
    BY <2>1, <2>2 DEF WaitUpdate, Covers
  <2> QED BY <2>1, <2>2, <2>3, <2>4, PeriodFields DEF Covers
<1>4. (now < LastInstant => late <= now)' /\ \A c \in seen' : RunsOf(c)' # {}
  BY DEF NapInv, RunsOf
<1> QED BY <1>2, <1>3, <1>4 DEF NapInv

(* The body of the loop. *)
LEMMA LoopBodyKeepsNaps ==
  ASSUME TypeOK, GuardInv, ScanInv, NapInv, LoopBody
  PROVE  NapInv'
<1>1. CASE Quit \/ ExecutorPanics
  <2>1. /\ UNCHANGED <<runs, now, late, seen>>
        /\ thread' \in {"exited", "panicked"}
    BY <1>1 DEF Quit, Return, ExecutorPanics, Panic, scanVars
  <2> QED BY <2>1 DEF NapInv, AtWork, SleepCoversSeen, RunsOf
<1>2. CASE BeginScan
  <2>1. seen' = {} /\ late' = 0 /\ now' \in Nat
    BY <1>2, InstantsAreNumbers DEF BeginScan
  <2> QED BY <2>1 DEF NapInv, SleepCoversSeen
<1>3. CASE PassDormant \/ Execute
  <2>1. /\ UNCHANGED <<runs, now, late, seen, thread, timer, wait_period>>
        /\ AtWork /\ AtWork' /\ thread = "locked"
        /\ passed' = passed \/ (passed' = Upcoming /\ Upcoming # None)
    BY <1>3 DEF PassDormant, Execute, Due, AtEntry, Hold, AtWork
  <2>2. passed \in Nat /\ passed' \in Nat /\ passed <= passed'
    BY <2>1, UpcomingRun
  <2>3. \A c \in seen : \A i \in RunsOf(c) : i <= passed'
    BY <2>1, <2>2, RunFields DEF NapInv, RunsOf
  <2> QED BY <2>1, <2>3 DEF NapInv, SleepCoversSeen, RunsOf, TimeLeft
<1>4. CASE PassNotDue
  <2>1. PICK u, o, e : u = Upcoming /\ o = Run.owner /\ e = Run.next_run - now
    OBVIOUS
  <2>2. /\ u \in OccupiedIndexes(runs) /\ ElementAt(runs, u).owner = o
        /\ ElementAt(runs, u).next_run = Run.next_run /\ u > passed
        /\ Run.next_run \in Nat /\ e \in Nat
    BY <1>4, <2>1, UpcomingRun, InstantsAreNumbers DEF PassNotDue, AtEntry, Run, Never
  <2>3. /\ UNCHANGED <<runs, now, late, thread>>
        /\ AtWork /\ thread = "locked"
        /\ passed' = u /\ seen' = seen \cup {o}
        /\ wait_period' = MinPeriod(wait_period, AtMost(e))
    BY <1>4, <2>1 DEF PassNotDue, AtEntry, Hold, AtWork
  <2>4. \A i \in RunsOf(o) : i = u
    BY <2>2 DEF GuardInv, OneRunEach, RunsOf
  <2>5. u \in RunsOf(o)
    BY <2>2 DEF RunsOf
  <2>6. \A c \in seen' : \A i \in RunsOf(c) : i <= u
    <3> SUFFICES ASSUME NEW c \in seen, NEW i \in RunsOf(c) PROVE i <= u
      BY <2>2, <2>3, <2>4, RunFields
    <3>1. i <= passed /\ i \in Nat /\ passed \in Nat /\ u \in Nat
      BY <2>2, <2>3, RunFields, UpcomingRun DEF NapInv, RunsOf
    <3> QED BY <2>2, <3>1
  <2>7. ASSUME NEW c \in seen', NEW i \in RunsOf(c)
        PROVE  Covers(MinPeriod(wait_period, AtMost(e)), TimeLeft(i))
    <3>1. wait_period \in WaitPeriods /\ TimeLeft(i) \in Int
      BY TimeLeftIsNumber DEF TypeOK, RunnerTypeOK, RunsOf
    <3>2. CASE c \in seen
      <4>1. Covers(wait_period, TimeLeft(i))
        BY <2>3, <3>2 DEF NapInv
      <4> QED BY <2>2, <3>1, <4>1, MinCovers
    <3>3. CASE c = o
      <4>1. e <= TimeLeft(i)
        BY <2>1, <2>2, <2>4, <3>3, InstantsAreNumbers DEF TimeLeft
      <4> QED BY <2>2, <3>1, <4>1, MinCovers
    <3> QED BY <2>3, <3>2, <3>3
  <2>8. (now < LastInstant => late <= now)' /\ \A c \in seen' : RunsOf(c)' # {}
    BY <2>3, <2>5 DEF NapInv, RunsOf
  <2> QED BY <2>3, <2>6, <2>7, <2>8 DEF NapInv, SleepCoversSeen, RunsOf, TimeLeft
<1>5. CASE UpdateNextRun
  <2>1. PICK u : u = Upcoming
    OBVIOUS
  <2>2. /\ u \in OccupiedIndexes(runs) /\ u > passed
        /\ ElementAt(runs', u).owner = ElementAt(runs, u).owner
        /\ KeepsRuns({u}) /\ OccupiedIndexes(runs)' = OccupiedIndexes(runs)
    BY <1>5, <2>1, UpdateNextRunRuns, UpcomingRun
    DEF Run, ScanInv, InExecutor, UpdateNextRun
  <2>3. /\ UNCHANGED <<now, late, seen, thread>>
        /\ AtWork /\ thread = "locked" /\ passed' = u /\ wait_period' = NoWait
    BY <1>5, <2>1 DEF UpdateNextRun, Hold, AtWork
  <2>4. \A c : RunsOf(c)' = RunsOf(c)
    BY <2>2 DEF RunsOf, KeepsRuns
  <2>5. \A c \in seen : \A i \in RunsOf(c) : i <= u
    <3> SUFFICES ASSUME NEW c \in seen, NEW i \in RunsOf(c) PROVE i <= u
      OBVIOUS
    <3>1. i <= passed /\ i \in Nat /\ passed \in Nat /\ u \in Nat
      BY <2>2, <2>3, RunFields, UpcomingRun DEF NapInv, RunsOf
    <3> QED BY <2>2, <3>1
  <2>6. \A d : Covers(wait_period', d)
    BY <2>3 DEF Covers, NoWait
  <2> QED BY <2>3, <2>4, <2>5, <2>6 DEF NapInv, SleepCoversSeen, Covers
<1>6. CASE EndScan
  <2>1. /\ UNCHANGED <<runs, now, late, seen>> /\ wait_period' = wait_period
        /\ AtWork /\ thread' = "top"
    BY <1>6 DEF EndScan, Continue, AtWork
  <2> QED BY <2>1 DEF NapInv, AtWork, SleepCoversSeen, RunsOf, TimeLeft, Covers
<1> QED BY <1>1, <1>2, <1>3, <1>4, <1>5, <1>6 DEF LoopBody

(* The clock.  It goes no faster than late while the thread is awake, and  *)
(* no faster than the timer while it sleeps.                               *)
LEMMA TickKeepsNaps ==
  ASSUME TypeOK, ScanInv, NapInv, Tick
  PROVE  NapInv'
<1>1. /\ UNCHANGED <<runs, passed, seen, thread, wait_period>> /\ AtWork' = AtWork
      /\ now' = IF now < LastInstant THEN now + 1 ELSE now
      /\ late' = IF thread \in {"locked", "top"} /\ late < LastInstant THEN late + 1 ELSE late
      /\ timer' = IF TimerRuns THEN timer - 1 ELSE timer
  BY DEF Tick, TimerTick, scanVars, AtWork
<1>2. now \in Nat /\ late \in Nat /\ LastInstant \in Nat /\ now <= LastInstant
      /\ late <= LastInstant /\ (now < LastInstant => late <= now)
  BY InstantsAreNumbers DEF NapInv
<1>3. (now < LastInstant => late <= now)'
  BY <1>1, <1>2
<1>4. ASSUME thread \in {"locked", "top"}, NEW i \in OccupiedIndexes(runs)
      PROVE  TimeLeft(i) \in Int /\ TimeLeft(i)' \in Int /\ TimeLeft(i) <= TimeLeft(i)'
  <2>1. ElementAt(runs, i).next_run \in Int
    BY TimeLeftIsNumber
  <2> QED BY <1>1, <1>2, <1>4, <2>1 DEF TimeLeft
<1>5. ASSUME AtWork \/ thread = "top", NEW c \in seen, NEW i \in RunsOf(c)
      PROVE  Covers(wait_period, TimeLeft(i)')
  <2>1. Covers(wait_period, TimeLeft(i)) /\ wait_period \in WaitPeriods
    BY <1>5 DEF NapInv, TypeOK, RunnerTypeOK
  <2>2. i \in OccupiedIndexes(runs) /\ thread \in {"locked", "top"}
    BY <1>5 DEF RunsOf, AtWork
  <2> QED BY <1>4, <2>1, <2>2, CoversLonger
<1>6. SleepCoversSeen'
  <2> SUFFICES ASSUME thread = "waiting", NEW c \in seen, NEW i \in RunsOf(c)
               PROVE  timer' = 0 \/ timer' \in 1 .. TimeLeft(i)'
    BY <1>1 DEF SleepCoversSeen, RunsOf, TimeLeft
  <2>1. timer = 0 \/ timer \in 1 .. TimeLeft(i)
    BY DEF NapInv, SleepCoversSeen, TimeLeft
  <2>2. ElementAt(runs, i).next_run \in Int
    BY TimeLeftIsNumber DEF RunsOf
  <2>3. TimeLeft(i)' \in {TimeLeft(i), TimeLeft(i) - 1} /\ TimeLeft(i) \in Int
    BY <1>1, <1>2, <2>2 DEF TimeLeft
  <2>4. timer' = IF timer > 0 THEN timer - 1 ELSE timer
    BY <1>1 DEF TimerRuns
  <2> QED BY <2>1, <2>3, <2>4
<1> QED BY <1>1, <1>3, <1>5, <1>6 DEF NapInv, RunsOf

LEMMA StepKeepsNaps == TypeOK /\ GuardInv /\ ScanInv /\ NapInv /\ [Next]_vars => NapInv'
<1> SUFFICES ASSUME TypeOK, GuardInv, ScanInv, NapInv, [Next]_vars PROVE NapInv'
  OBVIOUS
<1>1. CASE \/ /\ WaitUpdate \/ TimeOut \/ Relock
              /\ UNCHANGED <<quit, runs, scanVars, now, clientVars, firedVars, late, stopper>>
           \/ Spurious
  BY <1>1, WaitKeepsNaps DEF TimeOut, Spurious, SpuriousWake, scanVars
<1>2. CASE UNCHANGED vars
  BY <1>2, NapUntouched DEF vars, runnerVars, scanVars, AtWork
<1> QED
  BY <1>1, <1>2, CallersKeepNaps, LoopBodyKeepsNaps, TickKeepsNaps DEF Next, RunnerThread
-----------------------------------------------------------------------------
LEMMA InitRunner == Init => RunnerInv
<1> SUFFICES ASSUME Init PROVE RunnerInv
  OBVIOUS
<1>1. /\ runs = NewMap /\ stage = "idle" /\ thread = "top" /\ passed = 0 /\ seen = {}
      /\ now = 0 /\ late = 0 /\ stopper = "idle"
      /\ fired = [c \in Clients |-> Never] /\ held = [c \in Clients |-> None]
  BY DEF Init, RunnerInit
<1>2. /\ runs \in Maps(SchedRun) /\ Len(runs.entries) = 0
      /\ OccupiedIndexes(runs) = {} /\ \E s \in Seq(Indexes(runs)) : IsChain(runs, s)
  BY <1>1, NewMapFacts
<1>3. TypeOK
  <2>1. RunnerTypeOK
    BY PeriodsAreTyped DEF Init, RunnerInit, RunnerTypeOK, Places
  <2>2. fired \in [Clients -> Instants \cup {Never}]
    BY <1>1
  <2>3. now \in Instants /\ late \in Instants
    BY <1>1, ScheduleRunnerAssumption DEF Instants
  <2>4. passed \in 0 .. Len(runs.entries)
    BY <1>1, <1>2
  <2> QED BY <1>1, <1>2, <2>1, <2>2, <2>3, <2>4 DEF Init, TypeOK
<1>4. GuardInv
  BY <1>1, <1>2 DEF GuardInv, ChainIntact, HoldersOwn, OneRunEach
<1>5. ScanInv /\ FiredInv
  BY <1>1, <1>2 DEF ScanInv, FiredInv, Behind, RunsOf, InExecutor, Never
<1>6. NapInv
  BY <1>1 DEF NapInv, SleepCoversSeen
<1> QED BY <1>3, <1>4, <1>5, <1>6 DEF RunnerInv

(***************************************************************************)
(* RunnerInvariant: the guards, the chain of empty entries, the scans, the *)
(* instants executed and the naps keep to each other in every reachable    *)
(* state.                                                                  *)
(***************************************************************************)
THEOREM RunnerInvariant == Spec => []RunnerInv
<1>1. RunnerInv /\ [Next]_vars => RunnerInv'
  BY StepKeepsTypes, StepKeepsGuards, StepKeepsScan, StepKeepsFired, StepKeepsNaps DEF RunnerInv
<1> QED BY InitRunner, <1>1, PTL DEF Spec

(* Every variable of the ScheduleRunner keeps its type: indexes lead into  *)
(* the map, and no period to sleep is negative (left.to_std().unwrap() in   *)
(* run() does not panic).                                                  *)
THEOREM TypeCorrect == Spec => []TypeOK
<1>1. RunnerInv => TypeOK
  BY DEF RunnerInv
<1> QED BY <1>1, RunnerInvariant, PTL

(***************************************************************************)
(* GuardsValid: a guard finds its own client's run as long as it lives,    *)
(* with the schedule and the data that client last set, whatever the other *)
(* clients insert and remove meanwhile; a run whose guard was dropped      *)
(* keeps both; insert() and index_mut() do not panic ("invalid             *)
(* ScheduleGuard index").                                                  *)
(***************************************************************************)
THEOREM GuardsValid == Spec => []GuardsStayValid
<1> SUFFICES ASSUME RunnerInv PROVE GuardsStayValid
  BY RunnerInvariant, PTL
<1>1. ~InsertPanics(runs)
  <2>1. PICK s \in Seq(Indexes(runs)) : IsChain(runs, s)
    BY DEF RunnerInv, GuardInv, ChainIntact
  <2> QED BY <2>1, ChainHead
<1>2. ASSUME NEW c \in Clients, NEW i \in RunsOf(c)
      PROVE  /\ held[c] # None \/ c \in forgotten
             /\ asked[c] = {ElementAt(runs, i).sched} /\ given[c] = {ElementAt(runs, i).data}
  <2>1. i \in OccupiedIndexes(runs) /\ ElementAt(runs, i).owner = c /\ i # None
    BY DEF RunsOf, OccupiedIndexes, Indexes, None
  <2> QED BY <2>1 DEF RunnerInv, GuardInv, RunIsKnown
<1>3. ASSUME NEW c \in Clients, held[c] # None
      PROVE  RunsOf(c) = {held[c]}
  BY <1>3, HeldRun DEF RunnerInv
<1> QED BY <1>1, <1>2, <1>3 DEF GuardsStayValid

(***************************************************************************)
(* SleepCovers: the thread never sleeps past the first of the runs its     *)
(* last scan found not yet due, whatever time the scan itself took.        *)
(***************************************************************************)
THEOREM SleepCovers == Spec => []SleepCoversSeen
<1>1. RunnerInv => SleepCoversSeen
  BY DEF RunnerInv, NapInv
<1> QED BY <1>1, RunnerInvariant, PTL
-----------------------------------------------------------------------------
(* What a step is that gives the executor a run. *)
LEMMA FiringExecutes ==
  ASSUME TypeOK, ScanInv, [Next]_vars, NEW c \in Clients, Fires(c)
  PROVE  /\ Execute /\ c = Run.owner /\ ~InExecutor
         /\ Upcoming \in OccupiedIndexes(runs) /\ Run = ElementAt(runs, Upcoming)
         /\ Run.next_run \in Instants /\ Run.next_run # Never /\ Run.next_run <= now
         /\ fired'[c] = Run.next_run
<1>1. stage # "executing" /\ stage' = "executing" /\ c = Run.owner
  BY DEF Fires, InExecutor
<1>2. Execute
  BY <1>1
  DEF Next, Callers, Schedule, UpdateSchedule, UpdateData, StopGuard, Forget, Drop, Join,
      RunnerThread, LoopBody, Quit, BeginScan, PassDormant, PassNotDue, ExecutorPanics,
      UpdateNextRun, EndScan, Spurious, Tick, vars, scanVars
<1>3. /\ Upcoming \in OccupiedIndexes(runs) /\ Run.owner \in Clients
      /\ Run.next_run \in Instants /\ Run.next_run # Never /\ Run.next_run <= now
      /\ fired' = [fired EXCEPT ![Run.owner] = Run.next_run]
  BY <1>2, UpcomingRun DEF Execute, Due, AtEntry
<1> QED BY <1>1, <1>2, <1>3 DEF TypeOK, InExecutor, Run

(***************************************************************************)
(* FiresInOrder: no event is executed for an earlier instant after a later *)
(* one, nor twice for one instant unless the clock still showed it when    *)
(* the next one was looked for.                                            *)
(***************************************************************************)
THEOREM FiresInOrder == Spec => FiresOnce
<1>1. ASSUME RunnerInv, [Next]_vars
      PROVE  \A c \in Clients : Fires(c) =>
               fired[c] < fired'[c] \/ (fired[c] = fired'[c] /\ c \in still)
  <2> SUFFICES ASSUME NEW c \in Clients, Fires(c)
               PROVE  fired[c] < fired'[c] \/ (fired[c] = fired'[c] /\ c \in still)
    OBVIOUS
  <2>1. /\ c = Run.owner /\ ~InExecutor /\ Run.next_run # Never
        /\ Upcoming \in RunsOf(c) /\ Run = ElementAt(runs, Upcoming)
        /\ fired'[c] = Run.next_run
    BY <1>1, FiringExecutes DEF RunnerInv, RunsOf
  <2>2. Behind(c, Run.next_run)
    BY <1>1, <2>1 DEF RunnerInv, FiredInv
  <2> QED BY <2>1, <2>2 DEF Behind
<1> QED BY <1>1, RunnerInvariant, PTL DEF Spec, FiresOnce

(***************************************************************************)
(* FiresAsWasAsked: what is executed is due by the schedule its client     *)
(* asked for last, and nothing is executed for a client that has stopped   *)
(* its guard.                                                              *)
(***************************************************************************)
THEOREM FiresAsWasAsked == Spec => FiresAsAsked
<1>1. ASSUME RunnerInv, [Next]_vars
      PROVE  \A c \in Clients : Fires(c) =>
               /\ \E s \in asked[c] : fired'[c] \in Triggers(s)
               /\ fired'[c] <= now
  <2> SUFFICES ASSUME NEW c \in Clients, Fires(c)
               PROVE  /\ \E s \in asked[c] : fired'[c] \in Triggers(s)
                      /\ fired'[c] <= now
    OBVIOUS
  <2>1. /\ c = Run.owner /\ Run.next_run <= now /\ fired'[c] = Run.next_run
        /\ Upcoming \in OccupiedIndexes(runs) /\ Run = ElementAt(runs, Upcoming)
    BY <1>1, FiringExecutes DEF RunnerInv
  <2>2. RunIsKnown(Upcoming, Run)
    BY <1>1, <2>1 DEF RunnerInv, GuardInv
  <2> QED BY <2>1, <2>2 DEF RunIsKnown
<1> QED BY <1>1, RunnerInvariant, PTL DEF Spec, FiresAsAsked
-----------------------------------------------------------------------------
(* Refinement.                                                             *)

Dues == [c \in Clients |-> DueOf(c)]
Busy == IF InExecutor THEN {Run.owner} ELSE {}

(* The mapping of a state in which the runner is not at work. *)
LEMMA IdleIsNotBusy ==
  ASSUME ~InExecutor
  PROVE  Busy = {}
BY DEF Busy, InExecutor

(* A step that leaves the runs of a client as they are leaves what is due. *)
LEMMA DueStays ==
  ASSUME NEW c, RunsOf(c)' = RunsOf(c),
         \A i \in RunsOf(c) : ElementAt(runs', i).next_run = ElementAt(runs, i).next_run
  PROVE  DueOf(c)' = DueOf(c)
<1>1. RunsOf(c) # {} => (CHOOSE i \in RunsOf(c) : TRUE) \in RunsOf(c)
  OBVIOUS
<1> QED BY <1>1 DEF DueOf

LEMMA DuesStay ==
  ASSUME runs' = runs
  PROVE  Dues' = Dues
<1>1. \A c : RunsOf(c)' = RunsOf(c)
  BY DEF RunsOf
<1>2. \A c : DueOf(c)' = DueOf(c)
  BY <1>1, DueStays
<1> QED BY <1>2 DEF Dues

(* A step that gives client c the run r at index i, new or in place of the *)
(* one it had, makes its event due when r is.                              *)
LEMMA DueAfterRunOf ==
  ASSUME NEW c \in Clients, NEW i,
         KeepsRuns({i}), i \in OccupiedIndexes(runs)', ElementAt(runs', i).owner = c,
         \A j \in RunsOf(c) : j = i,
         i \in OccupiedIndexes(runs) => ElementAt(runs, i).owner = c
  PROVE  Dues' = [Dues EXCEPT ![c] = ElementAt(runs', i).next_run]
<1>1. RunsOf(c)' = {i}
  BY DEF KeepsRuns, RunsOf
<1>2. DueOf(c)' = ElementAt(runs', i).next_run
  BY <1>1 DEF DueOf
<1>3. ASSUME NEW b \in Clients \ {c}
      PROVE  DueOf(b)' = DueOf(b)
  <2>1. \A j \in RunsOf(b) : ElementAt(runs', j) = ElementAt(runs, j)
    BY DEF KeepsRuns, RunsOf
  <2>2. RunsOf(b)' = RunsOf(b)
    BY DEF KeepsRuns, RunsOf
  <2> QED BY <2>1, <2>2, DueStays
<1> QED BY <1>2, <1>3 DEF Dues

(* The steps of the clients. *)
LEMMA ScheduleAsks ==
  ASSUME RunnerInv, NEW c \in Clients, NEW s \in Schedules, NEW d \in Data, Schedule(c, s, d)
  PROVE  Promised!Ask(c, s)
<1>1. TypeOK /\ GuardInv /\ ScanInv
  BY DEF RunnerInv
<1>2. ~InExecutor /\ ~InExecutor' /\ stopper = "idle" /\ stopper' = "idle"
      /\ UNCHANGED <<now, fired>> /\ asked' = [asked EXCEPT ![c] = {s}]
  BY <1>1, UpdateFindsItIdle DEF Schedule, scanVars, firedVars, InExecutor
<1>3. PICK i : i = held'[c]
  OBVIOUS
<1>4. /\ i \notin OccupiedIndexes(runs) /\ i \in OccupiedIndexes(runs)'
      /\ ElementAt(runs', i) = [owner |-> c, sched |-> s, data |-> d, next_run |-> NextRun(s)]
      /\ KeepsRuns({i})
  BY <1>1, <1>3, ScheduleRuns
<1>5. RunsOf(c) = {}
  BY <1>1, NoRunYet DEF Schedule
<1>6. Dues' = [Dues EXCEPT ![c] = NextRuns[s][now]]
  BY <1>4, <1>5, DueAfterRunOf DEF NextRun
<1>7. Busy = {} /\ Busy' = {}
  BY <1>2, IdleIsNotBusy DEF Busy, InExecutor
<1> QED BY <1>2, <1>6, <1>7 DEF Promised!Ask, Dues, Busy

LEMMA UpdateScheduleAsks ==
  ASSUME RunnerInv, NEW c \in Clients, NEW s \in Schedules, UpdateSchedule(c, s)
  PROVE  Promised!Ask(c, s)
<1>1. TypeOK /\ GuardInv /\ ScanInv
  BY DEF RunnerInv
<1>2. ~InExecutor /\ ~InExecutor' /\ stopper = "idle" /\ stopper' = "idle"
      /\ UNCHANGED <<now, fired>> /\ asked' = [asked EXCEPT ![c] = {s}]
  BY <1>1, UpdateFindsItIdle DEF UpdateSchedule, firedVars, InExecutor, ScanInv
<1>3. PICK i : i = held[c]
  OBVIOUS
<1>4. /\ i \in OccupiedIndexes(runs) /\ ElementAt(runs, i).owner = c /\ RunsOf(c) = {i}
      /\ i \in OccupiedIndexes(runs)' /\ ElementAt(runs', i).owner = c
      /\ ElementAt(runs', i).next_run = NextRun(s)
      /\ KeepsRuns({i})
  BY <1>1, <1>3, UpdateScheduleRuns, HeldRun DEF UpdateSchedule
<1>5. Dues' = [Dues EXCEPT ![c] = NextRuns[s][now]]
  BY <1>4, DueAfterRunOf DEF NextRun
<1>6. Busy = {} /\ Busy' = {}
  BY <1>2, IdleIsNotBusy DEF Busy, InExecutor
<1> QED BY <1>2, <1>5, <1>6 DEF Promised!Ask, Dues, Busy

(* The run's data may change, not when it is due. *)
LEMMA UpdateDataStutters ==
  ASSUME RunnerInv, NEW c \in Clients, NEW d \in Data, UpdateData(c, d)
  PROVE  UNCHANGED Promised!vars
<1>1. TypeOK /\ GuardInv /\ ScanInv
  BY DEF RunnerInv
<1>2. ~InExecutor /\ ~InExecutor' /\ UNCHANGED <<now, fired, asked, stopper>>
  BY <1>1, UpdateFindsItIdle DEF UpdateData, scanVars, firedVars, InExecutor
<1>3. PICK i : i = held[c]
  OBVIOUS
<1>4. /\ i \in OccupiedIndexes(runs) /\ ElementAt(runs, i).owner = c /\ RunsOf(c) = {i}
      /\ i \in OccupiedIndexes(runs)' /\ ElementAt(runs', i).owner = c
      /\ ElementAt(runs', i).next_run = ElementAt(runs, i).next_run
      /\ KeepsRuns({i})
  BY <1>1, <1>3, UpdateDataRuns, HeldRun DEF UpdateData
<1>5. Dues' = [Dues EXCEPT ![c] = ElementAt(runs, i).next_run]
  BY <1>4, DueAfterRunOf
<1>6. Dues[c] = ElementAt(runs, i).next_run
  BY <1>4 DEF Dues, DueOf
<1>7. Dues' = Dues
  BY <1>5, <1>6 DEF Dues
<1>8. Busy = {} /\ Busy' = {}
  BY <1>2, IdleIsNotBusy DEF Busy, InExecutor
<1> QED BY <1>2, <1>7, <1>8 DEF Promised!vars, Dues, Busy

LEMMA StopGuardCancels ==
  ASSUME RunnerInv, NEW c \in Clients, StopGuard(c)
  PROVE  Promised!Cancel(c)
<1>1. TypeOK /\ GuardInv /\ ScanInv
  BY DEF RunnerInv
<1>2. ~InExecutor /\ ~InExecutor' /\ stopper = "idle" /\ stopper' = "idle"
      /\ UNCHANGED <<now, fired>> /\ asked' = [asked EXCEPT ![c] = {}]
  BY <1>1, UpdateFindsItIdle DEF StopGuard, firedVars, InExecutor, ScanInv
<1>3. PICK i : i = held[c]
  OBVIOUS
<1>4. /\ i \in OccupiedIndexes(runs) /\ ElementAt(runs, i).owner = c /\ RunsOf(c) = {i}
      /\ i \notin OccupiedIndexes(runs)' /\ KeepsRuns({i})
  BY <1>1, <1>3, StopGuardRuns, HeldRun DEF StopGuard
<1>5. RunsOf(c)' = {}
  BY <1>4 DEF KeepsRuns, RunsOf
<1>6. DueOf(c)' = Never
  BY <1>5 DEF DueOf
<1>7. ASSUME NEW b \in Clients \ {c}
      PROVE  DueOf(b)' = DueOf(b)
  <2>1. RunsOf(b)' = RunsOf(b)
    BY <1>4 DEF KeepsRuns, RunsOf
  <2>2. \A j \in RunsOf(b) : ElementAt(runs', j) = ElementAt(runs, j)
    BY <1>4 DEF KeepsRuns, RunsOf
  <2> QED BY <2>1, <2>2, DueStays
<1>8. Dues' = [Dues EXCEPT ![c] = Never]
  BY <1>6, <1>7 DEF Dues
<1>9. Busy = {} /\ Busy' = {}
  BY <1>2, IdleIsNotBusy DEF Busy, InExecutor
<1> QED BY <1>2, <1>8, <1>9 DEF Promised!Cancel, Dues, Busy

LEMMA DropCloses ==
  ASSUME RunnerInv, Drop
  PROVE  Promised!Close
<1>1. TypeOK /\ ScanInv
  BY DEF RunnerInv
<1>2. /\ UNCHANGED <<now, fired, asked, stage>> /\ runs' = runs
      /\ stopper = "idle" /\ stopper' # "idle"
  BY DEF Drop, scanVars, clientVars, firedVars
<1>3. ~InExecutor
  BY <1>1, UpdateFindsItIdle DEF Drop, Poisoned, ScanInv
<1>4. Busy = {} /\ Busy' = {}
  BY <1>2, <1>3 DEF Busy, InExecutor
<1> QED BY <1>2, <1>4, DuesStay DEF Promised!Close, Dues, Busy

LEMMA ExecuteFires ==
  ASSUME RunnerInv, Execute
  PROVE  Run.owner \in Clients /\ Promised!Fire(Run.owner)
<1>1. TypeOK /\ GuardInv /\ ScanInv
  BY DEF RunnerInv
<1>2. PICK c : c = Run.owner
  OBVIOUS
<1>3. /\ UNCHANGED <<now, asked, stopper>> /\ UNCHANGED <<runs, passed>>
      /\ stage = "scanning" /\ thread = "locked" /\ stage' = "executing"
      /\ Upcoming # None /\ Run.next_run # Never /\ Run.next_run <= now
      /\ fired' = [fired EXCEPT ![c] = Run.next_run]
  BY <1>2 DEF Execute, Due, AtEntry, Hold, clientVars
<1>4. stopper = "idle"
  BY <1>1, <1>3 DEF ScanInv
<1>5. c \in Clients /\ Upcoming \in OccupiedIndexes(runs)
      /\ Run = ElementAt(runs, Upcoming)
  BY <1>1, <1>2, <1>3, UpcomingRun DEF Run
<1>6. RunsOf(c) = {Upcoming}
  BY <1>1, <1>2, <1>5 DEF RunsOf, GuardInv, OneRunEach
<1>7. Dues[c] = Run.next_run
  BY <1>5, <1>6 DEF Dues, DueOf
<1>8. Busy = {} /\ Busy' = {c}
  BY <1>2, <1>3, SameEntry DEF Busy, InExecutor
<1>9. Dues' = Dues
  BY <1>3, DuesStay
<1>10. Promised!Fire(c)
  BY <1>3, <1>4, <1>7, <1>8, <1>9 DEF Promised!Fire, Dues, Busy
<1> QED BY <1>2, <1>5, <1>10

LEMMA UpdateNextRunRenews ==
  ASSUME RunnerInv, UpdateNextRun
  PROVE  \E c \in Clients, s \in Schedules : Promised!Renew(c, s)
<1>1. TypeOK /\ GuardInv /\ ScanInv
  BY DEF RunnerInv
<1>2. PICK i, c, s : i = Upcoming /\ c = Run.owner /\ s = Run.sched
  OBVIOUS
<1>3. /\ UNCHANGED <<now, asked, fired, stopper>>
      /\ stage = "executing" /\ stage' = "scanning" /\ i # None
  BY <1>1, <1>2 DEF UpdateNextRun, clientVars, ScanInv, InExecutor
<1>4. /\ i \in OccupiedIndexes(runs) /\ ElementAt(runs, i) = Run
      /\ c \in Clients /\ s \in Schedules
  BY <1>1, <1>2, <1>3, UpcomingRun DEF Run
<1>5. /\ i \in OccupiedIndexes(runs)' /\ ElementAt(runs', i).owner = c
      /\ ElementAt(runs', i).next_run = NextRun(s)
      /\ KeepsRuns({i})
  BY <1>1, <1>2, UpdateNextRunRuns
<1>6. \A j \in RunsOf(c) : j = i
  BY <1>1, <1>2, <1>4 DEF RunsOf, GuardInv, OneRunEach
<1>7. Dues' = [Dues EXCEPT ![c] = NextRuns[s][now]]
  BY <1>2, <1>4, <1>5, <1>6, DueAfterRunOf DEF NextRun
<1>8. asked[c] = {s}
  BY <1>1, <1>2, <1>4 DEF GuardInv, RunIsKnown
<1>9. Busy = {c} /\ Busy' = {}
  BY <1>2, <1>3 DEF Busy, InExecutor
<1> QED BY <1>3, <1>4, <1>7, <1>8, <1>9 DEF Promised!Renew, Dues, Busy

LEMMA TickPasses ==
  ASSUME RunnerInv, Tick
  PROVE  Promised!Pass \/ UNCHANGED Promised!vars
<1>1. /\ UNCHANGED <<asked, fired, stopper>> /\ UNCHANGED <<runs, passed>>
      /\ InExecutor' = InExecutor
      /\ now' = IF now < LastInstant THEN now + 1 ELSE now
  BY DEF Tick, scanVars, clientVars, firedVars, InExecutor
<1>2. Busy' = Busy
  BY <1>1, SameEntry DEF Busy, InExecutor
<1>3. Dues' = Dues
  BY <1>1, DuesStay
<1> QED BY <1>1, <1>2, <1>3 DEF Promised!Pass, Promised!vars, Dues, Busy

(* Everything else goes on behind the promise. *)
LEMMA OthersStutter ==
  ASSUME UNCHANGED <<now, asked, fired, stopper>>, runs' = runs,
         \/ UNCHANGED <<stage, passed>>
         \/ ~InExecutor /\ ~InExecutor'
  PROVE  UNCHANGED Promised!vars
<1>1. Busy' = Busy
  BY SameEntry DEF Busy, InExecutor
<1> QED BY <1>1, DuesStay DEF Promised!vars, Dues, Busy

(***************************************************************************)
(* ScheduleRunnerIsCorrect: whatever the thread, its scans, its naps, the  *)
(* guards and the reused entries of the map do, a client sees what         *)
(* Subscriptions allows: its event is executed when it is due and not      *)
(* before, by the schedule it asked for last, and never after the end.     *)
(***************************************************************************)
THEOREM ScheduleRunnerIsCorrect == Spec => ImplementsSubscriptions
<1>1. Init => Promised!Init
  <2> SUFFICES ASSUME Init PROVE Promised!Init
    OBVIOUS
  <2>1. OccupiedIndexes(runs) = {} /\ stage = "idle"
    BY NewMapFacts DEF Init
  <2>2. Dues = [c \in Clients |-> Never] /\ Busy = {}
    BY <2>1 DEF Dues, DueOf, RunsOf, Busy, InExecutor
  <2> QED BY <2>2 DEF Init, Promised!Init, Dues, Busy
<1>2. ASSUME RunnerInv, [Next]_vars
      PROVE  [Promised!Next]_(Promised!vars)
  <2>1. ASSUME NEW c \in Clients, NEW s \in Schedules, NEW d \in Data, Schedule(c, s, d)
        PROVE  Promised!Next
    BY <1>2, <2>1, ScheduleAsks DEF Promised!Next
  <2>2. ASSUME NEW c \in Clients, NEW s \in Schedules, UpdateSchedule(c, s)
        PROVE  Promised!Next
    BY <1>2, <2>2, UpdateScheduleAsks DEF Promised!Next
  <2>3. ASSUME NEW c \in Clients, NEW d \in Data, UpdateData(c, d)
        PROVE  UNCHANGED Promised!vars
    BY <1>2, <2>3, UpdateDataStutters
  <2>4. ASSUME NEW c \in Clients, StopGuard(c)
        PROVE  Promised!Next
    BY <1>2, <2>4, StopGuardCancels DEF Promised!Next
  <2>5. CASE Drop
    BY <1>2, <2>5, DropCloses DEF Promised!Next
  <2>6. CASE Execute
    BY <1>2, <2>6, ExecuteFires DEF Promised!Next
  <2>7. CASE UpdateNextRun
    BY <1>2, <2>7, UpdateNextRunRenews DEF Promised!Next
  <2>8. CASE Tick
    BY <1>2, <2>8, TickPasses DEF Promised!Next
  <2>9. CASE Join
    <3>1. UNCHANGED <<now, asked, fired>> /\ runs' = runs /\ UNCHANGED <<stage, passed>>
          /\ stopper # "idle" /\ stopper' # "idle"
      BY <2>9 DEF Join, scanVars, clientVars, firedVars
    <3>2. Busy' = Busy
      BY <3>1, SameEntry DEF Busy, InExecutor
    <3> QED BY <3>1, <3>2, DuesStay DEF Promised!vars, Dues, Busy
  <2>10. CASE \/ \E c \in Clients : Forget(c)
              \/ Spurious \/ UNCHANGED vars
              \/ /\ WaitUpdate \/ TimeOut \/ Relock
                 /\ UNCHANGED <<quit, runs, scanVars, now, clientVars, firedVars, late, stopper>>
              \/ Quit \/ ExecutorPanics
    <3>1. UNCHANGED <<now, asked, fired, stopper>> /\ runs' = runs /\ UNCHANGED <<stage, passed>>
      BY <2>10
      DEF Forget, Spurious, vars, scanVars, clientVars, firedVars, Quit, ExecutorPanics
    <3> QED BY <3>1, OthersStutter
  <2>11. CASE BeginScan \/ PassDormant \/ PassNotDue \/ EndScan
    <3>1. UNCHANGED <<now, asked, fired, stopper>> /\ runs' = runs
          /\ ~InExecutor /\ ~InExecutor'
      BY <2>11
      DEF BeginScan, PassDormant, PassNotDue, AtEntry, EndScan, clientVars, firedVars, InExecutor
    <3> QED BY <3>1, OthersStutter
  <2> QED
    BY <1>2, <2>1, <2>2, <2>3, <2>4, <2>5, <2>6, <2>7, <2>8, <2>9, <2>10, <2>11
    DEF Next, Callers, RunnerThread, LoopBody
<1> QED BY <1>1, <1>2, RunnerInvariant, PTL DEF Spec, ImplementsSubscriptions, Promised!Spec
=============================================================================
