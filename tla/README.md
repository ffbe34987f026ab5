# A verification project for rinklers

rinklers controls a sprinkler system: it switches *sections* (irrigation
zones) on for a while, one at a time, runs *programs* (sequences of sections)
on *schedules*, and takes orders over MQTT. It is a small program with many
threads; what is hard in it is how they wake, tell and wait for one another.

Paths below are relative to the repository; module names are files here.

## Inventory

| Component | State | Operations | Talks to |
|---|---|---|---|
| `WaitPeriod`, `RunnerState` (`src/util.rs`) | data behind a mutex; a condition variable | `update` (lock, change, notify), `wait_update_for_period` | under both runners |
| `SectionRunner` (`src/section_runner.rs`) | `quit`, queue of runs; in its thread the current run and the next wait | `run_section`, `stop`, the thread's loop | sections (`set_state`), callers (a channel for each run) |
| `Schedule` (`src/schedule.rs`) | times, weekdays, `from`, `to` | `next_run_after` | chrono |
| `IndexMap` (`src/schedule_runner.rs`, `mod index_map`) | entries, `next_empty` | `insert`, `remove`, `retain`, indexing, iteration | `ScheduleRunner` |
| `ScheduleRunner` (`src/schedule_runner.rs`) | `quit`, an `IndexMap` of runs with their `next_run` | `schedule`, the guards' `stop`, `update_schedule`, `update_data`, `Drop`, the thread's loop | an `Executor`, called with the mutex held |
| `Program` (`src/program.rs`) | name, sequence, schedule, a callback | `queue_run`, `run_sync`, setters | `SectionRunner` |
| `ProgramRunner` (`src/program_runner.rs`) | a `ScheduleRunner` whose executor holds a `SectionRunner` | `schedule_program`, `stop` | both runners |
| `MqttApi` (`src/mqtt_api.rs`) | `running`, the client, `Arc<State>` | `start_new`, `stop` (flag, signal, join), the thread: connect, reconnect, publish, serve | broker, sections, `SectionRunner` |
| `State`, `main` (`src/main.rs`) | everything above | `from_config`, `stop_all` | everything above |
| `Section` (`src/section.rs`) | an atomic flag | `set_state`, `state` | |
| durations as text (`src/util.rs`) | none | parse, print | config, logging, answers |
| `Config` (`src/config.rs`) | none | JSON to sections and programs | |

`src/blocking_queue.rs` is in no `mod` declaration and is not compiled.

What makes each of them correct:

- **RunnerState**: an update reaches the thread it is meant for.
- **SectionRunner**: one section on at a time, and only during its run; runs in
  the order they were queued; every caller told once how its run ended; the
  thread sleeps neither too long nor too short; it stops when told to.
- **Schedule**: the answer is the first matching instant within the bounds, and
  may be kept until then.
- **IndexMap**: an index stays its owner's; freed entries are used again.
- **ScheduleRunner**: events are executed when they are due, in order, by the
  schedule last asked for and with the data last given, and not after their
  guard was stopped; none is executed twice for an instant the clock has left.
- **Program, ProgramRunner**: `run_sync` returns when the whole program is
  over; the executor does not keep the schedule runner's mutex.
- **MqttApi**: a request that is answered with success was carried out, once, and
  no other was; a lost connection is made again; `stop` ends the thread.
- **State, main**: shutdown gets the state back, comes to an end and leaves
  nothing behind.
- **durations as text**: what was printed is read as it was; any other text means
  the sum of its units, or is refused.

What is hard to test here, each with its line and the properties aimed at it,
is listed under `hazards` in `PROJECT.json`.

## Modules

    WaitPeriod <- RunnerState <- SectionRunner <- ProgramRunner <- MCProgramRunner
                       ^           |                   ^
                       |       SectionRuns             |
                       |                        MqttApi, Rinklers <- MCRinklers
                       |                                   |
                       |                                Orders
    IndexMap <--- ScheduleRunner <- MCScheduleRunner
        ^              |
        |        Subscriptions
        |
    IndexMapClients <- MCIndexMap

    Calendar <- Schedule <- ScheduleClock <- MCSchedule

    DurationText <- MCDurationText

`A <- B`: B extends A; Rinklers extends both ProgramRunner and MqttApi.
SectionRunner instantiates SectionRuns, ScheduleRunner instantiates
Subscriptions and Rinklers instantiates Orders, the specifications they
implement; MCScheduleRunner instantiates Schedule to compute the answers it
uses.

The proofs:

    RunnerFacts <- SectionRunnerProofs <- RinklersProofs
         ^
         +-------- ScheduleRunnerProofs
                        |
                        v
                  IndexMapFacts <- IndexMapProofs, ScheduleProofs, DurationTextProofs

Each of the modules with `Proofs` in its name extends the module it is about;
RinklersProofs is about ProgramRunner too, which Rinklers extends.
RunnerFacts holds what both runners need to know of RunnerState and WaitPeriod;
IndexMapFacts, what the operations of the map do to its contents and its chain,
and, for ScheduleProofs and DurationTextProofs too, the least elements of sets
of numbers.

### RunnerState

`thread` says where a runner thread is: at the `top` of its loop with the mutex
free, `waiting` on the condition variable, `woken` but without the mutex yet,
`locked` in the body of its loop, `exited` or `panicked`. `Update` is the
conjunct of every call that goes through `RunnerState::update`: it needs the
mutex, and its notification reaches only a thread that is `waiting`.
`WaitUpdate` is `wait_condvar`, which starts to wait without looking at the
data; a time-out, a spurious wake-up and a notification all lead to `woken`.
The runner's user gives the loop body, which ends in `Continue`, `Return` or
`Panic`.

Time is counted in units; `timer` is what is left of a `wait_timeout`. A
time-out may be late: nothing forces a thread to run at once.

### SectionRunner, SectionRuns

One action per path through the body of `run()`: `Interrupt` and `QuitIdle`
(quit with and without a current run), `FinishRun`, `KeepRunning`, `StartRun`,
`StartPanics`, `Idle`. `current` carries the run's age, counted up to its
duration. Runs are numbered as they are queued, and `sent` is what went through
each run's channel. `SetState` is the MQTT thread's `set_state`, which takes no
lock; `manual` remembers whose state is not the runner's doing.

`StartPanics`: the line `debug!("running section ...")` prints the duration
with `duration_string`, which unwraps a conversion to chrono's duration. Debug
logging is on unless `RUST_LOG` turns it off; to look at the program with it
off, give `MaxChrono` the largest of `Durations`. The `trace!` line at the top
of the loop (`section_runner.rs:136`) prints the durations in the queue too, and
would panic earlier, with a section on, if trace logging were turned on; it is
off unless somebody asks for it, and left out.

`awake` is a history: the time that has passed since the coming wait's period
was computed. It is by that much, and no more, that a wait may be too long for
its run.

`SectionRuns` is the specification for callers: runs accepted in order,
started in order, one under way; shut down while a run is under way, the runner
ends everything; shut down between two runs, it just stops. `Phase` maps the
channels and the queue of SectionRunner to it.

### IndexMap, IndexMapClients

IndexMap has the operations, as operators on a record of the two fields, with
indexes counted from one and `0` for `None`. IndexMapClients puts it to use by
clients that keep the index they were given. `retain` is a loop, one entry at a
time, though nobody looks in between (`&mut self`). The program has the call of
`retain` commented out; it is part of the map all the same.

### Calendar, Schedule, ScheduleClock

Calendar is the part of chrono that is used: days, weekdays, years, and
`with_year`, which fails for a leap day in a common year. There is no daylight
saving: every day has every time once (where a time is missing `and_time`
answers `None` and the candidate is dropped). Schedule is `next_run_after`,
line by line; ScheduleClock lets a clock run past a chosen schedule and states
what the answers should be, from a definition that only says which instants
match. `FromIsLost` is the one case in which an answer may be before `from`: the
bound is a leap day, `from < to` moves it to the next year, and `with_year`
answers `None` there, which `next_run_after` takes for no bound at all.

### ScheduleRunner

The clients' calls are actions that take the mutex. The thread's loop is cut at
its readings of the clock: `BeginScan`, then for each entry of the map
`PassDormant`, `PassNotDue` or `Execute`; when the executor is back
`UpdateNextRun` reads the clock again; `EndScan` lets go of the mutex. The mutex
is held all that time, so no client comes in between, but the clock runs on. It
may also stand still: nothing makes it show another instant after the executor
than before (`StandsStill`), and then the run is due again at once. `Forget`
drops a guard without `stop()`, as `main` does with all of its `ProgramGuard`s:
the run stays. `Drop` needs all guards gone, as the borrow checker does. What
`next_run_after` answers is a constant, `NextRuns`. `asked` and `given` remember
the schedule and the data each client last set, `fired` the instant its run was
last executed for, and `still` the clients for which the clock stood still at
the last `update_next_run`.

`Subscriptions` is the specification for clients: each has a schedule or none,
and an instant at which its event is due; one event is executed at a time, not
before it is due, and then a new instant is looked for. The mapping takes a
client's instant from its run in the map, wherever in the map that is, so that
an index that led to another client's run, an old schedule's instant or an
execution after `stop()` would each be a step Subscriptions does not have.

### ProgramRunner

SectionRunner with workers: threads in `run_sync`, and the executor's thread.
`QueueItem` is one call of `run_section`; items of different workers mix.
`StopSections`, `JoinSections`, `QuitPrograms` and `JoinPrograms` are
`State::stop_all`: two threads told to quit, and joined, one after the other.
`QuitPrograms` needs the schedule runner's mutex, which the executor holds while
it works; that there is no fairness for `JoinPrograms` is how that join may wait
for ever, as ScheduleRunner's does. When the executor is called is left open (any
time before the schedule runner has its `quit`), which allows more than
ScheduleRunner does. What unwinding drops when main panics in `stop_all` is not
followed further.

### MqttApi, Rinklers

`api` is where the MQTT thread is, and `client` what it has for a connection:
`none`, `cut` (lost, closed or never re-established), `connected`, or
`subscribed`. One action per step of `run` and `run_on_client` between two
places where another thread or the network may come in: the two readings of the
flag, the attempts to connect, the pause after a failed one, the first
publications and subscriptions, the call of `Client::await`, its answers, the
work on a request, and the publication of the answer. `Block` separates the
call of `await` from its blocking system call: a signal in between has no
effect. `Panics` is what a panic of the thread does to what it owns.

`run` drops its parameters in the reverse of their order: the flag before the
state. `leaving` is the moment in between.

Rinklers adds the main thread and puts the parts together. `process_msg` is one
step: what it does (`ProcessSetState`, `ProcessRunFor`, which needs the section
runner's mutex) and how it ends (`Processed`, `ProcessingPanics`); `Code` is the
order of its checks. `ProcessRunFor` queues the run and then panics if the
duration cannot be printed for the answer, as the section runner will when it
comes to that run. From the signal on, the main thread goes through
`UpgradeFlag`, `StoreFlag`, `Kill`, `JoinApi`, `TryUnwrap` and the steps of
`stop_all` in ProgramRunner. `effects` and `answers` are histories: what was
carried out and what was answered.

The broker may deliver a request whenever the thread is subscribed, and the
connection may be lost at any moment; the session is a clean one, so what was
not received is gone then. A publication over a connection that is lost may
still succeed, as long as the client library has not noticed; the first
publications and subscriptions may do so too (`SetUp` over a `cut` connection),
and may fail over any.

`Orders` is the specification for those who send requests and for main: one
request at hand, which is carried out with all it means and then answered with
success, or answered with an error and not carried out. All `run_for` means is
one more run, of the section and the duration asked for, at the end of the queue
(`waiting`), and nothing else there. A request may stay without its answer, but
only as the last one; and after `Close` there is no more of any of it. The
valves and the queue may change meanwhile for other reasons. In Rinklers the
request at hand is done when one more effect than answers of success is there
(`AtHand`), the valves are `state`, and service ends when the thread is gone or
main takes it for gone (`Unserved`): the flag, the signal, the connection and
the panics do not show.

### DurationText

`TextOf` is `chrono_duration_string`; the actions read a text one character at a
time, as `chrono_duration_from_str` does, and `Finish` adds what
`duration_from_str` does with the result. How many of a unit make the next and
the width of an `i64` are parameters. `num` wraps around, or the build panics
(overflow checks are on in debug builds only). A number with no unit after it is
dropped, as the code does. `Meaning` says what a text means without reading it
from left to right.

## Runs

Passing runs, with what they show:

| Run | Instance | Shows |
|---|---|---|
| `section_runner` | 2 sections, 3 runs of 0, 2 or 3 units, 2 the longest that can be printed | safety: `ValveFollowsRun`, `RunsInOrder`, `NotifiedOnce`, `SleepMatchesRun`; SectionRunner implements SectionRuns; liveness: `RunEnds`, `BusyQueueMoves`, `StopWhileRunning` |
| `index_map` | 4 clients, 2 data | `IndexesStayValid`, `InsertNeverPanics`, `FreedInOrder`, `NoLeak` |
| `schedule` | weeks of 3 days, days of 2 instants, years of 4 days (one of 5), 26 instants; every set of times and weekdays with at most one bound, and every pair of bounds with the first weekday and one time | `NextRunIsTheFirst`, `NextRunRespectsBounds`, `AnswerStaysRight` |
| `scheduler_safety` | 2 clients, 2 schedules (weekly, twice a week), an executor that may panic, 5 instants | `FiresAsAsked`, `FiresOnce`, `SleepCoversSeen`, `GuardsStayValid`; ScheduleRunner implements Subscriptions |
| `scheduler_liveness` | 2 clients, 2 schedules (weekly, and one with a yearly last day), 4 instants, no panic | `ScannedRunFires` |
| `program_runner` | 2 callers of `run_sync` and the executor, 2 programs, 4 runs | `RunSyncWaitsForAll`, `ExecutorGoesOn`, `BusyProgramEnds` |
| `rinklers` | 1 section, a program of two items, 2 requests out of 5 (two in error), 3 runs; the second item and a request have a duration that cannot be printed | safety: `AnswersTellEffects`, `OrderlyStop`, `QuietAfterStop`, `EverythingEnds`; Rinklers implements Orders; liveness: `InterruptedApiStops`, `Reconnects` |
| `durations` | the durations up to 1300 and the longest, texts of up to 5 characters, two-digit integers | `ReadsBack`, `ReadsUnits` |

Runs that end in a counterexample, each one a sentence of the documentation
that the code does not keep (`findings` in `PROJECT.json`):

| Run | What happens |
|---|---|
| `section_stop_returns` | An update falls between two waits of the thread. Its notification finds nobody; the wait then begins without a look at the data, and `stop()` hangs. |
| `section_stop_discards` | `quit` is seen between two runs: the queue is left as it is. |
| `schedule_window` | `from < to` moves `from` to the next year, so nothing happens between two bounds (or, if `from` is a leap day, it is dropped and things happen too early). |
| `scheduler_dormant` | After a yearly last day `next_run_after` answers `None` though runs come next year, and the schedule runner never asks again. |

The first row has consequences no run repeats: a run may stay in the queue, so
that `run_sync` waits for ever; ScheduleRunner waits in the same way, so that an
event may be scheduled and never executed, and dropping it may hang as `stop()`
does. The liveness properties that hold say what can be relied on:
whatever the thread has seen, or is running meanwhile, is not forgotten.

What holds has its limits, which the properties spell out:

- After a panic of the MQTT thread the last request may have its effect and no
  answer (`AnswersTellEffects`), the join may fail, and main may stop at its
  assertion "something still has a reference to the global state", because the
  thread's flag is gone before its state (`OrderlyStop`).
- Without any panic of that thread, `stop()` may itself panic: the thread may
  read the flag that `stop()` has lowered, leave and be gone before
  `pthread_kill`, which may then fail, and `mqtt_api.rs:375-379` panics instead
  of joining. What `pthread_kill` answers for a thread that has ended and was
  not joined depends on the platform (recent C libraries answer 0), so both
  outcomes are in the model, and `kill_failed` is one of the ways `OrderlyStop`
  allows main to end.
- `EverythingEnds` allows runs that are left in the queue. A program that
  triggers after the section runner has stopped queues runs nobody takes, and
  `section_stop_discards` leaves some as well; they switch nothing on.
- `InterruptedApiStops` leaves out the signal that comes between the reading of
  the flag and the system call: the thread then waits for the broker's next
  message, and main with it.
- An answer of `next_run_after` may be the very instant asked about. An event is
  therefore executed again, for the same instant, as long as the clock still
  shows it when `update_next_run` reads it; `FiresOnce` says that this is the
  only way. With chrono's nanoseconds it takes a clock of coarse resolution.
- `NextRunRespectsBounds` excepts a `from` that is lost (`FromIsLost`).

One more divergence has no run, because it shows in a single step: the
documentation of `ScheduleRunner::start_new` says that the thread "will be
detached rather than stopped" if the runner is dropped without a call of `stop`,
while `Drop` sets `quit` and joins it, and `stop` does nothing else.

### Bounds, and why they are enough

- Three section runs (`MaxRuns`) are one current, one waiting and one that comes
  late; duration 0 expires at once, 2 can be interrupted at different ages, 3
  cannot be printed.
- Four clients of the map make chains of up to four freed entries, long enough
  for every combination of reuse from the head and removal in the middle.
- The calendar is periodic; 26 instants are more than three years of it, with a
  leap year (the second) whose leap day is a possible bound, and a week
  (six instants) is not a divisor of a year (eight), so weekdays move through
  the year.
- ScheduleRunner's calendar has weeks of three days, years of four, and one
  instant a day. Of its three schedules `weekly` triggers on the last day of
  every week and `twice` on the day before as well, so that runs come on two days
  in a row and a change of schedule moves the next one forward or back; `season`
  triggers on the day before the last, with a yearly last day that makes it
  dormant. Five instants hold the runs of one week and the time after
  them; the counterexample of `scheduler_dormant` needs the second year.
  Two clients are enough for one entry to be reused and for a scan to pass one
  entry while executing another. No run falls on the last instant, so that the
  clock's stop is not seen.
- A program of two items and one of a single item that cannot be printed, among
  four runs: two whole programs mix, with and without a panic.

- The whole program has one section and one program: what it adds to the runs
  above is how the threads meet, not how runs queue up. Two requests are one
  that is done and one on its way when the connection breaks, the signal comes
  or the thread dies; three runs are the program's two with a request's before,
  between or after them, or those of two requests. Connections are lost and made
  again without a bound. Of the errors of `Code`, TLC sees a section that does
  not exist and a payload that does not parse.
- Durations are counted in nanoseconds, twelve to a microsecond, so that counts
  of two digits are printed; an `i64` ends at 99, so that three digits overflow,
  microseconds cannot be counted from 100 on, and the longest duration is
  printed. Texts of five characters hold two units with their numbers.

The theorems below do away with all of these bounds for the safety properties;
what the bounds still decide is liveness.

Deadlock is not checked where the system may come to its end (`exited` or
`panicked`, the clock at its bound).

### Fairness

Liveness is checked under `FairSpec`: weak fairness of the runner thread (the
operating system schedules it, and its mutex is held by others only for the
length of a call), of the thread in `join()`, and of the clock. Nobody has to
call anything, and spurious wake-ups, which would hide a lost notification,
need not happen. Workers of ProgramRunner have strong fairness, since the
section runner's mutex may be taken and released again and again while they
wait for it.

In Rinklers (`FairRinklersSpec`) the main thread has weak fairness from
`StoreFlag` on, and the section runner's thread as before; nobody has to send a
signal, and nothing is asked of the clock and the executor. The MQTT thread has
strong fairness, since `run_for` competes for the same mutex, but nothing makes
`Client::await` return except a message, a lost connection or the signal
(`AwaitNothing` may happen and need not). That a signal makes a blocked `await`
fail is what `stop()` says it relies on ("it should interrupt the thread and any
syscalls should result in EINT"); a `thread::sleep` goes on sleeping. `Reconnects`
starts from a client that was never connected (a failed first attempt) as well
as from one that has lost its connection. Nothing makes `StopAllReturns` happen.

`ExecutorGoesOn` says that the executor gives back the schedule runner's mutex
whatever the section runner does. That the two runners' mutexes cannot block each
other rests on it and on the reading of the code: the section runner's thread
never asks for the other mutex, which is in no module together with it.

## Proofs

Every safety property of a passing run, action properties and refinements
included, is a theorem for all values of the constants. TLC has checked the
inductive invariants on the instances above before they were proved.

### SectionRunnerProofs

For any sections, durations and number of runs,

- `TypeCorrect`, `ValveCorrect`, `OrderCorrect`, `NotifyCorrect`,
  `SleepCorrect`: `Spec => []P` for the type invariant and the four safety
  properties of `section_runner`;
- `SectionRunnerIsCorrect`: `Spec => ImplementsSectionRuns`.

The assumptions are those of `SectionRunnerAssumption`: durations are natural
numbers. The properties about the callers are not inductive: that run `j` hears
its first word after run `i < j` heard its last is kept only because the queue
holds the runs that heard nothing, in order, without gaps. `RunInv` says so:
`QueueHoldsTheRest`, `CurrentCameLast` (the current run is the last one that
left the queue), `HeardNothingYet` (those still in it) and `HeardItAll` (those
that left before, but for the one a panic dropped). `SleepInv` adds
`PeriodMatchesRun`: what the thread is about to sleep for suits the run, which
has to survive the gap between computing it and waiting. `ValveFollowsRun` is
inductive beside the type invariant.

For the refinement, each action is a step of SectionRuns or a stutter. `RunInv`
is what makes it so: the run a step takes from the queue is the first one that
still waits, and the run it ends is the only one under way. `Interrupt` is the
step with most to show: it ends the current run and all that wait, at once.

### RunnerFacts, IndexMapFacts

- `PeriodsAreOrdered`, `MinIsShortest`: `Ord::cmp` of wait periods is a total
  order, which Rust asks of it and cannot check, and `min` of two periods is one
  of them and no longer than either. The scan of the schedule runner takes its
  next wait from this.

The lemmas on IndexMap say of `Insert` and `Remove` which element each index
leads to afterwards, and that the chain from `next_empty` stays what it should
be, for any map, without variables; both users of the map build on them.

### IndexMapProofs

For any finite number of clients and any data,

- `MapTyped`, `GuardsCorrect`, `ChainCorrect`, `NeverPanics`, `MapNeverLeaks`.

The invariant is `MapInv`: `IndexesStayValid` needs that `next_empty` leads to
no element, which is `FreedInOrder`, and that needs the order of the chain. The
auxiliary variable `freed` is that order. `NoLeak` is not inductive on its own:
it follows from the others when the vector grows only with no entry free.

### ScheduleRunnerProofs

For any clients, data and schedules, and whatever `next_run_after` answers,

- `TypeCorrect`, `GuardsValid`, `SleepCovers`, `FiresInOrder`, `FiresAsWasAsked`:
  `Spec => []P` (action properties in the last two) for what `scheduler_safety`
  checks;
- `ScheduleRunnerIsCorrect`: `Spec => ImplementsSubscriptions`.

`ScheduleRunnerAssumption` asks that an answer is not before the instant asked
about, which is `BoundsAreRespected` of ScheduleProofs, and that no answer is the
instant at which the model's clock stops. `RunnerInvariant` is the inductive
invariant `RunnerInv`, of four parts beside the types:

- `GuardInv`: the chain of the map is intact, who holds an index finds its own
  run there, no client has two runs, and each run, held or not, has the schedule
  and the data its client last set. `GuardsStayValid` follows.
- `ScanInv`: the mutex is held all through a scan, so that the entry under
  execution is still there, and due, when the executor returns; and a runner
  whose `Drop` has begun scans no more.
- `FiredInv`: what a client's run was last executed for is past, and before
  whatever its run in the map has to come, except for the entry at hand, whose
  `next_run` is not replaced until the executor is back, and except where the
  clock stood still meanwhile. `FiresOnce` and `FiresAsAsked` speak of steps; it
  is this invariant that tells which instant the next step may execute.
- `NapInv`: from the moment an entry is passed as not due until the thread waits,
  the coming wait covers it, however late it has become since.

The refinement maps a client's instant to the one of its only run (`OneRunEach`
makes that a function), so that `insert` and `remove` may move other entries
about, and a scan is a stutter until it executes something.

### RinklersProofs

Of ProgramRunner: for any programs (finite sequences of sections and durations)
and any finite number of callers,

- `ProgramTypeCorrect`;
- `ProgramsUseSections`: `ProgramSpec => Spec`. Every step of the programs is a
  step of SectionRunner or leaves it alone, so that the theorems of
  `SectionRunnerProofs` hold with programs at work too;
- `RunSyncCorrect`: `RunSyncWaitsForAll`, for which `ProgramsUseSections` brings
  in `RunInv`. By it a run is over exactly when it has left the queue and is
  not the current one (`OverIsPast`), which it then stays (`OverForGood`), and
  whatever was queued before an ended run has ended (`EarlierIsOver`). `SyncInv`
  adds that a caller's runs come in the order of their numbers
  (`LastIsLargest`), although other callers' runs come between them.

Of Rinklers: for any sections, programs and requests,

- `StopIsOrderly` and `NothingAfterStop`: `OrderlyStop` and `QuietAfterStop`.
  What links the two threads is the flag, and `StopInv` follows it: only main
  lowers it (`FlagUntilStop`), and from `StoreFlag` on it is down (`FlagIsDown`);
  the MQTT thread leaves its loop when it finds it down or in a panic
  (`LeavesForAReason`); and main is past the join, or at a flag that is gone,
  only when the thread is leaving (`LeavesBeforeMain`, `GoneOrPanicked`).
- `RinklersTypeCorrect` and `AnswersAreTrue`: `AnswersTellEffects`. The invariant
  `AnswerInv` adds what links an answer to its effect while the request is at
  hand: its code is the one `process_msg` comes to (`HandlingIsCoded`), the last
  effect is its own and the only one without an answer (`LastIsAtHand`), and
  after a panic there is no further request (`PanicLeaves`).
- `RinklersUsesSections` and `RequestsRunInTurn`: every step of the whole program
  is a step of SectionRunner or leaves it alone. So the runs of requests and of
  programs form one list too.
- `EverythingHasEnded`: `EverythingEnds`. `EndInv` follows main through its
  shutdown; that no valve is left on, and that every run that left the queue
  heard its last word, come from `ValveFollowsRun` and `RunInv`, by
  `RinklersUsesSections`. The schedule runner's thread is not in this module;
  that `Join` comes after its end is in ScheduleRunner.
- `OrdersAreKept`: `RinklersSpec => ImplementsOrders`. A step that receives,
  carries out or answers a request is `Take`, `CarryOut` or `Reply`, every other
  one `Close` or `Meanwhile`. That nothing is at hand when a request is taken is
  `NothingAtHand` and, for what was done, `AnswerInv`; that main has not closed
  by then is `StopInv` (`OpenAtWork`); that an answer of error goes to a request
  that is not as it should be is the order of the checks in `Code`
  (`ProperIsSuccess`); and that no step takes an accepted run back is
  `QueuedGrows`.

### ScheduleProofs

For any calendar that satisfies `CalendarAssumption`, and any schedules whose
times and weekdays exist in it (`ScheduleClockAssumption`, which is what the
types of the code say),

- `NextRunIsFound`: `next_run_after` answers the first instant, from where its
  search begins, that matches and is not past the `to` bound, at most a week
  on, and `None` when there is none at all. The code looks at one candidate for
  each weekday and time. `CandidateIsFirst` says that each is the first instant
  with that weekday and that time, by arithmetic on days and weeks: no such
  instant lies between the reference's day and the candidate's, and the one on
  the day itself, if its time is past, is followed by the next one a week on.
- `ScheduleTypeCorrect`, `BoundsAreRespected`, `FirstRunIsNext` (with one bound at
  most) and `KeptAnswersStayRight` (when no bound repeats) follow: `TypeOK`,
  `NextRunRespectsBounds`, `NextRunIsTheFirst`, `AnswerStaysRight`. The last one
  is what `SchedRun` relies on when it keeps `next_run` between two looks at the
  clock.

`BoundsAreRespected` is about the bounds as they are before `next_run_after` moves
one of them; it moves `from` forward only, so that an answer that keeps to the
moved bound keeps to the first one too, unless that was lost on the way
(`FromIsLost`). The exceptions in the other two are necessary, as the runs
`schedule_window` and `scheduler_dormant` show.

### DurationTextProofs

For any units (each a positive number of the next shorter ones), any width of
the integers, texts of any length and any durations that fit a Duration
(`DurationTextAssumption`),

- `DurationTextTypeCorrect`: the type invariant; `num` fits because it wraps
  around, `dur` because the additions panic first;
- `TextsReadAsUnits`: `ReadsUnits`. `UnitsInv` says how far the reading has
  come: `dur` is the sum over the units before `pos`, `num` the number the
  digits since the last of them make. Where the reader sees a character `Meaning`
  sees sets of positions, so that most of the work is in showing how one more
  digit moves the weights of those before it, and one more unit adds one
  summand; the letter after an `m`, `u` or `n` is the exception, read with a
  number that is zero;
- `PrintedIsReadBack`: `ReadsBack`. The text of a duration is laid out in eight
  parts, some of them empty (`PartsLaidOut`); `Halfway` says what `num` and `dur`
  are within each (`InPart`), and `PrintedInv` that the reader gets from one to
  the next. That the parts add up to the duration (`PartsGiveBack`) is
  arithmetic on quotients: the hours left of the days are
  `dur \div h - (dur \div d) * (d \div h)`, because a day is a whole number of
  hours (`QuotientOfQuotient`).

These are inductions, over texts and over the digits of a number, and the
library's induction theorems are of no use here, since they take a predicate as a
parameter. The module does without, from the fact that a set of natural numbers
has a least element (`LeastOf` of IndexMapFacts): in `NumbersInduct` and
`FiniteSetsInduct` the property is a *set*, of the numbers or finite sets that
have it, and `Recursion` shows once that a function defined by recursion on
smaller numbers satisfies its equation, as `ToText` and `PowerOfTen` do. For
`SumFunction` of the community modules, a fold over a finite set, `SumExists`
shows the same, and `SumOfOneMore` that the order of its elements makes no
difference.

### Model-checked only

Liveness, everywhere: it needs `ENABLED`, which the provers do not know.

## Not modelled

- The texts of the answers, the retained topics (`connected`, `sections/...`),
  the acknowledgements and keep-alive of the client library, and everything the
  broker does beyond delivering requests.
- What a second signal to the process does, and what happens before `main` waits
  for the first.
- ScheduleRunner and ProgramRunner in one module: the executor is called at any
  time instead, which allows more than the code does.
- The setters of Program and its update callback: they need exclusive access to
  a program that is always shared.
- `Config`: read once, before there is anything to interleave with.
- Logging, formatting and JSON, but for the panic above.
- `wait_receiver`, `wait_update`, `notify_update`, the read-only iterators of
  IndexMap: no caller.
- The clock going backwards, and daylight saving.

## Plan

The schedule runner calling the program runner, in one module: its theorems
carry over if each of the two only uses the other's specification, as programs
and requests do with SectionRunner.
