-------------------------- MODULE RinklersProofs ---------------------------
(***************************************************************************)
(* Proofs about programs at work (ProgramRunner) and about the whole       *)
(* program (Rinklers), for any programs, callers of run_sync, sections,    *)
(* durations and requests.  Programs, requests and stop_all are but ways   *)
(* of using the section runner, so that what was proved of it alone holds  *)
(* here as well.                                                           *)
(***************************************************************************)
EXTENDS Rinklers, SectionRunnerProofs, FiniteSetTheorems

(* ProgramRunner: when run_sync returns. *)

(* What a worker has to do is made of sections and durations. *)
LEMMA ItemsAreTyped ==
  ASSUME ProgramTypeOK, NEW w \in Workers, NEW k \in Nat, k < Len(Items(w))
  PROVE  /\ Items(w)[k + 1].sec \in Sections
         /\ Items(w)[k + 1].dur \in Durations
<1> DEFINE Item == [sec : Sections, dur : Durations]
           items == Items(w)
<1>1. items \in Seq(Item)
  BY ProgramAssumption DEF ProgramTypeOK, Items
<1>2. Items(w)[k + 1] \in Item
  <2> HIDE DEF Item, items
  <2>1. items[k + 1] \in Item
    BY <1>1 DEF items
  <2> QED BY <2>1 DEF items
<1> QED BY <1>2

LEMMA NotifiersAreTyped ==
  ASSUME ProgramTypeOK, NEW w \in Workers
  PROVE  /\ notifiers[w] \in Seq(1 .. queued)
         /\ Len(notifiers[w]) \in Nat
         /\ queued \in Nat
BY SectionRunnerAssumption DEF ProgramTypeOK, TypeOK

(* A step of the programs is a step of the section runner, or none. *)
LEMMA ProgramStepsAreSectionSteps ==
  ASSUME ProgramTypeOK, [ProgramNext]_programVars
  PROVE  [Next]_vars
<1>1. ASSUME NEW w \in Threads, NEW p \in Programs, RunSync(w, p)
      PROVE  [Next]_vars
  BY <1>1 DEF RunSync, Begin
<1>2. ASSUME NEW p \in Programs, Execute(p)
      PROVE  [Next]_vars
  BY <1>2 DEF Execute, Begin
<1>3. ASSUME NEW w \in Workers, Worker(w)
      PROVE  [Next]_vars
  <2>1. CASE QueueItem(w)
    <3> DEFINE item == Items(w)[Len(notifiers[w]) + 1]
    <3>1. RunSection(item.sec, item.dur)
      BY <2>1 DEF QueueItem
    <3>2. item.sec \in Sections /\ item.dur \in Durations
      BY <2>1, ItemsAreTyped, NotifiersAreTyped DEF QueueItem
    <3> QED BY <3>1, <3>2 DEF Next, Callers
  <2> QED BY <1>3, <2>1 DEF Worker, QueuePanics, EndQueueing, EndWaiting
<1>4. CASE StopSections \/ JoinSections \/ QuitPrograms \/ JoinPrograms
  BY <1>4 DEF StopSections, JoinSections, QuitPrograms, JoinPrograms, Next, Callers
<1>5. CASE SectionThread \/ Environment
  BY <1>5 DEF SectionThread, Environment, Next
<1>6. CASE UNCHANGED programVars
  BY <1>6 DEF programVars
<1> QED BY <1>1, <1>2, <1>3, <1>4, <1>5, <1>6 DEF ProgramNext

(* Runs are only ever added, so that a run's number stays a run's number. *)
LEMMA QueuedGrows ==
  ASSUME TypeOK, [Next]_vars
  PROVE  queued' \in Nat /\ queued \in Nat /\ queued <= queued'
<1> USE SectionRunnerAssumption DEF TypeOK
<1>1. CASE \E s \in Sections, d \in Durations : RunSection(s, d)
  BY <1>1 DEF RunSection
<1>2. CASE UNCHANGED queued
  BY <1>2
<1> QED
  BY <1>1, <1>2
  DEF Next, Callers, RunnerThread, LoopBody, SetState, Stop, Join, Interrupt, QuitIdle,
      FinishRun, KeepRunning, StartRun, StartPanics, Idle, Spurious, Tick, dataVars, vars

(* The numbers a worker holds are still those of runs. *)
LEMMA NotifiersStayTyped ==
  ASSUME ProgramTypeOK, [Next]_vars, notifiers' = notifiers
  PROVE  notifiers' \in [Workers -> Seq(1 .. queued')]
<1>1. queued \in Nat /\ queued' \in Nat /\ queued <= queued'
  BY QueuedGrows DEF ProgramTypeOK
<1>2. Seq(1 .. queued) \subseteq Seq(1 .. queued')
  BY <1>1
<1> QED BY <1>2 DEF ProgramTypeOK

LEMMA ProgramStepKeepsTypes ==
  ASSUME ProgramTypeOK, [ProgramNext]_programVars
  PROVE  ProgramTypeOK'
<1>1. [Next]_vars
  BY ProgramStepsAreSectionSteps
<1>2. TypeOK'
  BY <1>1, StepKeepsTypes DEF ProgramTypeOK
<1> USE <1>2
<1>3. ASSUME NEW w \in Workers, NEW p \in Programs, Begin(w, p)
      PROVE  ProgramTypeOK'
  <2>1. queued' = queued
    BY <1>3 DEF Begin, vars, dataVars
  <2>2. notifiers' \in [Workers -> Seq(1 .. queued')]
    BY <1>3, <2>1 DEF Begin, ProgramTypeOK
  <2> QED BY <1>3, <2>2 DEF Begin, ProgramTypeOK
<1>4. ASSUME NEW w \in Workers, Worker(w)
      PROVE  ProgramTypeOK'
  <2>1. CASE QueueItem(w)
    <3>1. queued' = queued + 1 /\ queued \in Nat
      BY <2>1, NotifiersAreTyped DEF QueueItem, RunSection
    <3>2. \A v \in Workers : notifiers[v] \in Seq(1 .. queued')
      BY <3>1, NotifiersAreTyped
    <3>3. Append(notifiers[w], queued + 1) \in Seq(1 .. queued')
      BY <3>1, <3>2
    <3>4. notifiers' \in [Workers -> Seq(1 .. queued')]
      BY <2>1, <3>2, <3>3 DEF QueueItem, ProgramTypeOK
    <3> QED BY <2>1, <3>4 DEF QueueItem, ProgramTypeOK
  <2>2. CASE QueuePanics(w)
    BY <2>2, <1>1, NotifiersStayTyped DEF QueuePanics, ProgramTypeOK
  <2>3. CASE EndQueueing(w)
    BY <2>3, <1>1, NotifiersStayTyped DEF EndQueueing, ProgramTypeOK
  <2>4. CASE EndWaiting(w)
    BY <2>4, <1>1, NotifiersStayTyped DEF EndWaiting, ProgramTypeOK
  <2> QED BY <1>4, <2>1, <2>2, <2>3, <2>4 DEF Worker
<1>5. CASE StopSections \/ JoinSections \/ QuitPrograms \/ JoinPrograms
  BY <1>5, <1>1, NotifiersStayTyped
  DEF StopSections, JoinSections, QuitPrograms, JoinPrograms, jobVars, ProgramTypeOK
<1>6. CASE SectionThread \/ Environment \/ UNCHANGED programVars
  BY <1>6, <1>1, NotifiersStayTyped
  DEF SectionThread, Environment, programVars, jobVars, ProgramTypeOK
<1>7. Threads \subseteq Workers /\ Executor \in Workers
  BY DEF Workers
<1> QED BY <1>3, <1>4, <1>5, <1>6, <1>7 DEF ProgramNext, RunSync, Execute

LEMMA ProgramInitTypes == ProgramInit => ProgramTypeOK
BY InitTypes DEF ProgramInit, ProgramTypeOK

(***************************************************************************)
(* ProgramTypeCorrect: what workers hold keeps its type; above all, the    *)
(* notifiers in their hands are those of runs (Program::queue_run).        *)
(***************************************************************************)
THEOREM ProgramTypeCorrect == ProgramSpec => []ProgramTypeOK
BY ProgramInitTypes, ProgramStepKeepsTypes, PTL DEF ProgramSpec

(***************************************************************************)
(* ProgramsUseSections: programs at work, run_sync and stop_all among      *)
(* them, are a way of using the section runner, no more.                   *)
(***************************************************************************)
THEOREM ProgramsUseSections == ProgramSpec => Spec
<1>1. ProgramInit => Init
  BY DEF ProgramInit
<1> QED BY <1>1, ProgramTypeCorrect, ProgramStepsAreSectionSteps, PTL DEF ProgramSpec, Spec
-----------------------------------------------------------------------------
(* RunSyncWaitsForAll.  A run is over once it has left the queue and is    *)
(* not the current one, so that runs are over in the order of their        *)
(* numbers, and one that is over stays so.                                 *)

LEMMA OverMeansPast ==
  ASSUME RunInv, NEW i \in 1 .. queued
  PROVE  Over(i) <=> i <= Popped /\ i # current.id
<1>1. Popped \in Nat /\ queued \in Nat /\ queued <= MaxRuns /\ i \in RunIds
  BY PoppedIsNat, SectionRunnerAssumption DEF RunInv, RunIds
<1>2. i \in QueuedIds <=> Popped < i
  BY <1>1, QueuedAreTheRest DEF RunInv
<1>3. CASE i > Popped
  BY <1>1, <1>2, <1>3, Conversations DEF RunInv, HeardNothingYet, Over, SenderDropped
<1>4. CASE i = current.id
  <2>1. current # NoRun
    BY <1>4, <1>1 DEF NoRun, RunIds
  <2>2. sent[i] = <<"Start">>
    BY <2>1, <1>4 DEF RunInv, CurrentCameLast
  <2> QED BY <2>2, <1>4, Conversations DEF Over, SenderDropped
<1>5. CASE i <= Popped /\ i # current.id
  BY <1>1, <1>2, <1>5 DEF RunInv, HeardItAll, Over, SenderDropped
<1> QED BY <1>1, <1>3, <1>4, <1>5

(* The same as an invariant, to be had of the next state as well. *)
OverIsPast ==
  /\ Popped \in Nat /\ queued \in Nat /\ Popped <= queued
  /\ \A i \in 1 .. queued : Over(i) <=> i <= Popped /\ i # current.id

LEMMA PastIsInvariant == RunInv => OverIsPast
BY OverMeansPast, PoppedIsNat DEF RunInv, OverIsPast

LEMMA EarlierIsOver ==
  ASSUME RunInv, NEW i \in 1 .. queued, NEW j \in 1 .. queued, i <= j, Over(j)
  PROVE  Over(i)
<1>1. Popped \in Nat /\ j <= Popped /\ j # current.id /\ queued \in Nat
  BY OverMeansPast, PoppedIsNat DEF RunInv
<1>2. i # current.id
  <2> SUFFICES ASSUME i = current.id PROVE FALSE
    OBVIOUS
  <2>1. current # NoRun
    BY <1>1 DEF NoRun
  <2>2. i = Popped
    BY <2>1 DEF RunInv, CurrentCameLast
  <2> QED BY <1>1, <2>2
<1> QED BY <1>1, <1>2, OverMeansPast

(* What leaves the queue does not come back, and the current run is an old *)
(* one only if it was so before.                                           *)
LEMMA NothingComesBack ==
  ASSUME RunInv, TypeOK', OverIsPast', [Next]_vars
  PROVE  /\ Popped <= Popped'
         /\ current'.id \in {current.id, 0} \/ current'.id > Popped
<1>0. TypeOK /\ TypeOK' /\ Popped \in Nat /\ Popped' \in Nat /\ queued \in Nat
      /\ Popped <= queued
  BY PoppedIsNat DEF RunInv, OverIsPast
<1>1. CASE UNCHANGED <<queue, queued>> /\ current'.id \in {current.id, 0}
  BY <1>1, <1>0 DEF Popped
<1>2. ASSUME NEW s \in Sections, NEW d \in Durations, RunSection(s, d)
      PROVE  Popped <= Popped' /\ current' = current
  BY <1>2, <1>0 DEF RunSection, PushBack, Popped, TypeOK
<1>3. CASE Interrupt
  <2>1. Popped' = queued /\ current'.id = 0
    BY <1>3, <1>0 DEF Interrupt, Popped, NoRun
  <2> QED BY <2>1, <1>0
<1>4. CASE StartRun
  <2>1. Popped' = Popped + 1 /\ Head(queue).id = Popped + 1
    BY <1>4, <1>0, PopTheNext DEF StartRun
  <2>2. current'.id = Popped + 1
    BY <1>4, <2>1 DEF StartRun
  <2> QED BY <1>0, <2>1, <2>2
<1>5. CASE StartPanics
  <2>1. Popped' = Popped + 1 /\ current' = current
    BY <1>5, <1>0, PopTheNext DEF StartPanics
  <2> QED BY <1>0, <2>1
<1>6. CASE Tick
  <2>1. current'.id = current.id
    BY <1>6, <1>0, TickKeepsRun
  <2> QED BY <1>1, <1>6, <2>1 DEF Tick
<1>7. CASE FinishRun
  BY <1>1, <1>7 DEF FinishRun, NoRun
<1> QED
  BY <1>0, <1>1, <1>2, <1>3, <1>4, <1>5, <1>6, <1>7
  DEF Next, Callers, RunnerThread, LoopBody, SetState, Stop, Join, QuitIdle, KeepRunning,
      Idle, Spurious, dataVars, vars

LEMMA OverForGood ==
  ASSUME RunInv, TypeOK', OverIsPast', [Next]_vars, NEW i \in 1 .. queued, Over(i)
  PROVE  Over(i)'
<1>1. queued \in Nat /\ queued' \in Nat /\ queued <= queued'
  BY QueuedGrows DEF RunInv
<1>2. Popped \in Nat /\ i <= Popped /\ i # current.id
  BY OverMeansPast, PoppedIsNat DEF RunInv
<1>3. i <= Popped' /\ i # current'.id
  BY <1>1, <1>2, NothingComesBack DEF OverIsPast
<1> QED BY <1>1, <1>3 DEF OverIsPast

(* A caller's runs come in the order of their numbers, the awaited one is  *)
(* the last of them, and it is over when the caller returns.               *)
LastIsLargest ==
  \A w \in Threads : \A k \in 1 .. Len(notifiers[w]) : notifiers[w][k] <= Awaited(w)

ReturnsWhenOver ==
  \A w \in Threads : job[w] = "returned" /\ notifiers[w] # <<>> => Over(Awaited(w))

SyncInv == LastIsLargest /\ ReturnsWhenOver

LEMMA AwaitedIsRun ==
  ASSUME ProgramTypeOK, NEW w \in Workers, notifiers[w] # <<>>
  PROVE  Awaited(w) \in 1 .. queued
BY NotifiersAreTyped DEF Awaited

LEMMA NotifierIsRun ==
  ASSUME ProgramTypeOK, NEW w \in Workers, NEW k \in 1 .. Len(notifiers[w])
  PROVE  notifiers[w][k] \in 1 .. queued
<1> DEFINE S == 1 .. queued
<1>1. notifiers[w] \in Seq(S)
  BY NotifiersAreTyped
<1> HIDE DEF S
<1>2. notifiers[w][k] \in S
  BY <1>1, ElementOfSeq
<1> QED BY <1>2 DEF S

LEMMA QueueItemKeepsLargest ==
  ASSUME ProgramTypeOK, LastIsLargest, NEW v \in Workers, QueueItem(v)
  PROVE  LastIsLargest'
<1>1. notifiers' = [notifiers EXCEPT ![v] = Append(@, queued + 1)] /\ queued \in Nat
  BY NotifiersAreTyped DEF QueueItem
<1> SUFFICES ASSUME NEW w \in Threads, NEW k \in 1 .. Len(notifiers'[w])
             PROVE  notifiers'[w][k] <= notifiers'[w][Len(notifiers'[w])]
  BY DEF LastIsLargest, Awaited
<1>2. w \in Workers
  BY DEF Workers
<1>3. CASE w # v
  BY <1>1, <1>2, <1>3 DEF LastIsLargest, Awaited, ProgramTypeOK
<1>4. CASE w = v
  <2>1. notifiers'[w] = Append(notifiers[w], queued + 1)
    BY <1>1, <1>2, <1>4 DEF ProgramTypeOK
  <2>2. notifiers[w] \in Seq(1 .. queued) /\ Len(notifiers[w]) \in Nat
    BY <1>2, NotifiersAreTyped
  <2>3. Len(notifiers'[w]) = Len(notifiers[w]) + 1
        /\ notifiers'[w][Len(notifiers'[w])] = queued + 1
    BY <2>1, <2>2
  <2>4. notifiers'[w][k] \in 1 .. queued + 1
    <3>1. CASE k = Len(notifiers[w]) + 1
      BY <3>1, <2>3, <1>1
    <3>2. CASE k # Len(notifiers[w]) + 1
      <4>1. k \in 1 .. Len(notifiers[w])
        BY <3>2, <2>2, <2>3
      <4>2. notifiers[w][k] \in 1 .. queued
        BY <4>1, <1>2, NotifierIsRun
      <4>3. Append(notifiers[w], queued + 1)[k] = notifiers[w][k]
        <5> DEFINE S == 1 .. queued + 1
        <5>1. notifiers[w] \in Seq(S) /\ queued + 1 \in S
          BY <2>2, <1>1
        <5> HIDE DEF S
        <5> QED BY <5>1, <4>1, AppendProperties
      <4> QED BY <4>2, <4>3, <2>1, <1>1
    <3> QED BY <3>1, <3>2
  <2> QED BY <2>3, <2>4, <1>1
<1> QED BY <1>3, <1>4

(* A caller that is left alone still has its runs behind it. *)
LEMMA ReturnedStaysSo ==
  ASSUME ProgramTypeOK, RunInv, ReturnsWhenOver, TypeOK', OverIsPast', [Next]_vars,
         NEW w \in Threads, job'[w] = "returned", job[w] = "returned",
         notifiers'[w] = notifiers[w], notifiers[w] # <<>>
  PROVE  Over(Awaited(w))'
<1>1. Awaited(w) \in 1 .. queued /\ Over(Awaited(w))
  BY AwaitedIsRun DEF ReturnsWhenOver, Workers
<1>2. Awaited(w)' = Awaited(w)
  BY DEF Awaited
<1>3. ASSUME NEW i \in 1 .. queued, Over(i) PROVE Over(i)'
  BY <1>3, OverForGood
<1> QED BY <1>1, <1>2, <1>3 DEF Over, SenderDropped

LEMMA SyncInvStep ==
  ASSUME ProgramTypeOK, RunInv, SyncInv, TypeOK', OverIsPast', [ProgramNext]_programVars
  PROVE  SyncInv'
<1>1. [Next]_vars
  BY ProgramStepsAreSectionSteps
<1> USE DEF SyncInv
<1>2. CASE UNCHANGED <<job, notifiers>>
  <2>1. LastIsLargest'
    BY <1>2 DEF LastIsLargest, Awaited
  <2> QED BY <1>1, <1>2, <2>1, ReturnedStaysSo DEF ReturnsWhenOver
<1>3. ASSUME NEW v \in Workers, NEW p \in Programs, Begin(v, p)
      PROVE  SyncInv'
  <2>1. /\ \A w \in Workers \ {v} : job'[w] = job[w] /\ notifiers'[w] = notifiers[w]
        /\ job'[v] = "queueing" /\ notifiers'[v] = <<>>
    BY <1>3 DEF Begin, ProgramTypeOK
  <2>2. LastIsLargest'
    BY <2>1 DEF LastIsLargest, Awaited, Workers
  <2>3. ReturnsWhenOver'
    BY <1>1, <2>1, ReturnedStaysSo DEF ReturnsWhenOver, Workers
  <2> QED BY <2>2, <2>3
<1>4. ASSUME NEW v \in Workers, QueueItem(v)
      PROVE  SyncInv'
  <2>1. /\ \A w \in Workers \ {v} : notifiers'[w] = notifiers[w]
        /\ job' = job /\ job[v] = "queueing"
    BY <1>4 DEF QueueItem, ProgramTypeOK
  <2>2. ReturnsWhenOver'
    BY <1>1, <2>1, ReturnedStaysSo DEF ReturnsWhenOver, Workers
  <2> QED BY <1>4, <2>2, QueueItemKeepsLargest
<1>5. ASSUME NEW v \in Workers, QueuePanics(v) \/ EndQueueing(v) \/ EndWaiting(v)
      PROVE  SyncInv'
  <2>1. /\ notifiers' = notifiers /\ UNCHANGED vars
        /\ \A w \in Workers \ {v} : job'[w] = job[w]
    BY <1>5 DEF QueuePanics, EndQueueing, EndWaiting, ProgramTypeOK
  <2>2. LastIsLargest'
    BY <2>1 DEF LastIsLargest, Awaited
  <2>3. ASSUME NEW w \in Threads, job'[w] = "returned", notifiers'[w] # <<>>
        PROVE  Over(Awaited(w))'
    <3>1. CASE job[w] = "returned"
      BY <1>1, <2>1, <2>3, <3>1, ReturnedStaysSo
    <3>2. CASE job[w] # "returned"
      <4>1. w = v /\ w # Executor /\ w \in Workers
        BY <2>1, <2>3, <3>2, ProgramAssumption DEF Workers
      <4>2. EndWaiting(w)
        BY <1>5, <2>1, <2>3, <4>1
        DEF QueuePanics, EndQueueing, WaitsForRuns, ProgramTypeOK
      <4>3. Over(Awaited(w))
        BY <4>2 DEF EndWaiting
      <4> QED BY <2>1, <4>3 DEF Over, SenderDropped, Awaited, QueuedIds, vars, dataVars
    <3> QED BY <3>1, <3>2
  <2> QED BY <2>2, <2>3 DEF ReturnsWhenOver
<1>6. CASE \/ StopSections \/ JoinSections \/ QuitPrograms \/ JoinPrograms
           \/ SectionThread \/ Environment
  BY <1>2, <1>6
  DEF StopSections, JoinSections, QuitPrograms, JoinPrograms, SectionThread, Environment, jobVars
<1>7. CASE UNCHANGED programVars
  BY <1>2, <1>7 DEF programVars, jobVars
<1>8. Threads \subseteq Workers /\ Executor \in Workers
  BY DEF Workers
<1> QED
  BY <1>3, <1>4, <1>5, <1>6, <1>7, <1>8 DEF ProgramNext, RunSync, Execute, Worker

(***************************************************************************)
(* RunSyncCorrect: for any programs and any number of callers, run_sync    *)
(* does not return before every item of its program is over, although it   *)
(* waits for the last one only (Program::run_sync).                        *)
(***************************************************************************)
THEOREM RunSyncCorrect == ProgramSpec => []RunSyncWaitsForAll
<1>1. ProgramInit => SyncInv
  BY DEF ProgramInit, SyncInv, LastIsLargest, ReturnsWhenOver, Workers
<1>2. ProgramTypeOK => TypeOK
  BY DEF ProgramTypeOK
<1>3. ProgramTypeOK /\ RunInv /\ SyncInv /\ TypeOK' /\ OverIsPast'
      /\ [ProgramNext]_programVars => SyncInv'
  BY SyncInvStep
<1>4. ProgramTypeOK /\ RunInv /\ SyncInv => RunSyncWaitsForAll
  <2> SUFFICES ASSUME ProgramTypeOK, RunInv, SyncInv, NEW w \in Threads,
                      job[w] = "returned", NEW k \in 1 .. Len(notifiers[w])
               PROVE  Over(notifiers[w][k])
    BY DEF RunSyncWaitsForAll
  <2>1. w \in Workers
    BY DEF Workers
  <2>2. notifiers[w] \in Seq(1 .. queued) /\ Len(notifiers[w]) \in Nat /\ notifiers[w] # <<>>
    BY <2>1, NotifiersAreTyped
  <2>3. Over(Awaited(w)) /\ notifiers[w][k] <= Awaited(w)
    BY <2>2 DEF SyncInv, LastIsLargest, ReturnsWhenOver
  <2>4. Awaited(w) \in 1 .. queued
    BY <2>1, <2>2, AwaitedIsRun
  <2>5. notifiers[w][k] \in 1 .. queued
    BY <2>1, NotifierIsRun
  <2> QED BY <2>3, <2>4, <2>5, EarlierIsOver
<1> QED
  BY <1>1, <1>2, <1>3, <1>4, ProgramTypeCorrect, ProgramsUseSections, RunInvHolds,
     PastIsInvariant, PTL DEF ProgramSpec
-----------------------------------------------------------------------------
(* Rinklers: how MqttApi::stop, the MQTT thread and main get along, what   *)
(* the answers tell, and what is left when main returns.                   *)

Leaving == {"leaving", "gone"}

(* What the MQTT thread does to what main depends on. *)
LEMMA ThreadMoves ==
  ASSUME ApiThread
  PROVE  /\ running' = running
         /\ main' = main
         /\ panicked => panicked'
         /\ api \in Leaving => api' = "gone" /\ effects' = effects
         /\ api' \in Leaving => api \in Leaving \/ ~running \/ panicked'
<1> USE DEF Leaving, Go, Panics, apiVars, workVars, connectionVars
<1>1. CASE ReceiveRequest
  BY <1>1 DEF ReceiveRequest, Receive
<1>2. CASE ProcessSetState
  BY <1>2 DEF ProcessSetState, Asks, Processed
<1>3. CASE ProcessRunFor
  <2>1. api = "processing" /\ main' = main /\ (Processed \/ ProcessingPanics)
    BY <1>3 DEF ProcessRunFor, Asks
  <2> QED BY <2>1 DEF Processed, ProcessingPanics
<1>4. CASE ProcessRunForPanics
  BY <1>4 DEF ProcessRunForPanics, Asks, ProcessingPanics
<1>5. CASE ProcessError
  BY <1>5 DEF ProcessError, Processed
<1>6. CASE ApiSteps /\ UNCHANGED <<programVars, main, effects>>
  <2>1. main' = main /\ effects' = effects
    BY <1>6
  <2>2. CASE ReadFlag
    BY <2>1, <2>2 DEF ReadFlag
  <2>3. CASE Connect
    BY <2>1, <2>3 DEF Connect
  <2>4. CASE ConnectFails
    BY <2>1, <2>4 DEF ConnectFails
  <2>5. CASE EndPause
    BY <2>1, <2>5 DEF EndPause
  <2>6. CASE SetUp
    BY <2>1, <2>6 DEF SetUp
  <2>7. CASE SetUpFails
    BY <2>1, <2>7 DEF SetUpFails
  <2>8. CASE ReadFlagAgain
    BY <2>1, <2>8 DEF ReadFlagAgain, Terminate, AfterBreak
  <2>9. CASE Block
    BY <2>1, <2>9 DEF Block
  <2>10. CASE AwaitFails
    BY <2>1, <2>10 DEF AwaitFails, Terminate, AfterBreak
  <2>11. CASE Publish
    BY <2>1, <2>11 DEF Publish
  <2>12. CASE PublishPanics
    BY <2>1, <2>12 DEF PublishPanics
  <2>13. CASE DropState
    BY <2>1, <2>13 DEF DropState
  <2> QED BY <1>6, <2>2, <2>3, <2>4, <2>5, <2>6, <2>7, <2>8, <2>9, <2>10, <2>11, <2>12, <2>13
             DEF ApiSteps
<1> QED BY <1>1, <1>2, <1>3, <1>4, <1>5, <1>6 DEF ApiThread

(* What the sections, the programs, the broker and the network do to it. *)
LEMMA OthersLeaveItAlone ==
  ASSUME (\E p \in Programs : ExecuteProgram(p)) \/ ExecutorGoes \/ SectionsGo \/ Outside
  PROVE  UNCHANGED <<running, main, panicked, effects>> /\ (api \in Leaving <=> api' \in Leaving)
         /\ (api = "gone" <=> api' = "gone")
<1> USE DEF Leaving, apiVars, workVars, connectionVars
<1>1. CASE \E p \in Programs : ExecuteProgram(p)
  BY <1>1 DEF ExecuteProgram
<1>2. CASE ExecutorGoes
  BY <1>2 DEF ExecutorGoes
<1>3. CASE SectionsGo
  BY <1>3 DEF SectionsGo
<1>4. CASE Environment /\ UNCHANGED <<apiVars, main, effects>>
  BY <1>4
<1>5. CASE (\E r \in Requests : SendRequest(r)) /\ UNCHANGED <<programVars, main, effects>>
  BY <1>5 DEF SendRequest, Send
<1>6. CASE LoseConnection /\ UNCHANGED <<programVars, main, effects>>
  BY <1>6 DEF LoseConnection
<1>7. CASE AwaitNothing /\ UNCHANGED <<programVars, main, effects>>
  BY <1>7 DEF AwaitNothing, Go
<1> QED BY <1>1, <1>2, <1>3, <1>4, <1>5, <1>6, <1>7 DEF Outside
-----------------------------------------------------------------------------
(***************************************************************************)
(* The invariant behind an orderly stop.  Only main lowers the flag, on    *)
(* its way through stop(), and before the signal; so the thread leaves its *)
(* loop because it was told to or because it panics, and main comes to the *)
(* state only when the thread is on its way out: past the join, or after a *)
(* panic.                                                                  *)
(***************************************************************************)
FlagUntilStop == main = "trapping" => running
FlagIsDown == main \in {"signalling", "kill_failed"} => ~running
LeavesForAReason == api \in Leaving => ~running \/ panicked
LeavesBeforeMain ==
  main \in {"unwrapping", "stopping", "state_held", "join_failed"} => api \in Leaving
GoneOrPanicked == main = "unwrapping" /\ api # "gone" => panicked

StopInv ==
  /\ FlagUntilStop
  /\ FlagIsDown
  /\ LeavesForAReason
  /\ LeavesBeforeMain
  /\ GoneOrPanicked
  /\ OrderlyStop

LEMMA StopInvInit == RinklersInit => StopInv
BY DEF RinklersInit, ApiInit, StopInv, FlagUntilStop, FlagIsDown, LeavesForAReason,
       LeavesBeforeMain, GoneOrPanicked, OrderlyStop, Leaving

LEMMA StopInvStep == StopInv /\ [RinklersNext]_rinklersVars => StopInv'
<1> SUFFICES ASSUME StopInv, [RinklersNext]_rinklersVars PROVE StopInv'
  OBVIOUS
<1> USE DEF StopInv, FlagUntilStop, FlagIsDown, LeavesForAReason, LeavesBeforeMain,
            GoneOrPanicked, OrderlyStop, Leaving
<1>1. CASE ApiThread
  BY <1>1, ThreadMoves
<1>2. CASE UpgradeFlag
  BY <1>2 DEF UpgradeFlag, MainGoes, HoldsFlag, apiVars
<1>3. CASE StoreFlag
  BY <1>3 DEF StoreFlag, MainGoes, LowerFlag
<1>4. CASE Kill
  BY <1>4 DEF Kill, MainGoes, SignalThread, apiVars
<1>5. CASE JoinApi
  BY <1>5 DEF JoinApi, MainGoes, ThreadEnded, apiVars
<1>6. CASE TryUnwrap
  BY <1>6 DEF TryUnwrap, MainGoes, HoldsState, apiVars
<1>7. CASE StopAll \/ StopAllReturns
  BY <1>7 DEF StopAll, StopAllReturns, apiVars
<1>8. CASE (\E p \in Programs : ExecuteProgram(p)) \/ ExecutorGoes \/ SectionsGo \/ Outside
  BY <1>8, OthersLeaveItAlone
<1>9. CASE UNCHANGED rinklersVars
  BY <1>9 DEF rinklersVars, apiVars
<1> QED BY <1>1, <1>2, <1>3, <1>4, <1>5, <1>6, <1>7, <1>8, <1>9 DEF RinklersNext, MainThread

(***************************************************************************)
(* StopIsOrderly: however its steps fall between those of MqttApi::stop    *)
(* and of main, the MQTT thread is joined and main gets its state back,    *)
(* unless that thread panics, or is gone so soon after the flag fell that  *)
(* pthread_kill fails, and stop() with it.                                 *)
(***************************************************************************)
THEOREM StopIsOrderly == RinklersSpec => []OrderlyStop
<1>1. StopInv => OrderlyStop
  BY DEF StopInv
<1> QED BY <1>1, StopInvInit, StopInvStep, PTL DEF RinklersSpec

(* Only the MQTT thread carries out requests, and not on its way out. *)
LEMMA NoEffectsAfterStop ==
  ASSUME StopInv, [RinklersNext]_rinklersVars, effects' # effects
  PROVE  main \notin {"unwrapping", "stopping"}
<1>1. ApiThread
  <2> USE DEF MainGoes
  <2>1. UpgradeFlag => effects' = effects
    BY DEF UpgradeFlag
  <2>2. StoreFlag \/ Kill \/ JoinApi \/ TryUnwrap \/ StopAll \/ StopAllReturns => effects' = effects
    BY DEF StoreFlag, Kill, JoinApi, TryUnwrap, StopAll, StopAllReturns
  <2>3. UNCHANGED rinklersVars => effects' = effects
    BY DEF rinklersVars
  <2> QED BY <2>1, <2>2, <2>3, OthersLeaveItAlone DEF RinklersNext, MainThread
<1>2. api \notin Leaving
  BY <1>1, ThreadMoves
<1> QED BY <1>2 DEF StopInv, LeavesBeforeMain

(***************************************************************************)
(* NothingAfterStop: when MqttApi::stop has returned Ok, process_msg does  *)
(* not touch a section or the queue any more.                              *)
(***************************************************************************)
THEOREM NothingAfterStop == RinklersSpec => QuietAfterStop
<1>1. StopInv /\ [RinklersNext]_rinklersVars
        => [effects' # effects => main \notin {"unwrapping", "stopping"}]_rinklersVars
  BY NoEffectsAfterStop
<1> QED BY <1>1, StopInvInit, StopInvStep, PTL DEF RinklersSpec, QuietAfterStop
-----------------------------------------------------------------------------
(***************************************************************************)
(* The invariant behind the answers: the code to be answered is that of    *)
(* the request at hand, and what was carried out last, if it is not        *)
(* answered yet, is the request at hand.                                   *)
(***************************************************************************)
HandlingIsCoded ==
  api \in {"processing", "answering"} =>
    Len(handling) = 1 /\ handling[1].code = Code(handling[1].req)

PanicLeaves == panicked => api \in Leaving

LastIsAtHand ==
  api = "answering" =>
    IF handling[1].code = "Success"
    THEN Unanswered = 1 /\ effects[Len(effects)] = handling[1].req
    ELSE Unanswered = 0

AnswerInv ==
  /\ RinklersTypeOK
  /\ HandlingIsCoded
  /\ PanicLeaves
  /\ LastIsAtHand
  /\ AnswersTellEffects

(***************************************************************************)
(* The invariant behind the end: main comes to stop_all when the MQTT      *)
(* thread is gone, and nobody else stops anything.                         *)
(***************************************************************************)
MainStops == shutdown # "no" => main = "stopping"
AloneAtTheEnd == main = "stopping" => api = "gone"
JoinedIsExited == stopper = "stopped" => thread = "exited"
ExecutorIsIdle ==
  shutdown \in {"programs", "done"} => stopper = "stopped" /\ job[Executor] = "idle"

EndInv ==
  /\ MainStops
  /\ AloneAtTheEnd
  /\ JoinedIsExited
  /\ ExecutorIsIdle
-----------------------------------------------------------------------------
(* The request at hand. *)

LEMMA RequestAtHand ==
  ASSUME ApiTypeOK, HandlingIsCoded, api \in {"processing", "answering"}
  PROVE  /\ Len(handling) = 1
         /\ handling = <<handling[1]>>
         /\ handling[1] \in Answer
         /\ handling[1].req \in Requests
         /\ handling[1].code = Code(handling[1].req)
<1>1. Len(handling) = 1 /\ handling \in Seq(Answer) /\ handling[1].code = Code(handling[1].req)
  BY DEF HandlingIsCoded, ApiTypeOK
<1>2. handling[1] \in Answer /\ handling = <<handling[1]>>
  BY <1>1
<1> QED BY <1>1, <1>2 DEF Answer

(* Only what is as it should be is answered with success (process_msg). *)
LEMMA SuccessIsProper ==
  ASSUME NEW r \in Requests, Code(r) = "Success"
  PROVE  r.text = "proper" /\ r.sec \in Sections /\ r.on \in BOOLEAN /\ r.dur \in Durations
<1>1. r \in Request
  BY RinklersAssumption
<1>2. r.sec \in Sections \cup {NoSection, NotAnIndex, Blank}
      /\ r.text \in {"bytes", "junk", "proper"} /\ r.on \in BOOLEAN /\ r.dur \in Durations
  BY <1>1 DEF Request
<1> QED BY <1>2 DEF Code

LEMMA CodesAreTyped ==
  ASSUME NEW r \in Requests
  PROVE  Code(r) \in Codes
BY DEF Code, Codes

(* A request that asks for something is one that may ask for it. *)
LEMMA AskedIsProper ==
  ASSUME ApiTypeOK, HandlingIsCoded, NEW t, Asks(t)
  PROVE  /\ handling[1].req \in Requests
         /\ handling[1].req.text = "proper"
         /\ handling[1].req.sec \in Sections
         /\ handling[1].req.on \in BOOLEAN
         /\ handling[1].req.dur \in Durations
BY RequestAtHand, SuccessIsProper DEF Asks
-----------------------------------------------------------------------------
(* What the program does to the section runner, the section runner does    *)
(* when it is called alone.                                                *)

(* What is neither a program's step nor a request's leaves both alone. *)
LEMMA RequestsOrPrograms ==
  ASSUME [RinklersNext]_rinklersVars
  PROVE  \/ [ProgramNext]_programVars
         \/ ProcessSetState \/ ProcessRunFor
<1>1. CASE ApiThread
  BY <1>1 DEF ApiThread, ReceiveRequest, ProcessRunForPanics, ProcessError
<1>2. CASE UpgradeFlag \/ StoreFlag \/ Kill \/ JoinApi \/ TryUnwrap
  BY <1>2 DEF UpgradeFlag, StoreFlag, Kill, JoinApi, TryUnwrap, MainGoes
<1>3. CASE StopAll \/ StopAllReturns
  BY <1>3 DEF StopAll, StopAllReturns, ProgramNext
<1>4. ASSUME NEW p \in Programs, ExecuteProgram(p)
      PROVE  [ProgramNext]_programVars
  BY <1>4 DEF ExecuteProgram, ProgramNext
<1>5. CASE ExecutorGoes \/ SectionsGo
  BY <1>5 DEF ExecutorGoes, SectionsGo, ProgramNext, Workers
<1>6. CASE Outside
  BY <1>6 DEF Outside, ProgramNext
<1>7. CASE UNCHANGED rinklersVars
  BY <1>7 DEF rinklersVars
<1> QED BY <1>1, <1>2, <1>3, <1>4, <1>5, <1>6, <1>7 DEF RinklersNext, MainThread

LEMMA RinklersStepsAreSectionSteps ==
  ASSUME RinklersTypeOK, HandlingIsCoded, [RinklersNext]_rinklersVars
  PROVE  [Next]_vars
<1>1. CASE [ProgramNext]_programVars
  BY <1>1, ProgramStepsAreSectionSteps DEF RinklersTypeOK
<1>2. CASE ProcessSetState
  BY <1>2, AskedIsProper DEF ProcessSetState, RinklersTypeOK, Next, Callers
<1>3. CASE ProcessRunFor
  BY <1>3, AskedIsProper DEF ProcessRunFor, RinklersTypeOK, Next, Callers
<1> QED BY <1>1, <1>2, <1>3, RequestsOrPrograms
-----------------------------------------------------------------------------
(* The types. *)

LEMMA HandlingIsTyped ==
  ASSUME ApiTypeOK, inbox # <<>>
  PROVE  /\ Tail(inbox) \in Seq(Requests)
         /\ Head(inbox) \in Requests
         /\ [req |-> Head(inbox), code |-> Code(Head(inbox))] \in Answer
<1>1. inbox \in Seq(Requests)
  BY DEF ApiTypeOK
<1>2. Tail(inbox) \in Seq(Requests) /\ Head(inbox) \in Requests
  BY <1>1
<1> QED BY <1>2, CodesAreTyped DEF Answer

LEMMA ApiStepKeepsTypes ==
  ASSUME ApiTypeOK, HandlingIsCoded, ApiThread
  PROVE  ApiTypeOK'
<1> USE DEF ApiTypeOK, ApiPlaces, Go, connectionVars, workVars
<1>0. <<>> \in Seq(Requests) /\ <<>> \in Seq(Answer) /\ Len(<<>>) = 0
  OBVIOUS
<1>1. CASE ReceiveRequest
  <2> DEFINE a == [req |-> Head(inbox), code |-> Code(Head(inbox))]
  <2>1. inbox # <<>> /\ inbox' = Tail(inbox) /\ handling' = <<a>> /\ api' = "processing"
        /\ UNCHANGED <<client, running, sentSoFar, answers, panicked>>
    BY <1>1 DEF ReceiveRequest, Receive
  <2>2. Tail(inbox) \in Seq(Requests) /\ a \in Answer
    BY <2>1, HandlingIsTyped
  <2>3. <<a>> \in Seq(Answer) /\ Len(<<a>>) = 1
    <3> HIDE DEF a
    <3> QED BY <2>2
  <2> QED BY <2>1, <2>2, <2>3
<1>2. CASE Processed
  BY <1>2 DEF Processed
<1>3. CASE ProcessingPanics
  BY <1>3, <1>0 DEF ProcessingPanics, Panics
<1>4. CASE ReadFlag \/ Connect \/ ConnectFails \/ EndPause \/ SetUp \/ SetUpFails
  BY <1>4 DEF ReadFlag, Connect, ConnectFails, EndPause, SetUp, SetUpFails
<1>5. CASE ReadFlagAgain \/ Block \/ AwaitFails \/ PublishPanics \/ DropState
  BY <1>5, <1>0
  DEF ReadFlagAgain, Block, AwaitFails, PublishPanics, DropState, Terminate, AfterBreak, Panics
<1>6. CASE Publish
  <2>1. answers \o handling \in Seq(Answer)
    OBVIOUS
  <2> QED BY <1>6, <1>0, <2>1 DEF Publish
<1> QED
  BY <1>1, <1>2, <1>3, <1>4, <1>5, <1>6
  DEF ApiThread, ProcessSetState, ProcessRunFor, ProcessRunForPanics, ProcessError, ApiSteps

LEMMA RestKeepsApiTypes ==
  ASSUME ApiTypeOK, [RinklersNext]_rinklersVars, ~ApiThread
  PROVE  ApiTypeOK'
<1> USE DEF ApiTypeOK, ApiPlaces, Go, apiVars, connectionVars, workVars
<1>1. CASE UNCHANGED apiVars
  BY <1>1
<1>2. CASE StoreFlag \/ Kill
  BY <1>2 DEF StoreFlag, Kill, LowerFlag, SignalThread
<1>3. CASE LoseConnection \/ AwaitNothing
  <2>1. <<>> \in Seq(Requests)
    OBVIOUS
  <2> QED BY <1>3, <2>1 DEF LoseConnection, AwaitNothing
<1>4. ASSUME NEW r \in Requests, Send(r)
      PROVE  ApiTypeOK'
  <2>1. Append(inbox, r) \in Seq(Requests)
    OBVIOUS
  <2>2. sentSoFar + 1 \in 0 .. MaxRequests
    BY <1>4, MqttApiAssumption DEF Send
  <2> QED BY <1>4, <2>1, <2>2 DEF Send
<1> QED
  BY <1>1, <1>2, <1>3, <1>4
  DEF RinklersNext, MainThread, UpgradeFlag, JoinApi, TryUnwrap, StopAll, StopAllReturns,
      ExecuteProgram, ExecutorGoes, SectionsGo, Outside, SendRequest, rinklersVars

LEMMA MainStaysTyped ==
  ASSUME main \in MainPlaces, [RinklersNext]_rinklersVars
  PROVE  main' \in MainPlaces
<1> USE DEF MainPlaces, MainGoes
<1>1. CASE ApiThread
  BY <1>1, ThreadMoves
<1>2. CASE UpgradeFlag \/ StoreFlag \/ Kill \/ JoinApi \/ TryUnwrap \/ StopAll \/ StopAllReturns
  BY <1>2 DEF UpgradeFlag, StoreFlag, Kill, JoinApi, TryUnwrap, StopAll, StopAllReturns
<1>3. CASE (\E p \in Programs : ExecuteProgram(p)) \/ ExecutorGoes \/ SectionsGo \/ Outside
  BY <1>3, OthersLeaveItAlone
<1> QED BY <1>1, <1>2, <1>3 DEF RinklersNext, MainThread, rinklersVars

(* The history is that of the requests at hand. *)
CarriesOut ==
  /\ effects' = Append(effects, handling[1].req)
  /\ Asks("set_state") \/ Asks("run_for")
  /\ (api' = "answering" /\ panicked' = panicked) \/ (api' = "leaving" /\ panicked')
  /\ UNCHANGED <<handling, answers>>

LEMMA EffectsGrow ==
  ASSUME [RinklersNext]_rinklersVars
  PROVE  effects' = effects \/ CarriesOut
<1>1. CASE ProcessSetState
  BY <1>1 DEF ProcessSetState, CarriesOut, CarriedOut, Processed, Go, workVars
<1>2. CASE ProcessRunFor
  <2>1. Processed \/ ProcessingPanics
    BY <1>2 DEF ProcessRunFor
  <2> QED
    BY <1>2, <2>1
    DEF ProcessRunFor, CarriesOut, CarriedOut, Processed, ProcessingPanics, Panics, Go, workVars
<1>3. CASE ApiThread /\ ~ProcessSetState /\ ~ProcessRunFor
  BY <1>3 DEF ApiThread, ReceiveRequest, ProcessRunForPanics, ProcessError
<1>4. CASE UpgradeFlag \/ StoreFlag \/ Kill \/ JoinApi \/ TryUnwrap \/ StopAll \/ StopAllReturns
  BY <1>4 DEF UpgradeFlag, StoreFlag, Kill, JoinApi, TryUnwrap, StopAll, StopAllReturns, MainGoes
<1>5. CASE (\E p \in Programs : ExecuteProgram(p)) \/ ExecutorGoes \/ SectionsGo \/ Outside
  BY <1>5, OthersLeaveItAlone
<1> QED BY <1>1, <1>2, <1>3, <1>4, <1>5 DEF RinklersNext, MainThread, rinklersVars

LEMMA RinklersStepKeepsTypes ==
  ASSUME RinklersTypeOK, HandlingIsCoded, [RinklersNext]_rinklersVars
  PROVE  RinklersTypeOK'
<1>1. ProgramTypeOK'
  <2>1. CASE [ProgramNext]_programVars
    BY <2>1, ProgramStepKeepsTypes DEF RinklersTypeOK
  <2>2. CASE ProcessSetState \/ ProcessRunFor
    <3>1. [Next]_vars
      BY RinklersStepsAreSectionSteps
    <3>2. TypeOK'
      BY <3>1, StepKeepsTypes DEF RinklersTypeOK, ProgramTypeOK
    <3>3. UNCHANGED <<jobVars, shutdown>>
      BY <2>2 DEF ProcessSetState, ProcessRunFor
    <3>4. notifiers' \in [Workers -> Seq(1 .. queued')]
      BY <3>1, <3>3, NotifiersStayTyped DEF RinklersTypeOK, jobVars
    <3> QED BY <3>2, <3>3, <3>4 DEF RinklersTypeOK, ProgramTypeOK, jobVars
  <2> QED BY <2>1, <2>2, RequestsOrPrograms
<1>2. ApiTypeOK'
  BY ApiStepKeepsTypes, RestKeepsApiTypes DEF RinklersTypeOK
<1>3. main' \in MainPlaces
  BY MainStaysTyped DEF RinklersTypeOK
<1>4. effects' \in Seq(Requests)
  <2>1. effects \in Seq(Requests)
    BY DEF RinklersTypeOK
  <2>2. CarriesOut => handling[1].req \in Requests
    BY AskedIsProper DEF CarriesOut, RinklersTypeOK
  <2>3. CarriesOut => Append(effects, handling[1].req) \in Seq(Requests)
    BY <2>1, <2>2
  <2> QED BY <2>1, <2>3, EffectsGrow DEF CarriesOut
<1> QED BY <1>1, <1>2, <1>3, <1>4 DEF RinklersTypeOK
-----------------------------------------------------------------------------
(* Counting the answers of success. *)

LEMMA CountsAreTyped ==
  ASSUME NEW n \in Nat
  PROVE  SuccessesUpTo(n) \in Nat
<1> DEFINE S == {k \in 1 .. n : answers[k].code = "Success"}
<1>1. IsFiniteSet(1 .. n)
  BY FS_Interval
<1>2. IsFiniteSet(S)
  BY <1>1, FS_Subset
<1> QED BY <1>2, FS_CardinalityType DEF SuccessesUpTo

(* A success counts itself, and nothing is counted twice. *)
LEMMA SuccessIsCounted ==
  ASSUME NEW n \in Nat, NEW k \in 1 .. n, answers[k].code = "Success"
  PROVE  SuccessesUpTo(k) \in 1 .. SuccessesUpTo(n)
<1> DEFINE S(m) == {i \in 1 .. m : answers[i].code = "Success"}
<1>1. S(k) \subseteq S(n) /\ k \in S(k)
  OBVIOUS
<1>2. IsFiniteSet(S(k)) /\ IsFiniteSet(S(n))
  <2>1. IsFiniteSet(1 .. n)
    BY FS_Interval
  <2>2. S(n) \subseteq 1 .. n
    OBVIOUS
  <2> QED BY <1>1, <2>1, <2>2, FS_Subset
<1>3. SuccessesUpTo(k) = Cardinality(S(k)) /\ SuccessesUpTo(n) = Cardinality(S(n))
  BY DEF SuccessesUpTo
<1> HIDE DEF S
<1>4. Cardinality(S(k)) <= Cardinality(S(n))
  BY <1>1, <1>2, FS_Subset
<1>5. Cardinality(S(k)) \in Nat /\ Cardinality(S(n)) \in Nat /\ Cardinality(S(k)) # 0
  BY <1>1, <1>2, FS_CardinalityType, FS_EmptySet
<1> QED BY <1>3, <1>4, <1>5

(* One more answer changes no count but the last. *)
LEMMA OneMoreAnswer ==
  ASSUME answers \in Seq(Answer), NEW a \in Answer, answers' = Append(answers, a)
  PROVE  /\ \A n \in 0 .. Len(answers) : SuccessesUpTo(n)' = SuccessesUpTo(n)
         /\ SuccessesUpTo(Len(answers))'
              = SuccessesUpTo(Len(answers)) + IF a.code = "Success" THEN 1 ELSE 0
<1> DEFINE m == Len(answers)
           S == {k \in 1 .. m : answers[k].code = "Success"}
<1>1. m \in Nat /\ Len(answers') = m + 1 /\ answers'[m + 1] = a
      /\ \A k \in 1 .. m : answers'[k] = answers[k]
  OBVIOUS
<1> HIDE DEF m
<1>2. ASSUME NEW n \in 0 .. m
      PROVE  SuccessesUpTo(n)' = SuccessesUpTo(n)
  <2>1. {k \in 1 .. n : answers'[k].code = "Success"} = {k \in 1 .. n : answers[k].code = "Success"}
    BY <1>1
  <2> QED BY <2>1 DEF SuccessesUpTo
<1>3. SuccessesUpTo(Len(answers))' = Cardinality({k \in 1 .. m + 1 : answers'[k].code = "Success"})
  BY <1>1 DEF SuccessesUpTo
<1>4. {k \in 1 .. m + 1 : answers'[k].code = "Success"} =
        IF a.code = "Success" THEN S \cup {m + 1} ELSE S
  BY <1>1
<1>5. IsFiniteSet(S) /\ m + 1 \notin S
  <2>1. IsFiniteSet(1 .. m)
    BY <1>1, FS_Interval
  <2> QED BY <1>1, <2>1, FS_Subset
<1>6. Cardinality(S \cup {m + 1}) = Cardinality(S) + 1
  BY <1>5, FS_AddElement
<1>7. Cardinality(S) = SuccessesUpTo(m) /\ Cardinality(S) \in Nat
  BY <1>5, FS_CardinalityType DEF SuccessesUpTo
<1>8. SuccessesUpTo(Len(answers))' = SuccessesUpTo(m) + IF a.code = "Success" THEN 1 ELSE 0
  <2> HIDE DEF S
  <2>1. CASE a.code = "Success"
    BY <2>1, <1>3, <1>4, <1>6, <1>7, Zenon
  <2>2. CASE a.code # "Success"
    <3>1. SuccessesUpTo(Len(answers))' = SuccessesUpTo(m)
      BY <2>2, <1>3, <1>4, <1>7, Zenon
    <3> QED BY <2>2, <3>1, <1>7
  <2> QED BY <2>1, <2>2
<1> QED BY <1>2, <1>8 DEF m

UnansweredIsCounted ==
  /\ Len(effects) \in Nat
  /\ \A n \in 0 .. Len(answers) : SuccessesUpTo(n) \in Nat

LEMMA CountingIsTyped ==
  ASSUME RinklersTypeOK
  PROVE  UnansweredIsCounted
<1>1. effects \in Seq(Requests) /\ answers \in Seq(Answer)
  BY DEF RinklersTypeOK, ApiTypeOK
<1>2. Len(effects) \in Nat /\ Len(answers) \in Nat
  BY <1>1
<1> QED BY <1>2, CountsAreTyped DEF UnansweredIsCounted

(* As long as both histories stay as they are, so do the counts. *)
LEMMA SameCounts ==
  ASSUME answers' = answers
  PROVE  \A n \in Nat : SuccessesUpTo(n)' = SuccessesUpTo(n)
BY DEF SuccessesUpTo

LEMMA QuietStepKeepsAnswers ==
  ASSUME AnswersTellEffects, UNCHANGED <<effects, answers>>, RinklersTypeOK,
         api = "answering" \/ panicked => api' = "answering" \/ panicked' \/ Unanswered = 0
  PROVE  AnswersTellEffects' /\ Unanswered' = Unanswered
<1>1. Len(answers) \in Nat
  BY DEF RinklersTypeOK, ApiTypeOK
<1>2. Unanswered' = Unanswered
  BY <1>1, SameCounts DEF Unanswered
<1>3. \A k \in 1 .. Len(answers) : SuccessesUpTo(k)' = SuccessesUpTo(k)
  BY <1>1, SameCounts
<1> QED BY <1>1, <1>2, <1>3 DEF AnswersTellEffects

(* A request is carried out: what process_msg does before the answer. *)
LEMMA CarryingOutKeepsAnswers ==
  ASSUME AnswerInv, CarriesOut
  PROVE  LastIsAtHand' /\ AnswersTellEffects' /\ Unanswered' = 1
<1> DEFINE r == handling[1].req
<1>1. /\ api = "processing" /\ handling[1].code = "Success"
      /\ r \in Requests /\ r.text = "proper" /\ r.sec \in Sections
  BY AskedIsProper DEF AnswerInv, RinklersTypeOK, CarriesOut, Asks
<1>2. effects \in Seq(Requests) /\ answers \in Seq(Answer)
  BY DEF AnswerInv, RinklersTypeOK, ApiTypeOK
<1>3. /\ Len(effects) \in Nat /\ Len(answers) \in Nat
      /\ \A n \in 0 .. Len(answers) : SuccessesUpTo(n) \in Nat
  BY <1>2, CountingIsTyped DEF AnswerInv, UnansweredIsCounted
<1>4. ~panicked /\ Unanswered = 0
  BY <1>1 DEF AnswerInv, PanicLeaves, Leaving, AnswersTellEffects
<1> HIDE DEF r
<1>5. /\ effects' = Append(effects, r) /\ UNCHANGED <<answers, handling>>
      /\ Len(effects') = Len(effects) + 1 /\ effects'[Len(effects) + 1] = r
      /\ \A k \in 1 .. Len(effects) : effects'[k] = effects[k]
  BY <1>2, <1>1 DEF CarriesOut, r
<1>6. \A n \in Nat : SuccessesUpTo(n)' = SuccessesUpTo(n)
  BY <1>5, SameCounts
<1>7. Unanswered' = 1
  BY <1>3, <1>4, <1>5, <1>6 DEF Unanswered
<1>8. (api = "answering" \/ panicked)'
  BY DEF CarriesOut
<1>9. SuccessesUpTo(Len(answers)) = Len(effects)
  BY <1>3, <1>4 DEF Unanswered
<1>10. \A k \in 1 .. Len(answers) :
         answers[k].code = "Success" => answers[k].req = effects'[SuccessesUpTo(k)]
  <2> SUFFICES ASSUME NEW k \in 1 .. Len(answers), answers[k].code = "Success"
               PROVE  answers[k].req = effects'[SuccessesUpTo(k)]
    OBVIOUS
  <2>1. SuccessesUpTo(k) \in 1 .. Len(effects)
    BY <1>3, <1>9, SuccessIsCounted
  <2>2. answers[k].req = effects[SuccessesUpTo(k)]
    BY DEF AnswerInv, AnswersTellEffects
  <2> QED BY <2>1, <2>2, <1>5
<1>11. \A k \in 1 .. Len(effects') : effects'[k].text = "proper" /\ effects'[k].sec \in Sections
  <2>1. \A k \in 1 .. Len(effects) : effects[k].text = "proper" /\ effects[k].sec \in Sections
    BY DEF AnswerInv, AnswersTellEffects
  <2> QED BY <1>1, <1>3, <1>5, <2>1 DEF r
<1>12. AnswersTellEffects'
  <2>1. (Unanswered \in 0 .. IF api = "answering" \/ panicked THEN 1 ELSE 0)'
    BY <1>7, <1>8
  <2>2. (\A k \in 1 .. Len(answers) :
           answers[k].code = "Success" => answers[k].req = effects[SuccessesUpTo(k)])'
    <3>1. \A k \in 1 .. Len(answers) : SuccessesUpTo(k)' = SuccessesUpTo(k)
      BY <1>3, <1>6
    <3> QED BY <1>5, <1>10, <3>1
  <2> QED BY <2>1, <2>2, <1>11 DEF AnswersTellEffects
<1>13. LastIsAtHand'
  BY <1>1, <1>3, <1>5, <1>7 DEF LastIsAtHand, r
<1> QED BY <1>7, <1>12, <1>13

(* The answer is published: the counts catch up with what was done. *)
LEMMA PublishKeepsAnswers ==
  ASSUME AnswerInv, Publish, effects' = effects
  PROVE  AnswersTellEffects'
<1> DEFINE a == handling[1]
<1>1. a \in Answer /\ handling = <<a>>
  BY RequestAtHand DEF AnswerInv, RinklersTypeOK, Publish
<1>2. effects \in Seq(Requests) /\ answers \in Seq(Answer)
  BY DEF AnswerInv, RinklersTypeOK, ApiTypeOK
<1>3. /\ Len(effects) \in Nat /\ Len(answers) \in Nat
      /\ \A n \in 0 .. Len(answers) : SuccessesUpTo(n) \in Nat
  BY <1>2, CountingIsTyped DEF AnswerInv, UnansweredIsCounted
<1>4. IF a.code = "Success" THEN Unanswered = 1 /\ effects[Len(effects)] = a.req
                            ELSE Unanswered = 0
  BY DEF AnswerInv, LastIsAtHand, Publish
<1> HIDE DEF a
<1>5. answers' = Append(answers, a)
  BY <1>1, <1>2 DEF Publish
<1>6. /\ Len(answers') = Len(answers) + 1 /\ answers'[Len(answers) + 1] = a
      /\ \A k \in 1 .. Len(answers) : answers'[k] = answers[k]
  BY <1>1, <1>2, <1>5
<1>7. /\ \A n \in 0 .. Len(answers) : SuccessesUpTo(n)' = SuccessesUpTo(n)
      /\ SuccessesUpTo(Len(answers))'
           = SuccessesUpTo(Len(answers)) + IF a.code = "Success" THEN 1 ELSE 0
  BY <1>1, <1>2, <1>5, OneMoreAnswer
<1>8. SuccessesUpTo(Len(answers))' = Len(effects) /\ Unanswered' = 0
  <2>1. CASE a.code = "Success"
    BY <2>1, <1>3, <1>4, <1>7 DEF Unanswered
  <2>2. CASE a.code # "Success"
    BY <2>2, <1>3, <1>4, <1>7 DEF Unanswered
  <2> QED BY <2>1, <2>2
<1>9. (\A k \in 1 .. Len(answers) :
         answers[k].code = "Success" => answers[k].req = effects[SuccessesUpTo(k)])'
  <2> SUFFICES ASSUME NEW k \in 1 .. Len(answers'), answers'[k].code = "Success"
               PROVE  answers'[k].req = effects[SuccessesUpTo(k)']
    OBVIOUS
  <2>1. CASE k <= Len(answers)
    <3>1. answers'[k] = answers[k] /\ SuccessesUpTo(k)' = SuccessesUpTo(k)
          /\ k \in 1 .. Len(answers)
      BY <2>1, <1>3, <1>6, <1>7
    <3> QED BY <3>1 DEF AnswerInv, AnswersTellEffects
  <2>2. CASE k = Len(answers) + 1
    <3>1. answers'[k] = a
      BY <2>2, <1>6
    <3>2. SuccessesUpTo(k)' = Len(effects)
      <4>1. SuccessesUpTo(k)' = SuccessesUpTo(Len(answers))'
        BY <2>2, <1>6 DEF SuccessesUpTo
      <4> QED BY <4>1, <1>8
    <3> QED BY <3>1, <3>2, <1>4
  <2> QED BY <2>1, <2>2, <1>3, <1>6
<1> QED BY <1>8, <1>9 DEF AnswersTellEffects, AnswerInv
-----------------------------------------------------------------------------
(* What a step may do to the request at hand. *)

AtWork == {"processing", "answering"}

PanicsAtWork ==
  /\ api \in AtWork /\ api' = "leaving" /\ panicked'
  /\ UNCHANGED <<handling, answers, effects>>

ComesToError ==
  /\ api = "processing" /\ api' = "answering" /\ handling[1].code # "Success"
  /\ UNCHANGED <<handling, answers, panicked, effects>>

StaysAway ==
  /\ UNCHANGED <<handling, answers, panicked, effects>>
  /\ api \notin AtWork /\ api' \notin AtWork
  /\ api \in Leaving => api' \in Leaving

StaysAtIt == UNCHANGED <<api, handling, answers, panicked, effects>>

LEMMA WorkMoves ==
  ASSUME [RinklersNext]_rinklersVars
  PROVE  \/ ReceiveRequest \/ CarriesOut \/ ComesToError
         \/ (Publish /\ UNCHANGED <<panicked, effects>>)
         \/ PanicsAtWork \/ StaysAway \/ StaysAtIt
<1> USE DEF AtWork, Leaving, Go, apiVars, workVars
<1>1. CASE ProcessSetState
  BY <1>1 DEF ProcessSetState, CarriesOut, CarriedOut, Processed
<1>2. CASE ProcessRunFor
  <2>1. Processed \/ ProcessingPanics
    BY <1>2 DEF ProcessRunFor
  <2> QED
    BY <1>2, <2>1
    DEF ProcessRunFor, CarriesOut, CarriedOut, Processed, ProcessingPanics, Panics
<1>3. CASE ProcessRunForPanics
  BY <1>3 DEF ProcessRunForPanics, ProcessingPanics, Panics, PanicsAtWork
<1>4. CASE ProcessError
  BY <1>4 DEF ProcessError, Processed, ComesToError
<1>5. CASE ApiSteps /\ UNCHANGED <<programVars, main, effects>>
  <2>1. CASE ReadFlag \/ Connect \/ ConnectFails \/ EndPause \/ SetUp \/ SetUpFails
    BY <1>5, <2>1
    DEF StaysAway, ReadFlag, Connect, ConnectFails, EndPause, SetUp, SetUpFails
  <2>2. CASE ReadFlagAgain \/ Block \/ AwaitFails \/ DropState
    BY <1>5, <2>2
    DEF StaysAway, ReadFlagAgain, Block, AwaitFails, DropState, Terminate, AfterBreak
  <2>3. CASE PublishPanics
    BY <1>5, <2>3 DEF PublishPanics, Panics, PanicsAtWork
  <2>4. CASE Publish
    BY <1>5, <2>4 DEF Publish
  <2> QED BY <1>5, <2>1, <2>2, <2>3, <2>4 DEF ApiSteps
<1>6. CASE StoreFlag \/ Kill
  BY <1>6 DEF StoreFlag, Kill, MainGoes, LowerFlag, SignalThread, StaysAtIt, StaysAway
<1>7. CASE UpgradeFlag \/ JoinApi \/ TryUnwrap \/ StopAll \/ StopAllReturns
  BY <1>7 DEF UpgradeFlag, JoinApi, TryUnwrap, StopAll, StopAllReturns, MainGoes, StaysAtIt
<1>8. CASE (\E p \in Programs : ExecuteProgram(p)) \/ ExecutorGoes \/ SectionsGo
  BY <1>8 DEF ExecuteProgram, ExecutorGoes, SectionsGo, StaysAtIt
<1>9. CASE Outside
  BY <1>9 DEF Outside, SendRequest, Send, LoseConnection, AwaitNothing, StaysAtIt, StaysAway
<1>10. CASE UNCHANGED rinklersVars
  BY <1>10 DEF rinklersVars, StaysAtIt
<1> QED
  BY <1>1, <1>2, <1>3, <1>4, <1>5, <1>6, <1>7, <1>8, <1>9, <1>10
  DEF RinklersNext, MainThread, ApiThread

LEMMA AnswerInvStep == AnswerInv /\ [RinklersNext]_rinklersVars => AnswerInv'
<1> SUFFICES ASSUME AnswerInv, [RinklersNext]_rinklersVars PROVE AnswerInv'
  OBVIOUS
<1>0. RinklersTypeOK /\ RinklersTypeOK' /\ Len(answers) \in Nat /\ UnansweredIsCounted
  BY RinklersStepKeepsTypes, CountingIsTyped DEF AnswerInv, RinklersTypeOK, ApiTypeOK
<1> USE DEF AtWork, Leaving, HandlingIsCoded, PanicLeaves
<1>1. CASE ReceiveRequest
  <2>1. /\ api = "awaiting" /\ api' = "processing" /\ UNCHANGED <<answers, panicked, effects>>
        /\ handling' = <<[req |-> Head(inbox), code |-> Code(Head(inbox))]>>
    BY <1>1 DEF ReceiveRequest, Receive, Go
  <2>2. AnswersTellEffects'
    BY <2>1, <1>0, QuietStepKeepsAnswers DEF AnswerInv
  <2> QED BY <2>1, <2>2, <1>0 DEF AnswerInv, LastIsAtHand
<1>2. CASE CarriesOut
  BY <1>2, <1>0, CarryingOutKeepsAnswers DEF CarriesOut, Asks, AnswerInv
<1>3. CASE ComesToError
  <2>1. AnswersTellEffects' /\ Unanswered' = Unanswered
    BY <1>3, <1>0, QuietStepKeepsAnswers DEF AnswerInv, ComesToError
  <2>2. Unanswered = 0
    BY <1>3 DEF AnswerInv, AnswersTellEffects, ComesToError
  <2> QED BY <1>3, <1>0, <2>1, <2>2 DEF AnswerInv, LastIsAtHand, ComesToError
<1>4. CASE Publish /\ UNCHANGED <<panicked, effects>>
  <2>1. AnswersTellEffects'
    BY <1>4, PublishKeepsAnswers
  <2>2. api = "answering" /\ api' = "looping"
    BY <1>4 DEF Publish, Go
  <2> QED BY <1>4, <1>0, <2>1, <2>2 DEF AnswerInv, LastIsAtHand
<1>5. CASE PanicsAtWork
  <2>1. AnswersTellEffects'
    BY <1>5, <1>0, QuietStepKeepsAnswers DEF AnswerInv, PanicsAtWork
  <2> QED BY <1>5, <1>0, <2>1 DEF AnswerInv, LastIsAtHand, PanicsAtWork
<1>6. CASE StaysAway
  <2>1. AnswersTellEffects'
    BY <1>6, <1>0, QuietStepKeepsAnswers DEF AnswerInv, StaysAway
  <2> QED BY <1>6, <1>0, <2>1 DEF AnswerInv, LastIsAtHand, StaysAway
<1>7. CASE StaysAtIt
  <2>1. AnswersTellEffects' /\ Unanswered' = Unanswered
    BY <1>7, <1>0, QuietStepKeepsAnswers DEF AnswerInv, StaysAtIt
  <2> QED BY <1>7, <1>0, <2>1 DEF AnswerInv, LastIsAtHand, StaysAtIt
<1> QED BY <1>1, <1>2, <1>3, <1>4, <1>5, <1>6, <1>7, WorkMoves

LEMMA AnswerInvInit == RinklersInit => AnswerInv
<1> SUFFICES ASSUME RinklersInit PROVE AnswerInv
  OBVIOUS
<1>1. /\ api = "top" /\ handling = <<>> /\ answers = <<>> /\ effects = <<>> /\ ~panicked
      /\ main = "trapping"
  BY DEF RinklersInit, ApiInit
<1>2. ProgramTypeOK
  BY ProgramInitTypes DEF RinklersInit
<1>3. ApiTypeOK
  <2>1. <<>> \in Seq(Requests) /\ <<>> \in Seq(Answer) /\ Len(<<>>) <= 1
    OBVIOUS
  <2>2. 0 \in 0 .. MaxRequests
    BY MqttApiAssumption
  <2> QED BY <2>1, <2>2 DEF RinklersInit, ApiInit, ApiTypeOK, ApiPlaces
<1>4. RinklersTypeOK
  BY <1>1, <1>2, <1>3 DEF RinklersTypeOK, MainPlaces
<1>5. SuccessesUpTo(0) = 0
  <2>1. {k \in 1 .. 0 : answers[k].code = "Success"} = {}
    OBVIOUS
  <2> QED BY <2>1, FS_EmptySet DEF SuccessesUpTo
<1>6. Unanswered = 0
  BY <1>1, <1>5 DEF Unanswered
<1> QED
  BY <1>1, <1>4, <1>6
  DEF AnswerInv, HandlingIsCoded, PanicLeaves, LastIsAtHand, AnswersTellEffects

LEMMA AnswerInvHolds == RinklersSpec => []AnswerInv
BY AnswerInvInit, AnswerInvStep, PTL DEF RinklersSpec

(***************************************************************************)
(* RinklersTypeCorrect: every variable of the program keeps its type; what *)
(* process_msg hands to the sections and the section runner is always a    *)
(* section that exists and a duration that was asked for.                  *)
(***************************************************************************)
THEOREM RinklersTypeCorrect == RinklersSpec => []RinklersTypeOK
<1>1. AnswerInv => RinklersTypeOK
  BY DEF AnswerInv
<1> QED BY <1>1, AnswerInvHolds, PTL

(***************************************************************************)
(* AnswersAreTrue: whatever the broker and the network do, the answers of  *)
(* success are those of the requests that were carried out, in their       *)
(* order, and at most the last one lacks its answer (process_msg, publish  *)
(* and the panics in and between them).                                    *)
(***************************************************************************)
THEOREM AnswersAreTrue == RinklersSpec => []AnswersTellEffects
<1>1. AnswerInv => AnswersTellEffects
  BY DEF AnswerInv
<1> QED BY <1>1, AnswerInvHolds, PTL

(***************************************************************************)
(* RinklersUsesSections: requests, programs and main together use the      *)
(* section runner in no other way than its callers may, so that every      *)
(* theorem of SectionRunnerProofs holds of the whole program.              *)
(***************************************************************************)
THEOREM RinklersUsesSections == RinklersSpec => Spec
<1>1. RinklersInit => Init
  BY DEF RinklersInit, ProgramInit
<1>2. AnswerInv /\ [RinklersNext]_rinklersVars => [Next]_vars
  BY RinklersStepsAreSectionSteps DEF AnswerInv
<1> QED BY <1>1, <1>2, AnswerInvHolds, PTL DEF RinklersSpec, Spec
-----------------------------------------------------------------------------
(* EverythingEnds. *)

(* The thread that was joined was gone, and a thread does not come back. *)
LEMMA JoinedStaysExited ==
  ASSUME JoinedIsExited, [Next]_vars
  PROVE  JoinedIsExited'
<1> USE DEF JoinedIsExited
<1>1. CASE thread = "exited" /\ thread' = "exited"
  BY <1>1
<1>2. CASE stopper' # "stopped"
  BY <1>2
<1>3. CASE Join
  BY <1>3 DEF Join, runnerVars
<1>4. CASE Stop
  BY <1>4 DEF Stop
<1>5. CASE \E s \in Sections, d \in Durations : RunSection(s, d)
  BY <1>5 DEF RunSection, Update, NotifyOne
<1>6. CASE RunnerThread \/ Spurious
  BY <1>6
  DEF RunnerThread, Spurious, SpuriousWake, WaitUpdate, TimeOut, Wake, Relock, LoopBody,
      Interrupt, QuitIdle, FinishRun, KeepRunning, StartRun, StartPanics, Idle,
      Return, Continue, Panic, dataVars
<1>7. CASE Tick \/ (\E s \in Sections, b \in BOOLEAN : SetState(s, b))
  BY <1>7 DEF Tick, TimerTick, SetState, runnerVars
<1>8. CASE UNCHANGED vars
  BY <1>8 DEF vars, runnerVars, dataVars
<1> QED BY <1>3, <1>4, <1>5, <1>6, <1>7, <1>8 DEF Next, Callers

LEMMA EndInvStep == AnswerInv /\ EndInv /\ [RinklersNext]_rinklersVars => EndInv'
<1> SUFFICES ASSUME AnswerInv, EndInv, [RinklersNext]_rinklersVars PROVE EndInv'
  OBVIOUS
<1> USE DEF EndInv, MainStops, AloneAtTheEnd, ExecutorIsIdle
<1>1. [Next]_vars
  BY RinklersStepsAreSectionSteps DEF AnswerInv
<1>2. JoinedIsExited'
  BY <1>1, JoinedStaysExited
<1>3. stopper = "stopped" => stopper' = "stopped"
  BY <1>1
  DEF Next, Callers, RunSection, SetState, Stop, Join, RunnerThread, LoopBody, Interrupt,
      QuitIdle, FinishRun, KeepRunning, StartRun, StartPanics, Idle, Spurious, Tick, vars, dataVars
<1>4. CASE UNCHANGED <<main, shutdown, job>> /\ (api = "gone" => api' = "gone")
  BY <1>4, <1>2, <1>3
<1>5. CASE ApiThread
  <2>1. UNCHANGED <<shutdown, job>>
    BY <1>5
    DEF ApiThread, ReceiveRequest, ProcessSetState, ProcessRunFor, ProcessRunForPanics,
        ProcessError, programVars, jobVars
  <2> QED BY <1>4, <1>5, <2>1, ThreadMoves DEF Leaving
<1>6. CASE UpgradeFlag \/ StoreFlag \/ Kill \/ JoinApi
  <2>1. main \notin {"stopping"} /\ main' # "stopping" /\ UNCHANGED <<shutdown, job>>
    BY <1>6 DEF UpgradeFlag, StoreFlag, Kill, JoinApi, MainGoes, programVars, jobVars
  <2> QED BY <2>1, <1>2
<1>7. CASE TryUnwrap
  <2>1. /\ main = "unwrapping" /\ UNCHANGED <<shutdown, job, api>>
        /\ main' = "stopping" => api = "gone"
    BY <1>7 DEF TryUnwrap, MainGoes, HoldsState, programVars, jobVars, apiVars
  <2> QED BY <2>1, <1>2
<1>8. CASE StopAll \/ StopAllReturns
  <2>1. main = "stopping" /\ main' = main /\ api' = api
    BY <1>8 DEF StopAll, StopAllReturns, apiVars
  <2>2. CASE StopSections
    BY <2>1, <2>2, <1>2 DEF StopSections
  <2>3. CASE JoinSections
    BY <2>1, <2>3, <1>4 DEF JoinSections, jobVars
  <2>4. CASE QuitPrograms \/ JoinPrograms
    BY <2>1, <2>4, <1>2 DEF QuitPrograms, JoinPrograms, vars, dataVars, jobVars
  <2> QED BY <1>8, <2>2, <2>3, <2>4 DEF StopAll, StopAllReturns
<1>9. ASSUME NEW p \in Programs, ExecuteProgram(p)
      PROVE  EndInv'
  <2>1. shutdown \notin {"programs", "done"} /\ UNCHANGED <<shutdown, main, api>>
    BY <1>9 DEF ExecuteProgram, Execute, Begin, apiVars
  <2> QED BY <2>1, <1>2
<1>10. CASE ExecutorGoes
  <2>1. job[Executor] # "idle" /\ UNCHANGED <<shutdown, main, api>>
    BY <1>10 DEF ExecutorGoes, Worker, QueueItem, QueuePanics, EndQueueing, EndWaiting, apiVars
  <2> QED BY <2>1, <1>2
<1>11. CASE SectionsGo \/ Outside
  <2>1. UNCHANGED <<shutdown, job>>
    BY <1>11
    DEF SectionsGo, SectionThread, Outside, Environment, programVars, jobVars
  <2> QED BY <2>1, <1>4, <1>11, OthersLeaveItAlone
<1>12. CASE UNCHANGED rinklersVars
  BY <1>12, <1>4 DEF rinklersVars, programVars, jobVars, apiVars
<1> QED
  BY <1>5, <1>6, <1>7, <1>8, <1>9, <1>10, <1>11, <1>12 DEF RinklersNext, MainThread

LEMMA EndInvInit == RinklersInit => EndInv
BY DEF RinklersInit, ProgramInit, Init, EndInv, MainStops, AloneAtTheEnd, JoinedIsExited,
       ExecutorIsIdle

(***************************************************************************)
(* EverythingHasEnded: when main returns from stop_all the MQTT thread and *)
(* the section runner's are gone and the executor is idle, every run that  *)
(* was queued has had its last word or is left in the queue, none in       *)
(* between, and a section is on only if somebody switched it on by hand    *)
(* (MqttApi::stop, State::stop_all and SectionRunner::run).                *)
(***************************************************************************)
THEOREM EverythingHasEnded == RinklersSpec => []EverythingEnds
<1>1. AnswerInv /\ EndInv /\ RunInv /\ ValveFollowsRun => EverythingEnds
  <2> SUFFICES ASSUME EndInv, RunInv, ValveFollowsRun, shutdown = "done"
               PROVE  /\ api = "gone" /\ thread = "exited" /\ job[Executor] = "idle"
                      /\ \A i \in 1 .. queued :
                           sent[i] \in Ended \/ (sent[i] = <<>> /\ i \in QueuedIds)
                      /\ \A s \in Sections : state[s] => s \in manual
    BY DEF EverythingEnds
  <2>1. api = "gone" /\ thread = "exited" /\ job[Executor] = "idle"
    BY DEF EndInv, MainStops, AloneAtTheEnd, JoinedIsExited, ExecutorIsIdle
  <2>2. current = NoRun
    BY <2>1 DEF RunInv, CurrentCameLast
  <2>3. ASSUME NEW i \in 1 .. queued
        PROVE  sent[i] \in Ended \/ (sent[i] = <<>> /\ i \in QueuedIds)
    <3>1. Popped \in Nat /\ queued <= MaxRuns /\ queued \in Nat
      BY PoppedIsNat, SectionRunnerAssumption DEF RunInv, TypeOK
    <3>2. i \in RunIds /\ i # current.id
      BY <2>2, <3>1, SectionRunnerAssumption DEF NoRun, RunIds
    <3>3. CASE i <= Popped
      BY <2>1, <3>2, <3>3 DEF RunInv, HeardItAll, Poisoned
    <3>4. CASE i > Popped
      <4>1. sent[i] = <<>>
        BY <3>2, <3>4 DEF RunInv, HeardNothingYet
      <4>2. i \in QueuedIds
        BY <3>1, <3>2, <3>4, QueuedAreTheRest DEF RunInv
      <4> QED BY <4>1, <4>2
    <3> QED BY <3>1, <3>3, <3>4
  <2>4. \A s \in Sections : state[s] => s \in manual
    BY <2>2 DEF ValveFollowsRun
  <2> QED BY <2>1, <2>3, <2>4
<1> QED
  BY <1>1, AnswerInvHolds, EndInvInit, EndInvStep, RinklersUsesSections, RunInvHolds,
     ValveCorrect, PTL DEF RinklersSpec

(***************************************************************************)
(* RequestsRunInTurn: to those who queue them, by a request or in a        *)
(* program, runs look as SectionRuns describes them: accepted and started  *)
(* in their order, one at a time, each told its end (run_section, run()).  *)
(***************************************************************************)
THEOREM RequestsRunInTurn == RinklersSpec => ImplementsSectionRuns
BY RinklersUsesSections, SectionRunnerIsCorrect, PTL
-----------------------------------------------------------------------------
(***************************************************************************)
(* Rinklers implements Orders.  What it takes beside the invariants above: *)
(* a thread that waits for a request has none at hand.                     *)
(***************************************************************************)
NothingAtHand == api \notin AtWork /\ ~panicked => handling = <<>>

LEMMA NothingAtHandInit == RinklersInit => NothingAtHand
BY DEF RinklersInit, ApiInit, NothingAtHand

LEMMA NothingAtHandStep == NothingAtHand /\ [RinklersNext]_rinklersVars => NothingAtHand'
<1> SUFFICES ASSUME NothingAtHand, [RinklersNext]_rinklersVars PROVE NothingAtHand'
  OBVIOUS
<1> USE DEF NothingAtHand, AtWork, Go
<1>1. CASE ReceiveRequest
  BY <1>1 DEF ReceiveRequest, Receive
<1>2. CASE CarriesOut
  BY <1>2 DEF CarriesOut
<1>3. CASE Publish /\ UNCHANGED <<panicked, effects>>
  BY <1>3 DEF Publish
<1>4. CASE ComesToError \/ PanicsAtWork \/ StaysAway \/ StaysAtIt
  BY <1>4 DEF ComesToError, PanicsAtWork, StaysAway, StaysAtIt
<1> QED BY <1>1, <1>2, <1>3, <1>4, WorkMoves

(* The mapping of what is at hand. *)
Told(h, n) == {[req |-> h[k].req, done |-> n = 1] : k \in DOMAIN h}

LEMMA AtHandIsTold ==
  AtHand = Told(handling, Unanswered) /\ AtHand' = Told(handling', Unanswered')
BY DEF AtHand, Told

LEMMA NothingIsTold ==
  ASSUME NEW n
  PROVE  Told(<<>>, n) = {}
BY DEF Told

(* A condition as a part of a record. *)
LEMMA TruthAsValue ==
  ASSUME NEW r, NEW P \in BOOLEAN
  PROVE  /\ P => {[req |-> r, done |-> P]} = {[req |-> r, done |-> TRUE]}
         /\ ~P => {[req |-> r, done |-> P]} = {[req |-> r, done |-> FALSE]}
OBVIOUS

LEMMA OneIsTold ==
  ASSUME NEW a, NEW n
  PROVE  /\ n = 1 => Told(<<a>>, n) = {[req |-> a.req, done |-> TRUE]}
         /\ n = 0 => Told(<<a>>, n) = {[req |-> a.req, done |-> FALSE]}
<1>1. Told(<<a>>, n) = {[req |-> a.req, done |-> n = 1]}
  <2>1. DOMAIN <<a>> = {1} /\ <<a>>[1] = a
    OBVIOUS
  <2> QED BY <2>1, Zenon DEF Told
<1>2. (n = 1) \in BOOLEAN
  OBVIOUS
<1>3. CASE n = 1
  <2>1. n # 0
    BY <1>3
  <2> QED BY <1>1, <1>2, <1>3, <2>1, TruthAsValue, Zenon
<1>4. CASE n = 0
  <2>1. n # 1
    BY <1>4
  <2> QED BY <1>1, <1>2, <2>1, TruthAsValue, Zenon
<1> QED BY <1>3, <1>4

LEMMA SameAtHand ==
  ASSUME UNCHANGED <<handling, answers, effects>>, Len(answers) \in Nat
  PROVE  AtHand' = AtHand
<1>1. Unanswered' = Unanswered
  BY SameCounts DEF Unanswered
<1> QED BY <1>1, Zenon DEF AtHand

LEMMA OpenAtWork ==
  ASSUME StopInv, api \notin Leaving
  PROVE  ~Unserved
BY DEF StopInv, LeavesBeforeMain, Unserved, Leaving

LEMMA OnlyRequestsAreCarriedOut ==
  ASSUME [RinklersNext]_rinklersVars, effects' # effects
  PROVE  ProcessSetState \/ ProcessRunFor
<1>1. CASE ApiThread
  BY <1>1 DEF ApiThread, ReceiveRequest, ProcessRunForPanics, ProcessError
<1>2. CASE UpgradeFlag \/ StoreFlag \/ Kill \/ JoinApi \/ TryUnwrap \/ StopAll \/ StopAllReturns
  BY <1>2 DEF UpgradeFlag, StoreFlag, Kill, JoinApi, TryUnwrap, StopAll, StopAllReturns, MainGoes
<1>3. CASE (\E p \in Programs : ExecuteProgram(p)) \/ ExecutorGoes \/ SectionsGo \/ Outside
  BY <1>3, OthersLeaveItAlone
<1> QED BY <1>1, <1>2, <1>3 DEF RinklersNext, MainThread, rinklersVars

(* The thread is gone when it has dropped its state, and not before. *)
LEMMA GoneIsDropped ==
  ASSUME ApiThread, api' = "gone"
  PROVE  DropState /\ UNCHANGED <<programVars, main, effects>>
<1> USE DEF Go, Panics
<1>1. ~ReceiveRequest /\ ~ProcessSetState /\ ~ProcessRunForPanics /\ ~ProcessError
  BY DEF ReceiveRequest, Receive, ProcessSetState, Processed, ProcessRunForPanics,
         ProcessingPanics, ProcessError
<1>2. ~ProcessRunFor
  <2>1. ProcessRunFor => Processed \/ ProcessingPanics
    BY DEF ProcessRunFor
  <2> QED BY <2>1 DEF Processed, ProcessingPanics
<1>3. ~ReadFlag /\ ~Connect /\ ~ConnectFails /\ ~EndPause /\ ~SetUp /\ ~SetUpFails
  BY DEF ReadFlag, Connect, ConnectFails, EndPause, SetUp, SetUpFails
<1>4. ~ReadFlagAgain /\ ~Block /\ ~AwaitFails /\ ~Publish /\ ~PublishPanics
  BY DEF ReadFlagAgain, Block, AwaitFails, Publish, PublishPanics, Terminate, AfterBreak
<1> QED BY <1>1, <1>2, <1>3, <1>4 DEF ApiThread, ApiSteps

(* Nobody is served again once the thread is gone or taken for gone, and   *)
(* nothing else changes when that happens.                                 *)
LEMMA ServiceEnds ==
  ASSUME [RinklersNext]_rinklersVars
  PROVE  /\ Unserved => Unserved'
         /\ ~Unserved /\ Unserved' => UNCHANGED <<programVars, effects, answers, handling>>
<1> USE DEF Unserved, MainGoes, apiVars, workVars
<1>1. CASE ApiThread
  <2>1. main' = main /\ (api \in Leaving => api' = "gone")
    BY <1>1, ThreadMoves
  <2>2. api' = "gone" => DropState /\ UNCHANGED <<programVars, main, effects>>
    BY <1>1, GoneIsDropped
  <2> QED BY <2>1, <2>2 DEF DropState, Leaving
<1>2. CASE UpgradeFlag \/ JoinApi \/ TryUnwrap
  BY <1>2 DEF UpgradeFlag, JoinApi, TryUnwrap
<1>3. CASE StoreFlag \/ Kill
  BY <1>3 DEF StoreFlag, Kill, LowerFlag, SignalThread
<1>4. CASE StopAll \/ StopAllReturns
  BY <1>4 DEF StopAll, StopAllReturns
<1>5. CASE (\E p \in Programs : ExecuteProgram(p)) \/ ExecutorGoes \/ SectionsGo \/ Outside
  BY <1>5, OthersLeaveItAlone
<1>6. CASE UNCHANGED rinklersVars
  BY <1>6 DEF rinklersVars
<1> QED BY <1>1, <1>2, <1>3, <1>4, <1>5, <1>6 DEF RinklersNext, MainThread

(* What changes for other reasons keeps what Orders asks of it. *)
LEMMA WorldMovesOn ==
  ASSUME RinklersTypeOK, HandlingIsCoded, [RinklersNext]_rinklersVars
  PROVE  state' \in [Sections -> BOOLEAN] /\ queued' \in Nat /\ queued' >= queued
<1>1. RinklersTypeOK' /\ [Next]_vars
  BY RinklersStepKeepsTypes, RinklersStepsAreSectionSteps
<1>2. queued' \in Nat /\ queued \in Nat /\ queued <= queued'
  BY <1>1, QueuedGrows DEF RinklersTypeOK, ProgramTypeOK
<1>3. state' \in [Sections -> BOOLEAN]
  BY <1>1 DEF RinklersTypeOK, ProgramTypeOK, TypeOK
<1> QED BY <1>2, <1>3

(* A request is carried out with all it means. *)
LEMMA CarriedOutAtOnce ==
  ASSUME [RinklersNext]_rinklersVars, CarriesOut, RinklersTypeOK, HandlingIsCoded
  PROVE  Promised!Does(handling[1].req) /\ main' = main
<1>1. effects' # effects
  <2>1. effects \in Seq(Requests) /\ effects' = Append(effects, handling[1].req)
    BY DEF CarriesOut, RinklersTypeOK
  <2>2. Len(effects') = Len(effects) + 1 /\ Len(effects) \in Nat
    BY <2>1
  <2> QED BY <2>2
<1>2. ProcessSetState \/ ProcessRunFor
  BY <1>1, OnlyRequestsAreCarriedOut
<1>3. CASE ProcessSetState
  BY <1>3 DEF ProcessSetState, Asks, SetState, Promised!Does
<1>4. CASE ProcessRunFor
  BY <1>4 DEF ProcessRunFor, Asks, RunSection, PushBack, Promised!Does
<1> QED BY <1>2, <1>3, <1>4

(* What is as it should be can be carried out (process_msg). *)
LEMMA ProperIsSuccess ==
  ASSUME NEW r \in Requests, r.text = "proper", r.sec \in Sections
  PROVE  Code(r) = "Success"
BY RinklersAssumption DEF Code

(* Publishing is what the thread does then, and all it does. *)
LEMMA PublishChangesNothingElse ==
  ASSUME [RinklersNext]_rinklersVars, api = "answering", api' = "looping"
  PROVE  UNCHANGED <<programVars, main>>
<1> USE DEF apiVars, Go, MainGoes
<1>1. CASE ApiThread
  <2>1. ~ProcessSetState /\ ~ProcessRunFor
    BY DEF ProcessSetState, ProcessRunFor, Asks
  <2> QED BY <1>1, <2>1 DEF ApiThread, ReceiveRequest, ProcessRunForPanics, ProcessError
<1>2. CASE UpgradeFlag \/ StoreFlag \/ Kill \/ JoinApi \/ TryUnwrap \/ StopAll \/ StopAllReturns
  BY <1>2
  DEF UpgradeFlag, StoreFlag, Kill, LowerFlag, SignalThread, JoinApi, TryUnwrap, StopAll,
      StopAllReturns
<1>3. CASE (\E p \in Programs : ExecuteProgram(p)) \/ ExecutorGoes \/ SectionsGo
  BY <1>3 DEF ExecuteProgram, ExecutorGoes, SectionsGo
<1>4. CASE Outside
  BY <1>4 DEF Outside, SendRequest, Send, LoseConnection, AwaitNothing
<1>5. CASE UNCHANGED rinklersVars
  BY <1>5 DEF rinklersVars
<1> QED BY <1>1, <1>2, <1>3, <1>4, <1>5 DEF RinklersNext, MainThread

(* How the steps that concern the request at hand are steps of Orders. *)

LEMMA ReceivingTakes ==
  ASSUME AnswerInv, StopInv, NothingAtHand, ReceiveRequest
  PROVE  \E r \in Requests : Promised!Take(r)
<1> DEFINE r == Head(inbox)
           a == [req |-> r, code |-> Code(r)]
<1>1. /\ api = "awaiting" /\ api' = "processing" /\ inbox # <<>> /\ handling' = <<a>>
      /\ UNCHANGED <<programVars, main, effects, answers>>
  BY DEF ReceiveRequest, Receive, Go
<1>2. r \in Requests
  BY <1>1, HandlingIsTyped DEF AnswerInv, RinklersTypeOK
<1>3. handling = <<>> /\ ~panicked /\ Unanswered = 0
  BY <1>1 DEF NothingAtHand, AtWork, AnswerInv, PanicLeaves, Leaving, AnswersTellEffects
<1>4. ~Unserved /\ Unserved' = Unserved
  <2>1. ~Unserved
    BY <1>1, OpenAtWork DEF Leaving
  <2>2. Unserved' = Unserved
    BY <1>1 DEF Unserved
  <2> QED BY <2>1, <2>2
<1>5. AtHand' = {[req |-> r, done |-> FALSE]}
  <2>1. Len(answers) \in Nat
    BY DEF AnswerInv, RinklersTypeOK, ApiTypeOK
  <2>2. Unanswered' = 0
    BY <1>1, <1>3, <2>1, SameCounts DEF Unanswered
  <2>3. AtHand' = Told(<<a>>, Unanswered')
    BY <1>1, AtHandIsTold
  <2>4. a.req = r
    OBVIOUS
  <2> HIDE DEF a
  <2> QED BY <2>2, <2>3, <2>4, OneIsTold
<1>6. AtHand = {}
  BY <1>3, AtHandIsTold, NothingIsTold
<1>7. UNCHANGED <<effects, answers, state, queued, queue, Unserved>>
  BY <1>1, <1>4 DEF programVars, vars, dataVars
<1> HIDE DEF r
<1>8. Promised!Take(r)
  BY <1>4, <1>5, <1>6, <1>7 DEF Promised!Take
<1> QED BY <1>2, <1>8

LEMMA ProcessingCarriesOut ==
  ASSUME AnswerInv, StopInv, [RinklersNext]_rinklersVars, CarriesOut
  PROVE  \E r \in Requests : Promised!CarryOut(r)
<1> DEFINE a == handling[1]
           r == a.req
<1>1. /\ api = "processing" /\ api' # "gone" /\ a.code = "Success"
      /\ effects' = Append(effects, r) /\ UNCHANGED <<handling, answers>>
  BY DEF CarriesOut, Asks
<1>2. handling = <<a>> /\ r \in Requests /\ r.text = "proper" /\ r.sec \in Sections
  BY <1>1, RequestAtHand, SuccessIsProper DEF AnswerInv, RinklersTypeOK
<1>3. Promised!Does(r) /\ main' = main
  BY CarriedOutAtOnce DEF AnswerInv
<1>4. ~Unserved /\ Unserved' = Unserved
  <2>1. ~Unserved
    BY <1>1, OpenAtWork DEF Leaving
  <2>2. Unserved' = Unserved
    BY <1>1, <1>3 DEF Unserved
  <2> QED BY <2>1, <2>2
<1> HIDE DEF a
<1>5. AtHand = {[req |-> r, done |-> FALSE]}
  <2>1. Unanswered = 0
    BY <1>1 DEF AnswerInv, PanicLeaves, Leaving, AnswersTellEffects
  <2> QED BY <1>2, <2>1, AtHandIsTold, OneIsTold
<1>6. AtHand' = {[req |-> r, done |-> TRUE]}
  <2>1. Unanswered' = 1
    BY CarryingOutKeepsAnswers
  <2>2. handling' = <<a>>
    BY <1>1, <1>2
  <2> QED BY <2>1, <2>2, AtHandIsTold, OneIsTold
<1>7. Promised!Proper(r)
  BY <1>2 DEF Promised!Proper
<1> HIDE DEF r
<1>8. Promised!CarryOut(r)
  BY <1>1, <1>3, <1>4, <1>5, <1>6, <1>7 DEF Promised!CarryOut
<1> QED BY <1>2, <1>8

LEMMA PublishingReplies ==
  ASSUME AnswerInv, StopInv, [RinklersNext]_rinklersVars, Publish, effects' = effects
  PROVE  \E r \in Requests, code \in Codes : Promised!Reply(r, code)
<1> DEFINE a == handling[1]
           r == a.req
           c == a.code
<1>1. /\ api = "answering" /\ api' = "looping" /\ answers' = answers \o handling
      /\ handling' = <<>>
  BY DEF Publish, Go
<1>2. handling = <<a>> /\ a \in Answer /\ r \in Requests /\ c = Code(r) /\ c \in Codes
  BY <1>1, RequestAtHand, CodesAreTyped DEF AnswerInv, RinklersTypeOK
<1>3. a = [req |-> r, code |-> c]
  BY <1>2 DEF Answer
<1>4. \/ c = "Success" /\ Unanswered = 1
      \/ c # "Success" /\ Unanswered = 0
  BY <1>1 DEF AnswerInv, LastIsAtHand
<1> HIDE DEF a
<1>5. AtHand = {[req |-> r, done |-> (c = "Success")]}
  <2>1. CASE c = "Success" /\ Unanswered = 1
    <3>1. AtHand = {[req |-> r, done |-> TRUE]}
      BY <1>2, <2>1, AtHandIsTold, OneIsTold
    <3> QED BY <2>1, <3>1, TruthAsValue
  <2>2. CASE c # "Success" /\ Unanswered = 0
    <3>1. AtHand = {[req |-> r, done |-> FALSE]}
      BY <1>2, <2>2, AtHandIsTold, OneIsTold
    <3> QED BY <2>2, <3>1, TruthAsValue
  <2> QED BY <1>4, <2>1, <2>2
<1>6. AtHand' = {}
  BY <1>1, AtHandIsTold, NothingIsTold
<1>7. answers' = Append(answers, [req |-> r, code |-> c])
  <2>1. answers \in Seq(Answer)
    BY DEF AnswerInv, RinklersTypeOK, ApiTypeOK
  <2> QED BY <1>1, <1>2, <1>3, <2>1
<1>8. c # "Success" => ~Promised!Proper(r)
  BY <1>2, ProperIsSuccess DEF Promised!Proper
<1>9. UNCHANGED <<programVars, main>>
  BY <1>1, PublishChangesNothingElse
<1>10. ~Unserved /\ Unserved' = Unserved
  <2>1. ~Unserved
    BY <1>1, OpenAtWork DEF Leaving
  <2>2. Unserved' = Unserved
    BY <1>1, <1>9 DEF Unserved
  <2> QED BY <2>1, <2>2
<1>11. UNCHANGED <<effects, state, queued, queue, Unserved>>
  BY <1>9, <1>10 DEF programVars, vars, dataVars
<1> HIDE DEF r, c
<1>12. Promised!Reply(r, c)
  BY <1>5, <1>6, <1>7, <1>8, <1>10, <1>11 DEF Promised!Reply
<1> QED BY <1>2, <1>12

(* The other steps leave the request at hand alone: nobody notices them,   *)
(* or the service ends.                                                    *)
LEMMA OthersLeaveOrders ==
  ASSUME AnswerInv, [RinklersNext]_rinklersVars, UNCHANGED <<handling, answers, effects>>
  PROVE  Promised!Close \/ Promised!Meanwhile
<1>1. Len(answers) \in Nat /\ RinklersTypeOK /\ HandlingIsCoded
  BY DEF AnswerInv, RinklersTypeOK, ApiTypeOK
<1>2. AtHand' = AtHand
  BY <1>1, SameAtHand
<1>3. CASE Unserved' = Unserved
  <2>1. state' \in [Sections -> BOOLEAN] /\ queued' \in Nat /\ queued' >= queued
    BY <1>1, WorldMovesOn
  <2> QED BY <1>2, <1>3, <2>1 DEF Promised!Meanwhile
<1>4. CASE Unserved' # Unserved
  <2>1. ~Unserved /\ Unserved' = TRUE /\ UNCHANGED programVars
    BY <1>4, ServiceEnds DEF Unserved
  <2>2. UNCHANGED <<state, queued, queue>>
    BY <2>1 DEF programVars, vars, dataVars
  <2> QED BY <1>2, <2>1, <2>2 DEF Promised!Close
<1> QED BY <1>3, <1>4

(***************************************************************************)
(* OrdersAreKept: to those who send requests, and to main, the program     *)
(* looks as Orders describes it: process_msg carries a request out with    *)
(* all it means before it is answered and before the next one is looked    *)
(* at, no other request does anything, the answer says which, and after    *)
(* stop() has returned there is no more of either.                         *)
(***************************************************************************)
THEOREM OrdersAreKept == RinklersSpec => ImplementsOrders
<1>1. RinklersInit => Promised!Init
  <2> SUFFICES ASSUME RinklersInit PROVE Promised!Init
    OBVIOUS
  <2>1. /\ api = "top" /\ main = "trapping" /\ handling = <<>>
        /\ effects = <<>> /\ answers = <<>>
        /\ state = [s \in Sections |-> FALSE] /\ queued = 0 /\ queue = <<>>
    BY DEF RinklersInit, ApiInit, ProgramInit, Init
  <2>2. AtHand = {}
    BY <2>1, AtHandIsTold, NothingIsTold
  <2>3. Unserved = FALSE
    BY <2>1 DEF Unserved
  <2> QED BY <2>1, <2>2, <2>3 DEF Promised!Init
<1>2. AnswerInv /\ StopInv /\ NothingAtHand /\ [RinklersNext]_rinklersVars
        => [Promised!Next]_(Promised!vars)
  <2> SUFFICES ASSUME AnswerInv, StopInv, NothingAtHand, [RinklersNext]_rinklersVars
               PROVE  Promised!Next
    OBVIOUS
  <2>1. CASE ReceiveRequest
    BY <2>1, ReceivingTakes DEF Promised!Next
  <2>2. CASE CarriesOut
    BY <2>2, ProcessingCarriesOut DEF Promised!Next
  <2>3. CASE Publish /\ UNCHANGED <<panicked, effects>>
    BY <2>3, PublishingReplies DEF Promised!Next
  <2>4. CASE ComesToError \/ PanicsAtWork \/ StaysAway \/ StaysAtIt
    <3>1. UNCHANGED <<handling, answers, effects>>
      BY <2>4 DEF ComesToError, PanicsAtWork, StaysAway, StaysAtIt
    <3> QED BY <3>1, OthersLeaveOrders DEF Promised!Next
  <2> QED BY <2>1, <2>2, <2>3, <2>4, WorkMoves
<1> QED
  BY <1>1, <1>2, AnswerInvHolds, StopInvInit, StopInvStep, NothingAtHandInit, NothingAtHandStep,
     PTL DEF RinklersSpec, ImplementsOrders, Promised!Spec
=============================================================================
