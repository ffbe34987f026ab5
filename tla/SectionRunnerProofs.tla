------------------------ MODULE SectionRunnerProofs ------------------------
(***************************************************************************)
(* Proofs about SectionRunner, for any sections, any durations and any     *)
(* number of runs.                                                         *)
(***************************************************************************)
EXTENDS SectionRunner, RunnerFacts, SequenceTheorems

LEMMA CurrentIsRun ==
  ASSUME TypeOK, current # NoRun
  PROVE  current \in Run /\ current.id \in RunIds /\ current.sec \in Sections
         /\ current.dur \in Nat /\ current.elapsed \in Nat
BY SectionRunnerAssumption DEF TypeOK, Run

LEMMA HeadIsRun ==
  ASSUME TypeOK, queue # <<>>
  PROVE  /\ Head(queue) = queue[1]
         /\ Head(queue) \in SecRun
         /\ Head(queue).id \in RunIds
         /\ Head(queue).sec \in Sections
         /\ Head(queue).dur \in Durations
         /\ Head(queue).dur \in Nat
         /\ Tail(queue) \in Seq(SecRun)
         /\ Len(queue) \in Nat \ {0}
         /\ Len(Tail(queue)) = Len(queue) - 1
         /\ \A k \in 1 .. Len(Tail(queue)) : Tail(queue)[k] = queue[k + 1]
<1>1. queue \in Seq(SecRun)
  BY DEF TypeOK
<1>2. Head(queue) \in SecRun /\ Head(queue) = queue[1]
  BY <1>1
<1>3. Tail(queue) \in Seq(SecRun) /\ Len(Tail(queue)) = Len(queue) - 1
      /\ Len(queue) \in Nat \ {0}
      /\ \A k \in 1 .. Len(Tail(queue)) : Tail(queue)[k] = queue[k + 1]
  BY <1>1
<1> QED BY <1>2, <1>3, SectionRunnerAssumption DEF SecRun

(* No step takes a variable out of its type. *)
LEMMA StepKeepsTypes == TypeOK /\ [Next]_vars => TypeOK'
<1> SUFFICES ASSUME TypeOK, [Next]_vars PROVE TypeOK'
  OBVIOUS
<1> USE SectionRunnerAssumption, RunnerTypes, PeriodsAreTyped
<1>1. ASSUME NEW s \in Sections, NEW d \in Durations, RunSection(s, d)
      PROVE  TypeOK'
  <2>1. RunnerTypeOK'
    BY <1>1 DEF RunSection, Update, TypeOK
  <2>2. [id |-> queued + 1, sec |-> s, dur |-> d] \in SecRun
    BY <1>1 DEF RunSection, TypeOK, SecRun, RunIds
  <2>3. queue' \in Seq(SecRun)
    BY <1>1, <2>2 DEF RunSection, PushBack, TypeOK
  <2> QED BY <1>1, <2>1, <2>3 DEF RunSection, TypeOK
<1>2. ASSUME NEW s \in Sections, NEW b \in BOOLEAN, SetState(s, b)
      PROVE  TypeOK'
  BY <1>2 DEF SetState, TypeOK
<1>3. CASE Stop
  BY <1>3 DEF Stop, Update, TypeOK
<1>4. CASE Join
  BY <1>4 DEF Join, TypeOK
<1>5. CASE (WaitUpdate \/ TimeOut \/ Relock) /\ UNCHANGED dataVars
  BY <1>5 DEF dataVars, TimeOut, TypeOK
<1>6. CASE Interrupt
  <2>1. sent' \in [RunIds -> Seq(Notification)]
    BY <1>6 DEF Interrupt, TypeOK, Notification
  <2> QED BY <1>6, <2>1, CurrentIsRun DEF Interrupt, RunnerSets, TypeOK
<1>7. CASE QuitIdle
  BY <1>7 DEF QuitIdle, dataVars, TypeOK
<1>8. CASE FinishRun
  BY <1>8, CurrentIsRun DEF FinishRun, AfterFinish, RunnerSets, Notify, Notification, TypeOK
<1>9. CASE KeepRunning
  <2>1. SleepFor(current) \in WaitPeriods
    BY <1>9, CurrentIsRun DEF KeepRunning, SleepFor, Expired
  <2> QED BY <1>9, <2>1 DEF KeepRunning, dataVars, TypeOK
<1>10. CASE StartRun
  <2> DEFINE run == Head(queue)
  <2>1. queue # <<>>
    BY <1>10 DEF StartRun
  <2>2. RunnerTypeOK'
    BY <1>10, <2>1, HeadIsRun DEF StartRun, TypeOK
  <2>3. current' \in Run
    BY <1>10, <2>1, HeadIsRun DEF StartRun, Run
  <2>4. sent' \in [RunIds -> Seq(Notification)]
    BY <1>10, <2>1, HeadIsRun DEF StartRun, Notify, Notification, TypeOK
  <2> QED BY <1>10, <2>1, <2>2, <2>3, <2>4, HeadIsRun DEF StartRun, RunnerSets, TypeOK
<1>11. CASE StartPanics
  BY <1>11, HeadIsRun DEF StartPanics, TypeOK
<1>12. CASE Idle
  BY <1>12 DEF Idle, dataVars, TypeOK
<1>13. CASE Spurious
  BY <1>13 DEF Spurious, SpuriousWake, dataVars, TypeOK
<1>14. CASE Tick
  <2>1. current' \in Run \cup {NoRun}
    <3>1. CASE RunAges
      BY <1>14, <3>1, CurrentIsRun DEF RunAges, Tick, Run
    <3>2. CASE ~RunAges
      BY <1>14, <3>2 DEF Tick, TypeOK
    <3> QED BY <3>1, <3>2
  <2>2. awake' \in Nat
    BY <1>14 DEF Tick, TypeOK
  <2> QED BY <1>14, <2>1, <2>2 DEF Tick, TypeOK
<1>15. CASE UNCHANGED vars
  BY <1>15 DEF vars, dataVars, TypeOK
<1> QED
  BY <1>1, <1>2, <1>3, <1>4, <1>5, <1>6, <1>7, <1>8, <1>9, <1>10, <1>11, <1>12, <1>13, <1>14, <1>15
  DEF Next, Callers, RunnerThread, LoopBody

(* The initial state is typed. *)
LEMMA InitTypes == Init => TypeOK
<1> SUFFICES ASSUME Init PROVE TypeOK
  OBVIOUS
<1>1. RunnerTypeOK
  BY PeriodsAreTyped DEF Init, RunnerInit, RunnerTypeOK, Places
<1>2. queue \in Seq(SecRun) /\ sent \in [RunIds -> Seq(Notification)]
  BY DEF Init
<1>3. state \in [Sections -> BOOLEAN]
  BY DEF Init
<1>4. queued \in 0 .. MaxRuns /\ manual \in SUBSET Sections
  BY SectionRunnerAssumption DEF Init
<1>5. quit \in BOOLEAN /\ current \in Run \cup {NoRun}
      /\ stopper \in {"idle", "joining", "stopped", "panicked"}
      /\ awake \in Nat
  BY DEF Init
<1> QED BY <1>1, <1>2, <1>3, <1>4, <1>5 DEF TypeOK

(***************************************************************************)
(* TypeCorrect: every variable of the SectionRunner keeps its type; in     *)
(* particular the time left that KeepRunning sleeps for is never negative  *)
(* (the subtraction run.dur - elapsed in run() cannot underflow).          *)
(***************************************************************************)
THEOREM TypeCorrect == Spec => []TypeOK
BY InitTypes, StepKeepsTypes, PTL DEF Spec
-----------------------------------------------------------------------------
(* What a step of the clock does to the current run. *)
LEMMA TickKeepsRun ==
  ASSUME TypeOK, Tick
  PROVE  /\ current' = NoRun <=> current = NoRun
         /\ current'.id = current.id
         /\ current # NoRun => current'.sec = current.sec /\ current'.dur = current.dur
<1>1. CASE RunAges
  BY <1>1, CurrentIsRun DEF RunAges, Tick, Run, NoRun, RunIds
<1>2. CASE ~RunAges
  <2>1. current' = current
    BY <1>2 DEF Tick
  <2> QED BY <2>1
<1> QED BY <1>1, <1>2

LEMMA TickAgesRun ==
  ASSUME TypeOK, Tick, current # NoRun
  PROVE  current'.elapsed = IF current.elapsed < current.dur
                            THEN current.elapsed + 1 ELSE current.elapsed
BY CurrentIsRun DEF Tick, RunAges, Run

(* A started run is a run, and not None. *)
LEMMA StartMakesRun ==
  ASSUME TypeOK, StartRun
  PROVE  /\ current' # NoRun
         /\ current'.id = Head(queue).id
         /\ current'.sec = Head(queue).sec
         /\ current'.dur = Head(queue).dur
         /\ current'.elapsed = 0
         /\ queue # <<>>
BY HeadIsRun DEF StartRun, NoRun, RunIds

(***************************************************************************)
(* ValveCorrect: in every reachable state the sections that nobody else    *)
(* touched are on exactly while their run is current (run(): every         *)
(* set_state call comes with the matching change of current_run).          *)
(***************************************************************************)
THEOREM ValveCorrect == Spec => []ValveFollowsRun
<1>1. Init => ValveFollowsRun
  BY DEF Init, ValveFollowsRun
<1>2. TypeOK /\ ValveFollowsRun /\ [Next]_vars => ValveFollowsRun'
  <2> SUFFICES ASSUME TypeOK, ValveFollowsRun, [Next]_vars,
                      NEW t \in Sections \ manual'
               PROVE  (state[t] <=> (current # NoRun /\ current.sec = t))'
    BY DEF ValveFollowsRun
  <2> USE DEF ValveFollowsRun
  <2>1. CASE UNCHANGED <<state, manual, current>>
    BY <2>1
  <2>2. ASSUME NEW s \in Sections, NEW b \in BOOLEAN, SetState(s, b)
        PROVE  (state[t] <=> (current # NoRun /\ current.sec = t))'
    BY <2>2 DEF SetState, TypeOK
  <2>3. CASE Interrupt \/ FinishRun
    BY <2>3, CurrentIsRun DEF Interrupt, FinishRun, RunnerSets, TypeOK
  <2>4. CASE StartRun
    BY <2>4, HeadIsRun, StartMakesRun DEF StartRun, RunnerSets, TypeOK
  <2>5. CASE Tick
    <3>1. state' = state /\ manual' = manual
      BY <2>5 DEF Tick
    <3>2. current' # NoRun <=> current # NoRun
      BY <2>5, TickKeepsRun
    <3>3. current # NoRun => current'.sec = current.sec
      BY <2>5, TickKeepsRun
    <3> HIDE DEF NoRun
    <3>4. state[t] <=> (current # NoRun /\ current.sec = t)
      BY <3>1
    <3> QED BY <3>1, <3>2, <3>3, <3>4
  <2> QED
    BY <2>1, <2>2, <2>3, <2>4, <2>5
    DEF Next, Callers, RunnerThread, LoopBody, RunSection, Stop, Join, QuitIdle,
        KeepRunning, StartPanics, Idle, Spurious, dataVars, vars
<1> QED BY <1>1, <1>2, TypeCorrect, PTL DEF Spec
-----------------------------------------------------------------------------
(* The conversations, one message at a time. *)
LEMMA AppendToOne ==
  ASSUME NEW x, NEW y
  PROVE  Append(<<x>>, y) = <<x, y>>
<1> DEFINE S == {x, y}
<1>1. <<x>> \in Seq(S) /\ <<x, y>> \in Seq(S) /\ Len(<<x>>) = 1 /\ Len(<<x, y>>) = 2
  OBVIOUS
<1>2. Append(<<x>>, y) \in Seq(S) /\ Len(Append(<<x>>, y)) = 2
  BY <1>1
<1>3. \A i \in 1 .. 2 : Append(<<x>>, y)[i] = <<x, y>>[i]
  BY <1>1
<1> HIDE DEF S
<1> QED BY <1>1, <1>2, <1>3, SeqEqual

LEMMA Conversations ==
  /\ Append(<<>>, "Start") = <<"Start">>
  /\ Append(<<>>, "Interrupted") = <<"Interrupted">>
  /\ Append(<<"Start">>, "Finish") \in Ended
  /\ Append(<<"Start">>, "Interrupted") \in Ended
  /\ <<"Interrupted">> \in Ended
  /\ <<>> \notin Ended
  /\ <<"Start">> \notin Ended
  /\ <<"Start">> # <<>>
BY AppendToOne DEF Ended

(* How many runs have left the queue. *)
LEMMA PoppedIsNat ==
  ASSUME TypeOK, QueueHoldsTheRest
  PROVE  /\ Popped \in Nat /\ Len(queue) \in Nat /\ queued \in Nat
         /\ Popped <= queued /\ queued <= MaxRuns
BY SectionRunnerAssumption DEF TypeOK, QueueHoldsTheRest, Popped

(* The runs in the queue are those with the numbers above Popped. *)
LEMMA QueuedAreTheRest ==
  ASSUME TypeOK, QueueHoldsTheRest, NEW i \in RunIds
  PROVE  i \in QueuedIds <=> Popped < i /\ i <= queued
<1>1. ASSUME i \in QueuedIds PROVE Popped < i /\ i <= queued
  BY <1>1, PoppedIsNat DEF QueuedIds, QueueHoldsTheRest, Popped
<1>2. ASSUME Popped < i, i <= queued PROVE i \in QueuedIds
  <2>1. i - Popped \in 1 .. Len(queue)
    BY <1>2, PoppedIsNat DEF Popped, RunIds
  <2>2. queue[i - Popped].id = i
    BY <2>1, PoppedIsNat DEF QueueHoldsTheRest, RunIds
  <2> QED BY <2>1, <2>2 DEF QueuedIds
<1> QED BY <1>1, <1>2

(* Steps that move no run in or out of the queue and send nothing. *)
LEMMA QuietSteps ==
  ASSUME RunInv, TypeOK', UNCHANGED <<queue, queued, sent>>,
         current' = NoRun <=> current = NoRun, current'.id = current.id,
         Poisoned => Poisoned',
         current # NoRun => thread' \notin {"exited", "panicked"}
  PROVE  RunInv'
<1>1. Popped' = Popped
  BY DEF Popped
<1>2. QueueHoldsTheRest'
  BY <1>1 DEF RunInv, QueueHoldsTheRest
<1>3. CurrentCameLast'
  BY <1>1 DEF RunInv, CurrentCameLast
<1>4. HeardNothingYet'
  BY <1>1 DEF RunInv, HeardNothingYet
<1>5. HeardItAll'
  BY <1>1 DEF RunInv, HeardItAll
<1> QED BY <1>2, <1>3, <1>4, <1>5 DEF RunInv

(* The steps that queue a run, start one, drop one or end some keep RunInv. *)
LEMMA RunSectionKeepsOrder ==
  ASSUME RunInv, TypeOK', NEW s \in Sections, NEW d \in Durations, RunSection(s, d)
  PROVE  RunInv'
<1> USE DEF RunInv
<1> DEFINE run == [id |-> queued + 1, sec |-> s, dur |-> d]
<1>1. queue \in Seq(SecRun) /\ queued \in Nat /\ Len(queue) \in Nat
  BY PoppedIsNat DEF TypeOK
<1>2. run \in SecRun /\ queue' = Append(queue, run) /\ queued' = queued + 1
      /\ sent' = sent /\ current' = current
  BY <1>1 DEF RunSection, PushBack, TypeOK, SecRun, RunIds
<1>3. /\ Len(queue') = Len(queue) + 1
      /\ \A k \in 1 .. Len(queue) : queue'[k] = queue[k]
      /\ queue'[Len(queue) + 1] = run
  <2> HIDE DEF run
  <2> QED BY <1>1, <1>2
<1>4. Popped' = Popped
  BY <1>1, <1>2, <1>3 DEF Popped
<1>5. QueueHoldsTheRest'
  <2>1. \A k \in 1 .. Len(queue') : queue'[k].id = Popped + k
    <3> SUFFICES ASSUME NEW k \in 1 .. Len(queue') PROVE queue'[k].id = Popped + k
      OBVIOUS
    <3>1. CASE k \in 1 .. Len(queue)
      BY <3>1, <1>3 DEF QueueHoldsTheRest
    <3>2. CASE k = Len(queue) + 1
      BY <3>2, <1>1, <1>3 DEF Popped
    <3> QED BY <3>1, <3>2, <1>1, <1>3
  <2> QED BY <2>1, <1>1, <1>2, <1>3, <1>4 DEF QueueHoldsTheRest
<1>6. CurrentCameLast'
  BY <1>2, <1>4 DEF CurrentCameLast, RunSection, Update, NotifyOne
<1>7. HeardNothingYet'
  BY <1>2, <1>4 DEF HeardNothingYet
<1>8. HeardItAll'
  BY <1>2, <1>4 DEF HeardItAll, RunSection, Update, NotifyOne, Poisoned
<1> QED BY <1>5, <1>6, <1>7, <1>8

LEMMA InterruptKeepsOrder ==
  ASSUME RunInv, TypeOK', Interrupt
  PROVE  RunInv'
<1> USE DEF RunInv
<1>1. queue' = <<>> /\ Len(queue') = 0 /\ queued' = queued /\ current' = NoRun
      /\ thread = "locked" /\ current # NoRun
  BY DEF Interrupt, Return
<1>2. Popped' = queued
  BY <1>1, PoppedIsNat DEF Popped
<1>3. QueueHoldsTheRest'
  BY <1>1, PoppedIsNat DEF QueueHoldsTheRest
<1>4. \A i \in RunIds :
        sent'[i] = IF i = current.id \/ i \in QueuedIds
                   THEN Append(sent[i], "Interrupted") ELSE sent[i]
  BY DEF Interrupt
<1>5. HeardNothingYet'
  <2> SUFFICES ASSUME NEW i \in RunIds, i > queued PROVE sent'[i] = <<>>
    BY <1>2 DEF HeardNothingYet
  <2>1. i > Popped /\ i # current.id /\ i \notin QueuedIds
    BY <1>1, PoppedIsNat, QueuedAreTheRest DEF CurrentCameLast, RunIds
  <2> QED BY <2>1, <1>4 DEF HeardNothingYet
<1>6. HeardItAll'
  <2> SUFFICES ASSUME NEW i \in RunIds, i <= queued PROVE sent'[i] \in Ended
    BY <1>1, <1>2 DEF HeardItAll
  <2>1. CASE i = current.id
    BY <2>1, <1>1, <1>4, Conversations DEF CurrentCameLast
  <2>2. CASE i # current.id /\ i > Popped
    <3>1. sent[i] = <<>> /\ i \in QueuedIds
      BY <2>2, QueuedAreTheRest DEF HeardNothingYet
    <3>2. sent'[i] = Append(<<>>, "Interrupted")
      BY <1>4, <3>1
    <3> QED BY <3>2, Conversations
  <2>3. CASE i # current.id /\ i <= Popped
    <3>1. i \notin QueuedIds
      BY <2>3, QueuedAreTheRest, PoppedIsNat DEF RunIds
    <3> QED BY <2>3, <3>1, <1>1, <1>4 DEF HeardItAll, Poisoned
  <2> QED BY <2>1, <2>2, <2>3, PoppedIsNat DEF RunIds
<1> QED BY <1>1, <1>3, <1>5, <1>6 DEF CurrentCameLast

LEMMA FinishKeepsOrder ==
  ASSUME RunInv, TypeOK', FinishRun
  PROVE  RunInv'
<1> USE DEF RunInv
<1>1. UNCHANGED <<queue, queued>> /\ current' = NoRun /\ current'.id = 0 /\ current # NoRun
      /\ thread = "locked" /\ thread' = "top"
  BY DEF FinishRun, Continue, NoRun
<1>2. Popped' = Popped /\ QueueHoldsTheRest'
  BY <1>1 DEF Popped, QueueHoldsTheRest
<1>3. current.id = Popped /\ sent[Popped] = <<"Start">>
  BY <1>1 DEF CurrentCameLast
<1>4. \A i \in RunIds :
        sent'[i] = IF i = Popped THEN Append(sent[i], "Finish") ELSE sent[i]
  BY <1>3 DEF FinishRun, Notify, TypeOK
<1>5. HeardNothingYet'
  BY <1>2, <1>4, PoppedIsNat DEF HeardNothingYet, RunIds
<1>6. HeardItAll'
  <2> SUFFICES ASSUME NEW i \in RunIds, i <= Popped PROVE sent'[i] \in Ended
    BY <1>2 DEF HeardItAll
  <2>1. CASE i = Popped
    BY <2>1, <1>3, <1>4, Conversations
  <2>2. CASE i # Popped
    BY <2>2, <1>1, <1>3, <1>4 DEF HeardItAll, Poisoned
  <2> QED BY <2>1, <2>2
<1> QED BY <1>1, <1>2, <1>5, <1>6 DEF CurrentCameLast

(* The run that StartRun and StartPanics take from the queue. *)
LEMMA PopTheNext ==
  ASSUME RunInv, TypeOK', queue # <<>>, queue' = Tail(queue), queued' = queued,
         current = NoRun
  PROVE  /\ Head(queue).id = Popped + 1
         /\ Popped' = Popped + 1
         /\ Popped \in Nat /\ Popped + 1 \in RunIds
         /\ QueueHoldsTheRest'
         /\ sent[Popped + 1] = <<>>
         /\ \A i \in RunIds : i > Popped => sent[i] = <<>>
         /\ \A i \in RunIds : i <= Popped => sent[i] \in Ended \/ Poisoned
<1> USE DEF RunInv
<1>1. Popped \in Nat /\ Len(queue) \in Nat \ {0} /\ queued \in Nat
  BY PoppedIsNat, HeadIsRun
<1>2. Head(queue).id = Popped + 1 /\ Head(queue).id \in RunIds
  BY <1>1, HeadIsRun DEF QueueHoldsTheRest
<1>3. Len(queue') = Len(queue) - 1 /\ Popped' = Popped + 1
  BY <1>1, HeadIsRun DEF Popped
<1>4. \A k \in 1 .. Len(queue') : queue'[k].id = Popped' + k
  <2> SUFFICES ASSUME NEW k \in 1 .. Len(queue') PROVE queue'[k].id = Popped' + k
    OBVIOUS
  <2>1. queue'[k] = queue[k + 1] /\ k + 1 \in 1 .. Len(queue)
    BY <1>1, <1>3, HeadIsRun
  <2>2. queue[k + 1].id = Popped + (k + 1)
    BY <2>1 DEF QueueHoldsTheRest
  <2> QED BY <2>1, <2>2, <1>1, <1>3
<1>5. QueueHoldsTheRest'
  BY <1>1, <1>3, <1>4 DEF QueueHoldsTheRest
<1>6. \A i \in RunIds : i <= Popped => sent[i] \in Ended \/ Poisoned
  BY DEF HeardItAll, NoRun, RunIds
<1> QED BY <1>1, <1>2, <1>3, <1>5, <1>6 DEF HeardNothingYet

LEMMA StartKeepsOrder ==
  ASSUME RunInv, TypeOK', StartRun
  PROVE  RunInv'
<1> USE DEF RunInv
<1>1. queue # <<>> /\ queue' = Tail(queue) /\ queued' = queued /\ current = NoRun
      /\ thread = "locked" /\ thread' = "top"
  BY DEF StartRun, Continue
<1>2. Head(queue).id = Popped + 1 /\ Popped' = Popped + 1 /\ Popped \in Nat
      /\ Popped + 1 \in RunIds /\ QueueHoldsTheRest'
  BY <1>1, PopTheNext
<1>3. \A i \in RunIds : sent'[i] = IF i = Popped + 1 THEN <<"Start">> ELSE sent[i]
  BY <1>1, <1>2, PopTheNext, Conversations DEF StartRun, Notify, TypeOK
<1>4. CurrentCameLast'
  BY <1>1, <1>2, <1>3, StartMakesRun DEF CurrentCameLast
<1>5. HeardNothingYet'
  BY <1>1, <1>2, <1>3, PopTheNext DEF HeardNothingYet, RunIds
<1>6. HeardItAll'
  <2> SUFFICES ASSUME NEW i \in RunIds, i <= Popped + 1, i # Popped + 1
               PROVE  sent'[i] \in Ended
    BY <1>1, <1>2, StartMakesRun DEF HeardItAll
  <2>1. i <= Popped
    BY <1>2 DEF RunIds
  <2> QED BY <2>1, <1>1, <1>3, PopTheNext DEF Poisoned
<1> QED BY <1>2, <1>4, <1>5, <1>6

LEMMA PanicKeepsOrder ==
  ASSUME RunInv, TypeOK', StartPanics
  PROVE  RunInv'
<1> USE DEF RunInv
<1>1. queue # <<>> /\ queue' = Tail(queue) /\ queued' = queued /\ current = NoRun
      /\ current' = NoRun /\ thread = "locked" /\ Poisoned' /\ sent' = sent
  BY DEF StartPanics, Panic, Poisoned
<1>2. Popped' = Popped + 1 /\ Popped \in Nat /\ Popped + 1 \in RunIds /\ QueueHoldsTheRest'
  BY <1>1, PopTheNext
<1>3. HeardNothingYet'
  BY <1>1, <1>2, PopTheNext DEF HeardNothingYet, RunIds
<1>4. HeardItAll'
  <2> SUFFICES ASSUME NEW i \in RunIds, i <= Popped + 1
               PROVE  sent[i] \in Ended \/ (i = Popped + 1 /\ sent[i] = <<>>)
    BY <1>1, <1>2 DEF HeardItAll
  <2>1. CASE i <= Popped
    BY <2>1, <1>1, PopTheNext DEF Poisoned
  <2>2. CASE i = Popped + 1
    BY <2>2, <1>1, PopTheNext
  <2> QED BY <2>1, <2>2, <1>2 DEF RunIds
<1> QED BY <1>1, <1>2, <1>3, <1>4 DEF CurrentCameLast

LEMMA RunInvHolds == Spec => []RunInv
<1>1. Init => RunInv
  <2> SUFFICES ASSUME Init PROVE RunInv
    OBVIOUS
  <2>1. queue = <<>> /\ Len(queue) = 0 /\ queued = 0 /\ current = NoRun
    BY DEF Init
  <2>2. TypeOK
    BY InitTypes
  <2> QED
    BY <2>1, <2>2 DEF Init, RunInv, QueueHoldsTheRest, CurrentCameLast, HeardNothingYet,
                      HeardItAll, RunIds, NoRun, Popped
<1>2. RunInv /\ [Next]_vars => RunInv'
  <2> SUFFICES ASSUME RunInv, [Next]_vars PROVE RunInv'
    OBVIOUS
  <2>0. TypeOK /\ TypeOK'
    BY StepKeepsTypes DEF RunInv
  <2> USE <2>0
  <2>1. ASSUME NEW s \in Sections, NEW d \in Durations, RunSection(s, d)
        PROVE  RunInv'
    BY <2>1, RunSectionKeepsOrder
  <2>2. ASSUME NEW s \in Sections, NEW b \in BOOLEAN, SetState(s, b)
        PROVE  RunInv'
    BY <2>2, QuietSteps DEF SetState, runnerVars, Poisoned, RunInv, CurrentCameLast
  <2>3. CASE Stop
    <3>1. current # NoRun => thread' \notin {"exited", "panicked"}
      BY <2>3 DEF Stop, runnerVars, Update, NotifyOne, RunInv, CurrentCameLast
    <3>2. Poisoned => Poisoned'
      BY <2>3 DEF Stop, runnerVars, Update, Poisoned
    <3> QED BY <2>3, <3>1, <3>2, QuietSteps DEF Stop
  <2>4. CASE Join
    BY <2>4, QuietSteps DEF Join, runnerVars, Poisoned, RunInv, CurrentCameLast
  <2>5. CASE (WaitUpdate \/ TimeOut \/ Relock) /\ UNCHANGED dataVars
    BY <2>5, QuietSteps DEF dataVars, WaitUpdate, TimeOut, Wake, Relock, Poisoned
  <2>6. CASE Interrupt
    BY <2>6, InterruptKeepsOrder
  <2>7. CASE QuitIdle
    BY <2>7, QuietSteps DEF QuitIdle, dataVars, Return, Poisoned
  <2>8. CASE FinishRun
    BY <2>8, FinishKeepsOrder
  <2>9. CASE KeepRunning
    BY <2>9, QuietSteps DEF KeepRunning, dataVars, Continue, Poisoned
  <2>10. CASE StartRun
    BY <2>10, StartKeepsOrder
  <2>11. CASE StartPanics
    BY <2>11, PanicKeepsOrder
  <2>12. CASE Idle
    BY <2>12, QuietSteps DEF Idle, dataVars, Continue, Poisoned
  <2>13. CASE Spurious
    BY <2>13, QuietSteps DEF Spurious, SpuriousWake, Wake, dataVars, Poisoned
  <2>14. CASE Tick
    <3>1. UNCHANGED <<queue, queued, sent>> /\ thread' = thread
      BY <2>14 DEF Tick, TimerTick
    <3>2. (current' = NoRun <=> current = NoRun) /\ current'.id = current.id
      BY <2>14, TickKeepsRun
    <3> QED BY <3>1, <3>2, QuietSteps DEF Poisoned, RunInv, CurrentCameLast
  <2>15. CASE UNCHANGED vars
    BY <2>15, QuietSteps DEF vars, dataVars, runnerVars, Poisoned, RunInv, CurrentCameLast
  <2> QED
    BY <2>1, <2>2, <2>3, <2>4, <2>5, <2>6, <2>7, <2>8, <2>9, <2>10, <2>11, <2>12, <2>13, <2>14, <2>15
    DEF Next, Callers, RunnerThread, LoopBody
<1> QED BY <1>1, <1>2, PTL DEF Spec

(***************************************************************************)
(* OrderCorrect: however many runs are queued, and whenever the runner is  *)
(* stopped or dies, no caller hears of its run before every run queued     *)
(* earlier has ended (run_section() and the pop_front in run()).           *)
(***************************************************************************)
THEOREM OrderCorrect == Spec => []RunsInOrder
<1>1. RunInv => RunsInOrder
  <2> SUFFICES ASSUME RunInv, NEW i \in RunIds, NEW j \in RunIds, i < j, sent[j] # <<>>
               PROVE  sent[i] \in Ended
    BY DEF RunsInOrder
  <2>1. Popped \in Nat /\ j <= Popped /\ i < Popped
    BY PoppedIsNat DEF RunInv, HeardNothingYet, RunIds
  <2>2. i # current.id
    BY <2>1 DEF RunInv, CurrentCameLast, NoRun, RunIds
  <2> QED BY <2>1, <2>2 DEF RunInv, HeardItAll, RunIds
<1> QED BY <1>1, RunInvHolds, PTL

(***************************************************************************)
(* NotifyCorrect: every channel carries one of the conversations (the      *)
(* three send_notification calls of run(), each made at most once a run).  *)
(***************************************************************************)
THEOREM NotifyCorrect == Spec => []NotifiedOnce
<1>1. RunInv => NotifiedOnce
  <2> SUFFICES ASSUME RunInv, NEW i \in RunIds
               PROVE  /\ sent[i] \in {<<>>, <<"Start">>} \cup Ended
                      /\ sent[i] = <<"Start">> <=> current.id = i
    BY DEF NotifiedOnce
  <2>1. Popped \in Nat
    BY PoppedIsNat DEF RunInv
  <2>2. CASE i > Popped
    BY <2>1, <2>2, Conversations DEF RunInv, HeardNothingYet, CurrentCameLast, NoRun, RunIds
  <2>3. CASE i = current.id
    <3>1. current # NoRun
      BY <2>3 DEF NoRun, RunIds
    <3>2. sent[i] = <<"Start">>
      BY <2>3, <3>1 DEF RunInv, CurrentCameLast
    <3> QED BY <2>3, <3>2
  <2>4. CASE i <= Popped /\ i # current.id
    <3>1. sent[i] \in Ended \/ sent[i] = <<>>
      BY <2>4 DEF RunInv, HeardItAll
    <3> QED BY <2>4, <3>1, Conversations
  <2> QED BY <2>1, <2>2, <2>3, <2>4 DEF RunIds
<1> QED BY <1>1, RunInvHolds, PTL
-----------------------------------------------------------------------------
(***************************************************************************)
(* SleepCorrect: for any durations, the thread never sleeps past a run but *)
(* for the time that passed before the sleep began, and a timeout never    *)
(* cuts a run short.  A run's age and its timer advance together while the *)
(* thread sleeps; in between the run only grows older, so the period       *)
(* computed from its age (KeepRunning's and StartRun's wait_period) stays  *)
(* long enough, and too long by no more than what passed in between.       *)
(***************************************************************************)
THEOREM SleepCorrect == Spec => []SleepMatchesRun
<1>1. Init => SleepInv
  BY InitTypes DEF Init, RunnerInit, Wait, SleepInv, PeriodMatchesRun, SleepMatchesRun
<1>2. SleepInv /\ [Next]_vars => SleepInv'
  <2> SUFFICES ASSUME SleepInv, [Next]_vars PROVE SleepInv'
    OBVIOUS
  <2>0. TypeOK /\ TypeOK'
    BY StepKeepsTypes DEF SleepInv
  <2> USE <2>0 DEF SleepInv, PeriodMatchesRun, SleepMatchesRun
  <2>1. ASSUME \/ UNCHANGED <<current, wait_period, awake, thread, timer>>
               \/ thread' \in {"woken", "locked", "exited", "panicked"}
        PROVE  SleepInv'
    BY <2>1
  <2>2. ASSUME NEW s \in Sections, NEW d \in Durations, RunSection(s, d)
        PROVE  SleepInv'
    BY <2>2, <2>1 DEF RunSection, Update, NotifyOne
  <2>3. CASE WaitUpdate /\ UNCHANGED dataVars
    <3>1. CASE current = NoRun
      BY <2>3, <3>1 DEF WaitUpdate, dataVars
    <3>2. CASE current # NoRun
      <4>1. current' = current /\ awake' = awake /\ thread' # "top"
        BY <2>3 DEF WaitUpdate, dataVars
      <4>2. thread' = "waiting" => timer' = wait_period.dur
        BY <2>3, <3>2 DEF WaitUpdate
      <4>3. /\ wait_period.dur \in Nat
            /\ current.elapsed + wait_period.dur \in current.dur .. current.dur + awake
        BY <2>3, <3>2 DEF WaitUpdate, TypeOK, RunnerTypeOK, WaitPeriods, Wait, NoWait
      <4> QED BY <4>1, <4>2, <4>3, <3>2 DEF Forever
    <3> QED BY <3>1, <3>2
  <2>4. CASE FinishRun
    BY <2>4 DEF FinishRun, AfterFinish, NoWait, Continue
  <2>5. CASE KeepRunning
    <3>1. wait_period' = AtMost(current.dur - current.elapsed) /\ current' = current
          /\ thread' = "top" /\ current # NoRun /\ awake' = 0
      BY <2>5 DEF KeepRunning, SleepFor, Continue
    <3>2. wait_period'.kind = "AtMost" /\ wait_period'.dur = current.dur - current.elapsed
      BY <3>1 DEF AtMost
    <3> QED BY <3>1, <3>2, CurrentIsRun
  <2>6. CASE StartRun
    <3>1. wait_period' = AtMost(Head(queue).dur) /\ thread' = "top" /\ awake' = 0
      BY <2>6 DEF StartRun, Continue
    <3>2. wait_period'.kind = "AtMost" /\ wait_period'.dur = Head(queue).dur
      BY <3>1 DEF AtMost
    <3> QED BY <2>6, <3>1, <3>2, StartMakesRun, HeadIsRun
  <2>7. CASE Idle
    BY <2>7 DEF Idle, Wait, Continue, dataVars
  <2>8. CASE Tick
    <3>1. thread' = thread /\ wait_period' = wait_period
          /\ timer' = IF TimerRuns THEN timer - 1 ELSE timer
      BY <2>8 DEF Tick, TimerTick
    <3>2. CASE current = NoRun
      <4>1. current' = NoRun
        BY <2>8, <3>2, TickKeepsRun
      <4> QED BY <3>1, <3>2, <4>1 DEF TimerRuns, Forever
    <3>3. CASE current # NoRun
      <4>1. /\ current' # NoRun /\ current'.dur = current.dur
            /\ current'.elapsed = IF current.elapsed < current.dur
                                  THEN current.elapsed + 1 ELSE current.elapsed
            /\ current.dur \in Nat /\ current.elapsed \in Nat /\ awake \in Nat
            /\ awake' = IF current.elapsed < current.dur /\ thread = "top"
                        THEN awake + 1 ELSE awake
        BY <2>8, <3>3, TickKeepsRun, TickAgesRun, CurrentIsRun DEF Tick, RunAges, TypeOK
      <4>2. PeriodMatchesRun'
        <5>1. thread = "top" => wait_period.dur \in Nat
          BY <3>3 DEF TypeOK, RunnerTypeOK, WaitPeriods, Wait, NoWait
        <5> QED BY <3>1, <3>3, <4>1, <5>1
      <4>3. SleepMatchesRun'
        <5> SUFFICES ASSUME thread = "waiting"
                     PROVE  /\ timer' # Forever
                            /\ current'.elapsed + timer' \in current'.dur .. current'.dur + awake'
          BY <3>1, <4>1
        <5>1. /\ timer \in Nat
              /\ current.elapsed + timer >= current.dur
              /\ current.elapsed + timer <= current.dur + awake
          BY <3>3, <4>1 DEF TypeOK, RunnerTypeOK
        <5>2. timer' = IF timer > 0 THEN timer - 1 ELSE timer
          BY <3>1 DEF TimerRuns
        <5>3. awake' = awake
          BY <4>1
        <5>4. /\ timer' \in Nat
              /\ current'.elapsed + timer' >= current.dur
              /\ current'.elapsed + timer' <= current.dur + awake
          BY <4>1, <5>1, <5>2
        <5> QED BY <4>1, <5>3, <5>4 DEF Forever
      <4> QED BY <4>2, <4>3
    <3> QED BY <3>2, <3>3
  <2> QED
    BY <2>1, <2>2, <2>3, <2>4, <2>5, <2>6, <2>7, <2>8
    DEF Next, Callers, RunnerThread, LoopBody, SetState, Stop, Join, Update, NotifyOne, TimeOut, Wake, Relock,
        Interrupt, QuitIdle, StartPanics, Return, Panic, Spurious, SpuriousWake, runnerVars, dataVars, vars
<1>3. SleepInv => SleepMatchesRun
  BY DEF SleepInv
<1> QED BY <1>1, <1>2, <1>3, PTL DEF Spec
-----------------------------------------------------------------------------
(* Refinement.                                                             *)

(* What a run has come to that has left the queue, by its channel. *)
Outcome(conversation) ==
  IF conversation = <<"Start">> THEN "running"
  ELSE IF conversation = <<"Start", "Finish">> THEN "finished"
  ELSE IF conversation = <<>> THEN "lost"
  ELSE "interrupted"

(* The runs are new, then queued, then out of the queue, by their numbers. *)
PhasesAreInOrder ==
  \A i \in RunIds :
    Phase(i) = IF i > queued THEN "new" ELSE IF i > Popped THEN "queued" ELSE Outcome(sent[i])

PhaseMap == [i \in RunIds |-> Phase(i)]
Closed == thread \in {"exited", "panicked"}

LEMMA Outcomes ==
  /\ Outcome(<<>>) = "lost"
  /\ Outcome(<<"Start">>) = "running"
  /\ Outcome(Append(<<>>, "Interrupted")) = "interrupted"
  /\ Outcome(Append(<<"Start">>, "Interrupted")) = "interrupted"
  /\ Outcome(Append(<<"Start">>, "Finish")) = "finished"
  /\ \A m \in Ended : Outcome(m) \in {"finished", "interrupted"}
  /\ \A m : Outcome(m) \notin {"new", "queued"}
BY AppendToOne, Conversations DEF Outcome, Ended

LEMMA PhasesFollowOrder == RunInv => PhasesAreInOrder
<1> SUFFICES ASSUME RunInv, NEW i \in RunIds
             PROVE  Phase(i) = IF i > queued THEN "new"
                               ELSE IF i > Popped THEN "queued" ELSE Outcome(sent[i])
  BY DEF PhasesAreInOrder
<1>1. TypeOK /\ QueueHoldsTheRest /\ Popped \in Nat /\ queued \in Nat /\ i \in Nat
      /\ Popped <= queued
  BY PoppedIsNat DEF RunInv, RunIds
<1>2. i \in QueuedIds <=> Popped < i /\ i <= queued
  BY <1>1, QueuedAreTheRest
<1>3. CASE i > queued
  BY <1>1, <1>3 DEF Phase
<1>4. CASE i <= queued /\ i > Popped
  <2>1. sent[i] = <<>> /\ i \in QueuedIds
    BY <1>2, <1>4 DEF RunInv, HeardNothingYet
  <2> QED BY <1>1, <1>4, <2>1 DEF Phase
<1>5. CASE i <= Popped
  <2>1. sent[i] = <<"Start">> \/ sent[i] \in Ended \/ sent[i] = <<>>
    BY <1>5 DEF RunInv, HeardItAll, CurrentCameLast, NoRun, RunIds
  <2>2. i \notin QueuedIds /\ i <= queued /\ ~(i > queued) /\ ~(i > Popped)
    BY <1>1, <1>2, <1>5
  <2>3. CASE sent[i] = <<"Start">>
    BY <2>2, <2>3 DEF Phase, Outcome
  <2>4. CASE sent[i] = <<"Start", "Finish">>
    BY <2>2, <2>4 DEF Phase, Outcome
  <2>5. CASE sent[i] \in {<<"Start", "Interrupted">>, <<"Interrupted">>}
    BY <2>2, <2>5 DEF Phase, Outcome
  <2>6. CASE sent[i] = <<>>
    BY <2>2, <2>6 DEF Phase, Outcome
  <2> QED BY <2>1, <2>3, <2>4, <2>5, <2>6 DEF Ended
<1> QED BY <1>1, <1>3, <1>4, <1>5

LEMMA PhasesAfterStep == RunInv' => PhasesAreInOrder'
BY PhasesFollowOrder, PTL

(* A run is under way exactly when it is the current one. *)
LEMMA RunningIsCurrent ==
  ASSUME RunInv, NEW i \in RunIds
  PROVE  PhaseMap[i] = "running" <=> current # NoRun /\ i = current.id
<1>1. Popped \in Nat /\ Popped <= queued /\ queued \in Nat /\ i \in Nat
  BY PoppedIsNat DEF RunInv, RunIds
<1>2. PhaseMap[i] = IF i > queued THEN "new" ELSE IF i > Popped THEN "queued" ELSE Outcome(sent[i])
  BY PhasesFollowOrder DEF PhaseMap, PhasesAreInOrder
<1>3. ASSUME current # NoRun, i = current.id PROVE PhaseMap[i] = "running"
  BY <1>1, <1>2, <1>3, Outcomes DEF RunInv, CurrentCameLast
<1>4. ASSUME i # current.id \/ current = NoRun PROVE PhaseMap[i] # "running"
  <2>1. i # current.id
    BY <1>4 DEF NoRun, RunIds
  <2>2. CASE i <= Popped
    <3>1. sent[i] \in Ended \/ sent[i] = <<>>
      BY <2>1, <2>2 DEF RunInv, HeardItAll
    <3> QED BY <1>1, <1>2, <2>2, <3>1, Outcomes
  <2>3. CASE i > Popped
    BY <1>1, <1>2, <2>3
  <2> QED BY <1>1, <2>2, <2>3
<1> QED BY <1>3, <1>4

LEMMA RunSectionAccepts ==
  ASSUME RunInv, RunInv', NEW s \in Sections, NEW d \in Durations, RunSection(s, d)
  PROVE  \E i \in RunIds : Runs!Accept(i)
<1> DEFINE new == queued + 1
<1>1. /\ TypeOK /\ queued \in Nat /\ Popped \in Nat /\ Popped <= queued /\ Len(queue) \in Nat
      /\ queue \in Seq(SecRun) /\ new \in RunIds /\ MaxRuns \in Nat
  BY PoppedIsNat, SectionRunnerAssumption DEF RunInv, RunSection, RunIds, TypeOK
<1>2. queued' = new /\ sent' = sent /\ Popped' = Popped
  <2>1. Len(queue') = Len(queue) + 1
    BY <1>1 DEF RunSection, PushBack
  <2> QED BY <1>1, <2>1 DEF RunSection, Popped
<1>3. Closed' = Closed
  BY DEF RunSection, Update, NotifyOne, Closed
<1>4. \A i \in RunIds :
        /\ PhaseMap[i] = IF i > queued THEN "new" ELSE IF i > Popped THEN "queued" ELSE Outcome(sent[i])
        /\ PhaseMap'[i] = IF i > queued' THEN "new" ELSE IF i > Popped' THEN "queued" ELSE Outcome(sent'[i])
  BY PhasesFollowOrder, PhasesAfterStep DEF PhaseMap, PhasesAreInOrder
<1>5. PhaseMap[new] = "new" /\ \A j \in RunIds : j < new => PhaseMap[j] # "new"
  BY <1>1, <1>4, Outcomes DEF RunIds
<1>6. PhaseMap' = [PhaseMap EXCEPT ![new] = "queued"]
  <2>1. \A i \in RunIds : PhaseMap'[i] = IF i = new THEN "queued" ELSE PhaseMap[i]
    BY <1>1, <1>2, <1>4 DEF RunIds
  <2> QED BY <2>1 DEF PhaseMap
<1> HIDE DEF new
<1>7. Runs!Accept(new)
  BY <1>1, <1>3, <1>5, <1>6 DEF Runs!Accept, Runs!Oldest, Runs!RunIds, RunIds, PhaseMap, Closed
<1> QED BY <1>1, <1>7

(* The run at the head of the queue is the oldest that is queued. *)
LEMMA HeadIsOldest ==
  ASSUME RunInv, RunInv', queue # <<>>, queue' = Tail(queue), queued' = queued,
         current = NoRun, thread = "locked"
  PROVE  /\ Head(queue).id = Popped + 1 /\ Popped' = Popped + 1 /\ Popped + 1 \in RunIds
         /\ Popped \in Nat /\ sent[Popped + 1] = <<>>
         /\ PhaseMap[Popped + 1] = "queued"
         /\ \A j \in RunIds : j < Popped + 1 => PhaseMap[j] # "queued"
         /\ \A i \in RunIds : PhaseMap[i] # "running"
         /\ \A i \in RunIds \ {Popped + 1} :
              sent'[i] = sent[i] => PhaseMap'[i] = PhaseMap[i]
         /\ PhaseMap'[Popped + 1] = Outcome(sent'[Popped + 1])
<1>1. /\ Head(queue).id = Popped + 1 /\ Popped' = Popped + 1 /\ Popped + 1 \in RunIds
      /\ Popped \in Nat /\ sent[Popped + 1] = <<>>
  BY PopTheNext DEF RunInv
<1>2. queued \in Nat /\ Popped + 1 <= queued
  <2>1. Len(queue) \in Nat \ {0} /\ queued \in Nat
    BY HeadIsRun, PoppedIsNat DEF RunInv
  <2> QED BY <2>1 DEF Popped
<1>3. \A i \in RunIds :
        /\ PhaseMap[i] = IF i > queued THEN "new" ELSE IF i > Popped THEN "queued" ELSE Outcome(sent[i])
        /\ PhaseMap'[i] = IF i > queued' THEN "new" ELSE IF i > Popped' THEN "queued" ELSE Outcome(sent'[i])
  BY PhasesFollowOrder, PhasesAfterStep DEF PhaseMap, PhasesAreInOrder
<1>4. PhaseMap[Popped + 1] = "queued"
  BY <1>1, <1>2, <1>3
<1>5. \A j \in RunIds : j < Popped + 1 => PhaseMap[j] # "queued"
  BY <1>1, <1>2, <1>3, Outcomes DEF RunIds
<1>6. \A i \in RunIds : PhaseMap[i] # "running"
  BY RunningIsCurrent
<1>7. ASSUME NEW i \in RunIds \ {Popped + 1}, sent'[i] = sent[i]
      PROVE  PhaseMap'[i] = PhaseMap[i]
  BY <1>1, <1>2, <1>3, <1>7 DEF RunIds
<1>8. PhaseMap'[Popped + 1] = Outcome(sent'[Popped + 1])
  BY <1>1, <1>2, <1>3
<1> QED BY <1>1, <1>4, <1>5, <1>6, <1>7, <1>8

LEMMA StartRunStarts ==
  ASSUME RunInv, RunInv', StartRun
  PROVE  \E i \in RunIds : Runs!Start(i)
<1>1. queue # <<>> /\ queue' = Tail(queue) /\ queued' = queued /\ current = NoRun
      /\ thread = "locked" /\ thread' = "top"
  BY DEF StartRun, Continue
<1>2. PICK h : h = Popped + 1
  OBVIOUS
<1>3. /\ Head(queue).id = h /\ h \in RunIds /\ sent[h] = <<>>
      /\ PhaseMap[h] = "queued"
      /\ \A j \in RunIds : j < h => PhaseMap[j] # "queued"
      /\ \A i \in RunIds : PhaseMap[i] # "running"
      /\ \A i \in RunIds \ {h} : sent'[i] = sent[i] => PhaseMap'[i] = PhaseMap[i]
      /\ PhaseMap'[h] = Outcome(sent'[h])
  BY <1>1, <1>2, HeadIsOldest
<1>4. \A i \in RunIds : sent'[i] = IF i = h THEN <<"Start">> ELSE sent[i]
  BY <1>3, Conversations DEF StartRun, Notify, RunInv, TypeOK
<1>5. \A i \in RunIds : PhaseMap'[i] = IF i = h THEN "running" ELSE PhaseMap[i]
  BY <1>3, <1>4, Outcomes
<1>6. PhaseMap' = [PhaseMap EXCEPT ![h] = "running"]
  BY <1>5 DEF PhaseMap
<1>7. Runs!Start(h)
  BY <1>1, <1>3, <1>6
  DEF Runs!Start, Runs!NoneRunning, Runs!Oldest, Runs!RunIds, RunIds, PhaseMap
<1> QED BY <1>3, <1>7

LEMMA StartPanicsCrashes ==
  ASSUME RunInv, RunInv', StartPanics
  PROVE  \E i \in RunIds : Runs!Crash(i)
<1>1. queue # <<>> /\ queue' = Tail(queue) /\ queued' = queued /\ current = NoRun
      /\ thread = "locked" /\ thread' = "panicked" /\ sent' = sent
  BY DEF StartPanics, Panic
<1>2. PICK h : h = Popped + 1
  OBVIOUS
<1>3. /\ h \in RunIds /\ sent[h] = <<>>
      /\ PhaseMap[h] = "queued"
      /\ \A j \in RunIds : j < h => PhaseMap[j] # "queued"
      /\ \A i \in RunIds : PhaseMap[i] # "running"
      /\ \A i \in RunIds \ {h} : sent'[i] = sent[i] => PhaseMap'[i] = PhaseMap[i]
      /\ PhaseMap'[h] = Outcome(sent'[h])
  BY <1>1, <1>2, HeadIsOldest
<1>4. \A i \in RunIds : PhaseMap'[i] = IF i = h THEN "lost" ELSE PhaseMap[i]
  BY <1>1, <1>3, Outcomes
<1>5. PhaseMap' = [PhaseMap EXCEPT ![h] = "lost"]
  BY <1>4 DEF PhaseMap
<1>6. Runs!Crash(h)
  BY <1>1, <1>3, <1>5
  DEF Runs!Crash, Runs!NoneRunning, Runs!Oldest, Runs!RunIds, RunIds, PhaseMap
<1> QED BY <1>3, <1>6

LEMMA FinishRunFinishes ==
  ASSUME RunInv, RunInv', FinishRun
  PROVE  \E i \in RunIds : Runs!Finish(i)
<1>1. /\ UNCHANGED <<queue, queued>> /\ current # NoRun
      /\ thread = "locked" /\ thread' = "top"
  BY DEF FinishRun, Continue
<1>2. PICK c : c = current.id
  OBVIOUS
<1>3. c \in RunIds /\ c = Popped /\ sent[c] = <<"Start">> /\ Popped' = Popped
  BY <1>1, <1>2, CurrentIsRun DEF RunInv, CurrentCameLast, Popped
<1>4. \A i \in RunIds : sent'[i] = IF i = c THEN Append(<<"Start">>, "Finish") ELSE sent[i]
  BY <1>2, <1>3 DEF FinishRun, Notify, RunInv, TypeOK
<1>5. \A i \in RunIds :
        /\ PhaseMap[i] = IF i > queued THEN "new" ELSE IF i > Popped THEN "queued" ELSE Outcome(sent[i])
        /\ PhaseMap'[i] = IF i > queued' THEN "new" ELSE IF i > Popped' THEN "queued" ELSE Outcome(sent'[i])
  BY PhasesFollowOrder, PhasesAfterStep DEF PhaseMap, PhasesAreInOrder
<1>6. Popped \in Nat /\ queued \in Nat /\ Popped <= queued
  BY PoppedIsNat DEF RunInv
<1>7. PhaseMap'[c] = "finished"
  BY <1>1, <1>3, <1>4, <1>5, <1>6, Outcomes
<1>8. \A i \in RunIds : PhaseMap'[i] = IF i = c THEN "finished" ELSE PhaseMap[i]
  BY <1>1, <1>3, <1>4, <1>5, <1>7
<1>9. PhaseMap' = [PhaseMap EXCEPT ![c] = "finished"]
  BY <1>8 DEF PhaseMap
<1>10. PhaseMap[c] = "running"
  BY <1>1, <1>2, <1>3, RunningIsCurrent
<1>11. Runs!Finish(c)
  BY <1>1, <1>3, <1>9, <1>10 DEF Runs!Finish, Runs!RunIds, RunIds, PhaseMap
<1> QED BY <1>3, <1>11

LEMMA InterruptShutsDown ==
  ASSUME RunInv, RunInv', Interrupt
  PROVE  Runs!Shutdown
<1>1. queue' = <<>> /\ queued' = queued /\ current # NoRun
      /\ thread = "locked" /\ thread' = "exited"
  BY DEF Interrupt, Return
<1>2. PICK c : c = current.id
  OBVIOUS
<1>3. c \in RunIds /\ c = Popped /\ sent[c] = <<"Start">>
  BY <1>1, <1>2, CurrentIsRun DEF RunInv, CurrentCameLast
<1>4. Popped \in Nat /\ queued \in Nat /\ Popped <= queued /\ Popped' = queued
  BY <1>1, PoppedIsNat DEF RunInv, Popped
<1>5. \A i \in RunIds :
        /\ PhaseMap[i] = IF i > queued THEN "new" ELSE IF i > Popped THEN "queued" ELSE Outcome(sent[i])
        /\ PhaseMap'[i] = IF i > queued' THEN "new" ELSE IF i > Popped' THEN "queued" ELSE Outcome(sent'[i])
  BY PhasesFollowOrder, PhasesAfterStep DEF PhaseMap, PhasesAreInOrder
<1>6. ASSUME NEW i \in RunIds
      PROVE  PhaseMap'[i] = IF PhaseMap[i] \in {"queued", "running"} THEN "interrupted" ELSE PhaseMap[i]
  <2>1. i \in QueuedIds <=> Popped < i /\ i <= queued
    BY QueuedAreTheRest DEF RunInv
  <2>2. sent'[i] = IF i = c \/ i \in QueuedIds THEN Append(sent[i], "Interrupted") ELSE sent[i]
    BY <1>2 DEF Interrupt
  <2>3. CASE i > queued
    BY <1>1, <1>5, <2>3
  <2>4. CASE i <= queued /\ i > Popped
    <3>1. sent[i] = <<>> /\ sent'[i] = Append(<<>>, "Interrupted")
      BY <2>1, <2>2, <2>4 DEF RunInv, HeardNothingYet
    <3> QED BY <1>1, <1>4, <1>5, <2>4, <3>1, Outcomes DEF RunIds
  <2>5. CASE i = c
    <3>1. sent'[i] = Append(<<"Start">>, "Interrupted")
      BY <1>3, <2>2, <2>5
    <3> QED BY <1>1, <1>3, <1>4, <1>5, <2>5, <3>1, Outcomes DEF RunIds
  <2>6. CASE i <= Popped /\ i # c
    <3>1. sent'[i] = sent[i]
      BY <1>4, <2>1, <2>2, <2>6 DEF RunIds
    <3>2. PhaseMap[i] # "running"
      BY <1>2, <2>6, RunningIsCurrent
    <3> QED BY <1>1, <1>4, <1>5, <2>6, <3>1, <3>2, Outcomes DEF RunIds
  <2> QED BY <1>3, <1>4, <2>3, <2>4, <2>5, <2>6 DEF RunIds
<1>7. PhaseMap[c] = "running"
  BY <1>1, <1>2, <1>3, RunningIsCurrent
<1>8. PhaseMap' = [i \in RunIds |-> IF PhaseMap[i] \in {"queued", "running"}
                                    THEN "interrupted" ELSE PhaseMap[i]]
  BY <1>6 DEF PhaseMap
<1> QED
  BY <1>1, <1>3, <1>7, <1>8 DEF Runs!Shutdown, Runs!NoneRunning, Runs!RunIds, RunIds, PhaseMap

LEMMA QuitIdleShutsDown ==
  ASSUME RunInv, QuitIdle
  PROVE  Runs!ShutdownBetweenRuns
<1>1. UNCHANGED <<queue, queued, sent>> /\ current = NoRun
      /\ thread = "locked" /\ thread' = "exited"
  BY DEF QuitIdle, Return, dataVars
<1>2. PhaseMap' = PhaseMap
  BY <1>1 DEF PhaseMap, Phase, QueuedIds
<1>3. \A i \in RunIds : PhaseMap[i] # "running"
  BY <1>1, RunningIsCurrent
<1> QED
  BY <1>1, <1>2, <1>3
  DEF Runs!ShutdownBetweenRuns, Runs!NoneRunning, Runs!RunIds, RunIds, PhaseMap

(***************************************************************************)
(* SectionRunnerIsCorrect: the thread, its lock, its naps, its queue and   *)
(* its channels do to the runs nothing but what SectionRuns allows: they   *)
(* are started in the order in which they were accepted, one at a time,    *)
(* and a stop ends the current one together with all that wait behind it.  *)
(***************************************************************************)
THEOREM SectionRunnerIsCorrect == Spec => ImplementsSectionRuns
<1>1. Init => Runs!Init
  <2> SUFFICES ASSUME Init PROVE Runs!Init
    OBVIOUS
  <2>1. \A i \in RunIds : Phase(i) = "new"
    BY DEF Init, Phase, RunIds
  <2> QED BY <2>1 DEF Init, RunnerInit, Runs!Init, Runs!RunIds, RunIds
<1>2. ASSUME RunInv, RunInv', [Next]_vars
      PROVE  [Runs!Next]_<<PhaseMap, Closed>>
  <2>1. ASSUME NEW s \in Sections, NEW d \in Durations, RunSection(s, d)
        PROVE  Runs!Next
    BY <1>2, <2>1, RunSectionAccepts DEF Runs!Next, Runs!RunIds, RunIds
  <2>2. CASE Interrupt
    BY <1>2, <2>2, InterruptShutsDown DEF Runs!Next
  <2>3. CASE QuitIdle
    BY <1>2, <2>3, QuitIdleShutsDown DEF Runs!Next
  <2>4. CASE FinishRun
    BY <1>2, <2>4, FinishRunFinishes DEF Runs!Next, Runs!RunIds, RunIds
  <2>5. CASE StartRun
    BY <1>2, <2>5, StartRunStarts DEF Runs!Next, Runs!RunIds, RunIds
  <2>6. CASE StartPanics
    BY <1>2, <2>6, StartPanicsCrashes DEF Runs!Next, Runs!RunIds, RunIds
  <2>7. ASSUME UNCHANGED <<queue, queued, sent>>, Closed' = Closed
        PROVE  UNCHANGED <<PhaseMap, Closed>>
    BY <2>7 DEF PhaseMap, Phase, QueuedIds
  <2>8. CASE \/ \E s \in Sections, b \in BOOLEAN : SetState(s, b)
             \/ Stop \/ Join \/ Spurious \/ Tick
             \/ (WaitUpdate \/ TimeOut \/ Relock) /\ UNCHANGED dataVars
             \/ KeepRunning \/ Idle
             \/ UNCHANGED vars
    <3>1. UNCHANGED <<queue, queued, sent>>
      BY <2>8 DEF SetState, Stop, Join, Spurious, Tick, KeepRunning, Idle, dataVars, vars
    <3>2. Closed' = Closed
      BY <2>8
      DEF SetState, Stop, Update, NotifyOne, Join, Spurious, SpuriousWake, Wake, Tick, TimerTick,
          WaitUpdate, TimeOut, Relock, KeepRunning, Idle, Continue, runnerVars, vars, Closed
    <3> QED BY <2>7, <3>1, <3>2
  <2> QED
    BY <1>2, <2>1, <2>2, <2>3, <2>4, <2>5, <2>6, <2>8
    DEF Next, Callers, RunnerThread, LoopBody
<1>3. [Runs!Next]_<<PhaseMap, Closed>> <=>
        [Runs!Next]_<<[i \in RunIds |-> Phase(i)], thread \in {"exited", "panicked"}>>
  BY DEF PhaseMap, Closed
<1> QED
  BY <1>1, <1>2, <1>3, RunInvHolds, PTL DEF Spec, ImplementsSectionRuns, Runs!Spec
=============================================================================
