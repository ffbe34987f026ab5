------------------------------ MODULE Rinklers ------------------------------
(***************************************************************************)
(* The whole program (main.rs): the section runner, the executor of the    *)
(* program runner, and the MQTT thread, whose requests switch sections and *)
(* queue runs, until a signal makes the main thread stop them one after    *)
(* the other.  The state they share is behind an Arc, which the main       *)
(* thread unwraps when it believes to be the only one that holds it.       *)
(*                                                                         *)
(* The main thread is in one of these places:                              *)
(*   "trapping"    everything is up, it waits for SIGINT or SIGTERM        *)
(*   "storing"     in MqttApi::stop, with an Arc of the flag               *)
(*   "signalling"  before pthread_kill                                     *)
(*   "joining"     before the end of join()                                *)
(*   "unwrapping"  stop() has returned Ok                                  *)
(*   "stopping"    in State::stop_all (see ProgramRunner)                  *)
(* or it has panicked: "kill_failed", "join_failed", "state_held".         *)
(***************************************************************************)
EXTENDS ProgramRunner, MqttApi

CONSTANTS NoSection, NotAnIndex, Blank   \* what else a request's topic may name

Request == [type : {"set_state", "run_for"},
            sec  : Sections \cup {NoSection, NotAnIndex, Blank},
            on   : BOOLEAN,                      \* the payload of set_state
            dur  : Durations,                    \* the payload of run_for
            text : {"bytes", "junk", "proper"}]  \* not UTF-8, not JSON, or as it should be

ASSUME RinklersAssumption ==
  /\ Requests \subseteq Request
  /\ {NoSection, NotAnIndex, Blank} \cap Sections = {}

VARIABLES main,     \* where the main thread is
          effects   \* history: the requests that were carried out

rinklersVars == <<programVars, apiVars, main, effects>>

MainPlaces == {"trapping", "storing", "signalling", "joining", "unwrapping", "stopping",
               "kill_failed", "join_failed", "state_held"}

RinklersTypeOK ==
  /\ ProgramTypeOK
  /\ ApiTypeOK
  /\ main \in MainPlaces
  /\ effects \in Seq(Requests)

RinklersInit ==
  /\ ProgramInit
  /\ ApiInit
  /\ main = "trapping"
  /\ effects = <<>>
-----------------------------------------------------------------------------
(* process_msg *)

(* Variant: a payload that does not parse is taken for the default value. *)
CodeWithDefault(r) ==
  IF r.sec = Blank THEN "InvalidPath"
  ELSE IF r.text = "bytes" THEN "InvalidPayloadUtf8"
  ELSE IF r.sec = NotAnIndex THEN "InvalidPath"
  ELSE IF r.sec = NoSection THEN "SectionNotFound"
  ELSE "Success"

(* A level of the topic that is blank is found out before the payload is   *)
(* looked at, one that is no number after it was found to be text.         *)
Code(r) ==
  IF r.sec = Blank THEN "InvalidPath"
  ELSE IF r.text = "bytes" THEN "InvalidPayloadUtf8"
  ELSE IF r.sec = NotAnIndex THEN "InvalidPath"
  ELSE IF r.sec = NoSection THEN "SectionNotFound"
  ELSE IF r.text = "junk" THEN "InvalidPayloadJson"
  ELSE "Success"

ReceiveRequest == Receive(Code) /\ UNCHANGED <<programVars, main, effects>>

Asks(type) ==
  /\ api = "processing"
  /\ handling[1].code = "Success"
  /\ handling[1].req.type = type

CarriedOut == effects' = Append(effects, handling[1].req)

ProcessSetState ==
  /\ Asks("set_state")
  /\ SetState(handling[1].req.sec, handling[1].req.on)
  /\ Processed
  /\ CarriedOut
  /\ UNCHANGED <<jobVars, shutdown, main>>

(* The answer names the duration, with duration_string. *)
ProcessRunFor ==
  /\ Asks("run_for")
  /\ RunSection(handling[1].req.sec, handling[1].req.dur)
  /\ IF Representable(handling[1].req.dur) THEN Processed ELSE ProcessingPanics
  /\ CarriedOut
  /\ UNCHANGED <<jobVars, shutdown, main>>

(* update() on a poisoned mutex. *)
ProcessRunForPanics ==
  /\ Asks("run_for")
  /\ Poisoned
  /\ ProcessingPanics
  /\ UNCHANGED <<programVars, main, effects>>

ProcessError ==
  /\ api = "processing" /\ handling[1].code # "Success"
  /\ Processed
  /\ UNCHANGED <<programVars, main, effects>>

ApiThread ==
  \/ ReceiveRequest \/ ProcessSetState \/ ProcessRunFor \/ ProcessRunForPanics \/ ProcessError
  \/ ApiSteps /\ UNCHANGED <<programVars, main, effects>>
-----------------------------------------------------------------------------
(* main(), from the signal on: MqttApi::stop. *)

MainGoes(place) == main' = place /\ UNCHANGED <<programVars, effects>>

(* Weak::upgrade answers None when the thread has dropped its flag. *)
UpgradeFlag ==
  /\ main = "trapping"
  /\ MainGoes(IF HoldsFlag THEN "storing" ELSE "unwrapping")
  /\ UNCHANGED apiVars

StoreFlag == main = "storing" /\ MainGoes("signalling") /\ LowerFlag

(* pthread_kill may fail for a thread that has ended; stop() panics then. *)
Kill ==
  /\ main = "signalling"
  /\ \/ MainGoes("joining") /\ SignalThread
     \/ api = "gone" /\ MainGoes("kill_failed") /\ UNCHANGED apiVars

(* Variant: the thread has ended when its flag is gone. *)
ThreadLeft == ~HoldsFlag
(* Variant: nobody waits. *)
ThreadLives == TRUE

ThreadEnded == api = "gone"

JoinApi ==
  /\ main = "joining"
  /\ ThreadEnded
  /\ MainGoes(IF panicked THEN "join_failed" ELSE "unwrapping")
  /\ UNCHANGED apiVars

(* Arc::try_unwrap(state).ok().expect(...) *)
TryUnwrap ==
  /\ main = "unwrapping"
  /\ MainGoes(IF HoldsState THEN "state_held" ELSE "stopping")
  /\ UNCHANGED apiVars

StopAll ==
  /\ main = "stopping"
  /\ StopSections \/ JoinSections \/ QuitPrograms
  /\ UNCHANGED <<apiVars, main, effects>>

(* The end of stop_all, which need not come. *)
StopAllReturns == main = "stopping" /\ JoinPrograms /\ UNCHANGED <<apiVars, main, effects>>

MainThread == StoreFlag \/ Kill \/ JoinApi \/ TryUnwrap \/ StopAll
-----------------------------------------------------------------------------
(* Nothing that would queue a run is begun when the bound on the runs      *)
(* leaves no room for it.                                                  *)
RunsToCome ==
  StillToQueue(Executor) + Quantify(DOMAIN inbox, LAMBDA k : inbox[k].type = "run_for")
    + IF Asks("run_for") THEN 1 ELSE 0

RoomFor(n) == queued + RunsToCome + n <= MaxRuns

ExecuteProgram(p) ==
  /\ RoomFor(Len(SequenceOf[p]))
  /\ Execute(p)
  /\ UNCHANGED <<apiVars, main, effects>>

SendRequest(r) == (r.type = "run_for" => RoomFor(1)) /\ Send(r)

ExecutorGoes == Worker(Executor) /\ UNCHANGED <<apiVars, main, effects>>

SectionsGo == SectionThread /\ UNCHANGED <<apiVars, main, effects>>

Outside ==
  \/ Environment /\ UNCHANGED <<apiVars, main, effects>>
  \/ /\ (\E r \in Requests : SendRequest(r)) \/ LoseConnection \/ AwaitNothing
     /\ UNCHANGED <<programVars, main, effects>>

RinklersNext ==
  \/ ApiThread \/ UpgradeFlag \/ MainThread \/ StopAllReturns
  \/ \E p \in Programs : ExecuteProgram(p)
  \/ ExecutorGoes \/ SectionsGo \/ Outside

RinklersSpec == RinklersInit /\ [][RinklersNext]_rinklersVars

(* The operating system runs the threads that can run; one that competes   *)
(* for the section runner's mutex gets it in the end.  Nobody has to send  *)
(* anything, Client::await need not return without a reason, the schedule  *)
(* runner's thread need not wake up, and nothing is asked of the clock and *)
(* the executor.                                                           *)
FairRinklersSpec ==
  /\ RinklersSpec
  /\ WF_rinklersVars(SectionsGo)
  /\ WF_rinklersVars(MainThread)
  /\ SF_rinklersVars(ApiThread)
-----------------------------------------------------------------------------
(* Safety. *)

(***************************************************************************)
(* AnswersTellEffects: the answers of success are those of the requests    *)
(* that were carried out, in their order, and no other request touched a   *)
(* section or the queue; only the last one may still be without an answer, *)
(* or stay without one when the thread panics (process_msg and the         *)
(* publish() that follows it).                                             *)
(***************************************************************************)
SuccessesUpTo(n) == Cardinality({k \in 1 .. n : answers[k].code = "Success"})

(* The request carried out that has no answer. *)
Unanswered == Len(effects) - SuccessesUpTo(Len(answers))

AnswersTellEffects ==
  /\ Unanswered \in 0 .. IF api = "answering" \/ panicked THEN 1 ELSE 0
  /\ \A k \in 1 .. Len(answers) :
       answers[k].code = "Success" => answers[k].req = effects[SuccessesUpTo(k)]
  /\ \A k \in 1 .. Len(effects) : effects[k].text = "proper" /\ effects[k].sec \in Sections

(***************************************************************************)
(* OrderlyStop: how stop() and try_unwrap may fail.  The join fails, or    *)
(* the state is still held, only if the MQTT thread panicked: a panicking  *)
(* thread drops its flag before its state, and stop() takes the first for  *)
(* the end of the thread.  And pthread_kill fails only for a thread that   *)
(* obeyed the flag, or panicked, and was gone before the signal was sent;  *)
(* stop() then panics itself, instead of joining a thread that has ended.  *)
(* In any other case main gets its state back, whatever the thread was     *)
(* doing when the flag was lowered and wherever the signal met it.         *)
(***************************************************************************)
OrderlyStop ==
  /\ main \in {"join_failed", "state_held"} => panicked
  /\ main = "kill_failed" => api = "gone" /\ ~running

(***************************************************************************)
(* QuietAfterStop: once MqttApi::stop has returned Ok no request switches  *)
(* a section or queues a run any more, although the flag is all the thread *)
(* looks at and it may be in the middle of a request when it falls.        *)
(***************************************************************************)
QuietAfterStop ==
  [][effects' # effects => main \notin {"unwrapping", "stopping"}]_rinklersVars

(***************************************************************************)
(* EverythingEnds: when main returns from stop_all the MQTT thread and the *)
(* section runner's have ended and no program is being queued, every run   *)
(* that left the queue had its last word, so that a run is either over or  *)
(* still in a queue nobody takes anything from any more, and the only      *)
(* sections still on are those somebody switched on by hand.               *)
(***************************************************************************)
EverythingEnds ==
  shutdown = "done" =>
    /\ api = "gone" /\ thread = "exited" /\ job[Executor] = "idle"
    /\ \A i \in 1 .. queued : sent[i] \in Ended \/ (sent[i] = <<>> /\ i \in QueuedIds)
    /\ \A s \in Sections : state[s] => s \in manual
-----------------------------------------------------------------------------
(* Refinement. *)

AtHand == {[req |-> handling[k].req, done |-> Unanswered = 1] : k \in DOMAIN handling}

(* Nobody is served: the thread is gone, or main believes it is. *)
Unserved == api = "gone" \/ main \in {"unwrapping", "stopping", "state_held"}

Promised == INSTANCE Orders
              WITH atHand   <- AtHand,
                   valves   <- state,
                   accepted <- queued,
                   waiting  <- queue,
                   closed   <- Unserved

(***************************************************************************)
(* ImplementsOrders: whatever the network, the programs, a signal and      *)
(* their panics do, the MQTT thread deals with requests as Orders says: a  *)
(* request that may be carried out is, with all it means for its section   *)
(* or the queue, before it is answered and before the next one, and no     *)
(* other request does anything.                                            *)
(***************************************************************************)
ImplementsOrders == Promised!Spec
-----------------------------------------------------------------------------
(* Liveness, under FairRinklersSpec. *)

(***************************************************************************)
(* InterruptedApiStops: stop() returns if, by the time of the join, the    *)
(* thread is not in, or just before, a system call: then either the signal *)
(* interrupted it or it will read the flag, after whatever it is doing.    *)
(* (Between its reading of the flag and the system call a signal has no    *)
(* effect, and the thread waits for the broker.)                           *)
(***************************************************************************)
InterruptedApiStops ==
  main = "joining" /\ api \notin {"calling", "awaiting"} ~> main # "joining"

(***************************************************************************)
(* Reconnects: without a client, as after a failed first attempt, or with  *)
(* one that has lost its connection or could not be set up, the thread     *)
(* tries to connect again, unless it is told to stop or panics.            *)
(***************************************************************************)
Reconnects ==
  client \in {"none", "cut"} ~> api = "connecting" \/ ~running \/ panicked
=============================================================================
