------------------------------ MODULE MqttApi ------------------------------
(***************************************************************************)
(* MqttApi (mqtt_api.rs): a thread that keeps a connection to an MQTT      *)
(* broker, receives requests from it, carries them out and publishes an    *)
(* answer to each, and stop(), by which the main thread ends it.  What the *)
(* requests do to the rest of the program is in module Rinklers.           *)
(*                                                                         *)
(* The thread is in one of these places:                                   *)
(*   "top"         before run() reads the running flag                     *)
(*   "connecting"  in init_client or Client::reconnect                     *)
(*   "pausing"     asleep after a failed attempt                           *)
(*   "setting_up"  in initial_pubs and initial_subs                        *)
(*   "looping"     before run_on_client reads the running flag             *)
(*   "calling"     the flag was read, Client::await is called              *)
(*   "awaiting"    blocked in a system call of Client::await               *)
(*   "interrupted" the same, with a signal                                 *)
(*   "processing"  in process_msg                                          *)
(*   "answering"   before the answer is published                          *)
(*   "leaving"     run() returned or unwinds, the flag is dropped          *)
(*   "gone"        the state is dropped, too                               *)
(* run() drops its parameters in the reverse of their order, the flag      *)
(* before the state.                                                       *)
(***************************************************************************)
EXTENDS Integers, Sequences

CONSTANTS Requests,     \* requests clients may send through the broker
          MaxRequests   \* bound: how many are ever sent

ASSUME MqttApiAssumption == MaxRequests \in Nat

VARIABLES api,       \* where the thread is
          client,    \* its Option<Client>, with the state of the connection
          running,   \* the flag both threads share
          inbox,     \* what the broker sent and the thread did not receive yet
          handling,  \* the request at hand, and what is to be answered
          sentSoFar, \* how many requests were sent
          answers,   \* history: the answers published
          panicked   \* the thread ended by a panic

connectionVars == <<client, inbox, sentSoFar>>
workVars == <<handling, answers>>
apiVars == <<api, running, connectionVars, workVars, panicked>>

ApiPlaces ==
  {"top", "connecting", "pausing", "setting_up", "looping", "calling", "awaiting",
   "interrupted", "processing", "answering", "leaving", "gone"}

(* ResponseCode, by name. *)
Codes == {"Success", "InvalidPath", "InvalidPayloadUtf8", "InvalidPayloadJson",
          "SectionNotFound"}

Answer == [req : Requests, code : Codes]

ApiTypeOK ==
  /\ api \in ApiPlaces
  /\ client \in {"none", "cut", "connected", "subscribed"}
  /\ running \in BOOLEAN
  /\ inbox \in Seq(Requests)
  /\ handling \in Seq(Answer) /\ Len(handling) <= 1
  /\ sentSoFar \in 0 .. MaxRequests
  /\ answers \in Seq(Answer)
  /\ panicked \in BOOLEAN

(* MqttApi::start_new *)
ApiInit ==
  /\ api = "top"
  /\ client = "none"
  /\ running = TRUE
  /\ inbox = <<>>
  /\ handling = <<>>
  /\ sentSoFar = 0
  /\ answers = <<>>
  /\ panicked = FALSE

HoldsFlag == api \notin {"leaving", "gone"}
HoldsState == api # "gone"
-----------------------------------------------------------------------------
Go(place) == api' = place /\ UNCHANGED <<running, panicked>>

(* Unwinding drops what returning drops. *)
Panics ==
  /\ api' = "leaving" /\ panicked' = TRUE
  /\ client' = "none" /\ inbox' = <<>>
  /\ UNCHANGED <<running, sentSoFar>>

(* run(): the top of the loop. *)
ReadFlag ==
  /\ api = "top"
  /\ IF running
     THEN Go("connecting") /\ UNCHANGED connectionVars
     ELSE Go("leaving") /\ client' = "none" /\ UNCHANGED <<inbox, sentSoFar>>
  /\ UNCHANGED workVars

Connect ==
  /\ api = "connecting"
  /\ Go("setting_up")
  /\ client' = "connected"
  /\ UNCHANGED <<inbox, sentSoFar, workVars>>

ConnectFails ==
  /\ api = "connecting"
  /\ Go("pausing")
  /\ UNCHANGED <<connectionVars, workVars>>

(* thread::sleep sleeps on when a signal interrupts it.  When it was       *)
(* reconnect() that failed, run_on_client is called all the same.          *)
EndPause ==
  /\ api = "pausing"
  /\ Go(IF client = "none" THEN "top" ELSE "setting_up")
  /\ UNCHANGED <<connectionVars, workVars>>

(* initial_pubs and initial_subs: over a lost connection they may still    *)
(* succeed, as publish() may, and over any they may fail; what the client  *)
(* has then is not heard of again before it is connected anew.             *)
SetUp ==
  /\ api = "setting_up"
  /\ Go("looping")
  /\ client' = IF client = "connected" THEN "subscribed" ELSE "cut"
  /\ UNCHANGED <<inbox, sentSoFar, workVars>>

SetUpFails ==
  /\ api = "setting_up"
  /\ Go("top")
  /\ client' = "cut"
  /\ UNCHANGED <<inbox, sentSoFar, workVars>>

(* Client::terminate, and back to run(). *)
(* Variant: any end of run_on_client ends run(). *)
AfterBreakLeave == "leaving"
AfterBreak == "top"
Terminate ==
  /\ Go(AfterBreak)
  /\ client' = "cut" /\ inbox' = <<>>
  /\ UNCHANGED <<sentSoFar, workVars>>

(* run_on_client(): the top of its loop. *)
ReadFlagAgain ==
  /\ api = "looping"
  /\ IF running THEN Go("calling") /\ UNCHANGED <<connectionVars, workVars>> ELSE Terminate

Block ==
  /\ api = "calling"
  /\ Go("awaiting")
  /\ UNCHANGED <<connectionVars, workVars>>

Receive(code(_)) ==
  /\ api = "awaiting"
  /\ inbox # <<>>
  /\ Go("processing")
  /\ inbox' = Tail(inbox)
  /\ handling' = <<[req |-> Head(inbox), code |-> code(Head(inbox))]>>
  /\ UNCHANGED <<client, sentSoFar, answers>>

(* Err: disconnected, or any other error, that of a signal among them. *)
AwaitFails ==
  /\ api = "interrupted" \/ (api = "awaiting" /\ client = "cut")
  /\ Terminate

(* Ok(None) *)
AwaitNothing ==
  /\ api = "awaiting"
  /\ client = "subscribed"
  /\ Go("looping")
  /\ UNCHANGED <<connectionVars, workVars>>

(* The end of process_msg, which may panic. *)
Processed ==
  /\ api = "processing"
  /\ Go("answering")
  /\ UNCHANGED <<connectionVars, workVars>>

ProcessingPanics == api = "processing" /\ Panics /\ UNCHANGED workVars

(* publish(): over a lost connection it may still succeed. *)
Publish ==
  /\ api = "answering"
  /\ Go("looping")
  /\ answers' = answers \o handling
  /\ handling' = <<>>
  /\ UNCHANGED connectionVars

PublishPanics == api = "answering" /\ client = "cut" /\ Panics /\ UNCHANGED workVars

DropState ==
  /\ api = "leaving"
  /\ Go("gone")
  /\ UNCHANGED <<connectionVars, workVars>>

(* What the thread does on its own, but for process_msg. *)
ApiSteps ==
  \/ ReadFlag \/ Connect \/ ConnectFails \/ EndPause \/ SetUp \/ SetUpFails
  \/ ReadFlagAgain \/ Block \/ AwaitFails \/ Publish \/ PublishPanics \/ DropState
-----------------------------------------------------------------------------
(* The broker and the network.  The session is a clean one: nothing is     *)
(* kept for a client that is not connected.                                *)

Send(r) ==
  /\ client = "subscribed"
  /\ sentSoFar < MaxRequests
  /\ inbox' = Append(inbox, r)
  /\ sentSoFar' = sentSoFar + 1
  /\ UNCHANGED <<api, running, client, workVars, panicked>>

LoseConnection ==
  /\ client \in {"connected", "subscribed"}
  /\ client' = "cut" /\ inbox' = <<>>
  /\ UNCHANGED <<api, running, sentSoFar, workVars, panicked>>
-----------------------------------------------------------------------------
(* The parts of stop() that concern the thread. *)

(* Variant: the signal alone. *)
KeepFlag == UNCHANGED apiVars

LowerFlag == running' = FALSE /\ UNCHANGED <<api, connectionVars, workVars, panicked>>

(* pthread_kill(SIGINT) interrupts a system call if the thread is in one.  *)
SignalThread ==
  /\ api' = IF api = "awaiting" THEN "interrupted" ELSE api
  /\ UNCHANGED <<running, connectionVars, workVars, panicked>>
=============================================================================
