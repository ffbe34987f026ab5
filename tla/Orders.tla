------------------------------- MODULE Orders -------------------------------
(***************************************************************************)
(* What MqttApi promises those who send requests, and main, without        *)
(* threads, locks, connections, signals or panics: one request is dealt    *)
(* with at a time; if it can be carried out it is, all at once, and then   *)
(* answered with success, and otherwise it is answered with an error and   *)
(* nothing is done.  A request may be left without its answer, but only as *)
(* the last one, and after stop() has returned nothing is done for anybody.*)
(* What requests are about, the valves and the queue of runs, changes      *)
(* meanwhile for other reasons.                                            *)
(***************************************************************************)
EXTENDS Integers, Sequences

CONSTANTS Requests, Sections, Codes

VARIABLES atHand,   \* the request at hand, in a set, and whether it is done
          effects,  \* the requests that were carried out
          answers,  \* the answers given
          valves,   \* the sections' states
          accepted, \* how many runs were ever queued
          waiting,  \* the runs that were queued and not yet taken from the queue
          closed

vars == <<atHand, effects, answers, valves, accepted, waiting, closed>>

Init ==
  /\ atHand = {}
  /\ effects = <<>> /\ answers = <<>>
  /\ valves = [s \in Sections |-> FALSE]
  /\ accepted = 0 /\ waiting = <<>>
  /\ closed = FALSE

Proper(r) == r.text = "proper" /\ r.sec \in Sections

Take(r) ==
  /\ ~closed /\ atHand = {}
  /\ atHand' = {[req |-> r, done |-> FALSE]}
  /\ UNCHANGED <<effects, answers, valves, accepted, waiting, closed>>

Does(r) ==
  \/ /\ r.type = "set_state"
     /\ valves' = [valves EXCEPT ![r.sec] = r.on]
     /\ UNCHANGED <<accepted, waiting>>
  \/ /\ r.type = "run_for"
     /\ accepted' = accepted + 1
     /\ waiting' = Append(waiting, [id |-> accepted + 1, sec |-> r.sec, dur |-> r.dur])
     /\ UNCHANGED valves

CarryOut(r) ==
  /\ ~closed /\ atHand = {[req |-> r, done |-> FALSE]}
  /\ Proper(r)
  /\ Does(r)
  /\ atHand' = {[req |-> r, done |-> TRUE]}
  /\ effects' = Append(effects, r)
  /\ UNCHANGED <<answers, closed>>

Reply(r, code) ==
  /\ ~closed /\ atHand = {[req |-> r, done |-> (code = "Success")]}
  /\ code # "Success" => ~Proper(r)
  /\ answers' = Append(answers, [req |-> r, code |-> code])
  /\ atHand' = {}
  /\ UNCHANGED <<effects, valves, accepted, waiting, closed>>

Close ==
  /\ ~closed
  /\ closed' = TRUE
  /\ UNCHANGED <<atHand, effects, answers, valves, accepted, waiting>>

(* Nothing is said here of what the runner and the programs do to the      *)
(* valves and the queue: SectionRuns does.                                 *)
Meanwhile ==
  /\ valves' \in [Sections -> BOOLEAN]
  /\ accepted' \in Nat /\ accepted' >= accepted
  /\ UNCHANGED <<atHand, effects, answers, closed>>

Next ==
  \/ \E r \in Requests : Take(r) \/ CarryOut(r)
  \/ \E r \in Requests, code \in Codes : Reply(r, code)
  \/ Close
  \/ Meanwhile

Spec == Init /\ [][Next]_vars
=============================================================================
