---------------------------- MODULE SectionRuns ----------------------------
(***************************************************************************)
(* What a SectionRunner promises its callers, without threads, locks,      *)
(* clocks or channels: runs are accepted in order and started in that      *)
(* order, at most one is under way, and shutting the runner down ends the  *)
(* run under way together with every run waiting behind it.  A runner that *)
(* is shut down between two runs only stops: what is waiting then stays    *)
(* waiting for good, and so does what is accepted afterwards.              *)
(***************************************************************************)
EXTENDS Integers

CONSTANT MaxRuns    \* bound: how many runs are ever accepted

VARIABLES phase,    \* how far each run has come
          closed    \* the runner has stopped

RunIds == 1 .. MaxRuns

Phases == {"new", "queued", "running", "finished", "interrupted", "lost"}

Init ==
  /\ phase = [i \in RunIds |-> "new"]
  /\ closed = FALSE

Oldest(i, p) == phase[i] = p /\ \A j \in RunIds : j < i => phase[j] # p

NoneRunning == \A i \in RunIds : phase[i] # "running"

Accept(i) ==
  /\ Oldest(i, "new")
  /\ phase' = [phase EXCEPT ![i] = "queued"]
  /\ UNCHANGED closed

Start(i) ==
  /\ ~closed
  /\ NoneRunning
  /\ Oldest(i, "queued")
  /\ phase' = [phase EXCEPT ![i] = "running"]
  /\ UNCHANGED closed

Finish(i) ==
  /\ ~closed
  /\ phase[i] = "running"
  /\ phase' = [phase EXCEPT ![i] = "finished"]
  /\ UNCHANGED closed

Shutdown ==
  /\ ~closed
  /\ ~NoneRunning
  /\ phase' = [i \in RunIds |-> IF phase[i] \in {"queued", "running"}
                                THEN "interrupted" ELSE phase[i]]
  /\ closed' = TRUE

ShutdownBetweenRuns ==
  /\ ~closed
  /\ NoneRunning
  /\ closed' = TRUE
  /\ UNCHANGED phase

(* The runner dies of the next run before it has started. *)
Crash(i) ==
  /\ ~closed
  /\ NoneRunning
  /\ Oldest(i, "queued")
  /\ phase' = [phase EXCEPT ![i] = "lost"]
  /\ closed' = TRUE

Next ==
  \/ \E i \in RunIds : Accept(i) \/ Start(i) \/ Finish(i) \/ Crash(i)
  \/ Shutdown
  \/ ShutdownBetweenRuns

Spec == Init /\ [][Next]_<<phase, closed>>
=============================================================================
