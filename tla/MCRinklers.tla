---------------------------- MODULE MCRinklers -----------------------------
(***************************************************************************)
(* The whole program on a small instance: one section, a program of two    *)
(* items, the second with a duration that cannot be printed, so that the   *)
(* section runner dies of it, and requests of every kind, two in error.    *)
(***************************************************************************)
EXTENDS Rinklers

CONSTANTS s1

Ask(type, sec, on, dur, text) ==
  [type |-> type, sec |-> sec, on |-> on, dur |-> dur, text |-> text]

SomeRequests ==
  {Ask("set_state", s1, TRUE, 1, "proper"),
   Ask("run_for", s1, TRUE, 1, "proper"),
   Ask("run_for", s1, TRUE, 2, "proper"),
   Ask("run_for", NoSection, TRUE, 1, "proper"),
   Ask("set_state", s1, TRUE, 1, "junk")}

Sequences == [flooding |-> <<[sec |-> s1, dur |-> 1], [sec |-> s1, dur |-> 2]>>]
=============================================================================
