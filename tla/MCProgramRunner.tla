-------------------------- MODULE MCProgramRunner --------------------------
(* Programs on a small instance: a proper one of two items, and one whose  *)
(* only duration the section runner's thread cannot print.                 *)
EXTENDS ProgramRunner

CONSTANTS s1, s2

Sequences ==
  [watering |-> <<[sec |-> s1, dur |-> 1], [sec |-> s2, dur |-> 1]>>,
   flooding |-> <<[sec |-> s1, dur |-> 2]>>]
=============================================================================
