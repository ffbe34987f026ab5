--------------------------- MODULE MCDurationText --------------------------
(***************************************************************************)
(* A microsecond of twelve nanoseconds, a millisecond of twelve of those,  *)
(* two of every other unit to the next; integers up to 99.                 *)
(***************************************************************************)
EXTENDS DurationText

Radices == [w |-> 1, d |-> 2, h |-> 2, m |-> 2, s |-> 2, ms |-> 2, us |-> 12, ns |-> 12]

(* Up to where microseconds cannot be counted any more, and the longest.   *)
SomeDurations == (-30 .. 1300) \cup (14100 .. 14256)

SomeTexts ==
  UNION {[1 .. n -> {"1", "9", " ", "m", "s", "w", "u", "x"}] : n \in 0 .. 4}
  \cup [1 .. 5 -> {"1", "9", "m", "s", "w", "n"}]
=============================================================================
