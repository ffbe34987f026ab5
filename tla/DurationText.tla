---------------------------- MODULE DurationText ----------------------------
(***************************************************************************)
(* Durations as text (util.rs): chrono_duration_string prints one, and     *)
(* chrono_duration_from_str and duration_from_str read a text, character   *)
(* by character.  The units are those of the code; how many of one make    *)
(* the next, and the width of an i64, are parameters.  Durations are       *)
(* counted in nanoseconds.                                                 *)
(***************************************************************************)
EXTENDS Integers, Sequences, FiniteSets, Functions

CONSTANTS PerUnit,  \* per unit, how many of it make the next longer one
          MaxInt,   \* i64::max_value()
          Printed,  \* durations that are printed, and the text read
          Texts     \* other texts that are read

Units == <<"w", "d", "h", "m", "s", "ms", "us", "ns">>

PlaceOf(u) == CHOOSE k \in 1 .. 8 : Units[k] = u

(* The units' lengths.  A Duration holds an i64 of milliseconds. *)
LengthOf ==
  LET us == PerUnit["ns"]
      ms == PerUnit["us"] * us
      s  == PerUnit["ms"] * ms
      m  == PerUnit["s"] * s
      h  == PerUnit["m"] * m
      d  == PerUnit["h"] * h
  IN <<PerUnit["d"] * d, d, h, m, s, ms, us, 1>>
MaxDuration == MaxInt * LengthOf[6]
MinDuration == -(MaxInt + 1) * LengthOf[6]

ASSUME DurationTextAssumption ==
  /\ MaxInt \in Nat \ {0}
  /\ \A k \in 2 .. 8 : PerUnit[Units[k]] \in Nat \ {0}
  /\ Printed \subseteq -MaxDuration .. MaxDuration
  /\ Texts \subseteq Seq(STRING)
-----------------------------------------------------------------------------
(* chrono_duration_string *)

Digits == <<"0", "1", "2", "3", "4", "5", "6", "7", "8", "9">>
IsDigit(c) == c \in Range(Digits)
DigitValue(c) == CHOOSE n \in 0 .. 9 : Digits[n + 1] = c

ToText[n \in 0 .. MaxInt] ==
  IF n < 10 THEN <<Digits[n + 1]>> ELSE Append(ToText[n \div 10], Digits[(n % 10) + 1])

Letters(unit) ==
  CASE unit = "ms" -> <<"m", "s">>
    [] unit = "us" -> <<"u", "s">>
    [] unit = "ns" -> <<"n", "s">>
    [] OTHER -> <<unit>>

(* num_weeks and so on, but for what makes one of the next longer unit.    *)
(* num_microseconds and num_nanoseconds answer None on overflow, and the   *)
(* unit is left out.                                                       *)
CountOf(k, dur) ==
  LET all == dur \div LengthOf[k] IN
  CASE k = 1 -> all
    [] k \in 2 .. 6 -> all % PerUnit[Units[k]]
    [] k \in {7, 8} -> IF all > MaxInt THEN 0 ELSE all % PerUnit[Units[k]]

(* Variant: the hours are not what is left of the days. *)
PartOfAll(k, dur) ==
  LET count == IF k = 3 THEN dur \div LengthOf[k] ELSE CountOf(k, dur) IN
  IF count > 0 THEN ToText[count] \o Letters(Units[k]) ELSE <<>>

Part(k, dur) ==
  IF CountOf(k, dur) > 0 THEN ToText[CountOf(k, dur)] \o Letters(Units[k]) ELSE <<>>

PartsOf(dur) ==
  Part(1, dur) \o Part(2, dur) \o Part(3, dur) \o Part(4, dur)
    \o Part(5, dur) \o Part(6, dur) \o Part(7, dur) \o Part(8, dur)

TextOf(dur) ==
  CASE dur = 0 -> <<"0">>
    [] dur < 0 -> <<"-">> \o PartsOf(-dur)
    [] dur > 0 -> PartsOf(dur)
-----------------------------------------------------------------------------
(* chrono_duration_from_str and duration_from_str; the text is in lower case. *)

NotPrinted == <<>>

VARIABLES source,  \* the duration the text was printed from, in a tuple
          text,
          pos,     \* the next character
          num, dur,
          status   \* what has become of the call

vars == <<source, text, pos, num, dur, status>>

TypeOK ==
  /\ source \in {NotPrinted} \cup Seq(Printed)
  /\ pos \in 1 .. Len(text) + 1
  /\ num \in -MaxInt - 1 .. MaxInt
  /\ dur \in MinDuration .. MaxDuration
  /\ status \in {"reading", "done", "unexpected", "negative", "panicked"}

Init ==
  /\ \/ \E d \in Printed : source = <<d>> /\ text = TextOf(d)
     \/ source = NotPrinted /\ text \in Texts
  /\ pos = 1 /\ num = 0 /\ dur = 0
  /\ status = "reading"

AtChar == status = "reading" /\ pos <= Len(text)
Char == text[pos]
Peek == IF pos < Len(text) THEN text[pos + 1] ELSE "end"

Whitespace ==
  /\ AtChar /\ Char = " "
  /\ pos' = pos + 1
  /\ UNCHANGED <<source, text, num, dur, status>>

(* Variant: integers of any length. *)
NoWrap(n) == n

(* A release build wraps, a debug build panics. *)
Wrap(n) == ((n + MaxInt + 1) % (2 * MaxInt + 2)) - MaxInt - 1

Digit ==
  /\ AtChar /\ IsDigit(Char)
  /\ LET n == num * 10 + DigitValue(Char) IN
       \/ num' = Wrap(n) /\ pos' = pos + 1 /\ UNCHANGED status
       \/ n # Wrap(n) /\ status' = "panicked" /\ UNCHANGED <<num, pos>>
  /\ UNCHANGED <<source, text, dur>>

(* Variant: no look at the next character. *)
UnitAtOnce(c, next) ==
  CASE c = "u" /\ next = "s" -> 7
    [] c = "n" /\ next = "s" -> 8
    [] c \in {"w", "d", "h", "m", "s"} -> PlaceOf(c)
    [] OTHER -> 0

(* The arms of the match, by the unit's place in Units; 0 is the last arm. *)
Unit(c, next) == IF c = "m" /\ next = "s" THEN 6 ELSE UnitAtOnce(c, next)

(* Duration::weeks and so on panic out of range, and so does the sum.      *)
AddUnit ==
  /\ AtChar /\ Unit(Char, Peek) # 0
  /\ LET part == num * LengthOf[Unit(Char, Peek)]
         Fits(n) == n \in MinDuration .. MaxDuration
     IN IF Fits(part) /\ Fits(dur + part)
        THEN dur' = dur + part /\ num' = 0 /\ pos' = pos + 1 /\ UNCHANGED status
        ELSE status' = "panicked" /\ UNCHANGED <<dur, num, pos>>
  /\ UNCHANGED <<source, text>>

Unexpected ==
  /\ AtChar /\ Char # " " /\ ~IsDigit(Char) /\ Unit(Char, Peek) = 0
  /\ status' = "unexpected"
  /\ UNCHANGED <<source, text, pos, num, dur>>

(* to_std() refuses a negative duration. *)
Finish ==
  /\ status = "reading" /\ pos = Len(text) + 1
  /\ status' = IF dur < 0 THEN "negative" ELSE "done"
  /\ UNCHANGED <<source, text, pos, num, dur>>

Next == Whitespace \/ Digit \/ AddUnit \/ Unexpected \/ Finish

Spec == Init /\ [][Next]_vars
-----------------------------------------------------------------------------
(***************************************************************************)
(* ReadsBack: a duration that was printed is read back as it was, if its   *)
(* nanoseconds can be counted (292 years); longer ones lose less than a    *)
(* millisecond, and a negative one is refused (the tests of util.rs).      *)
(***************************************************************************)
ReadsBack ==
  status # "reading" => \A k \in DOMAIN source :
    IF source[k] < 0 THEN status = "unexpected"
    ELSE /\ status = "done"
         /\ source[k] <= MaxInt => dur = source[k]
         /\ source[k] - dur \in 0 .. LengthOf[6] - 1

(* What a text means, without reading it from left to right: the units in  *)
(* it, each with the digits between it and the unit before.                *)
LetterAt(i) == text[i] # " " /\ ~IsDigit(text[i])
Suffix(i) == i > 1 /\ text[i] = "s" /\ text[i - 1] \in {"m", "u", "n"}
UnitsIn == {i \in DOMAIN text : LetterAt(i) /\ ~Suffix(i)}

Proper ==
  \A i \in DOMAIN text : LetterAt(i) =>
    /\ text[i] \in {"w", "d", "h", "m", "s", "u", "n"}
    /\ text[i] \in {"u", "n"} => i < Len(text) /\ text[i + 1] = "s"

DigitsBefore(i) ==
  {j \in 1 .. i - 1 : IsDigit(text[j]) /\ \A k \in j .. i - 1 : ~LetterAt(k)}

PowerOfTen[n \in Nat] == IF n = 0 THEN 1 ELSE 10 * PowerOfTen[n - 1]

WeightAt(j, i) == PowerOfTen[Cardinality({k \in DigitsBefore(i) : k > j})]

NumberAt(i) ==
  SumFunction([j \in DigitsBefore(i) |-> DigitValue(text[j]) * WeightAt(j, i)])

LengthAt(i) ==
  LET long == i < Len(text) /\ text[i + 1] = "s" IN
  LengthOf[PlaceOf(CASE text[i] = "u" -> "us"
                     [] text[i] = "n" -> "ns"
                     [] text[i] = "m" /\ long -> "ms"
                     [] OTHER -> text[i])]

Meaning == SumFunction([i \in UnitsIn |-> NumberAt(i) * LengthAt(i)])

(***************************************************************************)
(* ReadsUnits: a text is accepted only if it is made of digits, spaces and *)
(* units; if no number in it overflows, the answer is the sum of what its  *)
(* units say, and only a sum that is too long makes the reader panic.  The *)
(* "s" of "ms", "us" and "ns" adds nothing, though it is read as seconds.  *)
(***************************************************************************)
NumbersFit == \A i \in 1 .. Len(text) + 1 : NumberAt(i) <= MaxInt

ReadsUnits ==
  /\ status = "done" => Proper
  /\ status = "unexpected" => ~Proper
  /\ Proper /\ NumbersFit =>
       /\ status = "done" => dur = Meaning
       /\ status = "panicked" => Meaning > MaxDuration
       /\ status # "negative"
=============================================================================
