--------------------------- MODULE ScheduleProofs ---------------------------
(***************************************************************************)
(* Proofs about next_run_after, for any length of the week, the day and    *)
(* the year, any leap years, and any schedule.  Its answer is the first    *)
(* run from where its search begins; all that the runs check follows.      *)
(***************************************************************************)
EXTENDS ScheduleClock, FiniteSetTheorems, TLAPS

Facts == INSTANCE IndexMapFacts   \* for LeastOf
-----------------------------------------------------------------------------
(* Arithmetic. *)

LEMMA Division ==
  ASSUME NEW a \in Int, NEW b \in Nat \ {0}
  PROVE  /\ a \div b \in Int
         /\ a % b \in 0 .. b - 1
         /\ a = (a \div b) * b + (a % b)
OBVIOUS

LEMMA QuotientAndRest ==
  ASSUME NEW b \in Nat \ {0}, NEW q \in Int, NEW r \in 0 .. b - 1
  PROVE  (q * b + r) \div b = q /\ (q * b + r) % b = r
OBVIOUS

LEMMA TimesAtLeast ==
  ASSUME NEW b \in Nat \ {0}, NEW k \in Int, NEW l \in Int, k >= l
  PROVE  k * b \in Int /\ l * b \in Int /\ k * b >= l * b
OBVIOUS

(* The least element of a set that has one is the minimum. *)
LEMMA MinOf ==
  ASSUME NEW A \in SUBSET Nat, A # {}
  PROVE  Min(A) \in A /\ \A x \in A : Min(A) <= x
<1>1. \E i \in A : \A j \in A : i <= j
  BY Facts!LeastOf
<1> QED BY <1>1 DEF Min

LEMMA MinIs ==
  ASSUME NEW A \in SUBSET Nat, NEW m \in A, \A x \in A : m <= x
  PROVE  Min(A) = m
<1>1. Min(A) \in A /\ Min(A) <= m /\ m <= Min(A)
  BY MinOf
<1>2. Min(A) \in Nat /\ m \in Nat
  BY <1>1
<1> QED BY <1>1, <1>2
-----------------------------------------------------------------------------
(* The calendar: every instant is in a year. *)

LEMMA FirstDays ==
  /\ FirstDay(0) = 0
  /\ \A y \in Nat : FirstDay(y) \in Nat /\ FirstDay(y) >= y
  /\ \A y \in Int : FirstDay(y) \in Int
<1> USE CalendarAssumption
<1>1. ASSUME NEW y \in Int
      PROVE  Cardinality({x \in LeapYears : x < y}) \in Nat
  BY FS_Subset, FS_CardinalityType
<1>2. {x \in LeapYears : x < 0} = {}
  <2>1. \A x \in LeapYears : ~(x < 0)
    OBVIOUS
  <2> QED BY <2>1
<1>3. FirstDay(0) = 0
  BY <1>2, FS_EmptySet DEF FirstDay
<1>4. ASSUME NEW y \in Nat PROVE FirstDay(y) \in Nat /\ FirstDay(y) >= y
  <2>1. y * (YearDays - 1) \in Nat /\ y * (YearDays - 1) >= y
    OBVIOUS
  <2> QED BY <2>1, <1>1 DEF FirstDay
<1>5. ASSUME NEW y \in Int PROVE FirstDay(y) \in Int
  BY <1>1 DEF FirstDay
<1> QED BY <1>3, <1>4, <1>5

LEMMA YearExists ==
  ASSUME NEW t \in Nat
  PROVE  /\ Day(t) \in Nat
         /\ YearOf(t) \in 0 .. Day(t)
         /\ FirstDay(YearOf(t)) <= Day(t)
         /\ Day(t) < FirstDay(YearOf(t) + 1)
<1> USE CalendarAssumption
<1>1. Day(t) \in Nat
  <2>1. t = (t \div DayLength) * DayLength + (t % DayLength) /\ t \div DayLength \in Int
        /\ t % DayLength \in 0 .. DayLength - 1
    BY Division
  <2>2. t \div DayLength >= 0
    BY <2>1
  <2> QED BY <2>1, <2>2 DEF Day
<1> DEFINE A == {y \in Nat : Day(t) < FirstDay(y + 1)}
<1>2. Day(t) \in A
  BY <1>1, FirstDays
<1>3. PICK y \in A : \A z \in A : y <= z
  BY <1>2, Facts!LeastOf
<1>4. y \in 0 .. Day(t) /\ Day(t) < FirstDay(y + 1)
  BY <1>1, <1>2, <1>3
<1>5. FirstDay(y) <= Day(t)
  <2>1. CASE y = 0
    BY <2>1, <1>1, FirstDays
  <2>2. CASE y # 0
    <3>1. y - 1 \in Nat /\ y - 1 \notin A /\ y - 1 + 1 = y
      BY <2>2, <1>3
    <3>2. ~(Day(t) < FirstDay(y))
      BY <3>1
    <3> QED BY <3>2, <1>1, <1>4, FirstDays
  <2> QED BY <2>1, <2>2
<1> HIDE DEF A
<1>6. \E z \in 0 .. Day(t) : FirstDay(z) <= Day(t) /\ Day(t) < FirstDay(z + 1)
  BY <1>4, <1>5
<1> QED BY <1>1, <1>6 DEF YearOf
LEMMA WithYearIsTyped ==
  ASSUME NEW t \in Nat, NEW y \in Nat
  PROVE  WithYear(t, y) \in Nat \cup {Never}
<1> USE CalendarAssumption
<1>1. MonthDay(t) \in Nat
  BY YearExists, FirstDays DEF MonthDay
<1>2. FirstDay(y) \in Nat
  BY FirstDays
<1>3. TimeOf(t) \in Nat
  BY Division DEF TimeOf
<1>4. ASSUME NEW place \in Nat
      PROVE  (FirstDay(y) + place) * DayLength + TimeOf(t) \in Nat
  BY <1>2, <1>3
<1>5. CASE MonthDay(t) = LeapDay /\ y \notin LeapYears
  BY <1>5 DEF WithYear
<1>6. CASE y \in LeapYears \/ MonthDay(t) < LeapDay
  BY <1>6, <1>1, <1>4 DEF WithYear
<1>7. CASE y \notin LeapYears /\ MonthDay(t) > LeapDay
  <2>1. MonthDay(t) - 1 \in Nat
    BY <1>1, <1>7
  <2> QED BY <1>7, <1>1, <1>4, <2>1 DEF WithYear
<1> QED BY <1>1, <1>5, <1>6, <1>7

(* The years that begin before a later one are among those before it. *)
LEMMA YearsFollow ==
  ASSUME NEW y \in Nat
  PROVE  FirstDay(y + 1) >= FirstDay(y) + YearDays - 1
<1> USE CalendarAssumption
<1> DEFINE A == {x \in LeapYears : x < y}
           B == {x \in LeapYears : x < y + 1}
<1>1. IsFiniteSet(B) /\ A \subseteq B
  <2>1. \A x \in LeapYears : x < y => x < y + 1
    OBVIOUS
  <2> QED BY <2>1, FS_Subset
<1>2. Cardinality(A) <= Cardinality(B) /\ Cardinality(A) \in Nat /\ Cardinality(B) \in Nat
  BY <1>1, FS_Subset, FS_CardinalityType
<1> HIDE DEF A, B
<1>3. (y + 1) * (YearDays - 1) = y * (YearDays - 1) + YearDays - 1
  OBVIOUS
<1>4. y * (YearDays - 1) \in Int
  OBVIOUS
<1> QED BY <1>2, <1>3, <1>4 DEF FirstDay, A, B

(* An instant is earlier than the same day and time of the next year.      *)
LEMMA NextYearIsLater ==
  ASSUME NEW t \in Nat, WithYear(t, YearOf(t) + 1) # Never
  PROVE  WithYear(t, YearOf(t) + 1) >= t
<1> USE CalendarAssumption
<1> DEFINE y == YearOf(t)
           place == Day(t) - FirstDay(y)
           later == IF y + 1 \in LeapYears \/ MonthDay(t) < LeapDay
                    THEN MonthDay(t) ELSE MonthDay(t) - 1
<1>1. y \in Nat /\ Day(t) \in Nat /\ FirstDay(y) \in Nat /\ place \in Nat
  BY YearExists, FirstDays
<1>2. WithYear(t, y + 1) = (FirstDay(y + 1) + later) * DayLength + TimeOf(t)
  BY DEF WithYear
<1>3. MonthDay(t) = IF y \in LeapYears \/ place < LeapDay THEN place ELSE place + 1
  BY DEF MonthDay
<1>4. FirstDay(y + 1) \in Nat /\ FirstDay(y + 1) >= FirstDay(y) + 1
  BY <1>1, FirstDays, YearsFollow
<1> HIDE DEF y, place
<1>5. later \in Int /\ later >= place - 1
  BY <1>1, <1>3
<1> HIDE DEF later
<1>6. FirstDay(y + 1) + later >= Day(t)
  BY <1>1, <1>4, <1>5 DEF place
<1>7. (FirstDay(y + 1) + later) * DayLength >= Day(t) * DayLength
  BY <1>1, <1>4, <1>5, <1>6, TimesAtLeast
<1>8. t = Day(t) * DayLength + TimeOf(t) /\ TimeOf(t) \in Int
  BY Division DEF Day, TimeOf
<1>9. (FirstDay(y + 1) + later) * DayLength \in Int /\ Day(t) * DayLength \in Int
  BY <1>1, <1>4, <1>5
<1> QED BY <1>2, <1>7, <1>8, <1>9 DEF y

(* The bounds, and where the search begins. *)
LEMMA BoundsAreTyped ==
  ASSUME NEW b, IsBound(b), NEW ref \in Nat
  PROVE  ResolveFrom(b, ref) \in Nat \cup {Never}
<1>1. CASE b.kind = "None"
  BY <1>1 DEF ResolveFrom
<1>2. CASE b.kind = "Yearly" /\ b.at \in Nat
  <2>1. YearOf(ref) \in Nat
    BY YearExists
  <2> QED BY <1>2, <2>1, WithYearIsTyped DEF ResolveFrom
<1>3. CASE b.kind = "Definite" /\ b.at \in Nat
  BY <1>3 DEF ResolveFrom
<1> QED BY <1>1, <1>2, <1>3 DEF IsBound

LEMMA SearchBegins ==
  ASSUME NEW s, IsSchedule(s), NEW ref \in Nat
  PROVE  /\ To(s, ref) \in Nat \cup {Never}
         /\ From(s, ref) \in Nat \cup {Never}
         /\ Start(s, ref) \in Nat
         /\ Start(s, ref) >= ref
         /\ Start(s, ref) >= From(s, ref)
         /\ Start(s, ref) \in {ref, From(s, ref)}
<1>1. To(s, ref) \in Nat \cup {Never}
  BY BoundsAreTyped DEF To, IsSchedule
<1> DEFINE from == ResolveFrom(s.from, ref)
<1>2. from \in Nat \cup {Never}
  BY BoundsAreTyped DEF IsSchedule
<1>3. from # Never => WithYear(from, YearOf(from) + 1) \in Nat \cup {Never}
  <2> HIDE DEF from
  <2> SUFFICES ASSUME from \in Nat PROVE WithYear(from, YearOf(from) + 1) \in Nat \cup {Never}
    BY <1>2
  <2>1. YearOf(from) + 1 \in Nat
    BY YearExists
  <2> QED BY <2>1, WithYearIsTyped
<1>4. From(s, ref) \in Nat \cup {Never}
  BY <1>2, <1>3 DEF From
<1> QED BY <1>1, <1>4 DEF Start, Never
-----------------------------------------------------------------------------
(* Weekdays. *)

Weekdays == 0 .. WeekLength - 1
Times == 0 .. DayLength - 1

LEMMA WeekdaysRepeat ==
  ASSUME NEW d \in Nat
  PROVE  /\ Weekday(d) \in Weekdays
         /\ Weekday(d + WeekLength) = Weekday(d)
<1> USE CalendarAssumption
<1> DEFINE q == d \div WeekLength
           r == d % WeekLength
<1>1. q \in Int /\ r \in 0 .. WeekLength - 1 /\ d = q * WeekLength + r
  BY Division
<1> HIDE DEF q, r
<1>2. d + WeekLength = (q + 1) * WeekLength + r
  BY <1>1
<1>3. (d + WeekLength) % WeekLength = r
  BY <1>1, <1>2, QuotientAndRest
<1> QED BY <1>1, <1>3 DEF Weekday, Weekdays, r

(* Between two days with the same weekday there is a week. *)
LEMMA AWeekBetween ==
  ASSUME NEW d \in Nat, NEW e \in Nat, Weekday(d) = Weekday(e), d < e
  PROVE  d + WeekLength <= e
<1> USE CalendarAssumption
<1> DEFINE q == d \div WeekLength
           p == e \div WeekLength
           r == d % WeekLength
<1>1. /\ q \in Int /\ p \in Int /\ r \in 0 .. WeekLength - 1
      /\ d = q * WeekLength + r /\ e = p * WeekLength + r
  BY Division DEF Weekday
<1> HIDE DEF q, p, r
<1>2. p >= q + 1
  <2> SUFFICES ASSUME p <= q PROVE FALSE
    BY <1>1
  <2>1. q * WeekLength >= p * WeekLength
    BY <1>1, TimesAtLeast
  <2> QED BY <1>1, <2>1
<1>3. p * WeekLength >= (q + 1) * WeekLength
  BY <1>1, <1>2, TimesAtLeast
<1> QED BY <1>1, <1>3

(* next_weekday: the first day with the weekday, from a day on. *)
LEMMA NextWeekdayIsFirst ==
  ASSUME NEW day \in Nat, NEW w \in Weekdays
  PROVE  /\ NextWeekday(day, w) \in day .. day + WeekLength - 1
         /\ Weekday(NextWeekday(day, w)) = w
         /\ \A d \in Nat : d >= day /\ Weekday(d) = w => NextWeekday(day, w) <= d
<1> USE CalendarAssumption DEF Weekdays
<1> DEFINE A == {d \in day .. day + WeekLength - 1 : Weekday(d) = w}
           q == day \div WeekLength
           r == day % WeekLength
<1>1. q \in Int /\ r \in 0 .. WeekLength - 1 /\ day = q * WeekLength + r
  BY Division
<1>2. A # {}
  <2>1. CASE w >= r
    <3>1. q * WeekLength + w \in day .. day + WeekLength - 1
      BY <1>1, <2>1
    <3>2. Weekday(q * WeekLength + w) = w
      BY <1>1, QuotientAndRest DEF Weekday
    <3> QED BY <3>1, <3>2
  <2>2. CASE w < r
    <3>1. (q + 1) * WeekLength + w \in day .. day + WeekLength - 1
      BY <1>1, <2>2
    <3>2. Weekday((q + 1) * WeekLength + w) = w
      <4> HIDE DEF q, r
      <4>1. q + 1 \in Int
        BY <1>1
      <4> QED BY <4>1, QuotientAndRest DEF Weekday
    <3> QED BY <3>1, <3>2
  <2> QED BY <1>1, <2>1, <2>2
<1>3. A \in SUBSET Nat
  OBVIOUS
<1>4. NextWeekday(day, w) = Min(A)
  BY DEF NextWeekday
<1>5. Min(A) \in A /\ \A x \in A : Min(A) <= x
  BY <1>2, <1>3, MinOf
<1>6. ASSUME NEW d \in Nat, d >= day, Weekday(d) = w
      PROVE  Min(A) <= d
  <2>1. CASE d <= day + WeekLength - 1
    BY <2>1, <1>5, <1>6
  <2>2. CASE d > day + WeekLength - 1
    BY <2>2, <1>5
  <2> QED BY <2>1, <2>2
<1> QED BY <1>4, <1>5, <1>6
-----------------------------------------------------------------------------
(* Runs. *)

LEMMA InstantIsDayAndTime ==
  ASSUME NEW t \in Nat
  PROVE  /\ Day(t) \in Nat /\ TimeOf(t) \in Times
         /\ t = Day(t) * DayLength + TimeOf(t)
<1>1. Day(t) \in Nat
  BY YearExists
<1>2. TimeOf(t) \in Times /\ t = Day(t) * DayLength + TimeOf(t)
  BY CalendarAssumption, Division DEF Day, TimeOf, Times
<1> QED BY <1>1, <1>2

LEMMA DayAndTimeAreInstant ==
  ASSUME NEW d \in Nat, NEW u \in Times
  PROVE  /\ d * DayLength + u \in Nat
         /\ Day(d * DayLength + u) = d
         /\ TimeOf(d * DayLength + u) = u
<1> USE CalendarAssumption
<1>1. d * DayLength + u \in Nat
  BY DEF Times
<1> QED BY <1>1, QuotientAndRest DEF Day, TimeOf, Times

(* A candidate is the first instant, from the start of the search on, that *)
(* has the weekday and the time of day.                                    *)
HasSlot(t, w, u) == Weekday(Day(t)) = w /\ TimeOf(t) = u

LEMMA CandidateIsFirst ==
  ASSUME NEW start \in Nat, NEW w \in Weekdays, NEW u \in Times
  PROVE  LET c == Candidate(start, w, u) IN
         /\ c \in start .. start + Week
         /\ HasSlot(c, w, u)
         /\ \A t \in Nat : t >= start /\ HasSlot(t, w, u) => c <= t
<1> USE CalendarAssumption
<1> DEFINE first == Day(start)
           n == NextWeekday(first, w)
           date == n * DayLength + u
<1>1. /\ first \in Nat
      /\ start \in first * DayLength .. first * DayLength + DayLength - 1
  BY InstantIsDayAndTime DEF Times
<1>2. /\ n \in first .. first + WeekLength - 1 /\ Weekday(n) = w
      /\ \A d \in Nat : d >= first /\ Weekday(d) = w => n <= d
  BY <1>1, NextWeekdayIsFirst
<1>3. n \in Nat /\ u \in Nat /\ u < DayLength /\ Week \in Nat /\ Week >= DayLength
  BY <1>1, <1>2 DEF Times, Week
<1> HIDE DEF n, first
<1>4. date \in Nat /\ HasSlot(date, w, u)
  BY <1>2, <1>3, DayAndTimeAreInstant DEF HasSlot
<1>5. date + Week = (n + WeekLength) * DayLength + u
  BY <1>3 DEF Week
<1>6. HasSlot(date + Week, w, u)
  <2>1. n + WeekLength \in Nat /\ Weekday(n + WeekLength) = w
    BY <1>2, <1>3, WeekdaysRepeat
  <2>2. /\ Day((n + WeekLength) * DayLength + u) = n + WeekLength
        /\ TimeOf((n + WeekLength) * DayLength + u) = u
    BY <2>1, DayAndTimeAreInstant
  <2> QED BY <1>5, <2>1, <2>2 DEF HasSlot
<1>7. Candidate(start, w, u) = IF date < start THEN date + Week ELSE date
  BY DEF Candidate, n, first
<1>8. ASSUME NEW t \in Nat, t >= start, HasSlot(t, w, u)
      PROVE  /\ date <= t
             /\ date < start => date + Week <= t
  <2> DEFINE d == Day(t)
  <2>1. d \in Nat /\ t = d * DayLength + u /\ Weekday(d) = w
    BY <1>8, InstantIsDayAndTime DEF HasSlot
  <2> HIDE DEF d
  <2>2. d >= first
    <3> SUFFICES ASSUME d < first PROVE FALSE
      BY <1>1, <2>1
    <3>1. first * DayLength >= (d + 1) * DayLength
      BY <1>1, <2>1, TimesAtLeast
    <3> QED BY <1>1, <1>3, <1>8, <2>1, <3>1
  <2>3. n <= d
    BY <1>2, <2>1, <2>2
  <2>4. d * DayLength >= n * DayLength
    BY <1>3, <2>1, <2>3, TimesAtLeast
  <2>5. date <= t
    BY <1>3, <2>1, <2>4
  <2>6. ASSUME date < start PROVE date + Week <= t
    <3>1. n < d
      BY <1>3, <1>4, <1>8, <2>1, <2>3, <2>6
    <3>2. n + WeekLength <= d
      BY <1>2, <1>3, <2>1, <3>1, AWeekBetween
    <3>3. d * DayLength >= (n + WeekLength) * DayLength
      BY <1>3, <2>1, <3>2, TimesAtLeast
    <3> QED BY <1>3, <1>5, <2>1, <3>3
  <2> QED BY <2>5, <2>6
<1>9. date + Week >= start /\ date <= start + Week
  <2>1. n * DayLength >= first * DayLength
    BY <1>1, <1>2, <1>3, TimesAtLeast
  <2>2. (first + WeekLength - 1) * DayLength >= n * DayLength
    BY <1>1, <1>2, <1>3, TimesAtLeast
  <2>3. (first + WeekLength - 1) * DayLength = first * DayLength + Week - DayLength
    BY <1>1 DEF Week
  <2> QED BY <1>1, <1>3, <1>4, <2>1, <2>2, <2>3
<1> HIDE DEF date
<1>10. CASE date < start
  BY <1>3, <1>4, <1>6, <1>7, <1>8, <1>9, <1>10
<1>11. CASE date >= start
  BY <1>3, <1>4, <1>7, <1>8, <1>9, <1>11
<1> QED BY <1>4, <1>10, <1>11
-----------------------------------------------------------------------------
(* next_run_after. *)

(* The runs the search may find. *)
InReach(s, ref, t) ==
  t \in Nat /\ t >= Start(s, ref) /\ Matches(s, t) /\ NotTooLate(t, To(s, ref))

LEMMA SlotsOf ==
  ASSUME NEW s, IsSchedule(s), NEW t \in Nat
  PROVE  Matches(s, t) <=> \E w \in s.weekdays, u \in s.times : HasSlot(t, w, u)
BY DEF Matches, HasSlot

(***************************************************************************)
(* NextRunIsFound: the answer is the first run that is within reach of the *)
(* search, and None when no run is (Schedule::next_run_after and           *)
(* next_weekday).  A loop over a week's slots is enough, whatever bounds   *)
(* the schedule has.                                                       *)
(***************************************************************************)
THEOREM NextRunIsFound ==
  ASSUME NEW s, IsSchedule(s), NEW ref \in Nat
  PROVE  LET n == NextRunAfter(s, ref) IN
         IF n = Never
         THEN \A t : ~InReach(s, ref, t)
         ELSE /\ InReach(s, ref, n)
              /\ n <= Start(s, ref) + Week
              /\ \A t : InReach(s, ref, t) => n <= t
<1> DEFINE start == Start(s, ref)
           dates == {Candidate(start, w, u) : w \in s.weekdays, u \in s.times}
           allowed == {d \in dates : NotTooLate(d, To(s, ref))}
           n == NextRunAfter(s, ref)
<1>1. start \in Nat /\ s.weekdays \subseteq Weekdays /\ s.times \subseteq Times
  BY SearchBegins DEF IsSchedule, Weekdays, Times
<1>2. n = IF allowed = {} THEN Never ELSE Min(allowed)
  BY DEF NextRunAfter
<1>3. ASSUME NEW d \in dates
      PROVE  d \in Nat /\ d >= start /\ d <= start + Week /\ Matches(s, d)
  <2>1. PICK w \in s.weekdays, u \in s.times : d = Candidate(start, w, u)
    BY <1>3
  <2>2. d \in start .. start + Week /\ HasSlot(d, w, u)
    <3> HIDE DEF start
    <3> QED BY <1>1, <2>1, CandidateIsFirst
  <2>3. d \in Nat
    BY <1>1, <2>2
  <2> QED BY <1>1, <2>2, <2>3, SlotsOf
<1>4. ASSUME NEW t, InReach(s, ref, t)
      PROVE  \E d \in allowed : d <= t
  <2>1. t \in Nat /\ t >= start /\ NotTooLate(t, To(s, ref))
    BY <1>4 DEF InReach
  <2>2. PICK w \in s.weekdays, u \in s.times : HasSlot(t, w, u)
    BY <1>4, <2>1, SlotsOf DEF InReach
  <2> DEFINE d == Candidate(start, w, u)
  <2>3. d \in dates
    OBVIOUS
  <2>4. d <= t
    <3> HIDE DEF start
    <3> QED BY <1>1, <2>1, <2>2, CandidateIsFirst
  <2>5. d \in Nat /\ To(s, ref) \in Nat \cup {Never}
    BY <1>3, <2>3, SearchBegins
  <2> HIDE DEF d, dates
  <2>6. NotTooLate(d, To(s, ref))
    BY <2>1, <2>4, <2>5 DEF NotTooLate
  <2> QED BY <2>3, <2>4, <2>6
<1> HIDE DEF dates, n
<1>5. allowed \in SUBSET Nat
  BY <1>3
<1>6. CASE allowed = {}
  <2>1. n = Never
    BY <1>2, <1>6
  <2>2. \A t : ~InReach(s, ref, t)
    BY <1>4, <1>6
  <2> QED BY <2>1, <2>2 DEF n
<1>7. CASE allowed # {}
  <2>1. n \in allowed /\ n \in Nat /\ n # Never /\ \A x \in allowed : n <= x
    BY <1>2, <1>5, <1>7, MinOf DEF Never
  <2>2. InReach(s, ref, n) /\ n <= start + Week
    BY <2>1, <1>3 DEF InReach
  <2>3. ASSUME NEW t, InReach(s, ref, t)
        PROVE  n <= t
    <3>1. PICK d \in allowed : d <= t
      BY <2>3, <1>4
    <3>2. n <= d /\ d \in Nat /\ t \in Nat
      BY <2>1, <2>3, <1>5 DEF InReach
    <3> QED BY <2>1, <3>1, <3>2
  <2> QED BY <2>1, <2>2, <2>3 DEF n
<1> QED BY <1>6, <1>7
-----------------------------------------------------------------------------
(* The clock. *)

ClockInv == sched \in Schedules /\ now \in 0 .. LastInstant

LEMMA ClockInvHolds == Spec => []ClockInv
<1>1. Init => ClockInv
  BY ScheduleClockAssumption DEF Init, ClockInv
<1>2. ClockInv /\ [Next]_vars => ClockInv'
  BY ScheduleClockAssumption DEF ClockInv, Next, Tick, ClockStops, vars
<1> QED BY <1>1, <1>2, PTL DEF Spec

LEMMA AskedAtAnInstant ==
  ASSUME ClockInv
  PROVE  IsSchedule(sched) /\ now \in Nat
BY ScheduleClockAssumption DEF ClockInv

(***************************************************************************)
(* ScheduleTypeCorrect: next_run_after always answers, with an instant or  *)
(* None: the search has a first weekday, and no bound resolves to anything *)
(* but an instant or None.                                                 *)
(***************************************************************************)
THEOREM ScheduleTypeCorrect == Spec => []TypeOK
<1>1. ClockInv => TypeOK
  <2> SUFFICES ASSUME ClockInv PROVE NextRun \in Nat \cup {Never}
    BY DEF ClockInv, TypeOK
  <2> QED BY AskedAtAnInstant, NextRunIsFound DEF NextRun, InReach
<1> QED BY <1>1, ClockInvHolds, PTL

(* Whatever the move to the next year makes of `from`, the search does not *)
(* begin earlier, unless the bound is lost.                                *)
LEMMA SearchBeginsWithinFrom ==
  ASSUME NEW s, IsSchedule(s), NEW ref \in Nat, ~FromIsLost(s, ref)
  PROVE  Start(s, ref) >= ResolveFrom(s.from, ref)
<1> DEFINE from == ResolveFrom(s.from, ref)
<1>1. from \in Nat \cup {Never} /\ To(s, ref) \in Nat \cup {Never}
  BY BoundsAreTyped, SearchBegins DEF IsSchedule
<1>2. From(s, ref) \in Nat \cup {Never} /\ Start(s, ref) \in Nat /\ Start(s, ref) >= From(s, ref)
  BY SearchBegins
<1>3. From(s, ref) = IF from # Never /\ To(s, ref) # Never /\ from < To(s, ref)
                     THEN WithYear(from, YearOf(from) + 1)
                     ELSE from
  BY DEF From
<1>4. from # Never /\ from < To(s, ref) => WithYear(from, YearOf(from) + 1) # Never
  <2> SUFFICES ASSUME from # Never, from < To(s, ref)
               PROVE  WithYear(from, YearOf(from) + 1) # Never
    OBVIOUS
  <2>1. ~(MonthDay(from) = LeapDay /\ YearOf(from) + 1 \notin LeapYears)
    BY DEF FromIsLost, To
  <2> HIDE DEF from
  <2>2. from \in Nat
    BY <1>1
  <2> DEFINE y == YearOf(from) + 1
             place == IF y \in LeapYears \/ MonthDay(from) < LeapDay
                      THEN MonthDay(from) ELSE MonthDay(from) - 1
  <2>3. WithYear(from, y) = (FirstDay(y) + place) * DayLength + TimeOf(from)
    BY <2>1 DEF WithYear
  <2>4. WithYear(from, y) \in Nat
    <3>1. y \in Nat /\ FirstDay(y) \in Nat
      BY <2>2, YearExists, FirstDays
    <3>2. MonthDay(from) \in Nat
      BY <2>2, YearExists, FirstDays DEF MonthDay
    <3>3. place \in Nat
      <4> HIDE DEF y
      <4> QED BY <2>1, <3>2, CalendarAssumption DEF y
    <3>4. TimeOf(from) \in Nat
      BY <2>2, CalendarAssumption, Division DEF TimeOf
    <3> HIDE DEF y, place
    <3> QED BY <2>3, <3>1, <3>3, <3>4, CalendarAssumption
  <2> QED BY <2>4 DEF Never
<1>5. from # Never /\ WithYear(from, YearOf(from) + 1) # Never
        => WithYear(from, YearOf(from) + 1) >= from
  BY <1>1, NextYearIsLater
<1> HIDE DEF from
<1>6. From(s, ref) = from \/ (From(s, ref) # Never /\ From(s, ref) >= from)
  BY <1>3, <1>4, <1>5
<1> QED BY <1>1, <1>2, <1>6 DEF from, Never

(***************************************************************************)
(* BoundsAreRespected: whatever its bounds, a schedule is never told to    *)
(* run in the past, at a time or on a weekday it does not have, after its  *)
(* `to` bound or before its `from` bound, unless that is a leap day lost   *)
(* on the way to the next year (the matches of next_run_after).            *)
(***************************************************************************)
THEOREM BoundsAreRespected == Spec => []NextRunRespectsBounds
<1>1. ClockInv => NextRunRespectsBounds
  <2> SUFFICES ASSUME ClockInv, NextRun # Never
               PROVE  /\ NextRun >= now
                      /\ Matches(sched, NextRun)
                      /\ NotLate(sched, NextRun, now)
                      /\ NotEarly(sched, NextRun, now) \/ FromIsLost(sched, now)
    BY DEF NextRunRespectsBounds
  <2>1. InReach(sched, now, NextRun)
    BY AskedAtAnInstant, NextRunIsFound DEF NextRun
  <2>2. Start(sched, now) \in Nat /\ Start(sched, now) >= now /\ now \in Nat
    BY AskedAtAnInstant, SearchBegins
  <2>3. NextRun >= now /\ Matches(sched, NextRun) /\ NotLate(sched, NextRun, now)
    BY <2>1, <2>2 DEF InReach, NotTooLate, NotLate, To
  <2>4. ASSUME ~FromIsLost(sched, now) PROVE NotEarly(sched, NextRun, now)
    <3>1. Start(sched, now) >= ResolveFrom(sched.from, now)
      BY <2>4, AskedAtAnInstant, SearchBeginsWithinFrom
    <3>2. ResolveFrom(sched.from, now) \in Nat \cup {Never}
      BY AskedAtAnInstant, BoundsAreTyped DEF IsSchedule
    <3>3. NextRun \in Nat /\ NextRun >= Start(sched, now)
      BY <2>1 DEF InReach
    <3> QED BY <2>2, <3>1, <3>2, <3>3 DEF NotEarly, Never
  <2> QED BY <2>3, <2>4
<1> QED BY <1>1, ClockInvHolds, PTL
-----------------------------------------------------------------------------
(* With one bound at most, what the search reaches is what the schedule    *)
(* means.                                                                  *)

LEMMA MaxOfTwo ==
  ASSUME NEW a \in Int, NEW b \in Int
  PROVE  Max({a, b}) = IF a >= b THEN a ELSE b
<1>1. \E m \in {a, b} : \A x \in {a, b} : m >= x
  OBVIOUS
<1>2. Max({a, b}) \in {a, b} /\ \A x \in {a, b} : Max({a, b}) >= x
  BY <1>1 DEF Max
<1> QED BY <1>2

LEMMA OneBoundIsResolved ==
  ASSUME NEW s, IsSchedule(s), NEW ref \in Nat, ~TwoSided(s)
  PROVE  /\ From(s, ref) = ResolveFrom(s.from, ref)
         /\ Reach(s, ref) = Start(s, ref) + Week
<1>1. From(s, ref) = ResolveFrom(s.from, ref)
  <2>1. CASE s.from.kind = "None"
    BY <2>1 DEF From, ResolveFrom
  <2>2. CASE s.to.kind = "None"
    BY <2>2 DEF From, To, ResolveFrom
  <2> QED BY <2>1, <2>2 DEF TwoSided
<1>2. From(s, ref) \in Int
  BY SearchBegins DEF Never
<1>3. Max({ref, From(s, ref)}) = Start(s, ref)
  BY <1>2, MaxOfTwo DEF Start
<1> QED BY <1>1, <1>3 DEF Reach

LEMMA ReachedRunsAreRuns ==
  ASSUME NEW s, IsSchedule(s), NEW ref \in Nat, ~TwoSided(s)
  PROVE  \A t : t \in RunsFrom(s, ref) <=> InReach(s, ref, t) /\ t <= Reach(s, ref)
<1>1. /\ From(s, ref) \in Nat \cup {Never} /\ To(s, ref) \in Nat \cup {Never}
      /\ Start(s, ref) \in Nat /\ Start(s, ref) >= ref /\ Start(s, ref) >= From(s, ref)
      /\ Start(s, ref) \in {ref, From(s, ref)}
  BY SearchBegins
<1>2. From(s, ref) = ResolveFrom(s.from, ref) /\ To(s, ref) = ResolveFrom(s.to, ref)
  BY OneBoundIsResolved DEF To
<1>3. Reach(s, ref) \in Nat
  BY <1>1, OneBoundIsResolved, CalendarAssumption DEF Week
<1>4. ASSUME NEW t \in Nat
      PROVE  Within(s, t, ref) /\ t >= ref <=> t >= Start(s, ref) /\ NotTooLate(t, To(s, ref))
  BY <1>1, <1>2 DEF Within, NotEarly, NotLate, NotTooLate, Never
<1> QED BY <1>3, <1>4 DEF RunsFrom, InReach

(***************************************************************************)
(* FirstRunIsNext: a schedule with one bound at most runs next at the      *)
(* first instant that has one of its weekdays and one of its times and is  *)
(* within the bound, or never when there is none (next_run_after,          *)
(* next_weekday and resolve_from).                                         *)
(***************************************************************************)
THEOREM FirstRunIsNext == Spec => []NextRunIsTheFirst
<1>1. ClockInv => NextRunIsTheFirst
  <2> SUFFICES ASSUME ClockInv, ~TwoSided(sched)
               PROVE  NextRun = FirstRunFrom(sched, now)
    BY DEF NextRunIsTheFirst
  <2> DEFINE runs == RunsFrom(sched, now)
  <2>1. \A t : t \in runs <=> InReach(sched, now, t) /\ t <= Start(sched, now) + Week
    BY AskedAtAnInstant, ReachedRunsAreRuns, OneBoundIsResolved
  <2>2. IF NextRun = Never
        THEN \A t : ~InReach(sched, now, t)
        ELSE /\ InReach(sched, now, NextRun)
             /\ NextRun <= Start(sched, now) + Week
             /\ \A t : InReach(sched, now, t) => NextRun <= t
    BY AskedAtAnInstant, NextRunIsFound DEF NextRun
  <2>3. runs \in SUBSET Nat
    BY <2>1 DEF InReach
  <2> HIDE DEF runs
  <2>4. CASE NextRun = Never
    BY <2>1, <2>2, <2>4 DEF FirstRunFrom, runs
  <2>5. CASE NextRun # Never
    <3>1. NextRun \in runs /\ \A t \in runs : NextRun <= t
      BY <2>1, <2>2, <2>5
    <3>2. Min(runs) = NextRun
      BY <2>3, <3>1, MinIs
    <3> QED BY <3>1, <3>2 DEF FirstRunFrom, runs
  <2> QED BY <2>4, <2>5
<1> QED BY <1>1, ClockInvHolds, PTL
-----------------------------------------------------------------------------
(* An answer that is kept. *)

(* A bound that does not repeat is the same whenever it is resolved. *)
LEMMA DefiniteBoundsStay ==
  ASSUME NEW s, IsSchedule(s), ~Repeating(s), NEW ref \in Nat, NEW later \in Nat
  PROVE  From(s, later) = From(s, ref) /\ To(s, later) = To(s, ref)
<1>1. ASSUME NEW b, IsBound(b), b.kind # "Yearly"
      PROVE  ResolveFrom(b, later) = ResolveFrom(b, ref)
  BY <1>1 DEF IsBound, ResolveFrom
<1>2. ResolveFrom(s.from, later) = ResolveFrom(s.from, ref)
      /\ ResolveFrom(s.to, later) = ResolveFrom(s.to, ref)
  BY <1>1 DEF IsSchedule, Repeating
<1> QED BY <1>2 DEF From, To

(* As time goes by the search reaches less, but only what is over. *)
LEMMA ReachShrinks ==
  ASSUME NEW s, IsSchedule(s), ~Repeating(s), NEW ref \in Nat
  PROVE  \A t : InReach(s, ref + 1, t) <=> InReach(s, ref, t) /\ t > ref
<1>1. ref + 1 \in Nat
  OBVIOUS
<1>2. From(s, ref + 1) = From(s, ref) /\ To(s, ref + 1) = To(s, ref)
  BY <1>1, DefiniteBoundsStay
<1>3. From(s, ref) \in Nat \cup {Never}
  BY SearchBegins
<1>4. ASSUME NEW t \in Nat
      PROVE  t >= Start(s, ref + 1) <=> t >= Start(s, ref) /\ t > ref
  BY <1>2, <1>3 DEF Start, Never
<1> QED BY <1>2, <1>4 DEF InReach

(***************************************************************************)
(* KeptAnswersStayRight: when no bound repeats, an answer of next_run_after*)
(* remains the answer until its time comes, and None for ever: what        *)
(* SchedRun keeps in next_run between two looks at the clock never goes    *)
(* stale.                                                                  *)
(***************************************************************************)
THEOREM KeptAnswersStayRight == Spec => AnswerStaysRight
<1>1. ClockInv /\ [Next]_vars
        => [~Repeating(sched) /\ (NextRun > now \/ NextRun = Never) => NextRun' = NextRun]_vars
  <2> SUFFICES ASSUME ClockInv, [Next]_vars, ~Repeating(sched), NextRun > now \/ NextRun = Never
               PROVE  NextRun' = NextRun
    OBVIOUS
  <2>1. CASE UNCHANGED vars
    BY <2>1 DEF vars, NextRun
  <2>2. CASE Tick
    <3> DEFINE n == NextRunAfter(sched, now)
               m == NextRunAfter(sched, now + 1)
    <3>1. IsSchedule(sched) /\ now \in Nat /\ now + 1 \in Nat
      BY AskedAtAnInstant
    <3>2. NextRun = n /\ NextRun' = m
      BY <2>2 DEF NextRun, Tick
    <3>3. \A t : InReach(sched, now + 1, t) <=> InReach(sched, now, t) /\ t > now
      BY <3>1, ReachShrinks
    <3>4. IF n = Never
          THEN \A t : ~InReach(sched, now, t)
          ELSE InReach(sched, now, n) /\ \A t : InReach(sched, now, t) => n <= t
      BY <3>1, NextRunIsFound
    <3>5. IF m = Never
          THEN \A t : ~InReach(sched, now + 1, t)
          ELSE InReach(sched, now + 1, m) /\ \A t : InReach(sched, now + 1, t) => m <= t
      BY <3>1, NextRunIsFound
    <3> HIDE DEF n, m
    <3>6. CASE n = Never
      BY <3>2, <3>3, <3>4, <3>5, <3>6
    <3>7. CASE n # Never
      <4>1. InReach(sched, now + 1, n)
        BY <3>2, <3>3, <3>4, <3>7
      <4>2. InReach(sched, now, m) /\ m <= n /\ n <= m
        BY <3>3, <3>4, <3>5, <3>7, <4>1
      <4>3. n \in Nat /\ m \in Nat
        BY <3>4, <3>7, <4>2 DEF InReach
      <4> QED BY <3>2, <4>2, <4>3
    <3> QED BY <3>6, <3>7
  <2> QED BY <2>1, <2>2 DEF Next, ClockStops
<1> QED BY <1>1, ClockInvHolds, PTL DEF Spec, AnswerStaysRight
=============================================================================
