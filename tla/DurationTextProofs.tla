------------------------- MODULE DurationTextProofs -------------------------
(***************************************************************************)
(* Proofs about durations as text, for units of any length, integers of    *)
(* any width, and texts of any length.  The sums over a text and the       *)
(* digits of a number are recursive functions, and what they compute is    *)
(* proved by induction: the sets of the numbers, or of the finite sets,    *)
(* for which it holds take the place of predicates.                        *)
(***************************************************************************)
EXTENDS DurationText, FiniteSetTheorems, SequenceTheorems, TLAPS

Facts == INSTANCE IndexMapFacts   \* for LeastOf
-----------------------------------------------------------------------------
(* Induction. *)

LEMMA NumbersInduct ==
  ASSUME NEW C, \A n \in Nat : (\A k \in Nat : k < n => k \in C) => n \in C
  PROVE  \A n \in Nat : n \in C
<1> DEFINE bad == {n \in Nat : n \notin C}
<1>1. CASE bad = {}
  BY <1>1
<1>2. CASE bad # {}
  <2>1. PICK n \in bad : \A k \in bad : n <= k
    BY <1>2, Facts!LeastOf
  <2> QED BY <2>1
<1> QED BY <1>1, <1>2

LEMMA FiniteSetsInduct ==
  ASSUME NEW S, IsFiniteSet(S), NEW C, {} \in C,
         \A T \in SUBSET S : \A x \in S \ T : T \in C => T \cup {x} \in C
  PROVE  S \in C
<1> DEFINE D == {n \in Nat : \A T \in SUBSET S : Cardinality(T) = n => T \in C}
<1>1. ASSUME NEW n \in Nat, \A k \in Nat : k < n => k \in D
      PROVE  n \in D
  <2> SUFFICES ASSUME NEW T \in SUBSET S, Cardinality(T) = n
               PROVE  T \in C
    OBVIOUS
  <2>1. IsFiniteSet(T)
    BY FS_Subset
  <2>2. CASE T = {}
    BY <2>2
  <2>3. CASE T # {}
    <3>1. PICK x \in T : TRUE
      BY <2>3
    <3>2. Cardinality(T \ {x}) = n - 1 /\ n - 1 \in Nat
      <4>1. IsFiniteSet(T \ {x}) /\ Cardinality(T \ {x}) = Cardinality(T) - 1
        BY <2>1, <3>1, FS_RemoveElement
      <4>2. Cardinality(T \ {x}) \in Nat
        BY <4>1, FS_CardinalityType
      <4> QED BY <4>1, <4>2
    <3>3. n - 1 \in D
      BY <1>1, <3>2
    <3>4. T \ {x} \in C
      BY <3>2, <3>3
    <3>5. T = (T \ {x}) \cup {x} /\ x \in S \ (T \ {x}) /\ T \ {x} \in SUBSET S
      OBVIOUS
    <3> QED BY <3>4, <3>5
  <2> QED BY <2>2, <2>3
<1> HIDE DEF D
<1>2. \A n \in Nat : n \in D
  BY <1>1, NumbersInduct
<1>3. Cardinality(S) \in D
  BY <1>2, FS_CardinalityType
<1> QED BY <1>3 DEF D
-----------------------------------------------------------------------------
(* Sums.  SumFunctionOnSet takes the elements one by one, in an order of   *)
(* its own; the order makes no difference.                                 *)

Picked(s) == CHOOSE x \in s : TRUE

SumsUp(f, g, s) ==
  g[s] = IF s = {} THEN 0 ELSE f[Picked(s)] + g[s \ {Picked(s)}]

Sums(f, g, S) == g \in [SUBSET S -> Int] /\ \A s \in SUBSET S : SumsUp(f, g, s)

Whole(f, S) == \A x \in S : f[x] \in Int

LEMMA SumExists ==
  ASSUME NEW S, IsFiniteSet(S), NEW f, Whole(f, S)
  PROVE  \E g : Sums(f, g, S)
<1> USE DEF Whole
<1> DEFINE Upto(g, n) == \A s \in SUBSET S : Cardinality(s) < n => SumsUp(f, g, s)
           C == {n \in Nat : \E g \in [SUBSET S -> Int] : Upto(g, n)}
<1>1. \A s \in SUBSET S : IsFiniteSet(s) /\ Cardinality(s) \in Nat /\ Cardinality(s) <= Cardinality(S)
  BY FS_Subset, FS_CardinalityType
<1>2. ASSUME NEW n \in Nat, \A k \in Nat : k < n => k \in C
      PROVE  n \in C
  <2>1. CASE n = 0
    <3>1. [s \in SUBSET S |-> 0] \in [SUBSET S -> Int]
      OBVIOUS
    <3>2. \A s \in SUBSET S : ~(Cardinality(s) < 0)
      BY <1>1
    <3> QED BY <2>1, <3>1, <3>2
  <2>2. CASE n # 0
    <3>1. n - 1 \in C
      <4> HIDE DEF C
      <4> QED BY <1>2, <2>2
    <3>2. PICK g \in [SUBSET S -> Int] : Upto(g, n - 1)
      BY <3>1
    <3> DEFINE h == [s \in SUBSET S |->
                       IF s = {} THEN 0 ELSE f[Picked(s)] + g[s \ {Picked(s)}]]
    <3>3. \A s \in SUBSET S : s # {} =>
            /\ Picked(s) \in s
            /\ Cardinality(s \ {Picked(s)}) = Cardinality(s) - 1
            /\ s \ {Picked(s)} \in SUBSET S
      BY <1>1, FS_RemoveElement DEF Picked
    <3>4. h \in [SUBSET S -> Int]
      BY <3>3
    <3>5. ASSUME NEW s \in SUBSET S, Cardinality(s) < n
          PROVE  SumsUp(f, h, s)
      <4>1. CASE s = {}
        BY <4>1 DEF SumsUp
      <4>2. CASE s # {}
        <5> DEFINE t == s \ {Picked(s)}
        <5>1. t \in SUBSET S /\ Cardinality(t) < n - 1
          BY <1>1, <3>3, <3>5, <4>2
        <5>2. g[t] = h[t]
          BY <3>2, <5>1 DEF SumsUp
        <5> QED BY <4>2, <5>2 DEF SumsUp
      <4> QED BY <4>1, <4>2
    <3> QED BY <3>4, <3>5
  <2> QED BY <2>1, <2>2
<1> HIDE DEF C
<1>3. \A n \in Nat : n \in C
  BY <1>2, NumbersInduct
<1>4. Cardinality(S) + 1 \in C
  BY <1>1, <1>3
<1>5. PICK g \in [SUBSET S -> Int] : Upto(g, Cardinality(S) + 1)
  BY <1>4 DEF C
<1> QED BY <1>1, <1>5 DEF Sums

LEMMA SumIterates ==
  ASSUME NEW S, IsFiniteSet(S), NEW f, Whole(f, S)
  PROVE  \E g : Sums(f, g, S) /\ SumFunctionOnSet(f, S) = g[S]
<1> DEFINE Iter(g) ==
      g = [s \in SUBSET S |-> IF s = {} THEN 0 ELSE f[Picked(s)] + g[s \ {Picked(s)}]]
    g == CHOOSE g : Iter(g)
<1>1. PICK h \in [SUBSET S -> Int] : \A s \in SUBSET S : SumsUp(f, h, s)
  BY SumExists DEF Sums
<1>2. Iter(h)
  BY <1>1 DEF SumsUp
<1>3. Iter(g)
  BY <1>2
<1>4. SumFunctionOnSet(f, S) = g[S]
  BY DEF SumFunctionOnSet, FoldFunctionOnSet, MapThenFoldSet, Picked
<1> HIDE DEF g
<1>5. \A s \in SUBSET S : SumsUp(f, g, s)
  BY <1>3 DEF SumsUp
<1>6. g \in [SUBSET S -> Int]
  <2> DEFINE D == {n \in Nat : \A s \in SUBSET S : Cardinality(s) = n => g[s] = h[s]}
  <2>1. \A s \in SUBSET S : IsFiniteSet(s) /\ Cardinality(s) \in Nat
    BY FS_Subset, FS_CardinalityType
  <2>2. ASSUME NEW n \in Nat, \A k \in Nat : k < n => k \in D
        PROVE  n \in D
    <3> SUFFICES ASSUME NEW s \in SUBSET S, Cardinality(s) = n
                 PROVE  g[s] = h[s]
      OBVIOUS
    <3>1. CASE s = {}
      BY <1>1, <1>5, <3>1 DEF SumsUp
    <3>2. CASE s # {}
      <4> DEFINE t == s \ {Picked(s)}
      <4>1. t \in SUBSET S /\ Cardinality(t) = n - 1 /\ Cardinality(t) \in Nat
        BY <2>1, <3>2, FS_RemoveElement DEF Picked
      <4>2. g[t] = h[t]
        BY <2>2, <4>1
      <4> QED BY <1>1, <1>5, <3>2, <4>2 DEF SumsUp
    <3> QED BY <3>1, <3>2
  <2> HIDE DEF D
  <2>3. \A n \in Nat : n \in D
    BY <2>2, NumbersInduct
  <2>4. \A s \in SUBSET S : g[s] = h[s]
    BY <2>1, <2>3 DEF D
  <2> QED BY <1>3, <2>4
<1> QED BY <1>4, <1>5, <1>6 DEF Sums

LEMMA PickedFromFinite ==
  ASSUME NEW s, IsFiniteSet(s), NEW x \in s
  PROVE  /\ Picked(s) \in s
         /\ IsFiniteSet(s \ {x}) /\ Cardinality(s) \in Nat
         /\ Cardinality(s \ {x}) = Cardinality(s) - 1 /\ Cardinality(s \ {x}) \in Nat
<1>1. IsFiniteSet(s \ {x}) /\ Cardinality(s \ {x}) = Cardinality(s) - 1
  BY FS_RemoveElement
<1> QED BY <1>1, FS_CardinalityType DEF Picked

(* Whatever element is taken first. *)
InAnyOrder(f, g, s) == \A x \in s : g[s] = f[x] + g[s \ {x}]

LEMMA AnyFirst ==
  ASSUME NEW S, IsFiniteSet(S), NEW f, Whole(f, S),
         NEW g, Sums(f, g, S)
  PROVE  \A s \in SUBSET S : InAnyOrder(f, g, s)
<1> USE DEF Sums, Whole
<1> DEFINE D == {n \in Nat : \A s \in SUBSET S : Cardinality(s) = n => InAnyOrder(f, g, s)}
<1>1. \A s \in SUBSET S : IsFiniteSet(s) /\ Cardinality(s) \in Nat
  BY FS_Subset, FS_CardinalityType
<1>2. ASSUME NEW n \in Nat, \A k \in Nat : k < n => k \in D
      PROVE  n \in D
  <2> SUFFICES ASSUME NEW s \in SUBSET S, Cardinality(s) = n, NEW x \in s
               PROVE  g[s] = f[x] + g[s \ {x}]
    BY DEF InAnyOrder
  <2> DEFINE y == Picked(s)
  <2>1. y \in s /\ g[s] = f[y] + g[s \ {y}]
    BY <1>1, PickedFromFinite DEF SumsUp
  <2>2. CASE x = y
    BY <2>1, <2>2
  <2>3. CASE x # y
    <3> HIDE DEF y
    <3>1. /\ s \ {x} \in SUBSET S /\ y \in s \ {x}
          /\ s \ {y} \in SUBSET S /\ x \in s \ {y}
          /\ (s \ {x}) \ {y} = (s \ {y}) \ {x}
          /\ (s \ {x}) \ {y} \in SUBSET S
      BY <2>1, <2>3
    <3>2. /\ Cardinality(s \ {x}) = n - 1 /\ Cardinality(s \ {y}) = n - 1
          /\ n - 1 \in Nat
      BY <1>1, <2>1, PickedFromFinite
    <3>3. n - 1 \in D
      <4> HIDE DEF D
      <4> QED BY <1>2, <3>2
    <3>4. InAnyOrder(f, g, s \ {x}) /\ InAnyOrder(f, g, s \ {y})
      BY <3>1, <3>2, <3>3
    <3> DEFINE rest == g[(s \ {x}) \ {y}]
    <3>5. g[s \ {x}] = f[y] + rest /\ g[s \ {y}] = f[x] + rest
      BY <3>1, <3>4 DEF InAnyOrder
    <3>6. f[x] \in Int /\ f[y] \in Int /\ rest \in Int
      BY <2>1, <3>1
    <3> HIDE DEF rest, D
    <3> QED BY <2>1, <3>5, <3>6
  <2> QED BY <2>2, <2>3
<1> HIDE DEF D
<1>3. \A n \in Nat : n \in D
  BY <1>2, NumbersInduct
<1> QED BY <1>1, <1>3 DEF D

LEMMA SumOfNone == \A f : SumFunctionOnSet(f, {}) = 0
<1> SUFFICES ASSUME NEW f PROVE SumFunctionOnSet(f, {}) = 0
  OBVIOUS
<1>1. PICK g : Sums(f, g, {}) /\ SumFunctionOnSet(f, {}) = g[{}]
  BY SumIterates, FS_EmptySet DEF Whole
<1> QED BY <1>1 DEF Sums, SumsUp

(* A sum over part of a set. *)
LEMMA SumOfPart ==
  ASSUME NEW S, IsFiniteSet(S), NEW f, Whole(f, S),
         NEW g, Sums(f, g, S),
         NEW T \in SUBSET S
  PROVE  SumFunctionOnSet(f, T) = g[T]
<1>1. IsFiniteSet(T) /\ Whole(f, T)
  BY FS_Subset DEF Whole
<1>2. PICK h : Sums(f, h, T) /\ SumFunctionOnSet(f, T) = h[T]
  BY <1>1, SumIterates
<1> DEFINE C == {s \in SUBSET T : g[s] = h[s]}
<1>3. {} \in C
  BY <1>2 DEF Sums, SumsUp
<1>4. ASSUME NEW s \in SUBSET T, NEW x \in T \ s, s \in C
      PROVE  s \cup {x} \in C
  <2>1. s \cup {x} \in SUBSET T /\ s \cup {x} \in SUBSET S /\ (s \cup {x}) \ {x} = s
    OBVIOUS
  <2>2. InAnyOrder(f, g, s \cup {x})
    BY <2>1, AnyFirst
  <2>3. InAnyOrder(f, h, s \cup {x})
    BY <1>1, <1>2, <2>1, AnyFirst
  <2>4. g[s \cup {x}] = f[x] + g[s] /\ h[s \cup {x}] = f[x] + h[s]
    BY <2>1, <2>2, <2>3 DEF InAnyOrder
  <2> QED BY <1>4, <2>1, <2>4
<1> HIDE DEF C
<1>5. T \in C
  BY <1>1, <1>3, <1>4, FiniteSetsInduct
<1> QED BY <1>2, <1>5 DEF C

LEMMA SumOfOneMore ==
  ASSUME NEW S, IsFiniteSet(S), NEW x, x \notin S,
         NEW f, Whole(f, S \cup {x})
  PROVE  /\ SumFunctionOnSet(f, S \cup {x}) = f[x] + SumFunctionOnSet(f, S)
         /\ SumFunctionOnSet(f, S) \in Int
<1> DEFINE T == S \cup {x}
<1>1. IsFiniteSet(T)
  BY FS_AddElement
<1>2. S \in SUBSET T /\ T \in SUBSET T /\ T \ {x} = S /\ x \in T /\ Whole(f, T)
  OBVIOUS
<1>3. f[x] \in Int
  BY DEF Whole
<1> HIDE DEF T
<1>4. PICK g : Sums(f, g, T)
  BY <1>1, <1>2, SumExists
<1>5. SumFunctionOnSet(f, T) = g[T] /\ SumFunctionOnSet(f, S) = g[S]
  BY <1>1, <1>2, <1>4, SumOfPart
<1>6. g[T] = f[x] + g[S]
  <2>1. InAnyOrder(f, g, T)
    BY <1>1, <1>2, <1>4, AnyFirst
  <2> QED BY <1>2, <2>1 DEF InAnyOrder
<1>7. g[S] \in Int
  BY <1>2, <1>4 DEF Sums
<1> QED BY <1>5, <1>6, <1>7 DEF T

LEMMA SumTyped ==
  ASSUME NEW S, IsFiniteSet(S), NEW f, Whole(f, S)
  PROVE  SumFunctionOnSet(f, S) \in Int
<1>1. PICK g : Sums(f, g, S) /\ SumFunctionOnSet(f, S) = g[S]
  BY SumIterates
<1> QED BY <1>1 DEF Sums

(* A factor, which may be one: functions that agree have the same sum. *)
LEMMA SumTimes ==
  ASSUME NEW S, IsFiniteSet(S), NEW f, Whole(f, S),
         NEW c \in Int, NEW g, \A x \in S : g[x] = c * f[x]
  PROVE  SumFunctionOnSet(g, S) = c * SumFunctionOnSet(f, S)
<1> DEFINE Sum(h, s) == SumFunctionOnSet(h, s)
           C == {s \in SUBSET S : Sum(g, s) = c * Sum(f, s)}
<1>1. {} \in C
  BY SumOfNone
<1>2. ASSUME NEW s \in SUBSET S, NEW x \in S \ s, s \in C
      PROVE  s \cup {x} \in C
  <2>1. IsFiniteSet(s) /\ x \notin s
    BY FS_Subset
  <2>2. Whole(f, s \cup {x}) /\ Whole(g, s \cup {x})
    BY DEF Whole
  <2>3. /\ Sum(f, s \cup {x}) = f[x] + Sum(f, s)
        /\ Sum(f, s) \in Int
    BY <2>1, <2>2, SumOfOneMore
  <2>4. /\ Sum(g, s \cup {x}) = g[x] + Sum(g, s)
        /\ Sum(g, s) \in Int
    BY <2>1, <2>2, SumOfOneMore
  <2>5. Sum(g, s) = c * Sum(f, s) /\ g[x] = c * f[x] /\ f[x] \in Int
    BY <1>2 DEF Whole
  <2> HIDE DEF Sum
  <2>6. c * (f[x] + Sum(f, s)) = c * f[x] + c * Sum(f, s)
    BY <2>3, <2>5
  <2>7. Sum(g, s \cup {x}) = c * Sum(f, s \cup {x})
    BY <2>3, <2>4, <2>5, <2>6
  <2> QED BY <2>7
<1> HIDE DEF C
<1>3. S \in C
  BY <1>1, <1>2, FiniteSetsInduct
<1> QED BY <1>3 DEF C

LEMMA SumOfNaturals ==
  ASSUME NEW S, IsFiniteSet(S), NEW f, \A x \in S : f[x] \in Nat, NEW T \in SUBSET S
  PROVE  /\ SumFunctionOnSet(f, S) \in Nat
         /\ SumFunctionOnSet(f, T) \in Nat
         /\ SumFunctionOnSet(f, T) <= SumFunctionOnSet(f, S)
<1> DEFINE Sum(s) == SumFunctionOnSet(f, s)
<1>1. ASSUME NEW A, NEW B, A \in SUBSET S, B \in SUBSET S, A \cap B = {}, Sum(A) \in Nat
      PROVE  Sum(A \cup B) \in Nat /\ Sum(A \cup B) >= Sum(A)
  <2> DEFINE C == {s \in SUBSET B : Sum(A \cup s) \in Nat /\ Sum(A \cup s) >= Sum(A)}
  <2>1. {} \in C
    <3>1. A \cup {} = A
      OBVIOUS
    <3> HIDE DEF Sum
    <3> QED BY <1>1, <3>1
  <2>2. ASSUME NEW s \in SUBSET B, NEW x \in B \ s, s \in C
        PROVE  s \cup {x} \in C
    <3>1. /\ A \cup s \in SUBSET S /\ x \notin A \cup s /\ x \in S
          /\ A \cup (s \cup {x}) = (A \cup s) \cup {x}
      BY <1>1
    <3>2. IsFiniteSet(A \cup s) /\ Whole(f, (A \cup s) \cup {x})
      BY <3>1, FS_Subset DEF Whole
    <3>3. Sum((A \cup s) \cup {x}) = f[x] + Sum(A \cup s)
      BY <3>1, <3>2, SumOfOneMore
    <3>4. f[x] \in Nat /\ Sum(A \cup s) \in Nat /\ Sum(A \cup s) >= Sum(A)
      BY <2>2, <3>1
    <3> HIDE DEF Sum
    <3>5. Sum(A \cup (s \cup {x})) = f[x] + Sum(A \cup s)
      BY <3>1, <3>3
    <3>6. Sum(A \cup (s \cup {x})) \in Nat /\ Sum(A \cup (s \cup {x})) >= Sum(A)
      BY <1>1, <3>4, <3>5
    <3> QED BY <3>6
  <2>3. IsFiniteSet(B)
    BY <1>1, FS_Subset
  <2> HIDE DEF C
  <2>4. B \in C
    BY <2>1, <2>2, <2>3, FiniteSetsInduct
  <2> QED BY <2>4 DEF C
<1>2. Sum({}) = 0 /\ {} \cup T = T /\ {} \in SUBSET S /\ {} \cap T = {}
  BY SumOfNone
<1>3. T \cup (S \ T) = S /\ T \cap (S \ T) = {} /\ S \ T \in SUBSET S
  OBVIOUS
<1> HIDE DEF Sum
<1>4. Sum(T) \in Nat
  BY <1>1, <1>2
<1>5. Sum(S) \in Nat /\ Sum(S) >= Sum(T)
  BY <1>1, <1>3, <1>4
<1>6. Sum(T) <= Sum(S)
  BY <1>4, <1>5
<1> QED BY <1>4, <1>5, <1>6 DEF Sum
-----------------------------------------------------------------------------
(* Recursion on a smaller number. *)

RecursAt(g, first, step, back, n) ==
  g[n] = IF n \in DOMAIN first THEN first[n] ELSE step[n][g[back[n]]]

Recurs(g, D, V, first, step, back, m) ==
  g \in [D -> V] /\ \A n \in D : n <= m => RecursAt(g, first, step, back, n)

Founded(D, V, first, step, back) ==
  /\ \A n \in D : n \in Nat
  /\ \A n \in D \cap DOMAIN first : first[n] \in V
  /\ \A n \in D \ DOMAIN first :
       step[n] \in [V -> V] /\ back[n] \in D /\ back[n] < n

LEMMA FoundedBack ==
  ASSUME NEW D, NEW V, NEW first, NEW step, NEW back,
         Founded(D, V, first, step, back), NEW n \in D \ DOMAIN first
  PROVE  /\ n \in Nat /\ back[n] \in D /\ back[n] \in Nat
         /\ \A m \in Nat : n <= m => back[n] < n /\ back[n] < m /\ back[n] <= m
<1>1. n \in Nat /\ back[n] \in D /\ back[n] < n
  BY DEF Founded
<1>2. back[n] \in Nat
  BY <1>1 DEF Founded
<1>3. ASSUME NEW b \in Nat, NEW k \in Nat, NEW m \in Nat, b < k, k <= m
      PROVE  b < m /\ b <= m
  BY <1>3
<1> QED BY <1>1, <1>2, <1>3

LEMMA RecursionAgrees ==
  ASSUME NEW D \in SUBSET Nat, NEW V, NEW first, NEW step, NEW back,
         Founded(D, V, first, step, back),
         NEW m \in D,
         NEW g, Recurs(g, D, V, first, step, back, m),
         NEW h, Recurs(h, D, V, first, step, back, m)
  PROVE  g[m] = h[m]
<1> DEFINE C == {n \in Nat : n \in D /\ n <= m => g[n] = h[n]}
<1>1. ASSUME NEW n \in Nat, \A k \in Nat : k < n => k \in C
      PROVE  n \in C
  <2> SUFFICES ASSUME n \in D, n <= m PROVE g[n] = h[n]
    OBVIOUS
  <2>1. RecursAt(g, first, step, back, n) /\ RecursAt(h, first, step, back, n)
    BY DEF Recurs
  <2>2. CASE n \in DOMAIN first
    BY <2>1, <2>2 DEF RecursAt
  <2>3. CASE n \notin DOMAIN first
    <3>1. back[n] \in D /\ back[n] < n /\ back[n] <= m /\ back[n] \in Nat
      BY <2>3, FoundedBack
    <3>2. g[back[n]] = h[back[n]]
      BY <1>1, <3>1
    <3> QED BY <2>1, <2>3, <3>2 DEF RecursAt
  <2> QED BY <2>2, <2>3
<1> HIDE DEF C
<1>2. m \in C
  BY <1>1, NumbersInduct
<1> QED BY <1>2 DEF C

LEMMA RecursionReaches ==
  ASSUME NEW D \in SUBSET Nat, NEW V, NEW first, NEW step, NEW back,
         Founded(D, V, first, step, back), NEW v \in V
  PROVE  \A n \in Nat : \E g : Recurs(g, D, V, first, step, back, n)
<1> DEFINE C == {n \in Nat : \E g : Recurs(g, D, V, first, step, back, n)}
           Last(n, g) == [k \in D |-> IF k \in DOMAIN first THEN first[k]
                                      ELSE IF k = n THEN step[k][g[back[k]]] ELSE g[k]]
<1>1. ASSUME NEW n \in Nat, \A k \in Nat : k < n => k \in C
      PROVE  n \in C
  <2>1. PICK g : g \in [D -> V] /\ \A k \in D : k < n => RecursAt(g, first, step, back, k)
    <3>1. CASE n = 0
      <4> DEFINE g == [k \in D |-> v]
      <4>1. g \in [D -> V] /\ \A k \in D : ~(k < 0)
        OBVIOUS
      <4> HIDE DEF g
      <4> QED BY <3>1, <4>1
    <3>2. CASE n # 0
      <4>1. n - 1 \in C
        <5> HIDE DEF C
        <5> QED BY <1>1, <3>2
      <4>2. PICK g : Recurs(g, D, V, first, step, back, n - 1)
        BY <4>1
      <4>3. \A k \in D : k < n => k <= n - 1
        OBVIOUS
      <4> QED BY <4>2, <4>3 DEF Recurs
    <3> QED BY <3>1, <3>2
  <2> DEFINE h == Last(n, g)
  <2>2. h \in [D -> V]
    BY <2>1 DEF Founded
  <2>3. ASSUME NEW k \in D, k <= n
        PROVE  RecursAt(h, first, step, back, k)
    <3>1. CASE k \in DOMAIN first
      BY <3>1 DEF RecursAt
    <3>2. CASE k \notin DOMAIN first
      <4>1. back[k] \in D /\ back[k] < k /\ back[k] # n
        BY <2>3, <3>2, FoundedBack
      <4>2. h[back[k]] = g[back[k]]
        <5>1. CASE back[k] \in DOMAIN first
          <6>1. RecursAt(g, first, step, back, back[k])
            BY <2>1, <2>3, <3>2, <4>1, FoundedBack
          <6> QED BY <4>1, <5>1, <6>1 DEF RecursAt
        <5>2. CASE back[k] \notin DOMAIN first
          BY <4>1, <5>2
        <5> QED BY <5>1, <5>2
      <4>3. h[k] = step[k][g[back[k]]]
        <5>1. CASE k = n
          BY <3>2, <5>1
        <5>2. CASE k # n
          <6>1. RecursAt(g, first, step, back, k)
            BY <2>1, <2>3, <5>2
          <6> QED BY <3>2, <5>2, <6>1 DEF RecursAt
        <5> QED BY <5>1, <5>2
      <4> QED BY <3>2, <4>2, <4>3 DEF RecursAt
    <3> QED BY <3>1, <3>2
  <2> HIDE DEF h
  <2>4. Recurs(h, D, V, first, step, back, n)
    BY <2>2, <2>3 DEF Recurs
  <2> QED BY <2>4
<1> HIDE DEF C
<1>2. \A n \in Nat : n \in C
  BY <1>1, NumbersInduct
<1> QED BY <1>2 DEF C

LEMMA Recursion ==
  ASSUME NEW D \in SUBSET Nat, NEW V, NEW first, NEW step, NEW back,
         Founded(D, V, first, step, back), NEW v \in V
  PROVE  \E g \in [D -> V] : \A n \in D : RecursAt(g, first, step, back, n)
<1> DEFINE Upto(n) == CHOOSE g : Recurs(g, D, V, first, step, back, n)
           F == [n \in D |-> Upto(n)[n]]
<1>1. \A n \in D : Recurs(Upto(n), D, V, first, step, back, n)
  BY RecursionReaches
<1> HIDE DEF Upto
<1>2. ASSUME NEW n \in D
      PROVE  F[n] \in V /\ RecursAt(F, first, step, back, n)
  <2>1. Upto(n) \in [D -> V] /\ RecursAt(Upto(n), first, step, back, n)
    BY <1>1 DEF Recurs
  <2>2. CASE n \in DOMAIN first
    BY <2>1, <2>2 DEF RecursAt
  <2>3. CASE n \notin DOMAIN first
    <3>1. back[n] \in D /\ back[n] <= n /\ back[n] \in Nat
      BY <2>3, FoundedBack
    <3>2. Recurs(Upto(n), D, V, first, step, back, back[n])
      <4>1. ASSUME NEW k \in D, k <= back[n]
            PROVE  k <= n
        <5>1. k \in Nat /\ back[n] \in Nat /\ n \in Nat
          BY <3>1
        <5> HIDE DEF F
        <5> QED BY <3>1, <4>1, <5>1
      <4> QED BY <1>1, <4>1 DEF Recurs
    <3>3. Upto(n)[back[n]] = Upto(back[n])[back[n]]
      BY <1>1, <3>1, <3>2, RecursionAgrees
    <3>4. F[back[n]] = Upto(n)[back[n]] /\ F[n] = Upto(n)[n]
      BY <3>1, <3>3
    <3> HIDE DEF F
    <3> QED BY <2>1, <2>3, <3>4 DEF RecursAt
  <2> QED BY <2>2, <2>3
<1>3. F \in [D -> V]
  BY <1>2
<1> HIDE DEF F
<1> QED BY <1>2, <1>3
-----------------------------------------------------------------------------
(* Powers and digits. *)

LEMMA PowersOfTen ==
  /\ PowerOfTen[0] = 1
  /\ \A n \in Nat : PowerOfTen[n] \in Nat /\ PowerOfTen[n + 1] = 10 * PowerOfTen[n]
<1> DEFINE first == [n \in {0} |-> 1]
           step == [n \in Nat |-> [v \in Nat |-> 10 * v]]
           back == [n \in Nat |-> n - 1]
           Iter(f) == f = [n \in Nat |-> IF n = 0 THEN 1 ELSE 10 * f[n - 1]]
<1>1. Founded(Nat, Nat, first, step, back) /\ 0 \in Nat /\ Nat \in SUBSET Nat
  BY DEF Founded
<1>2. ASSUME NEW g \in [Nat -> Nat], NEW n \in Nat, RecursAt(g, first, step, back, n)
      PROVE  g[n] = IF n = 0 THEN 1 ELSE 10 * g[n - 1]
  BY <1>2 DEF RecursAt
<1> HIDE DEF first, step, back
<1>3. PICK g \in [Nat -> Nat] : \A n \in Nat : RecursAt(g, first, step, back, n)
  BY <1>1, Recursion
<1>4. Iter(g)
  BY <1>2, <1>3
<1>5. Iter(PowerOfTen)
  BY <1>4 DEF PowerOfTen
<1>6. \A n \in Nat : PowerOfTen[n] \in Nat
  <2> DEFINE C == {n \in Nat : PowerOfTen[n] \in Nat}
  <2>1. ASSUME NEW n \in Nat, \A k \in Nat : k < n => k \in C
        PROVE  n \in C
    <3>1. CASE n = 0
      BY <1>5, <3>1
    <3>2. CASE n # 0
      <4>1. n - 1 \in C
        <5> HIDE DEF C
        <5> QED BY <2>1, <3>2
      <4> QED BY <1>5, <3>2, <4>1
    <3> QED BY <3>1, <3>2
  <2> HIDE DEF C
  <2>2. \A n \in Nat : n \in C
    BY <2>1, NumbersInduct
  <2> QED BY <2>2 DEF C
<1> QED BY <1>5, <1>6

Numerals == {"0", "1", "2", "3", "4", "5", "6", "7", "8", "9"}
Alphabet == Numerals \cup {"w", "d", "h", "m", "s", "u", "n", "-"}

LEMMA DigitsAre == \A n \in 0 .. 9 : Digits[n + 1] \in Numerals /\ Digits[n + 1] \in Alphabet
<1>1. /\ Digits[1] = "0" /\ Digits[2] = "1" /\ Digits[3] = "2" /\ Digits[4] = "3"
      /\ Digits[5] = "4" /\ Digits[6] = "5" /\ Digits[7] = "6" /\ Digits[8] = "7"
      /\ Digits[9] = "8" /\ Digits[10] = "9"
  BY DEF Digits
<1>2. \A n \in 0 .. 9 : n + 1 \in 1 .. 10
  OBVIOUS
<1>3. \A i \in 1 .. 10 : \/ i = 1 \/ i = 2 \/ i = 3 \/ i = 4 \/ i = 5
                        \/ i = 6 \/ i = 7 \/ i = 8 \/ i = 9 \/ i = 10
  OBVIOUS
<1>4. \A i \in 1 .. 10 : Digits[i] \in Numerals
  <2> SUFFICES ASSUME NEW i \in 1 .. 10 PROVE Digits[i] \in Numerals
    OBVIOUS
  <2> QED BY <1>1, <1>3, Zenon DEF Numerals
<1> QED BY <1>2, <1>4 DEF Alphabet

LEMMA DigitsCount ==
  /\ \A c : IsDigit(c) =>
       /\ DigitValue(c) \in 0 .. 9 /\ Digits[DigitValue(c) + 1] = c
       /\ c # " " /\ c \notin {"w", "d", "h", "m", "s", "u", "n", "-"}
  /\ \A n \in 0 .. 9 : IsDigit(Digits[n + 1]) /\ DigitValue(Digits[n + 1]) = n
<1>1. DOMAIN Digits = 1 .. 10
  BY DEF Digits
<1>2. ASSUME NEW c, IsDigit(c)
      PROVE  \E n \in 0 .. 9 : Digits[n + 1] = c
  <2>1. PICK i \in 1 .. 10 : Digits[i] = c
    BY <1>1, <1>2 DEF IsDigit, Range
  <2>2. i - 1 \in 0 .. 9 /\ (i - 1) + 1 = i
    OBVIOUS
  <2> QED BY <2>1, <2>2
<1>3. ASSUME NEW c, IsDigit(c)
      PROVE  DigitValue(c) \in 0 .. 9 /\ Digits[DigitValue(c) + 1] = c
  BY <1>2, <1>3 DEF DigitValue
<1>4. ASSUME NEW m \in 0 .. 9, NEW n \in 0 .. 9, Digits[m + 1] = Digits[n + 1]
      PROVE  m = n
  BY <1>4 DEF Digits
<1>5. ASSUME NEW n \in 0 .. 9
      PROVE  IsDigit(Digits[n + 1])
  BY <1>1 DEF IsDigit, Range
<1>6. ASSUME NEW n \in 0 .. 9
      PROVE  DigitValue(Digits[n + 1]) = n
  BY <1>3, <1>4, <1>5
<1>7. ASSUME NEW n \in 0 .. 9
      PROVE  Digits[n + 1] # " " /\ Digits[n + 1] \notin {"w", "d", "h", "m", "s", "u", "n", "-"}
  BY DigitsAre DEF Numerals
<1> QED BY <1>3, <1>5, <1>6, <1>7

LEMMA Positive ==
  ASSUME NEW a \in Nat \ {0}, NEW b \in Nat \ {0}
  PROVE  a * b \in Nat \ {0} /\ a * b >= b
OBVIOUS

(* One unit is so many of the next shorter one. *)
LEMMA Lengths ==
  /\ LengthOf[8] = 1
  /\ \A k \in 1 .. 8 : LengthOf[k] \in Nat \ {0}
  /\ \A k \in 2 .. 8 : /\ PerUnit[Units[k]] \in Nat \ {0}
                       /\ LengthOf[k - 1] = PerUnit[Units[k]] * LengthOf[k]
  /\ \A k \in 1 .. 6 : LengthOf[k] >= LengthOf[6]
<1>1. \A k \in 2 .. 8 : PerUnit[Units[k]] \in Nat \ {0}
  BY DurationTextAssumption
<1>2. /\ LengthOf[8] = 1
      /\ LengthOf[7] = PerUnit["ns"]
      /\ LengthOf[6] = PerUnit["us"] * LengthOf[7]
      /\ LengthOf[5] = PerUnit["ms"] * LengthOf[6]
      /\ LengthOf[4] = PerUnit["s"] * LengthOf[5]
      /\ LengthOf[3] = PerUnit["m"] * LengthOf[4]
      /\ LengthOf[2] = PerUnit["h"] * LengthOf[3]
      /\ LengthOf[1] = PerUnit["d"] * LengthOf[2]
  BY DEF LengthOf
<1>3. /\ PerUnit["ns"] = PerUnit[Units[8]] /\ PerUnit["us"] = PerUnit[Units[7]]
      /\ PerUnit["ms"] = PerUnit[Units[6]] /\ PerUnit["s"] = PerUnit[Units[5]]
      /\ PerUnit["m"] = PerUnit[Units[4]] /\ PerUnit["h"] = PerUnit[Units[3]]
      /\ PerUnit["d"] = PerUnit[Units[2]]
  BY DEF Units
<1>4. LengthOf[7] \in Nat \ {0}
  BY <1>1, <1>2, <1>3
<1>5. LengthOf[6] \in Nat \ {0}
  BY <1>1, <1>2, <1>3, <1>4, Positive
<1>6. LengthOf[5] \in Nat \ {0} /\ LengthOf[5] >= LengthOf[6]
  BY <1>1, <1>2, <1>3, <1>5, Positive
<1>7. LengthOf[4] \in Nat \ {0} /\ LengthOf[4] >= LengthOf[5]
  BY <1>1, <1>2, <1>3, <1>6, Positive
<1>8. LengthOf[3] \in Nat \ {0} /\ LengthOf[3] >= LengthOf[4]
  BY <1>1, <1>2, <1>3, <1>7, Positive
<1>9. LengthOf[2] \in Nat \ {0} /\ LengthOf[2] >= LengthOf[3]
  BY <1>1, <1>2, <1>3, <1>8, Positive
<1>10. LengthOf[1] \in Nat \ {0} /\ LengthOf[1] >= LengthOf[2]
  BY <1>1, <1>2, <1>3, <1>9, Positive
<1>11. LengthOf[7] = PerUnit["ns"] * LengthOf[8]
  BY <1>1, <1>2, <1>3
<1>12. \A k \in 1 .. 8 : LengthOf[k] \in Nat \ {0}
  BY <1>2, <1>4, <1>5, <1>6, <1>7, <1>8, <1>9, <1>10
<1>13. \A k \in 2 .. 8 : LengthOf[k - 1] = PerUnit[Units[k]] * LengthOf[k]
  <2>1. \A k \in 2 .. 8 : k = 2 \/ k = 3 \/ k = 4 \/ k = 5 \/ k = 6 \/ k = 7 \/ k = 8
    OBVIOUS
  <2> QED BY <1>2, <1>3, <1>11, <2>1
<1>14. \A k \in 1 .. 6 : LengthOf[k] >= LengthOf[6]
  <2>1. \A k \in 1 .. 6 : k = 1 \/ k = 2 \/ k = 3 \/ k = 4 \/ k = 5 \/ k = 6
    OBVIOUS
  <2> QED BY <1>5, <1>6, <1>7, <1>8, <1>9, <1>10, <2>1
<1> QED BY <1>1, <1>2, <1>12, <1>13, <1>14

LEMMA Bounds ==
  /\ MaxInt \in Nat \ {0} /\ LengthOf[6] \in Nat \ {0}
  /\ MaxDuration \in Nat \ {0} /\ MinDuration \in Int /\ MinDuration < -MaxDuration
<1>1. MaxInt \in Nat \ {0} /\ LengthOf[6] \in Nat \ {0}
  BY DurationTextAssumption, Lengths
<1>2. ASSUME NEW m \in Nat \ {0}, NEW l \in Nat \ {0}
      PROVE  m * l \in Nat \ {0} /\ -(m + 1) * l \in Int /\ -(m + 1) * l < -(m * l)
  OBVIOUS
<1> QED BY <1>1, <1>2 DEF MaxDuration, MinDuration

LEMMA Wraps ==
  ASSUME NEW n \in Int
  PROVE  /\ Wrap(n) \in -MaxInt - 1 .. MaxInt
         /\ n \in -MaxInt - 1 .. MaxInt => Wrap(n) = n
<1>1. MaxInt \in Nat
  BY DurationTextAssumption
<1> DEFINE w == 2 * MaxInt + 2
           a == n + MaxInt + 1
<1>2. w \in Nat \ {0} /\ a \in Int
  BY <1>1
<1>3. a % w \in 0 .. w - 1 /\ (a \in 0 .. w - 1 => a % w = a)
  <2> HIDE DEF w, a
  <2> QED BY <1>2
<1> QED BY <1>1, <1>3 DEF Wrap

LEMMA UnitsHavePlaces ==
  /\ PlaceOf("w") = 1 /\ PlaceOf("d") = 2 /\ PlaceOf("h") = 3 /\ PlaceOf("m") = 4
  /\ PlaceOf("s") = 5 /\ PlaceOf("ms") = 6 /\ PlaceOf("us") = 7 /\ PlaceOf("ns") = 8
<1>1. \A k \in 1 .. 8 : PlaceOf(Units[k]) = k
  <2> SUFFICES ASSUME NEW k \in 1 .. 8 PROVE PlaceOf(Units[k]) = k
    OBVIOUS
  <2>1. \A j \in 1 .. 8 : Units[j] = Units[k] => j = k
    BY DEF Units
  <2> QED BY <2>1 DEF PlaceOf
<1> QED BY <1>1 DEF Units

LEMMA UnitsAre ==
  ASSUME NEW c, NEW next
  PROVE  /\ Unit(c, next) \in 0 .. 8
         /\ c = "w" => Unit(c, next) = 1
         /\ c = "d" => Unit(c, next) = 2
         /\ c = "h" => Unit(c, next) = 3
         /\ c = "m" => Unit(c, next) = IF next = "s" THEN 6 ELSE 4
         /\ c = "s" => Unit(c, next) = 5
         /\ c = "u" => Unit(c, next) = IF next = "s" THEN 7 ELSE 0
         /\ c = "n" => Unit(c, next) = IF next = "s" THEN 8 ELSE 0
         /\ c \notin {"w", "d", "h", "m", "s", "u", "n"} => Unit(c, next) = 0
BY UnitsHavePlaces DEF Unit, UnitAtOnce

(* A number's text: the digits of the number without its last one, and that. *)
LEMMA NumbersAsText ==
  \A n \in 0 .. MaxInt :
    /\ ToText[n] \in Seq(Alphabet)
    /\ n < 10 => ToText[n] = <<Digits[n + 1]>>
    /\ ~(n < 10) => /\ n \div 10 \in 0 .. MaxInt /\ n \div 10 < n
                    /\ ToText[n] = Append(ToText[n \div 10], Digits[(n % 10) + 1])
<1> DEFINE D == 0 .. MaxInt
           V == Seq(Alphabet)
           first == [n \in 0 .. 9 |-> <<Digits[n + 1]>>]
           step == [n \in D |-> [s \in V |-> Append(s, Digits[(n % 10) + 1])]]
           back == [n \in D |-> n \div 10]
           Iter(f) == f = [n \in D |-> IF n < 10 THEN <<Digits[n + 1]>>
                                       ELSE Append(f[n \div 10], Digits[(n % 10) + 1])]
<1>1. MaxInt \in Nat
  BY DurationTextAssumption
<1>2. \A n \in 0 .. 9 : Digits[n + 1] \in Alphabet
  BY DigitsAre
<1>3. \A n \in D : n % 10 \in 0 .. 9 /\ (~(n < 10) => n \div 10 \in D /\ n \div 10 < n)
  BY <1>1
<1>4. Founded(D, V, first, step, back)
  <2>1. \A n \in D \cap DOMAIN first : first[n] \in V
    <3> SUFFICES ASSUME NEW n \in 0 .. 9 PROVE first[n] \in V
      OBVIOUS
    <3>1. Digits[n + 1] \in Alphabet
      BY <1>2
    <3> QED BY <3>1
  <2>2. \A n \in D \ DOMAIN first : back[n] \in D /\ back[n] < n
    BY <1>3
  <2>3. \A n \in D \ DOMAIN first : step[n] \in [V -> V]
    <3> SUFFICES ASSUME NEW n \in D PROVE step[n] \in [V -> V]
      OBVIOUS
    <3>1. (n % 10) \in 0 .. 9
      BY <1>3
    <3>2. Digits[(n % 10) + 1] \in Alphabet
      BY <1>2, <3>1
    <3> QED BY <3>2
  <2> HIDE DEF first, step, back
  <2> QED BY <2>1, <2>2, <2>3 DEF Founded
<1>5. <<>> \in V /\ D \in SUBSET Nat
  OBVIOUS
<1>6. ASSUME NEW g \in [D -> V], NEW n \in D, RecursAt(g, first, step, back, n)
      PROVE  g[n] = IF n < 10 THEN <<Digits[n + 1]>>
                    ELSE Append(g[n \div 10], Digits[(n % 10) + 1])
  <2>1. CASE n < 10
    BY <1>6, <2>1 DEF RecursAt
  <2>2. CASE ~(n < 10)
    <3>1. n \notin DOMAIN first /\ back[n] = n \div 10 /\ n \div 10 \in D
      BY <1>3, <2>2
    <3>2. g[n] = step[n][g[n \div 10]] /\ g[n \div 10] \in V
      BY <1>6, <3>1 DEF RecursAt
    <3> QED BY <2>2, <3>2
  <2> QED BY <2>1, <2>2
<1>7. \E g \in [D -> V] : \A n \in D : RecursAt(g, first, step, back, n)
  <2> HIDE DEF D, V, first, step, back
  <2> QED BY <1>4, <1>5, Recursion
<1>8. PICK g \in [D -> V] : \A n \in D : RecursAt(g, first, step, back, n)
  BY <1>7
<1> HIDE DEF first, step, back
<1>9. Iter(g)
  BY <1>6, <1>8
<1>10. Iter(ToText)
  BY <1>9 DEF ToText
<1>11. \A n \in D : ToText[n] \in V
  <2> DEFINE C == {n \in Nat : n \in D => ToText[n] \in V}
  <2>1. ASSUME NEW n \in Nat, \A k \in Nat : k < n => k \in C
        PROVE  n \in C
    <3> SUFFICES ASSUME n \in D PROVE ToText[n] \in V
      OBVIOUS
    <3>1. CASE n < 10
      <4>1. ToText[n] = <<Digits[n + 1]>>
        BY <1>10, <3>1
      <4>2. n \in 0 .. 9
        BY <3>1
      <4>3. Digits[n + 1] \in Alphabet
        BY <1>2, <4>2
      <4> QED BY <4>1, <4>3
    <3>2. CASE ~(n < 10)
      <4>1. ToText[n \div 10] \in V
        BY <1>3, <2>1, <3>2
      <4>2. ToText[n] = Append(ToText[n \div 10], Digits[(n % 10) + 1])
        BY <1>10, <3>2
      <4>3. (n % 10) \in 0 .. 9
        BY <1>3
      <4>4. Digits[(n % 10) + 1] \in Alphabet
        BY <1>2, <4>3
      <4> HIDE DEF C
      <4> QED BY <4>1, <4>2, <4>4
    <3> QED BY <3>1, <3>2
  <2> HIDE DEF C
  <2>2. \A n \in Nat : n \in C
    BY <2>1, NumbersInduct
  <2> QED BY <2>2 DEF C
<1> QED BY <1>3, <1>10, <1>11
-----------------------------------------------------------------------------
(* Types. *)

LEMMA UnitLetters ==
  ASSUME NEW k \in 1 .. 8
  PROVE  Letters(Units[k]) \in Seq(Alphabet)
<1>1. \A c \in Alphabet, d \in Alphabet : <<c>> \in Seq(Alphabet) /\ <<c, d>> \in Seq(Alphabet)
  OBVIOUS
<1>2. {"w", "d", "h", "m", "s", "u", "n"} \subseteq Alphabet
  BY DEF Alphabet
<1>3. Units[k] \in {"ms", "us", "ns"} \/ Units[k] \in {"w", "d", "h", "m", "s"}
  BY DEF Units
<1> QED BY <1>1, <1>2, <1>3 DEF Letters

(* Division: how many times, and what is left. *)
LEMMA Division ==
  ASSUME NEW a \in Nat, NEW n \in Nat \ {0}
  PROVE  /\ a \div n \in Nat /\ a \div n <= a
         /\ a % n \in 0 .. n - 1 /\ a % n <= a
         /\ a = (a \div n) * n + (a % n)
OBVIOUS

LEMMA QuotientAtMost ==
  ASSUME NEW a \in Nat, NEW n \in Nat \ {0}, NEW m \in Nat, a <= m * n
  PROVE  a \div n <= m
OBVIOUS

(* What the units of a printed duration count. *)
LEMMA CountsFit ==
  ASSUME NEW d \in 0 .. MaxDuration, NEW k \in 1 .. 8
  PROVE  CountOf(k, d) \in 0 .. MaxInt
<1> DEFINE all == d \div LengthOf[k]
           per == PerUnit[Units[k]]
<1>1. d \in Nat /\ LengthOf[k] \in Nat \ {0} /\ MaxInt \in Nat
  BY Bounds, Lengths
<1>2. all \in Nat
  BY <1>1, Division
<1>3. k \in 1 .. 6 => all <= MaxInt
  <2> SUFFICES ASSUME k \in 1 .. 6 PROVE all <= MaxInt
    OBVIOUS
  <2>1. LengthOf[6] \in Nat /\ LengthOf[6] <= LengthOf[k]
    BY Lengths
  <2>2. MaxInt * LengthOf[6] <= MaxInt * LengthOf[k]
    BY <1>1, <2>1
  <2>3. d <= MaxInt * LengthOf[6] /\ MaxInt * LengthOf[6] \in Nat /\ MaxInt * LengthOf[k] \in Nat
    BY <1>1, <2>1, Bounds DEF MaxDuration
  <2>4. d <= MaxInt * LengthOf[k]
    BY <1>1, <2>2, <2>3
  <2> QED BY <1>1, <2>4, QuotientAtMost
<1>4. k # 1 => per \in Nat \ {0}
  BY Lengths
<1> HIDE DEF all, per
<1>5. k # 1 => all % per \in Nat /\ all % per <= all
  <2> SUFFICES ASSUME k # 1 PROVE all % per \in Nat /\ all % per <= all
    OBVIOUS
  <2>1. per \in Nat \ {0}
    BY <1>4
  <2>2. all % per \in 0 .. per - 1 /\ all % per <= all
    BY <1>2, <2>1, Division
  <2> QED BY <2>1, <2>2
<1> QED BY <1>1, <1>2, <1>3, <1>5 DEF CountOf, all, per

LEMMA PartIsText ==
  ASSUME NEW d \in 0 .. MaxDuration, NEW k \in 1 .. 8
  PROVE  Part(k, d) \in Seq(Alphabet)
<1>1. ToText[CountOf(k, d)] \in Seq(Alphabet)
  BY CountsFit, NumbersAsText
<1>2. Letters(Units[k]) \in Seq(Alphabet)
  BY UnitLetters
<1> QED BY <1>1, <1>2 DEF Part

LEMMA PrintedIsText ==
  ASSUME NEW d \in -MaxDuration .. MaxDuration
  PROVE  TextOf(d) \in Seq(Alphabet)
<1>1. ASSUME NEW e \in 0 .. MaxDuration
      PROVE  PartsOf(e) \in Seq(Alphabet)
  <2>1. /\ Part(1, e) \in Seq(Alphabet) /\ Part(2, e) \in Seq(Alphabet)
        /\ Part(3, e) \in Seq(Alphabet) /\ Part(4, e) \in Seq(Alphabet)
        /\ Part(5, e) \in Seq(Alphabet) /\ Part(6, e) \in Seq(Alphabet)
        /\ Part(7, e) \in Seq(Alphabet) /\ Part(8, e) \in Seq(Alphabet)
    BY PartIsText
  <2>2. \A s \in Seq(Alphabet), t \in Seq(Alphabet) : s \o t \in Seq(Alphabet)
    OBVIOUS
  <2> QED BY <2>1, <2>2 DEF PartsOf
<1>2. d \in Int /\ (d > 0 => d \in 0 .. MaxDuration) /\ (d < 0 => -d \in 0 .. MaxDuration)
  BY Bounds
<1>3. <<"0">> \in Seq(Alphabet) /\ <<"-">> \in Seq(Alphabet)
  <2>1. "0" \in Alphabet /\ "-" \in Alphabet
    BY DEF Alphabet, Numerals
  <2> QED BY <2>1
<1>4. CASE d = 0
  BY <1>3, <1>4 DEF TextOf
<1>5. CASE d < 0
  <2>1. TextOf(d) = <<"-">> \o PartsOf(-d)
    BY <1>2, <1>5 DEF TextOf
  <2>2. PartsOf(-d) \in Seq(Alphabet)
    BY <1>1, <1>2, <1>5
  <2> QED BY <1>3, <2>1, <2>2
<1>6. CASE d > 0
  <2>1. TextOf(d) = PartsOf(d)
    BY <1>2, <1>6 DEF TextOf
  <2> QED BY <1>1, <1>2, <1>6, <2>1
<1> QED BY <1>2, <1>4, <1>5, <1>6

IsText(t) == \E S : t \in Seq(S)

TypeInv == TypeOK /\ IsText(text)

LEMMA TypeInvariant == Spec => []TypeInv
<1>1. Init => TypeInv
  <2> SUFFICES ASSUME Init PROVE TypeInv
    OBVIOUS
  <2>1. IsText(text) /\ source \in {NotPrinted} \cup Seq(Printed)
    <3>1. CASE \E d \in Printed : source = <<d>> /\ text = TextOf(d)
      <4>1. PICK d \in Printed : source = <<d>> /\ text = TextOf(d)
        BY <3>1
      <4>2. d \in -MaxDuration .. MaxDuration
        BY DurationTextAssumption
      <4>3. text \in Seq(Alphabet)
        BY <4>1, <4>2, PrintedIsText
      <4>4. source \in Seq(Printed)
        BY <4>1
      <4> QED BY <4>3, <4>4 DEF IsText
    <3>2. CASE source = NotPrinted /\ text \in Texts
      <4>1. text \in Seq(STRING)
        BY <3>2, DurationTextAssumption
      <4> QED BY <3>2, <4>1 DEF IsText
    <3> QED BY <3>1, <3>2 DEF Init
  <2>2. Len(text) \in Nat
    BY <2>1 DEF IsText
  <2> QED BY <2>1, <2>2, Bounds DEF Init, TypeInv, TypeOK
<1>2. TypeInv /\ [Next]_vars => TypeInv'
  <2> SUFFICES ASSUME TypeInv, [Next]_vars PROVE TypeInv'
    OBVIOUS
  <2> USE DEF TypeInv, TypeOK
  <2>1. Len(text) \in Nat /\ MaxInt \in Nat
    BY Bounds DEF IsText
  <2>2. CASE Whitespace
    <3>1. AtChar /\ pos' = pos + 1 /\ UNCHANGED <<source, text, num, dur, status>>
      BY <2>2, Zenon DEF Whitespace
    <3> QED BY <2>1, <3>1 DEF AtChar
  <2>3. CASE Digit
    <3>1. DigitValue(Char) \in 0 .. 9
      BY <2>3, DigitsCount DEF Digit
    <3>2. Wrap(num * 10 + DigitValue(Char)) \in -MaxInt - 1 .. MaxInt
      <4>1. num * 10 + DigitValue(Char) \in Int
        BY <2>1, <3>1
      <4> QED BY <4>1, Wraps
    <3>3. CASE num' = Wrap(num * 10 + DigitValue(Char)) /\ pos' = pos + 1 /\ UNCHANGED <<source, text, dur, status>>
      BY <2>1, <2>3, <3>2, <3>3 DEF Digit, AtChar
    <3>4. CASE status' = "panicked" /\ UNCHANGED <<source, text, num, pos, dur>>
      BY <3>4
    <3> QED BY <2>3, <3>3, <3>4 DEF Digit
  <2>4. CASE AddUnit
    BY <2>1, <2>4 DEF AddUnit, AtChar
  <2>5. CASE Unexpected
    BY <2>5 DEF Unexpected
  <2>6. CASE Finish
    BY <2>6 DEF Finish
  <2>7. CASE UNCHANGED vars
    BY <2>7 DEF vars
  <2> QED BY <2>2, <2>3, <2>4, <2>5, <2>6, <2>7 DEF Next
<1> QED BY <1>1, <1>2, PTL DEF Spec

(***************************************************************************)
(* The reader's state stays in its types: a position in the text, a number *)
(* that fits an i64 because it wraps or panics, and a duration that fits   *)
(* a Duration because the additions panic first.                           *)
(***************************************************************************)
THEOREM DurationTextTypeCorrect == Spec => []TypeOK
BY TypeInvariant, PTL DEF TypeInv
-----------------------------------------------------------------------------
(* What the characters of a text are, and what they say. *)

LEMMA CharacterKinds ==
  ASSUME NEW i
  PROVE  /\ IsDigit(text[i]) => text[i] # " " /\ ~LetterAt(i)
         /\ text[i] = " " => ~IsDigit(text[i]) /\ ~LetterAt(i)
         /\ text[i] \in {"w", "d", "h", "m", "s", "u", "n"} => LetterAt(i)
         /\ LetterAt(i) => text[i] # " " /\ ~IsDigit(text[i])
         /\ text[i] # " " /\ ~IsDigit(text[i]) => LetterAt(i)
BY DigitsCount, Zenon DEF LetterAt

LEMMA TextIndexed ==
  ASSUME IsText(text)
  PROVE  Len(text) \in Nat /\ DOMAIN text = 1 .. Len(text)
BY DEF IsText

LEMMA DigitsIndexed ==
  ASSUME NEW p \in Nat
  PROVE  /\ DigitsBefore(p) \subseteq 1 .. p - 1
         /\ IsFiniteSet(DigitsBefore(p))
         /\ \A j \in DigitsBefore(p) : DigitValue(text[j]) \in 0 .. 9
<1>1. DigitsBefore(p) \subseteq 1 .. p - 1
  BY DEF DigitsBefore
<1>2. IsFiniteSet(1 .. p - 1)
  BY FS_Interval
<1>3. \A j \in DigitsBefore(p) : IsDigit(text[j])
  BY DEF DigitsBefore
<1> QED BY <1>1, <1>2, <1>3, FS_Subset, DigitsCount

LEMMA DigitsAfterLetter ==
  ASSUME NEW p \in Nat, LetterAt(p)
  PROVE  DigitsBefore(p + 1) = {}
<1> SUFFICES ASSUME NEW j \in DigitsBefore(p + 1) PROVE FALSE
  OBVIOUS
<1>1. j \in 1 .. p + 1 - 1 /\ \A k \in j .. p + 1 - 1 : ~LetterAt(k)
  BY DEF DigitsBefore
<1>2. p \in j .. p + 1 - 1
  BY <1>1
<1> QED BY <1>1, <1>2

LEMMA DigitsAfterSpace ==
  ASSUME NEW p \in Nat, ~LetterAt(p), ~IsDigit(text[p])
  PROVE  DigitsBefore(p + 1) = DigitsBefore(p)
<1>1. ASSUME NEW j \in Nat, j < p
      PROVE  j \in DigitsBefore(p + 1) <=> j \in DigitsBefore(p)
  <2>1. j .. p + 1 - 1 = (j .. p - 1) \cup {p}
    BY <1>1
  <2>2. j \in 1 .. p + 1 - 1 <=> j \in 1 .. p - 1
    BY <1>1
  <2> QED BY <2>1, <2>2 DEF DigitsBefore
<1>2. \A j \in DigitsBefore(p + 1) : j \in Nat /\ j < p
  <2> SUFFICES ASSUME NEW j \in DigitsBefore(p + 1) PROVE j \in Nat /\ j < p
    OBVIOUS
  <2>1. j \in 1 .. p + 1 - 1 /\ IsDigit(text[j])
    BY DEF DigitsBefore
  <2> QED BY <2>1
<1>3. \A j \in DigitsBefore(p) : j \in Nat /\ j < p
  BY DEF DigitsBefore
<1> QED BY <1>1, <1>2, <1>3

LEMMA DigitsAfterDigit ==
  ASSUME NEW p \in Nat \ {0}, IsDigit(text[p])
  PROVE  DigitsBefore(p + 1) = DigitsBefore(p) \cup {p} /\ p \notin DigitsBefore(p)
<1>1. ~LetterAt(p)
  BY CharacterKinds
<1>2. ASSUME NEW j \in Nat, j < p
      PROVE  j \in DigitsBefore(p + 1) <=> j \in DigitsBefore(p)
  <2>1. j .. p + 1 - 1 = (j .. p - 1) \cup {p}
    BY <1>2
  <2>2. j \in 1 .. p + 1 - 1 <=> j \in 1 .. p - 1
    BY <1>2
  <2> QED BY <1>1, <2>1, <2>2 DEF DigitsBefore
<1>3. \A j \in DigitsBefore(p + 1) : j \in Nat /\ (j < p \/ j = p)
  <2> SUFFICES ASSUME NEW j \in DigitsBefore(p + 1) PROVE j \in Nat /\ (j < p \/ j = p)
    OBVIOUS
  <2>1. j \in 1 .. p + 1 - 1
    BY DEF DigitsBefore
  <2> QED BY <2>1
<1>4. \A j \in DigitsBefore(p) : j \in Nat /\ j < p
  BY DEF DigitsBefore
<1>5. p \in DigitsBefore(p + 1)
  <2>1. p \in 1 .. p + 1 - 1 /\ \A k \in p .. p + 1 - 1 : k = p
    OBVIOUS
  <2> QED BY <1>1, <2>1 DEF DigitsBefore
<1> QED BY <1>2, <1>3, <1>4, <1>5

LEMMA WeightsAreWhole ==
  ASSUME NEW p \in Nat, NEW j
  PROVE  WeightAt(j, p) \in Nat
<1>1. IsFiniteSet({k \in DigitsBefore(p) : k > j})
  BY DigitsIndexed, FS_Subset
<1> QED BY <1>1, FS_CardinalityType, PowersOfTen DEF WeightAt

Scored(p) == [j \in DigitsBefore(p) |-> DigitValue(text[j]) * WeightAt(j, p)]

LEMMA NumbersAreSums ==
  ASSUME NEW p \in Nat
  PROVE  /\ NumberAt(p) = SumFunctionOnSet(Scored(p), DigitsBefore(p))
         /\ \A j \in DigitsBefore(p) : Scored(p)[j] \in Nat
         /\ NumberAt(p) \in Nat
<1>1. NumberAt(p) = SumFunctionOnSet(Scored(p), DigitsBefore(p))
  BY DEF NumberAt, SumFunction, FoldFunction, SumFunctionOnSet, Scored
<1>2. ASSUME NEW j \in DigitsBefore(p)
      PROVE  Scored(p)[j] \in Nat
  <2>1. DigitValue(text[j]) \in Nat /\ WeightAt(j, p) \in Nat
    BY DigitsIndexed, WeightsAreWhole
  <2>2. \A a \in Nat, b \in Nat : a * b \in Nat
    OBVIOUS
  <2> QED BY <2>1, <2>2 DEF Scored
<1>3. SumFunctionOnSet(Scored(p), DigitsBefore(p)) \in Nat
  BY <1>2, DigitsIndexed, SumOfNaturals
<1> QED BY <1>1, <1>2, <1>3

(* One more digit: every digit before it counts for ten times as much. *)
LEMMA NumberAfterDigit ==
  ASSUME NEW p \in Nat \ {0}, IsDigit(text[p])
  PROVE  NumberAt(p + 1) = NumberAt(p) * 10 + DigitValue(text[p])
<1> DEFINE D == DigitsBefore(p)
           v == DigitValue(text[p])
<1>1. DigitsBefore(p + 1) = D \cup {p} /\ p \notin D
  BY DigitsAfterDigit
<1>2. IsFiniteSet(D) /\ p + 1 \in Nat /\ \A j \in D : j \in Nat /\ j < p
  BY DigitsIndexed
<1>3. v \in 0 .. 9
  BY DigitsCount
<1>4. WeightAt(p, p + 1) = 1
  <2>1. \A k \in D \cup {p} : ~(k > p)
    BY <1>2
  <2>2. {k \in DigitsBefore(p + 1) : k > p} = {}
    BY <1>1, <2>1
  <2> QED BY <2>2, FS_EmptySet, PowersOfTen DEF WeightAt
<1>5. ASSUME NEW j \in D
      PROVE  WeightAt(j, p + 1) = 10 * WeightAt(j, p)
  <2> DEFINE later == {k \in D : k > j}
  <2>1. {k \in DigitsBefore(p + 1) : k > j} = later \cup {p}
    BY <1>1, <1>2
  <2>2. p \notin later /\ IsFiniteSet(later)
    BY <1>1, <1>2, FS_Subset
  <2>3. Cardinality(later) \in Nat /\ Cardinality(later \cup {p}) = Cardinality(later) + 1
    BY <2>2, FS_CardinalityType, FS_AddElement
  <2> HIDE DEF later
  <2>4. WeightAt(j, p + 1) = PowerOfTen[Cardinality(later) + 1]
    BY <2>1, <2>3 DEF WeightAt
  <2>5. WeightAt(j, p) = PowerOfTen[Cardinality(later)]
    BY DEF WeightAt, later
  <2> QED BY <2>3, <2>4, <2>5, PowersOfTen
<1>6. ASSUME NEW j \in D
      PROVE  Scored(p + 1)[j] = 10 * Scored(p)[j]
  <2>1. DigitValue(text[j]) \in Nat /\ WeightAt(j, p) \in Nat
    BY DigitsIndexed, WeightsAreWhole
  <2>2. \A a \in Nat, b \in Nat : a * (10 * b) = 10 * (a * b)
    OBVIOUS
  <2>3. Scored(p + 1)[j] = DigitValue(text[j]) * (10 * WeightAt(j, p))
    BY <1>1, <1>5 DEF Scored
  <2>4. Scored(p)[j] = DigitValue(text[j]) * WeightAt(j, p)
    BY DEF Scored
  <2> QED BY <2>1, <2>2, <2>3, <2>4
<1>7. Scored(p + 1)[p] = v
  BY <1>1, <1>3, <1>4 DEF Scored
<1>8. Whole(Scored(p), D) /\ Whole(Scored(p + 1), D \cup {p})
  BY <1>1, <1>2, NumbersAreSums DEF Whole
<1> HIDE DEF D, v
<1>9. /\ SumFunctionOnSet(Scored(p + 1), D \cup {p})
           = Scored(p + 1)[p] + SumFunctionOnSet(Scored(p + 1), D)
      /\ SumFunctionOnSet(Scored(p + 1), D) \in Int
  BY <1>1, <1>2, <1>8, SumOfOneMore
<1>10. SumFunctionOnSet(Scored(p + 1), D) = 10 * SumFunctionOnSet(Scored(p), D)
  BY <1>2, <1>6, <1>8, SumTimes
<1>11. /\ NumberAt(p + 1) = SumFunctionOnSet(Scored(p + 1), D \cup {p})
       /\ NumberAt(p) = SumFunctionOnSet(Scored(p), D) /\ NumberAt(p) \in Nat
  BY <1>1, <1>2, NumbersAreSums DEF D
<1>12. NumberAt(p + 1) = v + 10 * NumberAt(p)
  BY <1>7, <1>9, <1>10, <1>11
<1> QED BY <1>3, <1>11, <1>12 DEF v

LEMMA NumberAfterSpace ==
  ASSUME NEW p \in Nat, ~LetterAt(p), ~IsDigit(text[p])
  PROVE  NumberAt(p + 1) = NumberAt(p)
BY DigitsAfterSpace DEF NumberAt, WeightAt

LEMMA NoDigits ==
  ASSUME NEW p \in Nat, DigitsBefore(p) = {}
  PROVE  NumberAt(p) = 0
<1>1. NumberAt(p) = SumFunctionOnSet(Scored(p), {})
  BY NumbersAreSums
<1> QED BY <1>1, SumOfNone

LEMMA NumberAfterLetter ==
  ASSUME NEW p \in Nat, LetterAt(p)
  PROVE  NumberAt(p + 1) = 0
BY DigitsAfterLetter, NoDigits

LEMMA NumberAtFirst == NumberAt(1) = 0
<1>1. DigitsBefore(1) = {}
  BY DEF DigitsBefore
<1> QED BY <1>1, NoDigits

(* A letter is in its place. *)
Known(i) ==
  LetterAt(i) =>
    /\ text[i] \in {"w", "d", "h", "m", "s", "u", "n"}
    /\ text[i] \in {"u", "n"} => i < Len(text) /\ text[i + 1] = "s"

LEMMA ProperIsKnown == Proper <=> \A i \in DOMAIN text : Known(i)
BY DEF Proper, Known

LEMMA UnitsAreLengths ==
  ASSUME IsText(text), NEW p \in DOMAIN text, Known(p), LetterAt(p), ~Suffix(p)
  PROVE  LengthAt(p) = LengthOf[Unit(text[p], IF p < Len(text) THEN text[p + 1] ELSE "end")]
<1> DEFINE next == IF p < Len(text) THEN text[p + 1] ELSE "end"
<1>1. Len(text) \in Nat /\ p \in Nat
  BY TextIndexed
<1>2. next = "s" <=> p < Len(text) /\ text[p + 1] = "s"
  OBVIOUS
<1> HIDE DEF next
<1>3. CASE text[p] \in {"w", "d", "h", "s"}
  <2>1. PlaceOf(text[p]) = Unit(text[p], next)
    BY <1>3, UnitsHavePlaces, UnitsAre
  <2>2. LengthAt(p) = LengthOf[PlaceOf(text[p])]
    BY <1>3 DEF LengthAt
  <2> QED BY <2>1, <2>2 DEF next
<1>4. CASE text[p] = "m"
  <2>1. LengthAt(p) = LengthOf[IF next = "s" THEN 6 ELSE 4]
    BY <1>2, <1>4, UnitsHavePlaces DEF LengthAt
  <2> QED BY <1>4, <2>1, UnitsAre DEF next
<1>5. CASE text[p] \in {"u", "n"}
  <2>1. next = "s"
    BY <1>2, <1>5 DEF Known
  <2>2. LengthAt(p) = LengthOf[IF text[p] = "u" THEN 7 ELSE 8]
    BY <1>2, <1>5, <2>1, UnitsHavePlaces DEF LengthAt
  <2> QED BY <1>5, <2>1, <2>2, UnitsAre DEF next
<1> QED BY <1>3, <1>4, <1>5 DEF Known

NextTo(p) == IF p < Len(text) THEN text[p + 1] ELSE "end"

LEMMA UnitsAreKnown ==
  ASSUME NEW p
  PROVE  /\ Unit(text[p], NextTo(p)) # 0 => LetterAt(p) /\ Known(p)
         /\ Unit(text[p], NextTo(p)) = 0 => ~LetterAt(p) \/ ~Known(p)
<1> DEFINE c == text[p]
           next == NextTo(p)
<1>1. next = "s" <=> p < Len(text) /\ text[p + 1] = "s"
  BY DEF NextTo
<1>2. c \in {"w", "d", "h", "m", "s", "u", "n"} => LetterAt(p)
  BY CharacterKinds
<1> HIDE DEF next
<1>3. Unit(c, next) # 0 <=> /\ c \in {"w", "d", "h", "m", "s", "u", "n"}
                            /\ c \in {"u", "n"} => next = "s"
  BY UnitsAre
<1> QED BY <1>1, <1>2, <1>3 DEF Known, next

Saying == [i \in UnitsIn |-> NumberAt(i) * LengthAt(i)]
SaidBefore(p) == SumFunctionOnSet(Saying, {i \in UnitsIn : i < p})

LEMMA UnitsAreWhole ==
  ASSUME IsText(text), Proper
  PROVE  /\ IsFiniteSet(UnitsIn) /\ UnitsIn \subseteq 1 .. Len(text)
         /\ \A i \in UnitsIn : Saying[i] \in Nat
         /\ Meaning = SumFunctionOnSet(Saying, UnitsIn)
<1>1. Len(text) \in Nat /\ DOMAIN text = 1 .. Len(text)
  BY TextIndexed
<1>2. UnitsIn \subseteq 1 .. Len(text)
  BY <1>1 DEF UnitsIn
<1>3. IsFiniteSet(UnitsIn)
  <2>1. 1 \in Int /\ Len(text) \in Int
    BY <1>1
  <2>2. IsFiniteSet(1 .. Len(text))
    BY <2>1, FS_Interval
  <2> QED BY <1>2, <2>2, FS_Subset
<1>4. ASSUME NEW i \in UnitsIn
      PROVE  Saying[i] \in Nat
  <2>1. i \in DOMAIN text /\ i \in Nat /\ LetterAt(i) /\ ~Suffix(i)
    BY <1>1, <1>2 DEF UnitsIn
  <2>2. Known(i)
    BY <2>1, ProperIsKnown
  <2>3. Unit(text[i], NextTo(i)) \in 1 .. 8
    BY <2>1, <2>2, UnitsAreKnown, UnitsAre
  <2>4. LengthAt(i) = LengthOf[Unit(text[i], NextTo(i))]
    BY <2>1, <2>2, UnitsAreLengths DEF NextTo
  <2>5. LengthAt(i) \in Nat
    BY <2>3, <2>4, Lengths
  <2>6. NumberAt(i) \in Nat
    BY <2>1, NumbersAreSums
  <2>7. \A a \in Nat, b \in Nat : a * b \in Nat
    OBVIOUS
  <2> QED BY <2>5, <2>6, <2>7 DEF Saying
<1>5. Meaning = SumFunctionOnSet(Saying, UnitsIn)
  BY DEF Meaning, SumFunction, Saying
<1> QED BY <1>2, <1>3, <1>4, <1>5

LEMMA SaidIsPart ==
  ASSUME IsText(text), Proper, NEW p \in Nat
  PROVE  /\ SaidBefore(p) \in Nat /\ SaidBefore(p) <= Meaning
         /\ p \notin UnitsIn => SaidBefore(p + 1) = SaidBefore(p)
         /\ p \in UnitsIn => SaidBefore(p + 1) = SaidBefore(p) + NumberAt(p) * LengthAt(p)
         /\ SaidBefore(1) = 0
         /\ SaidBefore(Len(text) + 1) = Meaning
<1> DEFINE U(q) == {i \in UnitsIn : i < q}
<1>1. /\ IsFiniteSet(UnitsIn) /\ UnitsIn \subseteq 1 .. Len(text) /\ Len(text) \in Nat
      /\ \A i \in UnitsIn : Saying[i] \in Nat /\ i \in Nat
      /\ Meaning = SumFunctionOnSet(Saying, UnitsIn)
  BY UnitsAreWhole, TextIndexed
<1> DEFINE N == Len(text)
<1>8. N \in Nat /\ \A i \in UnitsIn : i \in Nat /\ 1 <= i /\ i <= N
  BY <1>1
<1> HIDE DEF N
<1>2. U(p) \in SUBSET UnitsIn
  OBVIOUS
<1>3. SaidBefore(p) \in Nat /\ SaidBefore(p) <= Meaning
  <2> HIDE DEF U
  <2> QED BY <1>1, <1>2, SumOfNaturals DEF SaidBefore, U
<1>4. p \notin UnitsIn => SaidBefore(p + 1) = SaidBefore(p)
  <2> SUFFICES ASSUME p \notin UnitsIn PROVE SaidBefore(p + 1) = SaidBefore(p)
    OBVIOUS
  <2>1. U(p + 1) = U(p)
    BY <1>8
  <2> QED BY <2>1 DEF SaidBefore
<1>5. p \in UnitsIn => SaidBefore(p + 1) = SaidBefore(p) + NumberAt(p) * LengthAt(p)
  <2> SUFFICES ASSUME p \in UnitsIn
               PROVE  SaidBefore(p + 1) = SaidBefore(p) + NumberAt(p) * LengthAt(p)
    OBVIOUS
  <2>1. U(p + 1) = U(p) \cup {p} /\ p \notin U(p)
    <3>1. \A i \in UnitsIn : i < p + 1 <=> i < p \/ i = p
      BY <1>8
    <3>2. ~(p < p) /\ p < p + 1
      OBVIOUS
    <3> QED BY <3>1, <3>2
  <2>2. IsFiniteSet(U(p)) /\ Whole(Saying, U(p) \cup {p})
    BY <1>1, <1>2, FS_Subset DEF Whole
  <2>3. SumFunctionOnSet(Saying, U(p) \cup {p}) = Saying[p] + SumFunctionOnSet(Saying, U(p))
    <3> HIDE DEF U
    <3> QED BY <2>1, <2>2, SumOfOneMore
  <2>4. Saying[p] \in Nat /\ Saying[p] = NumberAt(p) * LengthAt(p)
    BY <1>1 DEF Saying
  <2>5. SaidBefore(p + 1) = Saying[p] + SaidBefore(p)
    BY <2>1, <2>3 DEF SaidBefore
  <2> HIDE DEF U
  <2> QED BY <1>3, <2>4, <2>5
<1>6. SaidBefore(1) = 0
  <2>1. U(1) = {}
    BY <1>8
  <2> QED BY <2>1, SumOfNone DEF SaidBefore
<1>7. SaidBefore(Len(text) + 1) = Meaning
  <2>1. U(N + 1) = UnitsIn
    BY <1>8
  <2> QED BY <1>1, <2>1 DEF SaidBefore, N
<1> QED BY <1>3, <1>4, <1>5, <1>6, <1>7

(* Where the reader is, the text before it has been taken in. *)
Taken(p, n, d, st) ==
  /\ \A i \in 1 .. p - 1 : Known(i)
  /\ st = "done" => p = Len(text) + 1
  /\ st = "unexpected" => ~Proper
  /\ Proper /\ NumbersFit =>
       /\ st \in {"reading", "done"} => n = NumberAt(p) /\ d = SaidBefore(p)
       /\ st = "panicked" => Meaning > MaxDuration
       /\ st # "negative"

UnitsInv == Taken(pos, num, dur, status)

LEMMA UnitsInvInit == Init /\ TypeInv => UnitsInv
<1> SUFFICES ASSUME Init, TypeInv PROVE UnitsInv
  OBVIOUS
<1>1. pos = 1 /\ num = 0 /\ dur = 0 /\ status = "reading"
  BY DEF Init
<1>2. Proper => SaidBefore(1) = 0
  BY SaidIsPart DEF TypeInv
<1>3. 1 .. pos - 1 = {}
  BY <1>1
<1> QED BY <1>1, <1>2, <1>3, NumberAtFirst DEF UnitsInv, Taken

(* The text stays. *)
LEMMA TextKept ==
  text' = text =>
    /\ IsText(text)' <=> IsText(text)
    /\ \A i : LetterAt(i)' <=> LetterAt(i)
    /\ \A i : Known(i)' <=> Known(i)
    /\ \A i : NumberAt(i)' = NumberAt(i)
    /\ \A i : SaidBefore(i)' = SaidBefore(i)
    /\ Proper' <=> Proper
    /\ NumbersFit' <=> NumbersFit
    /\ Meaning' = Meaning
<1> HAVE text' = text
<1>1. IsText(text)' <=> IsText(text)
  BY DEF IsText
<1>2. \A i : (LetterAt(i)' <=> LetterAt(i)) /\ (Suffix(i)' <=> Suffix(i))
  BY Zenon DEF LetterAt, Suffix
<1>3. \A i : Known(i)' <=> Known(i)
  BY <1>2, Zenon DEF Known
<1>4. Proper' <=> Proper
  BY <1>2, Zenon DEF Proper
<1>5. UnitsIn' = UnitsIn
  BY <1>2, Zenon DEF UnitsIn
<1>6. \A i : DigitsBefore(i)' = DigitsBefore(i)
  BY <1>2, Zenon DEF DigitsBefore
<1>7. ASSUME NEW i, NEW j
      PROVE  WeightAt(j, i)' = WeightAt(j, i)
  <2>1. {k \in DigitsBefore(i) : k > j}' = {k \in DigitsBefore(i) : k > j}
    BY <1>6, Zenon
  <2> QED BY <2>1, Zenon DEF WeightAt
<1>8. ASSUME NEW i
      PROVE  NumberAt(i)' = NumberAt(i)
  <2>1. [j \in DigitsBefore(i) |-> DigitValue(text[j]) * WeightAt(j, i)]'
          = [j \in DigitsBefore(i) |-> DigitValue(text[j]) * WeightAt(j, i)]
    BY <1>6, <1>7, Zenon
  <2> QED BY <2>1, Zenon DEF NumberAt
<1>9. ASSUME NEW i
      PROVE  LengthAt(i)' = LengthAt(i)
  BY DEF LengthAt
<1>10. Saying' = Saying
  BY <1>5, <1>8, <1>9, Zenon DEF Saying
<1>11. \A i : SaidBefore(i)' = SaidBefore(i)
  BY <1>5, <1>10, Zenon DEF SaidBefore
<1>12. NumbersFit' <=> NumbersFit
  BY <1>8, Zenon DEF NumbersFit
<1>13. Meaning' = Meaning
  <2>1. Meaning = SumFunction(Saying) /\ (Meaning = SumFunction(Saying))'
    BY DEF Meaning, Saying
  <2> QED BY <1>10, <2>1, Zenon
<1> QED BY <1>1, <1>2, <1>3, <1>4, <1>8, <1>11, <1>12, <1>13

LEMMA TakenKept ==
  text' = text /\ Taken(pos', num', dur', status') => UnitsInv'
<1> HAVE text' = text /\ Taken(pos', num', dur', status')
<1>5. /\ \A i : Known(i)' <=> Known(i)
      /\ \A i : NumberAt(i)' = NumberAt(i)
      /\ \A i : SaidBefore(i)' = SaidBefore(i)
      /\ Proper' <=> Proper
      /\ NumbersFit' <=> NumbersFit
      /\ Meaning' = Meaning
  BY TextKept
<1>1. /\ \A i : Known(i)' <=> Known(i)
      /\ Proper' <=> Proper
      /\ NumbersFit' <=> NumbersFit
      /\ Meaning' = Meaning
      /\ NumberAt(pos)' = NumberAt(pos')
      /\ SaidBefore(pos)' = SaidBefore(pos')
  BY <1>5
<1>2. MaxDuration' = MaxDuration /\ Len(text)' = Len(text)
  BY DEF MaxDuration
<1>3. /\ (\A i \in 1 .. pos - 1 : Known(i))'
      /\ (status = "done" => pos = Len(text) + 1)'
      /\ (status = "unexpected" => ~Proper)'
  BY <1>1, <1>2 DEF Taken
<1>4. ASSUME Proper, NumbersFit
      PROVE  /\ (status \in {"reading", "done"} => num = NumberAt(pos) /\ dur = SaidBefore(pos))'
             /\ (status = "panicked" => Meaning > MaxDuration)'
             /\ (status # "negative")'
  BY <1>1, <1>2, <1>4 DEF Taken
<1> QED BY <1>1, <1>3, <1>4 DEF UnitsInv, Taken

LEMMA TakenOneMore ==
  ASSUME NEW p \in Nat, NEW n, NEW d,
         \A i \in 1 .. p : Known(i),
         Proper /\ NumbersFit => n = NumberAt(p + 1) /\ d = SaidBefore(p + 1)
  PROVE  Taken(p + 1, n, d, "reading")
<1> DEFINE q == p + 1
<1>1. q - 1 = p
  OBVIOUS
<1>2. Proper /\ NumbersFit => n = NumberAt(q) /\ d = SaidBefore(q)
  OBVIOUS
<1> HIDE DEF q
<1>3. \A i \in 1 .. q - 1 : Known(i)
  BY <1>1
<1>4. Taken(q, n, d, "reading")
  BY <1>2, <1>3 DEF Taken
<1> QED BY <1>4 DEF q

LEMMA UnitsInvDigit ==
  TypeInv /\ UnitsInv /\ Digit => UnitsInv'
<1> SUFFICES ASSUME TypeInv, UnitsInv, Digit PROVE UnitsInv'
  OBVIOUS
<1>1. /\ Len(text) \in Nat /\ DOMAIN text = 1 .. Len(text)
      /\ pos \in Nat \ {0} /\ pos <= Len(text) /\ status = "reading" /\ IsDigit(text[pos])
      /\ UNCHANGED <<source, text, dur>>
  BY TextIndexed DEF Digit, AtChar, Char, TypeInv, TypeOK
<1>2. Known(pos)
  BY <1>1, CharacterKinds DEF Known
<1>3. pos \notin UnitsIn
  BY <1>1, CharacterKinds DEF UnitsIn
<1> DEFINE n == num * 10 + DigitValue(text[pos])
<1>4. ASSUME Proper, NumbersFit
      PROVE  n = NumberAt(pos + 1) /\ Wrap(n) = n /\ SaidBefore(pos + 1) = SaidBefore(pos)
  <2>1. num = NumberAt(pos)
    BY <1>1, <1>4 DEF UnitsInv, Taken
  <2>2. n = NumberAt(pos + 1)
    BY <1>1, <2>1, NumberAfterDigit
  <2>3. NumberAt(pos + 1) \in Nat /\ NumberAt(pos + 1) <= MaxInt
    <3>1. pos + 1 \in 1 .. Len(text) + 1 /\ pos + 1 \in Nat
      BY <1>1
    <3> QED BY <1>4, <3>1, NumbersAreSums DEF NumbersFit
  <2>4. NumberAt(pos + 1) \in -MaxInt - 1 .. MaxInt
    BY <2>3, Bounds
  <2>5. Wrap(n) = n
    <3> HIDE DEF n
    <3> QED BY <2>2, <2>4, Wraps
  <2>6. SaidBefore(pos + 1) = SaidBefore(pos)
    BY <1>1, <1>3, <1>4, SaidIsPart DEF TypeInv
  <2> QED BY <2>2, <2>5, <2>6
<1>5. \/ num' = Wrap(n) /\ pos' = pos + 1 /\ status' = status
      \/ n # Wrap(n) /\ status' = "panicked" /\ num' = num /\ pos' = pos
  BY DEF Digit, Char
<1> HIDE DEF n
<1>6. \A i \in 1 .. pos : Known(i)
  <2>1. \A i \in 1 .. pos : i \in 1 .. pos - 1 \/ i = pos
    BY <1>1
  <2> QED BY <1>2, <2>1 DEF UnitsInv, Taken
<1>7. text' = text /\ pos + 1 - 1 = pos
  BY <1>1
<1>8. CASE num' = Wrap(n) /\ pos' = pos + 1 /\ status' = status
  <2>1. Proper /\ NumbersFit => num' = NumberAt(pos + 1) /\ dur' = SaidBefore(pos + 1)
    BY <1>1, <1>4, <1>8 DEF UnitsInv, Taken
  <2>2. pos \in Nat
    BY <1>1
  <2>3. Taken(pos + 1, num', dur', "reading")
    BY <1>6, <2>1, <2>2, TakenOneMore
  <2> QED BY <1>1, <1>7, <1>8, <2>3, TakenKept
<1>9. CASE n # Wrap(n) /\ status' = "panicked" /\ num' = num /\ pos' = pos
  <2>1. ~(Proper /\ NumbersFit)
    BY <1>4, <1>9
  <2>2. Taken(pos, num, dur, "panicked")
    BY <2>1 DEF UnitsInv, Taken
  <2> QED BY <1>1, <1>7, <1>9, <2>2, TakenKept
<1> QED BY <1>5, <1>8, <1>9

LEMMA UnitsInvWhitespace ==
  TypeInv /\ UnitsInv /\ Whitespace => UnitsInv'
<1> SUFFICES ASSUME TypeInv, UnitsInv, Whitespace PROVE UnitsInv'
  OBVIOUS
<1>1. /\ AtChar /\ text[pos] = " " /\ pos' = pos + 1
      /\ UNCHANGED <<source, text, num, dur, status>>
  BY Zenon DEF Whitespace, Char
<1>2. ~IsDigit(text[pos]) /\ ~LetterAt(pos)
  BY <1>1, CharacterKinds, Zenon
<1>3. /\ AtChar /\ pos' = pos + 1 /\ text' = text /\ num' = num /\ dur' = dur /\ status' = status
  BY <1>1, Zenon
<1> HIDE <1>1
<1>4. status = "reading" /\ pos \in Nat
  BY <1>3 DEF AtChar, TypeInv, TypeOK
<1>5. Known(pos) /\ pos \notin UnitsIn
  BY <1>2 DEF Known, UnitsIn
<1>6. \A i \in 1 .. pos : Known(i)
  <2>1. \A i \in 1 .. pos : i \in 1 .. pos - 1 \/ i = pos
    BY <1>4
  <2> QED BY <1>5, <2>1 DEF UnitsInv, Taken
<1>7. ASSUME Proper, NumbersFit
      PROVE  num = NumberAt(pos + 1) /\ dur = SaidBefore(pos + 1)
  <2>1. num = NumberAt(pos) /\ dur = SaidBefore(pos)
    BY <1>4, <1>7 DEF UnitsInv, Taken
  <2>2. NumberAt(pos + 1) = NumberAt(pos)
    BY <1>2, <1>4, NumberAfterSpace
  <2>3. SaidBefore(pos + 1) = SaidBefore(pos)
    BY <1>4, <1>5, <1>7, SaidIsPart DEF TypeInv
  <2> QED BY <2>1, <2>2, <2>3
<1>8. Taken(pos + 1, num, dur, "reading")
  BY <1>4, <1>6, <1>7, TakenOneMore
<1> QED BY <1>3, <1>4, <1>8, TakenKept

LEMMA UnitsInvAddUnit ==
  TypeInv /\ UnitsInv /\ AddUnit => UnitsInv'
<1> SUFFICES ASSUME TypeInv, UnitsInv, AddUnit PROVE UnitsInv'
  OBVIOUS
<1> DEFINE u == Unit(text[pos], NextTo(pos))
           part == num * LengthOf[u]
           fits == part \in MinDuration .. MaxDuration /\ dur + part \in MinDuration .. MaxDuration
<1>1. /\ Len(text) \in Nat /\ DOMAIN text = 1 .. Len(text)
      /\ pos \in Nat \ {0} /\ pos <= Len(text) /\ status = "reading"
      /\ pos \in DOMAIN text
      /\ text' = text
  BY TextIndexed DEF AddUnit, AtChar, TypeInv, TypeOK
<1>2. /\ u # 0
      /\ \/ fits /\ dur' = dur + part /\ num' = 0 /\ pos' = pos + 1 /\ status' = status
         \/ ~fits /\ status' = "panicked" /\ dur' = dur /\ num' = num /\ pos' = pos
  BY Zenon DEF AddUnit, Char, Peek, NextTo
<1>3. LetterAt(pos) /\ Known(pos)
  BY <1>2, UnitsAreKnown
<1>4. \A i \in 1 .. pos : Known(i)
  <2>1. \A i \in 1 .. pos : i \in 1 .. pos - 1 \/ i = pos
    BY <1>1
  <2> QED BY <1>3, <2>1 DEF UnitsInv, Taken
<1>5. NumberAt(pos + 1) = 0
  BY <1>1, <1>3, NumberAfterLetter
<1>6. ASSUME Proper, NumbersFit
      PROVE  /\ dur \in Nat /\ part \in Nat
             /\ SaidBefore(pos + 1) = dur + part /\ dur + part <= Meaning /\ Meaning \in Nat
  <2>1. num = NumberAt(pos) /\ dur = SaidBefore(pos)
    BY <1>1, <1>6 DEF UnitsInv, Taken
  <2>2. dur \in Nat /\ num \in Nat
    BY <1>1, <1>6, <2>1, SaidIsPart, NumbersAreSums DEF TypeInv
  <2>3. LengthOf[u] \in Nat
    <3>1. u \in 1 .. 8
      BY <1>2, UnitsAre
    <3> HIDE DEF u
    <3> QED BY <3>1, Lengths
  <2>4. part \in Nat
    <3>1. \A a \in Nat, b \in Nat : a * b \in Nat
      OBVIOUS
    <3> HIDE DEF u
    <3> QED BY <2>2, <2>3, <3>1
  <2>5. SaidBefore(pos + 1) = dur + part
    <3>1. CASE Suffix(pos)
      <4>1. pos \notin UnitsIn
        BY <3>1 DEF UnitsIn
      <4>2. LetterAt(pos - 1) /\ pos - 1 \in Nat
        <5> DEFINE before == pos - 1
        <5>1. pos > 1 /\ text[before] \in {"m", "u", "n"}
          BY <3>1 DEF Suffix
        <5>2. before \in Nat
          BY <1>1, <5>1
        <5> HIDE DEF before
        <5>3. LetterAt(before)
          BY <5>1, CharacterKinds
        <5> QED BY <5>2, <5>3 DEF before
      <4>3. NumberAt(pos - 1 + 1) = 0 /\ pos - 1 + 1 = pos
        BY <1>1, <4>2, NumberAfterLetter
      <4>4. num = 0
        BY <2>1, <4>3
      <4>5. part = 0
        <5> HIDE DEF u
        <5> QED BY <2>3, <4>4
      <4>6. SaidBefore(pos + 1) = SaidBefore(pos)
        BY <1>1, <1>6, <4>1, SaidIsPart DEF TypeInv
      <4> HIDE DEF part
      <4> QED BY <2>1, <2>2, <4>5, <4>6
    <3>2. CASE ~Suffix(pos)
      <4>1. pos \in UnitsIn
        BY <1>1, <1>3, <3>2 DEF UnitsIn
      <4>2. LengthAt(pos) = LengthOf[u]
        BY <1>1, <1>3, <3>2, UnitsAreLengths DEF TypeInv, NextTo
      <4>3. SaidBefore(pos + 1) = SaidBefore(pos) + NumberAt(pos) * LengthAt(pos)
        BY <1>1, <1>6, <4>1, SaidIsPart DEF TypeInv
      <4> QED BY <2>1, <4>2, <4>3
    <3> QED BY <3>1, <3>2
  <2>6. SaidBefore(pos + 1) <= Meaning /\ Meaning \in Nat
    <3>1. pos + 1 \in Nat /\ Len(text) + 1 \in Nat
      BY <1>1
    <3>2. SaidBefore(pos + 1) <= Meaning
      BY <1>6, <3>1, SaidIsPart DEF TypeInv
    <3>3. Meaning \in Nat
      <4>1. SaidBefore(Len(text) + 1) = Meaning
        BY <1>6, <3>1, SaidIsPart DEF TypeInv
      <4> QED BY <1>6, <3>1, <4>1, SaidIsPart DEF TypeInv
    <3> QED BY <3>2, <3>3
  <2> HIDE DEF part
  <2> QED BY <2>2, <2>4, <2>5, <2>6
<1> HIDE DEF u, part
<1>7. CASE fits /\ dur' = dur + part /\ num' = 0 /\ pos' = pos + 1 /\ status' = status
  <2>1. Proper /\ NumbersFit => num' = NumberAt(pos + 1) /\ dur' = SaidBefore(pos + 1)
    BY <1>5, <1>6, <1>7
  <2>2. pos \in Nat
    BY <1>1
  <2>3. Taken(pos + 1, num', dur', "reading")
    BY <1>4, <2>1, <2>2, TakenOneMore
  <2> QED BY <1>1, <1>7, <2>3, TakenKept
<1>8. CASE ~fits /\ status' = "panicked" /\ dur' = dur /\ num' = num /\ pos' = pos
  <2>1. ASSUME Proper, NumbersFit
        PROVE  Meaning > MaxDuration
    <3>1. MaxDuration \in Nat /\ MinDuration \in Int /\ MinDuration < 0
      BY Bounds
    <3>2. part > MaxDuration \/ dur + part > MaxDuration
      BY <1>6, <1>8, <2>1, <3>1
    <3> QED BY <1>6, <2>1, <3>1, <3>2
  <2>2. Taken(pos, num, dur, "panicked")
    BY <2>1 DEF UnitsInv, Taken
  <2> QED BY <1>1, <1>8, <2>2, TakenKept
<1> QED BY <1>2, <1>7, <1>8

LEMMA UnitsInvUnexpected ==
  TypeInv /\ UnitsInv /\ Unexpected => UnitsInv'
<1> SUFFICES ASSUME TypeInv, UnitsInv, Unexpected PROVE UnitsInv'
  OBVIOUS
<1>1. /\ AtChar /\ text[pos] # " " /\ ~IsDigit(text[pos]) /\ Unit(text[pos], NextTo(pos)) = 0
      /\ status' = "unexpected" /\ text' = text /\ pos' = pos /\ num' = num /\ dur' = dur
  BY Zenon DEF Unexpected, Char, Peek, NextTo
<1>2. LetterAt(pos)
  BY <1>1, CharacterKinds, Zenon
<1>3. ~Known(pos)
  BY <1>1, <1>2, UnitsAreKnown, Zenon
<1>4. /\ AtChar /\ status' = "unexpected" /\ text' = text /\ pos' = pos /\ num' = num /\ dur' = dur
  BY <1>1, Zenon
<1> HIDE <1>1
<1>5. pos \in DOMAIN text
  <2>1. DOMAIN text = 1 .. Len(text) /\ Len(text) \in Nat
    BY TextIndexed DEF TypeInv
  <2> QED BY <1>4, <2>1 DEF AtChar, TypeInv, TypeOK
<1>6. ~Proper
  BY <1>3, <1>5, ProperIsKnown
<1>7. Taken(pos, num, dur, "unexpected")
  BY <1>6 DEF UnitsInv, Taken
<1> QED BY <1>4, <1>7, TakenKept

LEMMA UnitsInvFinish ==
  TypeInv /\ UnitsInv /\ Finish => UnitsInv'
<1> SUFFICES ASSUME TypeInv, UnitsInv, Finish PROVE UnitsInv'
  OBVIOUS
<1>1. /\ status = "reading" /\ pos = Len(text) + 1 /\ Len(text) \in Nat
      /\ status' = IF dur < 0 THEN "negative" ELSE "done"
      /\ text' = text /\ pos' = pos /\ num' = num /\ dur' = dur
  BY TextIndexed DEF Finish, TypeInv
<1>2. ASSUME Proper, NumbersFit
      PROVE  num = NumberAt(pos) /\ dur = SaidBefore(pos) /\ dur \in Nat
  <2>1. num = NumberAt(pos) /\ dur = SaidBefore(pos)
    BY <1>1, <1>2 DEF UnitsInv, Taken
  <2>2. pos \in Nat
    BY <1>1
  <2> QED BY <1>2, <2>1, <2>2, SaidIsPart DEF TypeInv
<1>3. CASE dur < 0
  <2>1. ~(Proper /\ NumbersFit)
    BY <1>2, <1>3
  <2>2. Taken(pos, num, dur, "negative")
    BY <2>1 DEF UnitsInv, Taken
  <2> QED BY <1>1, <1>3, <2>2, TakenKept
<1>4. CASE ~(dur < 0)
  <2>1. Taken(pos, num, dur, "done")
    BY <1>1, <1>2 DEF UnitsInv, Taken
  <2> QED BY <1>1, <1>4, <2>1, TakenKept
<1> QED BY <1>3, <1>4

LEMMA UnitsInvIsReadsUnits == TypeInv /\ UnitsInv => ReadsUnits
<1> SUFFICES ASSUME TypeInv, UnitsInv PROVE ReadsUnits
  OBVIOUS
<1>1. Len(text) \in Nat /\ DOMAIN text = 1 .. Len(text)
  BY TextIndexed DEF TypeInv
<1>2. status = "done" => Proper
  <2> SUFFICES ASSUME status = "done" PROVE Proper
    OBVIOUS
  <2>1. pos = Len(text) + 1 /\ \A i \in 1 .. pos - 1 : Known(i)
    BY DEF UnitsInv, Taken
  <2>2. pos - 1 = Len(text)
    BY <1>1, <2>1
  <2> QED BY <1>1, <2>1, <2>2, ProperIsKnown
<1>3. ASSUME Proper, NumbersFit, status = "done"
      PROVE  dur = Meaning
  <2>1. dur = SaidBefore(pos) /\ pos = Len(text) + 1
    BY <1>3 DEF UnitsInv, Taken
  <2>2. SaidBefore(Len(text) + 1) = Meaning
    <3>1. Len(text) + 1 \in Nat
      BY <1>1
    <3> QED BY <1>3, <3>1, SaidIsPart DEF TypeInv
  <2> QED BY <2>1, <2>2
<1> QED BY <1>2, <1>3 DEF ReadsUnits, UnitsInv, Taken

(***************************************************************************)
(* What a text is read as, for texts of any length and units and integers  *)
(* of any size: only texts made of digits, spaces and units are accepted,  *)
(* the answer is the sum of what the units say, unless a number in it does *)
(* not fit its integer, and only too long a sum panics.                    *)
(***************************************************************************)
THEOREM TextsReadAsUnits == Spec => []ReadsUnits
<1>1. Init /\ TypeInv => UnitsInv
  BY UnitsInvInit
<1>2. TypeInv /\ UnitsInv /\ [Next]_vars => UnitsInv'
  <2> SUFFICES ASSUME TypeInv, UnitsInv, [Next]_vars PROVE UnitsInv'
    OBVIOUS
  <2>1. CASE UNCHANGED vars
    BY <2>1, TakenKept DEF vars, UnitsInv
  <2> QED BY <2>1, UnitsInvWhitespace, UnitsInvDigit, UnitsInvAddUnit,
             UnitsInvUnexpected, UnitsInvFinish DEF Next
<1> QED BY <1>1, <1>2, TypeInvariant, UnitsInvIsReadsUnits, PTL DEF Spec
-----------------------------------------------------------------------------
(* What was printed is read back.                                          *)

(* The numbers on the way, as a number's digits are read. *)
ReadsAs(v, n) ==
  LET size == Len(ToText[n]) IN
  /\ v \in [0 .. size -> 0 .. n] /\ v[0] = 0 /\ v[size] = n
  /\ \A i \in 1 .. size : /\ IsDigit(ToText[n][i])
                          /\ v[i] = v[i - 1] * 10 + DigitValue(ToText[n][i])

LEMMA ShortNumbersRead ==
  ASSUME NEW n \in 0 .. MaxInt, n < 10
  PROVE  \E v : ReadsAs(v, n)
<1> DEFINE v == [i \in 0 .. 1 |-> IF i = 0 THEN 0 ELSE n]
           s == <<Digits[n + 1]>>
<1>1. n \in 0 .. 9
  BY Bounds
<1>2. ToText[n] = s /\ Len(s) = 1 /\ s[1] = Digits[n + 1]
  BY NumbersAsText
<1>3. IsDigit(s[1]) /\ DigitValue(s[1]) = n
  BY <1>1, <1>2, DigitsCount
<1>4. v \in [0 .. 1 -> 0 .. n] /\ v[0] = 0 /\ v[1] = n
  BY <1>1
<1>5. \A i \in 1 .. 1 : IsDigit(s[i]) /\ v[i] = v[i - 1] * 10 + DigitValue(s[i])
  <2> SUFFICES ASSUME NEW i \in 1 .. 1
               PROVE  IsDigit(s[i]) /\ v[i] = v[i - 1] * 10 + DigitValue(s[i])
    OBVIOUS
  <2>1. i = 1 /\ i - 1 = 0
    OBVIOUS
  <2>2. n = 0 * 10 + n
    BY <1>1
  <2> HIDE DEF v, s
  <2> QED BY <1>3, <1>4, <2>1, <2>2
<1> HIDE DEF v, s
<1>6. ReadsAs(v, n)
  BY <1>2, <1>4, <1>5 DEF ReadsAs
<1> QED BY <1>6

LEMMA LongNumbersRead ==
  ASSUME NEW n \in 0 .. MaxInt, ~(n < 10), \E w : ReadsAs(w, n \div 10)
  PROVE  \E v : ReadsAs(v, n)
<1> DEFINE m == n \div 10
           last == n % 10
           s == ToText[m]
           t == ToText[n]
           size == Len(s)
<1>1. PICK w : ReadsAs(w, m)
  OBVIOUS
<1>2. n \in Nat /\ m \in Nat /\ m <= n /\ last \in 0 .. 9 /\ n = m * 10 + last
  <2>1. n \in Nat
    BY Bounds
  <2> QED BY <2>1, Division
<1>3. m \in 0 .. MaxInt /\ t = Append(s, Digits[last + 1])
  BY NumbersAsText
<1>4. s \in Seq(Alphabet)
  BY <1>3, NumbersAsText
<1>5. size \in Nat /\ Len(t) = size + 1 /\ t[size + 1] = Digits[last + 1]
      /\ \A i \in 1 .. size : t[i] = s[i]
  <2> HIDE DEF last, s, t
  <2> QED BY <1>3, <1>4
<1> DEFINE v == [i \in 0 .. size + 1 |-> IF i <= size THEN w[i] ELSE n]
<1>6. /\ w \in [0 .. size -> 0 .. m] /\ w[0] = 0 /\ w[size] = m
      /\ \A i \in 1 .. size : IsDigit(s[i]) /\ w[i] = w[i - 1] * 10 + DigitValue(s[i])
  BY <1>1 DEF ReadsAs
<1>7. IsDigit(t[size + 1]) /\ DigitValue(t[size + 1]) = last
  BY <1>2, <1>5, DigitsCount
<1> HIDE DEF m, last, s, t, size
<1>8. v \in [0 .. size + 1 -> 0 .. n]
  <2> SUFFICES ASSUME NEW i \in 0 .. size + 1 PROVE v[i] \in 0 .. n
    BY Zenon
  <2>1. CASE i <= size
    <3>1. i \in 0 .. size /\ v[i] = w[i]
      BY <1>5, <2>1
    <3>2. w[i] \in 0 .. m
      BY <1>6, <3>1
    <3> HIDE DEF v
    <3> QED BY <1>2, <3>1, <3>2
  <2>2. CASE ~(i <= size)
    BY <1>2, <2>2
  <2> QED BY <2>1, <2>2
<1>9. v[0] = 0 /\ v[size] = m /\ v[size + 1] = n
  BY <1>5, <1>6
<1>10. ASSUME NEW i \in 1 .. size + 1
       PROVE  IsDigit(t[i]) /\ v[i] = v[i - 1] * 10 + DigitValue(t[i])
  <2>1. CASE i = size + 1
    <3>1. i - 1 = size
      BY <1>5, <2>1
    <3> HIDE DEF v
    <3> QED BY <1>2, <1>7, <1>9, <2>1, <3>1
  <2>2. CASE i # size + 1
    <3>1. i \in 1 .. size /\ v[i] = w[i] /\ v[i - 1] = w[i - 1]
      BY <1>5, <2>2
    <3> HIDE DEF v
    <3> QED BY <1>5, <1>6, <3>1
  <2> QED BY <2>1, <2>2
<1> HIDE DEF v
<1>11. ReadsAs(v, n)
  BY <1>5, <1>8, <1>9, <1>10 DEF ReadsAs, t
<1> QED BY <1>11

LEMMA NumbersRead == \A n \in 0 .. MaxInt : \E v : ReadsAs(v, n)
<1> DEFINE C == {n \in Nat : n \in 0 .. MaxInt => \E v : ReadsAs(v, n)}
<1>1. ASSUME NEW n \in Nat, \A k \in Nat : k < n => k \in C
      PROVE  n \in C
  <2> SUFFICES ASSUME n \in 0 .. MaxInt PROVE \E v : ReadsAs(v, n)
    OBVIOUS
  <2>1. CASE n < 10
    BY <2>1, ShortNumbersRead
  <2>2. CASE ~(n < 10)
    <3>1. n \div 10 \in 0 .. MaxInt /\ n \div 10 < n /\ n \div 10 \in Nat
      BY <2>2, NumbersAsText
    <3>2. \E w : ReadsAs(w, n \div 10)
      BY <1>1, <3>1
    <3> QED BY <2>2, <3>2, LongNumbersRead
  <2> QED BY <2>1, <2>2
<1> HIDE DEF C
<1>2. \A n \in Nat : n \in C
  BY <1>1, NumbersInduct
<1>3. \A n \in 0 .. MaxInt : n \in Nat
  OBVIOUS
<1> QED BY <1>2, <1>3 DEF C

Progress(n) == CHOOSE v : ReadsAs(v, n)

LEMMA NumbersProgress ==
  ASSUME NEW n \in 0 .. MaxInt
  PROVE  /\ ReadsAs(Progress(n), n)
         /\ Len(ToText[n]) \in Nat
         /\ n # 0 => Len(ToText[n]) # 0
<1>1. ReadsAs(Progress(n), n)
  BY NumbersRead DEF Progress
<1>2. ToText[n] \in Seq(Alphabet)
  BY NumbersAsText
<1>3. Len(ToText[n]) \in Nat
  BY <1>2
<1>4. Progress(n)[0] = 0 /\ Progress(n)[Len(ToText[n])] = n
  BY <1>1 DEF ReadsAs
<1> QED BY <1>1, <1>3, <1>4

(* The sums of the first of eight numbers, of the first two, and so on. *)
Running(c) ==
  LET s2 == c[1]
      s3 == s2 + c[2]
      s4 == s3 + c[3]
      s5 == s4 + c[4]
      s6 == s5 + c[5]
      s7 == s6 + c[6]
      s8 == s7 + c[7]
  IN <<0, s2, s3, s4, s5, s6, s7, s8, s8 + c[8]>>

LEMMA RunningSums ==
  ASSUME NEW c \in [1 .. 8 -> Nat]
  PROVE  /\ Running(c)[1] = 0
         /\ \A k \in 1 .. 8 : Running(c)[k + 1] = Running(c)[k] + c[k]
         /\ \A k \in 1 .. 9 : Running(c)[k] \in Nat
<1> DEFINE g == Running(c)
<1>1. \A k \in 1 .. 8 : c[k] \in Nat
  OBVIOUS
<1>2. /\ g[1] = 0 /\ g[2] = c[1] /\ g[3] = g[2] + c[2] /\ g[4] = g[3] + c[3]
      /\ g[5] = g[4] + c[4] /\ g[6] = g[5] + c[5] /\ g[7] = g[6] + c[6]
      /\ g[8] = g[7] + c[7] /\ g[9] = g[8] + c[8]
  BY DEF Running
<1> HIDE DEF g
<1>3. g[2] \in Nat /\ g[2] = g[1] + c[1]
  BY <1>1, <1>2
<1>4. g[3] \in Nat
  BY <1>1, <1>2, <1>3
<1>5. g[4] \in Nat
  BY <1>1, <1>2, <1>4
<1>6. g[5] \in Nat
  BY <1>1, <1>2, <1>5
<1>7. g[6] \in Nat
  BY <1>1, <1>2, <1>6
<1>8. g[7] \in Nat
  BY <1>1, <1>2, <1>7
<1>9. g[8] \in Nat
  BY <1>1, <1>2, <1>8
<1>10. g[9] \in Nat
  BY <1>1, <1>2, <1>9
<1>11. \A k \in 1 .. 8 : k = 1 \/ k = 2 \/ k = 3 \/ k = 4 \/ k = 5 \/ k = 6 \/ k = 7 \/ k = 8
  OBVIOUS
<1>12. \A k \in 1 .. 8 : g[k + 1] = g[k] + c[k]
  BY <1>2, <1>3, <1>11
<1>13. \A k \in 1 .. 9 : g[k] \in Nat
  <2>1. \A k \in 1 .. 9 : k \in 1 .. 8 \/ k = 9
    OBVIOUS
  <2> QED BY <1>2, <1>3, <1>4, <1>5, <1>6, <1>7, <1>8, <1>9, <1>10, <1>11, <2>1
<1> QED BY <1>2, <1>12, <1>13 DEF g

(* Where each part of a printed duration starts, and what the parts before *)
(* it give.                                                                *)
StartOf(d) == Running([k \in 1 .. 8 |-> Len(Part(k, d))])
GivenBy(d) == Running([k \in 1 .. 8 |-> CountOf(k, d) * LengthOf[k]])

LEMMA PartsGive ==
  ASSUME NEW d \in 0 .. MaxDuration
  PROVE  /\ GivenBy(d)[1] = 0
         /\ \A k \in 1 .. 8 : /\ CountOf(k, d) * LengthOf[k] \in Nat
                              /\ GivenBy(d)[k + 1] = GivenBy(d)[k] + CountOf(k, d) * LengthOf[k]
         /\ \A k \in 1 .. 9 : GivenBy(d)[k] \in Nat
<1> DEFINE c == [k \in 1 .. 8 |-> CountOf(k, d) * LengthOf[k]]
<1>1. ASSUME NEW k \in 1 .. 8
      PROVE  CountOf(k, d) * LengthOf[k] \in Nat
  <2>1. CountOf(k, d) \in Nat /\ LengthOf[k] \in Nat
    BY CountsFit, Lengths
  <2>2. \A a \in Nat, b \in Nat : a * b \in Nat
    OBVIOUS
  <2> QED BY <2>1, <2>2
<1>2. c \in [1 .. 8 -> Nat] /\ \A k \in 1 .. 8 : c[k] = CountOf(k, d) * LengthOf[k]
  BY <1>1
<1>3. GivenBy(d) = Running(c)
  BY DEF GivenBy
<1> HIDE DEF c
<1> QED BY <1>1, <1>2, <1>3, RunningSums

LEMMA PartsStart ==
  ASSUME NEW d \in 0 .. MaxDuration
  PROVE  /\ StartOf(d)[1] = 0
         /\ \A k \in 1 .. 8 : /\ Len(Part(k, d)) \in Nat
                              /\ StartOf(d)[k + 1] = StartOf(d)[k] + Len(Part(k, d))
         /\ \A k \in 1 .. 9 : StartOf(d)[k] \in Nat
<1> DEFINE c == [k \in 1 .. 8 |-> Len(Part(k, d))]
<1>1. ASSUME NEW k \in 1 .. 8
      PROVE  Len(Part(k, d)) \in Nat
  <2>1. Part(k, d) \in Seq(Alphabet)
    BY PartIsText
  <2> QED BY <2>1
<1>2. c \in [1 .. 8 -> Nat] /\ \A k \in 1 .. 8 : c[k] = Len(Part(k, d))
  BY <1>1
<1>3. StartOf(d) = Running(c)
  BY DEF StartOf
<1> HIDE DEF c
<1> QED BY <1>1, <1>2, <1>3, RunningSums

LEMMA LettersAre ==
  ASSUME NEW k \in 1 .. 8
  PROVE  /\ k \in {1, 2, 3, 5} => /\ Letters(Units[k]) = <<Units[k]>>
                                  /\ Units[k] = CASE k = 1 -> "w" [] k = 2 -> "d" [] k = 3 -> "h" [] k = 5 -> "s"
         /\ k = 4 => Letters(Units[k]) = <<"m">>
         /\ k = 6 => Letters(Units[k]) = <<"m", "s">>
         /\ k = 7 => Letters(Units[k]) = <<"u", "s">>
         /\ k = 8 => Letters(Units[k]) = <<"n", "s">>
         /\ Len(Letters(Units[k])) = IF k < 6 THEN 1 ELSE 2
BY DEF Letters, Units

IsJoined(r, s, t) ==
  /\ Len(s) \in Nat /\ Len(t) \in Nat /\ Len(r) = Len(s) + Len(t)
  /\ \A i \in 1 .. Len(s) : r[i] = s[i]
  /\ \A i \in 1 .. Len(t) : r[Len(s) + i] = t[i]

LEMMA Joined ==
  ASSUME NEW S, NEW s \in Seq(S), NEW t \in Seq(S)
  PROVE  s \o t \in Seq(S) /\ IsJoined(s \o t, s, t)
<1>1. s \o t \in Seq(S) /\ Len(s) \in Nat /\ Len(t) \in Nat /\ Len(s \o t) = Len(s) + Len(t)
  OBVIOUS
<1>2. ASSUME NEW i \in 1 .. Len(s)
      PROVE  (s \o t)[i] = s[i]
  OBVIOUS
<1>3. ASSUME NEW i \in 1 .. Len(t)
      PROVE  (s \o t)[Len(s) + i] = t[i]
  OBVIOUS
<1> QED BY <1>1, <1>2, <1>3 DEF IsJoined

(* A part is the digits of a count and the letters of a unit, or nothing. *)
LEMMA PartsAre ==
  ASSUME NEW d \in 0 .. MaxDuration, NEW k \in 1 .. 8
  PROVE  LET size == Len(ToText[CountOf(k, d)])
             part == Part(k, d)
             letters == Letters(Units[k])
         IN /\ size \in Nat /\ CountOf(k, d) \in 0 .. MaxInt
            /\ CountOf(k, d) = 0 => Len(part) = 0
            /\ CountOf(k, d) # 0 =>
                 /\ size # 0
                 /\ Len(part) = size + IF k < 6 THEN 1 ELSE 2
                 /\ \A i \in 1 .. size : part[i] = ToText[CountOf(k, d)][i]
                 /\ \A i \in 1 .. Len(letters) : part[size + i] = letters[i]
<1> DEFINE c == CountOf(k, d)
           s == ToText[c]
           letters == Letters(Units[k])
<1>1. c \in 0 .. MaxInt /\ c \in Nat
  BY CountsFit, Bounds
<1>2. s \in Seq(Alphabet) /\ Len(s) \in Nat /\ (c # 0 => Len(s) # 0)
  BY <1>1, NumbersAsText, NumbersProgress
<1>3. letters \in Seq(Alphabet) /\ Len(letters) = IF k < 6 THEN 1 ELSE 2
  BY UnitLetters, LettersAre
<1>4. CASE c = 0
  BY <1>1, <1>2, <1>4 DEF Part
<1>5. CASE c # 0
  <2>1. Part(k, d) = s \o letters
    <3>1. CountOf(k, d) > 0
      BY <1>1, <1>5
    <3> QED BY <3>1, Zenon DEF Part
  <2> HIDE DEF s, letters, c
  <2>2. /\ Len(s \o letters) = Len(s) + Len(letters)
        /\ \A i \in 1 .. Len(s) : (s \o letters)[i] = s[i]
        /\ \A i \in 1 .. Len(letters) : (s \o letters)[Len(s) + i] = letters[i]
    <3>1. s \in Seq(Alphabet) /\ letters \in Seq(Alphabet)
      BY <1>2, <1>3
    <3>2. IsJoined(s \o letters, s, letters)
      BY <3>1, Joined, Zenon
    <3> QED BY <3>2, Zenon DEF IsJoined
  <2> QED BY <1>1, <1>2, <1>3, <1>5, <2>1, <2>2 DEF s, letters, c
<1> QED BY <1>4, <1>5

(* A part that starts where another does has nothing before it to give. *)
LEMMA StartsAscend ==
  ASSUME NEW d \in 0 .. MaxDuration, NEW j \in 1 .. 9, NEW k \in 1 .. 9, j <= k
  PROVE  /\ StartOf(d)[j] <= StartOf(d)[k]
         /\ StartOf(d)[j] = StartOf(d)[k] => GivenBy(d)[j] = GivenBy(d)[k]
<1> DEFINE S(i) == StartOf(d)[i]
           G(i) == GivenBy(d)[i]
           Asc(i) == S(j) <= S(i) /\ (S(j) = S(i) => G(j) = G(i))
           C == {n \in Nat : j + n <= k => Asc(j + n)}
<1>1. ASSUME NEW i \in 1 .. 8
      PROVE  /\ S(i) \in Nat /\ S(i + 1) \in Nat /\ G(i) \in Nat
             /\ S(i) <= S(i + 1) /\ (S(i) = S(i + 1) => G(i) = G(i + 1))
  <2>1. /\ S(i + 1) = S(i) + Len(Part(i, d)) /\ Len(Part(i, d)) \in Nat
        /\ S(i) \in Nat /\ G(i) \in Nat
        /\ G(i + 1) = G(i) + CountOf(i, d) * LengthOf[i]
    <3>1. i \in 1 .. 9 /\ i + 1 \in 1 .. 9
      OBVIOUS
    <3>2. /\ S(i + 1) = S(i) + Len(Part(i, d)) /\ Len(Part(i, d)) \in Nat /\ S(i) \in Nat
      BY <3>1, PartsStart
    <3>3. G(i) \in Nat /\ G(i + 1) = G(i) + CountOf(i, d) * LengthOf[i]
      BY <3>1, PartsGive
    <3> QED BY <3>2, <3>3
  <2>2. /\ CountOf(i, d) = 0 => Len(Part(i, d)) = 0
        /\ CountOf(i, d) # 0 => Len(Part(i, d)) # 0
    <3> DEFINE size == Len(ToText[CountOf(i, d)])
               more == IF i < 6 THEN 1 ELSE 2
    <3>1. size \in Nat /\ (CountOf(i, d) # 0 => Len(Part(i, d)) = size + more)
      BY PartsAre
    <3>2. CountOf(i, d) = 0 => Len(Part(i, d)) = 0
      BY PartsAre
    <3>3. more \in {1, 2}
      OBVIOUS
    <3> HIDE DEF size, more
    <3>4. size + more # 0
      BY <3>1, <3>3
    <3> QED BY <3>1, <3>2, <3>4
  <2>3. CountOf(i, d) = 0 => CountOf(i, d) * LengthOf[i] = 0
    <3>1. LengthOf[i] \in Nat
      BY Lengths
    <3> QED BY <3>1
  <2> HIDE DEF S, G
  <2> QED BY <2>1, <2>2, <2>3
<1>2. ASSUME NEW n \in Nat, \A m \in Nat : m < n => m \in C
      PROVE  n \in C
  <2> SUFFICES ASSUME j + n <= k PROVE Asc(j + n)
    OBVIOUS
  <2>1. CASE n = 0
    <3>1. S(j) \in Nat
      BY PartsStart
    <3> HIDE DEF S, G
    <3> QED BY <2>1, <3>1
  <2>2. CASE n # 0
    <3> DEFINE i == j + (n - 1)
    <3>1. n - 1 \in Nat /\ n - 1 < n /\ i <= k /\ i \in 1 .. 8 /\ j + n = i + 1
      BY <2>2
    <3>2. n - 1 \in C
      <4> HIDE DEF C
      <4> QED BY <1>2, <3>1
    <3>3. Asc(i)
      BY <3>1, <3>2
    <3> HIDE DEF i, C
    <3>4. S(j) \in Nat
      BY PartsStart
    <3>5. Asc(i + 1)
      <4>1. /\ S(i) \in Nat /\ S(i + 1) \in Nat
            /\ S(i) <= S(i + 1) /\ (S(i) = S(i + 1) => G(i) = G(i + 1))
        BY <1>1, <3>1
      <4> HIDE DEF S, G
      <4> QED BY <3>3, <3>4, <4>1
    <3> QED BY <3>1, <3>5
  <2> QED BY <2>1, <2>2
<1> HIDE DEF C
<1>3. k - j \in Nat /\ j + (k - j) = k
  OBVIOUS
<1>4. k - j \in C
  BY <1>2, <1>3, NumbersInduct
<1> QED BY <1>3, <1>4 DEF C

(* The parts follow each other in the text. *)
LaidOut(q, d, m) ==
  /\ q \in Seq(Alphabet) /\ Len(q) = StartOf(d)[m + 1]
  /\ \A k \in 1 .. m : \A i \in 1 .. Len(Part(k, d)) : q[StartOf(d)[k] + i] = Part(k, d)[i]

LEMMA OneMorePart ==
  ASSUME NEW d \in 0 .. MaxDuration, NEW m \in 0 .. 7, NEW q, LaidOut(q, d, m)
  PROVE  LaidOut(q \o Part(m + 1, d), d, m + 1)
<1> DEFINE p == Part(m + 1, d)
           r == q \o p
           S(k) == StartOf(d)[k]
<1>1. p \in Seq(Alphabet) /\ q \in Seq(Alphabet) /\ Len(q) = S(m + 1)
  <2>1. m + 1 \in 1 .. 8
    OBVIOUS
  <2> QED BY <2>1, PartIsText DEF LaidOut
<1>2. /\ r \in Seq(Alphabet) /\ Len(q) \in Nat /\ Len(p) \in Nat /\ Len(r) = Len(q) + Len(p)
      /\ \A i \in 1 .. Len(q) : r[i] = q[i]
      /\ \A i \in 1 .. Len(p) : r[Len(q) + i] = p[i]
  <2> HIDE DEF p
  <2>1. r \in Seq(Alphabet) /\ IsJoined(r, q, p)
    BY <1>1, Joined, Zenon
  <2> HIDE DEF r
  <2> QED BY <2>1, Zenon DEF IsJoined
<1>3. m + 1 \in 1 .. 8 /\ S(m + 1 + 1) = S(m + 1) + Len(p)
  <2>1. m + 1 \in 1 .. 8
    OBVIOUS
  <2> QED BY <2>1, PartsStart
<1> HIDE DEF r
<1>4. ASSUME NEW k \in 1 .. m + 1, NEW i \in 1 .. Len(Part(k, d))
      PROVE  r[S(k) + i] = Part(k, d)[i]
  <2>1. CASE k = m + 1
    BY <1>1, <1>2, <2>1
  <2>2. CASE k # m + 1
    <3>1. k \in 1 .. m /\ k \in 1 .. 8 /\ k + 1 <= m + 1 /\ k + 1 \in 1 .. 9 /\ m + 1 \in 1 .. 9 /\ k \in 1 .. 9
      BY <2>2
    <3>2. q[S(k) + i] = Part(k, d)[i]
      BY <3>1 DEF LaidOut
    <3>3. S(k + 1) = S(k) + Len(Part(k, d)) /\ Len(Part(k, d)) \in Nat /\ S(k) \in Nat
      BY <3>1, PartsStart
    <3>4. S(k + 1) <= S(m + 1)
      BY <3>1, StartsAscend
    <3>5. S(k) + i \in 1 .. Len(q)
      <4> HIDE DEF S, p
      <4> QED BY <1>1, <1>2, <3>3, <3>4
    <3> QED BY <1>2, <3>2, <3>5
  <2> QED BY <2>1, <2>2
<1> QED BY <1>1, <1>2, <1>3, <1>4 DEF LaidOut, r

LEMMA PartsLaidOut ==
  ASSUME NEW d \in 0 .. MaxDuration
  PROVE  LaidOut(PartsOf(d), d, 8)
<1> DEFINE p(k) == Part(k, d)
           Laid(q, m) == LaidOut(q, d, m)
           q2 == p(1) \o p(2)
           q3 == q2 \o p(3)
           q4 == q3 \o p(4)
           q5 == q4 \o p(5)
           q6 == q5 \o p(6)
           q7 == q6 \o p(7)
           q8 == q7 \o p(8)
<1>1. Laid(p(1), 1)
  <2>1. p(1) \in Seq(Alphabet)
    BY PartIsText
  <2>2. StartOf(d)[1] = 0 /\ Len(p(1)) \in Nat /\ StartOf(d)[1 + 1] = StartOf(d)[1] + Len(p(1))
    BY PartsStart
  <2> HIDE DEF p
  <2>3. Len(p(1)) = StartOf(d)[1 + 1] /\ \A i \in 1 .. Len(p(1)) : StartOf(d)[1] + i = i
    BY <2>2
  <2>4. \A k \in 1 .. 1 : k = 1
    OBVIOUS
  <2> QED BY <2>1, <2>3, <2>4 DEF LaidOut, p
<1>2. ASSUME NEW m \in 1 .. 7, NEW q, Laid(q, m)
      PROVE  Laid(q \o p(m + 1), m + 1)
  BY <1>2, OneMorePart
<1>3. /\ 1 + 1 = 2 /\ 2 + 1 = 3 /\ 3 + 1 = 4 /\ 4 + 1 = 5 /\ 5 + 1 = 6 /\ 6 + 1 = 7 /\ 7 + 1 = 8
      /\ 1 \in 1 .. 7 /\ 2 \in 1 .. 7 /\ 3 \in 1 .. 7 /\ 4 \in 1 .. 7
      /\ 5 \in 1 .. 7 /\ 6 \in 1 .. 7 /\ 7 \in 1 .. 7
  OBVIOUS
<1>4. PartsOf(d) = q8
  BY DEF PartsOf
<1> HIDE DEF p, Laid
<1>5. Laid(q2, 2)
  <2>1. Laid(p(1) \o p(1 + 1), 1 + 1)
    BY <1>1, <1>2, <1>3
  <2> QED BY <1>3, <2>1
<1> HIDE DEF q2
<1>6. Laid(q3, 3)
  <2>1. Laid(q2 \o p(2 + 1), 2 + 1)
    BY <1>2, <1>3, <1>5
  <2> QED BY <1>3, <2>1
<1> HIDE DEF q3
<1>7. Laid(q4, 4)
  <2>1. Laid(q3 \o p(3 + 1), 3 + 1)
    BY <1>2, <1>3, <1>6
  <2> QED BY <1>3, <2>1
<1> HIDE DEF q4
<1>8. Laid(q5, 5)
  <2>1. Laid(q4 \o p(4 + 1), 4 + 1)
    BY <1>2, <1>3, <1>7
  <2> QED BY <1>3, <2>1
<1> HIDE DEF q5
<1>9. Laid(q6, 6)
  <2>1. Laid(q5 \o p(5 + 1), 5 + 1)
    BY <1>2, <1>3, <1>8
  <2> QED BY <1>3, <2>1
<1> HIDE DEF q6
<1>10. Laid(q7, 7)
  <2>1. Laid(q6 \o p(6 + 1), 6 + 1)
    BY <1>2, <1>3, <1>9
  <2> QED BY <1>3, <2>1
<1> HIDE DEF q7
<1>11. Laid(q8, 8)
  <2>1. Laid(q7 \o p(7 + 1), 7 + 1)
    BY <1>2, <1>3, <1>10
  <2> QED BY <1>3, <2>1
<1> QED BY <1>4, <1>11 DEF Laid

(* Every character is in a part. *)
LEMMA InSomePart ==
  ASSUME NEW d \in 0 .. MaxDuration, NEW p \in 1 .. StartOf(d)[9]
  PROVE  \E k \in 1 .. 8 : StartOf(d)[k] < p /\ p <= StartOf(d)[k + 1]
<1> DEFINE S(k) == StartOf(d)[k]
           later == {k \in 1 .. 9 : p <= S(k)}
<1>1. 9 \in later /\ later \in SUBSET Nat
  <2>1. S(9) \in Nat /\ p <= S(9) /\ p \in Nat
    BY PartsStart
  <2> HIDE DEF S
  <2> QED BY <2>1
<1>2. PICK m \in later : \A k \in later : m <= k
  BY <1>1, Facts!LeastOf
<1>3. m \in 1 .. 9 /\ p <= S(m) /\ S(1) = 0 /\ S(m) \in Nat
  BY PartsStart
<1>4. m # 1
  <2> HIDE DEF S
  <2>1. ~(p <= 0)
    OBVIOUS
  <2> QED BY <1>3, <2>1
<1>5. m - 1 \in 1 .. 8 /\ m - 1 \in 1 .. 9 /\ m - 1 + 1 = m /\ ~(m <= m - 1)
  BY <1>3, <1>4
<1>6. m - 1 \notin later
  <2> HIDE DEF later
  <2> QED BY <1>2, <1>5
<1>7. S(m - 1) \in Nat
  BY <1>5, PartsStart
<1>8. ~(p <= S(m - 1)) /\ S(m - 1 + 1) = S(m)
  BY <1>5, <1>6
<1>9. S(m - 1) < p /\ p <= S(m - 1 + 1)
  <2> HIDE DEF S
  <2> QED BY <1>3, <1>7, <1>8
<1> QED BY <1>5, <1>9

(* Units of units. *)
LEMMA QuotientAndRest ==
  ASSUME NEW b \in Nat \ {0}, NEW q \in Nat, NEW r \in 0 .. b - 1
  PROVE  (q * b + r) \div b = q
OBVIOUS

LEMMA QuotientOfQuotient ==
  ASSUME NEW a \in Nat, NEW l \in Nat \ {0}, NEW p \in Nat \ {0}
  PROVE  /\ a \div (p * l) = (a \div l) \div p
         /\ (a \div l) * l = (a \div (p * l)) * (p * l) + ((a \div l) % p) * l
<1> DEFINE q == a \div l
           r == a % l
           u == q \div p
           w == q % p
           b == p * l
<1>1. q \in Nat /\ r \in 0 .. l - 1 /\ a = q * l + r
  BY Division
<1>2. u \in Nat /\ w \in 0 .. p - 1 /\ q = u * p + w
  <2> HIDE DEF q
  <2> QED BY <1>1, Division
<1>3. b \in Nat \ {0}
  BY Positive
<1> HIDE DEF q, r, u, w
<1>4. q * l = u * b + w * l
  <2>1. \A x \in Nat, y \in Nat : (x * p + y) * l = x * (p * l) + y * l
    OBVIOUS
  <2>2. w \in Nat
    BY <1>2
  <2> QED BY <1>2, <2>1, <2>2
<1>5. w * l + r \in 0 .. b - 1
  <2>1. w \in Nat /\ w + 1 <= p /\ p \in Nat
    BY <1>2
  <2>2. (w + 1) * l <= p * l
    BY <2>1
  <2>3. (w + 1) * l = w * l + l /\ w * l \in Nat
    BY <2>1
  <2>4. w * l + l <= b
    BY <2>2, <2>3
  <2> HIDE DEF b
  <2> QED BY <1>1, <1>3, <2>3, <2>4
<1>6. a = u * b + (w * l + r)
  <2>1. u * b \in Nat /\ w * l \in Nat /\ q * l \in Nat
    BY <1>1, <1>2, <1>3
  <2> HIDE DEF b
  <2> QED BY <1>1, <1>4, <2>1
<1>7. a \div b = u
  <2> HIDE DEF b
  <2>1. (u * b + (w * l + r)) \div b = u
    BY <1>2, <1>3, <1>5, QuotientAndRest
  <2> QED BY <1>6, <2>1
<1> QED BY <1>4, <1>7 DEF q, u, w

(* A duration in whole units. *)
InWhole(k, d) == (d \div LengthOf[k]) * LengthOf[k]

LEMMA WholeUnits ==
  ASSUME NEW d \in Nat, NEW k \in 1 .. 8
  PROVE  /\ InWhole(k, d) \in 0 .. d /\ d - InWhole(k, d) \in 0 .. LengthOf[k] - 1
         /\ k # 1 => /\ InWhole(k, d) = InWhole(k - 1, d)
                          + ((d \div LengthOf[k]) % PerUnit[Units[k]]) * LengthOf[k]
                     /\ InWhole(k - 1, d) <= InWhole(k, d)
<1> DEFINE l == LengthOf[k]
           q == d \div l
           w == q * l
<1>1. l \in Nat \ {0}
  BY Lengths
<1>2. q \in Nat /\ d % l \in 0 .. l - 1 /\ d = w + (d % l)
  <2> HIDE DEF l
  <2> QED BY <1>1, Division
<1>3. w \in Nat
  <2> HIDE DEF l, q
  <2> QED BY <1>1, <1>2
<1>4. w \in 0 .. d /\ d - w \in 0 .. l - 1
  <2> HIDE DEF w, l
  <2> QED BY <1>1, <1>2, <1>3
<1>5. ASSUME k # 1
      PROVE  /\ w = InWhole(k - 1, d) + (q % PerUnit[Units[k]]) * l
             /\ InWhole(k - 1, d) <= w
  <2> DEFINE p == PerUnit[Units[k]]
             v == InWhole(k - 1, d)
  <2>1. k \in 2 .. 8 /\ k - 1 \in 1 .. 8
    BY <1>5
  <2>2. p \in Nat \ {0} /\ LengthOf[k - 1] = p * l
    BY <2>1, Lengths
  <2>3. v = (d \div (p * l)) * (p * l)
    BY <2>2 DEF InWhole
  <2>4. w = v + (q % p) * l
    <3> HIDE DEF p, l, v
    <3> QED BY <1>1, <2>2, <2>3, QuotientOfQuotient
  <2>5. LengthOf[k - 1] \in Nat \ {0}
    BY <2>1, Lengths
  <2>6. v \in Nat
    <3> DEFINE m == LengthOf[k - 1]
    <3>1. d \div m \in Nat
      <4>1. m \in Nat \ {0}
        BY <2>5
      <4> HIDE DEF m
      <4> QED BY <4>1, Division
    <3>2. \A x \in Nat, y \in Nat : x * y \in Nat
      OBVIOUS
    <3> QED BY <2>5, <3>1, <3>2 DEF InWhole
  <2>7. (q % p) * l \in Nat
    <3>1. q % p \in Nat
      <4> HIDE DEF q, p
      <4> QED BY <1>2, <2>2, Division
    <3>2. \A x \in Nat, y \in Nat : x * y \in Nat
      OBVIOUS
    <3> QED BY <1>1, <3>1, <3>2
  <2> HIDE DEF w, v, q, l, p
  <2>8. v <= w
    BY <2>4, <2>6, <2>7
  <2> QED BY <2>4, <2>8 DEF p, v
<1> QED BY <1>4, <1>5 DEF InWhole

(* What is lost of a duration is less than a millisecond, and nothing is   *)
(* lost while its nanoseconds can be counted.                              *)
LEMMA PartsGiveBack ==
  ASSUME NEW d \in 0 .. MaxDuration
  PROVE  /\ \A k \in 1 .. 9 : GivenBy(d)[k] \in 0 .. d
         /\ d - GivenBy(d)[9] \in 0 .. LengthOf[6] - 1
         /\ d <= MaxInt => GivenBy(d)[9] = d
<1> DEFINE G(k) == GivenBy(d)[k]
           W(k) == InWhole(k, d)
           all(k) == d \div LengthOf[k]
           kept(k) == (all(k) % PerUnit[Units[k]]) * LengthOf[k]
<1>1. d \in Nat /\ MaxInt \in Nat
  BY Bounds
<1>2. \A k \in 1 .. 8 : W(k) \in 0 .. d
  BY <1>1, WholeUnits
<1>3. \A k \in 2 .. 8 : W(k) = W(k - 1) + kept(k)
  <2> SUFFICES ASSUME NEW k \in 2 .. 8 PROVE W(k) = W(k - 1) + kept(k)
    OBVIOUS
  <2>1. k \in 1 .. 8 /\ k # 1
    OBVIOUS
  <2> QED BY <1>1, <2>1, WholeUnits
<1>4. G(1) = 0 /\ \A k \in 1 .. 8 : G(k + 1) = G(k) + CountOf(k, d) * LengthOf[k]
  BY PartsGive
<1>5. G(2) = W(1)
  <2>1. CountOf(1, d) = all(1)
    BY DEF CountOf
  <2>2. 1 + 1 = 2 /\ 1 \in 1 .. 8
    OBVIOUS
  <2>3. G(2) = 0 + W(1)
    BY <1>4, <2>1, <2>2 DEF InWhole
  <2>4. W(1) \in Nat
    BY <1>2, <2>2
  <2> HIDE DEF G, W
  <2> QED BY <2>3, <2>4
<1>6. ASSUME NEW k \in 2 .. 8, G(k) = W(k - 1), k \in {7, 8} => all(k) <= MaxInt
      PROVE  G(k + 1) = W(k)
  <2>1. CountOf(k, d) = all(k) % PerUnit[Units[k]]
    <3>1. CASE k \in 2 .. 6
      <4>1. k # 1
        BY <3>1
      <4> QED BY <3>1, <4>1 DEF CountOf
    <3>2. CASE k \in {7, 8}
      <4>1. k # 1 /\ k \notin 2 .. 6
        BY <3>2
      <4>2. all(k) \in Nat
        <5>1. LengthOf[k] \in Nat \ {0}
          BY Lengths
        <5> QED BY <1>1, <5>1, Division
      <4>3. ~(all(k) > MaxInt)
        <5> HIDE DEF all
        <5> QED BY <1>1, <1>6, <3>2, <4>2
      <4> QED BY <3>2, <4>1, <4>3 DEF CountOf
    <3> QED BY <3>1, <3>2
  <2>2. G(k + 1) = G(k) + kept(k)
    BY <1>4, <2>1
  <2> HIDE DEF G, W, kept
  <2> QED BY <1>3, <1>6, <2>2
<1>7. /\ 2 + 1 = 3 /\ 3 + 1 = 4 /\ 4 + 1 = 5 /\ 5 + 1 = 6 /\ 6 + 1 = 7 /\ 7 + 1 = 8 /\ 8 + 1 = 9
      /\ 2 - 1 = 1 /\ 3 - 1 = 2 /\ 4 - 1 = 3 /\ 5 - 1 = 4 /\ 6 - 1 = 5 /\ 7 - 1 = 6 /\ 8 - 1 = 7
  OBVIOUS
<1>8. /\ 2 \in 2 .. 8 /\ 3 \in 2 .. 8 /\ 4 \in 2 .. 8 /\ 5 \in 2 .. 8 /\ 6 \in 2 .. 8
      /\ 7 \in 2 .. 8 /\ 8 \in 2 .. 8
      /\ 2 \notin {7, 8} /\ 3 \notin {7, 8} /\ 4 \notin {7, 8} /\ 5 \notin {7, 8} /\ 6 \notin {7, 8}
  OBVIOUS
<1>9. ASSUME NEW k \in {7, 8}, all(k) > MaxInt
      PROVE  G(k + 1) = G(k)
  <2>1. CountOf(k, d) = 0
    <3>1. k # 1 /\ k \notin 2 .. 6
      OBVIOUS
    <3> QED BY <1>9, <3>1 DEF CountOf
  <2>2. G(k + 1) = G(k) + 0 * LengthOf[k] /\ G(k) \in Nat /\ LengthOf[k] \in Nat
    BY <1>4, <2>1, PartsGive, Lengths
  <2> HIDE DEF G
  <2> QED BY <2>2
<1>10. all(8) = d /\ W(8) = d
  <2>1. LengthOf[8] = 1
    BY Lengths
  <2>2. d \div 1 = d /\ d * 1 = d
    BY <1>1
  <2> QED BY <2>1, <2>2 DEF InWhole
<1>11. all(7) \in Nat /\ all(7) <= d
  <2>1. LengthOf[7] \in Nat \ {0}
    BY Lengths
  <2> QED BY <1>1, <2>1, Division
<1>12. d - W(6) \in 0 .. LengthOf[6] - 1 /\ W(6) <= W(7)
  <2>1. 6 \in 1 .. 8 /\ 7 \in 1 .. 8 /\ 7 # 1
    OBVIOUS
  <2>2. d - W(6) \in 0 .. LengthOf[6] - 1
    BY <1>1, <2>1, WholeUnits
  <2>3. W(7 - 1) <= W(7)
    BY <1>1, <2>1, WholeUnits
  <2> QED BY <1>7, <2>2, <2>3
<1>13. LengthOf[6] \in Nat
  BY Lengths
<1> HIDE DEF G, W, all, kept
<1>14. G(3) = W(2) /\ G(4) = W(3)
  <2>1. G(2 + 1) = W(2)
    BY <1>5, <1>6, <1>7, <1>8
  <2>2. G(3 + 1) = W(3)
    BY <1>6, <1>7, <1>8, <2>1
  <2> QED BY <1>7, <2>1, <2>2
<1>15. G(5) = W(4) /\ G(6) = W(5)
  <2>1. G(4 + 1) = W(4)
    BY <1>6, <1>7, <1>8, <1>14
  <2>2. G(5 + 1) = W(5)
    BY <1>6, <1>7, <1>8, <2>1
  <2> QED BY <1>7, <2>1, <2>2
<1>16. G(7) = W(6)
  <2>1. G(6 + 1) = W(6)
    BY <1>6, <1>7, <1>8, <1>15
  <2> QED BY <1>7, <2>1
<1>17. G(8) = IF all(7) <= MaxInt THEN W(7) ELSE W(6)
  <2>1. CASE all(7) <= MaxInt
    <3>1. G(7 + 1) = W(7)
      BY <1>6, <1>7, <1>8, <1>16, <2>1
    <3> QED BY <1>7, <2>1, <3>1
  <2>2. CASE ~(all(7) <= MaxInt)
    <3>1. all(7) > MaxInt
      BY <1>1, <1>11, <2>2
    <3>2. G(7 + 1) = G(7)
      BY <1>9, <3>1
    <3> QED BY <1>7, <1>16, <2>2, <3>2
  <2> QED BY <2>1, <2>2
<1>18. d <= MaxInt => G(9) = d
  <2> SUFFICES ASSUME d <= MaxInt PROVE G(9) = d
    OBVIOUS
  <2>1. all(7) <= MaxInt /\ all(8) <= MaxInt
    BY <1>1, <1>10, <1>11
  <2>2. G(8) = W(8 - 1)
    BY <1>7, <1>17, <2>1
  <2>3. G(8 + 1) = W(8)
    BY <1>6, <1>8, <2>1, <2>2
  <2> QED BY <1>7, <1>10, <2>3
<1>19. ~(d <= MaxInt) => G(9) = G(8)
  <2> SUFFICES ASSUME ~(d <= MaxInt) PROVE G(9) = G(8)
    OBVIOUS
  <2>1. all(8) > MaxInt
    BY <1>1, <1>10
  <2>2. G(8 + 1) = G(8)
    BY <1>9, <2>1
  <2> QED BY <1>7, <2>2
<1>20. /\ W(1) \in 0 .. d /\ W(2) \in 0 .. d /\ W(3) \in 0 .. d /\ W(4) \in 0 .. d
       /\ W(5) \in 0 .. d /\ W(6) \in 0 .. d /\ W(7) \in 0 .. d
  BY <1>2
<1>21. G(8) \in 0 .. d /\ W(6) <= G(8)
  BY <1>1, <1>12, <1>17, <1>20
<1>22. G(9) \in 0 .. d /\ d - G(9) \in 0 .. LengthOf[6] - 1
  BY <1>1, <1>12, <1>13, <1>18, <1>19, <1>20, <1>21
<1>23. \A k \in 1 .. 9 : G(k) \in 0 .. d
  <2>1. \A k \in 1 .. 9 : \/ k = 1 \/ k = 2 \/ k = 3 \/ k = 4 \/ k = 5
                          \/ k = 6 \/ k = 7 \/ k = 8 \/ k = 9
    OBVIOUS
  <2>2. 0 \in 0 .. d
    BY <1>1
  <2> QED BY <1>4, <1>5, <1>14, <1>15, <1>16, <1>20, <1>21, <1>22, <2>1, <2>2
<1> QED BY <1>18, <1>22, <1>23 DEF G

(* How far a printed duration has been read: in a part's digits, in its    *)
(* letters, or at the end.                                                 *)
InPart(d, k, i, n, s) ==
  IF i <= Len(ToText[CountOf(k, d)])
  THEN n = Progress(CountOf(k, d))[i] /\ s = GivenBy(d)[k]
  ELSE n = 0 /\ s = GivenBy(d)[k + 1]

Halfway(d, p, n, s) ==
  /\ \A k \in 1 .. 8 : StartOf(d)[k] < p /\ p <= StartOf(d)[k + 1] =>
       InPart(d, k, p - 1 - StartOf(d)[k], n, s)
  /\ p = StartOf(d)[9] + 1 => n = 0 /\ s = GivenBy(d)[9]

LEMMA AtStart ==
  ASSUME NEW d \in 0 .. MaxDuration, NEW m \in 1 .. 9
  PROVE  Halfway(d, StartOf(d)[m] + 1, 0, GivenBy(d)[m])
<1> DEFINE S(k) == StartOf(d)[k]
           G(k) == GivenBy(d)[k]
           p == S(m) + 1
<1>1. \A k \in 1 .. 9 : S(k) \in Nat
  BY PartsStart
<1>2. ASSUME NEW k \in 1 .. 8, S(k) < p, p <= S(k + 1)
      PROVE  InPart(d, k, p - 1 - S(k), 0, G(m))
  <2>1. k \in 1 .. 9 /\ k + 1 \in 1 .. 9 /\ k \in Nat /\ m \in Nat
    OBVIOUS
  <2>2. m <= k
    <3> SUFFICES ASSUME ~(m <= k) PROVE FALSE
      OBVIOUS
    <3>1. k + 1 <= m
      BY <2>1
    <3>2. S(k + 1) <= S(m)
      BY <2>1, <3>1, StartsAscend
    <3>3. S(m) \in Nat /\ S(k + 1) \in Nat /\ S(m) + 1 <= S(k + 1)
      BY <1>1, <1>2, <2>1
    <3> HIDE DEF S
    <3> QED BY <3>2, <3>3
  <2>3. S(m) <= S(k) /\ (S(m) = S(k) => G(m) = G(k))
    BY <2>1, <2>2, StartsAscend
  <2>4. S(m) = S(k) /\ p - 1 - S(k) = 0
    <3>1. S(m) \in Nat /\ S(k) \in Nat /\ S(k) < S(m) + 1
      BY <1>1, <1>2, <2>1
    <3>2. p = S(m) + 1
      OBVIOUS
    <3> HIDE DEF S, p
    <3> QED BY <2>3, <3>1, <3>2
  <2>5. Len(ToText[CountOf(k, d)]) \in Nat /\ CountOf(k, d) \in 0 .. MaxInt
    BY PartsAre
  <2>6. Progress(CountOf(k, d))[0] = 0
    BY <2>5, NumbersProgress DEF ReadsAs
  <2> HIDE DEF S, G, p
  <2>7. InPart(d, k, 0, 0, GivenBy(d)[k])
    BY <2>5, <2>6 DEF InPart
  <2> QED BY <2>3, <2>4, <2>7 DEF G
<1>3. ASSUME p = S(9) + 1
      PROVE  G(m) = G(9)
  <2>1. 9 \in 1 .. 9 /\ m <= 9
    OBVIOUS
  <2>2. S(m) \in Nat /\ S(9) \in Nat /\ S(m) + 1 = S(9) + 1
    BY <1>1, <1>3, <2>1
  <2>3. S(m) = S(9)
    <3> HIDE DEF S
    <3> QED BY <2>2
  <2> QED BY <2>1, <2>3, StartsAscend
<1> QED BY <1>2, <1>3 DEF Halfway

(* One character further in a part. *)
LEMMA Onward ==
  ASSUME NEW d \in 0 .. MaxDuration, NEW k \in 1 .. 8, NEW p \in Nat,
         StartOf(d)[k] < p, p <= StartOf(d)[k + 1], NEW n, NEW s,
         InPart(d, k, p - StartOf(d)[k], n, s)
  PROVE  Halfway(d, p + 1, n, s)
<1> DEFINE S(j) == StartOf(d)[j]
           G(j) == GivenBy(d)[j]
           size == Len(ToText[CountOf(k, d)])
<1>1. \A j \in 1 .. 9 : S(j) \in Nat
  BY PartsStart
<1>2. k \in 1 .. 9 /\ k + 1 \in 1 .. 9 /\ k \in Nat
  OBVIOUS
<1>3. S(k) \in Nat /\ S(k + 1) \in Nat /\ S(k) < p /\ p <= S(k + 1)
  BY <1>1, <1>2
<1>4. CASE p = S(k + 1)
  <2>1. S(k + 1) = S(k) + Len(Part(k, d)) /\ Len(Part(k, d)) \in Nat
    BY PartsStart
  <2>2. p - S(k) = Len(Part(k, d)) /\ Len(Part(k, d)) # 0
    <3> HIDE DEF S
    <3> QED BY <1>3, <1>4, <2>1
  <2>3. size \in Nat /\ Len(Part(k, d)) = size + IF k < 6 THEN 1 ELSE 2
    BY <2>2, PartsAre
  <2>4. ~(p - S(k) <= size)
    <3> HIDE DEF size, S
    <3> QED BY <2>2, <2>3
  <2>5. n = 0 /\ s = GivenBy(d)[k + 1]
    BY <2>4 DEF InPart
  <2> HIDE DEF size
  <2>6. Halfway(d, S(k + 1) + 1, 0, GivenBy(d)[k + 1])
    BY <1>2, AtStart
  <2> QED BY <1>4, <2>5, <2>6
<1>5. CASE p # S(k + 1)
  <2>1. p < S(k + 1)
    <3> HIDE DEF S
    <3> QED BY <1>3, <1>5
  <2>2. ASSUME NEW j \in 1 .. 8, S(j) < p + 1, p + 1 <= S(j + 1)
        PROVE  j = k
    <3>1. j \in 1 .. 9 /\ j + 1 \in 1 .. 9 /\ j \in Nat
      OBVIOUS
    <3>2. S(j) \in Nat /\ S(j + 1) \in Nat
      BY <1>1, <3>1
    <3>3. ~(j + 1 <= k)
      <4> SUFFICES ASSUME j + 1 <= k PROVE FALSE
        OBVIOUS
      <4>1. S(j + 1) <= S(k)
        BY <1>2, <3>1, StartsAscend
      <4> HIDE DEF S
      <4> QED BY <1>3, <2>2, <3>2, <4>1
    <3>4. ~(k + 1 <= j)
      <4> SUFFICES ASSUME k + 1 <= j PROVE FALSE
        OBVIOUS
      <4>1. S(k + 1) <= S(j)
        BY <1>2, <3>1, StartsAscend
      <4> HIDE DEF S
      <4> QED BY <1>3, <2>1, <2>2, <3>2, <4>1
    <3> QED BY <1>2, <3>1, <3>3, <3>4
  <2> DEFINE q == p + 1
  <2>3. q - 1 - S(k) = p - S(k)
    <3>1. q = p + 1
      OBVIOUS
    <3> HIDE DEF S, q
    <3> QED BY <1>3, <3>1
  <2>4. p + 1 # S(9) + 1
    <3> SUFFICES ASSUME p + 1 = S(9) + 1 PROVE FALSE
      OBVIOUS
    <3>1. 9 \in 1 .. 9 /\ k + 1 <= 9
      OBVIOUS
    <3>2. S(k + 1) <= S(9) /\ S(9) \in Nat
      BY <1>1, <1>2, <3>1, StartsAscend
    <3> HIDE DEF S
    <3> QED BY <1>3, <2>1, <3>2
  <2>5. q # S(9) + 1 /\ \A j \in 1 .. 8 : S(j) < q /\ q <= S(j + 1) => j = k
    BY <2>2, <2>4
  <2> HIDE DEF q
  <2>6. ASSUME NEW j \in 1 .. 8, S(j) < q, q <= S(j + 1)
        PROVE  InPart(d, j, q - 1 - S(j), n, s)
    <3>1. j = k
      BY <2>5, <2>6
    <3> QED BY <2>3, <3>1
  <2>7. Halfway(d, q, n, s)
    BY <2>5, <2>6 DEF Halfway
  <2> QED BY <2>7 DEF q
<1> QED BY <1>4, <1>5

(* The character at a place in a part. *)
IsAt(d, k, p) ==
  LET c == CountOf(k, d)
      size == Len(ToText[c])
      letters == Letters(Units[k])
      i == p - StartOf(d)[k]
  IN /\ Len(text) = StartOf(d)[9] /\ p \in 1 .. Len(text)
     /\ c \in 1 .. MaxInt /\ size \in Nat \ {0} /\ i \in Nat \ {0}
     /\ i <= size => text[p] = ToText[c][i]
     /\ i > size => i - size \in 1 .. Len(letters) /\ text[p] = letters[i - size]

LEMMA PartOfText ==
  ASSUME NEW d \in 1 .. MaxDuration, text = TextOf(d), NEW k \in 1 .. 8, NEW p \in Nat,
         StartOf(d)[k] < p, p <= StartOf(d)[k + 1]
  PROVE  IsAt(d, k, p)
<1> DEFINE S(j) == StartOf(d)[j]
           c == CountOf(k, d)
           size == Len(ToText[c])
           letters == Letters(Units[k])
           i == p - S(k)
<1>1. d \in 0 .. MaxDuration /\ d > 0
  OBVIOUS
<1>2. text = PartsOf(d)
  BY <1>1 DEF TextOf
<1>3. /\ Len(text) = S(9)
      /\ \A j \in 1 .. Len(Part(k, d)) : text[S(k) + j] = Part(k, d)[j]
  <2>1. LaidOut(text, d, 8) /\ 8 + 1 = 9
    BY <1>1, <1>2, PartsLaidOut
  <2> QED BY <2>1 DEF LaidOut
<1>4. /\ S(k) \in Nat /\ S(k + 1) = S(k) + Len(Part(k, d)) /\ Len(Part(k, d)) \in Nat
      /\ S(9) \in Nat /\ S(k + 1) <= S(9) /\ S(k) < p /\ p <= S(k + 1)
  <2>1. k \in 1 .. 9 /\ k + 1 \in 1 .. 9 /\ 9 \in 1 .. 9 /\ k + 1 <= 9
    OBVIOUS
  <2>2. S(k) \in Nat /\ S(9) \in Nat /\ S(k + 1) = S(k) + Len(Part(k, d)) /\ Len(Part(k, d)) \in Nat
    BY <1>1, <2>1, PartsStart
  <2>3. S(k + 1) <= S(9)
    BY <1>1, <2>1, StartsAscend
  <2> QED BY <2>2, <2>3
<1> HIDE DEF S
<1>5. i \in 1 .. Len(Part(k, d)) /\ S(k) + i = p /\ p \in 1 .. Len(text)
  BY <1>3, <1>4
<1>6. text[p] = Part(k, d)[i]
  <2>1. text[S(k) + i] = Part(k, d)[i]
    BY <1>3, <1>5
  <2> QED BY <1>5, <2>1
<1>7. Len(Part(k, d)) # 0 /\ i \in Nat \ {0} /\ i <= Len(Part(k, d))
  BY <1>4, <1>5
<1> HIDE DEF i
<1>8. c \in 0 .. MaxInt /\ c # 0
  BY <1>1, <1>7, PartsAre
<1>9. /\ size \in Nat /\ size # 0
      /\ Len(Part(k, d)) = size + Len(letters)
      /\ \A j \in 1 .. size : Part(k, d)[j] = ToText[c][j]
      /\ \A j \in 1 .. Len(letters) : Part(k, d)[size + j] = letters[j]
  <2>1. Len(letters) = IF k < 6 THEN 1 ELSE 2
    BY LettersAre
  <2>2. size \in Nat /\ size # 0 /\ Len(Part(k, d)) = size + IF k < 6 THEN 1 ELSE 2
    BY <1>1, <1>8, PartsAre
  <2>3. \A j \in 1 .. size : Part(k, d)[j] = ToText[c][j]
    BY <1>1, <1>8, PartsAre
  <2>4. \A j \in 1 .. Len(letters) : Part(k, d)[size + j] = letters[j]
    BY <1>1, <1>8, PartsAre
  <2> QED BY <2>1, <2>2, <2>3, <2>4
<1>10. Len(letters) \in Nat
  <2>1. letters \in Seq(Alphabet)
    BY UnitLetters
  <2> QED BY <2>1
<1>11. c \in 1 .. MaxInt
  BY <1>8, Bounds
<1> HIDE DEF c, size, letters
<1>12. i <= size => text[p] = ToText[c][i]
  BY <1>6, <1>7, <1>9
<1>13. i > size => i - size \in 1 .. Len(letters) /\ text[p] = letters[i - size]
  <2> SUFFICES ASSUME i > size PROVE i - size \in 1 .. Len(letters) /\ text[p] = letters[i - size]
    OBVIOUS
  <2>1. i - size \in 1 .. Len(letters) /\ size + (i - size) = i
    BY <1>7, <1>9, <1>10
  <2> QED BY <1>6, <1>9, <2>1
<1>14. size \in Nat \ {0}
  BY <1>9
<1> QED BY <1>3, <1>5, <1>7, <1>11, <1>12, <1>13, <1>14 DEF IsAt, S, c, size, letters, i

(* The text after a part starts with a digit. *)
LEMMA DigitAfterPart ==
  ASSUME NEW d \in 1 .. MaxDuration, text = TextOf(d), NEW m \in 1 .. 9,
         StartOf(d)[m] < StartOf(d)[9]
  PROVE  IsDigit(text[StartOf(d)[m] + 1])
<1> DEFINE S(j) == StartOf(d)[j]
           p == S(m) + 1
<1>1. d \in 0 .. MaxDuration /\ 9 \in 1 .. 9
  OBVIOUS
<1>2. S(m) \in Nat /\ S(9) \in Nat /\ S(m) < S(9)
  BY <1>1, PartsStart
<1>3. p \in 1 .. S(9) /\ p \in Nat
  <2> HIDE DEF S
  <2> QED BY <1>2
<1>4. PICK k \in 1 .. 8 : S(k) < p /\ p <= S(k + 1)
  <2> HIDE DEF p
  <2> QED BY <1>1, <1>3, InSomePart
<1>5. k \in 1 .. 9 /\ k + 1 \in 1 .. 9 /\ k \in Nat /\ m \in Nat
  OBVIOUS
<1>6. S(k) \in Nat /\ S(k + 1) \in Nat
  BY <1>1, <1>5, PartsStart
<1>7. m <= k
  <2> SUFFICES ASSUME ~(m <= k) PROVE FALSE
    OBVIOUS
  <2>1. k + 1 <= m
    BY <1>5
  <2>2. S(k + 1) <= S(m)
    BY <1>1, <1>5, <2>1, StartsAscend
  <2>3. p = S(m) + 1
    OBVIOUS
  <2> HIDE DEF S, p
  <2> QED BY <1>2, <1>4, <1>6, <2>2, <2>3
<1>8. p - S(k) = 1
  <2>1. S(m) <= S(k)
    BY <1>1, <1>5, <1>7, StartsAscend
  <2>2. p = S(m) + 1
    OBVIOUS
  <2> HIDE DEF S, p
  <2> QED BY <1>2, <1>4, <1>6, <2>1, <2>2
<1> DEFINE c == CountOf(k, d)
<1> HIDE DEF p
<1>9. c \in 1 .. MaxInt /\ Len(ToText[c]) \in Nat \ {0} /\ text[p] = ToText[c][1]
  <2>1. /\ c \in 1 .. MaxInt /\ Len(ToText[c]) \in Nat \ {0}
        /\ p - S(k) <= Len(ToText[c]) => text[p] = ToText[c][p - S(k)]
    <3>1. IsAt(d, k, p)
      BY <1>3, <1>4, PartOfText
    <3> QED BY <3>1 DEF IsAt
  <2> HIDE DEF S, c
  <2>2. 1 <= Len(ToText[c])
    BY <2>1
  <2> QED BY <1>8, <2>1, <2>2
<1>10. IsDigit(ToText[c][1])
  <2> HIDE DEF c
  <2>1. c \in 0 .. MaxInt /\ 1 \in 1 .. Len(ToText[c])
    BY <1>9
  <2> QED BY <2>1, NumbersProgress DEF ReadsAs
<1> QED BY <1>9, <1>10 DEF p

LEMMA PartUnits ==
  ASSUME NEW d \in 1 .. MaxDuration, text = TextOf(d), NEW k \in 1 .. 8, NEW p \in Nat,
         StartOf(d)[k] < p, p <= StartOf(d)[k + 1],
         p - StartOf(d)[k] > Len(ToText[CountOf(k, d)])
  PROVE  Unit(text[p], NextTo(p))
           = IF p - StartOf(d)[k] = Len(ToText[CountOf(k, d)]) + 1 THEN k ELSE 5
<1> DEFINE S(j) == StartOf(d)[j]
           size == Len(ToText[CountOf(k, d)])
           letters == Letters(Units[k])
           i == p - S(k)
<1>1. d \in 0 .. MaxDuration
  OBVIOUS
<1>2. /\ Len(text) = S(9) /\ p \in 1 .. Len(text) /\ size \in Nat \ {0} /\ i \in Nat \ {0}
      /\ i - size \in 1 .. Len(letters) /\ text[p] = letters[i - size]
  <2>1. IsAt(d, k, p)
    BY PartOfText
  <2> QED BY <2>1 DEF IsAt
<1>3. Len(letters) = IF k < 6 THEN 1 ELSE 2
  BY LettersAre
<1>4. /\ S(k) \in Nat /\ S(k + 1) = S(k) + (size + Len(letters)) /\ S(9) \in Nat
      /\ S(k + 1) <= S(9) /\ S(k + 1) \in Nat
  <2>1. k \in 1 .. 9 /\ k + 1 \in 1 .. 9 /\ 9 \in 1 .. 9 /\ k + 1 <= 9
    OBVIOUS
  <2>2. /\ S(k) \in Nat /\ S(9) \in Nat /\ S(k + 1) \in Nat
        /\ S(k + 1) = S(k) + Len(Part(k, d)) /\ Len(Part(k, d)) \in Nat
    BY <1>1, <2>1, PartsStart
  <2>3. S(k + 1) <= S(9)
    BY <1>1, <2>1, StartsAscend
  <2>4. Len(Part(k, d)) # 0
    <3>1. S(k) < p /\ p <= S(k + 1)
      OBVIOUS
    <3> HIDE DEF S
    <3> QED BY <2>2, <3>1
  <2>5. Len(Part(k, d)) = size + IF k < 6 THEN 1 ELSE 2
    BY <1>1, <2>4, PartsAre
  <2> HIDE DEF S, size
  <2> QED BY <1>3, <2>2, <2>3, <2>5
<1>5. CASE i = size + 1
  <2>1. text[p] = letters[1]
    <3>1. i - size = 1
      <4> HIDE DEF i, size
      <4> QED BY <1>2, <1>5
    <3> QED BY <1>2, <3>1
  <2>2. CASE k \in {1, 2, 3, 5}
    <3>1. text[p] = CASE k = 1 -> "w" [] k = 2 -> "d" [] k = 3 -> "h" [] k = 5 -> "s"
      BY <2>1, <2>2, LettersAre
    <3>2. Unit(text[p], NextTo(p)) = k
      BY <2>2, <3>1, UnitsAre
    <3> QED BY <1>5, <3>2
  <2>3. CASE k = 4
    <3>1. text[p] = "m"
      BY <2>1, <2>3, LettersAre
    <3>2. NextTo(p) # "s"
      <4>1. p = S(5) /\ 5 \in 1 .. 9
        <5>1. S(4 + 1) = S(4) + (size + 1) /\ p - S(4) = size + 1 /\ S(4) \in Nat /\ 4 + 1 = 5
          BY <1>3, <1>4, <1>5, <2>3
        <5> HIDE DEF S, size
        <5> QED BY <1>2, <5>1
      <4>2. p < Len(text) => IsDigit(text[p + 1])
        BY <1>2, <4>1, DigitAfterPart
      <4> QED BY <4>2, DigitsCount DEF NextTo
    <3>3. Unit(text[p], NextTo(p)) = 4
      BY <3>1, <3>2, UnitsAre
    <3> QED BY <1>5, <2>3, <3>3
  <2>4. CASE k \in {6, 7, 8}
    <3>1. text[p] = (IF k = 6 THEN "m" ELSE IF k = 7 THEN "u" ELSE "n") /\ letters[2] = "s"
      BY <2>1, <2>4, LettersAre
    <3>2. p + 1 \in Nat /\ S(k) < p + 1 /\ p + 1 <= S(k + 1) /\ p + 1 - S(k) = size + 2
      <4>1. i = p - S(k)
        OBVIOUS
      <4>2. Len(letters) = 2
        BY <1>3, <2>4
      <4>3. S(k + 1) = S(k) + (size + 2)
        BY <1>4, <4>2
      <4>4. S(k) \in Nat /\ size \in Nat /\ i \in Nat
        BY <1>2, <1>4
      <4>5. i = size + 1 /\ S(k) < p
        BY <1>5
      <4> HIDE DEF S, size, i
      <4> QED BY <4>1, <4>3, <4>4, <4>5
    <3>3. p + 1 \in 1 .. Len(text) /\ text[p + 1] = letters[2]
      <4> DEFINE q == p + 1
      <4>1. q \in Nat /\ S(k) < q /\ q <= S(k + 1) /\ q - S(k) = size + 2
        <5>1. q = p + 1
          OBVIOUS
        <5> HIDE DEF S, size, q
        <5> QED BY <1>4, <3>2, <5>1
      <4> HIDE DEF q
      <4>2. q - S(k) > size /\ q - S(k) - size = 2
        <5> HIDE DEF S, size
        <5> QED BY <1>2, <4>1
      <4>3. q \in 1 .. Len(text) /\ text[q] = letters[q - S(k) - size]
        <5>1. IsAt(d, k, q)
          BY <4>1, PartOfText
        <5> QED BY <4>2, <5>1 DEF IsAt
      <4> QED BY <4>2, <4>3 DEF q
    <3>4. NextTo(p) = "s"
      <4>1. p < Len(text)
        BY <1>2, <1>4, <3>3
      <4> QED BY <3>1, <3>3, <4>1 DEF NextTo
    <3>5. Unit(text[p], NextTo(p)) = k
      BY <2>4, <3>1, <3>4, UnitsAre
    <3> QED BY <1>5, <3>5
  <2> QED BY <2>2, <2>3, <2>4
<1>6. CASE i # size + 1
  <2>1. i - size = 2 /\ ~(k < 6)
    <3> HIDE DEF i, size, letters
    <3> QED BY <1>2, <1>3, <1>6
  <2>2. text[p] = letters[2] /\ k \in {6, 7, 8}
    BY <1>2, <2>1
  <2>3. text[p] = "s"
    BY <2>2, LettersAre
  <2>4. Unit(text[p], NextTo(p)) = 5
    BY <2>3, UnitsAre
  <2> QED BY <1>6, <2>4
<1> QED BY <1>5, <1>6

(* The character decides which action is taken. *)
LEMMA CharacterDecides ==
  ASSUME IsText(text), status = "reading", Next
  PROVE  /\ pos \in 1 .. Len(text) /\ IsDigit(text[pos]) => Digit
         /\ pos \in 1 .. Len(text) /\ Unit(text[pos], NextTo(pos)) # 0 => AddUnit
         /\ pos \in 1 .. Len(text) /\ text[pos] = "-" => Unexpected
         /\ pos = Len(text) + 1 => Finish
<1>1. Len(text) \in Nat
  BY TextIndexed
<1>2. ASSUME pos \in 1 .. Len(text)
      PROVE  ~Finish
  BY <1>1, <1>2 DEF Finish
<1>3. ASSUME pos = Len(text) + 1
      PROVE  ~AtChar
  BY <1>1, <1>3 DEF AtChar
<1>4. ASSUME IsDigit(text[pos])
      PROVE  text[pos] # " " /\ Unit(text[pos], NextTo(pos)) = 0
  <2>1. text[pos] # " "
    BY <1>4, CharacterKinds, Zenon
  <2>2. text[pos] \notin {"w", "d", "h", "m", "s", "u", "n"}
    BY <1>4, DigitsCount
  <2>3. Unit(text[pos], NextTo(pos)) = 0
    BY <2>2, UnitsAre
  <2> QED BY <2>1, <2>3, Zenon
<1>5. ASSUME Unit(text[pos], NextTo(pos)) # 0
      PROVE  text[pos] # " " /\ ~IsDigit(text[pos])
  BY <1>5, UnitsAreKnown, CharacterKinds, Zenon
<1>6. ASSUME text[pos] = "-"
      PROVE  text[pos] # " " /\ ~IsDigit(text[pos]) /\ Unit(text[pos], NextTo(pos)) = 0
  <2>1. text[pos] # " "
    BY <1>6, Zenon
  <2>2. ~IsDigit(text[pos])
    BY <1>6, DigitsCount
  <2>3. Unit(text[pos], NextTo(pos)) = 0
    BY <1>6, UnitsAre
  <2> QED BY <2>1, <2>2, <2>3, Zenon
<1>7. /\ Whitespace => text[pos] = " " /\ AtChar
      /\ Digit => IsDigit(text[pos]) /\ AtChar
      /\ AddUnit => Unit(text[pos], NextTo(pos)) # 0 /\ AtChar
      /\ Unexpected => /\ ~IsDigit(text[pos]) /\ Unit(text[pos], NextTo(pos)) = 0 /\ AtChar
  BY Zenon DEF Whitespace, Digit, AddUnit, Unexpected, Char, Peek, NextTo
<1> QED BY <1>2, <1>3, <1>4, <1>5, <1>6, <1>7, Zenon DEF Next

(* Reading a duration that was printed. *)
PrintedInv ==
  \A k \in DOMAIN source :
    LET d == source[k] IN
    /\ text = TextOf(d)
    /\ d > 0 => \/ status = "reading" /\ Halfway(d, pos, num, dur)
                \/ status = "done" /\ dur = GivenBy(d)[9]
    /\ d < 0 => \/ status = "reading" /\ pos = 1
                \/ status = "unexpected"
    /\ d = 0 => status \in {"reading", "done"} /\ num = 0 /\ dur = 0

LEMMA SourceIsPrinted ==
  ASSUME TypeOK, NEW k \in DOMAIN source
  PROVE  source[k] \in -MaxDuration .. MaxDuration /\ source[k] \in Int
<1>1. source \in Seq(Printed)
  BY DEF TypeOK, NotPrinted
<1>2. source[k] \in Printed
  BY <1>1
<1>3. source[k] \in -MaxDuration .. MaxDuration
  BY <1>2, DurationTextAssumption
<1> QED BY <1>3, Bounds

LEMMA NegativeText ==
  ASSUME NEW d \in -MaxDuration .. MaxDuration, d < 0
  PROVE  1 \in 1 .. Len(TextOf(d)) /\ TextOf(d)[1] = "-"
<1>1. d \in Int /\ -d \in 0 .. MaxDuration
  BY Bounds
<1>2. TextOf(d) = <<"-">> \o PartsOf(-d)
  BY <1>1 DEF TextOf
<1>3. PartsOf(-d) \in Seq(Alphabet)
  BY <1>1, PartsLaidOut DEF LaidOut
<1>4. "-" \in Alphabet
  BY DEF Alphabet
<1>5. <<"-">> \in Seq(Alphabet) /\ Len(<<"-">>) = 1 /\ <<"-">>[1] = "-"
  BY <1>4
<1> DEFINE s == <<"-">>
           t == PartsOf(-d)
<1> HIDE DEF s, t
<1>6. s \in Seq(Alphabet) /\ t \in Seq(Alphabet) /\ Len(s) = 1 /\ s[1] = "-" /\ TextOf(d) = s \o t
  BY <1>2, <1>3, <1>5 DEF s, t
<1>7. IsJoined(s \o t, s, t)
  BY <1>6, Joined, Zenon
<1>8. IsJoined(TextOf(d), s, t)
  BY <1>6, <1>7
<1> QED BY <1>6, <1>8 DEF IsJoined

LEMMA PrintedInvInit == Init /\ TypeInv => PrintedInv
<1> SUFFICES ASSUME Init, TypeInv, NEW k \in DOMAIN source
             PROVE  LET d == source[k] IN
                    /\ text = TextOf(d)
                    /\ d > 0 => Halfway(d, pos, num, dur)
                    /\ pos = 1 /\ num = 0 /\ dur = 0 /\ status = "reading"
  BY DEF PrintedInv
<1>1. pos = 1 /\ num = 0 /\ dur = 0 /\ status = "reading"
  BY DEF Init
<1>2. PICK e \in Printed : source = <<e>> /\ text = TextOf(e)
  BY DEF Init, NotPrinted
<1>3. source[k] = e
  BY <1>2
<1>4. ASSUME e > 0
      PROVE  Halfway(e, pos, num, dur)
  <2>1. e \in 0 .. MaxDuration
    <3>1. e \in -MaxDuration .. MaxDuration
      BY <1>2, DurationTextAssumption
    <3> QED BY <1>4, <3>1, Bounds
  <2>2. StartOf(e)[1] = 0 /\ GivenBy(e)[1] = 0 /\ 1 \in 1 .. 9
    BY <2>1, PartsStart, PartsGive
  <2>3. Halfway(e, StartOf(e)[1] + 1, 0, GivenBy(e)[1])
    BY <2>1, <2>2, AtStart
  <2>4. 0 + 1 = 1
    OBVIOUS
  <2> QED BY <1>1, <2>2, <2>3, <2>4
<1> QED BY <1>1, <1>2, <1>3, <1>4

(* One step of reading a positive duration. *)
LEMMA PrintedStep ==
  ASSUME TypeInv, Next, status = "reading",
         NEW d \in 1 .. MaxDuration, text = TextOf(d), Halfway(d, pos, num, dur)
  PROVE  \/ status' = "reading" /\ Halfway(d, pos', num', dur')
         \/ status' = "done" /\ dur' = GivenBy(d)[9]
<1> DEFINE S(k) == StartOf(d)[k]
           G(k) == GivenBy(d)[k]
<1>1. d \in 0 .. MaxDuration
  OBVIOUS
<1>2. IsText(text) /\ Len(text) \in Nat /\ pos \in 1 .. Len(text) + 1 /\ pos \in Nat
  BY TextIndexed DEF TypeInv, TypeOK
<1>3. Len(text) = S(9)
  <2>1. text = PartsOf(d) /\ 8 + 1 = 9
    BY DEF TextOf
  <2> QED BY <1>1, <2>1, PartsLaidOut DEF LaidOut
<1>4. CASE pos = Len(text) + 1
  <2>1. Finish
    BY <1>2, <1>4, CharacterDecides
  <2>2. dur = G(9) /\ G(9) \in Nat
    <3>1. 9 \in 1 .. 9
      OBVIOUS
    <3> QED BY <1>1, <1>3, <1>4, <3>1, PartsGive DEF Halfway
  <2>3. ~(dur < 0)
    <3> HIDE DEF G
    <3> QED BY <2>2
  <2> QED BY <2>1, <2>2, <2>3 DEF Finish
<1>5. CASE pos # Len(text) + 1
  <2>1. pos \in 1 .. Len(text)
    BY <1>2, <1>5
  <2>2. PICK k \in 1 .. 8 : S(k) < pos /\ pos <= S(k + 1)
    BY <1>1, <1>3, <2>1, InSomePart
  <2> DEFINE c == CountOf(k, d)
             s == ToText[c]
             size == Len(s)
             i == pos - S(k)
             v == Progress(c)
  <2>3. /\ c \in 1 .. MaxInt /\ size \in Nat \ {0} /\ i \in Nat \ {0}
        /\ i <= size => text[pos] = s[i]
    <3>1. IsAt(d, k, pos)
      BY <1>2, <2>2, PartOfText
    <3> QED BY <3>1 DEF IsAt
  <2>4. ReadsAs(v, c) /\ c \in 0 .. MaxInt
    BY <2>3, NumbersProgress
  <2>5. InPart(d, k, i - 1, num, dur)
    <3>1. InPart(d, k, pos - 1 - S(k), num, dur)
      BY <2>2 DEF Halfway
    <3>2. pos - 1 - S(k) = i - 1
      <4>1. k \in 1 .. 9
        OBVIOUS
      <4>2. S(k) \in Nat /\ i = pos - S(k)
        BY <1>1, <4>1, PartsStart
      <4> HIDE DEF S, i
      <4> QED BY <1>2, <4>2
    <3> HIDE DEF i
    <3> QED BY <3>1, <3>2
  <2>6. ASSUME NEW n, NEW t, InPart(d, k, i, n, t)
        PROVE  Halfway(d, pos + 1, n, t)
    BY <1>1, <1>2, <2>2, <2>6, Onward
  <2>7. /\ G(k) \in 0 .. d /\ G(k + 1) \in 0 .. d
        /\ G(k + 1) = G(k) + c * LengthOf[k] /\ c * LengthOf[k] \in Nat
    <3>1. k \in 1 .. 9 /\ k + 1 \in 1 .. 9
      OBVIOUS
    <3> QED BY <1>1, <3>1, PartsGive, PartsGiveBack
  <2>8. MaxDuration \in Nat /\ MinDuration \in Int /\ MinDuration < 0 /\ d \in Nat /\ d <= MaxDuration
    BY <1>1, Bounds
  <2>9. i - 1 <= size => num = v[i - 1] /\ dur = G(k)
    BY <2>5 DEF InPart
  <2>10. ~(i - 1 <= size) => num = 0 /\ dur = G(k + 1)
    BY <2>5 DEF InPart
  <2>11. i > size => Unit(text[pos], NextTo(pos)) = IF i = size + 1 THEN k ELSE 5
    BY <1>2, <2>2, PartUnits
  <2>12. ASSUME i <= size
         PROVE  status' = "reading" /\ Halfway(d, pos', num', dur')
    <3>1. i \in 1 .. size /\ i - 1 <= size
      <4> HIDE DEF i, size
      <4> QED BY <2>3, <2>12
    <3>2. /\ IsDigit(s[i]) /\ v[i] = v[i - 1] * 10 + DigitValue(s[i])
          /\ v[i] \in 0 .. c
      <4>1. i \in 0 .. size
        <5> HIDE DEF i, size
        <5> QED BY <2>3, <3>1
      <4> HIDE DEF i
      <4> QED BY <2>4, <3>1, <4>1 DEF ReadsAs
    <3>3. text[pos] = s[i]
      BY <2>3, <2>12
    <3>4. Digit
      BY <1>2, <2>1, <3>2, <3>3, CharacterDecides
    <3>5. num * 10 + DigitValue(text[pos]) = v[i]
      BY <2>9, <3>1, <3>2, <3>3
    <3>6. Wrap(v[i]) = v[i]
      <4>1. v[i] \in -MaxInt - 1 .. MaxInt
        <5> HIDE DEF v, i, c
        <5> QED BY <2>4, <3>2, Bounds
      <4> QED BY <4>1, Wraps
    <3>7. num' = v[i] /\ pos' = pos + 1 /\ status' = status /\ dur' = dur
      BY <3>4, <3>5, <3>6 DEF Digit, Char
    <3>8. InPart(d, k, i, v[i], G(k))
      BY <2>12 DEF InPart
    <3> QED BY <2>6, <2>9, <3>1, <3>7, <3>8
  <2>13. ASSUME i > size
         PROVE  status' = "reading" /\ Halfway(d, pos', num', dur')
    <3> DEFINE u == Unit(text[pos], NextTo(pos))
    <3>1. u \in 1 .. 8 /\ u = IF i = size + 1 THEN k ELSE 5
      BY <2>11, <2>13
    <3>2. AddUnit
      BY <1>2, <2>1, <3>1, CharacterDecides
    <3>3. dur + num * LengthOf[u] = G(k + 1) /\ num * LengthOf[u] \in 0 .. d
      <4>1. CASE i = size + 1
        <5>1. i - 1 = size
          <6> HIDE DEF i, size
          <6> QED BY <2>3, <4>1
        <5>2. num = c /\ dur = G(k) /\ u = k
          <6>1. i - 1 <= size
            <7> HIDE DEF i, size
            <7> QED BY <2>3, <5>1
          <6>2. v[size] = c
            BY <2>4 DEF ReadsAs
          <6> QED BY <2>9, <3>1, <4>1, <5>1, <6>1, <6>2
        <5>3. c * LengthOf[k] \in 0 .. d
          <6> HIDE DEF c, G
          <6> QED BY <2>7, <2>8
        <5> QED BY <2>7, <5>2, <5>3
      <4>2. CASE i # size + 1
        <5>1. ~(i - 1 <= size)
          <6> HIDE DEF i, size
          <6> QED BY <2>3, <2>13, <4>2
        <5>2. num = 0 /\ dur = G(k + 1)
          BY <2>10, <5>1
        <5>3. LengthOf[u] \in Nat
          <6> HIDE DEF u
          <6> QED BY <3>1, Lengths
        <5>4. num * LengthOf[u] = 0
          <6> HIDE DEF u
          <6> QED BY <5>2, <5>3
        <5>5. G(k + 1) \in Nat /\ 0 \in 0 .. d
          BY <2>7, <2>8
        <5> HIDE DEF u, G
        <5> QED BY <5>2, <5>4, <5>5
      <4> QED BY <4>1, <4>2
    <3>4. /\ dur + num * LengthOf[u] \in MinDuration .. MaxDuration
          /\ num * LengthOf[u] \in MinDuration .. MaxDuration
      <4> DEFINE part == num * LengthOf[u]
                 sum == dur + part
      <4>1. sum \in 0 .. d /\ part \in 0 .. d
        BY <2>7, <3>3
      <4> HIDE DEF part, sum
      <4>2. sum \in MinDuration .. MaxDuration /\ part \in MinDuration .. MaxDuration
        BY <2>8, <4>1
      <4> QED BY <4>2 DEF part, sum
    <3>5. dur' = G(k + 1) /\ num' = 0 /\ pos' = pos + 1 /\ status' = status
      <4>1. \/ dur' = dur + num * LengthOf[u] /\ num' = 0 /\ pos' = pos + 1 /\ status' = status
            \/ ~(/\ num * LengthOf[u] \in MinDuration .. MaxDuration
                 /\ dur + num * LengthOf[u] \in MinDuration .. MaxDuration)
        BY <3>2, Zenon DEF AddUnit, Char, Peek, NextTo
      <4> HIDE DEF u
      <4> QED BY <3>3, <3>4, <4>1
    <3>6. ~(i <= size)
      <4> HIDE DEF i, size
      <4> QED BY <2>3, <2>13
    <3>7. InPart(d, k, i, 0, G(k + 1))
      BY <3>6 DEF InPart
    <3> QED BY <2>6, <3>5, <3>7
  <2>14. i <= size \/ i > size
    <3> HIDE DEF i, size
    <3> QED BY <2>3
  <2> QED BY <2>12, <2>13, <2>14
<1> QED BY <1>4, <1>5

(* Nothing changes what is read, and nothing follows the end of the reading. *)
LEMMA ReadingGoesOn ==
  ASSUME Next
  PROVE  source' = source /\ text' = text /\ status = "reading"
BY Zenon DEF Next, Whitespace, Digit, AddUnit, Unexpected, Finish, AtChar

LEMMA ZeroStep ==
  ASSUME TypeInv, Next, text = <<"0">>, num = 0, dur = 0
  PROVE  status' \in {"reading", "done"} /\ num' = 0 /\ dur' = 0
<1>1. IsText(text) /\ status = "reading" /\ pos \in 1 .. Len(text) + 1 /\ Len(text) = 1
  BY ReadingGoesOn DEF TypeInv, TypeOK
<1>2. CASE pos = 1
  <2>1. Digits[0 + 1] = "0" /\ 0 \in 0 .. 9
    BY DEF Digits
  <2>2. IsDigit("0") /\ DigitValue("0") = 0
    BY <2>1, DigitsCount, Zenon
  <2>3. text[pos] = "0" /\ pos \in 1 .. Len(text)
    BY <1>1, <1>2
  <2>4. Digit
    BY <1>1, <2>2, <2>3, CharacterDecides, Zenon
  <2>5. 0 * 10 + 0 = 0
    OBVIOUS
  <2>6. num * 10 + DigitValue(text[pos]) = 0
    BY <2>2, <2>3, <2>5, Zenon
  <2>7. Wrap(0) = 0
    <3>1. 0 \in -MaxInt - 1 .. MaxInt
      BY Bounds
    <3> QED BY <3>1, Wraps
  <2> QED BY <1>1, <2>4, <2>6, <2>7 DEF Digit, Char
<1>3. CASE pos = 2
  <2>1. Finish
    BY <1>1, <1>3, CharacterDecides
  <2> QED BY <2>1 DEF Finish
<1> QED BY <1>1, <1>2, <1>3

LEMMA PrintedInvNext == TypeInv /\ PrintedInv /\ [Next]_vars => PrintedInv'
<1>1. ASSUME TypeInv, PrintedInv, Next
      PROVE  PrintedInv'
  <2>1. source' = source /\ text' = text /\ status = "reading" /\ IsText(text)
    BY <1>1, ReadingGoesOn DEF TypeInv
  <2> SUFFICES ASSUME NEW k \in DOMAIN source
               PROVE  LET d == source[k] IN
                      /\ d > 0 => \/ status' = "reading" /\ Halfway(d, pos', num', dur')
                                  \/ status' = "done" /\ dur' = GivenBy(d)[9]
                      /\ d < 0 => \/ status' = "reading" /\ pos' = 1
                                  \/ status' = "unexpected"
                      /\ d = 0 => status' \in {"reading", "done"} /\ num' = 0 /\ dur' = 0
    BY <1>1, <2>1 DEF PrintedInv
  <2> DEFINE d == source[k]
  <2>2. d \in -MaxDuration .. MaxDuration /\ d \in Int
    BY <1>1, SourceIsPrinted DEF TypeInv
  <2>3. /\ text = TextOf(d)
        /\ d > 0 => Halfway(d, pos, num, dur)
        /\ d < 0 => pos = 1
        /\ d = 0 => num = 0 /\ dur = 0
    BY <1>1, <2>1 DEF PrintedInv
  <2> HIDE DEF d
  <2>4. ASSUME d > 0
        PROVE  \/ status' = "reading" /\ Halfway(d, pos', num', dur')
               \/ status' = "done" /\ dur' = GivenBy(d)[9]
    <3>1. d \in 1 .. MaxDuration
      BY <2>2, <2>4, Bounds
    <3> QED BY <1>1, <2>1, <2>3, <2>4, <3>1, PrintedStep
  <2>5. ASSUME d < 0
        PROVE  status' = "unexpected"
    <3>1. 1 \in 1 .. Len(text) /\ text[1] = "-"
      BY <2>2, <2>3, <2>5, NegativeText
    <3>2. Unexpected
      BY <1>1, <2>1, <2>3, <2>5, <3>1, CharacterDecides
    <3> QED BY <3>2 DEF Unexpected
  <2>6. ASSUME d = 0
        PROVE  status' \in {"reading", "done"} /\ num' = 0 /\ dur' = 0
    <3>1. text = <<"0">>
      BY <2>3, <2>6 DEF TextOf
    <3> QED BY <1>1, <2>3, <2>6, <3>1, ZeroStep
  <2> QED BY <2>4, <2>5, <2>6 DEF d
<1>2. ASSUME PrintedInv, UNCHANGED vars
      PROVE  PrintedInv'
  BY <1>2 DEF vars, PrintedInv
<1> QED BY <1>1, <1>2

LEMMA PrintedInvIsReadsBack == TypeInv /\ PrintedInv => ReadsBack
<1> SUFFICES ASSUME TypeInv, PrintedInv, status # "reading", NEW k \in DOMAIN source
             PROVE  IF source[k] < 0 THEN status = "unexpected"
                    ELSE /\ status = "done"
                         /\ source[k] <= MaxInt => dur = source[k]
                         /\ source[k] - dur \in 0 .. LengthOf[6] - 1
  BY DEF ReadsBack
<1> DEFINE d == source[k]
<1>1. d \in -MaxDuration .. MaxDuration /\ d \in Int
  BY SourceIsPrinted DEF TypeInv
<1>2. /\ d > 0 => status = "done" /\ dur = GivenBy(d)[9]
      /\ d < 0 => status = "unexpected"
      /\ d = 0 => status = "done" /\ dur = 0
  BY DEF PrintedInv
<1> HIDE DEF d
<1>3. ASSUME d > 0
      PROVE  /\ d <= MaxInt => dur = d
             /\ d - dur \in 0 .. LengthOf[6] - 1
  <2>1. d \in 0 .. MaxDuration
    BY <1>1, <1>3, Bounds
  <2> QED BY <1>2, <1>3, <2>1, PartsGiveBack
<1>4. ASSUME d = 0
      PROVE  dur = d /\ d - dur \in 0 .. LengthOf[6] - 1
  BY <1>2, <1>4, Bounds
<1>5. d < 0 \/ d = 0 \/ d > 0
  BY <1>1
<1>6. /\ ~(d < 0) => /\ status = "done"
                     /\ d <= MaxInt => dur = d
                     /\ d - dur \in 0 .. LengthOf[6] - 1
      /\ d < 0 => status = "unexpected"
  BY <1>2, <1>3, <1>4, <1>5
<1> QED BY <1>6 DEF d

(***************************************************************************)
(* What chrono_duration_string prints, chrono_duration_from_str reads back *)
(* for every duration an i64 can count in nanoseconds, whatever its units  *)
(* are and however wide it is; a longer one loses less than a millisecond, *)
(* a negative one is refused, and none makes the reader panic.             *)
(***************************************************************************)
THEOREM PrintedIsReadBack == Spec => []ReadsBack
BY PrintedInvInit, PrintedInvNext, PrintedInvIsReadsBack, TypeInvariant, PTL DEF Spec
=============================================================================
