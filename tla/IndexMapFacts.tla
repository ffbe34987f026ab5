--------------------------- MODULE IndexMapFacts ---------------------------
(***************************************************************************)
(* What the operations of an IndexMap do to its elements and to the chain  *)
(* of its empty entries, for any map and any elements.                     *)
(***************************************************************************)
EXTENDS IndexMap, SequenceTheorems, WellFoundedInduction, TLAPS

(* What the fields of a map are. *)
LEMMA MapFields ==
  ASSUME NEW E, NEW m \in Maps(E)
  PROVE  /\ m.entries \in Seq(Entries(E))
         /\ m.next_empty \in Nat
         /\ Len(m.entries) \in Nat
         /\ \A i \in OccupiedIndexes(m) : ElementAt(m, i) \in E
<1>1. m.entries \in Seq(Entries(E)) /\ m.next_empty \in Nat
  BY DEF Maps
<1>2. \A i \in Indexes(m) : m.entries[i] \in Entries(E)
  BY <1>1 DEF Indexes
<1>3. \A i \in OccupiedIndexes(m) : ElementAt(m, i) \in E
  BY <1>2 DEF OccupiedIndexes, Occupied, ElementAt, Entries
<1> QED BY <1>1, <1>3

(* Replacing one entry of a map. *)
LEMMA ReplaceEntry ==
  ASSUME NEW E, NEW m \in Maps(E), NEW i \in Indexes(m), NEW x \in Entries(E),
         NEW n \in Nat
  PROVE  LET r == WithEntry(m, i, x, n) IN
         /\ r \in Maps(E)
         /\ Len(r.entries) = Len(m.entries)
         /\ Indexes(r) = Indexes(m)
         /\ r.next_empty = n
         /\ r.entries[i] = x
         /\ \A j \in Indexes(m) \ {i} : r.entries[j] = m.entries[j]
<1>1. m.entries \in Seq(Entries(E))
  BY MapFields
<1> DEFINE r == WithEntry(m, i, x, n)
           s == [m.entries EXCEPT ![i] = x]
<1>2. s \in Seq(Entries(E)) /\ Len(s) = Len(m.entries)
      /\ s[i] = x /\ \A j \in Indexes(m) \ {i} : s[j] = m.entries[j]
  BY <1>1, ExceptSeq DEF Indexes
<1>3. r = [entries |-> s, next_empty |-> n] /\ r.entries = s /\ r.next_empty = n
  BY DEF WithEntry
<1> HIDE DEF s, r
<1> QED BY <1>2, <1>3 DEF Maps, Indexes, r

(***************************************************************************)
(* remove() of an element: the entry goes to the front of the chain and    *)
(* nothing else changes.                                                   *)
(***************************************************************************)
LEMMA RemoveElementAt ==
  ASSUME NEW E, NEW m \in Maps(E), NEW i \in OccupiedIndexes(m)
  PROVE  LET r == Remove(m, i) IN
         /\ r \in Maps(E)
         /\ Len(r.entries) = Len(m.entries)
         /\ Indexes(r) = Indexes(m)
         /\ r.next_empty = i
         /\ OccupiedIndexes(r) = OccupiedIndexes(m) \ {i}
         /\ r.entries[i].next = m.next_empty
         /\ \A j \in Indexes(m) \ {i} : r.entries[j] = m.entries[j]
<1> DEFINE r == Remove(m, i)
<1>1. i \in Indexes(m) /\ i \in Nat
  BY DEF OccupiedIndexes, Indexes
<1>2. Empty(m.next_empty) \in Entries(E)
  BY MapFields DEF Empty, Entries
<1>3. r = WithEntry(m, i, Empty(m.next_empty), i)
  BY DEF Remove, OccupiedIndexes
<1> HIDE DEF r
<1>4. /\ r \in Maps(E)
      /\ Len(r.entries) = Len(m.entries)
      /\ Indexes(r) = Indexes(m)
      /\ r.next_empty = i
      /\ r.entries[i] = Empty(m.next_empty)
      /\ \A j \in Indexes(m) \ {i} : r.entries[j] = m.entries[j]
  BY <1>1, <1>2, <1>3, MapFields, ReplaceEntry
<1>5. r.entries[i].kind = "Empty" /\ r.entries[i].next = m.next_empty
  BY <1>4 DEF Empty
<1>6. OccupiedIndexes(r) = OccupiedIndexes(m) \ {i}
  BY <1>1, <1>4, <1>5 DEF OccupiedIndexes, Occupied
<1> QED BY <1>4, <1>5, <1>6 DEF r

(***************************************************************************)
(* insert() into the first entry of the chain.                             *)
(***************************************************************************)
LEMMA InsertIntoChain ==
  ASSUME NEW E, NEW m \in Maps(E), NEW e \in E,
         m.next_empty # None, m.next_empty \in Indexes(m), ~Occupied(m, m.next_empty)
  PROVE  LET i == m.next_empty
             r == Insert(m, e)
         IN
         /\ InsertIndex(m) = i
         /\ r \in Maps(E)
         /\ Len(r.entries) = Len(m.entries)
         /\ Indexes(r) = Indexes(m)
         /\ r.next_empty = m.entries[i].next
         /\ OccupiedIndexes(r) = OccupiedIndexes(m) \cup {i}
         /\ ElementAt(r, i) = e
         /\ \A j \in Indexes(m) \ {i} : r.entries[j] = m.entries[j]
<1> DEFINE i == m.next_empty
           x == Element(e)
           n == m.entries[i].next
           r == Insert(m, e)
<1>0. i \in Indexes(m)
  OBVIOUS
<1>1. n \in Nat
  <2>1. m.entries[i] \in Entries(E)
    BY MapFields DEF Indexes
  <2> QED BY <2>1 DEF Entries, Occupied
<1>2. x \in Entries(E)
  BY DEF Element, Entries
<1>3. r = WithEntry(m, i, x, n)
  BY DEF Insert, InsertIntoEmpty
<1> HIDE DEF r, i, x, n
<1>4. /\ r \in Maps(E)
      /\ Len(r.entries) = Len(m.entries)
      /\ Indexes(r) = Indexes(m)
      /\ r.next_empty = n
      /\ r.entries[i] = x
      /\ \A j \in Indexes(m) \ {i} : r.entries[j] = m.entries[j]
  BY <1>0, <1>1, <1>2, <1>3, ReplaceEntry
<1>5. r.entries[i].kind = "Element" /\ ElementAt(r, i) = e
  BY <1>4 DEF ElementAt, Element, x
<1>6. OccupiedIndexes(r) = OccupiedIndexes(m) \cup {i}
  BY <1>0, <1>4, <1>5 DEF OccupiedIndexes, Occupied
<1>7. InsertIndex(m) = i
  BY DEF InsertIndex, i
<1> QED BY <1>4, <1>5, <1>6, <1>7 DEF r, i, n

(***************************************************************************)
(* insert() with an empty chain: the vector grows by one entry.            *)
(***************************************************************************)
LEMMA InsertGrows ==
  ASSUME NEW E, NEW m \in Maps(E), NEW e \in E, m.next_empty = None
  PROVE  LET i == Len(m.entries) + 1
             r == Insert(m, e)
         IN
         /\ InsertIndex(m) = i
         /\ i \in Nat \ {0}
         /\ r \in Maps(E)
         /\ Len(r.entries) = Len(m.entries) + 1
         /\ Indexes(r) = Indexes(m) \cup {i}
         /\ i \notin Indexes(m)
         /\ r.next_empty = None
         /\ OccupiedIndexes(r) = OccupiedIndexes(m) \cup {i}
         /\ ElementAt(r, i) = e
         /\ \A j \in Indexes(m) : r.entries[j] = m.entries[j]
<1> DEFINE i == Len(m.entries) + 1
           s == Append(m.entries, Element(e))
           r == Insert(m, e)
<1>1. m.entries \in Seq(Entries(E)) /\ Len(m.entries) \in Nat /\ i \in Nat \ {0}
  BY MapFields
<1>2. Element(e) \in Entries(E)
  BY DEF Element, Entries
<1>3. /\ s \in Seq(Entries(E))
      /\ Len(s) = Len(m.entries) + 1
      /\ s[Len(m.entries) + 1] = Element(e)
      /\ \A j \in 1 .. Len(m.entries) : s[j] = m.entries[j]
  BY <1>1, <1>2
<1>4. r = [entries |-> s, next_empty |-> None]
  BY DEF Insert, InsertAtEnd
<1>5. r.entries = s /\ r.next_empty = None
  BY <1>4
<1> HIDE DEF r, s
<1>6. r \in Maps(E)
  BY <1>3, <1>4 DEF Maps, None
<1>7. Indexes(r) = Indexes(m) \cup {i} /\ i \notin Indexes(m)
  BY <1>1, <1>3, <1>5 DEF Indexes
<1>8. \A j \in Indexes(m) : r.entries[j] = m.entries[j]
  BY <1>3, <1>5 DEF Indexes
<1>9. r.entries[i] = Element(e)
  BY <1>3, <1>5
<1>10. OccupiedIndexes(r) = OccupiedIndexes(m) \cup {i}
  BY <1>7, <1>8, <1>9 DEF OccupiedIndexes, Occupied, Element
<1>11. ElementAt(r, i) = e
  BY <1>9 DEF ElementAt, Element
<1>12. InsertIndex(m) = i
  BY DEF InsertIndex
<1> QED BY <1>1, <1>3, <1>5, <1>6, <1>7, <1>8, <1>10, <1>11, <1>12 DEF r
-----------------------------------------------------------------------------
(* Pushing onto the front of a sequence. *)
LEMMA PushFront ==
  ASSUME NEW S, NEW s \in Seq(S), NEW x \in S
  PROVE  LET t == <<x>> \o s IN
         /\ t \in Seq(S)
         /\ Len(s) \in Nat
         /\ Len(t) = Len(s) + 1
         /\ t[1] = x
         /\ \A k \in 2 .. Len(t) : k - 1 \in 1 .. Len(s) /\ t[k] = s[k - 1]
<1>1. <<x>> \in Seq(S) /\ Len(<<x>>) = 1 /\ <<x>>[1] = x
  OBVIOUS
<1> DEFINE t == <<x>> \o s
<1>2. /\ t \in Seq(S) /\ Len(t) = Len(s) + 1 /\ Len(s) \in Nat
      /\ \A k \in 1 .. Len(s) + 1 : t[k] = IF k <= 1 THEN <<x>>[k] ELSE s[k - 1]
  BY <1>1, ConcatProperties
<1> HIDE DEF t
<1>3. t[1] = x
  BY <1>1, <1>2
<1>4. \A k \in 2 .. Len(t) : k - 1 \in 1 .. Len(s) /\ t[k] = s[k - 1]
  BY <1>2
<1> QED BY <1>2, <1>3, <1>4 DEF t

(* The first entry of the chain, and an empty chain. *)
LEMMA ChainHead ==
  ASSUME NEW m, NEW s \in Seq(Indexes(m)), IsChain(m, s)
  PROVE  /\ m.next_empty = None <=> s = <<>>
         /\ s # <<>> => /\ m.next_empty = s[1]
                        /\ s[1] \in Indexes(m) \ OccupiedIndexes(m)
                        /\ 1 \in 1 .. Len(s)
         /\ ~InsertPanics(m)
<1>1. m.next_empty = ChainStart(s)
  BY DEF IsChain
<1>2. s # <<>> => 1 \in 1 .. Len(s)
  OBVIOUS
<1>3. s # <<>> => s[1] \in Indexes(m) \ OccupiedIndexes(m)
  BY <1>2 DEF IsChain
<1>4. s # <<>> => m.next_empty = s[1]
  BY <1>1 DEF ChainStart
<1>5. m.next_empty = None <=> s = <<>>
  BY <1>1, <1>3, <1>4 DEF ChainStart, None, Indexes
<1>6. ~InsertPanics(m)
  BY <1>3, <1>4, <1>5 DEF InsertPanics, OccupiedIndexes
<1> QED BY <1>2, <1>3, <1>4, <1>5, <1>6

(***************************************************************************)
(* insert(), when the chain is intact: the element goes where there was    *)
(* none, and the others stay.                                              *)
(***************************************************************************)
LEMMA InsertElementAt ==
  ASSUME NEW E, NEW m \in Maps(E), NEW e \in E, NEW s \in Seq(Indexes(m)), IsChain(m, s)
  PROVE  LET i == InsertIndex(m)
             r == Insert(m, e)
         IN
         /\ r \in Maps(E)
         /\ Len(r.entries) \in Nat /\ Len(r.entries) >= Len(m.entries)
         /\ i \notin OccupiedIndexes(m) /\ i # None
         /\ Indexes(r) = Indexes(m) \cup {i}
         /\ OccupiedIndexes(r) = OccupiedIndexes(m) \cup {i}
         /\ ElementAt(r, i) = e
         /\ \A j \in Indexes(m) \ {i} : r.entries[j] = m.entries[j]
<1>1. CASE m.next_empty = None
  <2>1. Len(m.entries) \in Nat /\ Len(m.entries) + 1 >= Len(m.entries)
    BY MapFields
  <2>2. OccupiedIndexes(m) \subseteq Indexes(m)
    BY DEF OccupiedIndexes
  <2> QED BY <1>1, <2>1, <2>2, InsertGrows DEF None
<1>2. CASE m.next_empty # None
  <2>1. m.next_empty \in Indexes(m) \ OccupiedIndexes(m)
    BY <1>2, ChainHead
  <2> QED BY <1>2, <2>1, MapFields, InsertIntoChain DEF OccupiedIndexes
<1> QED BY <1>1, <1>2

(* insert() takes the first entry off the chain, if there is one. *)
LEMMA ChainAfterInsert ==
  ASSUME NEW E, NEW m \in Maps(E), NEW e \in E, NEW s \in Seq(Indexes(m)), IsChain(m, s)
  PROVE  LET r == Insert(m, e)
             t == IF m.next_empty = None THEN s ELSE Tail(s)
         IN t \in Seq(Indexes(r)) /\ IsChain(r, t)
<1> DEFINE i == InsertIndex(m)
           r == Insert(m, e)
           t == IF m.next_empty = None THEN s ELSE Tail(s)
<1>1. /\ Indexes(r) = Indexes(m) \cup {i}
      /\ OccupiedIndexes(r) = OccupiedIndexes(m) \cup {i}
      /\ \A j \in Indexes(m) \ {i} : r.entries[j] = m.entries[j]
  BY InsertElementAt
<1> HIDE DEF r
<1>2. CASE m.next_empty = None
  <2>1. s = <<>> /\ t = <<>> /\ Len(t) = 0 /\ t \in Seq(Indexes(r))
    BY <1>2, ChainHead
  <2>2. r.next_empty = None
    BY <1>2, InsertGrows DEF r
  <2>3. Indexes(m) \ OccupiedIndexes(m) = {}
    BY <2>1 DEF IsChain
  <2>4. Indexes(r) \ OccupiedIndexes(r) = {}
    BY <2>3, <1>1
  <2> QED BY <2>1, <2>2, <2>4 DEF IsChain, ChainStart, r
<1>3. CASE m.next_empty # None
  <2>1. s # <<>> /\ i = s[1] /\ m.next_empty = i /\ t = Tail(s)
    BY <1>3, ChainHead DEF InsertIndex
  <2>2. /\ Len(s) \in Nat \ {0}
        /\ Len(t) = Len(s) - 1
        /\ \A k \in 1 .. Len(t) : t[k] = s[k + 1]
        /\ t \in Seq(Indexes(m))
    BY <2>1
  <2>3. i \in Indexes(m) \ OccupiedIndexes(m) /\ Indexes(r) = Indexes(m)
        /\ r.next_empty = m.entries[i].next
    BY <2>1, <1>3, <1>1, ChainHead, InsertIntoChain DEF OccupiedIndexes, r
  <2> HIDE DEF t, i
  <2>4. \A k \in 1 .. Len(t) :
          /\ k + 1 \in 1 .. Len(s)
          /\ s[k + 1] \in Indexes(m) \ OccupiedIndexes(m)
          /\ s[k + 1] # i
          /\ m.entries[s[k + 1]].next = IF k + 1 = Len(s) THEN None ELSE s[k + 2]
    <3> SUFFICES ASSUME NEW k \in 1 .. Len(t)
                 PROVE  /\ k + 1 \in 1 .. Len(s)
                        /\ s[k + 1] \in Indexes(m) \ OccupiedIndexes(m)
                        /\ s[k + 1] # i
                        /\ m.entries[s[k + 1]].next = IF k + 1 = Len(s) THEN None ELSE s[k + 2]
      OBVIOUS
    <3>1. k + 1 \in 1 .. Len(s) /\ 1 \in 1 .. Len(s) /\ k + 1 # 1 /\ (k + 1) + 1 = k + 2
      BY <2>2
    <3>2. s[k + 1] # i
      BY <3>1, <2>1 DEF IsChain
    <3>3. m.entries[s[k + 1]].next = IF k + 1 = Len(s) THEN None ELSE s[(k + 1) + 1]
      BY <3>1 DEF IsChain
    <3>4. s[k + 1] \in Indexes(m) \ OccupiedIndexes(m)
      BY <3>1 DEF IsChain
    <3> QED BY <3>1, <3>2, <3>3, <3>4
  <2>5. r.next_empty = ChainStart(t)
    <3>1. m.entries[s[1]].next = IF 1 = Len(s) THEN None ELSE s[2]
      BY <2>2 DEF IsChain
    <3>2. CASE Len(s) = 1
      <4>1. t = <<>>
        BY <3>2, <2>2
      <4> QED BY <3>1, <3>2, <4>1, <2>1, <2>3 DEF ChainStart
    <3>3. CASE Len(s) # 1
      <4>1. t # <<>> /\ t[1] = s[2]
        BY <3>3, <2>2
      <4> QED BY <3>1, <3>3, <4>1, <2>1, <2>3 DEF ChainStart
    <3> QED BY <3>2, <3>3
  <2>6. ASSUME NEW k \in 1 .. Len(t)
        PROVE  /\ t[k] \in Indexes(r) \ OccupiedIndexes(r)
               /\ r.entries[t[k]].next = IF k = Len(t) THEN None ELSE t[k + 1]
    <3>1. t[k] = s[k + 1] /\ (k # Len(t) => t[k + 1] = s[k + 2])
      BY <2>2
    <3>2. r.entries[s[k + 1]] = m.entries[s[k + 1]]
      BY <2>4, <1>1
    <3> QED BY <3>1, <3>2, <2>2, <2>3, <2>4, <1>1
  <2>7. ASSUME NEW j \in 1 .. Len(t), NEW k \in 1 .. Len(t), t[j] = t[k]
        PROVE  j = k
    <3>1. j + 1 \in 1 .. Len(s) /\ k + 1 \in 1 .. Len(s) /\ s[j + 1] = s[k + 1]
      BY <2>2, <2>7
    <3>2. j + 1 = k + 1
      BY <3>1 DEF IsChain
    <3> QED BY <3>2
  <2>8. ASSUME NEW j \in Indexes(r) \ OccupiedIndexes(r)
        PROVE  \E k \in 1 .. Len(t) : t[k] = j
    <3>1. j \in Indexes(m) \ OccupiedIndexes(m) /\ j # i
      BY <2>3, <1>1
    <3>2. PICK k \in 1 .. Len(s) : s[k] = j
      BY <3>1 DEF IsChain
    <3>3. k # 1 /\ k - 1 \in 1 .. Len(t) /\ t[k - 1] = s[k]
      BY <3>1, <3>2, <2>1, <2>2
    <3> QED BY <3>2, <3>3
  <2>9. t \in Seq(Indexes(r))
    BY <2>2, <2>3
  <2> QED BY <2>5, <2>6, <2>7, <2>8, <2>9 DEF IsChain, r, t
<1> QED BY <1>2, <1>3

(* remove() puts the entry in front of the chain. *)
LEMMA ChainAfterRemove ==
  ASSUME NEW E, NEW m \in Maps(E), NEW i \in OccupiedIndexes(m),
         NEW s \in Seq(Indexes(m)), IsChain(m, s)
  PROVE  LET r == Remove(m, i)
             t == <<i>> \o s
         IN t \in Seq(Indexes(r)) /\ IsChain(r, t)
<1> DEFINE r == Remove(m, i)
           t == <<i>> \o s
<1>0. i \in Indexes(m)
  BY DEF OccupiedIndexes
<1>1. /\ Indexes(r) = Indexes(m)
      /\ r.next_empty = i
      /\ OccupiedIndexes(r) = OccupiedIndexes(m) \ {i}
      /\ r.entries[i].next = m.next_empty
      /\ \A j \in Indexes(m) \ {i} : r.entries[j] = m.entries[j]
  BY RemoveElementAt
<1>2. /\ t \in Seq(Indexes(m))
      /\ Len(s) \in Nat
      /\ Len(t) = Len(s) + 1
      /\ t[1] = i
      /\ \A k \in 2 .. Len(t) : k - 1 \in 1 .. Len(s) /\ t[k] = s[k - 1]
  BY <1>0, PushFront
<1> HIDE DEF r, t
<1>3. r.next_empty = ChainStart(t)
  BY <1>1, <1>2 DEF ChainStart
<1>4. ASSUME NEW k \in 1 .. Len(t)
      PROVE  /\ t[k] \in Indexes(r) \ OccupiedIndexes(r)
             /\ r.entries[t[k]].next = IF k = Len(t) THEN None ELSE t[k + 1]
  <2>1. CASE k = 1
    <3>1. m.next_empty = ChainStart(s)
      BY DEF IsChain
    <3>2. CASE s = <<>>
      BY <2>1, <3>1, <3>2, <1>0, <1>1, <1>2 DEF ChainStart
    <3>3. CASE s # <<>>
      <4>1. Len(s) # 0 /\ s[1] = t[2]
        BY <3>3, <1>2
      <4> QED BY <2>1, <3>1, <3>3, <4>1, <1>0, <1>1, <1>2 DEF ChainStart
    <3> QED BY <3>2, <3>3
  <2>2. CASE k # 1
    <3>1. k - 1 \in 1 .. Len(s) /\ t[k] = s[k - 1]
      BY <2>2, <1>2
    <3>2. /\ s[k - 1] \in Indexes(m) \ OccupiedIndexes(m)
          /\ m.entries[s[k - 1]].next = IF k - 1 = Len(s) THEN None ELSE s[k]
      BY <3>1 DEF IsChain
    <3>3. k # Len(t) => t[k + 1] = s[k]
      <4>1. k # Len(t) => k + 1 \in 2 .. Len(t) /\ (k + 1) - 1 = k
        BY <2>2, <1>2
      <4> QED BY <4>1, <1>2
    <3>4. s[k - 1] # i
      BY <3>2
    <3> QED BY <3>1, <3>2, <3>3, <3>4, <1>1, <1>2
  <2> QED BY <2>1, <2>2
<1>5. ASSUME NEW j \in 1 .. Len(t), NEW k \in 1 .. Len(t), t[j] = t[k]
      PROVE  j = k
  <2>1. \A l \in 1 .. Len(s) : s[l] # i
    BY DEF IsChain
  <2>2. \A l \in 1 .. Len(t) : l # 1 => l - 1 \in 1 .. Len(s) /\ t[l] = s[l - 1]
    BY <1>2
  <2>3. CASE j = 1 \/ k = 1
    BY <2>1, <2>2, <2>3, <1>5, <1>2
  <2>4. CASE j # 1 /\ k # 1
    <3>1. s[j - 1] = s[k - 1] /\ j - 1 \in 1 .. Len(s) /\ k - 1 \in 1 .. Len(s)
      BY <2>2, <2>4, <1>5
    <3>2. j - 1 = k - 1
      BY <3>1 DEF IsChain
    <3> QED BY <3>2
  <2> QED BY <2>3, <2>4
<1>6. ASSUME NEW j \in Indexes(r) \ OccupiedIndexes(r)
      PROVE  \E k \in 1 .. Len(t) : t[k] = j
  <2>1. CASE j = i
    BY <2>1, <1>2
  <2>2. CASE j # i
    <3>1. PICK k \in 1 .. Len(s) : s[k] = j
      BY <2>2, <1>1 DEF IsChain
    <3>2. k + 1 \in 2 .. Len(t) /\ t[k + 1] = s[k]
      BY <1>2
    <3> QED BY <3>1, <3>2
  <2> QED BY <2>1, <2>2
<1> QED BY <1>1, <1>2, <1>3, <1>4, <1>5, <1>6 DEF IsChain, r, t

(***************************************************************************)
(* An assignment through index_mut() changes one element, and the chain    *)
(* stays as it is.                                                         *)
(***************************************************************************)
LEMMA AssignElementAt ==
  ASSUME NEW E, NEW m \in Maps(E), NEW i \in OccupiedIndexes(m), NEW e \in E
  PROVE  LET r == Assign(m, i, e) IN
         /\ r \in Maps(E)
         /\ Len(r.entries) = Len(m.entries)
         /\ Indexes(r) = Indexes(m)
         /\ OccupiedIndexes(r) = OccupiedIndexes(m)
         /\ ElementAt(r, i) = e
         /\ \A j \in Indexes(m) \ {i} : r.entries[j] = m.entries[j]
         /\ \A s \in Seq(Indexes(m)) : IsChain(m, s) => IsChain(r, s)
<1> DEFINE x == Element(e)
           r == Assign(m, i, e)
<1>1. x \in Entries(E) /\ x.kind = "Element" /\ x.elem = e
  BY DEF Element, Entries
<1>2. i \in Indexes(m) /\ m.next_empty \in Nat /\ r = WithEntry(m, i, x, m.next_empty)
  BY MapFields DEF OccupiedIndexes, Assign
<1> HIDE DEF r, x
<1>3. /\ r \in Maps(E)
      /\ Len(r.entries) = Len(m.entries)
      /\ Indexes(r) = Indexes(m)
      /\ r.next_empty = m.next_empty
      /\ r.entries[i] = x
      /\ \A j \in Indexes(m) \ {i} : r.entries[j] = m.entries[j]
  BY <1>1, <1>2, ReplaceEntry
<1>4. OccupiedIndexes(r) = OccupiedIndexes(m)
  BY <1>1, <1>2, <1>3 DEF OccupiedIndexes, Occupied
<1>5. ElementAt(r, i) = e
  BY <1>1, <1>3 DEF ElementAt
<1>6. ASSUME NEW s \in Seq(Indexes(m)), IsChain(m, s) PROVE IsChain(r, s)
  <2>1. \A k \in 1 .. Len(s) : s[k] \in Indexes(m) \ {i} /\ r.entries[s[k]] = m.entries[s[k]]
    BY <1>6, <1>3 DEF IsChain
  <2> QED BY <1>6, <1>3, <1>4, <2>1 DEF IsChain
<1> QED BY <1>3, <1>4, <1>5, <1>6 DEF r

(* The empty map. *)
LEMMA NewMapFacts ==
  ASSUME NEW E
  PROVE  /\ NewMap \in Maps(E)
         /\ Len(NewMap.entries) = 0
         /\ Indexes(NewMap) = {} /\ OccupiedIndexes(NewMap) = {}
         /\ <<>> \in Seq(Indexes(NewMap)) /\ IsChain(NewMap, <<>>)
<1>1. NewMap.entries = <<>> /\ NewMap.next_empty = None /\ Len(NewMap.entries) = 0
      /\ NewMap \in Maps(E)
  BY DEF NewMap, Maps, None
<1>2. Indexes(NewMap) = {} /\ OccupiedIndexes(NewMap) = {}
  BY <1>1 DEF Indexes, OccupiedIndexes
<1>3. Len(<<>>) = 0 /\ <<>> \in Seq(Indexes(NewMap))
  OBVIOUS
<1> QED BY <1>1, <1>2, <1>3 DEF IsChain, ChainStart

(* A set of natural numbers has a least one. *)
LEMMA LeastOf ==
  ASSUME NEW A \in SUBSET Nat, A # {}
  PROVE  \E i \in A : \A j \in A : i <= j
<1> DEFINE R == {ss \in Nat \X Nat : ss[1] < ss[2]}
<1>1. IsWellFoundedOn(R, Nat)
  BY NatLessThanWellFounded, Zenon DEF OpToRel
<1>2. PICK x \in A : \A y \in A : <<y, x>> \notin R
  <2> HIDE DEF R
  <2> QED BY <1>1, WFMin, Zenon
<1>3. ASSUME NEW y \in A PROVE x <= y
  <2>1. <<y, x>> \notin R /\ <<y, x>> \in Nat \X Nat
    BY <1>2
  <2>2. ~(<<y, x>>[1] < <<y, x>>[2])
    BY <2>1
  <2>3. ~(y < x)
    BY <2>2
  <2> QED BY <2>3
<1> QED BY <1>3

(***************************************************************************)
(* The iterator comes to the next element there is, and to None when there *)
(* is none.                                                                *)
(***************************************************************************)
LEMMA NextIndexIsNext ==
  ASSUME NEW E, NEW m \in Maps(E), NEW p \in Nat
  PROVE  LET i == NextIndex(m, p) IN
         /\ i # None => i \in OccupiedIndexes(m) /\ i > p
         /\ i = None => \A j \in OccupiedIndexes(m) : j <= p
<1> DEFINE A == After(m, p)
<1>1. OccupiedIndexes(m) \subseteq Nat \ {0}
  BY MapFields DEF OccupiedIndexes, Indexes
<1>2. CASE A = {}
  BY <1>1, <1>2 DEF NextIndex, After, None
<1>3. CASE A # {}
  <2>1. \E i \in A : \A j \in A : i <= j
    <3>1. A \subseteq Nat
      BY <1>1 DEF After
    <3> HIDE DEF A
    <3> QED BY <3>1, <1>3, LeastOf
  <2>2. NextIndex(m, p) \in A
    BY <1>3, <2>1 DEF NextIndex
  <2> QED BY <2>2, <1>1 DEF After, None
<1> QED BY <1>2, <1>3
=============================================================================
