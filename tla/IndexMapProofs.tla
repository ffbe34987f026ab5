--------------------------- MODULE IndexMapProofs ---------------------------
(***************************************************************************)
(* Proofs about the IndexMap and its clients, for any number of clients    *)
(* and any data.                                                           *)
(***************************************************************************)
EXTENDS IndexMapClients, IndexMapFacts, FiniteSetTheorems

(* Whose element is at an occupied index. *)
LEMMA OwnerHolds ==
  ASSUME MapInv, NEW i \in OccupiedIndexes(map)
  PROVE  /\ i \in Indexes(map)
         /\ ElementAt(map, i).owner \in Clients
         /\ held[ElementAt(map, i).owner] = i
<1>1. ElementAt(map, i) \in Elements
  BY MapFields DEF MapInv, TypeOK
<1>2. ElementAt(map, i).owner \in Clients
  BY <1>1 DEF Elements
<1>3. held[ElementAt(map, i).owner] = i
  BY DEF MapInv, IndexesStayValid
<1>4. i \in Indexes(map)
  BY DEF OccupiedIndexes
<1> QED BY <1>2, <1>3, <1>4

(* What is at the index that somebody holds. *)
LEMMA HolderOwns ==
  ASSUME MapInv, NEW c \in Clients, held[c] # None
  PROVE  /\ held[c] \in OccupiedIndexes(map)
         /\ ElementAt(map, held[c]).owner = c
<1>1. /\ held[c] \in OccupiedIndexes(map)
      /\ ElementAt(map, held[c]) = [owner |-> c, data |-> wrote[c]]
  BY DEF MapInv, IndexesStayValid
<1> QED BY <1>1

(***************************************************************************)
(* Taking an element out, by remove() or by retain(), keeps the invariant. *)
(***************************************************************************)
LEMMA TakingOutKeepsMapInv ==
  ASSUME MapInv, NEW i \in OccupiedIndexes(map),
         map' = Remove(map, i),
         held' = [held EXCEPT ![ElementAt(map, i).owner] = None],
         freed' = <<i>> \o freed,
         cursor' \in 0 .. Len(map.entries),
         UNCHANGED <<wrote, doomed>>
  PROVE  MapInv' /\ Len(map'.entries) = Len(map.entries)
<1> DEFINE c == ElementAt(map, i).owner
<1>1. /\ map \in Maps(Elements)
      /\ c \in Clients /\ held[c] = i
      /\ held \in [Clients -> {None} \cup Indexes(map)]
      /\ freed \in Seq(Indexes(map))
      /\ i \in Indexes(map)
  BY OwnerHolds DEF MapInv, TypeOK
<1>2. /\ map' \in Maps(Elements)
      /\ Len(map'.entries) = Len(map.entries)
      /\ Indexes(map') = Indexes(map)
      /\ map'.next_empty = i
      /\ OccupiedIndexes(map') = OccupiedIndexes(map) \ {i}
      /\ map'.entries[i].next = map.next_empty
      /\ \A j \in Indexes(map) \ {i} : map'.entries[j] = map.entries[j]
  BY <1>1, RemoveElementAt
<1>3. /\ held' \in [Clients -> {None} \cup Indexes(map)]
      /\ held'[c] = None
      /\ \A d \in Clients \ {c} : held'[d] = held[d]
  BY <1>1
<1>4. freed' \in Seq(Indexes(map')) /\ FreedInOrder'
  BY <1>1, ChainAfterRemove DEF MapInv, FreedInOrder
<1> HIDE DEF c
<1>5. TypeOK'
  BY <1>2, <1>3, <1>4 DEF MapInv, TypeOK
<1>6. IndexesStayValid'
  <2>1. ASSUME NEW d \in Clients, held'[d] # None
        PROVE  /\ held'[d] \in OccupiedIndexes(map')
               /\ ElementAt(map', held'[d]) = [owner |-> d, data |-> wrote'[d]]
    <3>1. d # c /\ held'[d] = held[d]
      BY <2>1, <1>3
    <3>2. held[d] \in OccupiedIndexes(map) /\ ElementAt(map, held[d]) = [owner |-> d, data |-> wrote[d]]
      BY <2>1, <3>1 DEF MapInv, IndexesStayValid
    <3>3. held[d] # i
      BY <3>1, <3>2 DEF c
    <3>4. held[d] \in Indexes(map) \ {i}
      BY <3>2, <3>3 DEF OccupiedIndexes
    <3> QED BY <3>1, <3>2, <3>4, <1>2 DEF ElementAt
  <2>2. ASSUME NEW j \in OccupiedIndexes(map')
        PROVE  held'[ElementAt(map', j).owner] = j
    <3>1. j \in OccupiedIndexes(map) /\ j \in Indexes(map) \ {i}
      BY <1>2 DEF OccupiedIndexes
    <3>2. ElementAt(map', j) = ElementAt(map, j)
      BY <3>1, <1>2 DEF ElementAt
    <3>3. ElementAt(map, j).owner \in Clients /\ held[ElementAt(map, j).owner] = j
      BY <3>1, OwnerHolds
    <3>4. ElementAt(map, j).owner # c
      BY <3>1, <3>3, <1>1
    <3> QED BY <3>2, <3>3, <3>4, <1>3
  <2> QED BY <2>1, <2>2 DEF IndexesStayValid
<1> QED BY <1>2, <1>4, <1>5, <1>6 DEF MapInv

(* The chain of the freed entries begins with the last one. *)
LEMMA FreedHead ==
  ASSUME MapInv
  PROVE  /\ map.next_empty = None <=> freed = <<>>
         /\ freed # <<>> => freed[1] \in Indexes(map) \ OccupiedIndexes(map)
                            /\ map.next_empty = freed[1]
         /\ ~InsertPanics(map)
BY ChainHead DEF MapInv, TypeOK, FreedInOrder

(***************************************************************************)
(* Inserting keeps the invariant: the index handed out was nobody's.       *)
(***************************************************************************)
LEMMA InsertingKeepsMapInv ==
  ASSUME MapInv, NEW c \in Clients, NEW d \in Data, InsertElement(c, d)
  PROVE  MapInv'
<1> DEFINE e == [owner |-> c, data |-> d]
           i == InsertIndex(map)
<1>1. /\ map \in Maps(Elements)
      /\ held \in [Clients -> {None} \cup Indexes(map)]
      /\ wrote \in [Clients -> Data]
      /\ freed \in Seq(Indexes(map))
      /\ Len(map.entries) \in Nat
  BY MapFields DEF MapInv, TypeOK
<1>2. e \in Elements
  BY DEF Elements
<1>3. map' = Insert(map, e) /\ held' = [held EXCEPT ![c] = i] /\ held[c] = None
      /\ wrote' = [wrote EXCEPT ![c] = d] /\ UNCHANGED <<cursor, doomed>>
      /\ freed' = IF map.next_empty = None THEN freed ELSE Tail(freed)
  BY DEF InsertElement
<1> HIDE DEF e
<1>4. /\ map' \in Maps(Elements)
      /\ Len(map'.entries) \in Nat /\ Len(map'.entries) >= Len(map.entries)
      /\ i \notin OccupiedIndexes(map) /\ i # None
      /\ Indexes(map') = Indexes(map) \cup {i}
      /\ OccupiedIndexes(map') = OccupiedIndexes(map) \cup {i}
      /\ ElementAt(map', i) = e
      /\ \A j \in Indexes(map) \ {i} : map'.entries[j] = map.entries[j]
  BY <1>1, <1>2, <1>3, InsertElementAt DEF MapInv, FreedInOrder
<1>7. freed' \in Seq(Indexes(map')) /\ FreedInOrder'
  BY <1>1, <1>2, <1>3, ChainAfterInsert DEF MapInv, FreedInOrder
<1> HIDE DEF i
<1>5. TypeOK'
  <2>1. held' \in [Clients -> {None} \cup Indexes(map')]
    BY <1>1, <1>3, <1>4
  <2>3. wrote' \in [Clients -> Data]
    BY <1>1, <1>3
  <2>4. cursor' \in 0 .. Len(map'.entries) /\ doomed' \in SUBSET Clients
    BY <1>1, <1>3, <1>4 DEF MapInv, TypeOK
  <2> QED BY <2>1, <2>3, <2>4, <1>4, <1>7 DEF TypeOK
<1>6. IndexesStayValid'
  <2>0. held'[c] = i /\ wrote'[c] = d
        /\ \A b \in Clients \ {c} : held'[b] = held[b] /\ wrote'[b] = wrote[b]
    BY <1>1, <1>3
  <2>1. ASSUME NEW b \in Clients, held'[b] # None
        PROVE  /\ held'[b] \in OccupiedIndexes(map')
               /\ ElementAt(map', held'[b]) = [owner |-> b, data |-> wrote'[b]]
    <3>1. CASE b = c
      BY <3>1, <2>0, <1>4 DEF e
    <3>2. CASE b # c
      <4>1. held'[b] = held[b] /\ wrote'[b] = wrote[b]
        BY <3>2, <2>0
      <4>2. held[b] \in OccupiedIndexes(map) /\ ElementAt(map, held[b]) = [owner |-> b, data |-> wrote[b]]
        BY <2>1, <4>1 DEF MapInv, IndexesStayValid
      <4>3. held[b] \in Indexes(map) \ {i}
        BY <4>2, <1>4 DEF OccupiedIndexes
      <4> QED BY <4>1, <4>2, <4>3, <1>4 DEF ElementAt
    <3> QED BY <3>1, <3>2
  <2>2. ASSUME NEW j \in OccupiedIndexes(map')
        PROVE  held'[ElementAt(map', j).owner] = j
    <3>1. CASE j = i
      BY <3>1, <2>0, <1>4 DEF e
    <3>2. CASE j # i
      <4>1. j \in OccupiedIndexes(map)
        BY <3>2, <1>4
      <4>2. j \in Indexes(map) \ {i} /\ ElementAt(map, j).owner \in Clients
            /\ held[ElementAt(map, j).owner] = j /\ j # None
        BY <3>2, <4>1, OwnerHolds DEF None, Indexes
      <4>3. ElementAt(map', j) = ElementAt(map, j)
        BY <4>2, <1>4 DEF ElementAt
      <4>4. ElementAt(map, j).owner # c
        BY <4>2, <1>3
      <4> QED BY <4>2, <4>3, <4>4, <2>0
    <3> QED BY <3>1, <3>2
  <2> QED BY <2>1, <2>2 DEF IndexesStayValid
<1> QED BY <1>5, <1>6, <1>7 DEF MapInv

(* Changing an element in place keeps the invariant. *)
LEMMA ChangingKeepsMapInv ==
  ASSUME MapInv, NEW c \in Clients, NEW d \in Data, ChangeElement(c, d)
  PROVE  MapInv' /\ Len(map'.entries) = Len(map.entries)
<1> DEFINE i == held[c]
           e == [owner |-> c, data |-> d]
<1>1. /\ map \in Maps(Elements) /\ map.next_empty \in Nat
      /\ wrote \in [Clients -> Data]
      /\ i \in OccupiedIndexes(map) /\ i \in Indexes(map)
      /\ ElementAt(map, i).owner = c
  <2>1. i # None
    BY DEF ChangeElement
  <2>2. i \in OccupiedIndexes(map) /\ ElementAt(map, i).owner = c
    BY <2>1, HolderOwns
  <2> QED BY <2>2, MapFields DEF MapInv, TypeOK, OccupiedIndexes
<1>2. e \in Elements
  BY DEF Elements
<1>3. map' = Assign(map, i, e) /\ wrote' = [wrote EXCEPT ![c] = d]
      /\ UNCHANGED <<held, cursor, doomed, freed>>
  BY <1>1 DEF ChangeElement
<1> HIDE DEF i, e
<1>4. /\ map' \in Maps(Elements)
      /\ Len(map'.entries) = Len(map.entries)
      /\ Indexes(map') = Indexes(map)
      /\ OccupiedIndexes(map') = OccupiedIndexes(map)
      /\ ElementAt(map', i) = e
      /\ \A j \in Indexes(map) \ {i} : map'.entries[j] = map.entries[j]
      /\ \A s \in Seq(Indexes(map)) : IsChain(map, s) => IsChain(map', s)
  BY <1>1, <1>2, <1>3, AssignElementAt
<1>7. \A j \in OccupiedIndexes(map) \ {i} : ElementAt(map', j) = ElementAt(map, j)
  BY <1>4 DEF ElementAt, OccupiedIndexes
<1>8. TypeOK'
  BY <1>1, <1>3, <1>4 DEF MapInv, TypeOK
<1>9. IndexesStayValid'
  <2>1. ASSUME NEW b \in Clients, held[b] # None
        PROVE  /\ held[b] \in OccupiedIndexes(map')
               /\ ElementAt(map', held[b]) = [owner |-> b, data |-> wrote'[b]]
    <3>1. CASE b = c
      BY <3>1, <1>1, <1>3, <1>4 DEF i, e
    <3>2. CASE b # c
      <4>1. held[b] \in OccupiedIndexes(map) /\ ElementAt(map, held[b]) = [owner |-> b, data |-> wrote[b]]
        BY <2>1 DEF MapInv, IndexesStayValid
      <4>2. held[b] # i
        BY <3>2, <4>1, <1>1
      <4> QED BY <3>2, <4>1, <4>2, <1>1, <1>3, <1>4, <1>7
    <3> QED BY <3>1, <3>2
  <2>2. ASSUME NEW j \in OccupiedIndexes(map')
        PROVE  held[ElementAt(map', j).owner] = j
    <3>1. CASE j = i
      BY <3>1, <1>4 DEF i, e
    <3>2. CASE j # i
      BY <3>2, <1>4, <1>7, OwnerHolds
    <3> QED BY <3>1, <3>2
  <2> QED BY <2>1, <2>2, <1>3 DEF IndexesStayValid
<1>10. FreedInOrder'
  BY <1>3, <1>4 DEF MapInv, TypeOK, FreedInOrder
<1> QED BY <1>4, <1>8, <1>9, <1>10 DEF MapInv
-----------------------------------------------------------------------------
(* Only inserting changes the length of the vector. *)
LEMMA StepKeepsMapInv ==
  ASSUME MapInv, [Next]_vars
  PROVE  /\ MapInv'
         /\ \/ Len(map'.entries) = Len(map.entries)
            \/ \E c \in Clients, d \in Data : InsertElement(c, d)
<1> DEFINE SameLength == Len(map'.entries) = Len(map.entries)
<1>1. ASSUME NEW c \in Clients, NEW d \in Data, InsertElement(c, d) PROVE MapInv'
  BY <1>1, InsertingKeepsMapInv
<1>2. ASSUME NEW c \in Clients, NEW d \in Data, ChangeElement(c, d) PROVE MapInv' /\ SameLength
  BY <1>2, ChangingKeepsMapInv
<1>3. ASSUME NEW c \in Clients, RemoveElement(c) PROVE MapInv' /\ SameLength
  <2>1. held[c] \in OccupiedIndexes(map) /\ ElementAt(map, held[c]).owner = c
    BY <1>3, HolderOwns DEF RemoveElement
  <2>2. cursor' \in 0 .. Len(map.entries)
    BY <1>3 DEF RemoveElement, MapInv, TypeOK
  <2> QED BY <1>3, <2>1, <2>2, TakingOutKeepsMapInv DEF RemoveElement
<1>4. ASSUME NEW D \in SUBSET Clients, BeginRetain(D) PROVE MapInv' /\ SameLength
  <2>1. Len(map.entries) \in Nat
    BY MapFields DEF MapInv, TypeOK
  <2>2. TypeOK'
    BY <1>4, <2>1 DEF BeginRetain, MapInv, TypeOK
  <2>3. IndexesStayValid' /\ FreedInOrder'
    BY <1>4 DEF BeginRetain, MapInv, IndexesStayValid, FreedInOrder
  <2> QED BY <1>4, <2>2, <2>3 DEF MapInv, BeginRetain
<1>5. ASSUME RetainEntry PROVE MapInv' /\ SameLength
  <2> DEFINE i == Len(map.entries) + 1 - cursor
  <2>1. Len(map.entries) \in Nat /\ cursor \in 1 .. Len(map.entries) /\ i \in Indexes(map)
    BY <1>5, MapFields DEF RetainEntry, MapInv, TypeOK, Indexes
  <2>2. cursor' \in 0 .. Len(map.entries) /\ UNCHANGED <<wrote, doomed>>
    BY <1>5, <2>1 DEF RetainEntry
  <2>3. CASE Occupied(map, i) /\ ElementAt(map, i).owner \in doomed
    <3>1. i \in OccupiedIndexes(map)
      BY <2>1, <2>3 DEF OccupiedIndexes
    <3>2. /\ map' = Remove(map, i)
          /\ held' = [held EXCEPT ![ElementAt(map, i).owner] = None]
          /\ freed' = <<i>> \o freed
      BY <1>5, <2>3 DEF RetainEntry
    <3> HIDE DEF i
    <3> QED BY <3>1, <3>2, <2>2, TakingOutKeepsMapInv
  <2>4. CASE ~(Occupied(map, i) /\ ElementAt(map, i).owner \in doomed)
    <3>1. UNCHANGED <<map, held, freed, wrote, doomed>>
      BY <1>5, <2>2, <2>4 DEF RetainEntry
    <3> QED BY <3>1, <2>2 DEF MapInv, TypeOK, IndexesStayValid, FreedInOrder
  <2> QED BY <2>3, <2>4
<1>6. ASSUME UNCHANGED vars PROVE MapInv' /\ SameLength
  BY <1>6 DEF vars, MapInv, TypeOK, IndexesStayValid, FreedInOrder
<1> QED BY <1>1, <1>2, <1>3, <1>4, <1>5, <1>6 DEF Next

LEMMA MapInvHolds == Spec => []MapInv
<1>1. Init => MapInv
  <2> SUFFICES ASSUME Init PROVE MapInv
    OBVIOUS
  <2>1. map.entries = <<>> /\ map.next_empty = None /\ Len(map.entries) = 0
        /\ map \in Maps(Elements)
    BY NewMapFacts DEF Init, NewMap
  <2>2. Indexes(map) = {} /\ OccupiedIndexes(map) = {}
    BY NewMapFacts DEF Init
  <2>3. freed = <<>> /\ Len(freed) = 0 /\ freed \in Seq(Indexes(map))
    BY DEF Init
  <2>4. TypeOK
    BY <2>1, <2>3 DEF Init, TypeOK
  <2>5. IndexesStayValid
    BY <2>2 DEF Init, IndexesStayValid
  <2>6. FreedInOrder
    BY NewMapFacts DEF Init, FreedInOrder
  <2> QED BY <2>4, <2>5, <2>6 DEF MapInv
<1> QED BY <1>1, StepKeepsMapInv, PTL DEF Spec

(***************************************************************************)
(* MapTyped, GuardsCorrect, ChainCorrect and NeverPanics: with any number  *)
(* of clients, and any interleaving of insert(), remove(), retain() and    *)
(* changes in place, every index handed out stays good until its element   *)
(* is taken out, the chain of empty entries is intact, and insert() and    *)
(* index_mut() never panic.                                                *)
(***************************************************************************)
THEOREM MapTyped == Spec => []TypeOK
<1>1. MapInv => TypeOK
  BY DEF MapInv
<1> QED BY <1>1, MapInvHolds, PTL

(* GuardsCorrect: an index leads to what its holder stored there last. *)
THEOREM GuardsCorrect == Spec => []IndexesStayValid
<1>1. MapInv => IndexesStayValid
  BY DEF MapInv
<1> QED BY <1>1, MapInvHolds, PTL

(* ChainCorrect: the Empty entries form the chain insert() relies on. *)
THEOREM ChainCorrect == Spec => []FreedInOrder
<1>1. MapInv => FreedInOrder
  BY DEF MapInv
<1> QED BY <1>1, MapInvHolds, PTL

(* NeverPanics: the panic in insert() is unreachable. *)
THEOREM NeverPanics == Spec => []InsertNeverPanics
<1>1. MapInv => InsertNeverPanics
  BY FreedHead DEF InsertNeverPanics
<1> QED BY <1>1, MapInvHolds, PTL

(***************************************************************************)
(* MapNeverLeaks: the vector is never longer than the number of clients,   *)
(* each of which holds one element at most: when it grows, every entry it  *)
(* has belongs to another client than the one that is inserting.           *)
(***************************************************************************)
THEOREM MapNeverLeaks == Spec => []NoLeak
<1>1. Init => NoLeak
  <2>1. Cardinality(Clients) \in Nat
    BY ClientsAssumption, FS_CardinalityType
  <2> QED BY <2>1 DEF Init, NewMap, NoLeak
<1>2. MapInv /\ NoLeak /\ [Next]_vars => NoLeak'
  <2> SUFFICES ASSUME MapInv, NoLeak, [Next]_vars PROVE NoLeak'
    OBVIOUS
  <2>1. map \in Maps(Elements) /\ Len(map.entries) \in Nat
    BY MapFields DEF MapInv, TypeOK
  <2>2. ASSUME NEW c \in Clients, NEW d \in Data, InsertElement(c, d) PROVE NoLeak'
    <3> DEFINE e == [owner |-> c, data |-> d]
    <3>1. e \in Elements /\ map' = Insert(map, e) /\ held[c] = None
      BY <2>2 DEF InsertElement, Elements
    <3> HIDE DEF e
    <3>2. CASE map.next_empty # None
      <4>1. map.next_empty \in Indexes(map) \ OccupiedIndexes(map)
        BY <3>2, FreedHead
      <4>2. Len(map'.entries) = Len(map.entries)
        BY <3>1, <3>2, <4>1, <2>1, InsertIntoChain DEF OccupiedIndexes
      <4> QED BY <4>2 DEF NoLeak
    <3>3. CASE map.next_empty = None
      <4>1. Len(map'.entries) = Len(map.entries) + 1
        BY <3>1, <3>3, <2>1, InsertGrows
      <4>2. Indexes(map) = OccupiedIndexes(map)
        <5>1. freed = <<>> /\ Len(freed) = 0
          BY <3>3, FreedHead
        <5>2. Indexes(map) \ OccupiedIndexes(map) = {}
          BY <5>1 DEF MapInv, FreedInOrder, IsChain
        <5> QED BY <5>2 DEF OccupiedIndexes
      <4> DEFINE owner == [i \in Indexes(map) |-> ElementAt(map, i).owner]
      <4>3. owner \in Injection(Indexes(map), Clients \ {c})
        <5>1. \A i \in Indexes(map) :
                owner[i] \in Clients /\ held[owner[i]] = i /\ i # None
          BY <4>2, OwnerHolds DEF None, Indexes
        <5>2. \A i \in Indexes(map) : owner[i] \in Clients \ {c}
          BY <5>1, <3>1
        <5>3. owner \in [Indexes(map) -> Clients \ {c}]
          BY <5>2
        <5>4. \A i, j \in Indexes(map) : owner[i] = owner[j] => i = j
          BY <5>1
        <5> HIDE DEF owner
        <5> QED BY <5>3, <5>4 DEF Injection, IsInjective
      <4>4. IsFiniteSet(Clients \ {c}) /\ Cardinality(Clients \ {c}) = Cardinality(Clients) - 1
            /\ Cardinality(Clients) \in Nat
        BY ClientsAssumption, FS_CardinalityType, FS_RemoveElement
      <4>5. Cardinality(Indexes(map)) <= Cardinality(Clients \ {c})
        <5> HIDE DEF owner
        <5> QED BY <4>3, <4>4, FS_Injection
      <4>6. Cardinality(Indexes(map)) = Len(map.entries)
        BY <2>1, FS_Interval DEF Indexes
      <4> QED BY <4>1, <4>4, <4>5, <4>6, <2>1 DEF NoLeak
    <3> QED BY <3>2, <3>3
  <2>3. ASSUME Len(map'.entries) = Len(map.entries) PROVE NoLeak'
    BY <2>3 DEF NoLeak
  <2> QED BY <2>2, <2>3, StepKeepsMapInv
<1> QED BY <1>1, <1>2, MapInvHolds, PTL DEF Spec
=============================================================================
