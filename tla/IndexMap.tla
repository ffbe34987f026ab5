------------------------------ MODULE IndexMap ------------------------------
(***************************************************************************)
(* IndexMap (schedule_runner.rs, mod index_map): a vector of entries that  *)
(* keeps every element at the index it was inserted at.  A removed element *)
(* leaves an Empty entry behind, which holds the index of the entry that   *)
(* was emptied before it, so that the empty entries form a chain from      *)
(* next_empty and are used again, the last one emptied first.              *)
(*                                                                         *)
(* A map is a record of its fields.  Indexes are those of a TLA+ sequence, *)
(* one more than the code's, and 0 is the code's Option::None.             *)
(***************************************************************************)
EXTENDS Integers, Sequences

None == 0

Element(e) == [kind |-> "Element", elem |-> e]
Empty(n)   == [kind |-> "Empty", next |-> n]

Entries(Elem) == [kind : {"Element"}, elem : Elem] \cup [kind : {"Empty"}, next : Nat]

Maps(Elem) == [entries : Seq(Entries(Elem)), next_empty : Nat]

NewMap == [entries |-> <<>>, next_empty |-> None]

Indexes(m) == 1 .. Len(m.entries)
Occupied(m, i) == m.entries[i].kind = "Element"
OccupiedIndexes(m) == {i \in Indexes(m) : Occupied(m, i)}
ElementAt(m, i) == m.entries[i].elem

(* mem::replace of one entry, and a new next_empty. *)
WithEntry(m, i, x, n) == [entries |-> [m.entries EXCEPT ![i] = x], next_empty |-> n]
-----------------------------------------------------------------------------
(* Variants: the length is read after the push, or the index returned is   *)
(* that of a new entry although an empty one was used.                     *)
InsertIndexAfterPush(m) ==
  IF m.next_empty = None THEN Len(m.entries) + 2 ELSE m.next_empty
InsertIndexAtEnd(m) == Len(m.entries) + 1

(* Where insert() puts the element: what it returns. *)
InsertIndex(m) == IF m.next_empty = None THEN Len(m.entries) + 1 ELSE m.next_empty

(* insert() panics when next_empty does not lead to an Empty entry. *)
InsertPanics(m) ==
  /\ m.next_empty # None
  /\ m.next_empty \notin Indexes(m) \/ Occupied(m, m.next_empty)

(* insert(): the vector grows, or next_empty moves on along the chain. *)
InsertAtEnd(m, e) ==
  [entries |-> Append(m.entries, Element(e)), next_empty |-> None]

(* Variants: the slot stays at the head of the chain, or the rest of the   *)
(* chain is dropped.                                                       *)
InsertButStayThere(m, e) ==
  WithEntry(m, m.next_empty, Element(e), m.next_empty)
InsertAndDropChain(m, e) ==
  WithEntry(m, m.next_empty, Element(e), None)

InsertIntoEmpty(m, e) ==
  WithEntry(m, m.next_empty, Element(e), m.entries[m.next_empty].next)

Insert(m, e) == IF m.next_empty = None THEN InsertAtEnd(m, e) ELSE InsertIntoEmpty(m, e)

(* Variant: the emptied entry does not remember the one before it. *)
RemoveUnchained(m, i) ==
  IF Occupied(m, i)
  THEN WithEntry(m, i, Empty(None), i)
  ELSE m

(* remove(): an Empty entry stays as it is; an index beyond the vector     *)
(* panics, which no caller can cause.                                      *)
Remove(m, i) ==
  IF Occupied(m, i)
  THEN WithEntry(m, i, Empty(m.next_empty), i)
  ELSE m

(* index_mut() and an assignment through it; indexing an Empty entry       *)
(* panics.                                                                 *)
Assign(m, i, e) ==
  WithEntry(m, i, Element(e), m.next_empty)

(* Iter::next, from the entries the iterator has already passed: the next  *)
(* element's index, or None.                                               *)
After(m, passed) == {i \in OccupiedIndexes(m) : i > passed}

NextIndex(m, passed) ==
  IF After(m, passed) = {} THEN None
  ELSE CHOOSE i \in After(m, passed) : \A j \in After(m, passed) : i <= j
-----------------------------------------------------------------------------
(* What holds the empty entries together: the chain from next_empty leads  *)
(* through the entries in s, in that order, each of them once, and through *)
(* every Empty entry there is.                                             *)
ChainStart(s) == IF s = <<>> THEN None ELSE s[1]

IsChain(m, s) ==
  /\ m.next_empty = ChainStart(s)
  /\ \A k \in 1 .. Len(s) :
       /\ s[k] \in Indexes(m) \ OccupiedIndexes(m)
       /\ m.entries[s[k]].next = IF k = Len(s) THEN None ELSE s[k + 1]
  /\ \A j, k \in 1 .. Len(s) : s[j] = s[k] => j = k
  /\ \A i \in Indexes(m) \ OccupiedIndexes(m) : \E k \in 1 .. Len(s) : s[k] = i
=============================================================================
