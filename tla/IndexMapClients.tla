-------------------------- MODULE IndexMapClients --------------------------
(***************************************************************************)
(* The IndexMap in use: clients that insert an element each, keep the      *)
(* index insert() gave them (the ScheduleGuard of schedule_runner.rs),     *)
(* change the element through it, or take it out again.                    *)
(* retain() is a loop over the entries; it has the map to itself (&mut     *)
(* self) until it is done, which `cursor` and `doomed` are for.            *)
(***************************************************************************)
EXTENDS IndexMap, FiniteSets

CONSTANTS Clients, Data

ASSUME ClientsAssumption == IsFiniteSet(Clients)

VARIABLES map,
          held,    \* the index each client was given, None when it has none
          wrote,   \* the data each client last stored
          cursor,  \* entries that retain() still has to look at
          doomed,  \* whose elements the closure given to retain() refuses
          freed    \* auxiliary: the empty entries, the last one emptied first

vars == <<map, held, wrote, cursor, doomed, freed>>

Elements == [owner : Clients, data : Data]

TypeOK ==
  /\ map \in Maps(Elements)
  /\ held \in [Clients -> {None} \cup Indexes(map)]
  /\ wrote \in [Clients -> Data]
  /\ cursor \in 0 .. Len(map.entries)
  /\ doomed \in SUBSET Clients
  /\ freed \in Seq(Indexes(map))

Init ==
  /\ map = NewMap
  /\ held = [c \in Clients |-> None]
  /\ wrote \in [Clients -> Data]
  /\ cursor = 0
  /\ doomed = {}
  /\ freed = <<>>
-----------------------------------------------------------------------------
NotRetaining == cursor = 0

InsertElement(c, d) ==
  /\ NotRetaining
  /\ held[c] = None
  /\ ~InsertPanics(map)
  /\ map' = Insert(map, [owner |-> c, data |-> d])
  /\ held' = [held EXCEPT ![c] = InsertIndex(map)]
  /\ wrote' = [wrote EXCEPT ![c] = d]
  /\ freed' = IF map.next_empty = None THEN freed ELSE Tail(freed)
  /\ UNCHANGED <<cursor, doomed>>

RemoveElement(c) ==
  /\ NotRetaining
  /\ held[c] # None
  /\ map' = Remove(map, held[c])
  /\ held' = [held EXCEPT ![c] = None]
  /\ freed' = <<held[c]>> \o freed
  /\ UNCHANGED <<wrote, cursor, doomed>>

ChangeElement(c, d) ==
  /\ NotRetaining
  /\ held[c] # None
  /\ map' = Assign(map, held[c], [owner |-> ElementAt(map, held[c]).owner, data |-> d])
  /\ wrote' = [wrote EXCEPT ![c] = d]
  /\ UNCHANGED <<held, cursor, doomed, freed>>

(* retain(): the closure refuses the elements of the clients in D. *)
BeginRetain(D) ==
  /\ NotRetaining
  /\ D # {}
  /\ Len(map.entries) > 0
  /\ doomed' = D
  /\ cursor' = Len(map.entries)
  /\ UNCHANGED <<map, held, wrote, freed>>

(* One turn of its loop, from the first entry to the last.  The owner of a *)
(* refused element learns that its index is no longer its own.             *)
RetainEntry ==
  LET i == Len(map.entries) + 1 - cursor
      refused == Occupied(map, i) /\ ElementAt(map, i).owner \in doomed
  IN
  /\ cursor > 0
  /\ IF refused
     THEN /\ map' = Remove(map, i)
          /\ held' = [held EXCEPT ![ElementAt(map, i).owner] = None]
          /\ freed' = <<i>> \o freed
     ELSE UNCHANGED <<map, held, freed>>
  /\ cursor' = cursor - 1
  /\ UNCHANGED <<wrote, doomed>>

Next ==
  \/ \E c \in Clients, d \in Data : InsertElement(c, d) \/ ChangeElement(c, d)
  \/ \E c \in Clients : RemoveElement(c)
  \/ \E D \in SUBSET Clients : BeginRetain(D)
  \/ RetainEntry

Spec == Init /\ [][Next]_vars
-----------------------------------------------------------------------------
(***************************************************************************)
(* IndexesStayValid: whatever the others insert and remove, the index a    *)
(* client was given leads to what that client last stored, and the map     *)
(* holds nothing else: no index is handed out twice, and none is reused    *)
(* under a client that still holds it (insert(), remove(); the expect() in *)
(* ScheduleGuard::stop and the panic in index_mut() never happen).         *)
(***************************************************************************)
IndexesStayValid ==
  /\ \A c \in Clients : held[c] # None =>
       /\ held[c] \in OccupiedIndexes(map)
       /\ ElementAt(map, held[c]) = [owner |-> c, data |-> wrote[c]]
  /\ \A i \in OccupiedIndexes(map) : held[ElementAt(map, i).owner] = i

(***************************************************************************)
(* InsertNeverPanics: next_empty always leads to an Empty entry ("IndexMap *)
(* next_empty not pointing to Entry::Empty" is never reached).             *)
(***************************************************************************)
InsertNeverPanics == ~InsertPanics(map)

(***************************************************************************)
(* FreedInOrder: the chain from next_empty through the Empty entries is    *)
(* the list of the emptied entries, last one first, each of them once and  *)
(* none of them lost (the order in which insert() reuses them).            *)
(***************************************************************************)
FreedInOrder == IsChain(map, freed)

(***************************************************************************)
(* NoLeak: the vector grows only when every entry is in use, so it is      *)
(* never longer than the number of elements that were in it at one time.   *)
(***************************************************************************)
NoLeak == Len(map.entries) <= Cardinality(Clients)
-----------------------------------------------------------------------------
(* The invariant behind them all: those properties together. *)
MapInv ==
  /\ TypeOK
  /\ IndexesStayValid
  /\ FreedInOrder
=============================================================================
