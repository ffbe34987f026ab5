----------------------------- MODULE MCIndexMap -----------------------------
(* The IndexMap on small instances. *)
EXTENDS IndexMapClients, TLC

(* Neither a client nor a datum is special. *)
Symmetry == Permutations(Clients) \cup Permutations(Data)
=============================================================================
