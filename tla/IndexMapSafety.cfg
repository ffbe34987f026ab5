CONSTANTS
  Clients = {c1, c2, c3, c4}
  Data = {d1, d2}
SPECIFICATION Spec
SYMMETRY Symmetry
INVARIANTS
  TypeOK
  IndexesStayValid
  InsertNeverPanics
  FreedInOrder
  NoLeak
