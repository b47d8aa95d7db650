SPECIFICATION Spec
CONSTANTS
  Groups = {a, b}
  Plants = {p1}
  Requests = {r1, r2}
  MaxSaves = 4
SYMMETRY Interchangeable
CHECK_DEADLOCK FALSE
INVARIANTS
  Acyclic
