SPECIFICATION Spec
CONSTANTS
  Groups = {a, b, c}
  Plants = {p1, p2}
  Requests = {r1, r2}
  MaxSaves = 3
SYMMETRY Interchangeable
CHECK_DEADLOCK FALSE
INVARIANTS
  TypeOK
  TurnsKeepForest
  NoStandstill
PROPERTIES
  SavedAsAsked
  NoSilentMove
  VersionsChecked
