SPECIFICATION Spec
CONSTANTS
  Clients = {ann, eve}
  Aggregates = {a, b}
  Children = {x}
  Kinds <- EveryKind
  Level <- Inspecting
  Members = {ann, eve}
  RequireAuth = TRUE
  DisableOptimisticLocking = FALSE
  MaxStamps = 2
SYMMETRY Interchangeable
CHECK_DEADLOCK FALSE
INVARIANTS
  TypeOK
  NothingMissed
  CopiesAreWhole
PROPERTIES
  ForcedSaveIsWhole
  FirstStickerStays
  OwnerKeepsWorkLog
  ClaimedSave
  ActsAsRegister
