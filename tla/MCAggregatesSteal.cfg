SPECIFICATION Spec
CONSTANTS
  Clients = {ann, eve}
  Aggregates = {a, b}
  Children = {x}
  Kinds = {"equipment", "inspection"}
  Level <- Inspecting
  Members = {ann, eve}
  RequireAuth = TRUE
  DisableOptimisticLocking = FALSE
  MaxStamps = 2
SYMMETRY Interchangeable
CHECK_DEADLOCK FALSE
PROPERTY NeverStolen
