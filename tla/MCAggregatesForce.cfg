SPECIFICATION Spec
CONSTANTS
  Clients = {ann, eve}
  Aggregates = {a, b}
  Children = {x}
  Kinds = {"inspection"}
  Level <- Inspecting
  Members = {ann, eve}
  RequireAuth = TRUE
  DisableOptimisticLocking = FALSE
  MaxStamps = 2
SYMMETRY Interchangeable
CHECK_DEADLOCK FALSE
PROPERTY ForceIsHeard
