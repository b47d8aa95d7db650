SPECIFICATION Spec
CONSTANTS
  Images = {p, q}
  Clients = {ann}
  Members = {ann}
  Allowed = {ann}
  Calls = {k, l}
  Drivers <- EveryDriver
  DisableOptimisticLocking = FALSE
  MaxStamps = 2
  MaxEvents = 2
  MaxFailures = 1
CHECK_DEADLOCK FALSE
INVARIANTS
  TypeOK
  UploadedMeansStored
PROPERTIES
  StatusNeverBack
  UploadReported
