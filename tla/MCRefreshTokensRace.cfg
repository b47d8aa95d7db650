SPECIFICATION Spec
CONSTANTS
  Inspectors = {ann}
  Devices = {phone}
  Requests = {r1, r2}
  RefreshLifetime = 2
  ReuseLifetime = 1
  MaxTokens = 4
  MaxPassword = 2
  MaxTime = 3
CHECK_DEADLOCK FALSE
PROPERTIES
  OneRotation
