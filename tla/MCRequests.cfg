SPECIFICATION Spec
CONSTANTS
  ann = ann
  access = access
  keys = keys
  Requests = {r, s}
  Inspectors = {ann}
  Tokens = {access, keys}
  Sub <- Names
  Signed = {access}
  Drivers <- EveryDriver
  RequireAuth = {TRUE, FALSE}
  TrustInvalid = {TRUE, FALSE}
  PoolSize = 2
CHECK_DEADLOCK FALSE
INVARIANTS
  TypeOK
  KnownServed
PROPERTIES
  SettlesDown
