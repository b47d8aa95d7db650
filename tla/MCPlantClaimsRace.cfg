SPECIFICATION Spec
CONSTANTS
  Users = {ann, eve}
  Internal = {ann}
  Devices = {phone, tablet}
  Plants = {a}
  Facilities = {f}
  Requests = {r1, r2}
  MaxStamps = 3
  MaxDay = 1
SYMMETRY Interchangeable
CHECK_DEADLOCK FALSE
PROPERTIES
  ClaimRefused
