SPECIFICATION Spec
CONSTANTS
  Users = {ann, eve}
  Internal = {ann}
  Devices = {phone, tablet}
  Plants = {a, b}
  Facilities = {f}
  Requests = {r1, r2}
  MaxStamps = 3
  MaxDay = 2
SYMMETRY Interchangeable
CHECK_DEADLOCK FALSE
INVARIANTS
  TypeOK
  AccessFollowsCreation
PROPERTIES
  OriginsStay
  ClaimExclusive
  OnlyClaimantSaves
  NothingLost
  ChangesVersioned
  ActsAsRegister
