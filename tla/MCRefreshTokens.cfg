SPECIFICATION Spec
CONSTANTS
  Inspectors = {ann}
  Devices = {phone}
  Requests = {r1, r2}
  RefreshLifetime = 2
  ReuseLifetime = 1
  MaxTokens = 4
  MaxPassword = 2
  MaxTime = 3
CHECK_DEADLOCK FALSE
INVARIANTS
  TypeOK
  RotationForest
  RecoveryMaterial
  AnswerStaysInSession
  SingleLiveToken
  RetryKeepsSession
  ReuseEndsSession
  PasswordChangeEndsSessions
PROPERTIES
  RotationIsFinal
  ActsAsRegister
  RequestsFinish
