\* One device reconnects before its old connection is cleaned up.
CONSTANTS
  s1 = s1
  s2 = s2
  s3 = s3
  d1 = d1
  d2 = d2
  Sessions <- TwoSessions
  Devices <- OneDevice
  Orderly = TRUE
  NoSession = NoSession
  NoDevice = NoDevice
  Idle = Idle
SPECIFICATION Spec
\* Every session may be gone, or stuck, in the end.
CHECK_DEADLOCK FALSE
SYMMETRY Interchangeable
INVARIANT
  RegisteredIsReachable
