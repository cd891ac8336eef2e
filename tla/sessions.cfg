\* Three connections of two devices, leaving at any time, under fair threads.
CONSTANTS
  s1 = s1
  s2 = s2
  s3 = s3
  d1 = d1
  d2 = d2
  Sessions <- ThreeSessions
  Devices <- TwoDevices
  Orderly = FALSE
  NoSession = NoSession
  NoDevice = NoDevice
  Idle = Idle
SPECIFICATION FairSpec
\* Every session may be gone, or stuck, in the end.
CHECK_DEADLOCK FALSE
INVARIANTS
  TypeOK
  TableListsServing
  StuckOnlyInCall
  CallerPresent
PROPERTY
  SessionsEndUnlessStuck
