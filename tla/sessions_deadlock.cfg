\* Phones leave only after they have hung up everything.
CONSTANTS
  s1 = s1
  s2 = s2
  s3 = s3
  d1 = d1
  d2 = d2
  Sessions <- ThreeSessions
  Devices <- TwoDevices
  Orderly = TRUE
  NoSession = NoSession
  NoDevice = NoDevice
  Idle = Idle
SPECIFICATION FairSpec
\* Every session may be gone, or stuck, in the end.
CHECK_DEADLOCK FALSE
PROPERTY
  RegistrationCompletes
