\* One phone and late datagrams; two phones and lost ones; one phone that
\* completes; and two devices, one with an export, a thread besides the TFTP
\* server, one restart.
CONSTANTS
  Clients = {c1, c2}
  One = c1
  Versions = {v1, v2}
  NoVersion = NoVersion
  Blocks = 2
  MaxSessions = 3
  MaxTries = 2
  MaxLost = 1
  Settings <- TftpSettings
  Devices = {d1, d2}
  Exported = {d1}
  Writers = {w1}
  Tftp = tftp
  IvrDn = 1
  MaxStarts = 2
  NoDn = NoDn
  NoThread = NoThread
  NoDevice = NoDevice
SPECIFICATION TftpSpec
\* A download is over once.
CHECK_DEADLOCK FALSE
INVARIANTS
  OneSessionEach
  DnsDistinct
  
PROPERTIES
  IsTransfer
  
  RequestServed
