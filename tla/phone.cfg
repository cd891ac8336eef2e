\* The parts of a phone, each on its own: of the audio engine, two receivers of
\* two packets, or three commands with a tone of one block and one of a block
\* and a third.
CONSTANTS
  MaxConns = 2
  MaxResets = 1
  MaxDrops = 1
  Slow = {FALSE, TRUE}
  K1 = K1
  K3 = K3
  KHash = KHash
  Refs = {1, 2}
  NoCall = Nobody
  Kinds <- ScreenKinds
  Behind = 3
  MaxReceivers = 2
  MaxPackets = 2
  PacketLen = 2
  Block = 3
  Tones = {0, 3, 4}
  NoTone = Nobody
  ShotLen = 4
  MaxCommands = 3
SPECIFICATION PhoneSpec
\* A phone may have quit, and a bounded part has done all it may do.
CHECK_DEADLOCK FALSE
INVARIANTS
  PartsTypeOK
  
  RegisteredIsReal
  ScreenAgrees
  ShownFits
  
PROPERTIES
  
  QuitEnds
  
  ReceiversHeard
