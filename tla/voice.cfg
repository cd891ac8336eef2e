\* The parts of the simulator's voice, each on its own: of the media hub, two
\* calls, the handlers one after the other.
SPECIFICATION VoiceSpec
CONSTANTS
  Calls = {"first", "second"}
  NoCall = "none"
  Caller = "caller"
  Callee = "callee"
  Third = "third"
  Settings <- VoiceSettings
  Orderly = TRUE
  MaxLegs = 10
\* A call may be over, and a bounded part has done all it may do.
CHECK_DEADLOCK FALSE
INVARIANTS
  PartsTypeOK
  
  
PROPERTIES
  PartiesHeard
  AreDelayLines
  
