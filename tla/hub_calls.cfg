\* Two plain phones, an auto-answer phone and the IVR; three calls; timers run.
CONSTANTS
  Phones = {p1, p2, p3}
  AutoAnswer = {p3}
  Ackers = {}
  IvrDns = {ivr}
  Offered = {}
  MediaHub = TRUE
  MaxCalls = 3
  NoPhone = NoPhone
  NoCall = NoCall
  NoDigits = NoDigits
  WrongNumber = WrongNumber
SPECIFICATION FairSpec
INVARIANTS
  TypeOK
  RingingCanBeAnswered
  NoPhoneStranded
PROPERTIES
  ConversationKept
  
  RingingSettles
