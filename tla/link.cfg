\* The client of one phone, its hub and two other phones.
CONSTANTS
  Phones = {me, p2, p3}
  Me = me
  AutoAnswer = {}
  IvrDns = {}
  Offered = {}
  Ackers = {me}
  MediaHub = FALSE
  MaxCalls = 2
  NoPhone = NoPhone
  NoCall = NoCall
  NoDigits = NoDigits
  WrongNumber = WrongNumber
  Keys = {"NewCall", "Answer", "Hold", "Resume", "EndCall"}
  OthersDo = {"call", "end"}
  MaxUp = 2
  MaxDown = 2
  Records = FALSE
SPECIFICATION SetupSpec
CHECK_DEADLOCK FALSE
INVARIANTS
  ClientConsistent
  ClientAgrees
PROPERTY
  HangUpHeard
