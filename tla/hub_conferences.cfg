\* Three phones with media, two calls, conference; the IVR.
CONSTANTS
  Phones = {p1, p2, p3}
  AutoAnswer = {}
  Ackers = {p1, p2, p3}
  IvrDns = {ivr}
  Offered = {"conference"}
  MediaHub = TRUE
  MaxCalls = 2
  NoPhone = NoPhone
  NoCall = NoCall
  NoDigits = NoDigits
  WrongNumber = WrongNumber
SPECIFICATION Spec
SYMMETRY Interchangeable
INVARIANTS
  FocusIsOwn
  MediaOnlyWhileLive
