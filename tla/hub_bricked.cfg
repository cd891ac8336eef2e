\* Transfer pressed inside a conference.
CONSTANTS
  Phones = {p1, p2, p3}
  AutoAnswer = {}
  Ackers = {}
  IvrDns = {}
  Offered = {"transfer", "conference"}
  MediaHub = TRUE
  MaxCalls = 2
  NoPhone = NoPhone
  NoCall = NoCall
  NoDigits = NoDigits
  WrongNumber = WrongNumber
SPECIFICATION Spec
SYMMETRY Interchangeable
INVARIANT BusyMeansInCall
