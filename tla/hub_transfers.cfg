\* Three phones without media, two calls, transfer.
CONSTANTS
  Phones = {p1, p2, p3}
  AutoAnswer = {}
  Ackers = {}
  IvrDns = {}
  Offered = {"transfer"}
  MediaHub = TRUE
  MaxCalls = 2
  NoPhone = NoPhone
  NoCall = NoCall
  NoDigits = NoDigits
  WrongNumber = WrongNumber
SPECIFICATION Spec
SYMMETRY Interchangeable
INVARIANTS
  TableMatchesState
  FeaturesLinked
