\* The held party places a call of its own before the resume.
CONSTANTS
  Phones = {p1, p2, p3}
  AutoAnswer = {}
  Ackers = {}
  IvrDns = {}
  Offered = {}
  MediaHub = TRUE
  MaxCalls = 3
  NoPhone = NoPhone
  NoCall = NoCall
  NoDigits = NoDigits
  WrongNumber = WrongNumber
SPECIFICATION Spec
SYMMETRY Interchangeable
PROPERTY ResumeReunites
