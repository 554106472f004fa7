SPECIFICATION Spec
CONSTANTS
  a = a
  b = b
  d = d
  NoFile = NoFile
  Empty = Empty
  Torn = Torn
  Nothing = Nothing
  Configs = {a, b, d}
  Default = d
  PowerLossAllowed = FALSE
  MaxFaults = 0
PROPERTIES ImplementsStore KeepsACopy
