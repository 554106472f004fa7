SPECIFICATION FairSpec
CONSTANTS
  a = a
  b = b
  d = d
  NoFile = NoFile
  Empty = Empty
  Torn = Torn
  Nothing = Nothing
  Configs = {a, b, d}
  Default = d
  PowerLossAllowed = TRUE
  MaxFaults = 2
PROPERTIES OnlySavesChange OperationEnds
