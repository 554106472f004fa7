SPECIFICATION FairSpec
CONSTANTS
  c1 = c1
  c2 = c2
  r1 = r1
  timer = timer
  main = main
  none = none
  p1 = p1
  p2 = p2
  v1 = v1
  v2 = v2
  absent = absent
  noFile = noFile
  Clients = {c1, c2}
  ResetTasks = {}
  Timer = timer
  Main = main
  NoThread = none
  Params = {p1, p2}
  Vals = {v1, v2}
  Absent = absent
  NoFile = noFile
  Default <- MCDefault
  Requests <- ChangeRequests
  RefCountMod = 4
  TermAllowed = TRUE
  BootTermAllowed = FALSE
  MaxRequests = 2
  MaxFaults = 0
INVARIANTS OneFileWriter TermKeepsACopy
PROPERTY TermExits
