SPECIFICATION Spec
CONSTANTS
  q = q
  k = k
  d = d
  v1 = v1
  v2 = v2
  absent = absent
  noFile = noFile
  Params = {q, k, d}
  Partnered = {q, k, d}
  OneShot = {q, d}
  Vals = {v1, v2}
  Absent = absent
  NoFile = noFile
  Custom <- MCCustom
  Default <- MCDefault
  Bootstrap <- MCBootstrap
  UserParams = {q, d}
  UserVals = {v1, absent}
  CrashesAt = {"load", "custom", "default", "triggers", "openBak", "writeBak", "up"}
  RebootsAt = {"up"}
  MaxChanges = 2
INVARIANTS TypeOK LastRequestWins
PROPERTY BootstrapMerged
