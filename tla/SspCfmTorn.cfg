SPECIFICATION Spec
CONSTANTS
  q = q
  k = k
  d = d
  v1 = v1
  v2 = v2
  absent = absent
  noFile = noFile
  Params = {q, k, d}
  Partnered = {q, k, d}
  OneShot = {q, d}
  Vals = {v1, v2}
  Absent = absent
  NoFile = noFile
  Custom <- MCCustom
  Default <- MCDefault
  Bootstrap <- MCBootstrap
  UserParams = {q}
  UserVals = {v1}
  CrashesAt = {"writeCur", "up"}
  RebootsAt = {"up"}
  MaxChanges = 1
INVARIANT BackupUsed
