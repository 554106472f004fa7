SPECIFICATION FairSpec
CONSTANTS
  d1 = d1
  b1 = b1
  none = none
  v1 = v1
  v2 = v2
  empty = empty
  absent = absent
  null = null
  Dbus = {d1}
  Rbus = {b1}
  NoThread = none
  Order <- MCOrder
  OwnNames <- MCOwnNames
  Settable <- MCSettable
  Shadowed <- MCShadowed
  Values = {v1, v2, empty}
  EmptyText = empty
  NoRecord = absent
  NoValue = null
  Initial <- MCInitial
  Requests <- MCRequests
  Commands = {"e", "c", "q"}
  MaxRequests = 2
  MaxEngagements = 2
  MaxFailures = 1
INVARIANTS TypeOK ReleasedWhenReady ServedAfterLoad SnapshotReads NamesAnswer
PROPERTIES UnloadStopsDbus ParentReleased RequestsEnd
CHECK_DEADLOCK FALSE
