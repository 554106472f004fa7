\* Repositories with records of every type, saved and loaded on both paths; the
\* buffer of the flush may fail to grow.
SPECIFICATION Spec
CONSTANTS
  Names <- MCNames
  Hash <- MCHash
  Root <- MCRoot
  LongData <- MCLongData
  Repositories <- MCRepositories
  Sources <- MCSources
  Paths = {"platform", "base"}
  ValueSize = 111
  IntMax = 536870911
  Buckets = 2
  FlushMayFail = TRUE
  NoEntry = NoEntry
  NoName = NoName
  NoAttr = NoAttr
INVARIANTS TypeOK SavedComesBack FoldersComeBack LossIsContained SourcesInOrder FreedOnce TableEmptied
PROPERTIES TableImplementsMap LoadEnds
CHECK_DEADLOCK FALSE
