\* Commands of one and two entries in a ring of five; the client flushes.
CONSTANTS
  total_entry_count = 5
  kAutoFlushSmall = 4
  kAutoFlushBig = 2
  WorkSizes = {1}
  ReadSize = 2
  TokenSize = 2
  Size = 3
  BlockSizes = {1}
  TokenLimit = 3
  flush_automatically = FALSE
  MayLose = FALSE
  MaxTasks = 1
SPECIFICATION Spec
INVARIANT NothingDropped
CHECK_DEADLOCK FALSE
