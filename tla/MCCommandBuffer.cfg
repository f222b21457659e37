\* Every command and wait of a small ring; tokens wrap, the context may be lost.
CONSTANTS
  total_entry_count = 4
  kAutoFlushSmall = 4
  kAutoFlushBig = 2
  WorkSizes = {2}
  ReadSize = 1
  TokenSize = 1
  Size = 3
  BlockSizes = {1, 2}
  TokenLimit = 2
  flush_automatically = TRUE
  MayLose = TRUE
  MaxTasks = 1
SPECIFICATION FairSpec
INVARIANTS
  MInv
  MemoryReadIsHeld
  NoParseError
PROPERTIES
  StreamSpec
  CallsReturn
\* Clients may stop.
CHECK_DEADLOCK FALSE
