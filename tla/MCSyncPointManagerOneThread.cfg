\* One GPU thread for all, as the in-process command buffers have by default.
CONSTANTS
  c1 = c1
  c2 = c2
  c3 = c3
  t1 = t1
  t2 = t2
  Client = {c1, c2}
  Thread = {t1}
  ThreadOf <- OneForAll
  Leaving = {c2}
  MaxOrder = 3
  MaxRelease = 1
  NoWait = NoWait
SPECIFICATION FairSpec
PROPERTIES
  WaitIsCalledBack
\* Clients may stop.
CHECK_DEADLOCK FALSE
