\* c2, which may lose its context and be destroyed, shares its thread with c1.
CONSTANTS
  c1 = c1
  c2 = c2
  c3 = c3
  t1 = t1
  t2 = t2
  Client = {c1, c2, c3}
  Thread = {t1, t2}
  ThreadOf <- TwoAndOne
  Leaving = {c2}
  MaxOrder = 3
  MaxRelease = 1
  NoWait = NoWait
SPECIFICATION FairSpec
INVARIANTS
  RInv
  NeverForced
  CallbacksGuarded
PROPERTIES
  FenceSyncsSpec
  WaitCompletes
\* Clients may stop.
CHECK_DEADLOCK FALSE
