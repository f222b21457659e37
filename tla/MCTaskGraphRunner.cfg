SPECIFICATION MCSpec
CONSTANTS
  a = a
  b = b
  c = c
  d = d
  w1 = w1
  w2 = w2
  f1 = f1
  NoTask = NoTask
  MaxNamespace = 2
  Worker <- MCWorker
  Flusher <- MCFlusher
  SyncOrigin <- MCSyncOrigin
  Task <- MCTask
  NamespaceOf <- MCNamespaceOf
  Dependency <- MCDependency
  Rank <- MCRank
  Priorities <- MCPriorities
INVARIANT IInv
INVARIANT DependenciesRanFirst
INVARIANT ErasedNamespaceUnused
PROPERTY WaitReturnsWhenDone
PROPERTY NoTaskDropped
PROPERTY ReadyTaskCompletes
PROPERTY WorkersExit
PROPERTY WaiterReturns
