SPECIFICATION Spec
CONSTANTS
  Roots = {r1, r2}
  Children = {c1, c2}
  Resources = {x}
  MaxSequence = 2
  NoFrame = NoFrame
  NoSurface = NoSurface
  MaxInFlight = 2
  MaxImports = 1
SYMMETRY Symmetry
CHECK_DEADLOCK FALSE
INVARIANTS
  IInv
  ResourcesAccounted
  EmbeddedSurfacesExist
  NothingLeaks
  CallbacksTracked
