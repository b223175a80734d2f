SPECIFICATION Spec
CONSTANTS
  MaxPrograms = 3
  MayCrash = TRUE
INVARIANTS
  TreeIsGone
  OutputEnds
PROPERTIES
  CallReturns
  TreeEnds
