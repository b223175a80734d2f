SPECIFICATION Spec
CONSTANTS
  Workers = {w1, w2}
  Ids = {}
  Accounts = {a1}
  NoName = NoName
  MaxRows = 2
  FirstConfig = 1
  LastConfig = 2
  RateLimit = 1
  MaxTime = 2
  MaxExtras = 1
CONSTRAINT FewExtras
SYMMETRY Symmetry
INVARIANTS
  BelongsUnlessMixed
PROPERTIES
  RateLimited
  FailuresReported
