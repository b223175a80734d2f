SPECIFICATION Spec
CONSTANTS
  Workers = {w1, w2}
  Ids = {}
  Accounts = {}
  NoName = NoName
  MaxRows = 1
  FirstConfig = 1
  LastConfig = 2
  RateLimit = 2
  MaxTime = 1
INVARIANTS
  StateBelongsToConfig
