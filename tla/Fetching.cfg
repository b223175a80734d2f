SPECIFICATION FetchingSpec
CONSTANTS
  Plans <- ProviderTable
  Wakes <- ProviderWakes
  MaxItems = 2
  Limits = {0, 1, 4, 100}
  Uses = {0, 1, 2, 4, 5, 99}
  Heedless = {"antigravity", "cursor", "opencodego", "stepfun"}
  Lax = {"cursor", "factory"}
  Borrowers = {"antigravity", "augment", "claude", "deepseek", "elevenlabs", "factory",
               "groq", "minimax", "ollama", "opencodego", "stepfun", "venice"}
INVARIANTS
  ExplicitIsStrict
  OneOwnerPerSnapshot
  SourceIsTruthful
  OwnAccountOnly
  WindowIsTheShare
PROPERTIES
  CancellationHeeded
  FetchEnds
CHECK_DEADLOCK FALSE
