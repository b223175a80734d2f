SPECIFICATION FetchingSpec
CONSTANTS
  Plans <- ProviderTable
  Wakes <- ProviderWakes
  MaxItems = 2
  Limits = {0, 1, 4}
  Uses = {0, 1, 2, 4, 5}
  Heedless = {"antigravity", "cursor", "opencodego", "stepfun"}
  Lax = {"cursor", "factory"}
  Borrowers = {"antigravity", "augment", "claude", "deepseek", "elevenlabs", "factory",
               "groq", "minimax", "ollama", "opencodego", "stepfun", "venice"}
INVARIANTS
  OwnKeyWins
CHECK_DEADLOCK FALSE
