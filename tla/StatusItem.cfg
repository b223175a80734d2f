SPECIFICATION FairSpec
CONSTANTS
  Configured = {"manual", "twoMinutes", "adaptive"}
  Constrained = FALSE
  TimeStep = 60
  MaxTime = 420
  MaxInputs = 3
INVARIANTS
  CurrentRefreshLives
  KeepsRefreshing
PROPERTIES
  ShowsOnlyTheCurrent
  PhaseKept
  EveryRefreshShows
