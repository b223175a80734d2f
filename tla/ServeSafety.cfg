SPECIFICATION Spec
CONSTANTS
  Requests = {q1, q2, q3}
  Routes = {usage}
  Costs = {}
  Dashboards = {}
  Fingerprints = {c1, c2}
  NoConfig = NoConfig
  Accounts = {}
  Caching = TRUE
  HasTimeout = TRUE
  MaxClients = 3
  MaxChanges = 1
  SpuriousWakes = TRUE
  Outcomes = {200, 504}
  Main = Main
SYMMETRY Symmetry
INVARIANTS
  OneFetchPerRoute
  OperationsHaveOwners
  AnsweredForOwnConfig
PROPERTIES
  CacheMovesForward
  ImplementsSharedFetch
