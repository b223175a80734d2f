SPECIFICATION MCFairSpec
CONSTANTS
  Requests = {q1, q2, q3}
  Routes = {usage}
  Costs = {}
  Dashboards = {}
  Fingerprints = {c1, c2}
  NoConfig = NoConfig
  Accounts = {}
  Caching = FALSE
  HasTimeout = FALSE
  MaxClients = 3
  MaxChanges = 1
  SpuriousWakes = FALSE
  Outcomes = {500}
  Main = Main
PROPERTIES
  EveryClientIsAnswered
  ShutdownCompletes
