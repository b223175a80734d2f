SPECIFICATION Spec
CONSTANTS
  Requests = {q1, q2, q3}
  Routes = {usage, cost, dashboard}
  Costs = {cost}
  Dashboards = {dashboard}
  Fingerprints = {c1, c2}
  NoConfig = NoConfig
  Accounts = {a1}
  Caching = TRUE
  HasTimeout = FALSE
  MaxClients = 1
  MaxChanges = 1
  SpuriousWakes = FALSE
  Outcomes = {200, 500}
  Main = Main
SYMMETRY Symmetry
INVARIANTS
  KeptUnderItsConfig
  OnlyFreshDataKept
