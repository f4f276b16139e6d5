SPECIFICATION Spec
CONSTANTS
  Foci = {"broker", "planning", "network", "windows", "appimage", "catalog", "apps", "authorization", "drivers", "recovery"}
  BrokerTime = 3
  BrokerTtl = 1
  BrokerSkew = 1
  CatalogSequences = 2
  One = {x1}
  Pair = {p1, p2}
  Other = {q1, q2}
  Third = {r1, r2}
  NoOne = NoOne
SYMMETRY Symmetry
INVARIANTS OneTransactionPerGrant PlanSurvives ProcessesOwned AllOrNothing ActorsConfined ReportsGrounded
PROPERTY CatalogTrusted
CHECK_DEADLOCK FALSE
