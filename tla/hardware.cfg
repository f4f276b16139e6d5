SPECIFICATION Spec
CONSTANTS
  Foci = {"firmware", "vendor", "expiry", "review", "aging", "qualification", "image"}
  BrokerTime = 3
  BrokerTtl = 1
  BrokerSkew = 1
  CatalogSequences = 2
  One = {x1}
  Pair = {p1, p2}
  Other = {q1, q2}
  Third = {r1, r2}
  NoOne = NoOne
SYMMETRY Symmetry
INVARIANTS MutationsFollow VendorTrusted ProvenEvidence
PROPERTY JournalsKept
CHECK_DEADLOCK FALSE
