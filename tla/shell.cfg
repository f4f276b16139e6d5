SPECIFICATION Spec
CONSTANTS
  Once = 1
  Twice = 2
  Versions = {1, 2, 3}
  Keys = {"k1", "k2"}
  FirstKey = "k1"
  Wants1 = {"files"}
  Wants2 = {"net"}
  Beside = {}
  Words = {"packages", "whoami", "help"}
  Foci = {"packages", "shell", "policy", "files", "bridge", "notifications", "identity", "release", "reruns", "media", "widgets", "contexts", "locale", "appearance", "terminal"}
  One = {x1}
  Pair = {p1, p2}
  Other = {q1, q2}
  NoOne = NoOne
SYMMETRY Symmetry
INVARIANTS ChangedTogether DesktopConsistent AppBridgeKept SurfacesFollow PresentationAgrees
PROPERTIES NothingGoesBack CardsGoForReason
CHECK_DEADLOCK FALSE
