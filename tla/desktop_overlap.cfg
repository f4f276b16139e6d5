\* Any process beside any other one, one update, no crash.
SPECIFICATION Spec
CONSTANTS
  Tx = {t1}
  Proc = {p1, p2, p3}
  Base = Base
  Absent = Absent
  NoTx = NoTx
  NoProc = NoProc
  MaxCrash = 0
  Overlap = TRUE
  TornRollback = TRUE
SYMMETRY Symmetry
CONSTRAINT FewPlainHosts
INVARIANTS
  OneActivation
  FirstDeploymentKept
