\* A crash between the moves of a slot rollback.
SPECIFICATION Spec
CONSTANTS
  Tx = {t1}
  Proc = {p1, p2, p3}
  Base = Base
  Absent = Absent
  NoTx = NoTx
  NoProc = NoProc
  MaxCrash = 1
  Overlap = FALSE
  TornRollback = TRUE
INVARIANT
  RollbackReady
