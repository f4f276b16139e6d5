\* One update, two crashes, none of them inside a slot rollback.
SPECIFICATION FairSpec
CONSTANTS
  Tx = {t1}
  Proc = {p1, p2, p3}
  Base = Base
  Absent = Absent
  NoTx = NoTx
  NoProc = NoProc
  MaxCrash = 2
  Overlap = FALSE
  TornRollback = FALSE
INVARIANT
  RollbackReady
PROPERTY
  Settles
