\* A launch that is recorded as failed after the candidate has started: the worker rolls back
\* beside the Host it has launched.
SPECIFICATION Spec
CONSTANTS
  Tx = {t1}
  Proc = {p1, p2, p3}
  Base = Base
  Absent = Absent
  NoTx = NoTx
  NoProc = NoProc
  MaxCrash = 0
  Overlap = FALSE
  TornRollback = TRUE
SYMMETRY Symmetry
PROPERTY RejectsStaleWriters
