\* One process at a time but where the code runs two, two updates, two crashes.
SPECIFICATION Spec
CONSTANTS
  Tx = {t1, t2}
  Proc = {p1, p2, p3}
  Base = Base
  Absent = Absent
  NoTx = NoTx
  NoProc = NoProc
  MaxCrash = 2
  Overlap = FALSE
  TornRollback = TRUE
SYMMETRY Symmetry
INVARIANTS
  CommittedInPlace
  UndoneOutOfSlots
  KnownGoodOnDisk
  ShellHidesNothing
  SwapAfterHostExit
PROPERTIES
  JournalDiscipline
  CommitByTarget
