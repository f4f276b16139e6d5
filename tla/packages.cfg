SPECIFICATION Spec
CONSTANTS
  Tx = {t1, t2}
  NoTx = NoTx
  NoEntry = {"apt"}
  Installed = {1}
  Spares = {0}
SYMMETRY Symmetry
PROPERTIES JournaledTransaction CommitIsDesired RollbackRestores
CHECK_DEADLOCK FALSE
