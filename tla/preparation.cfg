\* Two services, three transactions, so that one could be too many.
SPECIFICATION FairSpec
CONSTANTS
  Tx = {t1, t2, t3}
  NoTx = noTx
INVARIANTS
  DowngradeStopsAutomatic
  TwoAtMost
PROPERTY
  PreparationEnds
