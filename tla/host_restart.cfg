\* Four requests; a request may outlast the drain and WebView2 may throw.
SPECIFICATION FairSpec
CONSTANTS
  Req = {r1, r2, r3, r4}
  Nobody = nobody
INVARIANTS
  HandoffIsQuiet
  OneWorker
  OpenMeansOperational
  ServiceRestored
PROPERTY
  RestartEnds
CHECK_DEADLOCK FALSE
