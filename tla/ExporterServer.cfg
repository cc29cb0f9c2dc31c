CONSTANTS
  Size = 1
  MaxTicks = 1
  MaxGets = 2
  Requests = {r1, r2}
  MaxSignals = 2
SPECIFICATION FairServerSpec
INVARIANTS
  OneTokenPerScrape
  GracefulServesAll
  ListenErrorReported
  CrashNeedsTwoSignals
PROPERTIES
  SignalEnds
CHECK_DEADLOCK FALSE
