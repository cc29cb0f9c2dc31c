CONSTANTS
  Size = 3
  MaxTicks = 5
  MaxGets = 8
  SnmpRequests = {q1}
  Modules = {m1, m2}
  Workers = {w1, w2}
  Posters = {p1, p2}
  Nobody = Nobody
  MaxEdits = 1
  MongoScrapes = {s1, s2}
  Health = Health
  Nil = Nil
  Handles = {h1, h2, h3, h4}
  MaxOutages = 1
  Collectors <- Order
  Updaters = {u1, u2}
  Addresses = {a1, a2, a6}
  Enabled = {a1, a2}
  Unlocked = Unlocked
  SmartScrapes = {c1, c2}
  NDevices = 2
  Interval = 1
  Free = Free
  LogScrapes = {l1, l2}
  Places = {1, 2, 3}
  Nowhere = 0
  MaxEntries = 3
  MaxFetches = 4
  StatScrapes = {f1}
  Mounts = {b1, b2, b3, b4}
  Ignored = {b4}
  StatWorkers = {t1, t2}
  UtilScrapes = {r1, r2}
  Caches <- UtilityOrder
  NoWriter = NoWriter
  MaxFiles = 2
SPECIFICATION CollectorsSpec
INVARIANTS
  TypesOK
  WindowBound
  OneConfiguration
  OkMeansLoaded
  CrashNeedsOutage
  OneConnection
  MonitorIsRecorded
  CountedOnce
  OnlyTextfilesJam
PROPERTIES
  NoGrantAfterStop
  IsTokenBucket
  Refilled
  IsScatterGather
  HupTakesEffect
  ScrapeEnds
  PoolRecovers
  OncePerInterval
  NoneMissed
  StatsGathered
  BackOnlyIfOverlapped
CHECK_DEADLOCK FALSE
