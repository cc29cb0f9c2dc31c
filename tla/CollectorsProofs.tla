-------------------------- MODULE CollectorsProofs --------------------------
(***************************************************************************)
(* Proofs about PingTargets, DeviceCache, PaperlessLogs and UtilityCaches, *)
(* for every value of their constants, and about the machines of           *)
(* MCCollectors.                                                           *)
(***************************************************************************)
EXTENDS MCCollectors, RateLimiterProofs, SnmpExporterProofs, MongoPoolProofs,
        FilesystemStatsProofs

-----------------------------------------------------------------------------
(* PingTargets.                                                            *)

UpdaterStep(u) ==
    \/ StartRefresh(u) \/ TakeMutex(u) \/ Resolve(u) \/ CleanUp(u)
    \/ \E a \in Addresses : AddIfNew(u, a) \/ AddRefused(u, a)

LEMMA PingTypeInit == PingInit => PingTypeOK
BY DEF PingInit, PingTypeOK

LEMMA PingTypeStep == PingTypeOK /\ [PingNext]_pingVars => PingTypeOK'
<1>. SUFFICES ASSUME PingTypeOK, [PingNext]_pingVars PROVE PingTypeOK'
    OBVIOUS
<1>. USE EnabledAssumption DEF PingTypeOK, UpdaterGoes, Leave
<1>1. ASSUME NEW u \in Updaters, StartRefresh(u) \/ TakeMutex(u) \/ CleanUp(u) PROVE PingTypeOK'
    BY <1>1 DEF StartRefresh, TakeMutex, CleanUp
<1>2. ASSUME NEW u \in Updaters, Resolve(u) PROVE PingTypeOK'
    BY <1>2 DEF Resolve
<1>3. ASSUME NEW u \in Updaters, NEW a \in Addresses, AddIfNew(u, a) PROVE PingTypeOK'
    BY <1>3 DEF AddIfNew
<1>4. ASSUME NEW u \in Updaters, NEW a \in Addresses, AddRefused(u, a) PROVE PingTypeOK'
    BY <1>4 DEF AddRefused
<1>5. CASE Export
    BY <1>5 DEF Export
<1>6. CASE UNCHANGED pingVars
    BY <1>6 DEF pingVars
<1>. QED  BY <1>1, <1>2, <1>3, <1>4, <1>5, <1>6 DEF PingNext

\* While nobody adds, the monitor has what is recorded and the orphans.  Whoever
\* adds has put in what it resolved and has looked at, except what was recorded.
Settled == monitored = recorded \cup orphans /\ recorded \cap orphans = {}

Adding(u) ==
    /\ pending[u] \subseteq resolved[u]
    /\ added[u] = (resolved[u] \ pending[u]) \ recorded
    /\ monitored = recorded \cup orphans \cup added[u]
    /\ recorded \cap orphans = {}

PingInv ==
    /\ \A u \in Updaters : updater[u] \in {"resolve", "add"} => holder = u
    /\ (\A u \in Updaters : updater[u] # "add") => Settled
    /\ \A u \in Updaters : IF updater[u] = "add" THEN Adding(u) ELSE added[u] = {}

LEMMA PingInvStep == PingTypeOK /\ PingInv /\ [PingNext]_pingVars => PingInv'
<1>. SUFFICES ASSUME PingTypeOK, PingInv, [PingNext]_pingVars PROVE PingInv'
    OBVIOUS
<1>. USE UnlockedAssumption DEF PingTypeOK, PingInv, UpdaterGoes
<1>1. ASSUME NEW u \in Updaters, StartRefresh(u) \/ TakeMutex(u) PROVE PingInv'
    BY <1>1 DEF StartRefresh, TakeMutex, Settled, Adding
<1>2. ASSUME NEW u \in Updaters, Resolve(u) PROVE PingInv'
    <2>1. \A v \in Updaters : updater[v] # "add"
        BY <1>2 DEF Resolve
    <2>2. \A v \in Updaters \ {u} : updater'[v] \notin {"resolve", "add"}
        BY <1>2 DEF Resolve, Leave
    <2>3. Settled' /\ UNCHANGED <<recorded, monitored, orphans>>
        BY <1>2, <2>1 DEF Resolve, Settled
    <2>4. updater'[u] = "add" => Adding(u)' /\ holder' = u
        <3>. SUFFICES ASSUME updater'[u] = "add" PROVE Adding(u)' /\ holder' = u
            OBVIOUS
        <3>1. PICK answer \in SUBSET Addresses :
                 /\ resolved' = [resolved EXCEPT ![u] = answer \cap Enabled]
                 /\ pending' = [pending EXCEPT ![u] = answer \cap Enabled]
                 /\ added' = added /\ holder' = holder
            BY <1>2 DEF Resolve, Leave
        <3>2. resolved'[u] = pending'[u] /\ added'[u] = {}
            BY <3>1, <2>1, <1>2 DEF Resolve
        <3>. QED  BY <1>2, <2>3, <3>1, <3>2 DEF Resolve, Settled, Adding
    <2>5. updater'[u] # "resolve" /\ (updater'[u] # "add" => added'[u] = {})
        BY <1>2 DEF Resolve, Leave
    <2>6. \A v \in Updaters \ {u} : added'[v] = {}
        BY <1>2, <2>1 DEF Resolve, Leave
    <2>. QED  BY <2>2, <2>3, <2>4, <2>5, <2>6
<1>3. ASSUME NEW u \in Updaters, NEW a \in Addresses, AddIfNew(u, a) PROVE PingInv'
    <2>1. \A v \in Updaters \ {u} : updater[v] # "add"
        BY <1>3 DEF AddIfNew
    <2>2. Adding(u)
        BY <1>3 DEF AddIfNew
    <2>3. Adding(u)'
        BY <1>3, <2>2 DEF AddIfNew, Adding
    <2>. QED  BY <1>3, <2>1, <2>3 DEF AddIfNew
<1>4. ASSUME NEW u \in Updaters, NEW a \in Addresses, AddRefused(u, a) PROVE PingInv'
    <2>1. \A v \in Updaters \ {u} : updater[v] \notin {"resolve", "add"}
        BY <1>4 DEF AddRefused
    <2>2. Settled'
        BY <1>4 DEF AddRefused, Adding, Settled
    <2>. QED  BY <1>4, <2>1, <2>2 DEF AddRefused, Leave
<1>5. ASSUME NEW u \in Updaters, CleanUp(u) PROVE PingInv'
    <2>1. \A v \in Updaters \ {u} : updater[v] \notin {"resolve", "add"}
        BY <1>5 DEF CleanUp
    <2>2. Settled'
        BY <1>5 DEF CleanUp, Adding, Settled
    <2>. QED  BY <1>5, <2>1, <2>2 DEF CleanUp, Leave
<1>6. CASE Export \/ UNCHANGED pingVars
    BY <1>6 DEF Export, pingVars, Settled, Adding
<1>. QED  BY <1>1, <1>2, <1>3, <1>4, <1>5, <1>6 DEF PingNext

\* However refreshes overlap, and whichever addresses the monitor refuses, it
\* pings what is recorded and the orphans of refreshes that gave up.
THEOREM MonitorIsRecordedHolds == PingSpec => []MonitorIsRecorded
<1>1. PingInit => PingInv
    BY DEF PingInit, PingInv, Settled
<1>2. PingInv => MonitorIsRecorded
    BY UnlockedAssumption DEF PingInv, Settled, MonitorIsRecorded
<1>. QED  BY <1>1, <1>2, PingTypeInit, PingTypeStep, PingInvStep, PTL DEF PingSpec

-----------------------------------------------------------------------------
(* DeviceCache.                                                            *)

LEMMA SmartTypeInit == SmartInit => SmartTypeOK
BY IntervalAssumption DEF SmartInit, SmartTypeOK

LEMMA SmartTypeStep == SmartTypeOK /\ [SmartNext]_smartVars => SmartTypeOK'
<1>. SUFFICES ASSUME SmartTypeOK, [SmartNext]_smartVars PROVE SmartTypeOK'
    OBVIOUS
<1>. USE IntervalAssumption DEF SmartTypeOK
<1>1. ASSUME NEW s \in SmartScrapes, Arrive(s) \/ BeginRefresh(s) \/ Show(s) PROVE SmartTypeOK'
    BY <1>1 DEF Arrive, BeginRefresh, Show
<1>2. ASSUME NEW s \in SmartScrapes, NEW d \in Devices, ReadSMARTctl(s, d) PROVE SmartTypeOK'
    <2>1. running' \in [SmartScrapes -> SUBSET Devices] /\ attempted' \in SUBSET Devices
        BY <1>2 DEF ReadSMARTctl
    <2>2. cache' \in [Devices -> {"none", "json", "empty"}] /\ age' \in [Devices -> 0 .. Interval + 1]
        BY <1>2 DEF ReadSMARTctl
    <2>. QED  BY <1>2, <2>1, <2>2 DEF ReadSMARTctl
<1>3. CASE TimePasses
    BY <1>3 DEF TimePasses
<1>4. CASE UNCHANGED smartVars
    BY <1>4 DEF smartVars
<1>. QED  BY <1>1, <1>2, <1>3, <1>4 DEF SmartNext

\* Only the scrape that holds the mutex runs smartctl, and only for devices that
\* were due when it took it and have not been answered since.
SmartInv ==
    \A s \in SmartScrapes :
        /\ scrape[s] = "refresh" => mutex = s
        /\ running[s] # {} => scrape[s] = "refresh"
        /\ \A d \in running[s] : Due(d)

LEMMA SmartInvStep == SmartTypeOK /\ SmartInv /\ [SmartNext]_smartVars => SmartInv'
<1>. SUFFICES ASSUME SmartTypeOK, SmartInv, [SmartNext]_smartVars PROVE SmartInv'
    OBVIOUS
<1>. USE FreeAssumption, IntervalAssumption DEF SmartTypeOK, SmartInv, Due
<1>1. ASSUME NEW s \in SmartScrapes, Arrive(s) PROVE SmartInv'
    BY <1>1 DEF Arrive
<1>2. ASSUME NEW s \in SmartScrapes, BeginRefresh(s) PROVE SmartInv'
    BY <1>2 DEF BeginRefresh
<1>3. ASSUME NEW s \in SmartScrapes, Show(s) PROVE SmartInv'
    BY <1>3 DEF Show
<1>4. ASSUME NEW s \in SmartScrapes, NEW d \in Devices, ReadSMARTctl(s, d) PROVE SmartInv'
    <2>1. /\ \A t \in SmartScrapes \ {s} : running[t] = {} /\ running'[t] = {}
          /\ running'[s] = running[s] \ {d} /\ scrape[s] = "refresh"
          /\ scrape' = scrape /\ mutex' = mutex
        BY <1>4 DEF ReadSMARTctl
    <2>2. \A e \in Devices \ {d} : cache'[e] = cache[e] /\ age'[e] = age[e]
        BY <1>4 DEF ReadSMARTctl
    <2>. QED  BY <2>1, <2>2
<1>5. CASE TimePasses
    BY <1>5 DEF TimePasses
<1>6. CASE UNCHANGED smartVars
    BY <1>6 DEF smartVars
<1>. QED  BY <1>1, <1>2, <1>3, <1>4, <1>5, <1>6 DEF SmartNext

\* An answer that is young enough is never fetched again.
THEOREM OncePerIntervalHolds == SmartSpec => OncePerInterval
<1>1. SmartInit => SmartInv
    BY DEF SmartInit, SmartInv
<1>2. SmartTypeOK /\ SmartInv /\ [SmartNext]_smartVars =>
          [\A d \in Devices : cache[d] # "none" /\ age'[d] < age[d] => age[d] > Interval]_smartVars
    <2>. SUFFICES ASSUME SmartTypeOK, SmartInv, SmartNext, NEW d \in Devices,
                         cache[d] # "none", age'[d] < age[d]
                  PROVE  age[d] > Interval
        BY Zenon
    <2>. USE IntervalAssumption DEF SmartTypeOK
    <2>1. ASSUME NEW s \in SmartScrapes, Arrive(s) \/ BeginRefresh(s) \/ Show(s) PROVE FALSE
        BY <2>1 DEF Arrive, BeginRefresh, Show
    <2>2. ASSUME NEW s \in SmartScrapes, NEW e \in Devices, ReadSMARTctl(s, e)
          PROVE  age[d] > Interval
        <3>1. d = e
            BY <2>2 DEF ReadSMARTctl
        <3>. QED  BY <2>2, <3>1 DEF ReadSMARTctl, SmartInv, Due
    <2>3. CASE TimePasses
        BY <2>3 DEF TimePasses
    <2>. QED  BY <2>1, <2>2, <2>3 DEF SmartNext
<1>. QED  BY <1>1, <1>2, SmartTypeInit, SmartTypeStep, SmartInvStep, PTL
          DEF SmartSpec, OncePerInterval

-----------------------------------------------------------------------------
(* PaperlessLogs.                                                          *)

\* What a scrape fetched ends at the last entry that was written then, and two
\* fetches overlap only in one file: a rotation lies between them otherwise.
Windows ==
    \A s \in LogScrapes : reading[s] = "locking" =>
        /\ lowest[s] < newest[s] /\ newest[s] <= written
        /\ lowest[s] <= rotatedAt
        /\ lowest[s] < rotatedAt => newest[s] <= rotatedAt
        /\ \A t \in LogScrapes :
              reading[t] = "locking" /\ lowest[s] < lowest[t] => newest[s] <= lowest[t]

LogOK == LogTypeOK /\ Windows

LEMMA LogOKInit == LogInit => LogOK
<1>. SUFFICES ASSUME LogInit PROVE LogOK
    OBVIOUS
<1>1. /\ rotatedAt \in 0 .. written /\ written \in 0 .. MaxEntries /\ fetches \in 0 .. MaxFetches
      /\ lowest \in [LogScrapes -> 0 .. MaxEntries] /\ newest \in [LogScrapes -> 0 .. MaxEntries]
    BY LogBoundsAssumption DEF LogInit
<1>2. Windows
    BY DEF LogInit, Windows
<1>. QED  BY <1>1, <1>2 DEF LogInit, LogOK, LogTypeOK

LEMMA LogOKStep == LogOK /\ [LogNext]_logVars => LogOK'
<1>. SUFFICES ASSUME LogOK, [LogNext]_logVars PROVE LogOK'
    OBVIOUS
<1>. USE LogBoundsAssumption DEF LogOK, LogTypeOK, Windows
<1>1. CASE WriteEntry \/ RotateLog
    <2>1. LogTypeOK'
        BY <1>1 DEF WriteEntry, RotateLog
    <2>2. Windows'
        BY <1>1 DEF WriteEntry, RotateLog
    <2>. QED  BY <2>1, <2>2
<1>2. ASSUME NEW s \in LogScrapes, GetLog(s) PROVE LogOK'
    <2>1. CASE rotatedAt = written
        BY <1>2, <2>1 DEF GetLog
    <2>2. CASE rotatedAt # written
        <3>1. /\ lowest' = [lowest EXCEPT ![s] = rotatedAt] /\ newest' = [newest EXCEPT ![s] = written]
              /\ reading' = [reading EXCEPT ![s] = "locking"]
              /\ fetches' \in 0 .. MaxFetches /\ overlapped' \in BOOLEAN
              /\ UNCHANGED <<place, rotatedAt, written, seen, counted>>
            BY <1>2, <2>2 DEF GetLog
        <3>2. LogTypeOK'
            BY <3>1
        <3>3. Windows'
            BY <3>1, <2>2
        <3>. QED  BY <3>2, <3>3
    <2>. QED  BY <2>1, <2>2
<1>3. ASSUME NEW s \in LogScrapes, CountEntries(s) PROVE LogOK'
    <2>1. counted' \in [Entries -> Nat]
        BY <1>3 DEF CountEntries
    <2>2. newest[s] \in Entries
        BY <1>3 DEF CountEntries, Entries
    <2>3. seen' \in Places
        BY <1>3, <2>2 DEF CountEntries
    <2>4. Windows'
        BY <1>3 DEF CountEntries
    <2>. QED  BY <1>3, <2>1, <2>3, <2>4 DEF CountEntries
<1>4. CASE UNCHANGED logVars
    BY <1>4 DEF logVars
<1>. QED  BY <1>1, <1>2, <1>3, <1>4 DEF LogNext

\* Start is the entry that is remembered, when the fetched log has it.
LEMMA StartAtSeen ==
    ASSUME LogOK, Distinct, NEW s \in LogScrapes
    PROVE  \/ Start(s) = lowest[s] /\ \A k \in Entries :
                  place[k] = seen => ~(lowest[s] < k /\ k <= newest[s])
           \/ Start(s) \in Entries /\ place[Start(s)] = seen
                /\ lowest[s] < Start(s) /\ Start(s) <= newest[s]
<1>1. Matches(s) = {e \in Entries : lowest[s] < e /\ e <= newest[s] /\ place[e] = seen}
    BY LogBoundsAssumption DEF Matches, Entries, LogOK, LogTypeOK
<1>2. CASE Matches(s) = {}
    BY <1>1, <1>2 DEF Start
<1>3. CASE Matches(s) # {}
    <2>1. PICK k \in Matches(s) : TRUE
        BY <1>3
    <2>2. Matches(s) = {k}
        BY <1>1, <2>1 DEF Distinct
    <2>3. k \in Entries /\ k <= k
        BY <1>1, <2>1, LogBoundsAssumption DEF Entries
    <2>4. Start(s) = k
        BY <1>3, <2>2, <2>3 DEF Start
    <2>. QED  BY <1>1, <2>1, <2>4
<1>. QED  BY <1>2, <1>3

\* The entries up to the remembered one, as far back as a file that has it can
\* reach, have been counted.
CountedIn(a, b) == \A e \in Entries : a < e /\ e <= b => counted[e] > 0

SeenInv ==
    \A k \in Entries : place[k] = seen =>
        /\ k <= written
        /\ rotatedAt < k => CountedIn(rotatedAt, k)
        /\ \A s \in LogScrapes :
              reading[s] = "locking" /\ lowest[s] < k /\ k <= newest[s] => CountedIn(lowest[s], k)

LEMMA CountsWhatItFetched ==
    ASSUME LogOK, Distinct, SeenInv, NEW s \in LogScrapes, CountEntries(s), NEW e \in Entries
    PROVE  /\ counted'[e] >= counted[e]
           /\ lowest[s] < e /\ e <= newest[s] => counted'[e] > 0
<1>1. counted[e] \in Nat /\ e \in Nat /\ lowest[s] \in Nat /\ newest[s] \in Nat
    BY LogBoundsAssumption DEF LogOK, LogTypeOK, Entries
<1>2. counted'[e] = IF e \in Start(s) + 1 .. newest[s] THEN counted[e] + 1 ELSE counted[e]
    BY DEF CountEntries
<1>3. CASE Start(s) = lowest[s]
    BY <1>1, <1>2, <1>3
<1>4. CASE Start(s) \in Entries /\ place[Start(s)] = seen
                /\ lowest[s] < Start(s) /\ Start(s) <= newest[s]
    <2>1. CountedIn(lowest[s], Start(s))
        BY <1>4 DEF SeenInv, CountEntries
    <2>2. Start(s) \in Nat
        BY <1>4, LogBoundsAssumption DEF Entries
    <2>. QED  BY <1>1, <1>2, <2>1, <2>2 DEF CountedIn
<1>. QED  BY <1>3, <1>4, StartAtSeen

LEMMA SeenInvStep ==
    ASSUME LogOK, Distinct, SeenInv, [LogNext]_logVars
    PROVE  SeenInv'
<1>. USE LogBoundsAssumption DEF LogOK, LogTypeOK, SeenInv, CountedIn
<1>0. Entries \subseteq Nat
    BY DEF Entries
<1>1. CASE WriteEntry
    BY <1>0, <1>1 DEF WriteEntry
<1>2. CASE RotateLog
    BY <1>0, <1>2 DEF RotateLog
<1>3. ASSUME NEW s \in LogScrapes, GetLog(s) PROVE SeenInv'
    <2>1. CASE rotatedAt = written
        BY <1>3, <2>1 DEF GetLog
    <2>2. CASE rotatedAt # written
        BY <1>3, <2>2 DEF GetLog
    <2>. QED  BY <2>1, <2>2
<1>4. ASSUME NEW s \in LogScrapes, CountEntries(s) PROVE SeenInv'
    <2>1. /\ reading[s] = "locking" /\ newest[s] \in Entries /\ seen' = place[newest[s]]
          /\ UNCHANGED <<place, rotatedAt, written>>
        BY <1>4 DEF CountEntries, Windows, Entries
    <2>2. \A e \in Entries : lowest[s] < e /\ e <= newest[s] => counted'[e] > 0
        BY <1>4, CountsWhatItFetched
    <2>3. \A t \in LogScrapes : reading'[t] = "locking" =>
             t # s /\ reading[t] = "locking" /\ lowest'[t] = lowest[t] /\ newest'[t] = newest[t]
        BY <1>4 DEF CountEntries
    <2>. SUFFICES ASSUME NEW k \in Entries, place'[k] = seen'
                  PROVE  /\ k <= written
                         /\ rotatedAt < k => CountedIn(rotatedAt, k)'
                         /\ \A t \in LogScrapes :
                               reading'[t] = "locking" /\ lowest[t] < k /\ k <= newest[t]
                                   => \A e \in Entries : lowest[t] < e /\ e <= k => counted'[e] > 0
        BY <2>1, <2>3
    <2>4. k = newest[s]
        BY <2>1 DEF Distinct
    <2>5. rotatedAt < k => lowest[s] = rotatedAt
        BY <2>1, <2>4 DEF Windows
    <2>6. ASSUME NEW t \in LogScrapes, reading'[t] = "locking", lowest[t] < k, k <= newest[t]
          PROVE  lowest[s] <= lowest[t]
        BY <2>1, <2>3, <2>4, <2>6 DEF Windows
    <2>7. rotatedAt < k => CountedIn(rotatedAt, k)'
        BY <2>1, <2>2, <2>4, <2>5
    <2>8. k <= written
        BY <2>1, <2>4 DEF Windows
    <2>9. ASSUME NEW t \in LogScrapes, reading'[t] = "locking", lowest[t] < k, k <= newest[t],
                 NEW e \in Entries, lowest[t] < e, e <= k
          PROVE  counted'[e] > 0
        <3>1. lowest[s] <= lowest[t] /\ lowest[s] \in Nat /\ lowest[t] \in Nat /\ e \in Nat
            BY <1>0, <2>6, <2>9
        <3>2. lowest[s] < e /\ e <= newest[s]
            BY <2>4, <2>9, <3>1
        <3>. QED  BY <2>2, <3>2
    <2>. QED  BY <2>7, <2>8, <2>9
<1>5. CASE UNCHANGED logVars
    BY <1>5 DEF logVars
<1>. QED  BY <1>1, <1>2, <1>3, <1>4, <1>5 DEF LogNext

LogInv == LogOK /\ (Distinct => SeenInv)

LEMMA LogInvInit == LogInit => LogInv
<1>. SUFFICES ASSUME LogInit PROVE SeenInv
    BY LogOKInit DEF LogInv
<1>. QED  BY NowhereAssumption DEF LogInit, SeenInv

LEMMA LogInvStep == LogInv /\ [LogNext]_logVars => LogInv'
<1>. SUFFICES ASSUME LogInv, [LogNext]_logVars PROVE LogInv'
    OBVIOUS
<1>1. Distinct' <=> Distinct
    BY DEF LogNext, WriteEntry, RotateLog, GetLog, CountEntries, logVars, Distinct
<1>. QED  BY <1>1, LogOKStep, SeenInvStep DEF LogInv

\* Entries with positions of their own are all counted, however scrapes overlap
\* and whenever the log is rotated.
THEOREM NoneMissedHolds == LogSpec => NoneMissed
<1>1. LogInv /\ [LogNext]_logVars =>
          [Distinct => \A s \in LogScrapes :
              reading[s] = "locking" /\ reading'[s] = "idle" =>
                  \A e \in lowest[s] + 1 .. newest[s] : counted'[e] > 0]_logVars
    <2>. SUFFICES ASSUME LogOK, SeenInv, LogNext, Distinct, NEW s \in LogScrapes,
                         reading[s] = "locking", reading'[s] = "idle",
                         NEW e \in lowest[s] + 1 .. newest[s]
                  PROVE  counted'[e] > 0
        BY DEF LogInv
    <2>1. CountEntries(s)
        BY DEF LogNext, WriteEntry, RotateLog, GetLog, CountEntries, LogOK, LogTypeOK
    <2>2. e \in Entries /\ lowest[s] < e /\ e <= newest[s]
        BY LogBoundsAssumption DEF LogOK, LogTypeOK, Entries
    <2>. QED  BY <2>1, <2>2, CountsWhatItFetched
<1>. QED  BY <1>1, LogInvInit, LogInvStep, PTL DEF LogSpec, NoneMissed

\* Without overlap one scrape has a log in hand, and what has been counted ends
\* at the entry that is remembered, which it cannot have run ahead of.
OnceInv ==
    /\ \A e \in Entries : counted[e] <= 1
    /\ \A s, t \in LogScrapes : reading[s] = "locking" /\ reading[t] = "locking" => s = t
    /\ \A e \in Entries : counted[e] > 0 => \E k \in Entries : place[k] = seen /\ e <= k
    /\ \A s \in LogScrapes, k \in Entries :
          reading[s] = "locking" /\ place[k] = seen => k <= newest[s]

LEMMA NothingBehindStart ==
    ASSUME LogOK, Distinct, NEW s \in LogScrapes,
           \A k \in Entries : place[k] = seen => k <= newest[s]
    PROVE  Start(s) \in Nat /\ \A k \in Entries : place[k] = seen => k <= Start(s)
<1>0. Entries \subseteq Nat /\ lowest[s] \in Nat
    BY LogBoundsAssumption DEF Entries, LogOK, LogTypeOK
<1>1. CASE Start(s) = lowest[s] /\ \A k \in Entries :
              place[k] = seen => ~(lowest[s] < k /\ k <= newest[s])
    BY <1>0, <1>1
<1>2. CASE Start(s) \in Entries /\ place[Start(s)] = seen
    <2>1. \A k \in Entries : place[k] = seen => k = Start(s)
        BY <1>2, Zenon DEF Distinct
    <2>2. Start(s) \in Nat
        BY <1>0, <1>2
    <2>. QED  BY <2>1, <2>2
<1>. QED  BY <1>1, <1>2, StartAtSeen

LEMMA OnceInvStep ==
    ASSUME LogOK, Distinct, SeenInv, [LogNext]_logVars, OnceInv, ~overlapped'
    PROVE  OnceInv'
<1>. USE LogBoundsAssumption DEF LogOK, LogTypeOK, OnceInv
<1>0. Entries \subseteq Nat
    BY DEF Entries
<1>1. CASE WriteEntry \/ RotateLog \/ UNCHANGED logVars
    BY <1>1 DEF WriteEntry, RotateLog, logVars
<1>2. ASSUME NEW s \in LogScrapes, GetLog(s) PROVE OnceInv'
    <2>1. CASE rotatedAt = written
        BY <1>2, <2>1 DEF GetLog
    <2>2. CASE rotatedAt # written
        <3>1. /\ \A t \in LogScrapes : reading[t] # "locking"
              /\ newest' = [newest EXCEPT ![s] = written]
              /\ reading' = [reading EXCEPT ![s] = "locking"]
              /\ UNCHANGED <<place, seen, counted>>
            BY <1>2, <2>2 DEF GetLog
        <3>2. \A k \in Entries : place[k] = seen => k <= written
            BY DEF SeenInv
        <3>. QED  BY <3>1, <3>2
    <2>. QED  BY <2>1, <2>2
<1>3. ASSUME NEW s \in LogScrapes, CountEntries(s) PROVE OnceInv'
    <2>1. /\ reading[s] = "locking" /\ newest[s] \in Entries /\ seen' = place[newest[s]]
          /\ place' = place /\ \A t \in LogScrapes : reading'[t] # "locking"
        BY <1>3 DEF CountEntries, Windows, Entries
    <2>2. \A e \in Entries :
             counted'[e] = IF e \in Start(s) + 1 .. newest[s] THEN counted[e] + 1 ELSE counted[e]
        BY <1>3 DEF CountEntries
    <2>3. Start(s) \in Nat /\ \A k \in Entries : place[k] = seen => k <= Start(s)
        <3>1. \A k \in Entries : place[k] = seen => k <= newest[s]
            BY <2>1
        <3>. QED  BY <3>1, NothingBehindStart
    <2>4. \A e \in Entries : e > Start(s) => counted[e] = 0
        <3>. SUFFICES ASSUME NEW e \in Entries, e > Start(s), counted[e] # 0 PROVE FALSE
            OBVIOUS
        <3>1. counted[e] > 0
            OBVIOUS
        <3>2. PICK k \in Entries : place[k] = seen /\ e <= k
            BY <3>1
        <3>. QED  BY <1>0, <2>3, <3>2
    <2>5. \A e \in Entries : counted'[e] <= 1
        BY <1>0, <2>2, <2>3, <2>4
    <2>6. \A e \in Entries : counted'[e] > 0 => e <= newest[s]
        <3>. SUFFICES ASSUME NEW e \in Entries, counted'[e] > 0 PROVE e <= newest[s]
            OBVIOUS
        <3>1. CASE e \in Start(s) + 1 .. newest[s]
            BY <1>0, <2>3, <3>1
        <3>2. CASE e \notin Start(s) + 1 .. newest[s]
            <4>0. counted[e] > 0
                BY <2>2, <3>2
            <4>1. PICK k \in Entries : place[k] = seen /\ e <= k
                BY <4>0
            <4>. QED  BY <1>0, <2>1, <4>1
        <3>. QED  BY <3>1, <3>2
    <2>. QED  BY <2>1, <2>5, <2>6
<1>. QED  BY <1>1, <1>2, <1>3 DEF LogNext

\* Without overlap no entry is counted twice, rotations or not.
THEOREM CountedOnceHolds == LogSpec => []CountedOnce
<1>. DEFINE Once == Distinct /\ ~overlapped => OnceInv
<1>1. LogInit => Once
    BY LogBoundsAssumption DEF LogInit, OnceInv
<1>2. LogInv /\ Once /\ [LogNext]_logVars => Once'
    <2>. SUFFICES ASSUME LogInv, Once, [LogNext]_logVars, Distinct', ~overlapped' PROVE OnceInv'
        OBVIOUS
    <2>1. Distinct
        BY DEF LogNext, WriteEntry, RotateLog, GetLog, CountEntries, logVars, Distinct
    <2>2. ~overlapped
        <3>1. CASE WriteEntry \/ RotateLog \/ UNCHANGED logVars
            BY <3>1 DEF WriteEntry, RotateLog, logVars
        <3>2. ASSUME NEW s \in LogScrapes, GetLog(s) PROVE ~overlapped
            BY <3>2 DEF GetLog
        <3>3. ASSUME NEW s \in LogScrapes, CountEntries(s) PROVE ~overlapped
            BY <3>3 DEF CountEntries
        <3>. QED  BY <3>1, <3>2, <3>3 DEF LogNext
    <2>. QED  BY <2>1, <2>2, OnceInvStep DEF LogInv
<1>3. Once => CountedOnce
    BY DEF OnceInv, CountedOnce
<1>. HIDE DEF Once
<1>. QED  BY <1>1, <1>2, <1>3, LogInvInit, LogInvStep, PTL DEF LogSpec

-----------------------------------------------------------------------------
(* UtilityCaches.                                                          *)

LEMMA UtilTypeInit == UtilInit => UtilTypeOK
BY MaxFilesAssumption DEF UtilInit, UtilTypeOK, FileVersions, ScrapeSteps

LEMMA UtilTypeStep == UtilTypeOK /\ [UtilNext]_utilVars => UtilTypeOK'
<1>. SUFFICES ASSUME UtilTypeOK, [UtilNext]_utilVars PROVE UtilTypeOK'
    OBVIOUS
<1>0. Len(Caches) \in Nat /\ files \in FileVersions /\ 0 \in FileVersions
    BY CachesAssumption, MaxFilesAssumption DEF UtilTypeOK, FileVersions
<1>. USE DEF UtilTypeOK, GoesTo, Doing
<1>1. ASSUME NEW s \in UtilScrapes, ScrapeCaches(s) PROVE UtilTypeOK'
    BY <1>0, <1>1 DEF ScrapeCaches
<1>2. ASSUME NEW s \in UtilScrapes, CheckAge(s) PROVE UtilTypeOK'
    <2>1. atCache[s] \in CacheIds
        BY <1>0, <1>2 DEF CheckAge, CacheIds
    <2>2. found' \in [UtilScrapes -> FileVersions]
        BY <1>0, <1>2, <2>1 DEF CheckAge
    <2>3. step' \in [UtilScrapes -> ScrapeSteps]
        BY <1>2 DEF CheckAge, ScrapeSteps
    <2>. QED  BY <1>2, <2>2, <2>3 DEF CheckAge
<1>3. ASSUME NEW s \in UtilScrapes, ReadRefresh(s) PROVE UtilTypeOK'
    <2>1. haveRead' \in [UtilScrapes -> FileVersions]
        BY <1>0, <1>3 DEF ReadRefresh
    <2>2. step' \in [UtilScrapes -> ScrapeSteps]
        BY <1>3 DEF ReadRefresh, ScrapeSteps
    <2>. QED  BY <1>3, <2>1, <2>2 DEF ReadRefresh
<1>4. ASSUME NEW s \in UtilScrapes, ReadFails(s) PROVE UtilTypeOK'
    BY <1>0, <1>4 DEF ReadFails, ScrapeSteps
<1>5. ASSUME NEW s \in UtilScrapes, AskLock(s) PROVE UtilTypeOK'
    BY <1>5 DEF AskLock, ScrapeSteps
<1>6. ASSUME NEW s \in UtilScrapes, StoreRefresh(s) PROVE UtilTypeOK'
    <2>1. step' \in [UtilScrapes -> ScrapeSteps]
        BY <1>6 DEF StoreRefresh, ReadLocked, ScrapeSteps
    <2>2. cached' \in [CacheIds -> FileVersions]
        BY <1>6 DEF StoreRefresh
    <2>3. old' \in [CacheIds -> BOOLEAN] /\ writer' \in [CacheIds -> UtilScrapes \cup {NoWriter}]
        BY <1>6 DEF StoreRefresh
    <2>4. found' \in [UtilScrapes -> FileVersions] /\ haveRead' \in [UtilScrapes -> FileVersions]
        BY <1>0, <1>6 DEF StoreRefresh
    <2>. QED  BY <1>6, <2>1, <2>2, <2>3, <2>4 DEF StoreRefresh
<1>7. ASSUME NEW s \in UtilScrapes, Stamp(s) PROVE UtilTypeOK'
    BY <1>7 DEF Stamp, ScrapeSteps
<1>8. ASSUME NEW s \in UtilScrapes, ReadLock(s) PROVE UtilTypeOK'
    BY <1>8 DEF ReadLock, ReadLocked, ScrapeSteps
<1>9. ASSUME NEW s \in UtilScrapes, ReadLockAgain(s) PROVE UtilTypeOK'
    BY <1>9 DEF ReadLockAgain, ScrapeSteps
<1>10. ASSUME NEW s \in UtilScrapes, ShowCache(s) PROVE UtilTypeOK'
    <2>1. atCache' \in [UtilScrapes -> 0 .. Len(Caches)]
        BY <1>0, <1>10 DEF ShowCache
    <2>. QED  BY <1>10, <2>1 DEF ShowCache, ScrapeSteps
<1>11. ASSUME NEW c \in CacheIds, IntervalPasses(c) PROVE UtilTypeOK'
    BY <1>11 DEF IntervalPasses
<1>12. CASE FilesChange
    BY <1>12, MaxFilesAssumption DEF FilesChange
<1>13. CASE UNCHANGED utilVars
    BY <1>13 DEF utilVars
<1>. QED  BY <1>1, <1>2, <1>3, <1>4, <1>5, <1>6, <1>7, <1>8, <1>9, <1>10, <1>11, <1>12, <1>13
          DEF UtilNext, UtilStep

\* Whoever waits behind a writer has one that waits for its readers only, and the
\* second read lock is asked for by readers of the text files.
WritersDrain ==
    \A c \in CacheIds : writer[c] # NoWriter =>
        atCache[writer[c]] = c /\ step[writer[c]] = "drain"

LockStep(s) ==
    /\ atCache[s] = 0 => step[s] = "check"
    /\ Doing(s, "queued") => writer[atCache[s]] # NoWriter
    /\ Doing(s, "stuck") \/ Doing(s, "again") => Caches[atCache[s]] = "textfile"
    /\ Doing(s, "drain") => writer[atCache[s]] = s

LockInv == WritersDrain /\ \A s \in UtilScrapes : LockStep(s)

LEMMA LockInvInit == UtilInit => LockInv
BY DEF UtilInit, LockInv, WritersDrain, LockStep, Doing

LEMMA LockInvStep == UtilTypeOK /\ LockInv /\ [UtilNext]_utilVars => LockInv'
<1>. SUFFICES ASSUME UtilTypeOK, LockInv, [UtilNext]_utilVars PROVE LockInv'
    OBVIOUS
<1>0. Len(Caches) \in Nat
    BY CachesAssumption
<1>. USE NoWriterAssumption DEF LockInv, WritersDrain, LockStep, GoesTo, Doing
<1>1. ASSUME NEW s \in UtilScrapes, ScrapeCaches(s) PROVE LockInv'
    BY <1>1 DEF ScrapeCaches, UtilTypeOK
<1>2. ASSUME NEW s \in UtilScrapes, ShowCache(s) PROVE LockInv'
    <2>1. \A t \in UtilScrapes \ {s} : step'[t] = step[t] /\ atCache'[t] = atCache[t]
        BY <1>2 DEF ShowCache, UtilTypeOK
    <2>2. step[s] = "show" /\ step'[s] = "check" /\ writer' = writer
        BY <1>2 DEF ShowCache, UtilTypeOK
    <2>3. \A t \in UtilScrapes : LockStep(t)'
        BY <2>1, <2>2 DEF UtilTypeOK
    <2>4. WritersDrain'
        BY <2>1, <2>2 DEF UtilTypeOK
    <2>. QED  BY <2>3, <2>4
<1>3. ASSUME NEW s \in UtilScrapes, CheckAge(s) PROVE LockInv'
    BY <1>3 DEF CheckAge, UtilTypeOK
<1>4. ASSUME NEW s \in UtilScrapes, ReadFails(s) \/ ReadRefresh(s) PROVE LockInv'
    BY <1>4 DEF ReadFails, ReadRefresh, UtilTypeOK
<1>5. ASSUME NEW s \in UtilScrapes, AskLock(s) PROVE LockInv'
    <2>0. atCache[s] \in CacheIds
        BY <1>0, <1>5 DEF AskLock, UtilTypeOK, CacheIds
    <2>1. \A t \in UtilScrapes \ {s} : step'[t] = step[t]
        BY <1>5 DEF AskLock, UtilTypeOK
    <2>2. step'[s] = "drain" /\ atCache' = atCache /\ atCache[s] # 0
        BY <1>5 DEF AskLock, UtilTypeOK
    <2>3. /\ writer[atCache[s]] = NoWriter /\ writer'[atCache[s]] = s
          /\ \A c \in CacheIds \ {atCache[s]} : writer'[c] = writer[c]
        BY <2>0, <1>5 DEF AskLock, UtilTypeOK
    <2>4. \A t \in UtilScrapes : atCache[t] = 0 \/ atCache[t] \in CacheIds
        BY <1>0 DEF UtilTypeOK, CacheIds
    <2>5. ASSUME NEW c \in CacheIds, writer'[c] # NoWriter
          PROVE  atCache[writer'[c]] = c /\ step'[writer'[c]] = "drain"
        <3>1. CASE c = atCache[s]
            BY <2>2, <2>3, <3>1
        <3>2. CASE c # atCache[s]
            <4>1. writer[c] \in UtilScrapes \ {s} /\ writer'[c] = writer[c]
                BY <2>3, <2>5, <3>2 DEF UtilTypeOK
            <4>. QED  BY <2>1, <4>1
        <3>. QED  BY <3>1, <3>2
    <2>6. ASSUME NEW t \in UtilScrapes PROVE LockStep(t)'
        <3>1. CASE t = s
            BY <2>2, <2>3, <3>1
        <3>2. CASE t # s
            BY <2>1, <2>2, <2>3, <2>4, <3>2
        <3>. QED  BY <3>1, <3>2
    <2>. QED  BY <2>2, <2>5, <2>6
<1>6. ASSUME NEW s \in UtilScrapes, StoreRefresh(s) PROVE LockInv'
    <2>0. atCache[s] \in CacheIds /\ atCache' = atCache /\ writer[atCache[s]] = s
        BY <1>0, <1>6 DEF StoreRefresh, UtilTypeOK, CacheIds
    <2>1. /\ writer'[atCache[s]] = NoWriter
          /\ \A c \in CacheIds \ {atCache[s]} : writer'[c] = writer[c]
        BY <2>0, <1>6 DEF StoreRefresh, UtilTypeOK
    <2>2. \A t \in UtilScrapes :
             IF t = s THEN step'[t] \in {"stamp", "rlock"}
             ELSE IF atCache[t] = atCache[s] /\ step[t] = "queued" THEN step'[t] = ReadLocked(atCache[s])
             ELSE step'[t] = step[t]
        BY <1>6 DEF StoreRefresh
    <2>3. \A t \in UtilScrapes : atCache[t] = 0 \/ atCache[t] \in CacheIds
        BY <1>0 DEF UtilTypeOK, CacheIds
    <2>4. WritersDrain'
        <3>. SUFFICES ASSUME NEW c \in CacheIds, writer'[c] # NoWriter
                      PROVE  atCache'[writer'[c]] = c /\ step'[writer'[c]] = "drain"
            OBVIOUS
        <3>1. c # atCache[s] /\ writer'[c] = writer[c] /\ writer[c] \in UtilScrapes
            BY <2>0, <2>1 DEF UtilTypeOK
        <3>2. atCache[writer[c]] = c /\ step[writer[c]] = "drain" /\ writer[c] # s
            BY <3>1
        <3>. QED  BY <2>0, <2>2, <3>1, <3>2
    <2>5. ASSUME NEW t \in UtilScrapes PROVE LockStep(t)'
        <3>1. CASE t = s
            BY <2>0, <2>2, <3>1
        <3>2. CASE t # s /\ atCache[t] = atCache[s] /\ step[t] = "queued"
            BY <2>0, <2>2, <3>2 DEF ReadLocked
        <3>3. CASE t # s /\ ~(atCache[t] = atCache[s] /\ step[t] = "queued")
            <4>1. step'[t] = step[t] /\ atCache'[t] = atCache[t]
                BY <2>0, <2>2, <3>3
            <4>2. Doing(t, "queued") \/ Doing(t, "drain") =>
                     atCache[t] \in CacheIds \ {atCache[s]}
                BY <2>0, <2>3, <3>3
            <4>. QED  BY <2>1, <4>1, <4>2
        <3>. QED  BY <3>1, <3>2, <3>3
    <2>. QED  BY <2>4, <2>5
<1>7. ASSUME NEW s \in UtilScrapes, Stamp(s) PROVE LockInv'
    BY <1>7 DEF Stamp, UtilTypeOK
<1>8. ASSUME NEW s \in UtilScrapes, ReadLock(s) PROVE LockInv'
    BY <1>8 DEF ReadLock, ReadLocked, UtilTypeOK
<1>9. ASSUME NEW s \in UtilScrapes, ReadLockAgain(s) PROVE LockInv'
    BY <1>9 DEF ReadLockAgain, UtilTypeOK
<1>10. CASE FilesChange \/ (\E c \in CacheIds : IntervalPasses(c)) \/ UNCHANGED utilVars
    BY <1>10 DEF FilesChange, IntervalPasses, utilVars
<1>. QED  BY <1>1, <1>2, <1>3, <1>4, <1>5, <1>6, <1>7, <1>8, <1>9, <1>10 DEF UtilNext, UtilStep

LEMMA SomebodyGoesOn == UtilTypeOK /\ LockInv => OnlyTextfilesJam
<1>. SUFFICES ASSUME UtilTypeOK, LockInv, NEW s \in UtilScrapes, atCache[s] # 0,
                     ~TextfileJam(atCache[s]), Blocked(s)
              PROVE  \E t \in UtilScrapes : atCache[t] = atCache[s] /\ ~Blocked(t)
    BY DEF OnlyTextfilesJam
<1>. DEFINE c == atCache[s]
<1>0. c \in CacheIds
    BY CachesAssumption DEF UtilTypeOK, CacheIds
<1>1. \A t \in UtilScrapes : ~(atCache[t] = c /\ step[t] = "stuck")
    BY <1>0 DEF LockInv, LockStep, Doing, TextfileJam, UtilTypeOK, CacheIds
<1>2. writer[c] # NoWriter
    BY <1>0, <1>1, NoWriterAssumption DEF Blocked, LockInv, LockStep, Doing
<1>3. writer[c] \in UtilScrapes /\ atCache[writer[c]] = c /\ step[writer[c]] = "drain"
    BY <1>0, <1>2 DEF UtilTypeOK, LockInv, WritersDrain
<1>4. CASE Readers(c) = {}
    <2>1. ~Blocked(writer[c])
        BY <1>3, <1>4 DEF Blocked, Doing
    <2>. QED  BY <1>3, <2>1
<1>5. CASE Readers(c) # {}
    <2>1. PICK r \in UtilScrapes : atCache[r] = c /\ step[r] \in {"again", "stuck", "show"}
        BY <1>5 DEF Readers
    <2>2. ~Blocked(r)
        BY <1>1, <2>1 DEF Blocked, Doing
    <2>. QED  BY <2>1, <2>2
<1>. QED  BY <1>4, <1>5

\* For any number of scrapes and any caches: only the text files can jam.
THEOREM OnlyTextfilesJamHolds == UtilSpec => []OnlyTextfilesJam
<1>. QED  BY LockInvInit, UtilTypeInit, UtilTypeStep, LockInvStep, SomebodyGoesOn, PTL DEF UtilSpec

\* The files only change to newer versions, so what is read is not older than what
\* was cached when the scrape looked; the text files are never read.
VersionInv ==
    /\ \A c \in CacheIds : cached[c] <= files /\ (Caches[c] = "textfile" => cached[c] = 0)
    /\ \A s \in UtilScrapes :
          /\ found[s] <= files /\ haveRead[s] <= files
          /\ Doing(s, "read") /\ Caches[atCache[s]] = "textfile" => found[s] = 0
          /\ Doing(s, "lock") \/ Doing(s, "drain") =>
                /\ found[s] <= haveRead[s]
                /\ Caches[atCache[s]] = "textfile" => haveRead[s] = 0

LEMMA VersionInvInit == UtilInit => VersionInv
BY DEF UtilInit, VersionInv, LoadedAtStart, Doing

LEMMA VersionInvStep == UtilTypeOK /\ LockInv /\ VersionInv /\ [UtilNext]_utilVars => VersionInv'
<1>. SUFFICES ASSUME UtilTypeOK, LockInv, VersionInv, [UtilNext]_utilVars PROVE VersionInv'
    OBVIOUS
<1>0. Len(Caches) \in Nat
    BY CachesAssumption
<1>. USE <1>0, MaxFilesAssumption DEF UtilTypeOK, VersionInv, GoesTo, Doing, CacheIds, FileVersions
<1>1. ASSUME NEW s \in UtilScrapes, ScrapeCaches(s) PROVE VersionInv'
    BY <1>1 DEF ScrapeCaches, LockInv, LockStep
<1>10. ASSUME NEW s \in UtilScrapes, ShowCache(s) PROVE VersionInv'
    <2>1. \A t \in UtilScrapes \ {s} : step'[t] = step[t] /\ atCache'[t] = atCache[t]
        BY <1>10 DEF ShowCache
    <2>2. step'[s] = "check" /\ UNCHANGED <<files, cached, found, haveRead>>
        BY <1>10 DEF ShowCache
    <2>. QED  BY <2>1, <2>2
<1>2. ASSUME NEW s \in UtilScrapes, CheckAge(s) PROVE VersionInv'
    BY <1>2 DEF CheckAge
<1>3. ASSUME NEW s \in UtilScrapes, ReadFails(s) PROVE VersionInv'
    BY <1>3 DEF ReadFails
<1>4. ASSUME NEW s \in UtilScrapes, ReadRefresh(s) PROVE VersionInv'
    BY <1>4 DEF ReadRefresh
<1>5. ASSUME NEW s \in UtilScrapes, AskLock(s) \/ Stamp(s) PROVE VersionInv'
    BY <1>5 DEF AskLock, Stamp
<1>6. ASSUME NEW s \in UtilScrapes, StoreRefresh(s) PROVE VersionInv'
    BY <1>6 DEF StoreRefresh, ReadLocked
<1>7. ASSUME NEW s \in UtilScrapes, ReadLock(s) \/ ReadLockAgain(s) PROVE VersionInv'
    BY <1>7 DEF ReadLock, ReadLockAgain, ReadLocked
<1>8. CASE FilesChange
    <2>1. \A a \in FileVersions : a <= files => a <= files'
        BY <1>8 DEF FilesChange
    <2>. QED  BY <1>8, <2>1 DEF FilesChange
<1>9. CASE (\E c \in CacheIds : IntervalPasses(c)) \/ UNCHANGED utilVars
    BY <1>9 DEF IntervalPasses, utilVars
<1>. QED  BY <1>1, <1>2, <1>3, <1>4, <1>5, <1>6, <1>7, <1>8, <1>9, <1>10
          DEF UtilNext, UtilStep

\* For any number of scrapes a cache goes back only where refreshes overlap.
THEOREM BackOnlyIfOverlappedHolds == UtilSpec => BackOnlyIfOverlapped
<1>1. UtilTypeOK /\ VersionInv /\ [UtilNext]_utilVars =>
          [\A c \in CacheIds : cached'[c] < cached[c] =>
              \E s \in UtilScrapes :
                  atCache[s] = c /\ step[s] = "drain" /\ found[s] < cached[c]]_utilVars
    <2>. SUFFICES ASSUME UtilTypeOK, VersionInv, UtilNext,
                         NEW c \in CacheIds, cached'[c] < cached[c]
                  PROVE  \E s \in UtilScrapes :
                             atCache[s] = c /\ step[s] = "drain" /\ found[s] < cached[c]
        OBVIOUS
    <2>0. ~(cached[c] < cached[c])
        BY DEF UtilTypeOK, FileVersions
    <2>1. PICK s \in UtilScrapes : StoreRefresh(s)
        BY <2>0 DEF UtilNext, UtilStep, ScrapeCaches, CheckAge, ReadRefresh, ReadFails, AskLock,
           Stamp, ReadLock, ReadLockAgain, ShowCache, IntervalPasses, FilesChange
    <2>2. atCache[s] = c /\ cached'[c] = haveRead[s] /\ Doing(s, "drain")
        BY <2>0, <2>1 DEF StoreRefresh, UtilTypeOK, Doing
    <2>3. found[s] <= haveRead[s] /\ found[s] \in Nat /\ haveRead[s] \in Nat /\ cached[c] \in Nat
        BY <2>2, MaxFilesAssumption DEF VersionInv, UtilTypeOK, FileVersions
    <2>. QED  BY <2>2, <2>3 DEF Doing
<1>. QED  BY <1>1, UtilTypeInit, UtilTypeStep, LockInvInit, LockInvStep, VersionInvInit, VersionInvStep, PTL
          DEF UtilSpec, BackOnlyIfOverlapped

-----------------------------------------------------------------------------
(* The machines of MCCollectors: a step is one of one machine, and the     *)
(* others stutter.                                                         *)

AllOK == TypesOK /\ Windows

LEMMA CollectorsSteps ==
    [CollectorsNext]_collectorsVars =>
        /\ [Next]_rlVars /\ [SnmpNext]_snmpVars /\ [MongoNext]_mongoVars /\ [PingNext]_pingVars
        /\ [SmartNext]_smartVars /\ [LogNext]_logVars /\ [FsNext]_fsVars
        /\ [UtilNext]_utilVars
BY DEF CollectorsNext, collectorsVars

\* Every machine keeps its types, for every value of the constants.
THEOREM TypesCorrect == CollectorsSpec => []TypesOK
<1>1. CollectorsInit => AllOK
    BY TypeOKInit, SnmpTypeInit, MongoTypeInit, PingTypeInit, SmartTypeInit, LogOKInit, FsTypeInit,
       UtilTypeInit
    DEF CollectorsInit, AllOK, TypesOK, LogOK
<1>2. AllOK /\ [CollectorsNext]_collectorsVars => AllOK'
    BY CollectorsSteps, TypeOKStep, SnmpTypeStep, MongoTypeStep, PingTypeStep, SmartTypeStep,
       LogOKStep, FsTypeStep, UtilTypeStep
    DEF AllOK, TypesOK, LogOK
<1>3. AllOK => TypesOK
    BY DEF AllOK
<1>. QED  BY <1>1, <1>2, <1>3, PTL DEF CollectorsSpec

=============================================================================
