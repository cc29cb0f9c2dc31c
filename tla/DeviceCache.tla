---------------------------- MODULE DeviceCache ----------------------------
(***************************************************************************)
(* smartctl_exporter: the cache of what smartctl said about each device,   *)
(* refreshed by the scrapes.                                               *)
(***************************************************************************)
EXTENDS Naturals

CONSTANTS
    SmartScrapes,  \* calls of SmartctlManagerCollector.Collect
    NDevices,      \* the devices that smartctl --scan found at the start
    Interval,      \* smartctlInterval, in ticks of the model
    Free           \* nobody holds the mutex of the collector

ASSUME FreeAssumption == Free \notin SmartScrapes
ASSUME DevicesAssumption == NDevices \in Nat
ASSUME IntervalAssumption == Interval \in Nat \ {0}

Devices == 1 .. NDevices

VARIABLES
    scanned,   \* the type smartctl --scan gave for each device
    mutex,     \* who holds the mutex of the collector, or Free
    scrape,    \* each scrape: "idle", "lock", "refresh"
    running,   \* devices whose readSMARTctl, started by that scrape, runs
    attempted,     \* devices that smartctl has been run for
    cache,     \* jsonCache: "none", "json", or "empty": the {} of no JSON
    age,       \* ticks since LastCollect, up to Interval + 1
    process    \* "running" or "crashed"

smartVars == <<scanned, mutex, scrape, running, attempted, cache, age, process>>

ScanTypes == {"nvme", "scsi", "other"}

SmartInit ==
    /\ scanned \in [Devices -> ScanTypes]
    /\ mutex = Free
    /\ scrape = [s \in SmartScrapes |-> "idle"]
    /\ running = [s \in SmartScrapes |-> {}]
    /\ attempted = {}
    /\ cache = [d \in Devices |-> "none"]
    /\ age = [d \in Devices |-> 0]
    /\ process = "running"

\* scanDevices: "SATA devices are reported as SCSI".
DeviceType(d) == IF scanned[d] = "scsi" THEN "auto" ELSE scanned[d]

\* DeviceValidator; "other" stands for a type or a name that is not in its lists,
\* "nvme" also for the types of USB bridges that are.
Validated(d) == DeviceType(d) \in {"ata", "scsi", "nvme", "sat"}

Arrive(s) ==
    /\ process = "running" /\ scrape[s] = "idle"
    /\ scrape' = [scrape EXCEPT ![s] = "lock"]
    /\ UNCHANGED <<scanned, mutex, running, attempted, cache, age, process>>

Due(d) == cache[d] = "none" \/ age[d] > Interval

BeginUnlocked(s) ==
    /\ process = "running" /\ scrape[s] = "lock"
    /\ mutex' = s
    /\ scrape' = [scrape EXCEPT ![s] = "refresh"]
    /\ running' = [running EXCEPT ![s] = {d \in Devices : Due(d)}]
    /\ UNCHANGED <<scanned, attempted, cache, age, process>>
\* Under the mutex, a goroutine for every device that has no answer or an old one.
BeginRefresh(s) ==
    /\ process = "running" /\ scrape[s] = "lock" /\ mutex = Free
    /\ mutex' = s
    /\ scrape' = [scrape EXCEPT ![s] = "refresh"]
    /\ running' = [running EXCEPT ![s] = {d \in Devices : Due(d)}]
    /\ UNCHANGED <<scanned, attempted, cache, age, process>>

\* readSMARTctl.  The exit status and the messages may refuse the answer, which
\* leaves the old one in place; no output, or none that is JSON, is read as {},
\* which has no status and no messages and is stored.
ReadSMARTctl(s, d) ==
    /\ process = "running" /\ d \in running[s]
    /\ running' = [running EXCEPT ![s] = @ \ {d}]
    /\ \/ ~Validated(d) /\ UNCHANGED <<attempted, cache, age>>
       \/ Validated(d) /\ attempted' = attempted \cup {d} /\ UNCHANGED <<cache, age>>
       \/ /\ Validated(d) /\ attempted' = attempted \cup {d}
          /\ \E out \in {"json", "empty"} : cache' = [cache EXCEPT ![d] = out]
          /\ age' = [age EXCEPT ![d] = 0]
    /\ UNCHANGED <<scanned, mutex, scrape, process>>

\* collectVersion indexes the version arrays of the first device that has an
\* answer: {} has none, and the goroutine of Gather panics.
VersionOf == {d \in Devices : cache[d] # "none" /\ \A e \in 1 .. d - 1 : cache[e] = "none"}

\* wg.Wait, then the metrics of every device that has an answer.
Show(s) ==
    /\ process = "running" /\ scrape[s] = "refresh" /\ running[s] = {}
    /\ process' = IF \E d \in VersionOf : cache[d] = "empty" THEN "crashed" ELSE "running"
    /\ mutex' = Free
    /\ scrape' = [scrape EXCEPT ![s] = "idle"]
    /\ UNCHANGED <<scanned, running, attempted, cache, age>>

TimePasses ==
    /\ process = "running"
    /\ age' = [d \in Devices |-> IF age[d] > Interval THEN age[d] ELSE age[d] + 1]
    /\ UNCHANGED <<scanned, mutex, scrape, running, attempted, cache, process>>

SmartNext ==
    \/ \E s \in SmartScrapes :
          \/ Arrive(s) \/ BeginRefresh(s) \/ Show(s)
          \/ \E d \in Devices : ReadSMARTctl(s, d)
    \/ TimePasses

SmartSpec == SmartInit /\ [][SmartNext]_smartVars

-----------------------------------------------------------------------------
SmartTypeOK ==
    /\ scanned \in [Devices -> ScanTypes]
    /\ mutex \in SmartScrapes \cup {Free}
    /\ scrape \in [SmartScrapes -> {"idle", "lock", "refresh"}]
    /\ running \in [SmartScrapes -> SUBSET Devices]
    /\ attempted \in SUBSET Devices
    /\ cache \in [Devices -> {"none", "json", "empty"}]
    /\ age \in [Devices -> 0 .. Interval + 1]
    /\ process \in {"running", "crashed"}

\* A cached answer is replaced only when it is older than the interval: of scrapes
\* that arrive together the first that gets an answer for a device keeps the others
\* from replacing it.  (A device whose answers are refused is run again by each.)
OncePerInterval ==
    [][\A d \in Devices : cache[d] # "none" /\ age'[d] < age[d] => age[d] > Interval]_smartVars

\* "SATA devices are reported as SCSI during scan - fallback to auto scraping":
\* when a scrape is over smartctl has been run for them.  (Refuted: the validator
\* does not know the type "auto".)
ScsiIsScraped ==
    \A s \in SmartScrapes, d \in Devices :
        scrape[s] = "refresh" /\ running[s] = {} /\ scanned[d] = "scsi" => d \in attempted
=============================================================================
