-------------------------- MODULE FilesystemStats --------------------------
(***************************************************************************)
(* node_storage_exporter: GetStats of the filesystem collector.  Workers   *)
(* call statfs for the mount points that a goroutine hands them over the   *)
(* unbuffered labelChan, and send what they find over the unbuffered       *)
(* statChan to the scrape, which does nothing but receive.                 *)
(*                                                                         *)
(* statfs is the one of the kernel: for a mount whose server is gone it    *)
(* does not return.                                                        *)
(***************************************************************************)
EXTENDS Naturals

CONSTANTS
    StatScrapes,  \* calls of Collect; they share nothing
    Mounts,       \* the lines of mountinfo
    Ignored,      \* those that ignoredMountPoints or ignoredFSTypes match
    StatWorkers   \* the workers of a scrape: four

StatStates == {"none", "idle", "done"}

ASSUME IgnoredAssumption == Ignored \subseteq Mounts
ASSUME MountsAssumption == Mounts \cap StatStates = {}
ASSUME StatWorkersAssumption == StatWorkers # {}

VARIABLES
    hung,       \* mounts for which statfs does not return
    feeder,     \* the second goroutine: "none", "feed", "wait", "done"
    unread,     \* lines of mountinfo it has yet to look at
    statWorker, \* the state of each worker, or the mount it has in hand
    stats,      \* how often the scrape received the stats of a mount
    unreadable, \* scrapes that could not read mountinfo
    shownStats  \* scrapes that have returned

fsVars == <<hung, feeder, unread, statWorker, stats, unreadable, shownStats>>

Wanted == Mounts \ Ignored

FsInit ==
    /\ hung \in SUBSET Mounts
    /\ feeder = [s \in StatScrapes |-> "none"]
    /\ unread = [s \in StatScrapes |-> Mounts]
    /\ statWorker = [s \in StatScrapes |-> [w \in StatWorkers |-> "none"]]
    /\ stats = [s \in StatScrapes |-> [m \in Wanted |-> 0]]
    /\ unreadable = {} /\ shownStats = {}

\* mountPointDetails, and the goroutines are started.
BeginStats(s) ==
    /\ feeder[s] = "none" /\ s \notin unreadable
    /\ feeder' = [feeder EXCEPT ![s] = "feed"]
    /\ statWorker' = [statWorker EXCEPT ![s] = [w \in StatWorkers |-> "idle"]]
    /\ UNCHANGED <<hung, unread, stats, unreadable, shownStats>>

\* Neither /proc/1/mountinfo nor /proc/self/mountinfo can be read.
NoMountinfo(s) ==
    /\ feeder[s] = "none" /\ s \notin unreadable
    /\ unreadable' = unreadable \cup {s}
    /\ UNCHANGED <<hung, feeder, unread, statWorker, stats, shownStats>>

Ignore(s, m) ==
    /\ feeder[s] = "feed" /\ m \in unread[s] \cap Ignored
    /\ unread' = [unread EXCEPT ![s] = @ \ {m}]
    /\ UNCHANGED <<hung, feeder, statWorker, stats, unreadable, shownStats>>

\* `labelChan <- labels`
HandOut(s, m, w) ==
    /\ feeder[s] = "feed" /\ m \in unread[s] \ Ignored /\ statWorker[s][w] = "idle"
    /\ unread' = [unread EXCEPT ![s] = @ \ {m}]
    /\ statWorker' = [statWorker EXCEPT ![s][w] = m]
    /\ UNCHANGED <<hung, feeder, stats, unreadable, shownStats>>

\* `statChan <- c.processStat(labels)`, with the stats or the error of statfs.
ProcessStat(s, w) ==
    /\ statWorker[s][w] \in Mounts \ hung
    /\ stats' = [stats EXCEPT ![s][statWorker[s][w]] = @ + 1]
    /\ statWorker' = [statWorker EXCEPT ![s][w] = "idle"]
    /\ UNCHANGED <<hung, feeder, unread, unreadable, shownStats>>

\* close(labelChan)
CloseLabels(s) ==
    /\ feeder[s] = "feed" /\ unread[s] = {}
    /\ feeder' = [feeder EXCEPT ![s] = "wait"]
    /\ UNCHANGED <<hung, unread, statWorker, stats, unreadable, shownStats>>

StatWorkerEnds(s, w) ==
    /\ feeder[s] = "wait" /\ statWorker[s][w] = "idle"
    /\ statWorker' = [statWorker EXCEPT ![s][w] = "done"]
    /\ UNCHANGED <<hung, feeder, unread, stats, unreadable, shownStats>>

CloseAtOnce(s) ==
    /\ feeder[s] = "wait"
    /\ feeder' = [feeder EXCEPT ![s] = "done"]
    /\ UNCHANGED <<hung, unread, statWorker, stats, unreadable, shownStats>>
\* wg.Wait, close(statChan)
CloseStats(s) ==
    /\ feeder[s] = "wait" /\ \A w \in StatWorkers : statWorker[s][w] = "done"
    /\ feeder' = [feeder EXCEPT ![s] = "done"]
    /\ UNCHANGED <<hung, unread, statWorker, stats, unreadable, shownStats>>

\* The range over statChan ends and Collect shows what it has received.
ShowStats(s) ==
    /\ s \notin shownStats
    /\ feeder[s] = "done" \/ s \in unreadable
    /\ shownStats' = shownStats \cup {s}
    /\ UNCHANGED <<hung, feeder, unread, statWorker, stats, unreadable>>

FsStep(s) ==
    \/ BeginStats(s) \/ NoMountinfo(s) \/ CloseLabels(s) \/ CloseStats(s) \/ ShowStats(s)
    \/ \E m \in Mounts : Ignore(s, m) \/ \E w \in StatWorkers : HandOut(s, m, w)
    \/ \E w \in StatWorkers : ProcessStat(s, w) \/ StatWorkerEnds(s, w)

FsNext == \E s \in StatScrapes : FsStep(s)

FsSpec == FsInit /\ [][FsNext]_fsVars

\* The goroutines of a scrape run, and statfs returns where it does at all.
FairFsSpec == FsSpec /\ \A s \in StatScrapes : WF_fsVars(FsStep(s))

-----------------------------------------------------------------------------
FsTypeOK ==
    /\ hung \in SUBSET Mounts
    /\ feeder \in [StatScrapes -> {"none", "feed", "wait", "done"}]
    /\ unread \in [StatScrapes -> SUBSET Mounts]
    /\ statWorker \in [StatScrapes -> [StatWorkers -> StatStates \cup Mounts]]
    /\ stats \in [StatScrapes -> [Wanted -> Nat]]
    /\ unreadable \in SUBSET StatScrapes /\ shownStats \in SUBSET StatScrapes

\* A scrape shows every mount that is not ignored once, and nothing is sent to
\* it after statChan is closed; and unless statfs hangs it returns: its three
\* kinds of goroutines never wait for each other in a circle.  (While one hangs
\* no metric of any mount is shown: mountTimeout is not used.)
Stats == INSTANCE ScatterGather WITH
    Gatherers <- StatScrapes, Items <- Wanted, reports <- stats,
    cancelled <- unreadable, over <- shownStats
StatsGathered ==
    /\ Stats!SGSpec
    /\ \A s \in StatScrapes :
          feeder[s] = "feed" /\ hung \cap Wanted = {} ~> s \in shownStats
=============================================================================
