----------------------- MODULE FilesystemStatsProofs -----------------------
(***************************************************************************)
(* Proofs about FilesystemStats, for any mounts, any of them hanging, and  *)
(* any number of scrapes and workers: a scrape implements ScatterGather.   *)
(***************************************************************************)
EXTENDS FilesystemStats, TLAPS

LEMMA FsTypeInit == FsInit => FsTypeOK
BY DEF FsInit, FsTypeOK, StatStates

LEMMA FsTypeStep == FsTypeOK /\ [FsNext]_fsVars => FsTypeOK'
<1>. SUFFICES ASSUME FsTypeOK, [FsNext]_fsVars PROVE FsTypeOK'
    OBVIOUS
<1>. USE DEF FsTypeOK, StatStates
<1>0. ASSUME NEW s \in StatScrapes, BeginStats(s) PROVE FsTypeOK'
    <2>1. statWorker' \in [StatScrapes -> [StatWorkers -> StatStates \cup Mounts]]
        BY <1>0 DEF BeginStats
    <2>. QED  BY <1>0, <2>1 DEF BeginStats
<1>1. ASSUME NEW s \in StatScrapes,
             NoMountinfo(s) \/ CloseLabels(s) \/ CloseStats(s) \/ ShowStats(s)
      PROVE  FsTypeOK'
    BY <1>1 DEF NoMountinfo, CloseLabels, CloseStats, ShowStats
<1>2. ASSUME NEW s \in StatScrapes, NEW m \in Mounts, Ignore(s, m) PROVE FsTypeOK'
    BY <1>2 DEF Ignore
<1>3. ASSUME NEW s \in StatScrapes, NEW m \in Mounts, NEW w \in StatWorkers, HandOut(s, m, w)
      PROVE  FsTypeOK'
    BY <1>3 DEF HandOut
<1>4. ASSUME NEW s \in StatScrapes, NEW w \in StatWorkers, ProcessStat(s, w) PROVE FsTypeOK'
    <2>1. stats' \in [StatScrapes -> [Wanted -> Nat]]
        <3>1. PICK m : stats' = [stats EXCEPT ![s] = [stats[s] EXCEPT ![m] = @ + 1]]
            BY <1>4 DEF ProcessStat
        <3>2. \A n \in Wanted : [stats[s] EXCEPT ![m] = @ + 1][n] \in Nat
            <4>1. stats[s] \in [Wanted -> Nat]
                OBVIOUS
            <4>. QED  BY <4>1
        <3>3. [stats[s] EXCEPT ![m] = @ + 1] \in [Wanted -> Nat]
            <4>1. stats[s] \in [Wanted -> Nat]
                OBVIOUS
            <4>. QED  BY <3>2, <4>1
        <3>. QED  BY <3>1, <3>3
    <2>. QED  BY <1>4, <2>1 DEF ProcessStat
<1>5. ASSUME NEW s \in StatScrapes, NEW w \in StatWorkers, StatWorkerEnds(s, w) PROVE FsTypeOK'
    BY <1>5 DEF StatWorkerEnds
<1>6. CASE UNCHANGED fsVars
    BY <1>6 DEF fsVars
<1>. QED  BY <1>0, <1>1, <1>2, <1>3, <1>4, <1>5, <1>6 DEF FsNext, FsStep

\* The goroutines of a scrape keep every variable in its type.
THEOREM FsTypeCorrect == FsSpec => []FsTypeOK
BY FsTypeInit, FsTypeStep, PTL DEF FsSpec

-----------------------------------------------------------------------------
(* A mount that is wanted is in one place: not read yet, in the hands of   *)
(* one worker, or received.                                                *)

OneStat(s) ==
    \A m \in Wanted :
        /\ stats[s][m] \in {0, 1}
        /\ m \in unread[s] => stats[s][m] = 0 /\ \A w \in StatWorkers : statWorker[s][w] # m
        /\ m \notin unread[s] /\ stats[s][m] = 0 => \E w \in StatWorkers : statWorker[s][w] = m
        /\ \A w, v \in StatWorkers : statWorker[s][w] = m /\ statWorker[s][v] = m => w = v
        /\ \A w \in StatWorkers : statWorker[s][w] = m => stats[s][m] = 0

FsCourse(s) ==
    /\ \A w \in StatWorkers : statWorker[s][w] \in StatStates \cup Wanted
    /\ feeder[s] = "none" => unread[s] = Mounts /\ \A w \in StatWorkers : statWorker[s][w] = "none"
    /\ feeder[s] \in {"wait", "done"} => unread[s] = {}
    /\ feeder[s] = "feed" => \A w \in StatWorkers : statWorker[s][w] \notin {"none", "done"}
    /\ feeder[s] = "wait" => \A w \in StatWorkers : statWorker[s][w] # "none"
    /\ feeder[s] = "done" => \A w \in StatWorkers : statWorker[s][w] = "done"
    /\ s \in unreadable => feeder[s] = "none"
    /\ s \in shownStats => feeder[s] = "done" \/ s \in unreadable

FsInv == \A s \in StatScrapes : OneStat(s) /\ FsCourse(s)

LEMMA FsInvInit == FsInit => FsInv
<1>1. \A m \in Wanted : m \in Mounts /\ m # "none"
    BY MountsAssumption DEF StatStates, Wanted
<1>. SUFFICES ASSUME FsInit, NEW s \in StatScrapes PROVE OneStat(s) /\ FsCourse(s)
    BY DEF FsInv
<1>2. /\ feeder[s] = "none" /\ unread[s] = Mounts /\ unreadable = {} /\ shownStats = {}
      /\ \A w \in StatWorkers : statWorker[s][w] = "none"
      /\ \A m \in Wanted : stats[s][m] = 0
    BY DEF FsInit
<1>. QED  BY <1>1, <1>2 DEF OneStat, FsCourse, StatStates

LEMMA FsInvOthers ==
    ASSUME FsTypeOK, FsInv, NEW s \in StatScrapes, FsStep(s), NEW q \in StatScrapes, q # s
    PROVE  OneStat(q)' /\ FsCourse(q)'
<1>1. /\ feeder'[q] = feeder[q] /\ unread'[q] = unread[q] /\ statWorker'[q] = statWorker[q]
      /\ stats'[q] = stats[q] /\ (q \in unreadable' <=> q \in unreadable)
      /\ (q \in shownStats' <=> q \in shownStats)
    BY DEF FsTypeOK, FsStep, BeginStats, NoMountinfo, CloseLabels, CloseStats, ShowStats,
           Ignore, HandOut, ProcessStat, StatWorkerEnds
<1>2. OneStat(q) /\ FsCourse(q)
    BY DEF FsInv
<1>. QED  BY <1>1, <1>2 DEF OneStat, FsCourse

LEMMA FsInvScrape ==
    ASSUME FsTypeOK, FsInv, NEW s \in StatScrapes, FsStep(s)
    PROVE  OneStat(s)' /\ FsCourse(s)'
<1>0. OneStat(s) /\ FsCourse(s)
    BY DEF FsInv
<1>a. \A m \in Wanted : m \in Mounts /\ m \notin StatStates
    BY MountsAssumption DEF Wanted
<1>b. /\ unread[s] \subseteq Mounts /\ stats[s] \in [Wanted -> Nat]
      /\ statWorker[s] \in [StatWorkers -> StatStates \cup Mounts]
    BY DEF FsTypeOK
<1>. USE DEF FsTypeOK, OneStat, FsCourse, StatStates
<1>1. CASE BeginStats(s)
    BY <1>0, <1>a, <1>1 DEF BeginStats
<1>2. CASE NoMountinfo(s) \/ CloseLabels(s) \/ ShowStats(s)
    BY <1>0, <1>2 DEF NoMountinfo, CloseLabels, ShowStats
<1>3. CASE CloseStats(s)
    BY <1>0, <1>3 DEF CloseStats
<1>4. ASSUME NEW m \in Mounts, Ignore(s, m) PROVE OneStat(s)' /\ FsCourse(s)'
    <2>1. /\ unread'[s] = unread[s] \ {m} /\ m \notin Wanted /\ feeder[s] = "feed"
          /\ UNCHANGED <<feeder, statWorker, stats, unreadable, shownStats>>
        BY <1>4 DEF Ignore, Wanted
    <2>. QED  BY <1>0, <2>1
<1>5. ASSUME NEW m \in Mounts, NEW w \in StatWorkers, HandOut(s, m, w)
      PROVE  OneStat(s)' /\ FsCourse(s)'
    <2>1. /\ unread'[s] = unread[s] \ {m} /\ m \in Wanted /\ feeder[s] = "feed" /\ m \in unread[s]
          /\ statWorker[s][w] = "idle" /\ statWorker'[s] = [statWorker[s] EXCEPT ![w] = m]
          /\ UNCHANGED <<feeder, stats, unreadable, shownStats>>
        BY <1>5 DEF HandOut, Wanted
    <2>. QED  BY <1>0, <1>a, <1>b, <2>1
<1>6. ASSUME NEW w \in StatWorkers, ProcessStat(s, w) PROVE OneStat(s)' /\ FsCourse(s)'
    <2>1. PICK m \in Wanted : m = statWorker[s][w]
        BY <1>0, <1>6, MountsAssumption DEF ProcessStat
    <2>2. /\ statWorker'[s] = [statWorker[s] EXCEPT ![w] = "idle"]
          /\ stats'[s] = [stats[s] EXCEPT ![m] = @ + 1]
          /\ UNCHANGED <<feeder, unread, unreadable, shownStats>>
        BY <1>6, <2>1 DEF ProcessStat
    <2>3. feeder[s] \notin {"none", "done"}
        BY <1>0, <1>a, <2>1, StatWorkersAssumption
    <2>. QED  BY <1>0, <1>a, <1>b, <2>1, <2>2, <2>3
<1>7. ASSUME NEW w \in StatWorkers, StatWorkerEnds(s, w) PROVE OneStat(s)' /\ FsCourse(s)'
    <2>1. /\ statWorker[s][w] = "idle" /\ statWorker'[s] = [statWorker[s] EXCEPT ![w] = "done"]
          /\ feeder[s] = "wait"
          /\ UNCHANGED <<feeder, unread, stats, unreadable, shownStats>>
        BY <1>7 DEF StatWorkerEnds
    <2>. QED  BY <1>0, <1>a, <1>b, <2>1
<1>. QED  BY <1>1, <1>2, <1>3, <1>4, <1>5, <1>6, <1>7 DEF FsStep

LEMMA FsInvStep == FsTypeOK /\ FsInv /\ [FsNext]_fsVars => FsInv'
<1>. SUFFICES ASSUME FsTypeOK, FsInv, [FsNext]_fsVars PROVE FsInv'
    OBVIOUS
<1>1. CASE UNCHANGED fsVars
    BY <1>1 DEF fsVars, FsInv, OneStat, FsCourse
<1>2. ASSUME NEW s \in StatScrapes, FsStep(s) PROVE FsInv'
    BY <1>2, FsInvOthers, FsInvScrape DEF FsInv
<1>. QED  BY <1>1, <1>2 DEF FsNext

-----------------------------------------------------------------------------
\* A scrape that cannot read mountinfo is abandoned, ProcessStat reports, the
\* scrape that returns finishes, and every other step stutters.
LEMMA StatsStep ==
    ASSUME FsTypeOK, FsInv, NEW s \in StatScrapes, FsStep(s)
    PROVE  Stats!SGNext \/ UNCHANGED <<stats, unreadable, shownStats>>
<1>0. OneStat(s) /\ FsCourse(s)
    BY DEF FsInv
<1>1. CASE NoMountinfo(s)
    <2>1. Stats!Abandon(s)
        BY <1>0, <1>1 DEF NoMountinfo, Stats!Abandon, FsCourse
    <2>. QED  BY <2>1 DEF Stats!SGNext
<1>2. CASE ShowStats(s)
    <2>1. s \in unreadable \/ \A m \in Wanted : stats[s][m] = 1
        BY <1>0, <1>2, MountsAssumption DEF ShowStats, OneStat, FsCourse, StatStates, Wanted
    <2>2. Stats!Finish(s)
        BY <1>2, <2>1 DEF ShowStats, Stats!Finish
    <2>. QED  BY <2>2 DEF Stats!SGNext
<1>3. ASSUME NEW w \in StatWorkers, ProcessStat(s, w) PROVE Stats!SGNext
    <2>1. PICK m \in Wanted : m = statWorker[s][w]
        BY <1>0, <1>3, MountsAssumption DEF ProcessStat, FsCourse
    <2>2. stats[s][m] = 0 /\ s \notin shownStats
        BY <1>0, <2>1, MountsAssumption DEF OneStat, FsCourse, StatStates, Wanted
    <2>3. stats' = [stats EXCEPT ![s][m] = 1]
        BY <1>3, <2>1, <2>2 DEF ProcessStat
    <2>4. Stats!Report(s, m)
        BY <1>3, <2>2, <2>3 DEF ProcessStat, Stats!Report
    <2>. QED  BY <2>4 DEF Stats!SGNext
<1>4. CASE BeginStats(s) \/ CloseLabels(s) \/ CloseStats(s)
    BY <1>4 DEF BeginStats, CloseLabels, CloseStats
<1>5. ASSUME NEW m \in Mounts, Ignore(s, m) \/ \E w \in StatWorkers : HandOut(s, m, w)
      PROVE  UNCHANGED <<stats, unreadable, shownStats>>
    BY <1>5 DEF Ignore, HandOut
<1>6. ASSUME NEW w \in StatWorkers, StatWorkerEnds(s, w)
      PROVE  UNCHANGED <<stats, unreadable, shownStats>>
    BY <1>6 DEF StatWorkerEnds
<1>. QED  BY <1>1, <1>2, <1>3, <1>4, <1>5, <1>6 DEF FsStep

\* Every behaviour of a scrape is one of ScatterGather, the safety half of
\* StatsGathered: every mount once, none after the end, none missing.
THEOREM StatsScatterGather == FsSpec => Stats!SGSpec
<1>1. FsInit => Stats!SGInit
    BY DEF FsInit, Stats!SGInit
<1>2. FsTypeOK /\ FsInv /\ [FsNext]_fsVars
         => [Stats!SGNext]_<<stats, unreadable, shownStats>>
    BY StatsStep DEF FsNext, fsVars
<1>. QED  BY <1>1, <1>2, FsTypeInit, FsTypeStep, FsInvInit, FsInvStep, PTL
          DEF FsSpec, Stats!SGSpec, Stats!sgVars

-----------------------------------------------------------------------------
(* Why a scrape whose mounts all answer returns: at every moment one of its *)
(* goroutines need not wait for another.                                    *)

FeederCanStep(s) ==
    \/ feeder[s] = "feed" /\ unread[s] \cap Ignored # {}
    \/ feeder[s] = "feed" /\ unread[s] # {} /\ \E w \in StatWorkers : statWorker[s][w] = "idle"
    \/ feeder[s] = "feed" /\ unread[s] = {}
    \/ feeder[s] = "wait" /\ \A w \in StatWorkers : statWorker[s][w] = "done"

StatWorkerCanStep(s, w) ==
    \/ statWorker[s][w] \in Mounts \ hung
    \/ feeder[s] = "wait" /\ statWorker[s][w] = "idle"

StatsGoOn ==
    \A s \in StatScrapes : feeder[s] \in {"feed", "wait"} /\ hung \cap Wanted = {} =>
        FeederCanStep(s) \/ \E w \in StatWorkers : StatWorkerCanStep(s, w)

\* The feeder, the workers and the scrape never wait for each other in a circle,
\* for any number of workers and mounts: the safety part of why StatsGathered
\* promises an end.
THEOREM StatsNeverStuck == FsSpec => []StatsGoOn
<1>1. FsTypeOK /\ FsInv => StatsGoOn
    <2>. SUFFICES ASSUME FsTypeOK, FsInv, NEW s \in StatScrapes, feeder[s] \in {"feed", "wait"},
                         hung \cap Wanted = {}, ~FeederCanStep(s)
                  PROVE  \E w \in StatWorkers : StatWorkerCanStep(s, w)
        BY DEF StatsGoOn
    <2>1. \A w \in StatWorkers : statWorker[s][w] \in StatStates \cup Wanted
        BY DEF FsInv, FsCourse
    <2>2. \A m \in Wanted : m \in Mounts \ hung
        BY DEF Wanted
    <2>3. CASE feeder[s] = "feed"
        <3>1. PICK w \in StatWorkers : TRUE
            BY StatWorkersAssumption
        <3>2. statWorker[s][w] \notin StatStates
            BY <2>3 DEF FsInv, FsCourse, FeederCanStep, StatStates
        <3>. QED  BY <2>1, <2>2, <3>2 DEF StatWorkerCanStep
    <2>4. CASE feeder[s] = "wait"
        <3>1. PICK w \in StatWorkers : statWorker[s][w] # "done"
            BY <2>4 DEF FeederCanStep
        <3>2. statWorker[s][w] # "none"
            BY <2>4 DEF FsInv, FsCourse
        <3>. QED  BY <2>1, <2>2, <2>4, <3>1, <3>2 DEF StatWorkerCanStep, StatStates
    <2>. QED  BY <2>3, <2>4
<1>. QED  BY <1>1, FsTypeInit, FsTypeStep, FsInvInit, FsInvStep, PTL DEF FsSpec

=============================================================================
