--------------------------- MODULE UtilityCaches ---------------------------
(***************************************************************************)
(* node_utility_exporter: the collectors that keep what they read for some *)
(* minutes.  The registry asks them one after the other; a collector that  *)
(* finds its cache too old reads the files again, stores the result under  *)
(* the write lock of its RWMutex and shows it under the read lock.  Any    *)
(* number of scrapes do so at the same time.                               *)
(*                                                                         *)
(* An RWMutex for which a writer waits admits no further reader, whether   *)
(* or not the goroutine that asks has a read lock already; its Unlock      *)
(* admits every reader that waits, before the next writer.                 *)
(***************************************************************************)
EXTENDS Naturals, Sequences

CONSTANTS
    UtilScrapes,  \* calls of Registry.Collect
    Caches,       \* the collectors with a cache, in the order of the registry
    NoWriter,     \* nobody has asked for the write lock
    MaxFiles      \* the versions that the files go through

CacheKinds == {"lnstat", "os_release", "selinux", "textfile"}

ASSUME CachesAssumption == Caches \in Seq(CacheKinds)
ASSUME NoWriterAssumption == NoWriter \notin UtilScrapes
ASSUME MaxFilesAssumption == MaxFiles \in Nat \ {0}

CacheIds == 1 .. Len(Caches)
FileVersions == 0 .. MaxFiles

VARIABLES
    files,    \* the version of what the files hold
    cached,   \* the version each cache holds, 0 for nothing
    old,      \* caches whose time stamp is older than their interval
    writer,   \* who has the write lock, or waits for the readers to leave
    atCache,  \* the cache each scrape has come to, 0 between scrapes
    step,     \* and what it does there
    found,    \* the version that was cached when it looked at the time stamp
    haveRead  \* the version it has read

utilVars == <<files, cached, old, writer, atCache, step, found, haveRead>>

ScrapeSteps == {"check", "read", "lock", "drain", "stamp", "rlock", "queued",
                "again", "stuck", "show"}

\* The constructors have loaded what they could, except that of the text files.
\* That of SELinux sets its time stamp whether or not it could.
LoadedAtStart(c) ==
    CASE Caches[c] = "textfile" -> cached[c] = 0 /\ old[c]
      [] Caches[c] = "selinux"  -> cached[c] \in {0, 1} /\ ~old[c]
      [] OTHER                  -> cached[c] \in {0, 1} /\ old[c] = (cached[c] = 0)

UtilInit ==
    /\ files = 1
    /\ cached \in [CacheIds -> {0, 1}] /\ old \in [CacheIds -> BOOLEAN]
    /\ \A c \in CacheIds : LoadedAtStart(c)
    /\ writer = [c \in CacheIds |-> NoWriter]
    /\ atCache = [s \in UtilScrapes |-> 0]
    /\ step = [s \in UtilScrapes |-> "check"]
    /\ found = [s \in UtilScrapes |-> 0]
    /\ haveRead = [s \in UtilScrapes |-> 0]

Doing(s, what) == atCache[s] # 0 /\ step[s] = what

GoesTo(s, what) == step' = [step EXCEPT ![s] = what]

\* Those that hold a read lock of cache c.
Readers(c) == {s \in UtilScrapes : atCache[s] = c /\ step[s] \in {"again", "stuck", "show"}}

ScrapeCaches(s) ==
    /\ atCache[s] = 0 /\ Len(Caches) > 0
    /\ atCache' = [atCache EXCEPT ![s] = 1]
    /\ UNCHANGED <<files, cached, old, writer, step, found, haveRead>>

\* The time stamp is read without the lock.
CheckAge(s) ==
    /\ Doing(s, "check")
    /\ GoesTo(s, IF old[atCache[s]] THEN "read" ELSE "rlock")
    /\ found' = [found EXCEPT ![s] = IF old[atCache[s]] THEN cached[atCache[s]] ELSE 0]
    /\ UNCHANGED <<files, cached, old, writer, atCache, haveRead>>

\* The paths of the text files were copied before the flags were parsed: there
\* are none to read.
ReadRefresh(s) ==
    /\ Doing(s, "read")
    /\ haveRead' = [haveRead EXCEPT ![s] = IF Caches[atCache[s]] = "textfile" THEN 0 ELSE files]
    /\ GoesTo(s, "lock")
    /\ UNCHANGED <<files, cached, old, writer, atCache, found>>

StoreNothing(s) ==
    /\ Doing(s, "read") /\ Caches[atCache[s]] # "textfile"
    /\ GoesTo(s, "lock")
    /\ UNCHANGED <<files, cached, old, writer, atCache, found, haveRead>>
\* The error is logged, and what is cached is shown.
ReadFails(s) ==
    /\ Doing(s, "read") /\ Caches[atCache[s]] # "textfile"
    /\ GoesTo(s, "rlock")
    /\ found' = [found EXCEPT ![s] = 0]
    /\ UNCHANGED <<files, cached, old, writer, atCache, haveRead>>

\* Lock: from now on no reader is admitted.
AskLock(s) ==
    /\ Doing(s, "lock") /\ writer[atCache[s]] = NoWriter
    /\ writer' = [writer EXCEPT ![atCache[s]] = s]
    /\ GoesTo(s, "drain")
    /\ UNCHANGED <<files, cached, old, atCache, found, haveRead>>

AgainEverywhere(c) == "again"
\* Update and exportMTimes of the text files both take the read lock.
ReadLocked(c) == IF Caches[c] = "textfile" THEN "again" ELSE "show"

\* The readers have left: the result is stored, and Unlock admits those that wait.
\* os_release sets its time stamp after it.
StoreRefresh(s) ==
    LET c == atCache[s] IN
    /\ Doing(s, "drain") /\ Readers(c) = {}
    /\ cached' = [cached EXCEPT ![c] = haveRead[s]]
    /\ old' = [old EXCEPT ![c] = @ /\ Caches[c] = "os_release"]
    /\ writer' = [writer EXCEPT ![c] = NoWriter]
    /\ step' = [t \in UtilScrapes |->
                  IF t = s THEN IF Caches[c] = "os_release" THEN "stamp" ELSE "rlock"
                  ELSE IF atCache[t] = c /\ step[t] = "queued" THEN ReadLocked(c)
                  ELSE step[t]]
    /\ found' = [found EXCEPT ![s] = 0] /\ haveRead' = [haveRead EXCEPT ![s] = 0]
    /\ UNCHANGED <<files, atCache>>

Stamp(s) ==
    /\ Doing(s, "stamp")
    /\ old' = [old EXCEPT ![atCache[s]] = FALSE]
    /\ GoesTo(s, "rlock")
    /\ UNCHANGED <<files, cached, writer, atCache, found, haveRead>>

ReadLock(s) ==
    /\ Doing(s, "rlock")
    /\ GoesTo(s, IF writer[atCache[s]] = NoWriter THEN ReadLocked(atCache[s]) ELSE "queued")
    /\ UNCHANGED <<files, cached, old, writer, atCache, found, haveRead>>

\* exportMTimes, while Update has the read lock: a writer that waits for this
\* reader to leave keeps it out, and both wait for ever.
ReadLockAgain(s) ==
    /\ Doing(s, "again")
    /\ GoesTo(s, IF writer[atCache[s]] = NoWriter THEN "show" ELSE "stuck")
    /\ UNCHANGED <<files, cached, old, writer, atCache, found, haveRead>>

\* The metrics are sent, and the scrape goes on to the next collector.
ShowCache(s) ==
    /\ Doing(s, "show")
    /\ atCache' = [atCache EXCEPT ![s] = IF @ = Len(Caches) THEN 0 ELSE @ + 1]
    /\ GoesTo(s, "check")
    /\ UNCHANGED <<files, cached, old, writer, found, haveRead>>

IntervalPasses(c) ==
    /\ old' = [old EXCEPT ![c] = TRUE]
    /\ UNCHANGED <<files, cached, writer, atCache, step, found, haveRead>>

FilesChange ==
    /\ files < MaxFiles /\ files' = files + 1
    /\ UNCHANGED <<cached, old, writer, atCache, step, found, haveRead>>

UtilStep(s) ==
    \/ CheckAge(s) \/ ReadRefresh(s) \/ ReadFails(s) \/ AskLock(s) \/ StoreRefresh(s)
    \/ Stamp(s) \/ ReadLock(s) \/ ReadLockAgain(s) \/ ShowCache(s)

UtilNext ==
    \/ \E s \in UtilScrapes : ScrapeCaches(s) \/ UtilStep(s)
    \/ \E c \in CacheIds : IntervalPasses(c)
    \/ FilesChange

UtilSpec == UtilInit /\ [][UtilNext]_utilVars

-----------------------------------------------------------------------------
UtilTypeOK ==
    /\ files \in 1 .. MaxFiles
    /\ cached \in [CacheIds -> FileVersions] /\ old \in [CacheIds -> BOOLEAN]
    /\ writer \in [CacheIds -> UtilScrapes \cup {NoWriter}]
    /\ atCache \in [UtilScrapes -> 0 .. Len(Caches)]
    /\ step \in [UtilScrapes -> ScrapeSteps]
    /\ found \in [UtilScrapes -> FileVersions] /\ haveRead \in [UtilScrapes -> FileVersions]

\* Those that cannot take their next step until somebody else takes one.
Blocked(s) ==
    \/ Doing(s, "lock") /\ writer[atCache[s]] # NoWriter
    \/ Doing(s, "drain") /\ Readers(atCache[s]) # {}
    \/ Doing(s, "queued") \/ Doing(s, "stuck")

\* A scrape that has the read lock of the text files, asks for it again and finds
\* a writer before it.
TextfileJam(c) ==
    Caches[c] = "textfile" /\ \E s \in UtilScrapes : atCache[s] = c /\ step[s] = "stuck"

\* However refreshes and scrapes meet at the lock of a cache, one of them can go on,
\* unless the second read lock of the text files has met a writer: no other cache
\* can jam, and this one in no other way.
OnlyTextfilesJam ==
    \A s \in UtilScrapes : atCache[s] # 0 =>
        \/ TextfileJam(atCache[s])
        \/ \E t \in UtilScrapes : atCache[t] = atCache[s] /\ ~Blocked(t)

\* A cache goes back to an older version of the files only over one that was
\* stored after the scrape that stores had found the cache too old: one refresh
\* after the other never shows counters going back.
BackOnlyIfOverlapped ==
    [][\A c \in CacheIds : cached'[c] < cached[c] =>
         \E s \in UtilScrapes :
             atCache[s] = c /\ step[s] = "drain" /\ found[s] < cached[c]]_utilVars
=============================================================================
