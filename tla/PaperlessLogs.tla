--------------------------- MODULE PaperlessLogs ---------------------------
(***************************************************************************)
(* prometheus_paperless_exporter: how the log collector counts the entries *)
(* of a log.  A scrape fetches the whole log over HTTP, and then, under    *)
(* the mutex, counts what comes behind the position it remembers.  Scrapes *)
(* may overlap.  Each log has a position of its own; one is modelled.      *)
(*                                                                         *)
(* The log of the server is outside the repository: entries are appended,  *)
(* and now and then it is rotated and begins anew.                         *)
(***************************************************************************)
EXTENDS Naturals

CONSTANTS
    LogScrapes,  \* calls of collectOne for the log
    Places,      \* what a logPosition holds of an entry: time, module, level
    Nowhere,     \* the position before the first entry: not valid
    MaxEntries,  \* bound: entries written to the log
    MaxFetches   \* bound: logs fetched

ASSUME NowhereAssumption == Nowhere \notin Places
ASSUME LogBoundsAssumption == MaxEntries \in Nat /\ MaxFetches \in Nat

Entries == 1 .. MaxEntries

VARIABLES
    place,      \* the position of each entry
    rotatedAt,  \* the last entry that is not in the file any more
    written,    \* the last entry of the log
    fetches,    \* logs fetched so far
    reading,    \* each scrape: "idle", or "locking" with its entries at hand
    lowest,     \* the entries a scrape has fetched lie above this one,
    newest,     \* and the last of them is this one
    seen,       \* c.seen of the log
    counted,    \* how often each entry was added to log_entries_total
    overlapped  \* two scrapes had fetched the log at the same time

logVars == <<place, rotatedAt, written, fetches, reading, lowest, newest,
             seen, counted, overlapped>>

LogInit ==
    /\ place \in [Entries -> Places]
    /\ rotatedAt = 0 /\ written = 0 /\ fetches = 0
    /\ reading = [s \in LogScrapes |-> "idle"]
    /\ lowest = [s \in LogScrapes |-> 0] /\ newest = [s \in LogScrapes |-> 0]
    /\ seen = Nowhere
    /\ counted = [e \in Entries |-> 0]
    /\ overlapped = FALSE

-----------------------------------------------------------------------------
WriteEntry ==
    /\ written < MaxEntries
    /\ written' = written + 1
    /\ UNCHANGED <<place, rotatedAt, fetches, reading, lowest, newest,
                   seen, counted, overlapped>>

RotateLog ==
    /\ rotatedAt < written
    /\ rotatedAt' = written
    /\ UNCHANGED <<place, written, fetches, reading, lowest, newest,
                   seen, counted, overlapped>>

\* GetLog.  An empty log ends collectOne, as does an error, which changes
\* nothing of the state here.
GetLog(s) ==
    /\ reading[s] = "idle" /\ fetches < MaxFetches
    /\ fetches' = fetches + 1
    /\ IF rotatedAt = written
         THEN UNCHANGED <<reading, lowest, newest, overlapped>>
         ELSE /\ reading' = [reading EXCEPT ![s] = "locking"]
              /\ lowest' = [lowest EXCEPT ![s] = rotatedAt]
              /\ newest' = [newest EXCEPT ![s] = written]
              /\ overlapped' = (overlapped \/ \E t \in LogScrapes : reading[t] = "locking")
    /\ UNCHANGED <<place, rotatedAt, written, seen, counted>>

\* The entries behind the first one that has the remembered position; all of
\* them when there is none.
Matches(s) == {e \in lowest[s] + 1 .. newest[s] : place[e] = seen}

StartAtMatch(s) ==
    IF Matches(s) = {} THEN lowest[s]
    ELSE (CHOOSE e \in Matches(s) : \A f \in Matches(s) : e <= f) - 1
Start(s) ==
    IF Matches(s) = {} THEN lowest[s]
    ELSE CHOOSE e \in Matches(s) : \A f \in Matches(s) : e <= f

RememberFirst(s) ==
    /\ reading[s] = "locking"
    /\ counted' = [e \in Entries |->
                      IF e \in Start(s) + 1 .. newest[s] THEN counted[e] + 1 ELSE counted[e]]
    /\ seen' = place[written]
    /\ reading' = [reading EXCEPT ![s] = "idle"]
    /\ lowest' = [lowest EXCEPT ![s] = 0] /\ newest' = [newest EXCEPT ![s] = 0]
    /\ UNCHANGED <<place, rotatedAt, written, fetches, overlapped>>
\* Under c.mu: count, and remember the newest entry.  (log_duplicates_total, which
\* is raised by the entries that are new, is left out.)
CountEntries(s) ==
    /\ reading[s] = "locking"
    /\ counted' = [e \in Entries |->
                      IF e \in Start(s) + 1 .. newest[s] THEN counted[e] + 1 ELSE counted[e]]
    /\ seen' = place[newest[s]]
    /\ reading' = [reading EXCEPT ![s] = "idle"]
    /\ lowest' = [lowest EXCEPT ![s] = 0] /\ newest' = [newest EXCEPT ![s] = 0]
    /\ UNCHANGED <<place, rotatedAt, written, fetches, overlapped>>

LogNext ==
    \/ WriteEntry \/ RotateLog
    \/ \E s \in LogScrapes : GetLog(s) \/ CountEntries(s)

LogSpec == LogInit /\ [][LogNext]_logVars

-----------------------------------------------------------------------------
LogTypeOK ==
    /\ place \in [Entries -> Places]
    /\ rotatedAt \in 0 .. written /\ written \in 0 .. MaxEntries
    /\ fetches \in 0 .. MaxFetches
    /\ reading \in [LogScrapes -> {"idle", "locking"}]
    /\ lowest \in [LogScrapes -> 0 .. MaxEntries]
    /\ newest \in [LogScrapes -> 0 .. MaxEntries]
    /\ seen \in Places \cup {Nowhere}
    /\ counted \in [Entries -> Nat]
    /\ overlapped \in BOOLEAN

\* No two entries agree in time, module and level.
Distinct == \A e, f \in Entries : place[e] = place[f] => e = f

\* Once a scrape has processed a log every entry it fetched has been counted,
\* whatever other scrapes and rotations came between its fetch and its lock.
\* (An entry that shares its position with an older one can be missed.)
NoneMissed ==
    [][Distinct => \A s \in LogScrapes :
          reading[s] = "locking" /\ reading'[s] = "idle" =>
              \A e \in lowest[s] + 1 .. newest[s] : counted'[e] > 0]_logVars

\* An entry is counted twice only when scrapes overlap, or when it shares its
\* position with an older one: never because of a rotation, or of a scrape that
\* found the log empty or unchanged.
CountedOnce == Distinct /\ ~overlapped => \A e \in Entries : counted[e] <= 1
=============================================================================
