---------------------------- MODULE PingTargets ----------------------------
(***************************************************************************)
(* ping_exporter: the addresses of one target.  Every minute a goroutine   *)
(* is started that resolves the name, adds new addresses to the monitor,   *)
(* removes those that are gone and records what it has; a slow one meets   *)
(* the next ones at the mutex of the target.  The targets of the process   *)
(* do not share an address: its name in the monitor starts with the host.  *)
(*                                                                         *)
(* The resolver and the monitor (go-ping) are outside the repository.      *)
(***************************************************************************)
EXTENDS FiniteSets

CONSTANTS
    Updaters,     \* goroutines of upsertTargets and refreshDNS
    Addresses,    \* what the name may resolve to
    Enabled,      \* the addresses of an IP version that is not disabled
    Unlocked      \* nobody holds the mutex

ASSUME UnlockedAssumption == Unlocked \notin Updaters
ASSUME EnabledAssumption == Enabled \subseteq Addresses

VARIABLES
    holder,     \* of target.mutex
    updater,    \* "idle", "lock", "resolve", "add"
    resolved,   \* sanitizedAddrs of each goroutine
    pending,    \* those it has yet to look at
    added,      \* those it has added to the monitor
    recorded,   \* target.addresses
    monitored,  \* the addresses in the monitor
    orphans,    \* addresses that a goroutine added before it gave up
    shown       \* p.metrics: the addresses of which a scrape shows metrics

pingVars == <<holder, updater, resolved, pending, added, recorded, monitored, orphans, shown>>

PingInit ==
    /\ holder = Unlocked
    /\ updater = [u \in Updaters |-> "idle"]
    /\ resolved = [u \in Updaters |-> {}]
    /\ pending = [u \in Updaters |-> {}]
    /\ added = [u \in Updaters |-> {}]
    /\ recorded = {} /\ monitored = {} /\ orphans = {} /\ shown = {}

UpdaterGoes(u, state) == updater' = [updater EXCEPT ![u] = state]

\* upsertTargets at the start, then a tick of startDNSAutoRefresh.
StartRefresh(u) ==
    /\ updater[u] = "idle"
    /\ UpdaterGoes(u, "lock")
    /\ UNCHANGED <<holder, resolved, pending, added, recorded, monitored, orphans, shown>>

TakeUnlocked(u) ==
    /\ updater[u] = "lock"
    /\ holder' = u /\ UpdaterGoes(u, "resolve")
    /\ UNCHANGED <<resolved, pending, added, recorded, monitored, orphans, shown>>
TakeMutex(u) ==
    /\ updater[u] = "lock" /\ holder = Unlocked
    /\ holder' = u /\ UpdaterGoes(u, "resolve")
    /\ UNCHANGED <<resolved, pending, added, recorded, monitored, orphans, shown>>

\* The deferred Unlock, with or without an error: what is local to u is gone.
Leave(u) ==
    /\ holder' = Unlocked
    /\ UpdaterGoes(u, "idle")
    /\ resolved' = [resolved EXCEPT ![u] = {}]
    /\ pending' = [pending EXCEPT ![u] = {}]
    /\ added' = [added EXCEPT ![u] = {}]

\* LookupIPAddr, and the addresses of a disabled IP version left out.  On an
\* error everything stays as it was.
Resolve(u) ==
    /\ updater[u] = "resolve"
    /\ \/ Leave(u)
       \/ \E answer \in SUBSET Addresses \ {{}} :
             /\ resolved' = [resolved EXCEPT ![u] = answer \cap Enabled]
             /\ pending' = [pending EXCEPT ![u] = answer \cap Enabled]
             /\ UpdaterGoes(u, "add") /\ UNCHANGED <<holder, added>>
    /\ UNCHANGED <<recorded, monitored, orphans, shown>>

\* addIfNew: an address that is recorded already is passed over.
AddIfNew(u, a) ==
    /\ updater[u] = "add" /\ a \in pending[u]
    /\ pending' = [pending EXCEPT ![u] = @ \ {a}]
    /\ IF a \in recorded
         THEN UNCHANGED <<added, monitored>>
         ELSE /\ monitored' = monitored \cup {a}
              /\ added' = [added EXCEPT ![u] = @ \cup {a}]
    /\ UNCHANGED <<holder, updater, resolved, recorded, orphans, shown>>

\* The monitor refuses an address: the method returns at once, and what it added
\* so far is in the monitor and not recorded.
AddRefused(u, a) ==
    /\ updater[u] = "add" /\ a \in pending[u] \ recorded
    /\ orphans' = orphans \cup added[u]
    /\ Leave(u)
    /\ UNCHANGED <<recorded, monitored, shown>>

\* cleanUp, and `t.addresses = sanitizedAddrs`.
CleanUp(u) ==
    /\ updater[u] = "add" /\ pending[u] = {}
    /\ monitored' = monitored \ (recorded \ resolved[u])
    /\ recorded' = resolved[u]
    /\ orphans' = orphans \ resolved[u]
    /\ Leave(u)
    /\ UNCHANGED shown

\* Collect: Export knows the monitored addresses that have results; an empty
\* export leaves the metrics of the last one.
Export ==
    /\ \E m \in SUBSET monitored : shown' = IF m = {} THEN shown ELSE m
    /\ UNCHANGED <<holder, updater, resolved, pending, added, recorded, monitored, orphans>>

PingNext ==
    \/ \E u \in Updaters :
          \/ StartRefresh(u) \/ TakeMutex(u) \/ Resolve(u) \/ CleanUp(u)
          \/ \E a \in Addresses : AddIfNew(u, a) \/ AddRefused(u, a)
    \/ Export

PingSpec == PingInit /\ [][PingNext]_pingVars

-----------------------------------------------------------------------------
PingTypeOK ==
    /\ holder \in Updaters \cup {Unlocked}
    /\ updater \in [Updaters -> {"idle", "lock", "resolve", "add"}]
    /\ resolved \in [Updaters -> SUBSET Enabled]
    /\ pending \in [Updaters -> SUBSET Enabled]
    /\ added \in [Updaters -> SUBSET Enabled]
    /\ recorded \in SUBSET Enabled /\ monitored \in SUBSET Enabled
    /\ orphans \in SUBSET Enabled /\ shown \in SUBSET Enabled

\* Between refreshes the monitor pings the addresses that are recorded and, for
\* as long as the name does not resolve to them again, those that a refresh added
\* before the monitor refused another one: no other address, and all of these.
MonitorIsRecorded ==
    holder = Unlocked => monitored = recorded \cup orphans /\ recorded \cap orphans = {}
=============================================================================
