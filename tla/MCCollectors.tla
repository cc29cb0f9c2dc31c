---------------------------- MODULE MCCollectors ----------------------------
(***************************************************************************)
(* Instances for TLC of the parts of the exporters that share nothing:     *)
(* each is a machine of its own, and a behaviour is one of one machine.    *)
(* The others rest in their initial states meanwhile, so that a run over   *)
(* all of them has the sum of their states and not the product.            *)
(***************************************************************************)
EXTENDS RateLimiter, SnmpExporter, MCMongoPool, PingTargets, DeviceCache,
        PaperlessLogs, FilesystemStats, UtilityCaches

VARIABLE machine

\* Of the caches of node_utility_exporter one that sets its time stamp after its
\* Unlock, and the one that takes its read lock twice.
UtilityOrder == <<"os_release", "textfile">>

\* The places are numbers here.  They are only compared, so a log is one of those
\* where an entry has its own number, or the place of an older one.
Numbered == \A e \in Entries : place[e] = e \/ \E f \in 1 .. e - 1 : place[e] = place[f]

\* A machine that rests stands in one of its initial states; the pool in the one
\* where nobody can expect it to connect.
Resting ==
    /\ machine # "mongo" => serverUp /\ ~uriGood
    /\ machine # "smart" => \A d \in Devices : scanned[d] = "nvme"
    /\ Numbered /\ (machine # "logs" => \A e \in Entries : place[e] = 1)
    /\ machine # "stats" => hung = {}
    /\ machine # "util" => \A c \in CacheIds : cached[c] = 0

\* In the machine "snmp" reloads are asked for by SIGHUP; in "reload" by both ways,
\* and nobody scrapes.
SnmpMachines == {"snmp", "reload"}

CollectorsInit ==
    /\ machine \in SnmpMachines \cup {"limiter", "mongo", "ping", "smart", "logs", "stats", "util"}
    /\ Init /\ SnmpInit /\ MongoInit /\ PingInit /\ SmartInit /\ LogInit /\ FsInit
    /\ UtilInit
    /\ Resting

CollectorsNext ==
    /\ UNCHANGED machine
    /\ \/ machine = "limiter" /\ Next
          /\ UNCHANGED <<snmpVars, mongoVars, pingVars, smartVars, logVars, fsVars, utilVars>>
       \/ machine \in SnmpMachines /\ SnmpNext
          /\ (machine = "snmp" => UNCHANGED post)
          /\ (machine = "reload" => UNCHANGED scrapeVars)
          /\ UNCHANGED <<rlVars, mongoVars, pingVars, smartVars, logVars, fsVars, utilVars>>
       \/ machine = "mongo" /\ MongoNext
          /\ UNCHANGED <<rlVars, snmpVars, pingVars, smartVars, logVars, fsVars, utilVars>>
       \/ machine = "ping" /\ PingNext
          /\ UNCHANGED <<rlVars, snmpVars, mongoVars, smartVars, logVars, fsVars, utilVars>>
       \/ machine = "smart" /\ SmartNext
          /\ UNCHANGED <<rlVars, snmpVars, mongoVars, pingVars, logVars, fsVars, utilVars>>
       \/ machine = "logs" /\ LogNext
          /\ UNCHANGED <<rlVars, snmpVars, mongoVars, pingVars, smartVars, fsVars, utilVars>>
       \/ machine = "stats" /\ FsNext
          /\ UNCHANGED <<rlVars, snmpVars, mongoVars, pingVars, smartVars, logVars, utilVars>>
       \/ machine = "util" /\ UtilNext
          /\ UNCHANGED <<rlVars, snmpVars, mongoVars, pingVars, smartVars, logVars, fsVars>>

collectorsVars == <<machine, rlVars, snmpVars, mongoVars, pingVars, smartVars, logVars, fsVars,
                    utilVars>>

\* The fairness of FairSpec, FairSnmpSpec, FairMongoSpec and FairFsSpec.
CollectorsFairness ==
    /\ WF_rlVars(machine = "limiter" /\ Tick) /\ WF_rlVars(machine = "limiter" /\ Refresh)
    /\ WF_snmpVars(machine \in SnmpMachines /\ ReloadStep)
    /\ \A r \in SnmpRequests :
          /\ WF_snmpVars(machine = "snmp" /\ LookUpModules(r))
          /\ WF_snmpVars(machine = "snmp" /\ CollectStep(r))
          /\ \A w \in Workers : WF_snmpVars(machine = "snmp" /\ WorkerStep(r, w))
    /\ WF_mongoVars(machine = "mongo" /\ Ask(Health))
    /\ \A u \in Users :
          /\ SF_mongoVars(machine = "mongo" /\ Lock(u))
          /\ WF_mongoVars(machine = "mongo" /\ HoldingMu(u))
    /\ \A s \in StatScrapes : WF_fsVars(machine = "stats" /\ FsStep(s))

CollectorsSpec == CollectorsInit /\ [][CollectorsNext]_collectorsVars /\ CollectorsFairness

\* Every machine keeps its variables in their types: no counter, queue or
\* position leaves its range, and nobody waits in a state that is not listed.
TypesOK ==
    /\ TypeOK /\ SnmpTypeOK /\ MongoTypeOK /\ PingTypeOK /\ SmartTypeOK
    /\ LogTypeOK /\ FsTypeOK /\ UtilTypeOK
=============================================================================
