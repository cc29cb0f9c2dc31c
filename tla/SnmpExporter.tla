---------------------------- MODULE SnmpExporter ----------------------------
(***************************************************************************)
(* snmp_exporter: the handler of /snmp with the collector it creates, and  *)
(* the reload of the configuration.                                        *)
(*                                                                         *)
(* A request looks its auth and its modules up in the configuration, under *)
(* a read lock.  Its Collect starts workers, each with an SNMP client of   *)
(* its own, and hands them the modules through an unbuffered channel.  One *)
(* goroutine serves both ways to ask for a reload, SIGHUP and a POST.      *)
(***************************************************************************)
EXTENDS Naturals

CONSTANTS
    SnmpRequests,  \* requests for /snmp
    Modules,       \* the modules a request names
    Workers,       \* the workers of a scrape: max(1, concurrency) of them
    Posters,       \* clients that POST to /-/reload
    Nobody,        \* a reload that nobody waits for: SIGHUP
    MaxEdits       \* bound: edits of the configuration file

WorkerStates == {"none", "connect", "idle", "failed", "done"}

ASSUME WorkersAssumption == Workers # {}
ASSUME ModulesAssumption == Modules # {} /\ Modules \cap WorkerStates = {}
ASSUME NobodyAssumption == Nobody \notin Posters
ASSUME EditsAssumption == MaxEdits \in Nat

VARIABLES
    file,      \* the configuration file: its version, and whether it parses
    conf,      \* the version of sc.C
    reloader,  \* where handleReloadSignals is; "ok" and "failed": about to answer
    asker,     \* whom it reloads for
    tried,     \* the version LoadFile read last
    hup,       \* a signal waits in the channel hup, of capacity 1
    hupAt,     \* the version of the file when SIGHUP was sent last
    post,      \* each POST: "idle", "send" (to reloadCh), "receive", "ok", "failed"
    askedAt,   \* the version of the file when it was sent
    phase,     \* where each request is
    authOf,    \* the version its auth comes from
    modulesOf, \* the version its modules come from
    todo,      \* the modules dispatchModules has not sent yet
    gone,      \* requests whose context is done
    worker,    \* the state of each worker, or the module it has in hand
    reports    \* how often each module was reported, as metrics or as an error

confVars   == <<file, conf, reloader, asker, tried, hup, hupAt, post, askedAt>>
scrapeVars == <<phase, authOf, modulesOf, todo, gone, worker, reports>>
snmpVars   == <<confVars, scrapeVars>>

Phases == {"new", "looking", "refused", "dispatch", "wait", "over"}

SnmpInit ==
    /\ file = [version |-> 0, good |-> TRUE] /\ conf = 0
    /\ reloader = "wait" /\ asker = Nobody /\ tried = 0
    /\ hup = 0 /\ hupAt = 0
    /\ post = [p \in Posters |-> "idle"] /\ askedAt = [p \in Posters |-> 0]
    /\ phase = [r \in SnmpRequests |-> "new"]
    /\ authOf = [r \in SnmpRequests |-> 0] /\ modulesOf = [r \in SnmpRequests |-> 0]
    /\ todo = [r \in SnmpRequests |-> Modules]
    /\ gone = {}
    /\ worker = [r \in SnmpRequests |-> [w \in Workers |-> "none"]]
    /\ reports = [r \in SnmpRequests |-> [m \in Modules |-> 0]]

-----------------------------------------------------------------------------
(* The handler: validateAndGetModules, from RLock to the deferred RUnlock. *)

GoTo(r, p) == phase' = [phase EXCEPT ![r] = p]

\* An unknown auth is answered with 400, and the lock is released.
LookUpAuth(r) ==
    /\ phase[r] = "new"
    /\ \/ GoTo(r, "refused") /\ UNCHANGED authOf
       \/ GoTo(r, "looking") /\ authOf' = [authOf EXCEPT ![r] = conf]
    /\ UNCHANGED <<confVars, modulesOf, todo, gone, worker, reports>>

\* So is an unknown module; otherwise Collect starts the workers.
LookUpModules(r) ==
    /\ phase[r] = "looking"
    /\ \/ GoTo(r, "refused") /\ UNCHANGED <<modulesOf, worker>>
       \/ /\ GoTo(r, "dispatch")
          /\ modulesOf' = [modulesOf EXCEPT ![r] = conf]
          /\ worker' = [worker EXCEPT ![r] = [w \in Workers |-> "connect"]]
    /\ UNCHANGED <<confVars, authOf, todo, gone, reports>>

\* The client hangs up or the scrape times out: r.Context() is done.
HangUp(r) ==
    /\ phase[r] \in {"looking", "dispatch", "wait"} /\ r \notin gone
    /\ gone' = gone \cup {r}
    /\ UNCHANGED <<confVars, phase, authOf, modulesOf, todo, worker, reports>>

-----------------------------------------------------------------------------
(* The workers: workerLoop.                                                *)

Put(r, w, state) == worker' = [worker EXCEPT ![r][w] = state]

\* createSNMPClient; a worker that fails reports an invalid metric and is gone.
Connect(r, w) ==
    /\ worker[r][w] = "connect"
    /\ Put(r, w, "idle") \/ Put(r, w, "failed")
    /\ UNCHANGED <<confVars, phase, authOf, modulesOf, todo, gone, reports>>

\* processModule: the metrics of the module, or an invalid one for the error.
ProcessModule(r, w) ==
    /\ worker[r][w] \in Modules
    /\ reports' = [reports EXCEPT ![r][worker[r][w]] = @ + 1]
    /\ Put(r, w, "idle")
    /\ UNCHANGED <<confVars, phase, authOf, modulesOf, todo, gone>>

\* The range over workerChan ends when the channel is closed.
WorkerEnds(r, w) ==
    /\ phase[r] = "wait" /\ worker[r][w] = "idle"
    /\ Put(r, w, "done")
    /\ UNCHANGED <<confVars, phase, authOf, modulesOf, todo, gone, reports>>

-----------------------------------------------------------------------------
(* Collect: dispatchModules, close(workerChan), wg.Wait.                   *)

\* A send on the unbuffered channel needs a worker that receives.
Send(r, w, m) ==
    /\ phase[r] = "dispatch" /\ m \in todo[r] /\ worker[r][w] = "idle"
    /\ todo' = [todo EXCEPT ![r] = @ \ {m}]
    /\ Put(r, w, m)
    /\ UNCHANGED <<confVars, phase, authOf, modulesOf, gone, reports>>

SendOnly(r) ==
    /\ phase[r] = "dispatch"
    /\ todo[r] = {}
    /\ GoTo(r, "wait")
    /\ UNCHANGED <<confVars, authOf, modulesOf, todo, gone, worker, reports>>
\* The loop ends after the last module, or in a select that finds ctx done.
StopDispatch(r) ==
    /\ phase[r] = "dispatch"
    /\ todo[r] = {} \/ r \in gone
    /\ GoTo(r, "wait")
    /\ UNCHANGED <<confVars, authOf, modulesOf, todo, gone, worker, reports>>

\* wg.Wait: every worker has called Done.
NoWait(r) ==
    /\ phase[r] = "wait"
    /\ GoTo(r, "over")
    /\ UNCHANGED <<confVars, authOf, modulesOf, todo, gone, worker, reports>>
CollectReturns(r) ==
    /\ phase[r] = "wait"
    /\ \A w \in Workers : worker[r][w] \in {"failed", "done"}
    /\ GoTo(r, "over")
    /\ UNCHANGED <<confVars, authOf, modulesOf, todo, gone, worker, reports>>

-----------------------------------------------------------------------------
(* The configuration.                                                      *)

\* Somebody edits the file; the new text may be no configuration.
Edit ==
    /\ file.version < MaxEdits
    /\ \E good \in BOOLEAN : file' = [version |-> file.version + 1, good |-> good]
    /\ UNCHANGED <<conf, reloader, asker, tried, hup, hupAt, post, askedAt, scrapeVars>>

NotifyUnbuffered ==
    /\ hup' = IF reloader = "wait" THEN 1 ELSE 0
    /\ hupAt' = file.version
    /\ UNCHANGED <<file, conf, reloader, asker, tried, post, askedAt, scrapeVars>>
\* os/signal drops a signal when the channel is full.
Sighup ==
    /\ hup' = 1 /\ hupAt' = file.version
    /\ UNCHANGED <<file, conf, reloader, asker, tried, post, askedAt, scrapeVars>>

\* reloadConfiguration: `reloadCh <- rc`.
Post(p) ==
    /\ post[p] \in {"idle", "ok", "failed"}
    /\ post' = [post EXCEPT ![p] = "send"]
    /\ askedAt' = [askedAt EXCEPT ![p] = file.version]
    /\ UNCHANGED <<file, conf, reloader, asker, tried, hup, hupAt, scrapeVars>>

\* The select of handleReloadSignals.
ReceiveHup ==
    /\ reloader = "wait" /\ hup = 1
    /\ hup' = 0 /\ reloader' = "load" /\ asker' = Nobody
    /\ UNCHANGED <<file, conf, tried, hupAt, post, askedAt, scrapeVars>>

ReceivePost(p) ==
    /\ reloader = "wait" /\ post[p] = "send"
    /\ post' = [post EXCEPT ![p] = "receive"]
    /\ reloader' = "load" /\ asker' = p
    /\ UNCHANGED <<file, conf, tried, hup, hupAt, askedAt, scrapeVars>>

\* A caller over HTTP gets the outcome; after a SIGHUP it is only logged.
Outcome(o) == IF asker = Nobody THEN "wait" ELSE o

\* ReloadConfig: LoadFile, before the lock is taken.
LoadFile ==
    /\ reloader = "load"
    /\ tried' = file.version
    /\ reloader' = IF file.good THEN "swap" ELSE Outcome("failed")
    /\ UNCHANGED <<file, conf, asker, hup, hupAt, post, askedAt, scrapeVars>>

SwapUnlocked ==
    /\ reloader = "swap"
    /\ conf' = tried /\ reloader' = Outcome("ok")
    /\ UNCHANGED <<file, asker, tried, hup, hupAt, post, askedAt, scrapeVars>>
\* sc.Lock waits for the readers; then sc.C = conf.
Swap ==
    /\ reloader = "swap"
    /\ \A r \in SnmpRequests : phase[r] # "looking"
    /\ conf' = tried /\ reloader' = Outcome("ok")
    /\ UNCHANGED <<file, asker, tried, hup, hupAt, post, askedAt, scrapeVars>>

\* `rc <- err` to every client that waits, instead of the one that asked.
AnswerAll ==
    /\ reloader \in {"ok", "failed"}
    /\ post' = [p \in Posters |-> IF post[p] \in {"send", "receive"} THEN reloader ELSE post[p]]
    /\ reloader' = "wait" /\ asker' = Nobody
    /\ UNCHANGED <<file, conf, tried, hup, hupAt, askedAt, scrapeVars>>
\* `rc <- err`: the client is there, whether its own client is or not.
Answer ==
    /\ reloader \in {"ok", "failed"}
    /\ post' = [post EXCEPT ![asker] = reloader]
    /\ reloader' = "wait" /\ asker' = Nobody
    /\ UNCHANGED <<file, conf, tried, hup, hupAt, askedAt, scrapeVars>>

-----------------------------------------------------------------------------
WorkerStep(r, w) == Connect(r, w) \/ ProcessModule(r, w) \/ WorkerEnds(r, w)

CollectStep(r) ==
    \/ StopDispatch(r) \/ CollectReturns(r)
    \/ \E w \in Workers, m \in Modules : Send(r, w, m)

ReloadStep ==
    \/ ReceiveHup \/ LoadFile \/ Swap \/ Answer
    \/ \E p \in Posters : ReceivePost(p)

SnmpNext ==
    \/ \E r \in SnmpRequests :
          \/ LookUpAuth(r) \/ LookUpModules(r) \/ HangUp(r) \/ CollectStep(r)
          \/ \E w \in Workers : WorkerStep(r, w)
    \/ Edit \/ Sighup \/ \E p \in Posters : Post(p)
    \/ ReloadStep

SnmpSpec == SnmpInit /\ [][SnmpNext]_snmpVars

\* Goroutines run and SNMP requests end, by an answer or by their timeout.  No
\* client need ever hang up, and nobody need ask for a reload.
FairSnmpSpec ==
    /\ SnmpSpec
    /\ WF_snmpVars(ReloadStep)
    /\ \A r \in SnmpRequests :
          /\ WF_snmpVars(LookUpModules(r)) /\ WF_snmpVars(CollectStep(r))
          /\ \A w \in Workers : WF_snmpVars(WorkerStep(r, w))

-----------------------------------------------------------------------------
SnmpTypeOK ==
    /\ file \in [version : 0 .. MaxEdits, good : BOOLEAN]
    /\ conf \in 0 .. MaxEdits /\ tried \in 0 .. MaxEdits
    /\ reloader \in {"wait", "load", "swap", "ok", "failed"}
    /\ asker \in Posters \cup {Nobody}
    /\ hup \in {0, 1} /\ hupAt \in 0 .. MaxEdits
    /\ post \in [Posters -> {"idle", "send", "receive", "ok", "failed"}]
    /\ askedAt \in [Posters -> 0 .. MaxEdits]
    /\ phase \in [SnmpRequests -> Phases]
    /\ authOf \in [SnmpRequests -> 0 .. MaxEdits]
    /\ modulesOf \in [SnmpRequests -> 0 .. MaxEdits]
    /\ todo \in [SnmpRequests -> SUBSET Modules]
    /\ gone \in SUBSET SnmpRequests
    /\ worker \in [SnmpRequests -> [Workers -> WorkerStates \cup Modules]]
    /\ reports \in [SnmpRequests -> [Modules -> Nat]]

\* A scrape reports each of its modules once, whichever worker it meets, and a
\* Collect that was not cancelled returns only when it has reported them all.
Gather == INSTANCE ScatterGather WITH
    Gatherers <- SnmpRequests, Items <- Modules, cancelled <- gone,
    over <- {r \in SnmpRequests : phase[r] = "over"}
IsScatterGather == Gather!SGSpec

\* A scrape uses the auth and the modules of one version of the configuration,
\* also when a reload comes between the two lookups.
OneConfiguration ==
    \A r \in SnmpRequests :
        phase[r] \in {"dispatch", "wait", "over"} => authOf[r] = modulesOf[r]

\* A POST that is answered without an error reloaded the file as it was when it
\* was sent, or a later version: never the result of somebody else's reload that
\* had read the file before.
OkMeansLoaded == \A p \in Posters : post[p] = "ok" => conf >= askedAt[p]

\* A SIGHUP is never lost, also when it comes during a reload or right behind
\* another one: the file is read at least as it was when it was sent.
HupTakesEffect == \A v \in 1 .. MaxEdits : hupAt >= v ~> tried >= v

NoneConnected(r) == \A w \in Workers : worker[r][w] = "failed"

\* Every scrape ends, except one whose workers all failed to connect while there
\* was a module to hand out: it ends when its client hangs up, not before.
ScrapeEnds ==
    \A r \in SnmpRequests :
        /\ phase[r] = "dispatch" ~> phase[r] = "over" \/ NoneConnected(r)
        /\ phase[r] = "dispatch" /\ r \in gone ~> phase[r] = "over"
=============================================================================
