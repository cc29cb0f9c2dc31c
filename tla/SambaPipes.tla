----------------------------- MODULE SambaPipes -----------------------------
(***************************************************************************)
(* The two halves of samba_exporter and the named pipes between them.      *)
(*                                                                         *)
(* A scrape (or the Describe call made at registration) runs               *)
(* GetSambaStatus.  It starts one "front" goroutine per table, each of     *)
(* which starts one "worker" goroutine that performs the request/response  *)
(* exchange under requestMux, and waits for it no longer than the request  *)
(* timeout.  The daemon (Getstatus) runs in the same process: it reads     *)
(* requests, queues them, and answers each one in a goroutine of its own.  *)
(*                                                                         *)
(* A job <<c, t>> is the front and the worker that call c starts for       *)
(* table t.                                                                *)
(***************************************************************************)
EXTENDS Integers, Sequences, FiniteSets

CONSTANTS
    RequestTypes,  \* the tables asked for: LOCK, PROCESS, SHARE and PS requests
    MaxCalls,      \* bound: calls of GetSambaStatus in a behaviour
    IOErrors,      \* may opening, reading or writing a pipe fail?
    Finalizers,    \* may the collector close the last descriptors of a pipe?
    NoType,        \* the type of the empty message
    NoJob          \* requestMux is free

ASSUME MaxCallsAssumption == MaxCalls \in Nat
ASSUME SwitchAssumption == IOErrors \in BOOLEAN /\ Finalizers \in BOOLEAN

Calls == 1 .. MaxCalls
Jobs  == Calls \X RequestTypes

ASSUME NoTypeAssumption == NoType \notin RequestTypes
ASSUME NoJobAssumption == NoJob \notin Jobs

JobsOf(c) == {c} \X RequestTypes

\* A telegram on the request pipe; Clear is the empty string, written to
\* "clear" the request pipe after a timeout.
Request(t, i) == [type |-> t, id |-> i]
Clear         == [type |-> NoType, id |-> 0]
Messages      == [type : RequestTypes \cup {NoType}, id : Nat]

VARIABLES
    calls,         \* how many calls of GetSambaStatus have begun
    collecting,    \* collectMux is held: the last of them is still running
    callErr,       \* the error each call returned ("none": it has not returned)
    front,         \* where each front goroutine is
    frontErr,      \* the error it is about to send ("nil": it got its table)
    errBuf,        \* the errinfo channel of each call, of capacity 1
    worker,        \* where each worker goroutine is
    result,        \* resultChan of each job, of capacity 1
    sentId,        \* the id a worker wrote, 0 before
    gotId,         \* the id of the response it accepted, 0 before
    requestMux,    \* the job whose worker holds requestMux, or NoJob
    requestCount,
    reqPipe,       \* bytes in the request pipe, as a sequence of messages
    respPipe,      \* bytes in the response pipe
    daemon,        \* where Getstatus is
    received,      \* the telegram it read last
    requestQueue,
    spawned,       \* goHandleRequestQueue goroutines that have not pulled yet
    handling,      \* requests whose handler is producing the response
    up             \* the process runs

callVars   == <<calls, collecting, callErr>>
frontVars  == <<front, frontErr, errBuf>>
workerVars == <<worker, result, sentId, gotId, requestMux, requestCount>>
daemonVars == <<daemon, received, requestQueue, spawned, handling>>
pipeVars   == <<reqPipe, respPipe>>
vars == <<callVars, frontVars, workerVars, daemonVars, pipeVars, up>>

FrontStates  == {"none", "wait", "clear", "err", "done"}
WorkerStates == {"none", "lock", "write", "read", "done"}
Errors       == {"nil", "timeout", "other"}

Init ==
    /\ calls = 0 /\ collecting = FALSE
    /\ callErr = [c \in Calls |-> "none"]
    /\ front = [j \in Jobs |-> "none"]
    /\ frontErr = [j \in Jobs |-> "none"]
    /\ errBuf = [c \in Calls |-> <<>>]
    /\ worker = [j \in Jobs |-> "none"]
    /\ result = [j \in Jobs |-> "none"]
    /\ sentId = [j \in Jobs |-> 0]
    /\ gotId = [j \in Jobs |-> 0]
    /\ requestMux = NoJob /\ requestCount = 0
    /\ reqPipe = <<>> /\ respPipe = <<>>
    /\ daemon = "off" /\ received = Clear
    /\ requestQueue = <<>> /\ spawned = 0 /\ handling = {}
    /\ up = TRUE

-----------------------------------------------------------------------------
(* The caller: Describe (the first call) and then Collect.                 *)

\* collectMux.Lock and the four `go func()` of GetSambaStatus; each front at
\* once starts its worker and its timer.
StartCall ==
    /\ up /\ ~collecting /\ calls < MaxCalls
    /\ calls' = calls + 1
    /\ collecting' = TRUE
    /\ front' = [j \in Jobs |-> IF j \in JobsOf(calls + 1) THEN "wait" ELSE front[j]]
    /\ worker' = [j \in Jobs |-> IF j \in JobsOf(calls + 1) THEN "lock" ELSE worker[j]]
    /\ UNCHANGED <<callErr, frontErr, errBuf, result, sentId, gotId, requestMux,
                   requestCount, daemonVars, pipeVars, up>>

\* The first call is Describe, which panics on an error.  (Its other panic, on no
\* statistics, needs a nil list, and GetSmbStatistics always returns its counts.)
PanicsOn(c, err) == c = 1 /\ err # "nil"

\* The caller has received the four tables and takes ONE value of errinfo.
ReturnCall ==
    /\ up /\ collecting
    /\ \A j \in JobsOf(calls) : front[j] \in {"err", "done"}
    /\ errBuf[calls] # <<>>
    /\ callErr' = [callErr EXCEPT ![calls] = Head(errBuf[calls])]
    /\ errBuf' = [errBuf EXCEPT ![calls] = Tail(@)]
    /\ collecting' = FALSE
    /\ up' = ~PanicsOn(calls, Head(errBuf[calls]))
    /\ UNCHANGED <<calls, front, frontErr, workerVars, daemonVars, pipeVars>>

\* What a Collect with this error publishes: no metric at all, or metrics with
\* satutsd_up 0, or metrics with satutsd_up 1.
Published(err) ==
    CASE err = "nil"     -> "up"
      [] err = "timeout" -> "down"
      [] err = "other"   -> "nothing"
      [] err = "none"    -> "nothing"

-----------------------------------------------------------------------------
(* The fronts: getSmbStatusDataTimeOut and the sends of GetSambaStatus.    *)
(* A front at "err" has sent its table (or nil).                           *)

\* `case res := <-resultChan`; then the table (or nil) goes to the job's own
\* channel of capacity 1, which never blocks.
FrontResult(j) ==
    /\ up /\ front[j] = "wait" /\ result[j] # "none"
    /\ front' = [front EXCEPT ![j] = "err"]
    /\ frontErr' = [frontErr EXCEPT ![j] = IF result[j] = "data" THEN "nil" ELSE "other"]
    /\ UNCHANGED <<callVars, errBuf, workerVars, daemonVars, pipeVars, up>>

\* `case <-time.After(...)`: the worker is left to itself.
NoTimer(j) == FALSE
TimeoutCancelsWorker(j) ==
    /\ up /\ front[j] = "wait"
    /\ front' = [front EXCEPT ![j] = "clear"]
    /\ frontErr' = [frontErr EXCEPT ![j] = "timeout"]
    /\ worker' = [worker EXCEPT ![j] = "done"]
    /\ requestMux' = IF requestMux = j THEN NoJob ELSE requestMux
    /\ UNCHANGED <<result, sentId, gotId, requestCount, callVars, errBuf, daemonVars,
                   pipeVars, up>>
FrontTimeout(j) ==
    /\ up /\ front[j] = "wait"
    /\ front' = [front EXCEPT ![j] = "clear"]
    /\ frontErr' = [frontErr EXCEPT ![j] = "timeout"]
    /\ UNCHANGED <<callVars, errBuf, workerVars, daemonVars, pipeVars, up>>

\* WritePipeString("") behind whatever the pipe holds; a failure is logged.
\* Then nil goes to the job's channel.
FrontClear(j) ==
    /\ up /\ front[j] = "clear"
    /\ front' = [front EXCEPT ![j] = "err"]
    /\ \/ reqPipe' = Append(reqPipe, Clear)
       \/ IOErrors /\ UNCHANGED reqPipe
    /\ UNCHANGED <<callVars, frontErr, errBuf, workerVars, daemonVars, respPipe, up>>

\* The error (or nil) goes to errinfo: capacity 1, shared by all the fronts of
\* the call, and read once.
OnePerFront == Cardinality(RequestTypes)
ErrinfoCapacity == 1

NilForAny(e) == "nil"
SentErr(e) == e
FrontSendErr(j) ==
    /\ up /\ front[j] = "err"
    /\ Len(errBuf[j[1]]) < ErrinfoCapacity
    /\ front' = [front EXCEPT ![j] = "done"]
    /\ errBuf' = [errBuf EXCEPT ![j[1]] = Append(@, SentErr(frontErr[j]))]
    /\ UNCHANGED <<callVars, frontErr, workerVars, daemonVars, pipeVars, up>>

-----------------------------------------------------------------------------
(* The workers: getSmbStatusData, "only one request per time on the pipes".*)

\* requestMux.Lock, and its Unlock deferred to every return
AnyMayEnter == TRUE
MayEnter == requestMux = NoJob
StillLocked(j) == j
AfterReturn(j) == NoJob

\* requestMux.Lock and requestCount++
WorkerLock(j) ==
    /\ up /\ worker[j] = "lock" /\ MayEnter
    /\ requestMux' = j
    /\ requestCount' = requestCount + 1
    /\ worker' = [worker EXCEPT ![j] = "write"]
    /\ UNCHANGED <<result, sentId, gotId, callVars, frontVars, daemonVars, pipeVars, up>>

WorkerWrite(j) ==
    /\ up /\ worker[j] = "write"
    /\ reqPipe' = Append(reqPipe, Request(j[2], requestCount))
    /\ sentId' = [sentId EXCEPT ![j] = requestCount]
    /\ worker' = [worker EXCEPT ![j] = "read"]
    /\ UNCHANGED <<result, gotId, requestMux, requestCount, callVars, frontVars,
                   daemonVars, respPipe, up>>

\* CheckResponseHeader: the type is a prefix of the header, and the header
\* contains "Response for request <id>", which the header of any id that
\* begins with the same digits does too (ids below 10000).
SameType(m, t, i) == m.type = t
CheckResponseHeader(m, t, i) ==
    /\ m.type = t
    /\ i \in {m.id, m.id \div 10, m.id \div 100, m.id \div 1000}

\* The reader returns the first message; its buffer, and with it whatever else
\* the pipe held, is thrown away.  The deferred Unlock releases requestMux.
WorkerRead(j) ==
    LET m  == Head(respPipe)
        ok == CheckResponseHeader(m, j[2], requestCount)
    IN  /\ up /\ worker[j] = "read" /\ respPipe # <<>>
        /\ respPipe' = <<>>
        /\ result' = [result EXCEPT ![j] = IF ok THEN "data" ELSE "error"]
        /\ gotId' = [gotId EXCEPT ![j] = IF ok THEN m.id ELSE 0]
        /\ worker' = [worker EXCEPT ![j] = "done"]
        /\ requestMux' = AfterReturn(j)
        /\ UNCHANGED <<sentId, requestCount, callVars, frontVars, daemonVars,
                       reqPipe, up>>

\* errWrite or errRead: the error is the result and requestMux is released,
\* after a failed read with the request still under way.
WorkerError(j) ==
    /\ up /\ IOErrors /\ worker[j] \in {"write", "read"}
    /\ result' = [result EXCEPT ![j] = "error"]
    /\ worker' = [worker EXCEPT ![j] = "done"]
    /\ requestMux' = AfterReturn(j)
    /\ UNCHANGED <<sentId, gotId, requestCount, callVars, frontVars, daemonVars,
                   pipeVars, up>>

-----------------------------------------------------------------------------
(* The daemon: the loop of Getstatus and its handler goroutines.           *)

\* The early returns of Getstatus (not root, no smbstatus) are the behaviours
\* in which this step is never taken.
DaemonStart ==
    /\ up /\ daemon = "off"
    /\ daemon' = "read"
    /\ UNCHANGED <<callVars, frontVars, workerVars, received, requestQueue, spawned,
                   handling, pipeVars, up>>

\* WaitForPipeInputString: the first message is returned, what was buffered
\* behind it is thrown away with the reader.
NothingRead(s) == Clear
FirstRead(s) == Head(s)
DaemonRead ==
    /\ up /\ daemon = "read" /\ reqPipe # <<>>
    /\ received' = FirstRead(reqPipe)
    /\ reqPipe' = <<>>
    /\ daemon' = "push"
    /\ UNCHANGED <<callVars, frontVars, workerVars, requestQueue, spawned, handling,
                   respPipe, up>>

\* `return -1`
DaemonReadError ==
    /\ up /\ IOErrors /\ daemon = "read"
    /\ daemon' = "stopped"
    /\ UNCHANGED <<callVars, frontVars, workerVars, received, requestQueue, spawned,
                   handling, pipeVars, up>>

PushNonEmpty ==
    /\ up /\ daemon = "push"
    /\ requestQueue' = requestQueue \o (IF received = Clear THEN <<>> ELSE <<received>>)
    /\ received' = Clear
    /\ daemon' = "spawn"
    /\ UNCHANGED <<callVars, frontVars, workerVars, spawned, handling, pipeVars, up>>

DaemonPush ==
    /\ up /\ daemon = "push"
    /\ requestQueue' = Append(requestQueue, received)
    /\ received' = Clear
    /\ daemon' = "spawn"
    /\ UNCHANGED <<callVars, frontVars, workerVars, spawned, handling, pipeVars, up>>

DaemonSpawn ==
    /\ up /\ daemon = "spawn"
    /\ spawned' = spawned + 1
    /\ daemon' = "read"
    /\ UNCHANGED <<callVars, frontVars, workerVars, received, requestQueue, handling,
                   pipeVars, up>>

\* A handler pulls the oldest request; an empty queue is os.Exit(-8), an empty
\* string is ignored.
HandlerPull ==
    /\ up /\ spawned > 0
    /\ spawned' = spawned - 1
    /\ IF requestQueue = <<>>
       THEN up' = FALSE /\ UNCHANGED <<requestQueue, handling>>
       ELSE /\ requestQueue' = Tail(requestQueue)
            /\ handling' = handling \cup ({Head(requestQueue)} \ {Clear})
            /\ UNCHANGED up
    /\ UNCHANGED <<callVars, frontVars, workerVars, daemon, received, pipeVars>>

\* smbstatus has answered and the response is written, all of it.
HandlerRespond(m) ==
    /\ up
    /\ respPipe' = Append(respPipe, m)
    /\ handling' = handling \ {m}
    /\ UNCHANGED <<callVars, frontVars, workerVars, daemon, received, requestQueue,
                   spawned, reqPipe, up>>

\* smbstatus failed: os.Exit(-4); or the write did: os.Exit(-2).
HandlerExit(m) ==
    /\ up
    /\ up' = FALSE
    /\ handling' = handling \ {m}
    /\ UNCHANGED <<callVars, frontVars, workerVars, daemon, received, requestQueue,
                   spawned, pipeVars>>

\* No file of the pipes is ever closed explicitly: when the finalizers of all
\* the descriptors of a pipe have run, the kernel drops what it holds.
DropRequests ==
    /\ up /\ Finalizers /\ reqPipe # <<>>
    /\ reqPipe' = <<>>
    /\ UNCHANGED <<callVars, frontVars, workerVars, daemonVars, respPipe, up>>

DropResponses ==
    /\ up /\ Finalizers /\ respPipe # <<>>
    /\ respPipe' = <<>>
    /\ UNCHANGED <<callVars, frontVars, workerVars, daemonVars, reqPipe, up>>

-----------------------------------------------------------------------------
Caller == StartCall \/ ReturnCall

FrontStep(j) == FrontResult(j) \/ FrontClear(j) \/ FrontSendErr(j)

WorkerStep(j) == WorkerLock(j) \/ WorkerWrite(j) \/ WorkerRead(j)

DaemonStep == DaemonRead \/ DaemonPush \/ DaemonSpawn

HandlerStep == HandlerPull \/ \E m \in handling : HandlerRespond(m) \/ HandlerExit(m)

Fault == DropRequests \/ DropResponses \/ DaemonReadError \/ \E j \in Jobs : WorkerError(j)

\* Everything but the timers.
PatientNext ==
    \/ Caller
    \/ \E j \in Jobs : FrontStep(j) \/ WorkerStep(j)
    \/ DaemonStart \/ DaemonStep \/ HandlerStep
    \/ Fault

Next == PatientNext \/ \E j \in Jobs : FrontTimeout(j)

Spec == Init /\ [][Next]_vars

\* The Go scheduler runs every goroutine that can go on, and time.After fires.
\* Nothing makes the daemon start (it may have returned early) nor smbstatus
\* finish.
FairSpec ==
    /\ Spec
    /\ WF_vars(ReturnCall)
    /\ \A j \in Jobs : WF_vars(FrontStep(j)) /\ WF_vars(FrontTimeout(j))

\* No timer is ever the first, the daemon starts and smbstatus finishes.
PatientSpec ==
    /\ Init /\ [][PatientNext]_vars
    /\ WF_vars(Caller) /\ WF_vars(DaemonStart) /\ WF_vars(DaemonStep)
    /\ WF_vars(HandlerStep)
    /\ \A j \in Jobs : WF_vars(FrontStep(j)) /\ WF_vars(WorkerStep(j))

-----------------------------------------------------------------------------
(* Properties.                                                             *)

Elements(s) == {s[i] : i \in DOMAIN s}

TypeOK ==
    /\ calls \in 0 .. MaxCalls /\ collecting \in BOOLEAN
    /\ callErr \in [Calls -> Errors \cup {"none"}]
    /\ front \in [Jobs -> FrontStates]
    /\ frontErr \in [Jobs -> Errors \cup {"none"}]
    /\ errBuf \in [Calls -> {<<>>} \cup {<<e>> : e \in Errors}]
    /\ worker \in [Jobs -> WorkerStates]
    /\ result \in [Jobs -> {"none", "data", "error"}]
    /\ sentId \in [Jobs -> Nat] /\ gotId \in [Jobs -> Nat]
    /\ requestMux \in Jobs \cup {NoJob}
    /\ requestCount \in Nat
    /\ reqPipe \in Seq(Messages) /\ respPipe \in Seq(Messages)
    /\ daemon \in {"off", "read", "push", "spawn", "stopped"}
    /\ received \in Messages /\ requestQueue \in Seq(Messages)
    /\ spawned \in Nat
    /\ handling \subseteq Messages
    /\ up \in BOOLEAN

\* The requests and responses that are somewhere between the worker that wrote
\* the request and the worker that will read the response.
InFlight ==
    (Elements(reqPipe) \cup {received} \cup Elements(requestQueue) \cup handling
        \cup Elements(respPipe)) \ {Clear}

\* "Ensure we run only one request per time on the pipes": without I/O errors,
\* whatever is in flight is the current request of the worker that holds
\* requestMux and waits for the answer, even when fronts have timed out, the
\* pipes lost data and several calls have left workers behind.
OneAtATime ==
    ~IOErrors =>
        \A m \in InFlight : /\ requestMux # NoJob
                            /\ worker[requestMux] = "read"
                            /\ m = Request(requestMux[2], requestCount)

\* The header check keeps late answers out: a table is only ever made from the
\* response to the request its own worker wrote, also after I/O errors made a
\* worker give up on a request the daemon still answers.
OwnAnswer == \A j \in Jobs : result[j] = "data" => gotId[j] = sentId[j] /\ sentId[j] # 0

\* os.Exit(-8) is dead code: there is a queued telegram for every handler
\* goroutine that has yet to pull one, the empty telegrams included.
QueueCoversHandlers == up => spawned <= Len(requestQueue)

\* The worker that holds requestMux waits for an answer nobody will give.
Wedged ==
    /\ up /\ requestMux # NoJob
    /\ worker[requestMux] = "read"
    /\ InFlight = {}

\* As long as no I/O fails and no pipe is emptied by its last descriptor being
\* closed, only a timeout can lose a request: its empty telegram can be in the pipe
\* in front of the request, which the daemon then throws away with its reader.
LossNeedsTimeout ==
    ~IOErrors /\ ~Finalizers /\ Wedged => \E j \in Jobs : frontErr[j] = "timeout"

\* One lost request is the end: without I/O errors no step but the exit of the
\* process leaves the wedge, and no table of any call arrives any more.
WedgeIsPermanent ==
    [][~IOErrors /\ Wedged => (Wedged' \/ ~up') /\ result' = result]_vars

\* errinfo holds one error and is read once: of the fronts of a call at most two
\* ever finish, at most one before the call returns; the others stay blocked in
\* their send for as long as the process runs.
FrontsLeftBehind ==
    \A c \in Calls :
        Cardinality({j \in JobsOf(c) : front[j] = "done"}) <=
            (IF callErr[c] = "none" THEN 1 ELSE 2)

\* A scrape is reported up only if some table of that scrape arrived, and down
\* only if some table timed out.
PublishedForAReason ==
    \A c \in Calls :
        /\ Published(callErr[c]) = "up" => \E j \in JobsOf(c) : result[j] = "data"
        /\ Published(callErr[c]) = "down" => \E j \in JobsOf(c) : frontErr[j] = "timeout"

\* Whatever the daemon does, a scrape ends: the timers see to it.
EveryCallReturns == collecting ~> (~collecting \/ ~up)

\* With no timer and nothing lost, the exchange itself never gets stuck: every
\* worker that asks for requestMux gets the data of its table.
EveryWorkerServed ==
    \A j \in Jobs : worker[j] = "lock" ~> (result[j] = "data" \/ ~up)

\* "Add request to the queue and process the request in own thread": no request
\* disappears between the pipe and its response.  (Refuted: see LossNeedsTimeout.)
NoRequestLost == ~Wedged

\* "Get all data tables from samba_statusd": a call that returns no error has
\* every table.  (Refuted: the error is that of the first front to finish.)
NilErrorMeansAllTables ==
    \A c \in Calls : callErr[c] = "nil" => \A j \in JobsOf(c) : frontErr[j] = "nil"

=============================================================================
