# uos-exporter in TLA+

TLA+ specifications of the parts of uos-exporter in which something can go
wrong that a unit test would hardly reach: goroutines that share channels and
locks, timeouts, pipes, signals, and files that are renamed while the process
may die. The modules are checked with TLC and their main safety properties
proved with TLAPS.

All paths below are relative to `src/`.

## 1. The system

uos-exporter is about 55 Prometheus exporters, `*_exporter/`, one Go module
each, grown from one skeleton. A process has these parts:

| part | where (samba_exporter) | state | operations |
|---|---|---|---|
| start and stop | `exporter.go` Run, `main.go`, `internal/server/server.go` SetUp, Run, Stop, Exit | ExitSignal channel, `sync.Once`, `s.Error`, `http.Server` | start, listen, stop with a deadline of 1 s, exit status |
| signals | `pkg/utils/signal.go` HandleSignals | a channel of capacity 1 | wait for one signal, call Exit |
| request path | `server.go` ServeHTTP, `request.go`, `ratelimit_middlware.go` | handler chain | limit, collect, answer |
| rate limiter | `pkg/ratelimit/ratelimit.go` | channel of tokens, ticker, refresh goroutine | Get, refresh, Stop |
| collectors | `internal/exporter/registry.go`, `internal/metrics/*` | differs | Describe, Collect |
| logger | `pkg/logger/filerotator.go`, `logger.go` | a file, its backups, the size of the file | Write, rotate, Close |
| configuration, pages | `config/`, `internal/exporter/config.go`, `landpage.go`, `head.go` | read once, or constant | none after the start |

How they interact: `net/http` runs ServeHTTP in a goroutine per connection; it
takes a token from the limiter, calls the registry, and the registry calls
every collector. `os/signal` sends to the channel of HandleSignals, whose
goroutine calls Exit, as does the goroutine that listens; main waits for the
ExitSignal channel and then stops the server. Every part logs, and logrus calls
Write of the rotator with a mutex held.

Of the collectors most are single-shot: read a file, run a command or call an
API, and turn the answer into metrics. A few keep state between scrapes or run
goroutines of their own:

* **samba_exporter** is two programs in one process. The exporter half writes
  requests into a named pipe and reads answers from another; the daemon half
  (`Getstatus`) reads the requests, queues them and answers each in a goroutine.
  Four requests per scrape, timeouts, a mutex that is held until the answer
  comes, and a buffered reader that is made anew for every read.
* **snmp_exporter**: a request looks up its auth and modules under a read lock and
  hands the modules to a pool of workers, each with a connection of its own that
  may fail. One goroutine reloads the configuration, asked by SIGHUP or by a POST.
* **mongodb_exporter** has one client, handed out by a pool under a mutex. Seventeen
  collectors use it one after the other; a health check, or a scrape, pings it and
  replaces it; one collector disconnects it when it is done.
* **ping_exporter** resolves each name every minute in a goroutine and keeps the
  addresses of the target and those in the monitor in step.
* **smartctl_exporter** remembers what smartctl said about each device and asks
  again when that is too old, in a goroutine per device.
* **prometheus_paperless_exporter** remembers for each log the position up to which
  it has counted the entries. (The package does not build at this commit, since
  `user.go` and `correspondent.go` are stubs; `log.go` is complete.)
* **node_storage_exporter** calls statfs in four workers between two unbuffered
  channels; statfs may hang.
* **node_utility_exporter** has collectors that keep what they read for minutes,
  behind an RWMutex each.

In some exporters the code that would be of interest cannot run at this commit.
54 files hold only `// TODO: implement functions`. The metric keys and the mtr
cache of network_exporter are called by nobody, as its entry points are among
them; rabbitmq_cli_consumer_exporter does not compile without its consumer;
bmc_exporter has no `internal/exporter`.

What is hard: every interleaving of the samba goroutines with their timers; a
request that disappears in a reader; late answers; a shutdown in which signals,
a listen error and requests race; a rotation that fails or dies half way; a
window of time in which a limiter lets through more than its size; a client, a
configuration or a cache that another goroutine replaces while it is in use;
workers, feeders and collectors that wait for each other.

What makes each part correct:

* pipes: an answer belongs to the question, a scrape reports what happened, a
  call always returns, one failure does not end the service;
* limiter: bounded admission in every window, recovery, silence after Stop;
* process: a signal ends it, gracefully when it says so, and the exit status
  tells a failure;
* logger: order, bounded space, only the oldest messages lost;
* collectors that scatter their work: every item reported once, and an end;
* shared state of scrapes: one version of the configuration per scrape, one
  connection per pool, a monitor that pings what is recorded, a command run once
  per interval, an entry counted once, and caches that neither jam nor go back.

## 2. Modules

| module | models | uses |
|---|---|---|
| `SambaPipes` | the pipe exchange of samba_exporter | |
| `TokenBucket` | abstract: what a limiter promises | |
| `RateLimiter` | `pkg/ratelimit` | refines `TokenBucket` |
| `ExporterServer` | start, signals, request path, stop | extends `RateLimiter` |
| `RotatedLog` | abstract: what a rotated log promises | |
| `FileRotator` | `pkg/logger/filerotator.go` | refines `RotatedLog` |
| `ScatterGather` | abstract: a scrape that spreads its work over goroutines | |
| `SnmpExporter` | scrape and reload of snmp_exporter | refines `ScatterGather` |
| `FilesystemStats` | GetStats of node_storage_exporter | refines `ScatterGather` |
| `MongoPool` | the client pool of mongodb_exporter | |
| `PingTargets` | one target of ping_exporter | |
| `DeviceCache` | the cache of smartctl_exporter | |
| `PaperlessLogs` | the log positions of the paperless exporter | |
| `UtilityCaches` | the caches of node_utility_exporter | |
| `MCSambaPipes`, `MCExporterServer`, `MCFileRotator`, `MCMongoPool` | instances for TLC | |
| `MCCollectors` | the limiter and the seven modules from `SnmpExporter` on, one at a time | all of them |
| `SambaPipesProofs`, `RateLimiterProofs`, `ExporterServerProofs`, `FileRotatorProofs`, `SnmpExporterProofs`, `MongoPoolProofs`, `FilesystemStatsProofs`, `CollectorsProofs` | theorems and proofs | |

In every module a definition that stands right before the action it resembles
(`SendBeyondSize` before `SendToken`, `CopyBase` before `RenameBase`) is a
mutant: a plausible bug in that code. It is not part of any specification.
Replacing the action by it must make TLC refute the property it is listed with
in `PROJECT.json`, which shows that the property depends on the code.

### SambaPipes

One *job* per call and table stands for the two goroutines of
`pipecommunication.go`: a *front* (`getSmbStatusDataTimeOut` and the sends of
`GetSambaStatus`) and a *worker* (`getSmbStatusData`). The first call is the
Describe that registration makes, which panics on an error; the later ones are
Collect.

| variable | code |
|---|---|
| `collecting`, `requestMux`, `requestCount` | the package variables of `pipecommunication.go` |
| `errBuf`, `result` | the channels `errinfo` (capacity 1, shared by the fronts) and `resultChan` |
| `reqPipe`, `respPipe` | the bytes in the two pipes, as sequences of messages |
| `daemon`, `received`, `requestQueue`, `spawned`, `handling` | the loop of `Getstatus`, `StringQueue`, and the goroutines it starts |

A telegram is its type and number. The empty telegram that a timeout writes to
"clear" the pipe is `Clear`. A read returns the first message and discards the
rest of its buffer (`FirstRead`): `pipes.go` makes a `bufio.Reader` per read. The
check of the header is what the code does, a substring test, so that number 1
also matches an answer to number 12; requests are taken to have at most four
digits. `IOErrors` lets every open, read and write of a pipe fail; `Finalizers`
lets the garbage collector close the last descriptors of a pipe, whose contents
the kernel then drops. The empty read that a pipe without a writer can return
is not modelled.

### RateLimiter and TokenBucket

`tokens` is the length of the channel, `tickC` the tick waiting in the ticker's
channel, `refresher` the goroutine, `stopper` how far a call of Stop has come.
Ticks that find `tickC` full and tokens that find the channel full are dropped,
as in the code. `mark` is not code: it remembers an arbitrary moment, the
beginning of the window of `WindowBound`.

### ExporterServer

`main`, `runner` and `watcher` are the three goroutines, `sigc`, `exitSignal`
and `serverError` what they share, `req` how far each request has come.
`ratelimit` is a choice of the initial state: no middleware, a limiter, or a
limiter that NewRateLimiter refused and the code installs nevertheless as a nil
pointer. `own` says that the SIGINT handlers of `samba.go` are installed, which
`InitSambaExporter` starts before main and `Getstatus` once more;
all of them are goroutines, and a test mode or an early return of `Getstatus` leaves
them out, so that they may be there late or never.
`net/http` and `os/signal` are modelled from their use: Shutdown closes the
listener and waits for requests or its deadline, a signal is sent to every
registered channel without blocking and is dropped when the channel is full.

### FileRotator and RotatedLog

File 0 is `basePath` and file i is `basePath.i`. A message has size 1 and is its
own number. Each system call is a step that succeeds, or fails (`Fail`) and makes
Write return; `Restart` is the death of the process at any point and the start
of a new one. `current` is `"closed"` when the `*os.File` is closed and not nil,
which is what a rotation that fails after its Close leaves. Whether a file is
older than maxAge is a free choice each time the code asks; `expired` remembers
that it once was. A failed write may leave a fragment, which counts as a message
in the file but not in `size`. Not modelled: other programs that move the files,
and a Stat that fails although the file is there.

### ScatterGather, SnmpExporter and FilesystemStats

`ScatterGather` says that a scrape reports every item at most once, that it is over
only when it has reported all of them or was cancelled, and nothing after that. In
snmp_exporter the items are the modules of a request and cancelled means that the
client has hung up; in node_storage_exporter they are the mount points that no
expression ignores, and cancelled means that mountinfo could not be read.

| `SnmpExporter` | code |
|---|---|
| `file`, `conf`, `tried` | the configuration file, the version in `sc.C`, and the one LoadFile read last |
| `reloader`, `asker`, `hup`, `post` | where handleReloadSignals is, whom it works for, the channel `hup` of capacity 1, and each client of `/-/reload` |
| `hupAt`, `askedAt` | not code: the version of the file when the reload was asked for |
| `phase`, `authOf`, `modulesOf` | how far a request is, and where its auth and modules come from |
| `todo`, `worker`, `reports`, `gone` | dispatchModules, the workers with the module in hand, what reached the registry, the context |

The requests to a device and the decoding of its answers are one step, which
reports the module as metrics or as an error. The counters of packets and retries
are left out; they are passed by value and always shown as 0.

`FilesystemStats` has the goroutine that reads mountinfo (`feeder`, `unread`), the
workers (`statWorker`) and what the scrape has received (`stats`). A mount in
`hung` is one whose statfs does not return.

### MongoPool

`mu`, `pooled` and `fresh` are the mutex of the pool, its client, and the one that
reconnect has made and not stored yet; `user` is where a scrape or the health check
is, `client` what GetClient returned to a scrape, `at` its collector. The seventeen
collectors are of three kinds: the one that reports mongodb_up, the one that defers
a Disconnect, and the others. A client is alive while the server is up and nobody
has called Disconnect on it (`connected`). The metrics of the pool itself are left
out.

### PingTargets

`holder` is the mutex of the target, `updater` what each goroutine of a refresh
does, with `resolved`, `pending` and `added` its local sets; `recorded` is
`target.addresses`, `monitored` what the monitor pings, `shown` the metrics of the
last scrape. `orphans` is not code: addresses that a goroutine had added when the
monitor refused another one. The targets have different names and share no address.

### DeviceCache

`scanned` is the type that `smartctl --scan` gave, `cache` and `age` are the fields
of jsonCache, `running` the goroutines of refreshAllDevices. The exit status and
messages of smartctl may refuse an answer; an output that is empty or no JSON is
read as `{}`, and stored.

### PaperlessLogs

An entry is its number and `place` what a logPosition holds of it. A scrape fetches
the log (`lowest`, `newest`: what is in it) and then takes the mutex and counts the
entries behind `seen`, in one step. Any two entries may share a place.

### UtilityCaches

`cached` is the version of the files in each cache, `old` whether its time stamp has
expired, `writer` who has asked for the write lock, `atCache` and `step` where a
scrape is; its read locks follow from `step`. An RWMutex that a writer waits for
admits no reader, and its Unlock admits those that wait. `found` and `haveRead` are
the versions that were cached when the scrape looked and that it read; the first is
not code. The text files have nothing to read: their paths are copied from the flag
in `init`, before the command line is parsed. That is also why `sysctl`, which does
the same with its names, is left out.

## 3. What is checked

| run | instance | shows |
|---|---|---|
| `samba_scrape` | 2 tables, 2 calls, fair | `OneAtATime`, `LossNeedsTimeout`, `PublishedForAReason`, `WedgeIsPermanent`, `EveryCallReturns` |
| `samba_faults` | 1 table, 3 calls, I/O errors, lossy pipes | `OwnAnswer`, `QueueCoversHandlers` |
| `samba_patient` | 3 tables, 2 calls, no timeouts, fair | `FrontsLeftBehind`, `EveryWorkerServed` |
| `samba_lost` | 2 tables, 2 calls | refutes `NoRequestLost` |
| `samba_nil` | 2 tables, 1 call | refutes `NilErrorMeansAllTables` |
| `server` | 2 requests, 2 signals, 1 token, fair | `OneTokenPerScrape`, `GracefulServesAll`, `ListenErrorReported`, `CrashNeedsTwoSignals`, `SignalEnds` |
| `server_crash` | 1 request, 2 signals | refutes `NeverCrashes` |
| `server_cut` | 1 request, 1 signal | refutes `ExitsClean` |
| `rotator` | 4 files, 9 messages, 1 failure, 1 death | `Chronological`, `OnlyOldestLost`, `FilesBounded`, `Retention`, `WedgedForGood`, and the refinement `IsRotatedLog` |
| `collectors` | see below | `TypesOK` for all its machines, and of the |
| | limiter | `WindowBound`, `NoGrantAfterStop`, `Refilled`, the refinement `IsTokenBucket` |
| | snmp_exporter | `OneConfiguration`, `OkMeansLoaded`, `HupTakesEffect`, `ScrapeEnds`, the refinement `IsScatterGather` |
| | mongodb_exporter | `CrashNeedsOutage`, `OneConnection`, `PoolRecovers` |
| | ping_exporter | `MonitorIsRecorded` |
| | smartctl_exporter | `OncePerInterval` |
| | paperless exporter | `CountedOnce`, `NoneMissed` |
| | node_storage_exporter | `StatsGathered`, which holds a refinement of `ScatterGather` |
| | node_utility_exporter | `OnlyTextfilesJam`, `BackOnlyIfOverlapped` |
| `mongo_up` | 2 scrapes and the health check | refutes `UpIsTrue` |
| `smartctl_scsi` | 2 scrapes, 2 devices | refutes `ScsiIsScraped` |

The parts in `collectors` share nothing, so their product would show no more than
each of them. `MCCollectors` puts them side by side instead: the variable `machine`
names the one that moves in a behaviour while the others rest in an initial state,
and the run has the sum of their states. Requests and reloads of snmp_exporter are
two machines: in `snmp` reloads come by SIGHUP while a request is served, in
`reload` by SIGHUP and POST with no request, because the ways to ask meet only in
the reload goroutine.

No run checks for deadlock, since each of the systems may stop: the calls,
ticks, signals or messages of the instance are used up, the process exits, or a
worker waits for ever, which is one of the results.

### Results for the pipes

Without failing I/O there is never more than one request under way, and it is
the one whose worker holds `requestMux` (`OneAtATime`); so nobody reads the answer
to another's question. With failing I/O late answers
do arrive, and the header check keeps them out (`OwnAnswer`). No handler finds
the queue empty, which would end the process with -8 (`QueueCoversHandlers`).

A timeout writes an empty telegram. When it stands in the pipe before the next
request, one read of the daemon returns the one and discards the other:
`samba_lost` shows it. Besides failing I/O and pipes whose contents are dropped with
their last descriptor (`Finalizers`) it is the only way to lose a request
(`LossNeedsTimeout`), and it is final: the worker keeps `requestMux`, no step of
any goroutine takes it away, and no table arrives again (`WedgeIsPermanent`),
while every scrape still returns after its timeout (`EveryCallReturns`).

The four fronts of a call share a channel for one error, read once. So the call
returns the error of the first front to finish, `nil` although tables are missing
(`samba_nil`); still a scrape never says *up* without a table, nor *down* without
a timeout (`PublishedForAReason`). All but two fronts of each call block for ever
(`FrontsLeftBehind`), even when nothing goes wrong: a leak of two goroutines per
scrape.

### Results for limiter, process and logger

A window of t ticks lets at most Size + 2 + t requests through: the two are a
tick in the ticker's channel and one in the hands of the goroutine. A Stop that
has returned is final, although a Get during Stop may still be granted a token
that was left in the closed channel.

Exactly one token is paid per scrape, a stop that logs "gracefully" cut nothing
off, a listen error reaches the exit status, and a received signal ends the
process although a collector hangs. A second signal panics (`server_crash`):
`HandleSignals` closes its channel without `signal.Stop`. A SIGINT in
samba_exporter may cut requests off (`server_cut`): the handlers that
`InitSambaExporter` and `Getstatus` install call `os.Exit(0)` at once.

Backups stay in order and only the oldest messages are lost, in a rotation, after
one that failed, and after a crash in one. But a rotation that fails at the
remove or at a rename ends the logging of the process (`WedgedForGood`). And when
`os.Create` fails in rotate, the next Write creates the file and keeps the old
size, so that the empty file is rotated at once; `Retention` therefore asks
for no failing call. Then every backup is full (`BackupsFull`), and a message is only
thrown away while enough full files stay. A death in a rotation leaves a number free,
and the next rotation removes the oldest backup all the same: each death may cost one
of the full files that the log promises, and no more (the bound is reached: with four
files two deaths in rotations can leave the messages of a single file).

### Results for the collectors

**snmp_exporter.** Whatever workers fail and whichever client leaves, a scrape
reports each module once; it uses one version of the configuration; a POST is told
*ok* only after a reload of the file it asked for or a later one; no SIGHUP is lost.
But when every worker fails to connect nobody receives from dispatchModules, and
the scrape waits until its client hangs up (`ScrapeEnds` says that this is the
only way for it not to end).

**mongodb_exporter.** The collector of the config server disconnects the client that
the pool has given to everybody, so a concurrent scrape reports `mongodb_up 0` of a
server that was never down (`mongo_up`). The pool finds a connection again
(`PoolRecovers`). A collector ignores the error of GetClient and uses the nil
client, which kills the process; that takes a server that could not be reached or a
bad URI (`CrashNeedsOutage`). A reconnect whose ping fails leaves its new client
connected and forgotten; nothing else does (`OneConnection`).

**ping_exporter.** Between refreshes the monitor pings what is recorded, and the
addresses that a refresh had added when the monitor refused another. Those stay
until the name resolves to them again.

**smartctl_exporter.** Concurrent scrapes run smartctl once per device and interval.
Devices that the scan reports as SCSI get the type `auto`, which the validator does
not know: smartctl is never run for them (`smartctl_scsi`). An empty output is
stored like an answer, and ends the process when it is that of the first device.

**paperless exporter.** Without overlapping scrapes an entry is counted at most once,
and with them none that was fetched is missed; both need positions that differ,
and time, module and level need not. `log_duplicates_total` counts the entries that
are new.

**node_storage_exporter.** Its three kinds of goroutines never wait for each other in a
circle. A statfs that hangs keeps the whole scrape, since `mountTimeout` is unused.

**node_utility_exporter.** `Update` of the text files holds the read lock while it
calls `exportMTimes`, which takes it again. When a refresh of another scrape asks
for the write lock in between, both wait for ever, and with them every later
scrape. `OnlyTextfilesJam` says that it takes this meeting at this lock and that the
other caches cannot jam. A cache may go back to older files, but only when
refreshes overlap (`BackOnlyIfOverlapped`).

### Bounds

* Two calls and two tables are enough for a late goroutine of one call to meet
  the next call and for the timeout of one table to meet the request of another;
  three calls of one table put three requests and their late answers in the
  pipes; three tables are the fewest with which errinfo leaves fronts behind.
  With all faults the instance of two tables and two calls has 7.7 million
  states; the smaller one is used, since `OneAtATime` (without faults) and
  `OwnAnswer` (with them) are also proved for every number of tables and calls.
* Three tokens, five ticks and eight grants let the bucket run empty and full
  again with a stale tick on each side of a window.
* Two requests compete for one token with a refresh in between; two signals are
  the first number that crashes.
* Four files have two renames between the remove and the rename of the log
  itself, so that one that fails has a backup on each side. Two messages fill a file,
  so seven use all four; the eighth is the first that can cost a backup after a death
  in a rotation, the ninth the first that costs one without. One failure and one death
  are enough for either to meet what the other left behind; any number of both is
  covered by the proofs, which state all six properties of the run.
* snmp_exporter: two workers and two modules, so that one worker can fail, take both
  modules, or wait for the other; one request, as requests share only the
  configuration; two clients that POST, a signal, and an edit that may be bad.
* mongodb_exporter: two scrapes and the health check, each kind of collector once, one
  outage; four clients are more than can be in use at once.
* ping_exporter: two refreshes that overlap, three addresses of which one belongs to
  a disabled IP version.
* smartctl_exporter: two scrapes, two devices, so that one can be first and the
  other old.
* paperless exporter: two scrapes, three entries, four fetches, and every assignment of
  places up to renaming (`Numbered`; places are only compared).
* node_storage_exporter: four mounts, one of them ignored and any of them hung, and two
  of the four workers: more mounts than workers, so that the feeder has to wait.
* node_utility_exporter: two scrapes, two versions of the files, and the two caches that
  differ from the others: the one whose time stamp is set after the lock is
  released and the one with two read locks.

### Fairness

* `SambaPipes!FairSpec`: the call returns when it can, fronts run, and timers
  fire. Nothing is assumed of the daemon or of `smbstatus`. `PatientSpec`
  replaces timers by a daemon and a `smbstatus` that go on; it asks whether the
  exchange itself can get stuck.
* `RateLimiter!FairSpec`: the clock ticks and the goroutine is scheduled.
* `ExporterServer!FairServerSpec`: the goroutines of the process go on when they
  can and the deadline of Shutdown passes; requests need never finish, and no
  signal need arrive.
* `SnmpExporter!FairSnmpSpec`: the handler, the workers and the reload goroutine go
  on; no client need hang up or ask.
* `MongoPool!FairMongoSpec`: the health check ticks, whoever holds the mutex goes on,
  and the mutex is strongly fair, since a Go mutex hands itself to a goroutine that
  has waited for a millisecond.
* `FilesystemStats!FairFsSpec`: the goroutines run; a hung statfs does not return.
* `MCCollectors!CollectorsFairness` is the fairness of these four for their machines.
* `UtilityCaches` needs none: that somebody can go on is an invariant.
* `FileRotator` has no liveness property: a Write is a sequence of system calls
  without waiting.

## 4. What is proved

The proofs hold for every value of the constants that satisfies the assumptions
named in the modules (for instance at least two files, a positive size of the
channel); the bounds on calls, ticks or messages are arbitrary numbers.

**SambaPipesProofs** — `TypeCorrect`, `OneRequestAtATime`, `AnswersAreOwn`,
`WedgeForEver`, `QueueAlwaysCovers`, `LossNeedsATimeout`, `PatienceLosesNothing`,
`FrontsAreLeft`, `PublishedHasAReason`, `CallNeverStuck`, `ExchangeNeverStuck`.
`OneAtATime` is not inductive: that the pipe is empty when a
worker takes the mutex depends on what the previous one left. The invariant says
where a request can be (pipe, daemon, queue, handler, response pipe) and that
every worker that has not taken the mutex has written nothing. `OwnAnswer` needs
that the numbers in the pipes are not above `requestCount`. `WedgeIsPermanent`
follows step by step from `OneAtATime`: there is nothing in flight, so there is
nothing any goroutine can hand to the worker. `QueueCoversHandlers` is inductive with
the position of the daemon's loop, which adds the telegram before it starts the
handler (`DaemonInv`). For `LossNeedsTimeout` `LossInv` says that as long as no front has timed out
there is no empty telegram in the request pipe, so that a read discards nothing but its own
request; it needs that a timeout, once recorded, stays (`TimeoutStays`). The same
invariant, under `PatientSpec`, gives `PatienceLosesNothing`: without the timers
nothing is ever lost. The fronts are counted: the errors taken from `errinfo` and the
one in it are as many as the fronts that have finished (`ErrInv`), from which
`FrontsLeftBehind` follows for any number of tables. `PublishedForAReason` traces the
error of a call back to the front that sent it (`ErrInv`) and that front's outcome to
its worker or its timer (`FrontInv`). The last two are about waiting.
`CallNeverStuck`: a running call has a value in `errinfo` and all its fronts past
their selects, or one of its fronts has a step that needs nobody but its timer;
with the timers gone, `ExchangeNeverStuck` says where the request is whose worker
holds requestMux: with the daemon, a handler, in a pipe, or answered.

**RateLimiterProofs** — `TypeCorrect`, `WindowBounded`, `NothingAfterStop`,
`ImplementsTokenBucket`, `PanicNeedsStop`. The inductive invariant of the window bound is a
balance: grants since the mark plus tokens now plus ticks on their way are at
most the capacity plus the ticks since the mark. The refinement maps credit to
tokens, the tick in the channel and the one in the goroutine; dropped ticks and
Stop are `Forfeit`. `PanicNeedsStop` says that the goroutine that refills is there, in
its loop, as long as nobody has called Stop.

**FileRotatorProofs** — `TypeCorrect`, `AtMostKeepFiles`, `AlwaysChronological`,
`OnlyOldestIsLost`, `FilesStayBounded`, `BackupsAreFull`, `RetentionHolds`,
`WedgedIsForGood`, `ImplementsRotatedLog`. `Layout` says that the
place a rename goes to is free: in the loop the file above `slot` does not exist.
From it `FileStep` reduces every action to four changes of the files (none,
oldest removed, one moved up, a message added), and order and loss are proved for
those four. The order needs that the message at hand is newer than everything in
the files (`Fresh`), the loss needs the order: what the removal of the oldest
backup takes away is older than what stays. `Measured` relates the file to `size`,
which can be stale but never too small by more than the fragments; `FullInv` adds that
without a failing call it is exact, and that whoever has decided to rotate has found
the file one message over the limit, which makes the backups full. `RetentionHolds`
counts holes (`HoleInv`): below a backup there are at most as many free numbers as
there were deaths and failures, and one more below those that the rotation under way
has moved. What stays when the oldest backup is removed are then the file itself and
all numbers between but the holes (`RemovedWhenFull`); no other step makes the full
files fewer.

`ImplementsRotatedLog` has to say what the log of any number of files of any length
is, without recursion. `InOrder` does it by counting: the *n*-th message is the one
whose place has rank *n*, where the rank of a place is the number of places that are
read no later (`Rank`). The lemmas on ranks (`RankInjective`, `RankSurjective`,
`RankKept`) rest on cardinalities alone. A rename then keeps every rank, since it
moves the places up in the same order (`MoveUpReadsTheSame`); the removal of the
oldest backup lowers all ranks by the number of its messages (`RemoveOldestForgets`);
a new message has the highest rank (`AddMessageWrites`). That `InOrder` is indeed the
concatenation of the files TLC checks on small files (`InOrderAssumption` of
`MCFileRotator`).

**ExporterServerProofs** — `ServerUsesLimiter` shows that every step of the server is a
step of the limiter or leaves it alone, so that the window bound is inherited
(`ServerWindowBounded`). `ListenErrorsAreReported`, `CrashesNeedTwoSignals` and
`GracefulStopServesAll` follow from invariants about the three goroutines: an exit
has a reason that somebody has recorded, each signal received is one of those sent,
and the listener is closed before the requests are waited for. `OneTokenEach` is a
count: as many tokens are granted as requests have passed the limiter. `StopNeverStuck`
follows the stop from the signal to the exit (`StopCourse`): whichever goroutine it
has come to, that one has a step that no request and no listener can prevent.

**SnmpExporterProofs** — `SnmpTypeCorrect`, `OneConfigurationHolds`,
`OkMeansLoadedHolds`, `ImplementsScatterGather`, `OnlyDesertedHang`, `HupIsNeverLost`.
The first of the safety properties
rests on the read lock, which keeps the swap out while a request is looking; the
second on the unbuffered channel, which ties a POST to the reload it hears of. The
refinement needs that a module is in exactly one place: with dispatchModules, in the
hand of one worker, or reported; from the same invariant, Collect waits for ever only
with a request whose workers have all failed to connect and whose client stays, the
exception that `ScrapeEnds` makes. For `HupIsNeverLost` the POST that the reload
answers is still waiting for its answer.

**MongoPoolProofs** — `MongoTypeCorrect`, `CrashNeedsOutageHolds`,
`OneConnectionHolds`, `MutexComesBack`: a nil client leaves GetClient only after a ping or a connect
that failed, and while the mutex is held the connected clients are at most the
pooled and the fresh one and those left behind. Whoever holds the mutex is at one of
three places of GetClient, each with a step. That a connect finds a client to make is
a matter of the model, which names clients from a set: `HandlesSuffice` asks for more
names than scrapes and one, as the runs have with 4 for 2 scrapes, and the proof
shows that then one is unused.

**FilesystemStatsProofs** — `FsTypeCorrect`, `StatsScatterGather`, `StatsNeverStuck`: each
mount is unread, in the hand of one worker, or received once, so that a feeder that
waits has a worker to wait for.

**CollectorsProofs** — `MonitorIsRecordedHolds` (whoever adds has put in what it has
looked at, and nobody else is adding), `OncePerIntervalHolds` (only the holder of the
mutex runs smartctl, for devices that were due when it took it and still are),
`NoneMissedHolds` and `CountedOnceHolds` (the entries up to the remembered one have
been counted, as far back as any file that still has it can reach),
`OnlyTextfilesJamHolds` (whoever waits has a writer before it, and that writer waits
for readers, who go on), `BackOnlyIfOverlappedHolds` (the files only change to newer
versions, so what was read is not older than what was found), and `TypesCorrect` for
the union.

Only model-checked: liveness (`EveryCallReturns`, `EveryWorkerServed`, `Refilled`,
`SignalEnds`, `HupTakesEffect`, `ScrapeEnds`, `PoolRecovers`, and the second half of
`StatsGathered`), since the prover does not do fairness. What it does prove of each is
the safety half, that somebody always has a step to take: `CallNeverStuck`,
`ExchangeNeverStuck`, `PanicNeedsStop`, `StopNeverStuck`, `HupIsNeverLost`,
`OnlyDesertedHang`, `MutexComesBack` and `StatsNeverStuck`, in that order. They state
the steps' guards in words of their own, since ENABLED is out of the prover's reach;
that the steps taken lead to the end, and are taken, is TLC's part. Every invariant and every
action property of the passing runs is proved. `TypeOK` of `SambaPipes` and of
`FileRotator`, `ServerTypeOK` and `FewFiles` are proved and in no run of their own.

## 5. What is not modelled

Most of the repository is by its size text: tables of metric names, the parsing of
files, commands and answers of APIs, and their conversion to metrics. An exporter
that does no more asks its system once per scrape and keeps nothing, so that there is
no state or order to check; the process around it (server, limiter, logger) is the
same code in all of them and is modelled once. Configuration files are read before
the process serves, and pages are constant.

Not modelled because it cannot run at this commit: the stubs; network_exporter's
metric keys and mtr cache; rabbitmq_cli_consumer_exporter; bmc_exporter with its
background refresh; and the exporters that lack `exporter.go` or `internal/exporter`.
`PaperlessLogs` is the exception: its package does not build, but `log.go` depends on
none of the missing files.

Left out of the modelled parts: two entries of the ping configuration with the same
address, and `removedTargets`, which never finds any; the errgroup around collectOne
and the counters of errors and duplicates beside it; the fake data mode of
smartctl_exporter; a refresh that reads several files while they change.

## 6. Plan

Done, in the order of how much of the system's own logic they hold: `SambaPipes`,
`RateLimiter`, `ExporterServer`, `FileRotator`; then `SnmpExporter`, `MongoPool`,
`PingTargets`, `DeviceCache`, `PaperlessLogs`, `FilesystemStats`, `UtilityCaches`.

Left:

1. the two other caches of the paperless exporter (remote version and status), once
   the package builds;
2. the caches of metric descriptions (`getMetricDesc` of node_utility_exporter and
   the network device descriptions of the node exporters): a look-up under the read
   lock and an insert under the write lock;
3. network_exporter, rabbitmq_cli_consumer_exporter and bmc_exporter, when their stubs
   are filled.
