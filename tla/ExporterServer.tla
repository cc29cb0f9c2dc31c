--------------------------- MODULE ExporterServer ---------------------------
(***************************************************************************)
(* The process around every exporter: Run of exporter.go, the Server of    *)
(* internal/server with its request path, HandleSignals of pkg/utils, and  *)
(* the rate limiter (module RateLimiter) as the middleware of the path.    *)
(*                                                                         *)
(* http.Server, signal.Notify and the kernel are outside the repository:   *)
(* they appear as the code uses them.                                      *)
(***************************************************************************)
EXTENDS RateLimiter, FiniteSets

CONSTANTS
    Requests,      \* requests for the metrics page
    MaxSignals     \* bound: SIGINT and SIGTERM sent to the process

ASSUME MaxSignalsAssumption == MaxSignals \in Nat
ASSUME RequestsAssumption == IsFiniteSet(Requests)

VARIABLES
    ratelimit,   \* the middleware: "off", "on", or "refused" by NewRateLimiter
    main,        \* Run of exporter.go
    runner,      \* the goroutine that calls s.Run and then s.Exit
    watcher,     \* the HandleSignals goroutine
    sigc,        \* its channel: signals waiting, at most one
    signals,     \* signals sent so far
    own,         \* the handlers of samba.go are installed
    interrupted, \* a SIGINT waits for them
    exitSignal,  \* ExitSignal: "open", "closed"
    serverError, \* s.Error: "nil" or "listen"
    listener,    \* the listener of http.Server: "none", "open", "closed"
    req,         \* how far each request has come
    stopped,     \* what Stop logged: "no", "graceful", "timeout"
    process      \* "running", "exit 0", "exit 1", "killed", "crashed"

lifeVars == <<ratelimit, main, runner, watcher, sigc, signals, own, interrupted, exitSignal,
              serverError, listener, stopped, process>>
cfgVars == <<rlVars, ratelimit>>
vars == <<rlVars, lifeVars, req>>

ReqStates == {"new", "accepted", "passed", "collecting", "served", "limited", "panicked"}
InProgress == {"accepted", "passed", "collecting"}

ServerInit ==
    /\ ratelimit \in {"off", "on", "refused"}
    /\ main = "setup" /\ runner = "none" /\ watcher = "none"
    /\ sigc = 0 /\ signals = 0 /\ own = FALSE /\ interrupted = FALSE
    /\ exitSignal = "open" /\ serverError = "nil"
    /\ listener = "none"
    /\ req = [r \in Requests |-> "new"]
    /\ stopped = "no" /\ process = "running"

Running == process = "running"

-----------------------------------------------------------------------------
(* The main goroutine.                                                     *)

\* SetUp returned nil; `go func() { s.Run() ... }` and the select.
MainStart ==
    /\ Running /\ main = "setup"
    /\ main' = "wait" /\ runner' = "run"
    /\ UNCHANGED <<cfgVars, watcher, sigc, signals, own, interrupted, exitSignal, serverError,
                   listener, req, stopped, process>>

\* SetUp returned an error, which becomes the exit status.
SetUpFails ==
    /\ Running /\ main = "setup"
    /\ main' = "returned" /\ process' = "exit 1"
    /\ UNCHANGED <<cfgVars, runner, watcher, sigc, signals, own, interrupted, exitSignal,
                   serverError, listener, req, stopped>>

\* `<-s.ExitSignal`, then Shutdown: no new connections.
MainStop ==
    /\ Running /\ main = "wait" /\ exitSignal = "closed"
    /\ main' = "stopping" /\ listener' = "closed"
    /\ UNCHANGED <<cfgVars, runner, watcher, sigc, signals, own, interrupted, exitSignal,
                   serverError, req, stopped, process>>

CloseAtOnce ==
    /\ Running /\ main = "stopping"
    /\ stopped' = "graceful" /\ main' = "return"
    /\ UNCHANGED <<cfgVars, runner, watcher, sigc, signals, own, interrupted, exitSignal,
                   serverError, listener, req, process>>
NoDeadline ==
    /\ Running /\ main = "stopping"
    /\ \A r \in Requests : req[r] \notin InProgress
    /\ stopped' = "graceful" /\ main' = "return"
    /\ UNCHANGED <<cfgVars, runner, watcher, sigc, signals, own, interrupted, exitSignal,
                   serverError, listener, req, process>>
\* Shutdown returns when no request is in progress, or at its deadline of 1s.
ShutdownReturns ==
    /\ Running /\ main = "stopping"
    /\ \/ (\A r \in Requests : req[r] \notin InProgress) /\ stopped' = "graceful"
       \/ stopped' = "timeout"
    /\ main' = "return"
    /\ UNCHANGED <<cfgVars, runner, watcher, sigc, signals, own, interrupted, exitSignal,
                   serverError, listener, req, process>>

\* `return s.Error`, and main exits 1 on an error.
MainReturn ==
    /\ Running /\ main = "return"
    /\ main' = "returned"
    /\ process' = IF serverError = "nil" THEN "exit 0" ELSE "exit 1"
    /\ UNCHANGED <<cfgVars, runner, watcher, sigc, signals, own, interrupted, exitSignal,
                   serverError, listener, req, stopped>>

-----------------------------------------------------------------------------
(* The goroutine of Run.                                                   *)

\* s.callback.Do(close(ExitSignal)); closing a closed channel would panic.
CloseUnguarded ==
    IF exitSignal = "closed" THEN process' = "crashed" /\ UNCHANGED exitSignal
                             ELSE exitSignal' = "closed" /\ UNCHANGED process
Exit == exitSignal' = "closed" /\ UNCHANGED process

\* `go utils.HandleSignals(s.Exit)`; it may be a while until it runs.
RunStart ==
    /\ Running /\ runner = "run"
    /\ runner' = "listen" /\ watcher' = "spawned"
    /\ UNCHANGED <<cfgVars, main, sigc, signals, own, interrupted, exitSignal, serverError,
                   listener, req, stopped, process>>

\* ListenAndServe opens its listener, unless Shutdown was called before.
Listen ==
    /\ Running /\ runner = "listen" /\ listener = "none"
    /\ listener' = "open" /\ runner' = "serve"
    /\ UNCHANGED <<cfgVars, main, watcher, sigc, signals, own, interrupted, exitSignal,
                   serverError, req, stopped, process>>

\* It returns ErrServerClosed after Shutdown: Run returns nil.
ServeClosed ==
    /\ Running /\ runner \in {"listen", "serve"} /\ listener = "closed"
    /\ runner' = "exit"
    /\ UNCHANGED <<cfgVars, main, watcher, sigc, signals, own, interrupted, exitSignal,
                   serverError, listener, req, stopped, process>>

\* The port is taken, or Accept fails for good: Run returns the error.
ListenFails ==
    /\ Running
    /\ \/ runner = "listen" /\ listener = "none" /\ UNCHANGED listener
       \/ runner = "serve" /\ listener = "open" /\ listener' = "failed"
    /\ runner' = "error"
    /\ UNCHANGED <<cfgVars, main, watcher, sigc, signals, own, interrupted, exitSignal,
                   serverError, req, stopped, process>>

\* `s.Error = err`, before s.Exit.
ErrorForgotten ==
    /\ Running /\ runner = "error"
    /\ runner' = "exit"
    /\ UNCHANGED <<cfgVars, main, watcher, sigc, signals, own, interrupted, exitSignal,
                   serverError, listener, req, stopped, process>>
RecordError ==
    /\ Running /\ runner = "error"
    /\ serverError' = "listen" /\ runner' = "exit"
    /\ UNCHANGED <<cfgVars, main, watcher, sigc, signals, own, interrupted, exitSignal,
                   listener, req, stopped, process>>

RunnerExit ==
    /\ Running /\ runner = "exit"
    /\ runner' = "done"
    /\ Exit
    /\ UNCHANGED <<cfgVars, main, watcher, sigc, signals, own, interrupted, serverError,
                   listener, req, stopped>>

-----------------------------------------------------------------------------
(* Signals.  The runtime sends to every channel that signal.Notify was     *)
(* given, without blocking; nobody calls signal.Stop.                      *)

Notify ==
    /\ Running /\ watcher = "spawned"
    /\ watcher' = "wait"
    /\ UNCHANGED <<cfgVars, main, runner, sigc, signals, own, interrupted, exitSignal,
                   serverError, listener, req, stopped, process>>

\* The handlers of waitforKillSignalAndExit: InitSambaExporter starts them in
\* goroutines before main unless a test mode returns first, Getstatus once more
\* in SetUp unless it fails.  They are there at some time, or never.
OwnNotify ==
    /\ Running /\ ~own
    /\ own' = TRUE
    /\ UNCHANGED <<cfgVars, main, runner, watcher, sigc, signals, interrupted, exitSignal,
                   serverError, listener, req, stopped, process>>

\* A SIGINT or SIGTERM: it kills a process that has no handler for it yet, it
\* is dropped when sigc is full, and the send panics when sigc is closed.  The
\* handlers of samba.go are for SIGINT only, although one says SIGTERM.
Signal(sig) ==
    LET caught == own /\ sig = "INT" IN
    /\ Running /\ signals < MaxSignals
    /\ signals' = signals + 1
    /\ interrupted' = (interrupted \/ caught)
    /\ \/ /\ watcher \in {"none", "spawned"}
          /\ process' = IF caught THEN process ELSE "killed"
          /\ UNCHANGED sigc
       \/ watcher \in {"wait", "exit", "return"} /\ sigc' = 1 /\ UNCHANGED process
       \/ watcher = "closed" /\ process' = "crashed" /\ UNCHANGED sigc
    /\ UNCHANGED <<cfgVars, main, runner, watcher, own, exitSignal, serverError, listener,
                   req, stopped>>

\* `sig := <-sigc`
WatcherReceive ==
    /\ Running /\ watcher = "wait" /\ sigc = 1
    /\ sigc' = 0 /\ watcher' = "exit"
    /\ UNCHANGED <<cfgVars, main, runner, signals, own, interrupted, exitSignal, serverError,
                   listener, req, stopped, process>>

\* `callback.Do(s.Exit)`
WatcherExit ==
    /\ Running /\ watcher = "exit"
    /\ watcher' = "return"
    /\ Exit
    /\ UNCHANGED <<cfgVars, main, runner, sigc, signals, own, interrupted, serverError, listener,
                   req, stopped>>

\* The deferred close(sigc), with sigc still registered.
WatcherClose ==
    /\ Running /\ watcher = "return"
    /\ watcher' = "closed"
    /\ UNCHANGED <<cfgVars, main, runner, sigc, signals, own, interrupted, exitSignal, serverError,
                   listener, req, stopped, process>>

\* waitforKillSignalAndExit and waitforTermSignalAndExit: os.Exit(0).
OwnExit ==
    /\ Running /\ interrupted
    /\ process' = "exit 0"
    /\ UNCHANGED <<cfgVars, main, runner, watcher, sigc, signals, own, interrupted, exitSignal,
                   serverError, listener, req, stopped>>

-----------------------------------------------------------------------------
(* Requests: net/http runs ServeHTTP in a goroutine per connection.        *)

Accept(r) ==
    /\ Running /\ listener = "open" /\ req[r] = "new"
    /\ req' = [req EXCEPT ![r] = "accepted"]
    /\ UNCHANGED <<rlVars, lifeVars>>

\* The handler chain.  Without the flag it is empty; a limiter that was refused
\* is a nil pointer, and net/http recovers the panic; ErrRateLimited is a 429
\* and the end of the request.
FailWithoutError(r) ==
    /\ Running /\ req[r] = "accepted"
    /\ \/ ratelimit = "off" /\ req' = [req EXCEPT ![r] = "passed"] /\ UNCHANGED rlVars
       \/ ratelimit = "refused" /\ req' = [req EXCEPT ![r] = "panicked"]
              /\ UNCHANGED rlVars
       \/ ratelimit = "on" /\ req' = [req EXCEPT ![r] = "passed"]
              /\ (GetToken \/ GetLimited)
    /\ UNCHANGED lifeVars
RunHandlers(r) ==
    /\ Running /\ req[r] = "accepted"
    /\ \/ ratelimit = "off" /\ req' = [req EXCEPT ![r] = "passed"] /\ UNCHANGED rlVars
       \/ ratelimit = "refused" /\ req' = [req EXCEPT ![r] = "panicked"]
              /\ UNCHANGED rlVars
       \/ ratelimit = "on" /\ GetToken /\ req' = [req EXCEPT ![r] = "passed"]
       \/ ratelimit = "on" /\ GetLimited /\ req' = [req EXCEPT ![r] = "limited"]
    /\ UNCHANGED lifeVars

\* promhttp gathers: Registry.Collect calls every collector.
StartCollect(r) ==
    /\ Running /\ req[r] = "passed"
    /\ req' = [req EXCEPT ![r] = "collecting"]
    /\ UNCHANGED <<rlVars, lifeVars>>

EndCollect(r) ==
    /\ Running /\ req[r] = "collecting"
    /\ req' = [req EXCEPT ![r] = "served"]
    /\ UNCHANGED <<rlVars, lifeVars>>

\* The refresh goroutine of a limiter exists when the limiter does.
Limiter ==
    /\ Running /\ ratelimit = "on"
    /\ Tick \/ Refresh
    /\ UNCHANGED <<lifeVars, req>>

-----------------------------------------------------------------------------
ServerSpecInit == Init /\ ServerInit

Main    == MainStart \/ MainStop \/ ShutdownReturns \/ MainReturn
Runner  == RunStart \/ Listen \/ ServeClosed \/ RecordError \/ RunnerExit
Watcher == Notify \/ WatcherReceive \/ WatcherExit \/ WatcherClose

ServerNext ==
    \/ Main \/ SetUpFails
    \/ Runner \/ ListenFails
    \/ Watcher
    \/ \E sig \in {"INT", "TERM"} : Signal(sig)
    \/ OwnNotify \/ OwnExit
    \/ \E r \in Requests : Accept(r) \/ RunHandlers(r) \/ StartCollect(r) \/ EndCollect(r)
    \/ Limiter

ServerSpec == ServerSpecInit /\ [][ServerNext]_vars

\* Every goroutine that can go on does, and the deadline of Shutdown passes.
\* No request need ever finish.
FairServerSpec ==
    /\ ServerSpec
    /\ WF_vars(Main) /\ WF_vars(Runner) /\ WF_vars(Watcher)

-----------------------------------------------------------------------------
ServerTypeOK ==
    /\ ratelimit \in {"off", "on", "refused"}
    /\ main \in {"setup", "wait", "stopping", "return", "returned"}
    /\ runner \in {"none", "run", "listen", "serve", "error", "exit", "done"}
    /\ watcher \in {"none", "spawned", "wait", "exit", "return", "closed"}
    /\ sigc \in {0, 1} /\ signals \in 0 .. MaxSignals
    /\ own \in BOOLEAN /\ interrupted \in BOOLEAN
    /\ exitSignal \in {"open", "closed"} /\ serverError \in {"nil", "listen"}
    /\ listener \in {"none", "open", "failed", "closed"}
    /\ req \in [Requests -> ReqStates]
    /\ stopped \in {"no", "graceful", "timeout"}
    /\ process \in {"running", "exit 0", "exit 1", "killed", "crashed"}

\* Behind the limiter there are exactly as many requests as tokens were taken:
\* no request reaches a collector with a 429, and none pays twice.
Behind == {r \in Requests : req[r] \in {"passed", "collecting", "served"}}
OneTokenPerScrape == ratelimit = "on" => granted = Cardinality(Behind)

\* Stop only calls itself graceful when it cuts no request off.
GracefulServesAll ==
    stopped = "graceful" => \A r \in Requests : req[r] \notin InProgress

\* The exit status tells a listen error: a process that got no signal only
\* ends because its ListenAndServe failed, and then never with 0.
ListenErrorReported == process = "exit 0" => signals > 0

\* One signal never crashes the process: Exit, called by the runner and by the
\* watcher, closes ExitSignal once.
CrashNeedsTwoSignals == process = "crashed" => signals > 1

\* A signal that is caught ends the process, whatever hangs in a collector.
SignalEnds == watcher = "exit" ~> ~Running

\* "Ensure we exit clean on term and kill signals": a signal does not crash the
\* process.  (Refuted: the second signal meets the closed sigc.)
NeverCrashes == process # "crashed"

\* "Ensure we exit clean on term and kill signals": a signal that is handled
\* cuts requests off only after the deadline of Shutdown.  (Refuted: the
\* handlers of samba.go call os.Exit at once.)
ExitsClean ==
    process = "exit 0" /\ stopped # "timeout" =>
        \A r \in Requests : req[r] \notin InProgress
=============================================================================
