------------------------ MODULE ExporterServerProofs ------------------------
(***************************************************************************)
(* Proofs about ExporterServer, for any set of requests, any number of     *)
(* signals and any size of the limiter.                                    *)
(***************************************************************************)
EXTENDS ExporterServer, RateLimiterProofs, FiniteSetTheorems

\* A step of the server is a step of the limiter, or leaves it alone.
LEMMA LimiterStep == [ServerNext]_vars => [Next]_rlVars
  <1> SUFFICES ASSUME [ServerNext]_vars PROVE [Next]_rlVars
    OBVIOUS
  <1> USE DEF lifeVars, cfgVars
  <1>1. CASE Main \/ SetUpFails
    BY <1>1 DEF Main, SetUpFails, MainStart, MainStop, ShutdownReturns, MainReturn
  <1>2. CASE Runner \/ ListenFails
    BY <1>2 DEF Runner, ListenFails, RunStart, Listen, ServeClosed, RecordError, RunnerExit
  <1>3. CASE Watcher
    BY <1>3 DEF Watcher, Notify, WatcherReceive, WatcherExit, WatcherClose
  <1>4. CASE OwnNotify \/ OwnExit \/ \E sig \in {"INT", "TERM"} : Signal(sig)
    BY <1>4 DEF OwnNotify, OwnExit, Signal
  <1>5. ASSUME NEW r \in Requests, Accept(r) \/ RunHandlers(r) \/ StartCollect(r) \/ EndCollect(r)
        PROVE  [Next]_rlVars
    BY <1>5 DEF Accept, RunHandlers, StartCollect, EndCollect, Next
  <1>6. CASE Limiter
    BY <1>6 DEF Limiter, Next
  <1>7. CASE UNCHANGED vars
    BY <1>7 DEF vars
  <1> QED
    BY <1>1, <1>2, <1>3, <1>4, <1>5, <1>6, <1>7 DEF ServerNext

\* The server uses its limiter as a limiter may be used; whatever is proved of
\* RateLimiter therefore holds inside the server.
THEOREM ServerUsesLimiter == ServerSpec => Spec
  <1>1. ServerSpecInit => Init
    BY DEF ServerSpecInit
  <1> QED
    BY <1>1, LimiterStep, PTL DEF ServerSpec, Spec

\* No more requests pass the middleware than the channel holds, plus the ticks,
\* plus two, however requests, signals and the refresh goroutine interleave.
THEOREM ServerWindowBounded == ServerSpec => []WindowBound
  BY ServerUsesLimiter, WindowBounded, PTL

-----------------------------------------------------------------------------
TypeInv == TypeOK /\ ServerTypeOK

LEMMA SignalCounted ==
  ASSUME TypeInv, NEW sig, Signal(sig)
  PROVE  /\ signals' \in 0 .. MaxSignals
         /\ signals' > 0 /\ (signals > 0 => signals' > 1)
  <1>1. signals \in 0 .. MaxSignals
    BY Zenon DEF TypeInv, ServerTypeOK
  <1>2. signals' = signals + 1 /\ signals < MaxSignals
    BY Zenon DEF Signal
  <1> QED
    BY <1>1, <1>2, MaxSignalsAssumption

LEMMA ServerTypeInit == ServerSpecInit => TypeInv
  <1> SUFFICES ASSUME ServerSpecInit PROVE TypeInv
    OBVIOUS
  <1>1. TypeOK
    BY TypeOKInit DEF ServerSpecInit
  <1>2. ServerTypeOK
    <2>1. own \in BOOLEAN /\ interrupted \in BOOLEAN
      BY Zenon DEF ServerSpecInit, ServerInit
    <2> QED
      BY <2>1, MaxSignalsAssumption DEF ServerSpecInit, ServerInit, ServerTypeOK, ReqStates
  <1> QED
    BY <1>1, <1>2 DEF TypeInv

LEMMA ServerTypeStep == TypeInv /\ [ServerNext]_vars => TypeInv'
  <1> SUFFICES ASSUME TypeInv, [ServerNext]_vars PROVE ServerTypeOK'
    BY LimiterStep, TypeOKStep DEF TypeInv
  <1> USE DEF TypeInv, ServerTypeOK, cfgVars
  <1>1. CASE Main
    BY <1>1 DEF Main, MainStart, MainStop, ShutdownReturns, MainReturn
  <1>2. CASE Runner
    BY <1>2 DEF Runner, RunStart, Listen, ServeClosed, RecordError, RunnerExit, Exit
  <1>3. CASE Watcher
    BY <1>3 DEF Watcher, Notify, WatcherReceive, WatcherExit, WatcherClose, Exit
  <1>4. CASE SetUpFails \/ ListenFails \/ OwnNotify \/ OwnExit
    BY <1>4 DEF SetUpFails, ListenFails, OwnNotify, OwnExit
  <1>5. ASSUME NEW sig \in {"INT", "TERM"}, Signal(sig)
        PROVE  ServerTypeOK'
    <2>1. interrupted' \in BOOLEAN
      BY <1>5 DEF Signal
    <2>2. signals' \in 0 .. MaxSignals
      BY <1>5, SignalCounted
    <2>3. sigc' \in {0, 1} /\ process' \in {"running", "exit 0", "exit 1", "killed", "crashed"}
      BY <1>5 DEF Signal
    <2>4. /\ ratelimit' = ratelimit /\ main' = main /\ runner' = runner /\ watcher' = watcher
          /\ own' = own /\ exitSignal' = exitSignal /\ serverError' = serverError
          /\ listener' = listener /\ req' = req /\ stopped' = stopped
      BY <1>5 DEF Signal
    <2>5. /\ ratelimit' \in {"off", "on", "refused"}
          /\ main' \in {"setup", "wait", "stopping", "return", "returned"}
      BY <2>4
    <2>6. /\ runner' \in {"none", "run", "listen", "serve", "error", "exit", "done"}
          /\ listener' \in {"none", "open", "failed", "closed"}
      BY <2>4
    <2>7. /\ watcher' \in {"none", "spawned", "wait", "exit", "return", "closed"}
          /\ exitSignal' \in {"open", "closed"} /\ serverError' \in {"nil", "listen"}
      BY <2>4
    <2>8. /\ own' \in BOOLEAN /\ req' \in [Requests -> ReqStates]
          /\ stopped' \in {"no", "graceful", "timeout"}
      BY <2>4, Zenon
    <2> QED
      BY <2>1, <2>2, <2>3, <2>5, <2>6, <2>7, <2>8, Zenon
  <1>6. ASSUME NEW r \in Requests, Accept(r) \/ RunHandlers(r) \/ StartCollect(r) \/ EndCollect(r)
        PROVE  ServerTypeOK'
    BY <1>6 DEF Accept, RunHandlers, StartCollect, EndCollect, lifeVars, ReqStates
  <1>7. CASE Limiter \/ UNCHANGED vars
    BY <1>7 DEF Limiter, lifeVars, vars
  <1> QED
    BY <1>1, <1>2, <1>3, <1>4, <1>5, <1>6, <1>7 DEF ServerNext

\* The variables hold values of their types; in particular the runtime never
\* puts a second signal into a channel with room for one.
THEOREM ServerTypeCorrect == ServerSpec => []ServerTypeOK
  BY ServerTypeInit, ServerTypeStep, PTL DEF ServerSpec, TypeInv

-----------------------------------------------------------------------------
(* Why the process ends.  Everything that closes ExitSignal or takes a     *)
(* goroutine to its end goes back to a signal or to a listen error that    *)
(* has been recorded, and main only passes Stop behind a closed ExitSignal.*)

Signalled == signals > 0
Reported  == Signalled \/ serverError = "listen"

EndsForAReason ==
    /\ sigc = 1 \/ watcher \in {"exit", "return", "closed"} => Signalled
    /\ interrupted = TRUE => Signalled
    /\ exitSignal = "closed" \/ runner \in {"exit", "done"} => Reported
    /\ main \in {"stopping", "return"} \/ listener = "closed" => exitSignal = "closed"
    /\ ListenErrorReported
    /\ CrashNeedsTwoSignals

LEMMA EndsInit == ServerSpecInit => EndsForAReason
  BY DEF ServerSpecInit, ServerInit, EndsForAReason, ListenErrorReported, CrashNeedsTwoSignals

LEMMA EndsStep == TypeInv /\ EndsForAReason /\ [ServerNext]_vars => EndsForAReason'
  <1> SUFFICES ASSUME TypeInv, EndsForAReason, [ServerNext]_vars PROVE EndsForAReason'
    OBVIOUS
  <1> USE DEF EndsForAReason, Signalled, Reported, ListenErrorReported, CrashNeedsTwoSignals, cfgVars
  <1>1. CASE Main
    BY <1>1 DEF Main, MainStart, MainStop, ShutdownReturns, MainReturn, TypeInv, ServerTypeOK
  <1>2. CASE Runner
    BY <1>2 DEF Runner, RunStart, Listen, ServeClosed, RecordError, RunnerExit, Exit
  <1>3. CASE Watcher
    BY <1>3 DEF Watcher, Notify, WatcherReceive, WatcherExit, WatcherClose, Exit
  <1>4. CASE SetUpFails \/ ListenFails \/ OwnNotify \/ OwnExit
    BY <1>4 DEF SetUpFails, ListenFails, OwnNotify, OwnExit
  <1>5. ASSUME NEW sig \in {"INT", "TERM"}, Signal(sig)
        PROVE  EndsForAReason'
    <2>1. UNCHANGED <<main, runner, watcher, exitSignal, serverError, listener>>
      BY <1>5, Zenon DEF Signal
    <2>2. signals' > 0 /\ (signals > 0 => signals' > 1)
      BY <1>5, SignalCounted
    <2>3. process' = "crashed" => watcher = "closed"
      BY <1>5 DEF Signal, Running
    <2>4. process' # "exit 0"
      BY <1>5 DEF Signal, Running
    <2> QED
      BY <2>1, <2>2, <2>3, <2>4
  <1>6. CASE \E r \in Requests : Accept(r) \/ RunHandlers(r) \/ StartCollect(r) \/ EndCollect(r)
    BY <1>6 DEF Accept, RunHandlers, StartCollect, EndCollect, lifeVars
  <1>7. CASE Limiter \/ UNCHANGED vars
    BY <1>7 DEF Limiter, lifeVars, vars
  <1> QED
    BY <1>1, <1>2, <1>3, <1>4, <1>5, <1>6, <1>7 DEF ServerNext

\* A process that got no signal never exits with 0: whatever ended it, the
\* listen error was recorded before main read it.
THEOREM ListenErrorsAreReported == ServerSpec => []ListenErrorReported
  BY ServerTypeInit, ServerTypeStep, EndsInit, EndsStep, PTL DEF ServerSpec, EndsForAReason

\* The process never crashes before its second signal.
THEOREM CrashesNeedTwoSignals == ServerSpec => []CrashNeedsTwoSignals
  BY ServerTypeInit, ServerTypeStep, EndsInit, EndsStep, PTL DEF ServerSpec, EndsForAReason

-----------------------------------------------------------------------------
(* Why a signal that was caught ends the process: from the callback of the *)
(* watcher to the exit the next step is always there, and waits neither    *)
(* for a request nor for the goroutine of Run.                             *)

StopCourse ==
    /\ watcher \in {"return", "closed"} => exitSignal = "closed"
    /\ main = "returned" => ~Running

StopCanStep ==
    \/ watcher = "exit"                            \* WatcherExit
    \/ main = "setup"                              \* MainStart
    \/ main = "wait" /\ exitSignal = "closed"      \* MainStop
    \/ main \in {"stopping", "return"}             \* ShutdownReturns, MainReturn

SignalGoesOn ==
    Running /\ watcher \in {"exit", "return", "closed"} => StopCanStep

LEMMA StopCourseInit == ServerSpecInit => StopCourse
  BY DEF ServerSpecInit, ServerInit, StopCourse

LEMMA StopCourseStep == StopCourse /\ [ServerNext]_vars => StopCourse'
  <1> SUFFICES ASSUME StopCourse, [ServerNext]_vars PROVE StopCourse'
    OBVIOUS
  <1> USE DEF StopCourse, Running, cfgVars
  <1>1. CASE Main
    BY <1>1 DEF Main, MainStart, MainStop, ShutdownReturns, MainReturn
  <1>2. CASE Runner
    BY <1>2 DEF Runner, RunStart, Listen, ServeClosed, RecordError, RunnerExit, Exit
  <1>3. CASE Watcher
    BY <1>3 DEF Watcher, Notify, WatcherReceive, WatcherExit, WatcherClose, Exit
  <1>4. CASE SetUpFails \/ ListenFails \/ OwnNotify \/ OwnExit \/ \E sig \in {"INT", "TERM"} : Signal(sig)
    BY <1>4 DEF SetUpFails, ListenFails, OwnNotify, OwnExit, Signal
  <1>5. CASE \E r \in Requests : Accept(r) \/ RunHandlers(r) \/ StartCollect(r) \/ EndCollect(r)
    BY <1>5 DEF Accept, RunHandlers, StartCollect, EndCollect, lifeVars
  <1>6. CASE Limiter \/ UNCHANGED vars
    BY <1>6 DEF Limiter, lifeVars, vars
  <1> QED
    BY <1>1, <1>2, <1>3, <1>4, <1>5, <1>6 DEF ServerNext

\* Whatever hangs in a collector, and whatever became of the listener, the stop that
\* a signal has begun has a next step until the process is gone.
THEOREM StopNeverStuck == ServerSpec => []SignalGoesOn
  <1>1. TypeInv /\ StopCourse => SignalGoesOn
    BY DEF TypeInv, ServerTypeOK, StopCourse, SignalGoesOn, StopCanStep
  <1> QED
    BY <1>1, ServerTypeInit, ServerTypeStep, StopCourseInit, StopCourseStep, PTL DEF ServerSpec

-----------------------------------------------------------------------------
(* A graceful stop.  The listener is closed before Shutdown waits, so that *)
(* no request is accepted after the moment it found none in progress.      *)

StopsBehindListener ==
    /\ main \in {"stopping", "return"} => listener = "closed"
    /\ stopped # "no" => listener = "closed"
    /\ GracefulServesAll

LEMMA StopInit == ServerSpecInit => StopsBehindListener
  BY DEF ServerSpecInit, ServerInit, StopsBehindListener, GracefulServesAll

LEMMA StopStep == StopsBehindListener /\ [ServerNext]_vars => StopsBehindListener'
  <1> SUFFICES ASSUME StopsBehindListener, [ServerNext]_vars PROVE StopsBehindListener'
    OBVIOUS
  <1> USE DEF StopsBehindListener, GracefulServesAll, cfgVars
  <1>1. CASE Main
    BY <1>1 DEF Main, MainStart, MainStop, ShutdownReturns, MainReturn
  <1>2. CASE Runner
    BY <1>2 DEF Runner, RunStart, Listen, ServeClosed, RecordError, RunnerExit
  <1>3. CASE Watcher
    BY <1>3 DEF Watcher, Notify, WatcherReceive, WatcherExit, WatcherClose
  <1>4. CASE SetUpFails \/ ListenFails \/ OwnNotify \/ OwnExit \/ \E sig \in {"INT", "TERM"} : Signal(sig)
    BY <1>4 DEF SetUpFails, ListenFails, OwnNotify, OwnExit, Signal
  <1>5. ASSUME NEW r \in Requests, Accept(r) PROVE StopsBehindListener'
    BY <1>5 DEF Accept, lifeVars
  <1>6. ASSUME NEW r \in Requests, RunHandlers(r) \/ StartCollect(r) \/ EndCollect(r)
        PROVE  StopsBehindListener'
    <2>1. req[r] \in InProgress
      BY <1>6 DEF RunHandlers, StartCollect, EndCollect, InProgress
    <2> QED
      BY <1>6, <2>1 DEF RunHandlers, StartCollect, EndCollect, lifeVars
  <1>7. CASE Limiter \/ UNCHANGED vars
    BY <1>7 DEF Limiter, lifeVars, vars
  <1> QED
    BY <1>1, <1>2, <1>3, <1>4, <1>5, <1>6, <1>7 DEF ServerNext

\* A stop that calls itself graceful has cut no request off, and none is
\* accepted behind it.
THEOREM GracefulStopServesAll == ServerSpec => []GracefulServesAll
  BY StopInit, StopStep, PTL DEF ServerSpec, StopsBehindListener

-----------------------------------------------------------------------------
(* Tokens and requests.                                                    *)

LEMMA TokensInit == ServerSpecInit => OneTokenPerScrape
  <1> SUFFICES ASSUME ServerSpecInit PROVE granted = Cardinality(Behind)
    BY DEF OneTokenPerScrape
  <1>1. Behind = {}
    BY DEF ServerSpecInit, ServerInit, Behind
  <1> QED
    BY <1>1, FS_EmptySet DEF ServerSpecInit, Init, InitLimiter

LEMMA TokensStep == TypeInv /\ OneTokenPerScrape /\ [ServerNext]_vars => OneTokenPerScrape'
  <1> SUFFICES ASSUME TypeInv, OneTokenPerScrape, [ServerNext]_vars PROVE OneTokenPerScrape'
    OBVIOUS
  <1>u. ASSUME UNCHANGED <<ratelimit, granted>>, Behind' = Behind
        PROVE  OneTokenPerScrape'
    BY <1>u DEF OneTokenPerScrape
  <1>1. CASE UNCHANGED <<ratelimit, granted, req>>
    BY <1>1, <1>u DEF Behind
  <1>2. CASE Main \/ SetUpFails
    BY <1>2, <1>1 DEF Main, SetUpFails, MainStart, MainStop, ShutdownReturns, MainReturn,
       cfgVars, rlVars, limiter
  <1>3. CASE Runner \/ ListenFails
    BY <1>3, <1>1 DEF Runner, ListenFails, RunStart, Listen, ServeClosed, RecordError, RunnerExit,
       cfgVars, rlVars, limiter
  <1>4. CASE Watcher
    BY <1>4, <1>1 DEF Watcher, Notify, WatcherReceive, WatcherExit, WatcherClose, cfgVars, rlVars,
       limiter
  <1>5. CASE OwnNotify \/ OwnExit \/ \E sig \in {"INT", "TERM"} : Signal(sig)
    BY <1>5, <1>1 DEF OwnNotify, OwnExit, Signal, cfgVars, rlVars, limiter
  <1>6. CASE Limiter \/ UNCHANGED vars
    BY <1>6, <1>1 DEF Limiter, Tick, Refresh, ReceiveTick, SendToken, vars, lifeVars, rlVars, limiter
  <1>7. ASSUME NEW r \in Requests, Accept(r) \/ StartCollect(r) \/ EndCollect(r)
        PROVE  OneTokenPerScrape'
    <2>1. UNCHANGED <<ratelimit, granted>>
      BY <1>7 DEF Accept, StartCollect, EndCollect, lifeVars, rlVars, limiter
    <2>2. Behind' = Behind
      BY <1>7 DEF Accept, StartCollect, EndCollect, Behind, TypeInv, ServerTypeOK
    <2> QED
      BY <2>1, <2>2, <1>u
  <1>8. ASSUME NEW r \in Requests, RunHandlers(r)
        PROVE  OneTokenPerScrape'
    <2>1. req \in [Requests -> ReqStates] /\ req[r] = "accepted" /\ UNCHANGED ratelimit
      BY <1>8 DEF RunHandlers, TypeInv, ServerTypeOK, lifeVars
    <2>2. CASE ratelimit # "on"
      BY <2>1, <2>2 DEF OneTokenPerScrape
    <2>3. CASE ratelimit = "on" /\ GetLimited /\ req' = [req EXCEPT ![r] = "limited"]
      <3>1. UNCHANGED granted
        BY <2>3 DEF GetLimited, limiter
      <3>2. Behind' = Behind
        BY <2>1, <2>3 DEF Behind
      <3> QED
        BY <2>1, <3>1, <3>2, <1>u
    <2>4. CASE ratelimit = "on" /\ GetToken /\ req' = [req EXCEPT ![r] = "passed"]
      <3>1. granted' = granted + 1 /\ granted = Cardinality(Behind)
        BY <2>4 DEF GetToken, OneTokenPerScrape
      <3>2. Behind' = Behind \cup {r} /\ r \notin Behind
        BY <2>1, <2>4 DEF Behind
      <3>3. IsFiniteSet(Behind)
        BY RequestsAssumption, FS_Subset DEF Behind
      <3>4. Cardinality(Behind') = Cardinality(Behind) + 1
        BY <3>2, <3>3, FS_AddElement
      <3> QED
        BY <3>1, <3>4 DEF OneTokenPerScrape
    <2> QED
      BY <1>8, <2>2, <2>3, <2>4 DEF RunHandlers
  <1> QED
    BY <1>2, <1>3, <1>4, <1>5, <1>6, <1>7, <1>8 DEF ServerNext

\* With the middleware installed exactly the requests that took a token get to
\* the collectors, whatever the order of requests, ticks and signals.
THEOREM OneTokenEach == ServerSpec => []OneTokenPerScrape
  BY ServerTypeInit, ServerTypeStep, TokensInit, TokensStep, PTL DEF ServerSpec
=============================================================================
