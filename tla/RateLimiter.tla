---------------------------- MODULE RateLimiter ----------------------------
(***************************************************************************)
(* pkg/ratelimit, the same in every exporter: a channel of tokens, a       *)
(* goroutine that adds one per tick of a ticker, Get, and Stop.            *)
(*                                                                         *)
(* The ticker is the one of the Go runtime: its channel holds one tick and *)
(* a tick that finds it full is dropped; Stop leaves a tick already there. *)
(***************************************************************************)
EXTENDS Integers

CONSTANTS
    Size,       \* chanSize
    MaxTicks,   \* bound: ticks of the ticker in a behaviour
    MaxGets     \* bound: tokens taken in a behaviour

\* NewRateLimiter refuses a size that is not positive.
ASSUME SizeAssumption == Size \in Nat \ {0}
ASSUME BoundsAssumption == MaxTicks \in Nat /\ MaxGets \in Nat

VARIABLES
    tokens,     \* tokens in the channel
    closed,     \* the channel is closed
    ticker,     \* "running" or "stopped"
    tickC,      \* ticks in ticker.C: 0 or 1
    refresher,  \* startRefreshTokens: waits for a tick, holds one, or panicked
    stopper,    \* how far a call of Stop has come
    ticks,      \* ticks so far
    granted,    \* successful Gets so far
    mark        \* a moment chosen at will: ticks and grants up to it

limiter == <<tokens, closed, ticker, tickC, refresher, stopper, ticks, granted>>
rlVars  == <<limiter, mark>>

InitLimiter ==
    /\ tokens = Size /\ closed = FALSE
    /\ ticker = "running" /\ tickC = 0 /\ refresher = "wait"
    /\ stopper = "none"
    /\ ticks = 0 /\ granted = 0

Tick ==
    /\ ticker = "running" /\ refresher # "panicked" /\ ticks < MaxTicks
    /\ ticks' = ticks + 1
    /\ tickC' = 1
    /\ UNCHANGED <<tokens, closed, ticker, refresher, stopper, granted, mark>>

\* `for range rl.ticker.C`
ReceiveTick ==
    /\ refresher = "wait" /\ tickC = 1
    /\ tickC' = 0
    /\ refresher' = "hold"
    /\ UNCHANGED <<tokens, closed, ticker, stopper, ticks, granted, mark>>

\* `select { case rl.tokens <- struct{}{}: default: }`: a full channel takes no
\* token, a closed one panics and with it the process.
ReturnWhenFull ==
    /\ refresher = "hold"
    /\ tokens' = IF tokens < Size /\ ~closed THEN tokens + 1 ELSE tokens
    /\ refresher' = IF closed THEN "panicked" ELSE IF tokens < Size THEN "wait" ELSE "returned"
    /\ UNCHANGED <<closed, ticker, tickC, stopper, ticks, granted, mark>>
SendBeyondSize ==
    /\ refresher = "hold"
    /\ tokens' = IF closed THEN tokens ELSE tokens + 1
    /\ refresher' = IF closed THEN "panicked" ELSE "wait"
    /\ UNCHANGED <<closed, ticker, tickC, stopper, ticks, granted, mark>>
SendToken ==
    /\ refresher = "hold"
    /\ tokens' = IF tokens < Size /\ ~closed THEN tokens + 1 ELSE tokens
    /\ refresher' = IF closed THEN "panicked" ELSE "wait"
    /\ UNCHANGED <<closed, ticker, tickC, stopper, ticks, granted, mark>>

\* Get returns nil: there was a token, before or after the close.
GetToken ==
    /\ refresher # "panicked" /\ granted < MaxGets
    /\ tokens > 0
    /\ tokens' = tokens - 1
    /\ granted' = granted + 1
    /\ UNCHANGED <<closed, ticker, tickC, refresher, stopper, ticks, mark>>

\* Get returns ErrRateLimited and changes nothing.
GetLimited == refresher # "panicked" /\ tokens = 0 /\ UNCHANGED <<limiter, mark>>

\* Stop: ticker.Stop, close(tokens), clearChannel.
StopTicker ==
    /\ refresher # "panicked" /\ stopper = "none"
    /\ ticker' = "stopped" /\ stopper' = "stopped"
    /\ UNCHANGED <<tokens, closed, tickC, refresher, ticks, granted, mark>>

CloseTokens ==
    /\ refresher # "panicked" /\ stopper = "stopped"
    /\ closed' = TRUE /\ stopper' = "closed"
    /\ UNCHANGED <<tokens, ticker, tickC, refresher, ticks, granted, mark>>

ClearNothing ==
    /\ refresher # "panicked" /\ stopper = "closed"
    /\ stopper' = "done"
    /\ UNCHANGED <<tokens, closed, ticker, tickC, refresher, ticks, granted, mark>>
ClearChannel ==
    /\ refresher # "panicked" /\ stopper = "closed"
    /\ IF tokens > 0
       THEN tokens' = tokens - 1 /\ UNCHANGED stopper
       ELSE stopper' = "done" /\ UNCHANGED tokens
    /\ UNCHANGED <<closed, ticker, tickC, refresher, ticks, granted, mark>>

\* Not a step of the code: the window of WindowBound begins now.
OpenWindow ==
    /\ mark' = [ticks |-> ticks, granted |-> granted]
    /\ UNCHANGED limiter

Refresh == ReceiveTick \/ SendToken
Stop    == StopTicker \/ CloseTokens \/ ClearChannel

Init == InitLimiter /\ mark = [ticks |-> 0, granted |-> 0]

Next == Tick \/ Refresh \/ GetToken \/ GetLimited \/ Stop \/ OpenWindow

Spec == Init /\ [][Next]_rlVars

\* The clock ticks and the refresh goroutine is scheduled; nobody has to call
\* Get or Stop.
FairSpec == Spec /\ WF_rlVars(Tick) /\ WF_rlVars(Refresh)

-----------------------------------------------------------------------------
Held == IF refresher = "hold" THEN 1 ELSE 0

TypeOK ==
    /\ tokens \in 0 .. Size /\ closed \in BOOLEAN
    /\ ticker \in {"running", "stopped"} /\ tickC \in {0, 1}
    /\ refresher \in {"wait", "hold", "panicked"}
    /\ stopper \in {"none", "stopped", "closed", "done"}
    /\ ticks \in 0 .. MaxTicks /\ granted \in 0 .. MaxGets
    /\ mark \in [ticks : Nat, granted : Nat]

\* Between any two moments no more requests pass than the channel is long, plus
\* the ticks in between, plus two: a tick can wait in ticker.C and another in
\* the hands of the refresh goroutine when the window opens.
WindowBound ==
    granted - mark.granted <= Size + 2 + (ticks - mark.ticks)

\* Once Stop has returned Get never succeeds again, although Gets that run
\* between its close and its clearChannel still do.
NoGrantAfterStop == [][stopper = "done" => granted' = granted]_rlVars

\* An exhausted limiter recovers as long as the clock ticks: the refresh
\* goroutine survives the ticks that found the channel full.
Refilled == [](tokens = 0 /\ ticker = "running" /\ ticks < MaxTicks
                  => <>(tokens > 0 \/ ticker = "stopped"))

\* The limiter is a token bucket whose capacity is the channel, ticker.C and
\* the refresh goroutine together.
Bucket == INSTANCE TokenBucket WITH
              Capacity <- Size + 2, credit <- tokens + tickC + Held, through <- granted
IsTokenBucket == Bucket!Spec
=============================================================================
