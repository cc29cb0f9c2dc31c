------------------------- MODULE RateLimiterProofs -------------------------
(***************************************************************************)
(* Proofs about RateLimiter, for any channel size and any bounds.          *)
(***************************************************************************)
EXTENDS RateLimiter, TLAPS

Steps == Tick \/ ReceiveTick \/ SendToken \/ GetToken \/ GetLimited
           \/ StopTicker \/ CloseTokens \/ ClearChannel \/ OpenWindow

LEMMA NextSteps == [Next]_rlVars => Steps \/ UNCHANGED rlVars
BY Zenon DEF Next, Steps, Refresh, Stop

-----------------------------------------------------------------------------
LEMMA TypeOKInit == Init => TypeOK
<1>. SUFFICES ASSUME Init PROVE TypeOK
    OBVIOUS
<1>1. mark \in [ticks : Nat, granted : Nat]
    BY DEF Init
<1>2. closed \in BOOLEAN
    BY Zenon DEF Init, InitLimiter
<1>. QED  BY <1>1, <1>2, SizeAssumption, BoundsAssumption DEF Init, InitLimiter, TypeOK

LEMMA TypeOKStep == TypeOK /\ [Next]_rlVars => TypeOK'
<1>. SUFFICES ASSUME TypeOK, Steps \/ UNCHANGED rlVars PROVE TypeOK'
    BY NextSteps
<1>. USE SizeAssumption, BoundsAssumption DEF TypeOK
<1>1. CASE Tick         BY <1>1 DEF Tick
<1>2. CASE ReceiveTick  BY <1>2 DEF ReceiveTick
<1>3. CASE SendToken
    <2>1. tokens' \in 0 .. Size
        BY <1>3 DEF SendToken
    <2>. QED  BY <1>3, <2>1 DEF SendToken
<1>4. CASE GetToken     BY <1>4 DEF GetToken
<1>5. CASE GetLimited   BY <1>5 DEF GetLimited, limiter
<1>6. CASE StopTicker   BY <1>6 DEF StopTicker
<1>7. CASE CloseTokens  BY <1>7 DEF CloseTokens
<1>8. CASE ClearChannel BY <1>8 DEF ClearChannel
<1>9. CASE OpenWindow   BY <1>9 DEF OpenWindow, limiter
<1>10. CASE UNCHANGED rlVars  BY <1>10 DEF rlVars, limiter
<1>. QED
    BY <1>1, <1>2, <1>3, <1>4, <1>5, <1>6, <1>7, <1>8, <1>9, <1>10 DEF Steps

\* The variables hold values of their types; in particular the channel never
\* holds more than its size.
THEOREM TypeCorrect == Spec => []TypeOK
BY TypeOKInit, TypeOKStep, PTL DEF Spec

-----------------------------------------------------------------------------
(* WindowBound counts what has passed; the inductive form also counts what *)
(* is still on its way: tokens, the tick in ticker.C and the one in hand.  *)

WindowInv ==
    granted - mark.granted + tokens + tickC + Held <= Size + 2 + (ticks - mark.ticks)

LEMMA WindowInvStep == TypeOK /\ WindowInv /\ [Next]_rlVars => WindowInv'
<1>. SUFFICES ASSUME TypeOK, WindowInv, Steps \/ UNCHANGED rlVars PROVE WindowInv'
    BY NextSteps
<1>. USE SizeAssumption, BoundsAssumption DEF TypeOK, WindowInv, Held
<1>1. CASE Tick         BY <1>1 DEF Tick
<1>2. CASE ReceiveTick  BY <1>2 DEF ReceiveTick
<1>3. CASE SendToken
    <2>1. tokens' <= tokens + 1 /\ tokens' \in Nat
        BY <1>3 DEF SendToken
    <2>2. refresher' # "hold" /\ refresher = "hold"
        BY <1>3 DEF SendToken
    <2>. QED  BY <1>3, <2>1, <2>2 DEF SendToken
<1>4. CASE GetToken     BY <1>4 DEF GetToken
<1>5. CASE GetLimited   BY <1>5 DEF GetLimited, limiter
<1>6. CASE StopTicker   BY <1>6 DEF StopTicker
<1>7. CASE CloseTokens  BY <1>7 DEF CloseTokens
<1>8. CASE ClearChannel BY <1>8 DEF ClearChannel
<1>9. CASE OpenWindow   BY <1>9 DEF OpenWindow, limiter
<1>10. CASE UNCHANGED rlVars  BY <1>10 DEF rlVars, limiter
<1>. QED
    BY <1>1, <1>2, <1>3, <1>4, <1>5, <1>6, <1>7, <1>8, <1>9, <1>10 DEF Steps

\* In every window no more requests pass than Size, the ticks of the window and
\* the two ticks that can be under way when it opens.
THEOREM WindowBounded == Spec => []WindowBound
<1>1. Init => WindowInv
    BY SizeAssumption DEF Init, InitLimiter, WindowInv, Held
<1>2. TypeOK /\ WindowInv => WindowBound
    BY SizeAssumption, BoundsAssumption DEF TypeOK, WindowInv, WindowBound, Held
<1>. QED  BY <1>1, <1>2, TypeOKInit, TypeOKStep, WindowInvStep, PTL DEF Spec

-----------------------------------------------------------------------------
(* Stop.                                                                   *)

StopInv ==
    /\ stopper = "done" => tokens = 0 /\ closed = TRUE
    /\ stopper \in {"closed", "done"} => closed = TRUE

LEMMA StopInvStep == TypeOK /\ StopInv /\ [Next]_rlVars => StopInv'
<1>. SUFFICES ASSUME TypeOK, StopInv, Steps \/ UNCHANGED rlVars PROVE StopInv'
    BY NextSteps
<1>. USE SizeAssumption DEF TypeOK, StopInv
<1>1. CASE SendToken
    <2>1. closed = TRUE => tokens' = tokens
        BY <1>1 DEF SendToken
    <2>2. closed' = closed /\ stopper' = stopper
        BY <1>1 DEF SendToken
    <2>. QED  BY <2>1, <2>2
<1>2. CASE ClearChannel
    <2>1. stopper' = "done" => tokens' = 0
        BY <1>2 DEF ClearChannel
    <2>. QED  BY <1>2, <2>1 DEF ClearChannel
<1>3. CASE Tick \/ ReceiveTick \/ GetToken \/ GetLimited \/ StopTicker \/ CloseTokens
             \/ OpenWindow \/ UNCHANGED rlVars
    BY <1>3 DEF Tick, ReceiveTick, GetToken, GetLimited, StopTicker, CloseTokens, OpenWindow,
                rlVars, limiter
<1>. QED  BY <1>1, <1>2, <1>3 DEF Steps

\* Once Stop has returned no Get succeeds, whatever the refresh goroutine still
\* had in hand.
THEOREM NothingAfterStop == Spec => NoGrantAfterStop
<1>1. Init => StopInv
    BY DEF Init, InitLimiter, StopInv
<1>2. TypeOK /\ StopInv /\ [Next]_rlVars => [stopper = "done" => granted' = granted]_rlVars
    <2>. SUFFICES ASSUME TypeOK, StopInv, Steps \/ UNCHANGED rlVars, stopper = "done"
                  PROVE  granted' = granted
        BY NextSteps, Zenon
    <2>1. CASE GetToken
        BY <2>1 DEF GetToken, StopInv
    <2>2. CASE ~GetToken
        BY <2>2 DEF Steps, Tick, ReceiveTick, SendToken, GetLimited, StopTicker, CloseTokens,
                    ClearChannel, OpenWindow, rlVars, limiter
    <2>. QED  BY <2>1, <2>2
<1>. QED  BY <1>1, <1>2, TypeOKInit, TypeOKStep, StopInvStep, PTL DEF Spec, NoGrantAfterStop

-----------------------------------------------------------------------------
(* Why an exhausted limiter recovers: the goroutine that refills it is     *)
(* there as long as its ticker runs.                                       *)

PanicNeedsClose ==
    /\ refresher = "panicked" => closed = TRUE
    /\ closed = TRUE => stopper \in {"closed", "done"}
    /\ ticker = "running" <=> stopper = "none"

\* While nobody has called Stop the refresh goroutine waits for a tick or holds one.
RefresherLives == ticker = "running" => refresher \in {"wait", "hold"}

LEMMA PanicStep == PanicNeedsClose /\ [Next]_rlVars => PanicNeedsClose'
<1>. SUFFICES ASSUME PanicNeedsClose, Steps \/ UNCHANGED rlVars PROVE PanicNeedsClose'
    BY NextSteps
<1>. USE DEF PanicNeedsClose
<1>1. CASE SendToken
    BY <1>1 DEF SendToken
<1>2. CASE StopTicker \/ CloseTokens
    BY <1>2 DEF StopTicker, CloseTokens
<1>3. CASE ClearChannel
    <2>1. /\ UNCHANGED <<closed, ticker, refresher>>
          /\ stopper = "closed" /\ stopper' \in {"closed", "done"}
        BY <1>3 DEF ClearChannel
    <2>. QED  BY <2>1
<1>4. CASE Tick \/ ReceiveTick \/ GetToken \/ GetLimited \/ OpenWindow \/ UNCHANGED rlVars
    BY <1>4 DEF Tick, ReceiveTick, GetToken, GetLimited, OpenWindow, rlVars, limiter
<1>. QED  BY <1>1, <1>2, <1>3, <1>4 DEF Steps

\* The send on the closed channel, which kills the process, takes a Stop that has
\* closed it: neither a full channel nor any number of Gets ends the refilling.
THEOREM PanicNeedsStop == Spec => [](PanicNeedsClose /\ RefresherLives)
<1>1. Init => PanicNeedsClose
    BY DEF Init, InitLimiter, PanicNeedsClose
<1>2. TypeOK /\ PanicNeedsClose => RefresherLives
    BY DEF TypeOK, PanicNeedsClose, RefresherLives
<1>. QED  BY <1>1, <1>2, PanicStep, TypeOKInit, TypeOKStep, PTL DEF Spec

-----------------------------------------------------------------------------
(* The limiter implements TokenBucket: a tick is a credit earned (or lost, *)
(* when ticker.C is full), a Get spends one, a tick that finds the channel *)
(* full and the draining of Stop forfeit credits.                          *)

LEMMA BucketInit == Init => Bucket!Init
BY SizeAssumption DEF Init, InitLimiter, Bucket!Init, Held

LEMMA BucketStep ==
    TypeOK /\ [Next]_rlVars => [Bucket!Next]_<<tokens + tickC + Held, granted>>
<1>. SUFFICES ASSUME TypeOK, Steps \/ UNCHANGED rlVars
              PROVE  Bucket!Next \/ UNCHANGED <<tokens + tickC + Held, granted>>
    BY NextSteps
<1>. USE SizeAssumption, BoundsAssumption DEF TypeOK, Held
<1>1. CASE Tick
    <2>1. CASE tickC = 0
        BY <1>1, <2>1 DEF Tick, Bucket!Next, Bucket!Earn
    <2>2. CASE tickC = 1
        BY <1>1, <2>2 DEF Tick
    <2>. QED  BY <2>1, <2>2
<1>2. CASE ReceiveTick
    BY <1>2 DEF ReceiveTick
<1>3. CASE SendToken
    <2>1. tokens' = tokens \/ tokens' = tokens + 1
        BY <1>3 DEF SendToken
    <2>2. refresher = "hold" /\ refresher' # "hold" /\ tickC' = tickC /\ granted' = granted
        BY <1>3 DEF SendToken
    <2>3. Held = 1 /\ Held' = 0
        BY <2>2
    <2>4. tokens' + tickC' + Held' \in 0 .. (tokens + tickC + Held)
        <3>1. tokens \in Nat /\ tickC \in Nat /\ tickC' = tickC
            BY <2>2
        <3>2. tokens' + tickC' + 0 \in 0 .. (tokens + tickC + 1)
            BY <2>1, <3>1
        <3>. QED  BY <2>3, <3>2, Zenon
    <2>. QED  BY <2>2, <2>4, Zenon DEF Bucket!Next, Bucket!Forfeit
<1>4. CASE GetToken
    BY <1>4 DEF GetToken, Bucket!Next, Bucket!Spend
<1>5. CASE ClearChannel
    BY <1>5 DEF ClearChannel, Bucket!Next, Bucket!Forfeit
<1>6. CASE GetLimited \/ StopTicker \/ CloseTokens \/ OpenWindow \/ UNCHANGED rlVars
    BY <1>6 DEF GetLimited, StopTicker, CloseTokens, OpenWindow, rlVars, limiter
<1>. QED  BY <1>1, <1>2, <1>3, <1>4, <1>5, <1>6 DEF Steps

\* Every behaviour of the limiter is one of a token bucket of capacity Size + 2.
THEOREM ImplementsTokenBucket == Spec => IsTokenBucket
BY TypeOKInit, TypeOKStep, BucketInit, BucketStep, PTL DEF Spec, IsTokenBucket, Bucket!Spec

=============================================================================
