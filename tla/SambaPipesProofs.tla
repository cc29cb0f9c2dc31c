-------------------------- MODULE SambaPipesProofs --------------------------
(***************************************************************************)
(* Proofs about SambaPipes, for any tables, any number of calls and any    *)
(* setting of the fault switches.                                          *)
(***************************************************************************)
EXTENDS SambaPipes, SequenceTheorems, FiniteSetTheorems, TLAPS

-----------------------------------------------------------------------------
(* Lemmas about the elements of a sequence.                                *)

LEMMA ElementsEmpty == Elements(<<>>) = {}
BY DEF Elements

LEMMA ElementsAppend ==
    ASSUME NEW S, NEW s \in Seq(S), NEW e \in S
    PROVE  Elements(Append(s, e)) = Elements(s) \cup {e}
<1>1. Len(Append(s, e)) = Len(s) + 1 /\ DOMAIN s = 1 .. Len(s) /\ Len(s) \in Nat
    OBVIOUS
<1>2. \A i \in 1 .. Len(s) : Append(s, e)[i] = s[i]
    OBVIOUS
<1>3. Append(s, e)[Len(s) + 1] = e
    OBVIOUS
<1>4. DOMAIN Append(s, e) = 1 .. Len(s) + 1
    BY <1>1
<1>5. ASSUME NEW x
      PROVE  x \in Elements(Append(s, e)) <=> x \in Elements(s) \cup {e}
    BY <1>1, <1>2, <1>3, <1>4 DEF Elements
<1>. QED  BY <1>5

LEMMA ElementsHeadTail ==
    ASSUME NEW S, NEW s \in Seq(S), s # <<>>
    PROVE  /\ Head(s) \in Elements(s)
           /\ Elements(Tail(s)) \subseteq Elements(s)
           /\ \A x \in Elements(s) : x = Head(s) \/ x \in Elements(Tail(s))
<1>1. Len(s) \in Nat /\ Len(s) > 0 /\ DOMAIN s = 1 .. Len(s)
    BY EmptySeq, LenProperties
<1>2. Head(s) = s[1]
    OBVIOUS
<1>3. Tail(s) \in Seq(S) /\ Len(Tail(s)) = Len(s) - 1
    BY <1>1
<1>4. \A i \in 1 .. Len(s) - 1 : Tail(s)[i] = s[i + 1]
    BY <1>1
<1>5. DOMAIN Tail(s) = 1 .. Len(s) - 1
    BY <1>3, LenProperties
<1>6. Elements(Tail(s)) \subseteq Elements(s)
    BY <1>1, <1>4, <1>5 DEF Elements
<1>7. ASSUME NEW x \in Elements(s), x # Head(s)
      PROVE  x \in Elements(Tail(s))
    <2>1. PICK i \in 1 .. Len(s) : x = s[i]
        BY <1>1 DEF Elements
    <2>2. i - 1 \in 1 .. Len(s) - 1 /\ Tail(s)[i - 1] = x
        BY <2>1, <1>1, <1>2, <1>4, <1>7
    <2>. QED  BY <2>2, <1>5 DEF Elements
<1>. QED  BY <1>1, <1>2, <1>6, <1>7 DEF Elements

LEMMA ElementsOfType ==
    ASSUME NEW S, NEW s \in Seq(S)
    PROVE  Elements(s) \subseteq S
BY LenProperties, ElementOfSeq DEF Elements

-----------------------------------------------------------------------------
(* Type correctness.  A front that is past its select has an error to send,*)
(* and a running call has a number.                                        *)

TypeInv ==
    /\ TypeOK
    /\ collecting => calls # 0
    /\ \A j \in Jobs : front[j] \in {"clear", "err", "done"} => frontErr[j] \in Errors

LEMMA ClearIsMessage == Clear \in Messages
BY DEF Clear, Messages

LEMMA JobType == \A j \in Jobs : j[1] \in Calls /\ j[2] \in RequestTypes
BY DEF Jobs

LEMMA TypeInvInit == Init => TypeInv
<1>. SUFFICES ASSUME Init PROVE TypeInv
    OBVIOUS
<1>1. <<>> \in Seq(Messages) /\ {} \subseteq Messages
    OBVIOUS
<1>2. front \in [Jobs -> FrontStates] /\ worker \in [Jobs -> WorkerStates]
    BY DEF Init, FrontStates, WorkerStates
<1>3. errBuf \in [Calls -> {<<>>} \cup {<<e>> : e \in Errors}]
    BY DEF Init
<1>4. callErr \in [Calls -> Errors \cup {"none"}] /\ frontErr \in [Jobs -> Errors \cup {"none"}]
    BY DEF Init
<1>5. \A j \in Jobs : front[j] \notin {"clear", "err", "done"}
    BY DEF Init
<1>6. result \in [Jobs -> {"none", "data", "error"}]
    BY DEF Init
<1>7. calls \in 0 .. MaxCalls /\ collecting = FALSE
    BY MaxCallsAssumption DEF Init
<1>. QED
    BY <1>1, <1>2, <1>3, <1>4, <1>5, <1>6, <1>7, ClearIsMessage DEF Init, TypeInv, TypeOK

LEMMA TypeInvStep == TypeInv /\ [Next]_vars => TypeInv'
<1>. SUFFICES ASSUME TypeInv, [Next]_vars PROVE TypeInv'
    OBVIOUS
<1>. USE DEF TypeInv, TypeOK, FrontStates, WorkerStates, Errors
<1>. USE DEF callVars, frontVars, workerVars, daemonVars, pipeVars
<1>. USE ClearIsMessage, JobType, MaxCallsAssumption
<1>1. CASE StartCall
    BY <1>1 DEF StartCall
<1>2. CASE ReturnCall
    <2>1. calls \in Calls
        BY <1>2 DEF ReturnCall, Calls
    <2>2. PICK e \in Errors : errBuf[calls] = <<e>>
        BY <1>2, <2>1 DEF ReturnCall
    <2>3. Head(errBuf[calls]) = e /\ Tail(errBuf[calls]) = <<>>
        BY <2>2
    <2>. QED  BY <1>2, <2>1, <2>3 DEF ReturnCall, PanicsOn
<1>3. ASSUME NEW j \in Jobs, FrontResult(j) PROVE TypeInv'
    BY <1>3 DEF FrontResult
<1>4. ASSUME NEW j \in Jobs, FrontTimeout(j) PROVE TypeInv'
    BY <1>4 DEF FrontTimeout
<1>5. ASSUME NEW j \in Jobs, FrontClear(j) PROVE TypeInv'
    <2>1. reqPipe' \in Seq(Messages)
        <3>1. Append(reqPipe, Clear) \in Seq(Messages)
            BY AppendProperties
        <3>. QED  BY <1>5, <3>1 DEF FrontClear
    <2>. QED  BY <1>5, <2>1 DEF FrontClear
<1>6. ASSUME NEW j \in Jobs, FrontSendErr(j) PROVE TypeInv'
    <2>1. j[1] \in Calls
        OBVIOUS
    <2>2. errBuf[j[1]] = <<>>
        <3>1. errBuf[j[1]] = <<>> \/ \E e \in Errors : errBuf[j[1]] = <<e>>
            BY <2>1
        <3>2. \A e : Len(<<e>>) = 1
            OBVIOUS
        <3>. QED  BY <3>1, <3>2, <1>6 DEF FrontSendErr, ErrinfoCapacity
    <2>3. frontErr[j] \in Errors
        BY <1>6 DEF FrontSendErr
    <2>4. Append(errBuf[j[1]], frontErr[j]) = <<frontErr[j]>>
        BY <2>2
    <2>5. errBuf' \in [Calls -> {<<>>} \cup {<<e>> : e \in Errors}]
        BY <2>1, <2>3, <2>4, <1>6 DEF FrontSendErr, SentErr
    <2>. QED  BY <2>3, <2>5, <1>6 DEF FrontSendErr
<1>7. ASSUME NEW j \in Jobs, WorkerLock(j) PROVE TypeInv'
    BY <1>7 DEF WorkerLock, MayEnter
<1>8. ASSUME NEW j \in Jobs, WorkerWrite(j) PROVE TypeInv'
    <2>1. Request(j[2], requestCount) \in Messages
        BY DEF Request, Messages
    <2>. QED  BY <2>1, <1>8 DEF WorkerWrite
<1>9. ASSUME NEW j \in Jobs, WorkerRead(j) PROVE TypeInv'
    <2>1. Head(respPipe) \in Messages
        BY <1>9 DEF WorkerRead
    <2>2. Head(respPipe).id \in Nat
        BY <2>1 DEF Messages
    <2>. QED  BY <2>2, <1>9 DEF WorkerRead, AfterReturn
<1>10. ASSUME NEW j \in Jobs, WorkerError(j) PROVE TypeInv'
    BY <1>10 DEF WorkerError, AfterReturn
<1>11. CASE DaemonStart
    BY <1>11 DEF DaemonStart
<1>12. CASE DaemonRead
    BY <1>12 DEF DaemonRead, FirstRead
<1>13. CASE DaemonReadError
    BY <1>13 DEF DaemonReadError
<1>14. CASE DaemonPush
    BY <1>14 DEF DaemonPush
<1>15. CASE DaemonSpawn
    BY <1>15 DEF DaemonSpawn
<1>16. CASE HandlerPull
    <2>1. spawned' \in Nat
        BY <1>16 DEF HandlerPull
    <2>2. requestQueue' \in Seq(Messages) /\ handling' \subseteq Messages
        <3>1. CASE requestQueue = <<>>
            BY <1>16, <3>1 DEF HandlerPull
        <3>2. CASE requestQueue # <<>>
            <4>1. Head(requestQueue) \in Messages /\ Tail(requestQueue) \in Seq(Messages)
                BY <3>2, HeadTailProperties
            <4>2. requestQueue' = Tail(requestQueue)
                BY <1>16, <3>2, Zenon DEF HandlerPull
            <4>3. handling' = handling \cup ({Head(requestQueue)} \ {Clear})
                BY <1>16, <3>2, Zenon DEF HandlerPull
            <4>. QED  BY <4>1, <4>2, <4>3
        <3>. QED  BY <3>1, <3>2
    <2>3. up' \in BOOLEAN
        BY <1>16, Zenon DEF HandlerPull
    <2>. QED  BY <1>16, <2>1, <2>2, <2>3 DEF HandlerPull
<1>17. ASSUME NEW m \in handling, HandlerRespond(m) PROVE TypeInv'
    BY <1>17 DEF HandlerRespond
<1>18. ASSUME NEW m \in handling, HandlerExit(m) PROVE TypeInv'
    BY <1>18 DEF HandlerExit
<1>19. CASE DropRequests
    BY <1>19 DEF DropRequests
<1>20. CASE DropResponses
    BY <1>20 DEF DropResponses
<1>21. CASE UNCHANGED vars
    BY <1>21 DEF vars
<1>. QED
    BY <1>1, <1>2, <1>3, <1>4, <1>5, <1>6, <1>7, <1>8, <1>9, <1>10, <1>11, <1>12, <1>13,
       <1>14, <1>15, <1>16, <1>17, <1>18, <1>19, <1>20, <1>21
       DEF Next, PatientNext, Caller, FrontStep, WorkerStep, DaemonStep, HandlerStep, Fault

\* The variables always hold values of their types, for any constants.
THEOREM TypeCorrect == Spec => []TypeOK
<1>1. TypeInv => TypeOK
    BY DEF TypeInv
<1>. QED  BY <1>1, TypeInvInit, TypeInvStep, PTL DEF Spec

-----------------------------------------------------------------------------
(* requestMux: it is held by exactly the worker between its Lock and its   *)
(* return, calls that have not begun have no goroutines, and a worker that *)
(* waits for its response waits for the current id.                        *)

MutexInv ==
    /\ \A j \in Jobs : worker[j] \in {"write", "read"} <=> requestMux = j
    /\ \A j \in Jobs : j[1] > calls => worker[j] = "none"
    /\ requestMux # NoJob => requestCount # 0
    /\ \A j \in Jobs : worker[j] = "read" => sentId[j] = requestCount

LEMMA MutexInvInit == Init => MutexInv
BY NoJobAssumption DEF Init, MutexInv

\* Steps that leave the workers alone.
LEMMA MutexInvFrame ==
    ASSUME MutexInv, UNCHANGED workerVars, UNCHANGED calls
    PROVE  MutexInv'
BY DEF MutexInv, workerVars

LEMMA MutexInvStep == TypeInv /\ MutexInv /\ [Next]_vars => MutexInv'
<1>. SUFFICES ASSUME TypeInv, MutexInv, [Next]_vars PROVE MutexInv'
    OBVIOUS
<1>. USE DEF callVars
<1>1. CASE StartCall
    <2>1. \A j \in JobsOf(calls + 1) \cap Jobs : worker[j] = "none"
        BY DEF JobsOf, Jobs, MutexInv, TypeInv, TypeOK, Calls
    <2>2. \A j \in Jobs : worker'[j] # worker[j] => worker[j] = "none" /\ worker'[j] = "lock"
        BY <1>1, <2>1 DEF StartCall, TypeInv, TypeOK
    <2>3. \A j \in Jobs : j[1] > calls' => worker'[j] = "none"
        BY <1>1 DEF StartCall, MutexInv, TypeInv, TypeOK, JobsOf, Jobs, Calls
    <2>4. \A j \in Jobs : worker[j] \in {"write", "read"} <=> worker'[j] \in {"write", "read"}
        BY <2>2
    <2>. QED  BY <1>1, <2>2, <2>3, <2>4 DEF StartCall, MutexInv
<1>2. CASE ReturnCall
    BY <1>2, MutexInvFrame DEF ReturnCall
<1>3. ASSUME NEW j \in Jobs, FrontStep(j) \/ FrontTimeout(j) PROVE MutexInv'
    BY <1>3, MutexInvFrame
       DEF FrontStep, FrontResult, FrontTimeout, FrontClear, FrontSendErr
<1>4. ASSUME NEW j \in Jobs, WorkerLock(j) PROVE MutexInv'
    BY <1>4, NoJobAssumption DEF WorkerLock, MayEnter, MutexInv, TypeInv, TypeOK
<1>5. ASSUME NEW j \in Jobs, WorkerWrite(j) PROVE MutexInv'
    BY <1>5, NoJobAssumption DEF WorkerWrite, MutexInv, TypeInv, TypeOK
<1>6. ASSUME NEW j \in Jobs, WorkerRead(j) PROVE MutexInv'
    BY <1>6, NoJobAssumption DEF WorkerRead, AfterReturn, MutexInv, TypeInv, TypeOK
<1>7. ASSUME NEW j \in Jobs, WorkerError(j) PROVE MutexInv'
    BY <1>7, NoJobAssumption DEF WorkerError, AfterReturn, MutexInv, TypeInv, TypeOK
<1>8. CASE DaemonStart \/ DaemonStep \/ DaemonReadError
    BY <1>8, MutexInvFrame
       DEF DaemonStart, DaemonStep, DaemonRead, DaemonPush, DaemonSpawn, DaemonReadError
<1>9. CASE HandlerStep
    BY <1>9, MutexInvFrame DEF HandlerStep, HandlerPull, HandlerRespond, HandlerExit
<1>10. CASE DropRequests \/ DropResponses
    BY <1>10, MutexInvFrame DEF DropRequests, DropResponses
<1>11. CASE UNCHANGED vars
    BY <1>11, MutexInvFrame DEF vars
<1>. QED
    BY <1>1, <1>2, <1>3, <1>4, <1>5, <1>6, <1>7, <1>8, <1>9, <1>10, <1>11
       DEF Next, PatientNext, Caller, WorkerStep, Fault

-----------------------------------------------------------------------------
(* The wire, when no I/O fails.  Besides OneAtATime itself: the request or *)
(* its response is in ONE place only, once.                                *)

Requests(s) == Elements(s) \ {Clear}

OnlyClear(s) == Elements(s) \subseteq {Clear}

\* The queue holds at most one telegram that is not empty.
AtMostOneRequest(s) == \A i, k \in DOMAIN s : s[i] # Clear /\ s[k] # Clear => i = k

WireInv ==
    /\ Clear \notin handling /\ Clear \notin Elements(respPipe)
    /\ \A m \in InFlight : /\ requestMux # NoJob
                           /\ worker[requestMux] = "read"
                           /\ m = Request(requestMux[2], requestCount)
    /\ ~OnlyClear(reqPipe) => received = Clear /\ OnlyClear(requestQueue)
                                  /\ handling = {} /\ respPipe = <<>>
    /\ received # Clear => OnlyClear(requestQueue) /\ handling = {} /\ respPipe = <<>>
    /\ ~OnlyClear(requestQueue) => handling = {} /\ respPipe = <<>>
    /\ handling # {} => respPipe = <<>>
    /\ AtMostOneRequest(requestQueue)

LEMMA OnlyClearEmpty == OnlyClear(<<>>)
BY ElementsEmpty DEF OnlyClear

LEMMA OnlyClearAppend ==
    ASSUME NEW s \in Seq(Messages), NEW e \in Messages
    PROVE  OnlyClear(Append(s, e)) <=> OnlyClear(s) /\ e = Clear
BY ElementsAppend DEF OnlyClear

LEMMA PulledOnce ==
    ASSUME NEW s \in Seq(Messages), s # <<>>, AtMostOneRequest(s)
    PROVE  /\ AtMostOneRequest(Tail(s))
           /\ Head(s) # Clear => OnlyClear(Tail(s))
           /\ Head(s) # Clear => ~OnlyClear(s)
           /\ OnlyClear(s) => OnlyClear(Tail(s))
<1>1. Len(s) \in Nat /\ Len(s) > 0 /\ DOMAIN s = 1 .. Len(s)
    BY EmptySeq, LenProperties
<1>2. Tail(s) \in Seq(Messages) /\ Len(Tail(s)) = Len(s) - 1
      /\ \A i \in 1 .. Len(Tail(s)) : Tail(s)[i] = s[i + 1]
    BY HeadTailProperties
<1>3. DOMAIN Tail(s) = 1 .. Len(s) - 1
    BY <1>2, LenProperties
<1>4. AtMostOneRequest(Tail(s))
    BY <1>1, <1>2, <1>3 DEF AtMostOneRequest
<1>5. Head(s) = s[1] /\ 1 \in DOMAIN s
    BY <1>1
<1>6. Head(s) # Clear => OnlyClear(Tail(s))
    BY <1>1, <1>2, <1>3, <1>5 DEF AtMostOneRequest, OnlyClear, Elements
<1>. QED  BY <1>4, <1>6, ElementsHeadTail DEF OnlyClear

LEMMA PushedOnce ==
    ASSUME NEW s \in Seq(Messages), NEW e \in Messages,
           AtMostOneRequest(s), e # Clear => OnlyClear(s)
    PROVE  AtMostOneRequest(Append(s, e))
<1>1. Len(s) \in Nat /\ DOMAIN s = 1 .. Len(s)
    BY LenProperties
<1>2. /\ Append(s, e) \in Seq(Messages) /\ Len(Append(s, e)) = Len(s) + 1
      /\ \A i \in 1 .. Len(s) : Append(s, e)[i] = s[i]
      /\ Append(s, e)[Len(s) + 1] = e
    BY AppendProperties
<1>3. DOMAIN Append(s, e) = 1 .. Len(s) + 1
    BY <1>2, LenProperties
<1>4. OnlyClear(s) => \A i \in DOMAIN s : s[i] = Clear
    BY DEF OnlyClear, Elements
<1>. QED  BY <1>1, <1>2, <1>3, <1>4 DEF AtMostOneRequest

LEMMA WireInvInit == Init => WireInv
BY ElementsEmpty, OnlyClearEmpty DEF Init, WireInv, InFlight, AtMostOneRequest

\* Steps that touch neither the wire nor the worker that holds requestMux.
LEMMA WireInvFrame ==
    ASSUME WireInv, UNCHANGED daemonVars, UNCHANGED pipeVars,
           UNCHANGED <<requestMux, requestCount>>,
           requestMux # NoJob /\ worker[requestMux] = "read" => worker'[requestMux] = "read"
    PROVE  WireInv'
BY DEF WireInv, InFlight, daemonVars, pipeVars

\* Nothing is in flight unless some worker waits for its response.
LEMMA NothingInFlight ==
    ASSUME WireInv, ~(requestMux # NoJob /\ worker[requestMux] = "read")
    PROVE  /\ OnlyClear(reqPipe) /\ received = Clear /\ OnlyClear(requestQueue)
           /\ handling = {} /\ Elements(respPipe) = {}
           /\ InFlight = {}
BY DEF WireInv, InFlight, OnlyClear

LEMMA WireInvStep ==
    ~IOErrors /\ TypeInv /\ MutexInv /\ WireInv /\ [Next]_vars => WireInv'
<1>. SUFFICES ASSUME ~IOErrors, TypeInv, MutexInv, WireInv, [Next]_vars PROVE WireInv'
    OBVIOUS
<1>t. /\ reqPipe \in Seq(Messages) /\ respPipe \in Seq(Messages)
      /\ requestQueue \in Seq(Messages) /\ received \in Messages
      /\ handling \subseteq Messages /\ requestMux \in Jobs \cup {NoJob}
      /\ requestCount \in Nat /\ worker \in [Jobs -> WorkerStates]
    BY DEF TypeInv, TypeOK
<1>1. CASE StartCall
    <2>1. requestMux # NoJob /\ worker[requestMux] = "read" => worker'[requestMux] = "read"
        <3>1. SUFFICES ASSUME requestMux # NoJob, worker[requestMux] = "read"
                       PROVE  requestMux \notin JobsOf(calls + 1)
            BY <1>1, <1>t DEF StartCall
        <3>. QED
            <4>1. \A j \in JobsOf(calls + 1) : j[1] = calls + 1
                BY DEF JobsOf
            <4>2. calls \in Nat
                BY DEF TypeInv, TypeOK
            <4>3. requestMux \in Jobs /\ ~(requestMux[1] > calls)
                BY <3>1, <1>t DEF MutexInv
            <4>. QED  BY <4>1, <4>2, <4>3
    <2>. QED  BY <1>1, <2>1, WireInvFrame DEF StartCall
<1>2. CASE ReturnCall
    BY <1>2, WireInvFrame DEF ReturnCall, workerVars
<1>3. ASSUME NEW j \in Jobs, FrontResult(j) \/ FrontTimeout(j) \/ FrontSendErr(j)
      PROVE  WireInv'
    BY <1>3, WireInvFrame DEF FrontResult, FrontTimeout, FrontSendErr, workerVars
<1>4. ASSUME NEW j \in Jobs, FrontClear(j) PROVE WireInv'
    <2>1. /\ reqPipe' = Append(reqPipe, Clear)
          /\ UNCHANGED <<respPipe, received, requestQueue, handling, requestMux, requestCount,
                         worker>>
        BY <1>4 DEF FrontClear, workerVars, daemonVars
    <2>2. Elements(reqPipe') = Elements(reqPipe) \cup {Clear}
        BY <2>1, <1>t, ElementsAppend, ClearIsMessage
    <2>. QED  BY <2>1, <2>2 DEF WireInv, InFlight, OnlyClear
<1>5. ASSUME NEW j \in Jobs, WorkerLock(j) PROVE WireInv'
    <2>1. requestMux = NoJob
        BY <1>5 DEF WorkerLock, MayEnter
    <2>2. UNCHANGED <<reqPipe, respPipe, received, requestQueue, handling>>
        BY <1>5 DEF WorkerLock, daemonVars, pipeVars
    <2>. QED  BY <2>1, <2>2, NothingInFlight DEF WireInv, InFlight
<1>6. ASSUME NEW j \in Jobs, WorkerWrite(j) PROVE WireInv'
    <2>1. /\ requestMux = j /\ requestMux # NoJob /\ worker[requestMux] # "read"
        BY <1>6, NoJobAssumption DEF WorkerWrite, MutexInv
    <2>2. /\ reqPipe' = Append(reqPipe, Request(j[2], requestCount))
          /\ UNCHANGED <<respPipe, received, requestQueue, handling, requestMux, requestCount>>
          /\ worker'[j] = "read"
        BY <1>6, <1>t DEF WorkerWrite, daemonVars
    <2>3. Request(j[2], requestCount) \in Messages
        BY <1>t, JobType DEF Request, Messages
    <2>4. Elements(reqPipe') = Elements(reqPipe) \cup {Request(j[2], requestCount)}
        BY <2>2, <2>3, <1>t, ElementsAppend
    <2>5. /\ OnlyClear(reqPipe) /\ received = Clear /\ OnlyClear(requestQueue)
          /\ handling = {} /\ Elements(respPipe) = {}
        BY <2>1, NothingInFlight
    <2>6. respPipe = <<>>
        BY <2>5, <1>t, ElementsHeadTail
    <2>7. InFlight' \subseteq {Request(j[2], requestCount)}
        BY <2>2, <2>4, <2>5 DEF InFlight, OnlyClear
    <2>8. OnlyClear(requestQueue') /\ AtMostOneRequest(requestQueue')
        BY <2>2, <2>5 DEF WireInv
    <2>. QED  BY <2>1, <2>2, <2>5, <2>6, <2>7, <2>8, ElementsEmpty DEF WireInv
<1>7. ASSUME NEW j \in Jobs, WorkerRead(j) PROVE WireInv'
    <2>1. respPipe # <<>> /\ respPipe' = <<>>
          /\ UNCHANGED <<reqPipe, received, requestQueue, handling>>
        BY <1>7 DEF WorkerRead, daemonVars
    <2>2. OnlyClear(reqPipe) /\ received = Clear /\ OnlyClear(requestQueue) /\ handling = {}
        BY <2>1 DEF WireInv
    <2>. QED  BY <2>1, <2>2, ElementsEmpty DEF WireInv, InFlight, OnlyClear
<1>8. CASE DaemonRead
    <2>1. /\ reqPipe # <<>> /\ reqPipe' = <<>> /\ received' = Head(reqPipe)
          /\ UNCHANGED <<respPipe, requestQueue, handling, requestMux, requestCount, worker>>
        BY <1>8 DEF DaemonRead, FirstRead, workerVars
    <2>2. received' \in Elements(reqPipe)
        BY <2>1, <1>t, ElementsHeadTail
    <2>3. InFlight' \subseteq InFlight
        BY <2>1, <2>2, ElementsEmpty DEF InFlight
    <2>4. received' # Clear => ~OnlyClear(reqPipe)
        BY <2>2 DEF OnlyClear
    <2>. QED  BY <2>1, <2>3, <2>4, OnlyClearEmpty DEF WireInv
<1>9. CASE DaemonPush
    <2>1. /\ requestQueue' = Append(requestQueue, received) /\ received' = Clear
          /\ UNCHANGED <<reqPipe, respPipe, handling, requestMux, requestCount, worker>>
        BY <1>9 DEF DaemonPush, workerVars, pipeVars
    <2>2. Elements(requestQueue') = Elements(requestQueue) \cup {received}
        BY <2>1, <1>t, ElementsAppend
    <2>3. InFlight' \subseteq InFlight
        BY <2>1, <2>2 DEF InFlight
    <2>4. AtMostOneRequest(requestQueue')
        BY <2>1, <1>t, PushedOnce DEF WireInv
    <2>5. OnlyClear(requestQueue') <=> OnlyClear(requestQueue) /\ received = Clear
        BY <2>1, <1>t, OnlyClearAppend
    <2>. QED  BY <2>1, <2>3, <2>4, <2>5 DEF WireInv
<1>10. CASE HandlerPull
    <2>1. UNCHANGED <<reqPipe, respPipe, received, requestMux, requestCount, worker>>
        BY <1>10 DEF HandlerPull, workerVars, pipeVars
    <2>2. CASE requestQueue = <<>>
        <3>1. UNCHANGED <<requestQueue, handling>>
            BY <1>10, <2>2, Zenon DEF HandlerPull
        <3>. QED  BY <2>1, <3>1 DEF WireInv, InFlight
    <2>3. CASE requestQueue # <<>>
        <3>1. /\ requestQueue' = Tail(requestQueue)
              /\ handling' = handling \cup ({Head(requestQueue)} \ {Clear})
            BY <1>10, <2>3, Zenon DEF HandlerPull
        <3>2. /\ AtMostOneRequest(requestQueue')
              /\ Head(requestQueue) # Clear => OnlyClear(requestQueue')
              /\ Head(requestQueue) # Clear => ~OnlyClear(requestQueue)
              /\ OnlyClear(requestQueue) => OnlyClear(requestQueue')
            BY <3>1, <2>3, <1>t, PulledOnce DEF WireInv
        <3>3. /\ Head(requestQueue) \in Elements(requestQueue)
              /\ Elements(requestQueue') \subseteq Elements(requestQueue)
            BY <3>1, <2>3, <1>t, ElementsHeadTail
        <3>4. InFlight' \subseteq InFlight
            BY <2>1, <3>1, <3>3 DEF InFlight
        <3>. QED  BY <2>1, <3>1, <3>2, <3>4 DEF WireInv
    <2>. QED  BY <2>2, <2>3
<1>11. ASSUME NEW m \in handling, HandlerRespond(m) PROVE WireInv'
    <2>1. /\ respPipe' = Append(respPipe, m) /\ handling' = handling \ {m}
          /\ UNCHANGED <<reqPipe, received, requestQueue, requestMux, requestCount, worker>>
        BY <1>11 DEF HandlerRespond, workerVars
    <2>2. Elements(respPipe') = Elements(respPipe) \cup {m}
        BY <2>1, <1>t, ElementsAppend
    <2>3. InFlight' \subseteq InFlight
        BY <2>1, <2>2 DEF InFlight
    <2>4. \A n \in handling : n = m
        BY DEF WireInv, InFlight
    <2>. QED  BY <2>1, <2>2, <2>3, <2>4 DEF WireInv
<1>12. ASSUME NEW m \in handling, HandlerExit(m) PROVE WireInv'
    <2>1. /\ handling' = handling \ {m}
          /\ UNCHANGED <<reqPipe, respPipe, received, requestQueue, requestMux, requestCount,
                         worker>>
        BY <1>12 DEF HandlerExit, workerVars, pipeVars
    <2>2. InFlight' \subseteq InFlight
        BY <2>1 DEF InFlight
    <2>. QED  BY <2>1, <2>2 DEF WireInv
<1>13. CASE DaemonStart \/ DaemonSpawn
    BY <1>13 DEF DaemonStart, DaemonSpawn, WireInv, InFlight, workerVars, pipeVars
<1>14. CASE DropRequests
    BY <1>14, ElementsEmpty, OnlyClearEmpty
       DEF DropRequests, WireInv, InFlight, workerVars, daemonVars
<1>15. CASE DropResponses
    BY <1>15, ElementsEmpty DEF DropResponses, WireInv, InFlight, workerVars, daemonVars
<1>16. CASE DaemonReadError \/ \E j \in Jobs : WorkerError(j)
    BY <1>16 DEF DaemonReadError, WorkerError
<1>17. CASE UNCHANGED vars
    BY <1>17, WireInvFrame DEF vars, workerVars
<1>. QED
    BY <1>1, <1>2, <1>3, <1>4, <1>5, <1>6, <1>7, <1>8, <1>9, <1>10, <1>11, <1>12, <1>13,
       <1>14, <1>15, <1>16, <1>17
       DEF Next, PatientNext, Caller, FrontStep, WorkerStep, DaemonStep, HandlerStep, Fault

\* "Ensure we run only one request per time on the pipes": without I/O errors
\* whatever is on the wire is the current request of the worker that waits.
THEOREM OneRequestAtATime == Spec => []OneAtATime
<1>1. CASE IOErrors
    <2>1. OneAtATime
        BY <1>1 DEF OneAtATime
    <2>. QED  BY <2>1, PTL
<1>2. CASE ~IOErrors
    <2>1. TypeInv /\ MutexInv /\ WireInv /\ [Next]_vars => WireInv'
        BY <1>2, WireInvStep
    <2>2. WireInv => OneAtATime
        BY DEF WireInv, OneAtATime
    <2>. QED
        BY <2>1, <2>2, TypeInvInit, TypeInvStep, MutexInvInit, MutexInvStep, WireInvInit, PTL
           DEF Spec
<1>. QED  BY <1>1, <1>2

-----------------------------------------------------------------------------
(* Answers, with or without I/O errors.  Ids only grow, so what is still   *)
(* under way when a worker reads is at most as new as its own request, and *)
(* an older id never passes the header check, digits prefix or not.        *)

AnswerInv ==
    /\ \A m \in InFlight : m.id <= requestCount
    /\ \A j \in Jobs : result[j] # "none" => worker[j] = "done"
    /\ \A j \in Jobs : result[j] = "data" => gotId[j] = sentId[j] /\ sentId[j] # 0

LEMMA OlderNeverMatches ==
    ASSUME NEW m, NEW t, NEW n \in Nat \ {0}, m.id \in Nat, m.id <= n,
           CheckResponseHeader(m, t, n)
    PROVE  m.id = n
<1>1. \A i \in Nat : i <= n /\ i \div 10 = n => i = n
    OBVIOUS
<1>2. \A i \in Nat : i <= n /\ i \div 100 = n => i = n
    OBVIOUS
<1>3. \A i \in Nat : i <= n /\ i \div 1000 = n => i = n
    OBVIOUS
<1>. QED  BY <1>1, <1>2, <1>3 DEF CheckResponseHeader

LEMMA AnswerInvInit == Init => AnswerInv
BY ElementsEmpty DEF Init, AnswerInv, InFlight

\* Steps that put nothing new on the wire and leave the workers alone.
LEMMA AnswerInvFrame ==
    ASSUME AnswerInv, UNCHANGED workerVars, InFlight' \subseteq InFlight
    PROVE  AnswerInv'
BY DEF AnswerInv, workerVars

LEMMA AnswerInvStep == TypeInv /\ MutexInv /\ AnswerInv /\ [Next]_vars => AnswerInv'
<1>. SUFFICES ASSUME TypeInv, MutexInv, AnswerInv, [Next]_vars PROVE AnswerInv'
    OBVIOUS
<1>t. /\ reqPipe \in Seq(Messages) /\ respPipe \in Seq(Messages)
      /\ requestQueue \in Seq(Messages) /\ received \in Messages
      /\ handling \subseteq Messages /\ requestMux \in Jobs \cup {NoJob}
      /\ requestCount \in Nat /\ worker \in [Jobs -> WorkerStates]
      /\ result \in [Jobs -> {"none", "data", "error"}]
      /\ sentId \in [Jobs -> Nat] /\ gotId \in [Jobs -> Nat]
    BY DEF TypeInv, TypeOK
<1>1. CASE StartCall
    <2>1. \A j \in Jobs : worker[j] = "done" => worker'[j] = "done"
        <3>1. \A j \in Jobs \cap JobsOf(calls + 1) : worker[j] = "none"
            BY DEF JobsOf, MutexInv, TypeInv, TypeOK
        <3>. QED  BY <1>1, <3>1, <1>t DEF StartCall
    <2>. QED  BY <1>1, <2>1 DEF StartCall, AnswerInv, InFlight, daemonVars, pipeVars
<1>2. CASE ReturnCall
    BY <1>2, AnswerInvFrame DEF ReturnCall, InFlight, daemonVars, pipeVars
<1>3. ASSUME NEW j \in Jobs, FrontResult(j) \/ FrontTimeout(j) \/ FrontSendErr(j)
      PROVE  AnswerInv'
    BY <1>3, AnswerInvFrame
       DEF FrontResult, FrontTimeout, FrontSendErr, InFlight, daemonVars, pipeVars
<1>4. ASSUME NEW j \in Jobs, FrontClear(j) PROVE AnswerInv'
    <2>1. Elements(reqPipe') \subseteq Elements(reqPipe) \cup {Clear}
        <3>1. Elements(Append(reqPipe, Clear)) = Elements(reqPipe) \cup {Clear}
            BY <1>t, ElementsAppend, ClearIsMessage
        <3>2. reqPipe' = Append(reqPipe, Clear) \/ reqPipe' = reqPipe
            BY <1>4 DEF FrontClear
        <3>. QED  BY <3>1, <3>2
    <2>. QED  BY <1>4, <2>1, AnswerInvFrame DEF FrontClear, InFlight, daemonVars
<1>5. ASSUME NEW j \in Jobs, WorkerLock(j) PROVE AnswerInv'
    <2>1. InFlight' = InFlight /\ \A m \in InFlight : m.id \in Nat
        <3>1. InFlight \subseteq Messages
            BY <1>t, ElementsOfType DEF InFlight
        <3>. QED  BY <1>5, <3>1 DEF WorkerLock, InFlight, Messages, daemonVars, pipeVars
    <2>. QED  BY <1>5, <2>1, <1>t DEF WorkerLock, AnswerInv
<1>6. ASSUME NEW j \in Jobs, WorkerWrite(j) PROVE AnswerInv'
    <2>1. Request(j[2], requestCount) \in Messages /\ Request(j[2], requestCount).id = requestCount
        BY <1>t, JobType DEF Request, Messages
    <2>2. Elements(reqPipe') = Elements(reqPipe) \cup {Request(j[2], requestCount)}
        BY <1>6, <2>1, <1>t, ElementsAppend DEF WorkerWrite
    <2>3. InFlight' \subseteq InFlight \cup {Request(j[2], requestCount)}
        BY <1>6, <2>2 DEF WorkerWrite, InFlight, daemonVars
    <2>4. result[j] = "none"
        BY <1>6 DEF WorkerWrite, AnswerInv
    <2>5. \A i \in Jobs : i # j => sentId'[i] = sentId[i] /\ worker'[i] = worker[i]
        BY <1>6, <1>t DEF WorkerWrite
    <2>6. UNCHANGED <<result, gotId, requestCount>>
        BY <1>6 DEF WorkerWrite
    <2>7. \A m \in InFlight' : m.id <= requestCount
        BY <2>1, <2>3, <1>t DEF AnswerInv
    <2>8. \A i \in Jobs : result[i] # "none" => i # j
        BY <2>4
    <2>. QED  BY <2>5, <2>6, <2>7, <2>8 DEF AnswerInv
<1>7. ASSUME NEW j \in Jobs, WorkerRead(j) PROVE AnswerInv'
    <2>1. requestMux = j /\ sentId[j] = requestCount /\ requestCount \in Nat \ {0}
        BY <1>7, <1>t, NoJobAssumption DEF WorkerRead, MutexInv
    <2>2. Head(respPipe) \in Elements(respPipe) /\ Head(respPipe) \in Messages
        BY <1>7, <1>t, ElementsHeadTail, ElementsOfType DEF WorkerRead
    <2>3. Head(respPipe).id \in Nat /\ Head(respPipe).id <= requestCount
        <3>1. Clear.id = 0
            BY DEF Clear
        <3>. QED  BY <2>1, <2>2, <3>1 DEF AnswerInv, InFlight, Messages
    <2>4. CheckResponseHeader(Head(respPipe), j[2], requestCount)
              => Head(respPipe).id = requestCount
        BY <2>1, <2>3, OlderNeverMatches
    <2>5. result'[j] = "data" => gotId'[j] = sentId'[j] /\ sentId'[j] # 0
        BY <1>7, <1>t, <2>1, <2>4 DEF WorkerRead
    <2>6. worker'[j] = "done" /\ \A i \in Jobs : i # j =>
              /\ worker'[i] = worker[i] /\ result'[i] = result[i]
              /\ sentId'[i] = sentId[i] /\ gotId'[i] = gotId[i]
        BY <1>7, <1>t DEF WorkerRead
    <2>7. InFlight' \subseteq InFlight /\ requestCount' = requestCount
        BY <1>7, ElementsEmpty DEF WorkerRead, InFlight, daemonVars
    <2>. QED  BY <2>5, <2>6, <2>7 DEF AnswerInv
<1>8. ASSUME NEW j \in Jobs, WorkerError(j) PROVE AnswerInv'
    <2>1. InFlight' = InFlight
        BY <1>8 DEF WorkerError, InFlight, daemonVars, pipeVars
    <2>. QED  BY <1>8, <2>1, <1>t DEF WorkerError, AnswerInv
<1>9. CASE DaemonRead
    <2>1. received' \in Elements(reqPipe)
        BY <1>9, <1>t, ElementsHeadTail DEF DaemonRead, FirstRead
    <2>. QED  BY <1>9, <2>1, ElementsEmpty, AnswerInvFrame DEF DaemonRead, FirstRead, InFlight
<1>10. CASE DaemonPush
    <2>1. Elements(requestQueue') = Elements(requestQueue) \cup {received}
        BY <1>10, <1>t, ElementsAppend DEF DaemonPush
    <2>. QED  BY <1>10, <2>1, AnswerInvFrame DEF DaemonPush, InFlight, pipeVars
<1>11. CASE HandlerPull
    <2>1. UNCHANGED <<workerVars, pipeVars, received>>
        BY <1>11 DEF HandlerPull
    <2>2. CASE requestQueue = <<>>
        <3>1. UNCHANGED <<requestQueue, handling>>
            BY <1>11, <2>2, Zenon DEF HandlerPull
        <3>. QED  BY <2>1, <3>1, AnswerInvFrame DEF InFlight, pipeVars
    <2>3. CASE requestQueue # <<>>
        <3>1. /\ requestQueue' = Tail(requestQueue)
              /\ handling' = handling \cup ({Head(requestQueue)} \ {Clear})
            BY <1>11, <2>3, Zenon DEF HandlerPull
        <3>2. /\ Head(requestQueue) \in Elements(requestQueue)
              /\ Elements(requestQueue') \subseteq Elements(requestQueue)
            BY <3>1, <2>3, <1>t, ElementsHeadTail
        <3>. QED  BY <2>1, <3>1, <3>2, AnswerInvFrame DEF InFlight, pipeVars
    <2>. QED  BY <2>2, <2>3
<1>12. ASSUME NEW m \in handling, HandlerRespond(m) PROVE AnswerInv'
    <2>1. Elements(respPipe') = Elements(respPipe) \cup {m}
        BY <1>12, <1>t, ElementsAppend DEF HandlerRespond
    <2>. QED  BY <1>12, <2>1, AnswerInvFrame DEF HandlerRespond, InFlight
<1>13. ASSUME NEW m \in handling, HandlerExit(m) PROVE AnswerInv'
    BY <1>13, AnswerInvFrame DEF HandlerExit, InFlight, pipeVars
<1>14. CASE DaemonStart \/ DaemonSpawn \/ DaemonReadError
    BY <1>14, AnswerInvFrame DEF DaemonStart, DaemonSpawn, DaemonReadError, InFlight, pipeVars
<1>15. CASE DropRequests \/ DropResponses
    BY <1>15, AnswerInvFrame, ElementsEmpty
       DEF DropRequests, DropResponses, InFlight, daemonVars
<1>16. CASE UNCHANGED vars
    BY <1>16, AnswerInvFrame DEF vars, InFlight, daemonVars, pipeVars
<1>. QED
    BY <1>1, <1>2, <1>3, <1>4, <1>5, <1>6, <1>7, <1>8, <1>9, <1>10, <1>11, <1>12, <1>13,
       <1>14, <1>15, <1>16
       DEF Next, PatientNext, Caller, FrontStep, WorkerStep, DaemonStep, HandlerStep, Fault

\* A table is only ever made from the response to the request its own worker
\* wrote, whatever fails and however late the daemon answers.
THEOREM AnswersAreOwn == Spec => []OwnAnswer
<1>1. AnswerInv => OwnAnswer
    BY DEF AnswerInv, OwnAnswer
<1>. QED
    BY <1>1, TypeInvInit, TypeInvStep, MutexInvInit, MutexInvStep, AnswerInvInit,
       AnswerInvStep, PTL DEF Spec

-----------------------------------------------------------------------------
(* The wedge: with nothing in flight and a worker waiting, no step of any  *)
(* goroutine puts a request on the wire again.                             *)

LEMMA WedgeStep ==
    ASSUME ~IOErrors, TypeInv, MutexInv, WireInv, Wedged, [Next]_vars
    PROVE  (Wedged' \/ ~up') /\ result' = result
<1>t. /\ reqPipe \in Seq(Messages) /\ respPipe \in Seq(Messages)
      /\ requestQueue \in Seq(Messages) /\ requestMux \in Jobs
      /\ worker \in [Jobs -> WorkerStates] /\ up
    BY DEF TypeInv, TypeOK, Wedged
<1>1. /\ InFlight = {} /\ handling = {} /\ received = Clear
      /\ OnlyClear(reqPipe) /\ OnlyClear(requestQueue)
    BY DEF Wedged, InFlight, WireInv, OnlyClear
<1>2. respPipe = <<>>
    BY <1>t, ElementsHeadTail DEF Wedged, InFlight, WireInv
<1>3. \A j \in Jobs : worker[j] # "write" /\ requestMux # NoJob
    BY DEF MutexInv, Wedged
<1>4. SUFFICES ASSUME up'
               PROVE  /\ requestMux' = requestMux /\ worker'[requestMux] = "read"
                      /\ InFlight' = {} /\ result' = result
    <2>1. ASSUME ~up' PROVE result' = result
        <3>1. CASE ReturnCall
            BY <3>1 DEF ReturnCall, workerVars
        <3>2. CASE HandlerStep
            BY <3>2 DEF HandlerStep, HandlerPull, HandlerRespond, HandlerExit, workerVars
        <3>3. CASE ~ReturnCall /\ ~HandlerStep
            BY <3>3, <2>1, <1>t
               DEF Next, PatientNext, Caller, StartCall, FrontStep, FrontResult, FrontTimeout,
                   FrontClear, FrontSendErr, WorkerStep, WorkerLock, WorkerWrite, WorkerRead,
                   WorkerError, DaemonStart, DaemonStep, DaemonRead, DaemonPush, DaemonSpawn,
                   DaemonReadError, Fault, DropRequests, DropResponses, vars
        <3>. QED  BY <3>1, <3>2, <3>3
    <2>. QED  BY <2>1 DEF Wedged
<1>. DEFINE Goal == /\ requestMux' = requestMux /\ worker'[requestMux] = "read"
                    /\ InFlight' = {} /\ result' = result
<1>5. CASE StartCall
    <2>1. requestMux \notin JobsOf(calls + 1)
        <3>1. \A j \in JobsOf(calls + 1) : j[1] = calls + 1
            BY DEF JobsOf
        <3>2. calls \in Nat /\ ~(requestMux[1] > calls)
            BY <1>t DEF Wedged, MutexInv, TypeInv, TypeOK
        <3>. QED  BY <3>1, <3>2
    <2>. QED  BY <1>5, <2>1, <1>1, <1>t DEF StartCall, Wedged, InFlight, daemonVars, pipeVars
<1>6. CASE ReturnCall
    BY <1>6, <1>1 DEF ReturnCall, Wedged, InFlight, workerVars, daemonVars, pipeVars
<1>7. ASSUME NEW j \in Jobs, FrontResult(j) \/ FrontTimeout(j) \/ FrontSendErr(j) PROVE Goal
    BY <1>7, <1>1 DEF FrontResult, FrontTimeout, FrontSendErr, Wedged, InFlight, workerVars,
                      daemonVars, pipeVars
<1>8. ASSUME NEW j \in Jobs, FrontClear(j) PROVE Goal
    <2>1. Elements(reqPipe') \subseteq {Clear}
        BY <1>8, <1>1, <1>t, OnlyClearAppend, ClearIsMessage DEF FrontClear, OnlyClear
    <2>. QED  BY <1>8, <1>1, <2>1 DEF FrontClear, Wedged, InFlight, workerVars, daemonVars
<1>9. ASSUME NEW j \in Jobs, WorkerStep(j) \/ WorkerError(j) PROVE FALSE
    BY <1>9, <1>2, <1>3 DEF WorkerStep, WorkerLock, MayEnter, WorkerWrite, WorkerRead, WorkerError
<1>10. CASE DaemonRead
    <2>1. received' = Clear
        BY <1>10, <1>1, <1>t, ElementsHeadTail DEF DaemonRead, FirstRead, OnlyClear
    <2>. QED  BY <1>10, <2>1, <1>1, ElementsEmpty DEF DaemonRead, FirstRead, Wedged, InFlight, workerVars
<1>11. CASE DaemonPush
    <2>1. Elements(requestQueue') \subseteq {Clear}
        BY <1>11, <1>1, <1>t, OnlyClearAppend, ClearIsMessage DEF DaemonPush, OnlyClear
    <2>. QED  BY <1>11, <2>1, <1>1 DEF DaemonPush, Wedged, InFlight, workerVars, pipeVars
<1>12. CASE HandlerPull
    <2>1. UNCHANGED <<workerVars, pipeVars, received>>
        BY <1>12 DEF HandlerPull
    <2>2. Elements(requestQueue') \subseteq {Clear} /\ handling' = {}
        <3>1. CASE requestQueue = <<>>
            <4>1. UNCHANGED <<requestQueue, handling>>
                BY <1>12, <3>1, Zenon DEF HandlerPull
            <4>. QED  BY <4>1, <1>1 DEF OnlyClear
        <3>2. CASE requestQueue # <<>>
            <4>1. /\ requestQueue' = Tail(requestQueue)
                  /\ handling' = handling \cup ({Head(requestQueue)} \ {Clear})
                BY <1>12, <3>2, Zenon DEF HandlerPull
            <4>. QED  BY <4>1, <3>2, <1>1, <1>t, ElementsHeadTail DEF OnlyClear
        <3>. QED  BY <3>1, <3>2
    <2>. QED  BY <2>1, <2>2, <1>1 DEF Wedged, InFlight, workerVars, pipeVars
<1>13. ASSUME NEW m \in handling PROVE FALSE
    BY <1>13, <1>1
<1>14. CASE DaemonStart \/ DaemonSpawn \/ DaemonReadError
    BY <1>14, <1>1 DEF DaemonStart, DaemonSpawn, DaemonReadError, Wedged, InFlight, workerVars,
                       pipeVars
<1>15. CASE DropRequests \/ DropResponses
    BY <1>15, <1>1, ElementsEmpty
       DEF DropRequests, DropResponses, Wedged, InFlight, workerVars, daemonVars
<1>16. CASE UNCHANGED vars
    BY <1>16, <1>1 DEF vars, Wedged, InFlight, workerVars, daemonVars, pipeVars
<1>. QED
    BY <1>5, <1>6, <1>7, <1>8, <1>9, <1>10, <1>11, <1>12, <1>13, <1>14, <1>15, <1>16
       DEF Next, PatientNext, Caller, FrontStep, WorkerStep, DaemonStep, HandlerStep, Fault

\* One lost request is the end: without I/O errors no step but the exit of the
\* process leaves the wedge, and no table ever arrives again.
THEOREM WedgeForEver == Spec => WedgeIsPermanent
<1>1. CASE IOErrors
    <2>1. [Next]_vars => [~IOErrors /\ Wedged => (Wedged' \/ ~up') /\ result' = result]_vars
        BY <1>1
    <2>. QED  BY <2>1, PTL DEF Spec, WedgeIsPermanent
<1>2. CASE ~IOErrors
    <2>1. TypeInv /\ MutexInv /\ WireInv /\ [Next]_vars => WireInv'
        BY <1>2, WireInvStep
    <2>2. TypeInv /\ MutexInv /\ WireInv /\ [Next]_vars
              => [~IOErrors /\ Wedged => (Wedged' \/ ~up') /\ result' = result]_vars
        BY <1>2, WedgeStep
    <2>. QED
        BY <2>1, <2>2, TypeInvInit, TypeInvStep, MutexInvInit, MutexInvStep, WireInvInit, PTL
           DEF Spec, WedgeIsPermanent
<1>. QED  BY <1>1, <1>2

-----------------------------------------------------------------------------
(* The daemon: between its push and its spawn it has put one telegram more *)
(* into the queue than there are goroutines to pull one, and what it has   *)
(* in hand decides what it does next.                                      *)

DaemonInv ==
    /\ up => Len(requestQueue) = spawned + (IF daemon = "spawn" THEN 1 ELSE 0)
    /\ received # Clear => daemon = "push"
    /\ ~IOErrors => daemon # "stopped"

LEMMA DaemonInvInit == Init => DaemonInv
BY DEF Init, DaemonInv

LEMMA DaemonInvStep == TypeInv /\ DaemonInv /\ [Next]_vars => DaemonInv'
<1>. SUFFICES ASSUME TypeInv, DaemonInv, [Next]_vars PROVE DaemonInv'
    OBVIOUS
<1>t. requestQueue \in Seq(Messages) /\ received \in Messages /\ spawned \in Nat
      /\ Len(requestQueue) \in Nat
    BY LenProperties DEF TypeInv, TypeOK
<1>0. ASSUME UNCHANGED <<daemon, received, requestQueue, spawned>>, up' => up
      PROVE  DaemonInv'
    BY <1>0 DEF DaemonInv
<1>1. CASE StartCall \/ ReturnCall
    BY <1>1, <1>0 DEF StartCall, ReturnCall, daemonVars
<1>2. ASSUME NEW j \in Jobs, FrontStep(j) \/ FrontTimeout(j) PROVE DaemonInv'
    BY <1>2, <1>0 DEF FrontStep, FrontResult, FrontTimeout, FrontClear, FrontSendErr, daemonVars
<1>3. ASSUME NEW j \in Jobs, WorkerStep(j) \/ WorkerError(j) PROVE DaemonInv'
    BY <1>3, <1>0 DEF WorkerStep, WorkerLock, WorkerWrite, WorkerRead, WorkerError, daemonVars
<1>4. CASE DaemonStart \/ DaemonRead \/ DaemonReadError
    BY <1>4 DEF DaemonStart, DaemonRead, DaemonReadError, DaemonInv
<1>5. CASE DaemonPush
    <2>1. Len(requestQueue') = Len(requestQueue) + 1
        BY <1>5, <1>t, AppendProperties DEF DaemonPush
    <2>. QED  BY <1>5, <2>1, <1>t DEF DaemonPush, DaemonInv
<1>6. CASE DaemonSpawn
    BY <1>6, <1>t DEF DaemonSpawn, DaemonInv
<1>7. CASE HandlerPull
    <2>1. CASE requestQueue = <<>>
        <3>1. ~up'
            BY <1>7, <2>1, Zenon DEF HandlerPull
        <3>. QED  BY <1>7, <3>1 DEF HandlerPull, DaemonInv
    <2>2. CASE requestQueue # <<>>
        <3>1. requestQueue' = Tail(requestQueue) /\ up' = up
            BY <1>7, <2>2, Zenon DEF HandlerPull
        <3>2. Len(requestQueue') = Len(requestQueue) - 1
            BY <3>1, <2>2, <1>t, HeadTailProperties
        <3>3. spawned' = spawned - 1 /\ daemon' = daemon /\ received' = received
            BY <1>7 DEF HandlerPull
        <3>. QED  BY <3>1, <3>2, <3>3, <1>t DEF DaemonInv
    <2>. QED  BY <2>1, <2>2
<1>8. ASSUME NEW m \in handling, HandlerRespond(m) \/ HandlerExit(m) PROVE DaemonInv'
    BY <1>8, <1>0 DEF HandlerRespond, HandlerExit
<1>9. CASE DropRequests \/ DropResponses \/ UNCHANGED vars
    BY <1>9, <1>0 DEF DropRequests, DropResponses, vars, daemonVars
<1>. QED
    BY <1>1, <1>2, <1>3, <1>4, <1>5, <1>6, <1>7, <1>8, <1>9
       DEF Next, PatientNext, Caller, DaemonStep, HandlerStep, Fault

\* There is a queued telegram for every handler goroutine that has yet to pull
\* one, however the goroutines are scheduled: os.Exit(-8) is dead code.
THEOREM QueueAlwaysCovers == Spec => []QueueCoversHandlers
<1>1. TypeInv /\ DaemonInv => QueueCoversHandlers
    BY DEF TypeInv, TypeOK, DaemonInv, QueueCoversHandlers
<1>. QED  BY <1>1, TypeInvInit, TypeInvStep, DaemonInvInit, DaemonInvStep, PTL DEF Spec

-----------------------------------------------------------------------------
(* The fronts: the error a front has to send says what became of its       *)
(* table, and calls that have not begun have no fronts.                    *)

FrontInv ==
    /\ \A j \in Jobs : j[1] > calls => front[j] = "none"
    /\ \A j \in Jobs : front[j] \in {"none", "wait"} => frontErr[j] = "none"
    /\ \A j \in Jobs : front[j] = "clear" => frontErr[j] = "timeout"
    /\ \A j \in Jobs : frontErr[j] = "nil" => result[j] = "data"

LEMMA FrontInvInit == Init => FrontInv
BY DEF Init, FrontInv

\* The fronts of the call that begins have not been there before.
LEMMA NewFronts ==
    ASSUME TypeInv, FrontInv, StartCall
    PROVE  \A j \in Jobs : \/ j[1] = calls + 1 /\ front[j] = "none" /\ front'[j] = "wait"
                           \/ j[1] # calls + 1 /\ front'[j] = front[j]
<1>1. \A j \in Jobs : j \in JobsOf(calls + 1) <=> j[1] = calls + 1
    BY DEF Jobs, JobsOf
<1>2. calls \in Nat /\ front \in [Jobs -> FrontStates]
    BY MaxCallsAssumption DEF TypeInv, TypeOK
<1>. QED  BY <1>1, <1>2 DEF StartCall, FrontInv

LEMMA FrontInvStep == TypeInv /\ AnswerInv /\ FrontInv /\ [Next]_vars => FrontInv'
<1>. SUFFICES ASSUME TypeInv, AnswerInv, FrontInv, [Next]_vars PROVE FrontInv'
    OBVIOUS
<1>t. /\ calls \in Nat /\ front \in [Jobs -> FrontStates]
      /\ frontErr \in [Jobs -> Errors \cup {"none"}]
      /\ result \in [Jobs -> {"none", "data", "error"}]
    BY MaxCallsAssumption DEF TypeInv, TypeOK
\* Steps of the others: a table that is there stays.
<1>0. ASSUME UNCHANGED <<calls, front, frontErr>>,
             \A j \in Jobs : result[j] = "data" => result'[j] = "data"
      PROVE  FrontInv'
    BY <1>0 DEF FrontInv
<1>1. CASE StartCall
    <2>1. calls' = calls + 1 /\ UNCHANGED <<frontErr, result>>
        BY <1>1 DEF StartCall
    <2>2. \A j \in Jobs : j[1] \in Nat
        BY JobType, MaxCallsAssumption DEF Calls
    <2>3. \A j \in Jobs : \/ front'[j] = front[j]
                          \/ front[j] = "none" /\ front'[j] = "wait" /\ j[1] = calls'
        BY <1>1, <2>1, NewFronts
    <2>. QED  BY <2>1, <2>2, <2>3, <1>t DEF FrontInv
<1>2. CASE ReturnCall
    BY <1>2, <1>0 DEF ReturnCall, workerVars
<1>3. ASSUME NEW j \in Jobs, FrontResult(j) PROVE FrontInv'
    <2>1. UNCHANGED <<calls, result>>
        BY <1>3 DEF FrontResult, callVars, workerVars
    <2>. QED  BY <1>3, <2>1, <1>t DEF FrontResult, FrontInv
<1>4. ASSUME NEW j \in Jobs, FrontTimeout(j) PROVE FrontInv'
    <2>1. UNCHANGED <<calls, result>>
        BY <1>4 DEF FrontTimeout, callVars, workerVars
    <2>. QED  BY <1>4, <2>1, <1>t DEF FrontTimeout, FrontInv
<1>5. ASSUME NEW j \in Jobs, FrontClear(j) \/ FrontSendErr(j) PROVE FrontInv'
    <2>1. UNCHANGED <<calls, result, frontErr>>
        BY <1>5 DEF FrontClear, FrontSendErr, callVars, workerVars
    <2>. QED  BY <1>5, <2>1, <1>t DEF FrontClear, FrontSendErr, FrontInv
<1>6. ASSUME NEW j \in Jobs, WorkerStep(j) \/ WorkerError(j) PROVE FrontInv'
    <2>1. worker[j] # "done" /\ UNCHANGED <<calls, front, frontErr>>
        BY <1>6 DEF WorkerStep, WorkerLock, WorkerWrite, WorkerRead, WorkerError, callVars,
                    frontVars
    <2>2. result[j] = "none"
        BY <2>1 DEF AnswerInv
    <2>3. \A i \in Jobs : i # j => result'[i] = result[i]
        BY <1>6, <1>t DEF WorkerStep, WorkerLock, WorkerWrite, WorkerRead, WorkerError
    <2>. QED  BY <2>1, <2>2, <2>3, <1>0
<1>7. CASE DaemonStart \/ DaemonStep \/ DaemonReadError
    BY <1>7, <1>0 DEF DaemonStart, DaemonStep, DaemonRead, DaemonPush, DaemonSpawn,
                      DaemonReadError, callVars, frontVars, workerVars
<1>8. CASE HandlerStep
    BY <1>8, <1>0 DEF HandlerStep, HandlerPull, HandlerRespond, HandlerExit, callVars,
                      frontVars, workerVars
<1>9. CASE DropRequests \/ DropResponses \/ UNCHANGED vars
    BY <1>9, <1>0 DEF DropRequests, DropResponses, vars, callVars, frontVars, workerVars
<1>. QED
    BY <1>1, <1>2, <1>3, <1>4, <1>5, <1>6, <1>7, <1>8, <1>9
       DEF Next, PatientNext, Caller, FrontStep, Fault

-----------------------------------------------------------------------------
(* Loss.  As long as no front has timed out, nobody has written an empty   *)
(* telegram, and then the worker that waits has its request on the way.    *)

NoTimeout == \A j \in Jobs : frontErr[j] # "timeout"

LossInv == NoTimeout => Clear \notin Elements(reqPipe) /\ ~Wedged

LEMMA LossInvInit == Init => LossInv
BY ElementsEmpty DEF Init, LossInv, Wedged

LEMMA TimeoutStays == TypeInv /\ FrontInv /\ [Next]_vars /\ NoTimeout' => NoTimeout
<1>. SUFFICES ASSUME TypeInv, FrontInv, [Next]_vars, NEW i \in Jobs, frontErr[i] = "timeout"
              PROVE  frontErr'[i] = "timeout"
    BY DEF NoTimeout
<1>t. frontErr \in [Jobs -> Errors \cup {"none"}] /\ front[i] \notin {"none", "wait"}
    BY DEF TypeInv, TypeOK, FrontInv
<1>1. CASE StartCall \/ ReturnCall
    BY <1>1 DEF StartCall, ReturnCall
<1>2. ASSUME NEW j \in Jobs, FrontStep(j) \/ FrontTimeout(j) PROVE frontErr'[i] = "timeout"
    BY <1>2, <1>t DEF FrontStep, FrontResult, FrontTimeout, FrontClear, FrontSendErr
<1>3. ASSUME NEW j \in Jobs, WorkerStep(j) \/ WorkerError(j) PROVE frontErr'[i] = "timeout"
    BY <1>3 DEF WorkerStep, WorkerLock, WorkerWrite, WorkerRead, WorkerError, frontVars
<1>4. CASE DaemonStart \/ DaemonStep \/ DaemonReadError
    BY <1>4 DEF DaemonStart, DaemonStep, DaemonRead, DaemonPush, DaemonSpawn,
                DaemonReadError, frontVars
<1>5. CASE HandlerStep
    BY <1>5 DEF HandlerStep, HandlerPull, HandlerRespond, HandlerExit, frontVars
<1>6. CASE DropRequests \/ DropResponses \/ UNCHANGED vars
    BY <1>6 DEF DropRequests, DropResponses, vars, frontVars
<1>. QED
    BY <1>1, <1>2, <1>3, <1>4, <1>5, <1>6 DEF Next, PatientNext, Caller, Fault

LEMMA LossInvStep ==
    ~IOErrors /\ ~Finalizers /\ TypeInv /\ MutexInv /\ FrontInv /\ LossInv /\ [Next]_vars
        => LossInv'
<1>. SUFFICES ASSUME ~IOErrors, ~Finalizers, TypeInv, MutexInv, FrontInv, LossInv,
                     [Next]_vars, NoTimeout'
              PROVE  (Clear \notin Elements(reqPipe) /\ ~Wedged)'
    BY DEF LossInv
<1>. DEFINE Goal == Clear \notin Elements(reqPipe') /\ ~Wedged'
<1>g. SUFFICES Goal
    OBVIOUS
<1>n. NoTimeout /\ Clear \notin Elements(reqPipe) /\ ~Wedged
    BY TimeoutStays DEF LossInv
<1>t. /\ reqPipe \in Seq(Messages) /\ respPipe \in Seq(Messages)
      /\ requestQueue \in Seq(Messages) /\ received \in Messages
      /\ handling \subseteq Messages /\ requestMux \in Jobs \cup {NoJob}
      /\ requestCount \in Nat /\ worker \in [Jobs -> WorkerStates] /\ calls \in Nat
    BY MaxCallsAssumption DEF TypeInv, TypeOK
\* Steps that keep on the way what is there, and start no waiting.
<1>0. ASSUME UNCHANGED <<reqPipe, requestMux>>, InFlight \subseteq InFlight', up' => up,
             requestMux # NoJob /\ worker'[requestMux] = "read" => worker[requestMux] = "read"
      PROVE  Goal
    BY <1>0, <1>n DEF Wedged
<1>1. CASE StartCall
    <2>1. \A j \in Jobs : worker'[j] = "read" => worker[j] = "read"
        BY <1>1, <1>t DEF StartCall
    <2>. QED  BY <1>1, <2>1, <1>0, <1>t DEF StartCall, InFlight, daemonVars, pipeVars
<1>2. CASE ReturnCall
    BY <1>2, <1>0 DEF ReturnCall, InFlight, workerVars, daemonVars, pipeVars
<1>3. ASSUME NEW j \in Jobs, FrontResult(j) \/ FrontSendErr(j) \/ FrontTimeout(j) PROVE Goal
    BY <1>3, <1>0 DEF FrontResult, FrontSendErr, FrontTimeout, InFlight, workerVars,
                      daemonVars, pipeVars
<1>4. ASSUME NEW j \in Jobs, FrontClear(j) PROVE FALSE
    BY <1>4, <1>n DEF FrontClear, FrontInv, NoTimeout
<1>5. ASSUME NEW j \in Jobs, WorkerLock(j) PROVE Goal
    <2>1. requestMux' = j /\ worker'[j] = "write" /\ reqPipe' = reqPipe
        BY <1>5, <1>t DEF WorkerLock, pipeVars
    <2>. QED  BY <2>1, <1>n DEF Wedged
<1>6. ASSUME NEW j \in Jobs, WorkerWrite(j) PROVE Goal
    <2>1. Request(j[2], requestCount) \in Messages /\ Request(j[2], requestCount) # Clear
        BY <1>t, JobType, NoTypeAssumption DEF Request, Messages, Clear
    <2>2. Elements(reqPipe') = Elements(reqPipe) \cup {Request(j[2], requestCount)}
        BY <1>6, <2>1, <1>t, ElementsAppend DEF WorkerWrite
    <2>3. Request(j[2], requestCount) \in InFlight'
        BY <2>1, <2>2 DEF InFlight
    <2>. QED  BY <2>1, <2>2, <2>3, <1>n DEF Wedged
<1>7. ASSUME NEW j \in Jobs, WorkerRead(j) PROVE Goal
    BY <1>7, <1>n DEF WorkerRead, AfterReturn, Wedged
<1>8. CASE DaemonRead
    <2>1. /\ reqPipe' = <<>> /\ received' = Head(reqPipe) /\ reqPipe # <<>>
          /\ UNCHANGED <<requestQueue, handling, respPipe, requestMux, worker, up>>
        BY <1>8 DEF DaemonRead, FirstRead, workerVars
    <2>2. received' # Clear
        BY <2>1, <1>t, <1>n, ElementsHeadTail
    <2>3. received' \in InFlight'
        BY <2>2 DEF InFlight
    <2>. QED  BY <2>1, <2>3, ElementsEmpty DEF Wedged
<1>9. CASE DaemonPush
    <2>1. /\ requestQueue' = Append(requestQueue, received)
          /\ UNCHANGED <<reqPipe, respPipe, handling, requestMux, worker, up>>
        BY <1>9 DEF DaemonPush, workerVars, pipeVars
    <2>2. Elements(requestQueue') = Elements(requestQueue) \cup {received}
        BY <2>1, <1>t, ElementsAppend
    <2>3. InFlight \subseteq InFlight'
        BY <2>1, <2>2 DEF InFlight
    <2>. QED  BY <2>1, <2>3, <1>0
<1>10. CASE HandlerPull
    <2>1. UNCHANGED <<reqPipe, respPipe, received, requestMux, worker>> /\ (up' => up)
        BY <1>10 DEF HandlerPull, workerVars, pipeVars
    <2>2. CASE requestQueue = <<>>
        <3>1. UNCHANGED <<requestQueue, handling>>
            BY <1>10, <2>2, Zenon DEF HandlerPull
        <3>. QED  BY <2>1, <3>1, <1>0 DEF InFlight
    <2>3. CASE requestQueue # <<>>
        <3>1. /\ requestQueue' = Tail(requestQueue)
              /\ handling' = handling \cup ({Head(requestQueue)} \ {Clear})
            BY <1>10, <2>3, Zenon DEF HandlerPull
        <3>2. \A m \in Elements(requestQueue) :
                  m = Head(requestQueue) \/ m \in Elements(requestQueue')
            BY <3>1, <2>3, <1>t, ElementsHeadTail
        <3>3. InFlight \subseteq InFlight'
            BY <2>1, <3>1, <3>2 DEF InFlight
        <3>. QED  BY <2>1, <3>3, <1>0
    <2>. QED  BY <2>2, <2>3
<1>11. ASSUME NEW m \in handling, HandlerRespond(m) PROVE Goal
    <2>1. Elements(respPipe') = Elements(respPipe) \cup {m}
        BY <1>11, <1>t, ElementsAppend DEF HandlerRespond
    <2>2. InFlight \subseteq InFlight'
        BY <1>11, <2>1 DEF HandlerRespond, InFlight
    <2>. QED  BY <1>11, <2>2, <1>0 DEF HandlerRespond, workerVars
<1>12. ASSUME NEW m \in handling, HandlerExit(m) PROVE Goal
    BY <1>12, <1>n DEF HandlerExit, Wedged, pipeVars
<1>13. CASE DaemonStart \/ DaemonSpawn
    BY <1>13, <1>0 DEF DaemonStart, DaemonSpawn, InFlight, workerVars, pipeVars
<1>14. CASE UNCHANGED vars
    BY <1>14, <1>0 DEF vars, InFlight, workerVars, daemonVars, pipeVars
<1>15. CASE Fault
    BY <1>15 DEF Fault, DropRequests, DropResponses, DaemonReadError, WorkerError
<1>. HIDE DEF Goal
<1>. QED
    BY <1>1, <1>2, <1>3, <1>4, <1>5, <1>6, <1>7, <1>8, <1>9, <1>10, <1>11, <1>12, <1>13,
       <1>14, <1>15
       DEF Next, PatientNext, Caller, FrontStep, WorkerStep, DaemonStep, HandlerStep

\* When no I/O fails and no pipe loses its contents, a request is only lost
\* after some front has timed out.
THEOREM LossNeedsATimeout == Spec => []LossNeedsTimeout
<1>1. CASE IOErrors \/ Finalizers
    <2>1. LossNeedsTimeout
        BY <1>1 DEF LossNeedsTimeout
    <2>. QED  BY <2>1, PTL
<1>2. CASE ~IOErrors /\ ~Finalizers
    <2>1. TypeInv /\ MutexInv /\ FrontInv /\ LossInv /\ [Next]_vars => LossInv'
        BY <1>2, LossInvStep
    <2>2. LossInv => LossNeedsTimeout
        BY DEF LossInv, LossNeedsTimeout, NoTimeout
    <2>. QED
        BY <2>1, <2>2, TypeInvInit, TypeInvStep, MutexInvInit, MutexInvStep, AnswerInvInit,
           AnswerInvStep, FrontInvInit, FrontInvStep, LossInvInit, PTL DEF Spec
<1>. QED  BY <1>1, <1>2

LEMMA PatientSteps == [PatientNext]_vars => [Next]_vars
BY DEF Next

LEMMA NoTimerNoTimeout == TypeInv /\ NoTimeout /\ [PatientNext]_vars => NoTimeout'
<1>. SUFFICES ASSUME TypeInv, NoTimeout, [PatientNext]_vars PROVE NoTimeout'
    OBVIOUS
<1>t. frontErr \in [Jobs -> Errors \cup {"none"}]
    BY DEF TypeInv, TypeOK
<1>0. ASSUME UNCHANGED frontErr PROVE NoTimeout'
    BY <1>0 DEF NoTimeout
<1>1. CASE Caller
    BY <1>1, <1>0 DEF Caller, StartCall, ReturnCall
<1>2. ASSUME NEW j \in Jobs, FrontStep(j) PROVE NoTimeout'
    BY <1>2, <1>t DEF FrontStep, FrontResult, FrontClear, FrontSendErr, NoTimeout
<1>3. ASSUME NEW j \in Jobs, WorkerStep(j) \/ WorkerError(j) PROVE NoTimeout'
    BY <1>3, <1>0 DEF WorkerStep, WorkerLock, WorkerWrite, WorkerRead, WorkerError, frontVars
<1>4. CASE DaemonStart \/ DaemonStep \/ DaemonReadError
    BY <1>4, <1>0 DEF DaemonStart, DaemonStep, DaemonRead, DaemonPush, DaemonSpawn,
                      DaemonReadError, frontVars
<1>5. CASE HandlerStep
    BY <1>5, <1>0 DEF HandlerStep, HandlerPull, HandlerRespond, HandlerExit, frontVars
<1>6. CASE DropRequests \/ DropResponses \/ UNCHANGED vars
    BY <1>6, <1>0 DEF DropRequests, DropResponses, vars, frontVars
<1>. QED
    BY <1>1, <1>2, <1>3, <1>4, <1>5, <1>6 DEF PatientNext, Fault

\* So the empty telegram is the whole trouble: with timers that never fire and
\* nothing that fails, no request is ever lost, for any number of tables.
THEOREM PatienceLosesNothing == ~IOErrors /\ ~Finalizers => (PatientSpec => []NoRequestLost)
<1>. SUFFICES ASSUME ~IOErrors, ~Finalizers PROVE PatientSpec => []NoRequestLost
    OBVIOUS
<1>1. Init => NoTimeout
    BY DEF Init, NoTimeout
<1>2. TypeInv /\ MutexInv /\ FrontInv /\ LossInv /\ [Next]_vars => LossInv'
    BY LossInvStep
<1>3. LossInv /\ NoTimeout => NoRequestLost
    BY DEF LossInv, NoRequestLost
<1>. QED
    BY <1>1, <1>2, <1>3, PatientSteps, NoTimerNoTimeout, TypeInvInit, TypeInvStep,
       MutexInvInit, MutexInvStep, AnswerInvInit, AnswerInvStep, FrontInvInit, FrontInvStep,
       LossInvInit, PTL DEF PatientSpec

-----------------------------------------------------------------------------
(* The errors of a call: each front that has finished has put one error    *)
(* into errinfo, and of these at most one is taken out, by the return.     *)

Finished(c) == {j \in JobsOf(c) : front[j] = "done"}

Taken(c) == IF callErr[c] = "none" THEN 0 ELSE 1

ErrInv ==
    \A c \in Calls :
        /\ c > calls \/ (c = calls /\ collecting) => callErr[c] = "none"
        /\ errBuf[c] # <<>> => \E j \in Finished(c) : errBuf[c] = <<frontErr[j]>>
        /\ callErr[c] # "none" => \E j \in Finished(c) : callErr[c] = frontErr[j]
        /\ IsFiniteSet(Finished(c))
        /\ Cardinality(Finished(c)) = Len(errBuf[c]) + Taken(c)

LEMMA JobsOfCall == \A c \in Calls : \A j : j \in JobsOf(c) <=> j \in Jobs /\ j[1] = c
BY DEF JobsOf, Jobs

LEMMA ErrInvInit == Init => ErrInv
<1>. SUFFICES ASSUME Init PROVE ErrInv
    OBVIOUS
<1>1. \A c \in Calls : Finished(c) = {}
    BY JobsOfCall DEF Init, Finished
<1>2. \A c \in Calls : callErr[c] = "none" /\ errBuf[c] = <<>>
    BY DEF Init
<1>3. Len(<<>>) = 0
    OBVIOUS
<1>4. IsFiniteSet({}) /\ Cardinality({}) = 0
    BY FS_EmptySet
<1>5. \A c \in Calls : Taken(c) = 0
    BY <1>2 DEF Taken
<1>6. ASSUME NEW c \in Calls
      PROVE  IsFiniteSet(Finished(c)) /\ Cardinality(Finished(c)) = Len(errBuf[c]) + Taken(c)
    <2>1. Finished(c) = {} /\ errBuf[c] = <<>> /\ Taken(c) = 0
        BY <1>1, <1>2, <1>5
    <2>2. Len(errBuf[c]) = 0
        BY <2>1, <1>3
    <2>3. Cardinality(Finished(c)) = 0 /\ IsFiniteSet(Finished(c))
        BY <2>1, <1>4
    <2>. QED  BY <2>1, <2>2, <2>3
<1>. QED  BY <1>2, <1>6 DEF ErrInv

\* Steps that finish no front and leave the errors alone.
LEMMA ErrInvFrame ==
    ASSUME ErrInv, UNCHANGED callVars, UNCHANGED errBuf,
           \A j \in Jobs : front'[j] = "done" <=> front[j] = "done",
           \A j \in Jobs : front[j] = "done" => frontErr'[j] = frontErr[j]
    PROVE  ErrInv'
<1>1. \A c \in Calls : Finished(c)' = Finished(c)
    BY JobsOfCall DEF Finished
<1>2. \A c \in Calls : \A j \in Finished(c) : frontErr'[j] = frontErr[j]
    BY JobsOfCall DEF Finished
<1>3. \A c \in Calls : Taken(c)' = Taken(c)
    BY DEF Taken, callVars
<1>. QED  BY <1>1, <1>2, <1>3 DEF ErrInv, callVars, Calls

LEMMA ErrInvStep == TypeInv /\ FrontInv /\ ErrInv /\ [Next]_vars => ErrInv'
<1>. SUFFICES ASSUME TypeInv, FrontInv, ErrInv, [Next]_vars PROVE ErrInv'
    OBVIOUS
<1>t. /\ calls \in Nat /\ front \in [Jobs -> FrontStates]
      /\ frontErr \in [Jobs -> Errors \cup {"none"}]
      /\ callErr \in [Calls -> Errors \cup {"none"}]
      /\ errBuf \in [Calls -> {<<>>} \cup {<<e>> : e \in Errors}]
      /\ Calls \subseteq Nat
    BY MaxCallsAssumption DEF TypeInv, TypeOK, Calls
<1>l. Len(<<>>) = 0 /\ \A e : Len(<<e>>) = 1 /\ <<e>> # <<>> /\ Head(<<e>>) = e
                              /\ Tail(<<e>>) = <<>> /\ Append(<<>>, e) = <<e>>
    OBVIOUS
<1>e. "none" \notin Errors
    BY DEF Errors
<1>1. CASE StartCall
    <2>1. calls' = calls + 1 /\ collecting' /\ ~collecting
          /\ UNCHANGED <<callErr, errBuf, frontErr>>
        BY <1>1 DEF StartCall
    <2>2. \A c \in Calls : Finished(c)' = Finished(c)
        BY <1>1, NewFronts, JobsOfCall DEF Finished
    <2>3. ASSUME NEW c \in Calls, c > calls' \/ (c = calls' /\ collecting')
          PROVE  callErr'[c] = "none"
        <3>1. c > calls
            BY <2>1, <2>3, <1>t
        <3>. QED  BY <3>1, <2>1 DEF ErrInv
    <2>4. \A c \in Calls : Taken(c)' = Taken(c)
        BY <2>1 DEF Taken
    <2>. QED  BY <2>1, <2>2, <2>3, <2>4 DEF ErrInv, Calls
<1>2. CASE ReturnCall
    <2>1. /\ collecting /\ ~collecting' /\ calls' = calls /\ errBuf[calls] # <<>>
          /\ callErr' = [callErr EXCEPT ![calls] = Head(errBuf[calls])]
          /\ errBuf' = [errBuf EXCEPT ![calls] = Tail(@)]
          /\ UNCHANGED <<front, frontErr>>
        BY <1>2 DEF ReturnCall
    <2>2. calls \in Calls
        BY <2>1, MaxCallsAssumption DEF TypeInv, TypeOK, Calls
    <2>3. PICK j \in Finished(calls) : errBuf[calls] = <<frontErr[j]>>
        BY <2>1, <2>2 DEF ErrInv
    <2>4. callErr[calls] = "none" /\ callErr'[calls] = frontErr[j] /\ errBuf'[calls] = <<>>
        BY <2>1, <2>2, <2>3, <1>t, <1>l DEF ErrInv
    <2>5. frontErr[j] # "none"
        <3>1. \E e \in Errors : <<frontErr[j]>> = <<e>>
            BY <2>1, <2>2, <2>3, <1>t
        <3>. QED  BY <3>1, <1>e
    <2>6. \A c \in Calls : Finished(c)' = Finished(c)
        BY <2>1 DEF Finished
    <2>7. \A c \in Calls : c # calls => callErr'[c] = callErr[c] /\ errBuf'[c] = errBuf[c]
        BY <2>1, <1>t
    <2>8. Taken(calls) = 0 /\ Taken(calls)' = 1
        BY <2>1, <2>4, <2>5 DEF Taken
    <2>9. Cardinality(Finished(calls)) = Len(errBuf'[calls]) + Taken(calls)'
        <3>1. Cardinality(Finished(calls)) = Len(errBuf[calls]) + Taken(calls)
            BY <2>2 DEF ErrInv
        <3>. QED  BY <3>1, <2>3, <2>4, <2>8, <1>l
    <2>10. \A c \in Calls : c # calls => Taken(c)' = Taken(c)
        BY <2>7 DEF Taken
    <2>11. ASSUME NEW c \in Calls
           PROVE  /\ c > calls' \/ (c = calls' /\ collecting') => callErr'[c] = "none"
                  /\ errBuf'[c] # <<>> => \E i \in Finished(c)' : errBuf'[c] = <<frontErr'[i]>>
                  /\ callErr'[c] # "none" => \E i \in Finished(c)' : callErr'[c] = frontErr'[i]
                  /\ IsFiniteSet(Finished(c)')
                  /\ Cardinality(Finished(c)') = Len(errBuf'[c]) + Taken(c)'
        <3>1. CASE c = calls
            BY <3>1, <2>1, <2>2, <2>3, <2>4, <2>6, <2>9, <1>t DEF ErrInv
        <3>2. CASE c # calls
            BY <3>2, <2>1, <2>6, <2>7, <2>10 DEF ErrInv
        <3>. QED  BY <3>1, <3>2
    <2>. QED  BY <2>11 DEF ErrInv, Calls
<1>3. ASSUME NEW j \in Jobs, FrontSendErr(j) PROVE ErrInv'
    <2>. DEFINE c == j[1]
    <2>1. /\ front[j] = "err" /\ Len(errBuf[c]) < 1
          /\ front' = [front EXCEPT ![j] = "done"]
          /\ errBuf' = [errBuf EXCEPT ![c] = Append(@, frontErr[j])]
          /\ UNCHANGED <<callVars, frontErr>>
        BY <1>3 DEF FrontSendErr, ErrinfoCapacity, SentErr
    <2>2. c \in Calls
        BY JobType
    <2>3. errBuf[c] = <<>>
        BY <2>1, <2>2, <1>t, <1>l
    <2>4. errBuf'[c] = <<frontErr[j]>>
        BY <2>1, <2>2, <2>3, <1>t, <1>l
    <2>5. Finished(c)' = Finished(c) \cup {j} /\ j \notin Finished(c)
        <3>1. ASSUME NEW i PROVE i \in Finished(c)' <=> i \in Finished(c) \cup {j}
            <4>1. i \in Finished(c)' <=> i \in Jobs /\ i[1] = c /\ front'[i] = "done"
                BY <2>2, JobsOfCall DEF Finished
            <4>2. i \in Finished(c) <=> i \in Jobs /\ i[1] = c /\ front[i] = "done"
                BY <2>2, JobsOfCall DEF Finished
            <4>. QED  BY <4>1, <4>2, <2>1, <1>t
        <3>2. j \notin Finished(c)
            BY <2>1 DEF Finished
        <3>. QED  BY <3>1, <3>2
    <2>6. ASSUME NEW d \in Calls, d # c
          PROVE  Finished(d)' = Finished(d) /\ errBuf'[d] = errBuf[d]
        BY <2>1, <2>6, <1>t, JobsOfCall DEF Finished
    <2>7. \A d \in Calls : Taken(d)' = Taken(d) /\ Taken(d) \in {0, 1}
        BY <2>1 DEF Taken, callVars
    <2>8. /\ IsFiniteSet(Finished(c)')
          /\ Cardinality(Finished(c)') = Len(errBuf'[c]) + Taken(c)'
        <3>1. IsFiniteSet(Finished(c)) /\ Cardinality(Finished(c)) = Len(errBuf[c]) + Taken(c)
            BY <2>2 DEF ErrInv
        <3>2. /\ IsFiniteSet(Finished(c) \cup {j})
              /\ Cardinality(Finished(c) \cup {j}) = Cardinality(Finished(c)) + 1
            BY <3>1, <2>5, FS_AddElement
        <3>. HIDE DEF c
        <3>. QED  BY <3>1, <3>2, <2>2, <2>3, <2>4, <2>5, <2>7, <1>l
    <2>9. ASSUME NEW d \in Calls
          PROVE  /\ d > calls' \/ (d = calls' /\ collecting') => callErr'[d] = "none"
                 /\ errBuf'[d] # <<>> => \E i \in Finished(d)' : errBuf'[d] = <<frontErr'[i]>>
                 /\ callErr'[d] # "none" => \E i \in Finished(d)' : callErr'[d] = frontErr'[i]
                 /\ IsFiniteSet(Finished(d)')
                 /\ Cardinality(Finished(d)') = Len(errBuf'[d]) + Taken(d)'
        <3>1. UNCHANGED <<calls, collecting, callErr, frontErr>>
            BY <2>1 DEF callVars
        <3>. HIDE DEF c
        <3>2. CASE d = c
            BY <3>1, <3>2, <2>4, <2>5, <2>8 DEF ErrInv
        <3>3. CASE d # c
            BY <3>1, <3>3, <2>6, <2>7 DEF ErrInv
        <3>. QED  BY <3>2, <3>3
    <2>. QED  BY <2>9 DEF ErrInv, Calls
<1>4. ASSUME NEW j \in Jobs, FrontResult(j) \/ FrontTimeout(j) \/ FrontClear(j) PROVE ErrInv'
    BY <1>4, <1>t, ErrInvFrame DEF FrontResult, FrontTimeout, FrontClear
<1>5. ASSUME NEW j \in Jobs, WorkerStep(j) \/ WorkerError(j) PROVE ErrInv'
    BY <1>5, ErrInvFrame DEF WorkerStep, WorkerLock, WorkerWrite, WorkerRead, WorkerError,
                             frontVars
<1>6. CASE DaemonStart \/ DaemonStep \/ DaemonReadError
    BY <1>6, ErrInvFrame DEF DaemonStart, DaemonStep, DaemonRead, DaemonPush, DaemonSpawn,
                             DaemonReadError, frontVars
<1>7. CASE HandlerStep
    BY <1>7, ErrInvFrame DEF HandlerStep, HandlerPull, HandlerRespond, HandlerExit, frontVars
<1>8. CASE DropRequests \/ DropResponses \/ UNCHANGED vars
    BY <1>8, ErrInvFrame DEF DropRequests, DropResponses, vars, frontVars
<1>. QED
    BY <1>1, <1>2, <1>3, <1>4, <1>5, <1>6, <1>7, <1>8
       DEF Next, PatientNext, Caller, FrontStep, Fault

\* Of the fronts of a call at most one finishes before the call returns and one
\* after it, however many tables there are: the others never do.
THEOREM FrontsAreLeft == Spec => []FrontsLeftBehind
<1>1. TypeInv /\ ErrInv => FrontsLeftBehind
    <2>. SUFFICES ASSUME TypeInv, ErrInv, NEW c \in Calls
                  PROVE  Cardinality(Finished(c)) <= (IF callErr[c] = "none" THEN 1 ELSE 2)
        BY DEF FrontsLeftBehind, Finished
    <2>1. errBuf[c] = <<>> \/ \E e \in Errors : errBuf[c] = <<e>>
        BY DEF TypeInv, TypeOK
    <2>2. Len(<<>>) = 0 /\ \A e : Len(<<e>>) = 1
        OBVIOUS
    <2>3. Len(errBuf[c]) = 0 \/ Len(errBuf[c]) = 1
        BY <2>1, <2>2
    <2>4. Cardinality(Finished(c)) = 0 + Taken(c) \/ Cardinality(Finished(c)) = 1 + Taken(c)
        <3>1. Cardinality(Finished(c)) = Len(errBuf[c]) + Taken(c)
            BY DEF ErrInv
        <3>. QED  BY <2>3, <3>1
    <2>5. CASE callErr[c] = "none"
        <3>1. Taken(c) = 0
            BY <2>5 DEF Taken
        <3>2. Cardinality(Finished(c)) <= 1
            BY <2>4, <3>1
        <3>. QED  BY <2>5, <3>2
    <2>6. CASE callErr[c] # "none"
        <3>1. Taken(c) = 1
            BY <2>6 DEF Taken
        <3>2. Cardinality(Finished(c)) <= 2
            BY <2>4, <3>1
        <3>. QED  BY <2>6, <3>2
    <2>. QED  BY <2>5, <2>6
<1>. QED
    BY <1>1, TypeInvInit, TypeInvStep, MutexInvInit, MutexInvStep, AnswerInvInit,
       AnswerInvStep, FrontInvInit, FrontInvStep, ErrInvInit, ErrInvStep, PTL DEF Spec

\* A scrape says "up" only with a table of its own in hand and "down" only when
\* one of its own tables timed out.
THEOREM PublishedHasAReason == Spec => []PublishedForAReason
<1>1. TypeInv /\ FrontInv /\ ErrInv => PublishedForAReason
    <2>. SUFFICES ASSUME TypeInv, FrontInv, ErrInv, NEW c \in Calls
                  PROVE  /\ Published(callErr[c]) = "up" =>
                                \E j \in JobsOf(c) : result[j] = "data"
                         /\ Published(callErr[c]) = "down" =>
                                \E j \in JobsOf(c) : frontErr[j] = "timeout"
        BY DEF PublishedForAReason
    <2>1. \A e \in Errors \cup {"none"} :
              /\ Published(e) = "up" => e = "nil"
              /\ Published(e) = "down" => e = "timeout"
        BY DEF Published, Errors
    <2>2. callErr[c] \in Errors \cup {"none"}
        BY DEF TypeInv, TypeOK
    <2>3. callErr[c] # "none" =>
              \E j \in Jobs \cap JobsOf(c) : callErr[c] = frontErr[j]
        BY JobsOfCall DEF ErrInv, Finished
    <2>4. "nil" # "none" /\ "timeout" # "none"
        OBVIOUS
    <2>. QED  BY <2>1, <2>2, <2>3, <2>4 DEF FrontInv
<1>. QED
    BY <1>1, TypeInvInit, TypeInvStep, MutexInvInit, MutexInvStep, AnswerInvInit,
       AnswerInvStep, FrontInvInit, FrontInvStep, ErrInvInit, ErrInvStep, PTL DEF Spec

-----------------------------------------------------------------------------
(* That nobody waits for ever needs fairness; that there is always         *)
(* somebody who need not wait does not, and is the safety half of it.      *)

FrontCanStep(j) ==
    \/ front[j] \in {"wait", "clear"}
    \/ front[j] = "err" /\ errBuf[j[1]] = <<>>

CanReturn == errBuf[calls] # <<>> /\ \A j \in JobsOf(calls) : front[j] \in {"err", "done"}

\* A running call can return, or one of its own fronts need wait for nobody but
\* its timer.
CallGoesOn == collecting => CanReturn \/ \E j \in JobsOf(calls) : FrontCanStep(j)

StartedInv == collecting => calls \in Calls /\ \A j \in JobsOf(calls) : front[j] # "none"

LEMMA StartedInvInit == Init => StartedInv
BY DEF Init, StartedInv

LEMMA StartedInvStep == TypeInv /\ FrontInv /\ StartedInv /\ [Next]_vars => StartedInv'
<1>. SUFFICES ASSUME TypeInv, FrontInv, StartedInv, [Next]_vars PROVE StartedInv'
    OBVIOUS
<1>t. front \in [Jobs -> FrontStates] /\ calls \in Nat
    BY MaxCallsAssumption DEF TypeInv, TypeOK
<1>0. ASSUME UNCHANGED <<calls, collecting>>,
             \A j \in Jobs : front[j] # "none" => front'[j] # "none"
      PROVE  StartedInv'
    <2>1. collecting => \A j \in JobsOf(calls) : j \in Jobs
        BY JobsOfCall DEF StartedInv
    <2>. QED  BY <1>0, <2>1 DEF StartedInv, JobsOf, Calls
<1>1. CASE StartCall
    <2>1. calls' \in Calls
        BY <1>1, <1>t, MaxCallsAssumption DEF StartCall, Calls
    <2>2. calls' = calls + 1
        BY <1>1 DEF StartCall
    <2>3. \A j \in JobsOf(calls') : j \in Jobs /\ j[1] = calls + 1
        BY <2>1, <2>2, JobsOfCall
    <2>4. \A j \in JobsOf(calls') : front'[j] # "none"
        BY <1>1, <2>3, NewFronts
    <2>. QED  BY <2>1, <2>4 DEF StartedInv, JobsOf
<1>2. CASE ReturnCall
    BY <1>2 DEF ReturnCall, StartedInv
<1>3. ASSUME NEW j \in Jobs, FrontStep(j) \/ FrontTimeout(j) PROVE StartedInv'
    BY <1>3, <1>0, <1>t DEF FrontStep, FrontResult, FrontTimeout, FrontClear, FrontSendErr,
                            callVars
<1>4. ASSUME NEW j \in Jobs, WorkerStep(j) \/ WorkerError(j) PROVE StartedInv'
    BY <1>4, <1>0 DEF WorkerStep, WorkerLock, WorkerWrite, WorkerRead, WorkerError, callVars,
                      frontVars
<1>5. CASE DaemonStart \/ DaemonStep \/ DaemonReadError
    BY <1>5, <1>0 DEF DaemonStart, DaemonStep, DaemonRead, DaemonPush, DaemonSpawn,
                      DaemonReadError, callVars, frontVars
<1>6. CASE HandlerStep
    BY <1>6, <1>0 DEF HandlerStep, HandlerPull, HandlerRespond, HandlerExit, callVars,
                      frontVars
<1>7. CASE DropRequests \/ DropResponses \/ UNCHANGED vars
    BY <1>7, <1>0 DEF DropRequests, DropResponses, vars, callVars, frontVars
<1>. QED
    BY <1>1, <1>2, <1>3, <1>4, <1>5, <1>6, <1>7
       DEF Next, PatientNext, Caller, Fault

\* errinfo, of which a call reads one value, never leaves a scrape without a step
\* of its own, whatever the workers, the daemon and the pipes do, and however
\* many tables are asked for.
THEOREM CallNeverStuck == RequestTypes # {} => (Spec => []CallGoesOn)
<1>. SUFFICES ASSUME RequestTypes # {} PROVE Spec => []CallGoesOn
    OBVIOUS
<1>1. TypeInv /\ ErrInv /\ StartedInv => CallGoesOn
    <2>. SUFFICES ASSUME TypeInv, ErrInv, StartedInv, collecting,
                         ~\E j \in JobsOf(calls) : FrontCanStep(j)
                  PROVE  CanReturn
        BY DEF CallGoesOn
    <2>1. calls \in Calls /\ \A j \in JobsOf(calls) : j \in Jobs /\ j[1] = calls
        BY JobsOfCall DEF StartedInv
    <2>2. ASSUME NEW j \in JobsOf(calls)
          PROVE  front[j] = "done" \/ (front[j] = "err" /\ errBuf[calls] # <<>>)
        <3>1. front[j] \in FrontStates /\ front[j] # "none"
            BY <2>1 DEF StartedInv, TypeInv, TypeOK
        <3>. QED  BY <2>1, <3>1 DEF FrontCanStep, FrontStates
    <2>3. PICK j \in JobsOf(calls) : TRUE
        <3>1. PICK t \in RequestTypes : TRUE
            OBVIOUS
        <3>2. <<calls, t>> \in JobsOf(calls)
            BY DEF JobsOf
        <3>. QED  BY <3>2
    <2>4. ASSUME front[j] = "done" PROVE errBuf[calls] # <<>>
        <3>1. callErr[calls] = "none"
            BY <2>1 DEF ErrInv
        <3>2. Taken(calls) = 0
            BY <3>1 DEF Taken
        <3>3. Finished(calls) # {} /\ IsFiniteSet(Finished(calls))
            BY <2>1, <2>3, <2>4 DEF Finished, ErrInv
        <3>4. Cardinality(Finished(calls)) # 0
            BY <3>3, FS_EmptySet
        <3>5. Cardinality(Finished(calls)) = Len(errBuf[calls]) + 0
            BY <2>1, <3>2 DEF ErrInv
        <3>6. Len(<<>>) = 0
            OBVIOUS
        <3>. QED  BY <3>4, <3>5, <3>6
    <2>. QED  BY <2>2, <2>3, <2>4 DEF CanReturn
<1>. QED
    BY <1>1, TypeInvInit, TypeInvStep, MutexInvInit, MutexInvStep, AnswerInvInit,
       AnswerInvStep, FrontInvInit, FrontInvStep, ErrInvInit, ErrInvStep, StartedInvInit,
       StartedInvStep, PTL DEF Spec

\* A worker that wants or holds requestMux is not waiting in vain: it can go on
\* itself, or the daemon, a handler or the holder of requestMux can.
Exchanging == up /\ \E j \in Jobs : worker[j] \in {"lock", "write", "read"}

SomebodyCanStep ==
    \/ requestMux = NoJob /\ \E j \in Jobs : worker[j] = "lock"
    \/ \E j \in Jobs : worker[j] = "write"
    \/ \E j \in Jobs : worker[j] = "read" /\ respPipe # <<>>
    \/ daemon \in {"off", "push", "spawn"}
    \/ daemon = "read" /\ reqPipe # <<>>
    \/ spawned > 0
    \/ handling # {}

ExchangeGoesOn == Exchanging => SomebodyCanStep

\* The four kinds of goroutine never all wait for one another: without timeouts and
\* failures the request of whoever holds requestMux is always with somebody who
\* need not wait, for any number of tables and calls.
THEOREM ExchangeNeverStuck == ~IOErrors /\ ~Finalizers => (PatientSpec => []ExchangeGoesOn)
<1>. SUFFICES ASSUME ~IOErrors, ~Finalizers PROVE PatientSpec => []ExchangeGoesOn
    OBVIOUS
<1>1. TypeInv /\ MutexInv /\ DaemonInv /\ NoRequestLost => ExchangeGoesOn
    <2>. SUFFICES ASSUME TypeInv, MutexInv, DaemonInv, NoRequestLost, Exchanging
                  PROVE  SomebodyCanStep
        BY DEF ExchangeGoesOn
    <2>t. requestQueue \in Seq(Messages) /\ spawned \in Nat /\ requestMux \in Jobs \cup {NoJob}
          /\ daemon \in {"off", "read", "push", "spawn", "stopped"}
        BY DEF TypeInv, TypeOK
    <2>1. CASE requestMux = NoJob
        BY <2>1, NoJobAssumption DEF Exchanging, MutexInv, SomebodyCanStep
    <2>2. CASE requestMux # NoJob /\ worker[requestMux] = "write"
        BY <2>2, <2>t DEF SomebodyCanStep
    <2>3. CASE requestMux # NoJob /\ worker[requestMux] # "write"
        <3>1. requestMux \in Jobs /\ worker[requestMux] = "read"
            BY <2>3, <2>t DEF MutexInv
        <3>2. up /\ InFlight # {}
            BY <3>1, <2>3 DEF NoRequestLost, Wedged, Exchanging
        <3>3. PICK m \in InFlight : TRUE
            BY <3>2
        <3>4. CASE m \in Elements(reqPipe)
            <4>1. reqPipe # <<>>
                BY <3>4, ElementsEmpty
            <4>2. daemon # "stopped"
                BY DEF DaemonInv
            <4>. QED  BY <2>t, <4>1, <4>2 DEF SomebodyCanStep
        <3>5. CASE m = received
            <4>1. received # Clear
                BY <3>3, <3>5 DEF InFlight
            <4>. QED  BY <4>1 DEF DaemonInv, SomebodyCanStep
        <3>6. CASE m \in Elements(requestQueue)
            <4>1. requestQueue # <<>>
                BY <3>6, ElementsEmpty
            <4>2. Len(requestQueue) # 0
                BY <4>1, <2>t, EmptySeq
            <4>3. daemon = "spawn" \/ spawned # 0
                BY <4>2, <3>2, <2>t DEF DaemonInv
            <4>. QED  BY <4>3, <2>t DEF SomebodyCanStep
        <3>7. CASE m \in handling
            BY <3>7 DEF SomebodyCanStep
        <3>8. CASE m \in Elements(respPipe)
            BY <3>1, <3>8, ElementsEmpty DEF SomebodyCanStep
        <3>. QED  BY <3>3, <3>4, <3>5, <3>6, <3>7, <3>8 DEF InFlight
    <2>. QED  BY <2>1, <2>2, <2>3
<1>2. PatientSpec => []NoRequestLost
    BY PatienceLosesNothing
<1>. QED
    BY <1>1, <1>2, PatientSteps, TypeInvInit, TypeInvStep, MutexInvInit, MutexInvStep,
       DaemonInvInit, DaemonInvStep, PTL DEF PatientSpec

=============================================================================
