-------------------------- MODULE MongoPoolProofs --------------------------
(***************************************************************************)
(* Proofs about MongoPool, for any number of scrapes, any order of their   *)
(* collectors and any number of outages.                                   *)
(***************************************************************************)
EXTENDS MongoPool, FiniteSetTheorems, FunctionTheorems, TLAPS

\* The steps one level down: what the server does, what a user of the pool does,
\* and what the collectors of a scrape do with the client.
PoolStep(u) == Ask(u) \/ Lock(u) \/ CheckPooled(u) \/ Reconnect(u) \/ Ping(u)
PoolSteps ==
    \/ GoDown \/ ComeUp
    \/ \E u \in Users : PoolStep(u)
    \/ \E s \in MongoScrapes : Collecting(s)

LEMMA MongoSteps == MongoNext => PoolSteps
BY DEF MongoNext, HoldingMu, PoolSteps, PoolStep

LEMMA MongoTypeInit == MongoInit => MongoTypeOK
<1>. SUFFICES ASSUME MongoInit PROVE MongoTypeOK
    OBVIOUS
<1>1. outages \in 0 .. MaxOutages
    BY OutagesAssumption DEF MongoInit
<1>2. user \in [Users -> UserStates]
    BY DEF MongoInit, UserStates
<1>. QED  BY <1>1, <1>2 DEF MongoInit, MongoTypeOK

LEMMA PoolTypeStep ==
    ASSUME MongoTypeOK, NEW u \in Users, PoolStep(u)
    PROVE  MongoTypeOK'
<1>. USE NilAssumption, HealthAssumption
     DEF MongoTypeOK, UserStates, Users, serverVars, Goes
<1>1. CASE Ask(u)
    BY <1>1 DEF Ask, poolVars
<1>2. CASE Lock(u)
    BY <1>2 DEF Lock
<1>3. ASSUME NEW c \in Handles \cup {Nil}, Return(u, c)
      PROVE  /\ mu' = Nil /\ user' \in [Users -> UserStates]
             /\ client' \in [MongoScrapes -> Handles \cup {Nil}]
    BY <1>3 DEF Return
<1>4. CASE CheckPooled(u)
    BY <1>3, <1>4 DEF CheckPooled
<1>5. CASE Reconnect(u)
    <2>1. CASE uriGood
        <3>1. fresh' \in Unused
            BY <1>5, <2>1 DEF Reconnect
        <3>. QED  BY <1>5, <2>1, <3>1 DEF Reconnect, Unused
    <2>2. CASE ~uriGood
        BY <1>3, <1>5, <2>2 DEF Reconnect
    <2>. QED  BY <2>1, <2>2
<1>6. CASE Ping(u)
    BY <1>3, <1>6 DEF Ping, PingNew, DisconnectOld
<1>. QED  BY <1>1, <1>2, <1>4, <1>5, <1>6 DEF PoolStep

LEMMA CollectingTypeStep ==
    ASSUME MongoTypeOK, NEW s \in MongoScrapes, Collecting(s)
    PROVE  MongoTypeOK'
<1>. USE DEF MongoTypeOK, UserStates, Users, serverVars, poolVars, Goes, NextCollector
<1>1. CASE UseNil(s)
    BY <1>1 DEF UseNil
<1>2. CASE CollectInfo(s)
    BY <1>2 DEF CollectInfo
<1>3. CASE CollectPlain(s)
    BY <1>3 DEF CollectPlain
<1>4. CASE CollectConfig(s)
    BY <1>4 DEF CollectConfig
<1>5. CASE DeferredDisconnect(s)
    BY <1>5 DEF DeferredDisconnect
<1>. QED  BY <1>1, <1>2, <1>3, <1>4, <1>5 DEF Collecting

LEMMA MongoTypeStep == MongoTypeOK /\ [MongoNext]_mongoVars => MongoTypeOK'
<1>1. ASSUME MongoTypeOK, GoDown \/ ComeUp PROVE MongoTypeOK'
    <2>1. serverUp' \in BOOLEAN
        BY <1>1 DEF GoDown, ComeUp
    <2>2. outages \in 0 .. MaxOutages
        BY <1>1 DEF MongoTypeOK
    <2>3. outages' = outages \/ (outages < MaxOutages /\ outages' = outages + 1)
        BY <1>1 DEF GoDown, ComeUp
    <2>4. outages' \in 0 .. MaxOutages
        BY <2>2, <2>3, OutagesAssumption
    <2>. QED  BY <1>1, <2>1, <2>4 DEF MongoTypeOK, GoDown, ComeUp, poolVars, scrapeState
<1>2. MongoTypeOK /\ UNCHANGED mongoVars => MongoTypeOK'
    BY DEF MongoTypeOK, mongoVars, serverVars, poolVars, scrapeState
<1>. QED  BY <1>1, <1>2, MongoSteps, PoolTypeStep, CollectingTypeStep DEF PoolSteps

\* The pool and its users keep every variable in its type.
THEOREM MongoTypeCorrect == MongoSpec => []MongoTypeOK
BY MongoTypeInit, MongoTypeStep, PTL DEF MongoSpec

-----------------------------------------------------------------------------
(* The mutex excludes, so that fresh belongs to the user that reconnects;  *)
(* only an outage or a bad URI hands out a nil client; and a client that   *)
(* is connected is the pooled one or the one being made.                   *)

Excluded == /\ \A u \in Users : user[u] \in {"check", "connect", "ping"} => mu = u
            /\ mu \in Users => user[mu] \in {"check", "connect", "ping"}
Fresh    == /\ \A u \in Users : user[u] = "ping" => fresh \in Handles
            /\ (\A u \in Users : user[u] # "ping") => fresh = Nil

Outage == outages > 0 \/ ~uriGood

NilNeedsOutage ==
    /\ ~serverUp \/ leaked => outages > 0
    /\ \A s \in MongoScrapes : user[s] = "use" /\ client[s] = Nil => Outage
    /\ crashed => Outage

PoolInv == Excluded /\ Fresh /\ NilNeedsOutage /\ connected \subseteq {pooled, fresh}

LEMMA PoolInvStep ==
    ASSUME MongoTypeOK, PoolInv, NEW u \in Users, PoolStep(u)
    PROVE  PoolInv'
<1>. USE NilAssumption, HealthAssumption
     DEF MongoTypeOK, Users, serverVars, Goes, PoolInv, Excluded, Fresh, NilNeedsOutage, Outage
<1>1. CASE Ask(u)
    BY <1>1 DEF Ask, poolVars
<1>2. CASE Lock(u)
    BY <1>2 DEF Lock
<1>3. CASE CheckPooled(u)
    BY <1>3 DEF CheckPooled, Return
<1>4. CASE Reconnect(u)
    <2>1. CASE uriGood
        <3>1. fresh' \in Handles
            BY <1>4, <2>1 DEF Reconnect, Unused
        <3>2. fresh = Nil
            BY <1>4 DEF Reconnect
        <3>. QED  BY <1>4, <2>1, <3>1, <3>2 DEF Reconnect
    <2>2. CASE ~uriGood
        BY <1>4, <2>2 DEF Reconnect, Return
    <2>. QED  BY <2>1, <2>2
<1>5. CASE Ping(u)
    <2>1. fresh \in Handles /\ mu = u /\ \A v \in Users \ {u} : user[v] # "ping"
        BY <1>5 DEF Ping, PingNew
    <2>2. CASE serverUp
        BY <1>5, <2>1, <2>2 DEF Ping, PingNew, DisconnectOld, Return
    <2>3. CASE ~serverUp
        BY <1>5, <2>1, <2>3 DEF Ping, PingNew, Return
    <2>. QED  BY <2>2, <2>3
<1>. QED  BY <1>1, <1>2, <1>3, <1>4, <1>5 DEF PoolStep

LEMMA PoolInvCollecting ==
    ASSUME MongoTypeOK, PoolInv, NEW s \in MongoScrapes, Collecting(s)
    PROVE  PoolInv'
<1>. USE HealthAssumption
     DEF MongoTypeOK, Users, serverVars, poolVars, Goes, NextCollector,
         PoolInv, Excluded, Fresh, NilNeedsOutage, Outage
<1>1. CASE UseNil(s)
    BY <1>1 DEF UseNil
<1>2. CASE CollectInfo(s)
    BY <1>2 DEF CollectInfo
<1>3. CASE CollectPlain(s)
    BY <1>3 DEF CollectPlain
<1>4. CASE CollectConfig(s)
    BY <1>4 DEF CollectConfig
<1>5. CASE DeferredDisconnect(s)
    BY <1>5 DEF DeferredDisconnect
<1>. QED  BY <1>1, <1>2, <1>3, <1>4, <1>5 DEF Collecting

LEMMA PoolInvNext == MongoTypeOK /\ PoolInv /\ [MongoNext]_mongoVars => PoolInv'
<1>1. MongoTypeOK /\ PoolInv /\ (GoDown \/ ComeUp) => PoolInv'
    BY DEF MongoTypeOK, PoolInv, Excluded, Fresh, NilNeedsOutage, Outage, GoDown, ComeUp,
           poolVars, scrapeState
<1>2. PoolInv /\ UNCHANGED mongoVars => PoolInv'
    BY DEF PoolInv, Excluded, Fresh, NilNeedsOutage, Outage, mongoVars, serverVars, poolVars,
           scrapeState
<1>. QED  BY <1>1, <1>2, MongoSteps, PoolInvStep, PoolInvCollecting DEF PoolSteps

LEMMA PoolInvInit == MongoInit => PoolInv
BY NilAssumption DEF MongoInit, PoolInv, Excluded, Fresh, NilNeedsOutage, Outage, Users

\* No interleaving of scrapes and health checks makes GetClient return nil.
THEOREM CrashNeedsOutageHolds == MongoSpec => []CrashNeedsOutage
<1>1. PoolInv => CrashNeedsOutage
    BY DEF PoolInv, NilNeedsOutage, Outage, CrashNeedsOutage
<1>. QED  BY <1>1, PoolInvInit, PoolInvNext, MongoTypeInit, MongoTypeStep, PTL DEF MongoSpec

\* Replacing the client never leaves a second one connected.
THEOREM OneConnectionHolds == MongoSpec => []OneConnection
<1>1. MongoTypeOK /\ PoolInv => OneConnection
    BY NilAssumption DEF MongoTypeOK, PoolInv, Excluded, Fresh, NilNeedsOutage, OneConnection
<1>. QED  BY <1>1, PoolInvInit, PoolInvNext, MongoTypeInit, MongoTypeStep, PTL DEF MongoSpec

-----------------------------------------------------------------------------
(* Why the pool recovers: the mutex is never left with somebody who cannot *)
(* give it back, and a new client can always be made.  A client has to be  *)
(* one that nobody uses; the pool and each scrape use one at most.         *)

HandlesSuffice ==
    /\ IsFiniteSet(MongoScrapes)
    /\ IsFiniteSet(Handles) => Cardinality(Handles) > Cardinality(MongoScrapes) + 1

LEMMA AClientIsUnused ==
    ASSUME MongoTypeOK, PoolInv, HandlesSuffice, NEW u \in Users, user[u] = "connect"
    PROVE  Unused # {}
<1>. DEFINE InUse == {client[s] : s \in MongoScrapes}
            f     == [s \in MongoScrapes |-> client[s]]
<1>1. fresh = Nil
    <2>1. \A v \in Users : user[v] # "ping"
        BY DEF PoolInv, Excluded
    <2>. QED  BY <2>1 DEF PoolInv, Fresh
<1>2. f \in [MongoScrapes -> InUse] /\ \A c \in InUse : \E s \in MongoScrapes : f[s] = c
    OBVIOUS
<1>. HIDE DEF f
<1>3. f \in Surjection(MongoScrapes, InUse)
    BY <1>2, Fun_IsSurj
<1>4. IsFiniteSet(InUse) /\ Cardinality(InUse) <= Cardinality(MongoScrapes)
    BY <1>3, FS_Surjection DEF HandlesSuffice
<1>5. connected \subseteq {pooled, Nil}
    BY <1>1 DEF PoolInv
<1>. HIDE DEF InUse
<1>. DEFINE T == InUse \cup {pooled}
<1>6. IsFiniteSet(T) /\ (Cardinality(T) = Cardinality(InUse) \/ Cardinality(T) = Cardinality(InUse) + 1)
    BY <1>4, FS_AddElement
<1>7. Cardinality(InUse) \in Nat /\ Cardinality(MongoScrapes) \in Nat
    BY <1>4, FS_CardinalityType DEF HandlesSuffice
<1>8. Cardinality(T) <= Cardinality(MongoScrapes) + 1
    BY <1>4, <1>6, <1>7
<1>9. Unused = {} => Handles \subseteq T
    BY <1>5, NilAssumption DEF Unused, InUse
<1>10. ASSUME Handles \subseteq T PROVE FALSE
    <2>1. IsFiniteSet(Handles) /\ Cardinality(Handles) <= Cardinality(T)
        BY <1>6, <1>10, FS_Subset
    <2>2. Cardinality(Handles) \in Nat /\ Cardinality(T) \in Nat
        BY <1>6, <2>1, FS_CardinalityType
    <2>3. Cardinality(Handles) > Cardinality(MongoScrapes) + 1
        BY <2>1 DEF HandlesSuffice
    <2>. HIDE DEF T
    <2>. QED  BY <1>7, <1>8, <2>1, <2>2, <2>3
<1>. QED  BY <1>9, <1>10

\* Whoever holds the mutex is in one of its three steps, and that step can be taken.
HolderGoesOn ==
    ~crashed /\ mu # Nil =>
        \/ user[mu] \in {"check", "ping"}
        \/ user[mu] = "connect" /\ (uriGood => Unused # {})

\* Nobody waits for mu in vain: no panic, outage or early return of GetClient, of a
\* reconnect or of the health check leaves it locked, for any number of scrapes.
THEOREM MutexComesBack == HandlesSuffice => (MongoSpec => []HolderGoesOn)
<1>. SUFFICES ASSUME HandlesSuffice PROVE MongoSpec => []HolderGoesOn
    OBVIOUS
<1>1. MongoTypeOK /\ PoolInv => HolderGoesOn
    <2>. SUFFICES ASSUME MongoTypeOK, PoolInv, mu # Nil PROVE HolderGoesOn
        BY DEF HolderGoesOn
    <2>1. mu \in Users /\ user[mu] \in {"check", "connect", "ping"}
        BY DEF MongoTypeOK, PoolInv, Excluded
    <2>. QED  BY <2>1, AClientIsUnused DEF HolderGoesOn
<1>. QED  BY <1>1, PoolInvInit, PoolInvNext, MongoTypeInit, MongoTypeStep, PTL DEF MongoSpec

=============================================================================
