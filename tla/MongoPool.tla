----------------------------- MODULE MongoPool -----------------------------
(***************************************************************************)
(* mongodb_exporter: the pool that holds the one client of the process,    *)
(* the scrapes whose collectors ask it for the client one after the other, *)
(* and the health check that replaces it.                                  *)
(*                                                                         *)
(* The driver and the server are outside the repository: a client answers  *)
(* while the server is up and nobody has called Disconnect on it.          *)
(***************************************************************************)
EXTENDS Naturals, Sequences

CONSTANTS
    MongoScrapes,  \* calls of MongoDBExporter.Collect
    Health,        \* the goroutine of StartHealthCheck
    Collectors,    \* the kinds of the 17 collectors, in the order of Collect
    Handles,       \* what a *mongo.Client can be
    Nil,           \* no client
    MaxOutages     \* bound: how often the server goes down

Users == MongoScrapes \cup {Health}
Kinds == {"info", "config", "plain"}

ASSUME HealthAssumption == Health \notin MongoScrapes
ASSUME NilAssumption == Nil \notin Handles /\ Nil \notin Users
ASSUME CollectorsAssumption == Collectors \in Seq(Kinds)
ASSUME OutagesAssumption == MaxOutages \in Nat \ {0}

VARIABLES
    serverUp,  \* the MongoDB server can be reached
    outages,   \* how often it could not, or refused the credentials
    uriGood,   \* mongo.Connect accepts the URI of the configuration
    mu,        \* who holds the mutex of the pool, or Nil
    pooled,    \* the client of the pool, or Nil
    connected, \* clients that are connected and have not been disconnected
    leaked,    \* a reconnect that failed has left its client connected, for good
    user,      \* where each user of the pool is
    fresh,     \* the client that reconnect has made and not yet stored
    client,    \* the client each scrape got from GetClient, or Nil
    at,        \* the collector each scrape is in
    upMetric,  \* mongodb_up of each scrape: "none", "0", "1"
    crashed    \* the process died of a nil pointer

poolVars    == <<mu, pooled, connected, leaked, fresh>>
scrapeState == <<user, client, at, upMetric, crashed>>
serverVars  == <<serverUp, outages, uriGood>>
mongoVars   == <<serverVars, poolVars, scrapeState>>

UserStates == {"idle", "lock", "check", "connect", "ping", "use", "defer", "end"}

MongoInit ==
    /\ serverUp \in BOOLEAN /\ outages = IF serverUp THEN 0 ELSE 1
    /\ uriGood \in BOOLEAN
    /\ mu = Nil /\ pooled = Nil /\ connected = {} /\ fresh = Nil
    /\ leaked = FALSE
    /\ user = [u \in Users |-> "idle"]
    /\ client = [s \in MongoScrapes |-> Nil]
    /\ at = [s \in MongoScrapes |-> 1]
    /\ upMetric = [s \in MongoScrapes |-> "none"]
    /\ crashed = FALSE

Goes(u, state) == user' = [user EXCEPT ![u] = state]

-----------------------------------------------------------------------------
(* The server.                                                             *)

GoDown ==
    /\ serverUp /\ outages < MaxOutages
    /\ serverUp' = FALSE /\ outages' = outages + 1
    /\ UNCHANGED <<uriGood, poolVars, scrapeState>>

ComeUp ==
    /\ ~serverUp /\ serverUp' = TRUE
    /\ UNCHANGED <<outages, uriGood, poolVars, scrapeState>>

-----------------------------------------------------------------------------
(* GetClient, and the body of the health check, both under mu.             *)

\* The next collector calls GetClient, or the ticker fires.
Ask(u) ==
    /\ ~crashed /\ user[u] = "idle"
    /\ Goes(u, "lock")
    /\ UNCHANGED <<serverVars, poolVars, client, at, upMetric, crashed>>

Lock(u) ==
    /\ ~crashed /\ user[u] = "lock" /\ mu = Nil
    /\ mu' = u /\ Goes(u, "check")
    /\ UNCHANGED <<serverVars, pooled, connected, leaked, fresh, client, at, upMetric, crashed>>

\* mu is released and GetClient returns c; nil stands for an error, which every
\* collector ignores.
Return(u, c) ==
    /\ mu' = Nil
    /\ IF u = Health THEN Goes(u, "idle") /\ UNCHANGED client
                     ELSE Goes(u, "use") /\ client' = [client EXCEPT ![u] = c]

Alive(c) == serverUp /\ c \in connected

CheckExisting(u) ==
    /\ ~crashed /\ user[u] = "check"
    /\ CASE pooled # Nil /\ Alive(pooled) -> Return(u, pooled)
         [] pooled = Nil /\ u = Health -> Return(u, Nil)
         [] OTHER -> Goes(u, "connect") /\ UNCHANGED <<mu, client>>
    /\ UNCHANGED <<serverVars, pooled, connected, leaked, fresh, at, upMetric, crashed>>
\* `p.client == nil || !p.isConnected()`, a Ping of at most 2 seconds.
CheckPooled(u) ==
    /\ ~crashed /\ user[u] = "check"
    /\ IF pooled # Nil /\ Alive(pooled)
         THEN Return(u, pooled)
         ELSE Goes(u, "connect") /\ UNCHANGED <<mu, client>>
    /\ UNCHANGED <<serverVars, pooled, connected, leaked, fresh, at, upMetric, crashed>>

Unused == Handles \ (connected \cup {pooled} \cup {client[s] : s \in MongoScrapes})

\* reconnect: mongo.Connect does no I/O; it fails on a URI it cannot use.
Reconnect(u) ==
    /\ ~crashed /\ user[u] = "connect"
    /\ IF uriGood
         THEN /\ Unused # {}
              /\ fresh' = CHOOSE h \in Unused : TRUE
              /\ connected' = connected \cup {fresh'}
              /\ Goes(u, "ping") /\ UNCHANGED <<mu, client>>
         ELSE Return(u, Nil) /\ UNCHANGED <<fresh, connected>>
    /\ UNCHANGED <<serverVars, pooled, leaked, at, upMetric, crashed>>

DisconnectNothing == connected
\* p.client.Disconnect
DisconnectOld == connected \ {pooled}

\* The Ping of the new client.  When it fails, after the server selection
\* timeout of the driver, nobody disconnects that client.  When it does not, the
\* old client is disconnected, the error of that ignored, and replaced.
PingNew(u, disconnectFails) ==
    /\ ~crashed /\ user[u] = "ping"
    /\ fresh' = Nil
    /\ IF serverUp
         THEN /\ pooled' = fresh
              /\ connected' = DisconnectOld
              /\ UNCHANGED leaked
              /\ Return(u, IF disconnectFails THEN Nil ELSE fresh)
         ELSE /\ leaked' = TRUE
              /\ connected' = connected \ {fresh}   \* it counts as leaked
              /\ UNCHANGED pooled
              /\ Return(u, Nil)
    /\ UNCHANGED <<serverVars, at, upMetric, crashed>>
PingChecked(u) == PingNew(u, pooled # Nil /\ pooled \notin connected)
Ping(u) == PingNew(u, FALSE)

-----------------------------------------------------------------------------
(* The collectors of a scrape.                                             *)

Kind(s) == Collectors[at[s]]

NextCollector(s) ==
    /\ client' = [client EXCEPT ![s] = Nil]
    /\ IF at[s] = Len(Collectors)
         THEN Goes(s, "end") /\ UNCHANGED at
         ELSE Goes(s, "idle") /\ at' = [at EXCEPT ![s] = @ + 1]

\* client.Database of a nil client: the goroutine of Gather panics.
UseNil(s) ==
    /\ ~crashed /\ user[s] = "use" /\ client[s] = Nil
    /\ crashed' = TRUE
    /\ UNCHANGED <<serverVars, poolVars, user, client, at, upMetric>>

\* The collector of serverStatus: mongodb_up says whether the command failed.
CollectInfo(s) ==
    /\ ~crashed /\ user[s] = "use" /\ client[s] # Nil /\ Kind(s) = "info"
    /\ upMetric' = [upMetric EXCEPT ![s] = IF Alive(client[s]) THEN "1" ELSE "0"]
    /\ NextCollector(s)
    /\ UNCHANGED <<serverVars, poolVars, crashed>>

\* A collector whose commands fail reports less, and the scrape goes on.
CollectPlain(s) ==
    /\ ~crashed /\ user[s] = "use" /\ client[s] # Nil /\ Kind(s) = "plain"
    /\ NextCollector(s)
    /\ UNCHANGED <<serverVars, poolVars, upMetric, crashed>>

\* The collector of the config server: when its Find on config.tags succeeded,
\* it defers `tagColl.Database().Client().Disconnect`.
CollectConfig(s) ==
    /\ ~crashed /\ user[s] = "use" /\ client[s] # Nil /\ Kind(s) = "config"
    /\ IF Alive(client[s]) THEN Goes(s, "defer") /\ UNCHANGED <<client, at>>
                           ELSE NextCollector(s)
    /\ UNCHANGED <<serverVars, poolVars, upMetric, crashed>>

\* That client is the one of the pool, which every other scrape uses too.
DeferredDisconnect(s) ==
    /\ ~crashed /\ user[s] = "defer"
    /\ connected' = connected \ {client[s]}
    /\ NextCollector(s)
    /\ UNCHANGED <<serverVars, mu, pooled, leaked, fresh, upMetric, crashed>>

-----------------------------------------------------------------------------
HoldingMu(u) == CheckPooled(u) \/ Reconnect(u) \/ Ping(u)

Collecting(s) ==
    \/ UseNil(s) \/ CollectInfo(s) \/ CollectPlain(s) \/ CollectConfig(s)
    \/ DeferredDisconnect(s)

MongoNext ==
    \/ GoDown \/ ComeUp
    \/ \E u \in Users : Ask(u) \/ Lock(u) \/ HoldingMu(u)
    \/ \E s \in MongoScrapes : Collecting(s)

MongoSpec == MongoInit /\ [][MongoNext]_mongoVars

\* The ticker of the health check fires again and again, whoever holds mu goes
\* on (each Ping ends), and sync.Mutex starves nobody.  The server need never
\* come back and no scrape need begin.
FairMongoSpec ==
    /\ MongoSpec
    /\ WF_mongoVars(Ask(Health))
    /\ \A u \in Users : SF_mongoVars(Lock(u)) /\ WF_mongoVars(HoldingMu(u))

-----------------------------------------------------------------------------
MongoTypeOK ==
    /\ serverUp \in BOOLEAN /\ outages \in 0 .. MaxOutages /\ uriGood \in BOOLEAN
    /\ mu \in Users \cup {Nil}
    /\ pooled \in Handles \cup {Nil} /\ fresh \in Handles \cup {Nil}
    /\ connected \in SUBSET Handles /\ leaked \in BOOLEAN
    /\ user \in [Users -> UserStates]
    /\ client \in [MongoScrapes -> Handles \cup {Nil}]
    /\ at \in [MongoScrapes -> Nat]
    /\ upMetric \in [MongoScrapes -> {"none", "0", "1"}]
    /\ crashed \in BOOLEAN

\* The nil client that kills the process comes from a server that could not be
\* reached or from a bad URI, never from scrapes and health checks that take the
\* client away from each other.
CrashNeedsOutage == crashed => outages > 0 \/ ~uriGood

\* While nobody holds the mutex no client is connected but the one of the pool,
\* except those that a reconnect left behind when its Ping failed: replacing the
\* client never leaves the old one open.
OneConnection ==
    /\ mu = Nil => connected \subseteq {pooled}
    /\ leaked => outages > 0

\* The pool does not stay without a connection: unless the server goes down
\* again and again, the health check or a scrape connects it.
PoolRecovers == []<>(~serverUp \/ crashed \/ ~uriGood \/ pooled \in connected)

\* "Whether MongoDB is up (1) or down (0).": a server that was never down is not
\* reported as down.  (Refuted: the deferred Disconnect of another scrape.)
UpIsTrue == \A s \in MongoScrapes : upMetric[s] = "0" => outages > 0
=============================================================================
