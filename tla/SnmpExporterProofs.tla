------------------------- MODULE SnmpExporterProofs -------------------------
(***************************************************************************)
(* Proofs about SnmpExporter, for any number of requests, modules, workers *)
(* and clients that reload.                                                *)
(***************************************************************************)
EXTENDS SnmpExporter, TLAPS

-----------------------------------------------------------------------------
(* Types.                                                                  *)

LEMMA SnmpTypeInit == SnmpInit => SnmpTypeOK
BY EditsAssumption DEF SnmpInit, SnmpTypeOK, WorkerStates, Phases

\* A step of the configuration keeps its types, and touches no scrape.
LEMMA ConfTypeStep ==
    ASSUME SnmpTypeOK,
           Edit \/ Sighup \/ ReloadStep \/ \E p \in Posters : Post(p)
    PROVE  SnmpTypeOK'
<1>. USE EditsAssumption, NobodyAssumption DEF SnmpTypeOK, scrapeVars
<1>1. CASE Edit
    BY <1>1 DEF Edit
<1>2. CASE Sighup
    BY <1>2 DEF Sighup
<1>3. ASSUME NEW p \in Posters, Post(p) PROVE SnmpTypeOK'
    BY <1>3 DEF Post
<1>4. CASE ReceiveHup
    BY <1>4 DEF ReceiveHup
<1>5. ASSUME NEW p \in Posters, ReceivePost(p) PROVE SnmpTypeOK'
    BY <1>5 DEF ReceivePost
<1>6. CASE LoadFile
    BY <1>6 DEF LoadFile, Outcome
<1>7. CASE Swap
    BY <1>7 DEF Swap, Outcome
<1>8. CASE Answer
    <2>1. post' \in [Posters -> {"idle", "send", "receive", "ok", "failed"}]
        BY <1>8 DEF Answer
    <2>. QED  BY <1>8, <2>1 DEF Answer
<1>. QED  BY <1>1, <1>2, <1>3, <1>4, <1>5, <1>6, <1>7, <1>8 DEF ReloadStep

\* So does a step of a scrape, which touches nothing of the configuration.
LEMMA ScrapeTypeStep ==
    ASSUME SnmpTypeOK, NEW r \in SnmpRequests,
           \/ LookUpAuth(r) \/ LookUpModules(r) \/ HangUp(r) \/ CollectStep(r)
           \/ \E w \in Workers : WorkerStep(r, w)
    PROVE  SnmpTypeOK'
<1>. USE DEF SnmpTypeOK, confVars, GoTo, Put, Phases, WorkerStates
<1>1. CASE LookUpAuth(r)
    <2>1. phase' \in [SnmpRequests -> Phases]
        BY <1>1 DEF LookUpAuth
    <2>2. authOf' \in [SnmpRequests -> 0 .. MaxEdits]
        BY <1>1 DEF LookUpAuth
    <2>. QED  BY <1>1, <2>1, <2>2 DEF LookUpAuth
<1>2. CASE LookUpModules(r)
    <2>1. phase' \in [SnmpRequests -> Phases]
        BY <1>2 DEF LookUpModules
    <2>2. modulesOf' \in [SnmpRequests -> 0 .. MaxEdits]
        BY <1>2 DEF LookUpModules
    <2>3. worker' \in [SnmpRequests -> [Workers -> WorkerStates \cup Modules]]
        <3>1. worker' = worker \/ worker' = [worker EXCEPT ![r] = [w \in Workers |-> "connect"]]
            BY <1>2 DEF LookUpModules
        <3>2. [w \in Workers |-> "connect"] \in [Workers -> WorkerStates \cup Modules]
            OBVIOUS
        <3>. QED  BY <3>1, <3>2
    <2>. QED  BY <1>2, <2>1, <2>2, <2>3 DEF LookUpModules
<1>3. CASE HangUp(r)
    BY <1>3 DEF HangUp
<1>4. CASE StopDispatch(r) \/ CollectReturns(r)
    BY <1>4 DEF StopDispatch, CollectReturns
<1>5. ASSUME NEW w \in Workers, NEW m \in Modules, Send(r, w, m) PROVE SnmpTypeOK'
    BY <1>5 DEF Send
<1>6. ASSUME NEW w \in Workers, Connect(r, w) PROVE SnmpTypeOK'
    <2>1. worker' \in [SnmpRequests -> [Workers -> WorkerStates \cup Modules]]
        <3>1. \E c \in WorkerStates : worker' = [worker EXCEPT ![r][w] = c]
            BY <1>6 DEF Connect
        <3>. QED  BY <3>1
    <2>. QED  BY <1>6, <2>1 DEF Connect
<1>7. ASSUME NEW w \in Workers, ProcessModule(r, w) PROVE SnmpTypeOK'
    <2>1. reports' \in [SnmpRequests -> [Modules -> Nat]]
        BY <1>7 DEF ProcessModule
    <2>2. worker' \in [SnmpRequests -> [Workers -> WorkerStates \cup Modules]]
        BY <1>7 DEF ProcessModule
    <2>. QED  BY <1>7, <2>1, <2>2 DEF ProcessModule
<1>8. ASSUME NEW w \in Workers, WorkerEnds(r, w) PROVE SnmpTypeOK'
    BY <1>8 DEF WorkerEnds
<1>. QED  BY <1>1, <1>2, <1>3, <1>4, <1>5, <1>6, <1>7, <1>8 DEF CollectStep, WorkerStep

\* A step of SnmpNext is one of these two kinds.
LEMMA SnmpSteps ==
    SnmpNext =>
        \/ Edit \/ Sighup \/ ReloadStep \/ \E p \in Posters : Post(p)
        \/ \E r \in SnmpRequests :
              \/ LookUpAuth(r) \/ LookUpModules(r) \/ HangUp(r) \/ CollectStep(r)
              \/ \E w \in Workers : WorkerStep(r, w)
BY DEF SnmpNext

LEMMA SnmpTypeStep == SnmpTypeOK /\ [SnmpNext]_snmpVars => SnmpTypeOK'
<1>1. SnmpTypeOK /\ UNCHANGED snmpVars => SnmpTypeOK'
    BY DEF SnmpTypeOK, snmpVars, confVars, scrapeVars
<1>. QED  BY <1>1, SnmpSteps, ConfTypeStep, ScrapeTypeStep

\* The handlers, the workers and the reloader keep every variable in its type.
THEOREM SnmpTypeCorrect == SnmpSpec => []SnmpTypeOK
BY SnmpTypeInit, SnmpTypeStep, PTL DEF SnmpSpec

-----------------------------------------------------------------------------
(* The configuration a scrape uses.  Between the two lookups the request   *)
(* holds the read lock: the version its auth comes from is still the       *)
(* current one when the modules are looked up.                             *)

LookupInv ==
    /\ OneConfiguration
    /\ \A r \in SnmpRequests : phase[r] = "looking" => authOf[r] = conf

LEMMA LookupInvConf ==
    ASSUME SnmpTypeOK, LookupInv,
           Edit \/ Sighup \/ ReloadStep \/ \E p \in Posters : Post(p)
    PROVE  LookupInv'
<1>1. UNCHANGED <<phase, authOf, modulesOf>>
    BY DEF Edit, Sighup, ReloadStep, ReceiveHup, ReceivePost, LoadFile, Swap, Answer, Post, scrapeVars
<1>2. conf' = conf \/ \A r \in SnmpRequests : phase[r] # "looking"
    BY DEF Edit, Sighup, ReloadStep, ReceiveHup, ReceivePost, LoadFile, Swap, Answer, Post
<1>. QED  BY <1>1, <1>2 DEF LookupInv, OneConfiguration

LEMMA LookupInvScrape ==
    ASSUME SnmpTypeOK, LookupInv, NEW r \in SnmpRequests,
           \/ LookUpAuth(r) \/ LookUpModules(r) \/ HangUp(r) \/ CollectStep(r)
           \/ \E w \in Workers : WorkerStep(r, w)
    PROVE  LookupInv'
<1>. USE DEF SnmpTypeOK, LookupInv, OneConfiguration, confVars, GoTo
<1>1. CASE LookUpAuth(r)
    BY <1>1 DEF LookUpAuth
<1>2. CASE LookUpModules(r)
    BY <1>2 DEF LookUpModules
<1>3. CASE HangUp(r)
    BY <1>3 DEF HangUp
<1>4. CASE StopDispatch(r) \/ CollectReturns(r)
    BY <1>4 DEF StopDispatch, CollectReturns
<1>5. ASSUME NEW w \in Workers, NEW m \in Modules, Send(r, w, m) PROVE LookupInv'
    BY <1>5 DEF Send
<1>6. ASSUME NEW w \in Workers, WorkerStep(r, w) PROVE LookupInv'
    BY <1>6 DEF WorkerStep, Connect, ProcessModule, WorkerEnds
<1>. QED  BY <1>1, <1>2, <1>3, <1>4, <1>5, <1>6 DEF CollectStep

LEMMA LookupInvStep == SnmpTypeOK /\ LookupInv /\ [SnmpNext]_snmpVars => LookupInv'
<1>1. LookupInv /\ UNCHANGED snmpVars => LookupInv'
    BY DEF LookupInv, OneConfiguration, snmpVars, confVars, scrapeVars
<1>. QED  BY <1>1, SnmpSteps, LookupInvConf, LookupInvScrape

\* Whatever reloads come in between, auth and modules are of one version.
THEOREM OneConfigurationHolds == SnmpSpec => []OneConfiguration
<1>1. SnmpInit => LookupInv
    BY DEF SnmpInit, LookupInv, OneConfiguration
<1>2. LookupInv => OneConfiguration
    BY DEF LookupInv
<1>. QED  BY <1>1, <1>2, LookupInvStep, SnmpTypeInit, SnmpTypeStep, PTL DEF SnmpSpec

-----------------------------------------------------------------------------
(* The answer to a reload.  Versions only grow, from the one in use to the *)
(* one read last to the one in the file; and the client that the reloader  *)
(* works for does nothing but wait for its answer.                         *)

Versions ==
    /\ conf <= tried /\ tried <= file.version
    /\ \A p \in Posters : askedAt[p] <= file.version

Serving ==
    /\ reloader # "wait" /\ asker \in Posters => post[asker] = "receive"
    /\ reloader \in {"ok", "failed"} => asker \in Posters
    /\ reloader = "swap" /\ asker \in Posters => askedAt[asker] <= tried
    /\ reloader = "ok" => askedAt[asker] <= conf

ReloadInv == Versions /\ Serving /\ OkMeansLoaded

LEMMA ReloadInvInit == SnmpInit => ReloadInv
BY NobodyAssumption DEF SnmpInit, ReloadInv, Versions, Serving, OkMeansLoaded

LEMMA ReloadInvConf ==
    ASSUME SnmpTypeOK, ReloadInv,
           Edit \/ Sighup \/ ReloadStep \/ \E p \in Posters : Post(p)
    PROVE  ReloadInv'
<1>. USE EditsAssumption, NobodyAssumption
     DEF SnmpTypeOK, ReloadInv, Versions, Serving, OkMeansLoaded
<1>1. CASE Edit
    BY <1>1 DEF Edit
<1>2. CASE Sighup
    BY <1>2 DEF Sighup
<1>3. ASSUME NEW p \in Posters, Post(p) PROVE ReloadInv'
    BY <1>3 DEF Post
<1>4. CASE ReceiveHup
    BY <1>4 DEF ReceiveHup
<1>5. ASSUME NEW p \in Posters, ReceivePost(p) PROVE ReloadInv'
    BY <1>5 DEF ReceivePost
<1>6. CASE LoadFile
    BY <1>6 DEF LoadFile, Outcome
<1>7. CASE Swap
    BY <1>7 DEF Swap, Outcome
<1>8. CASE Answer
    BY <1>8 DEF Answer
<1>. QED  BY <1>1, <1>2, <1>3, <1>4, <1>5, <1>6, <1>7, <1>8 DEF ReloadStep

LEMMA ReloadInvScrape ==
    ASSUME ReloadInv, NEW r \in SnmpRequests,
           \/ LookUpAuth(r) \/ LookUpModules(r) \/ HangUp(r) \/ CollectStep(r)
           \/ \E w \in Workers : WorkerStep(r, w)
    PROVE  ReloadInv'
<1>1. UNCHANGED confVars
    BY DEF LookUpAuth, LookUpModules, HangUp, CollectStep, StopDispatch, CollectReturns, Send,
           WorkerStep, Connect, ProcessModule, WorkerEnds
<1>. QED  BY <1>1 DEF confVars, ReloadInv, Versions, Serving, OkMeansLoaded

LEMMA ReloadInvStep == SnmpTypeOK /\ ReloadInv /\ [SnmpNext]_snmpVars => ReloadInv'
<1>1. ReloadInv /\ UNCHANGED snmpVars => ReloadInv'
    BY DEF ReloadInv, Versions, Serving, OkMeansLoaded, snmpVars, confVars
<1>. QED  BY <1>1, SnmpSteps, ReloadInvConf, ReloadInvScrape

\* "ok" is never the answer to somebody else's reload of an older file.
THEOREM OkMeansLoadedHolds == SnmpSpec => []OkMeansLoaded
<1>1. ReloadInv => OkMeansLoaded
    BY DEF ReloadInv
<1>. QED  BY <1>1, ReloadInvInit, ReloadInvStep, SnmpTypeInit, SnmpTypeStep, PTL DEF SnmpSpec

-----------------------------------------------------------------------------
(* A scrape implements ScatterGather.  A module is in one place: still to  *)
(* be sent, in the hands of one worker, or reported.  The dispatch ends    *)
(* with nothing left or with the context, and Collect with idle hands.     *)

Holds(r, w, m) == worker[r][w] = m

OnePlace(r) ==
    \A m \in Modules :
        /\ reports[r][m] \in {0, 1}
        /\ m \in todo[r] => reports[r][m] = 0 /\ \A w \in Workers : ~Holds(r, w, m)
        /\ m \notin todo[r] /\ reports[r][m] = 0 => \E w \in Workers : Holds(r, w, m)
        /\ \A w, v \in Workers : Holds(r, w, m) /\ Holds(r, v, m) => w = v
        /\ \A w \in Workers : Holds(r, w, m) => reports[r][m] = 0

Course(r) ==
    /\ phase[r] \in {"new", "looking", "refused"} =>
          todo[r] = Modules /\ \A w \in Workers : worker[r][w] = "none"
    /\ phase[r] = "dispatch" => \A w \in Workers : worker[r][w] \notin {"none", "done"}
    /\ phase[r] = "wait" => \A w \in Workers : worker[r][w] # "none"
    /\ phase[r] \in {"wait", "over"} => todo[r] = {} \/ r \in gone
    /\ phase[r] = "over" => \A w \in Workers : worker[r][w] \in {"failed", "done"}

GatherInv == \A r \in SnmpRequests : OnePlace(r) /\ Course(r)

LEMMA GatherInvInit == SnmpInit => GatherInv
<1>1. \A m \in Modules : m # "none"
    BY ModulesAssumption DEF WorkerStates
<1>. SUFFICES ASSUME SnmpInit, NEW r \in SnmpRequests PROVE OnePlace(r) /\ Course(r)
    BY DEF GatherInv
<1>2. /\ phase[r] = "new" /\ todo[r] = Modules
      /\ \A w \in Workers : worker[r][w] = "none"
      /\ \A m \in Modules : reports[r][m] = 0
    BY DEF SnmpInit
<1>. QED  BY <1>1, <1>2 DEF OnePlace, Course, Holds

\* What a scrape does leaves the other scrapes alone.
LEMMA GatherInvOthers ==
    ASSUME SnmpTypeOK, GatherInv, NEW r \in SnmpRequests,
           \/ LookUpAuth(r) \/ LookUpModules(r) \/ HangUp(r) \/ CollectStep(r)
           \/ \E w \in Workers : WorkerStep(r, w),
           NEW q \in SnmpRequests, q # r
    PROVE  OnePlace(q)' /\ Course(q)'
<1>1. /\ phase'[q] = phase[q] /\ todo'[q] = todo[q] /\ worker'[q] = worker[q]
      /\ reports'[q] = reports[q] /\ (q \in gone' <=> q \in gone)
    BY DEF SnmpTypeOK, LookUpAuth, LookUpModules, HangUp, CollectStep, StopDispatch,
           CollectReturns, Send, WorkerStep, Connect, ProcessModule, WorkerEnds, GoTo, Put
<1>2. OnePlace(q) /\ Course(q)
    BY DEF GatherInv
<1>. QED  BY <1>1, <1>2 DEF OnePlace, Course, Holds

LEMMA GatherInvScrape ==
    ASSUME SnmpTypeOK, GatherInv, NEW r \in SnmpRequests,
           \/ LookUpAuth(r) \/ LookUpModules(r) \/ HangUp(r) \/ CollectStep(r)
           \/ \E w \in Workers : WorkerStep(r, w)
    PROVE  OnePlace(r)' /\ Course(r)'
<1>. USE ModulesAssumption DEF SnmpTypeOK, OnePlace, Course, Holds, WorkerStates, GoTo, Put
<1>0. OnePlace(r) /\ Course(r)
    BY DEF GatherInv
<1>1. CASE LookUpAuth(r)
    BY <1>0, <1>1 DEF LookUpAuth
<1>2. CASE LookUpModules(r)
    BY <1>0, <1>2 DEF LookUpModules
<1>3. CASE HangUp(r)
    BY <1>0, <1>3 DEF HangUp
<1>4. CASE StopDispatch(r)
    BY <1>0, <1>4 DEF StopDispatch
<1>5. CASE CollectReturns(r)
    BY <1>0, <1>5 DEF CollectReturns
<1>6. ASSUME NEW w \in Workers, NEW m \in Modules, Send(r, w, m)
      PROVE  OnePlace(r)' /\ Course(r)'
    <2>1. /\ phase' = phase /\ gone' = gone /\ reports' = reports /\ phase[r] = "dispatch"
          /\ todo'[r] = todo[r] \ {m} /\ worker'[r] = [worker[r] EXCEPT ![w] = m]
          /\ m \in todo[r] /\ worker[r][w] = "idle"
        BY <1>6 DEF Send
    <2>2. worker[r] \in [Workers -> WorkerStates \cup Modules]
        OBVIOUS
    <2>. QED  BY <1>0, <2>1, <2>2
<1>7. ASSUME NEW w \in Workers, Connect(r, w) PROVE OnePlace(r)' /\ Course(r)'
    <2>1. PICK c \in {"idle", "failed"} : worker'[r] = [worker[r] EXCEPT ![w] = c]
        BY <1>7 DEF Connect
    <2>2. /\ phase' = phase /\ gone' = gone /\ reports' = reports /\ todo' = todo
          /\ worker[r][w] = "connect"
        BY <1>7 DEF Connect
    <2>3. worker[r] \in [Workers -> WorkerStates \cup Modules]
        OBVIOUS
    <2>. QED  BY <1>0, <2>1, <2>2, <2>3
<1>8. ASSUME NEW w \in Workers, ProcessModule(r, w) PROVE OnePlace(r)' /\ Course(r)'
    <2>1. PICK m \in Modules : m = worker[r][w]
        BY <1>8 DEF ProcessModule
    <2>2. /\ phase' = phase /\ gone' = gone /\ todo' = todo
          /\ worker'[r] = [worker[r] EXCEPT ![w] = "idle"]
        BY <1>8 DEF ProcessModule
    <2>3. reports'[r] = [reports[r] EXCEPT ![m] = @ + 1]
        BY <1>8, <2>1 DEF ProcessModule
    <2>4. /\ worker[r] \in [Workers -> WorkerStates \cup Modules]
          /\ reports[r] \in [Modules -> Nat]
        OBVIOUS
    <2>. QED  BY <1>0, <2>1, <2>2, <2>3, <2>4
<1>9. ASSUME NEW w \in Workers, WorkerEnds(r, w) PROVE OnePlace(r)' /\ Course(r)'
    <2>1. /\ phase' = phase /\ gone' = gone /\ reports' = reports /\ todo' = todo
          /\ worker[r][w] = "idle" /\ worker'[r] = [worker[r] EXCEPT ![w] = "done"]
          /\ phase[r] = "wait"
        BY <1>9 DEF WorkerEnds
    <2>2. worker[r] \in [Workers -> WorkerStates \cup Modules]
        OBVIOUS
    <2>. QED  BY <1>0, <2>1, <2>2
<1>. QED  BY <1>1, <1>2, <1>3, <1>4, <1>5, <1>6, <1>7, <1>8, <1>9 DEF CollectStep, WorkerStep

LEMMA GatherInvConf ==
    ASSUME GatherInv, UNCHANGED scrapeVars
    PROVE  GatherInv'
BY DEF GatherInv, OnePlace, Course, Holds, scrapeVars

\* No step of the configuration touches a scrape.
LEMMA ConfKeepsScrapes ==
    Edit \/ Sighup \/ ReloadStep \/ (\E p \in Posters : Post(p)) => UNCHANGED scrapeVars
BY DEF Edit, Sighup, ReloadStep, ReceiveHup, ReceivePost, LoadFile, Swap, Answer, Post

LEMMA GatherInvStep == SnmpTypeOK /\ GatherInv /\ [SnmpNext]_snmpVars => GatherInv'
<1>. SUFFICES ASSUME SnmpTypeOK, GatherInv, [SnmpNext]_snmpVars PROVE GatherInv'
    OBVIOUS
<1>1. CASE UNCHANGED scrapeVars
    BY <1>1, GatherInvConf
<1>2. ASSUME NEW r \in SnmpRequests,
             \/ LookUpAuth(r) \/ LookUpModules(r) \/ HangUp(r) \/ CollectStep(r)
             \/ \E w \in Workers : WorkerStep(r, w)
      PROVE  GatherInv'
    BY <1>2, GatherInvOthers, GatherInvScrape DEF GatherInv
<1>. QED  BY <1>1, <1>2, SnmpSteps, ConfKeepsScrapes DEF snmpVars

\* A hang-up abandons the scrape, ProcessModule reports a module, the return of
\* Collect finishes it, and every other step stutters.
GatherVars == <<reports, gone, {r \in SnmpRequests : phase[r] = "over"}>>

LEMMA GatherScrapeStep ==
    ASSUME SnmpTypeOK, GatherInv, NEW r \in SnmpRequests,
           \/ LookUpAuth(r) \/ LookUpModules(r) \/ HangUp(r) \/ CollectStep(r)
           \/ \E w \in Workers : WorkerStep(r, w)
    PROVE  Gather!SGNext \/ UNCHANGED GatherVars
<1>. USE DEF SnmpTypeOK, GatherVars
<1>0. OnePlace(r) /\ Course(r)
    BY DEF GatherInv
<1>1. CASE LookUpAuth(r) \/ LookUpModules(r) \/ StopDispatch(r)
    BY <1>1 DEF LookUpAuth, LookUpModules, StopDispatch, GoTo
<1>2. CASE HangUp(r)
    <2>1. Gather!Abandon(r)
        BY <1>2 DEF HangUp, Gather!Abandon
    <2>. QED  BY <2>1 DEF Gather!SGNext
<1>3. CASE CollectReturns(r)
    <2>1. r \in gone \/ \A m \in Modules : reports[r][m] = 1
        BY <1>0, <1>3, ModulesAssumption
        DEF CollectReturns, OnePlace, Course, Holds, WorkerStates
    <2>2. {q \in SnmpRequests : phase'[q] = "over"}
             = {q \in SnmpRequests : phase[q] = "over"} \cup {r}
        BY <1>3 DEF CollectReturns, GoTo
    <2>3. Gather!Finish(r)
        BY <1>3, <2>1, <2>2 DEF CollectReturns, Gather!Finish
    <2>. QED  BY <2>3 DEF Gather!SGNext
<1>4. ASSUME NEW w \in Workers, NEW m \in Modules, Send(r, w, m) PROVE UNCHANGED GatherVars
    BY <1>4 DEF Send
<1>5. ASSUME NEW w \in Workers, Connect(r, w) \/ WorkerEnds(r, w) PROVE UNCHANGED GatherVars
    BY <1>5 DEF Connect, WorkerEnds
<1>6. ASSUME NEW w \in Workers, ProcessModule(r, w) PROVE Gather!SGNext
    <2>1. PICK m \in Modules : m = worker[r][w]
        BY <1>6 DEF ProcessModule
    <2>2. reports[r][m] = 0 /\ phase[r] # "over"
        BY <1>0, <2>1, ModulesAssumption DEF OnePlace, Course, Holds, WorkerStates
    <2>3. reports' = [reports EXCEPT ![r][m] = 1]
        BY <1>6, <2>1, <2>2 DEF ProcessModule
    <2>4. Gather!Report(r, m)
        BY <1>6, <2>2, <2>3 DEF ProcessModule, Gather!Report
    <2>. QED  BY <2>4 DEF Gather!SGNext
<1>. QED  BY <1>1, <1>2, <1>3, <1>4, <1>5, <1>6 DEF CollectStep, WorkerStep

LEMMA GatherStep == SnmpTypeOK /\ GatherInv /\ [SnmpNext]_snmpVars => [Gather!SGNext]_GatherVars
<1>1. UNCHANGED scrapeVars => UNCHANGED GatherVars
    BY DEF scrapeVars, GatherVars
<1>. QED  BY <1>1, SnmpSteps, ConfKeepsScrapes, GatherScrapeStep DEF snmpVars

\* Every behaviour of the scrapes is one of ScatterGather: each module reported
\* once, none after the end, all of them when the client is still there.
THEOREM ImplementsScatterGather == SnmpSpec => IsScatterGather
<1>1. SnmpInit => Gather!SGInit
    BY DEF SnmpInit, Gather!SGInit
<1>. QED  BY <1>1, GatherInvInit, GatherInvStep, GatherStep, SnmpTypeInit, SnmpTypeStep, PTL
          DEF SnmpSpec, IsScatterGather, Gather!SGSpec, Gather!sgVars, GatherVars

-----------------------------------------------------------------------------
(* Why a scrape ends: somebody in it need not wait, but in the one case in *)
(* which it hangs until its client is gone.                                *)

CollectCanStep(r) ==
    \/ phase[r] = "dispatch" /\ (todo[r] = {} \/ r \in gone)
    \/ phase[r] = "dispatch" /\ todo[r] # {} /\ \E w \in Workers : worker[r][w] = "idle"
    \/ phase[r] = "wait" /\ \A w \in Workers : worker[r][w] \in {"failed", "done"}

WorkerCanStep(r, w) ==
    \/ worker[r][w] = "connect" \/ worker[r][w] \in Modules
    \/ phase[r] = "wait" /\ worker[r][w] = "idle"

Deserted(r) == phase[r] = "dispatch" /\ NoneConnected(r) /\ r \notin gone

ScrapesGoOn ==
    \A r \in SnmpRequests : phase[r] \in {"dispatch", "wait"} =>
        Deserted(r) \/ CollectCanStep(r) \/ \E w \in Workers : WorkerCanStep(r, w)

\* Collect and its workers never wait for each other, for any number of modules
\* and workers, unless no worker is left and the client waits: the exception that
\* ScrapeEnds makes is the only one.
THEOREM OnlyDesertedHang == SnmpSpec => []ScrapesGoOn
<1>1. SnmpTypeOK /\ GatherInv => ScrapesGoOn
    <2>. SUFFICES ASSUME SnmpTypeOK, GatherInv, NEW r \in SnmpRequests,
                         phase[r] \in {"dispatch", "wait"}, ~Deserted(r), ~CollectCanStep(r)
                  PROVE  \E w \in Workers : WorkerCanStep(r, w)
        BY DEF ScrapesGoOn
    <2>1. \A w \in Workers : worker[r][w] \in WorkerStates \cup Modules /\ worker[r][w] # "none"
        BY DEF SnmpTypeOK, GatherInv, Course
    <2>2. CASE phase[r] = "dispatch"
        <3>1. PICK w \in Workers : worker[r][w] # "failed"
            BY <2>2 DEF Deserted, NoneConnected, CollectCanStep
        <3>2. worker[r][w] \notin {"idle", "done"}
            BY <2>2 DEF CollectCanStep, GatherInv, Course
        <3>. QED  BY <2>1, <3>1, <3>2 DEF WorkerCanStep, WorkerStates
    <2>3. CASE phase[r] = "wait"
        <3>1. PICK w \in Workers : worker[r][w] \notin {"failed", "done"}
            BY <2>3 DEF CollectCanStep
        <3>. QED  BY <2>1, <2>3, <3>1 DEF WorkerCanStep, WorkerStates
    <2>. QED  BY <2>2, <2>3
<1>. QED  BY <1>1, SnmpTypeInit, SnmpTypeStep, GatherInvInit, GatherInvStep, PTL DEF SnmpSpec

-----------------------------------------------------------------------------
(* Why a SIGHUP takes effect: until the file has been read as it was when  *)
(* the signal came, the signal is in its channel or LoadFile is next.      *)

HupIsKept == hupAt > tried => hup = 1 \/ reloader = "load"

HupInv == hupAt <= file.version /\ HupIsKept

LEMMA HupInvStep == SnmpTypeOK /\ HupInv /\ [SnmpNext]_snmpVars => HupInv'
<1>. SUFFICES ASSUME SnmpTypeOK, HupInv, [SnmpNext]_snmpVars PROVE HupInv'
    OBVIOUS
<1>. USE EditsAssumption DEF SnmpTypeOK, HupInv, HupIsKept
<1>1. CASE Edit
    BY <1>1 DEF Edit
<1>2. CASE Sighup
    BY <1>2 DEF Sighup
<1>3. CASE ReceiveHup
    BY <1>3 DEF ReceiveHup
<1>4. CASE LoadFile
    BY <1>4 DEF LoadFile
<1>5. ASSUME NEW p \in Posters, Post(p) \/ ReceivePost(p) PROVE HupInv'
    BY <1>5 DEF Post, ReceivePost
<1>6. CASE Swap \/ Answer
    BY <1>6 DEF Swap, Answer
<1>7. CASE UNCHANGED confVars
    BY <1>7 DEF confVars
<1>8. ASSUME NEW r \in SnmpRequests,
             \/ LookUpAuth(r) \/ LookUpModules(r) \/ HangUp(r) \/ CollectStep(r)
             \/ \E w \in Workers : WorkerStep(r, w)
      PROVE  UNCHANGED confVars
    BY <1>8 DEF LookUpAuth, LookUpModules, HangUp, CollectStep, StopDispatch, CollectReturns,
       Send, WorkerStep, Connect, ProcessModule, WorkerEnds
<1>. QED
    BY <1>1, <1>2, <1>3, <1>4, <1>5, <1>6, <1>7, <1>8, SnmpSteps DEF ReloadStep, snmpVars

ReloaderCanStep ==
    \/ reloader = "wait" /\ (hup = 1 \/ \E p \in Posters : post[p] = "send")
    \/ reloader = "load"
    \/ reloader = "swap" /\ \A r \in SnmpRequests : phase[r] # "looking"
    \/ reloader \in {"ok", "failed"} /\ asker \in Posters /\ post[asker] = "receive"

ReloadsGoOn ==
    /\ HupIsKept
    /\ reloader # "wait" \/ hup = 1 =>
          ReloaderCanStep \/ \E r \in SnmpRequests : phase[r] = "looking"

\* A SIGHUP is not lost in a reload, and the reload is not stuck: the only ones it
\* ever waits for are requests between their two lookups, which wait for nobody.
THEOREM HupIsNeverLost == SnmpSpec => []ReloadsGoOn
<1>1. SnmpInit => HupInv
    BY DEF SnmpInit, HupInv, HupIsKept
<1>2. SnmpTypeOK /\ ReloadInv /\ HupInv => ReloadsGoOn
    BY DEF SnmpTypeOK, ReloadInv, Serving, HupInv, ReloadsGoOn, ReloaderCanStep
<1>. QED  BY <1>1, <1>2, HupInvStep, ReloadInvInit, ReloadInvStep, SnmpTypeInit, SnmpTypeStep,
             PTL DEF SnmpSpec

=============================================================================
