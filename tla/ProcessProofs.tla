----------------------------- MODULE ProcessProofs -----------------------------
(***************************************************************************)
(* Proofs about the start of the process, for every configuration and      *)
(* command line, and about its account, for every minimum reward and       *)
(* number of faults.                                                       *)
(***************************************************************************)
EXTENDS Startup, RelayerAccount, TLAPS

(* The start of the process *)

\* What a panic of a process that has read its configuration may be due to.
Known(value) ==
  /\ value \in Unjudged \cup {"nothing"}
  /\ value = "blockIntervalForCleanUpUndeliveredPackages" => cfg.competitionMode
  /\ value \in {"mnemonic", "seedAddrs"} => Monitoring
Read == flags.configType = "local" \/ Valid(cfg)

\* A living process has not panicked; past "load" a file was validated; past
\* "bbc" there is a key if it is needed; only Start starts goroutines.
StartupInv ==
  /\ Living => blamed = "nothing"
  /\ Read /\ main \notin {"flags", "load"} => Known(blamed)
  /\ main \notin {"flags", "load"} => flags.configType = "aws" \/ Valid(cfg)
  /\ main \in {"bsc", "info", "start", "select"} => (keyManager <=> Monitoring)
  /\ running # {} => main = "select" /\ running \subseteq Goroutines

\* A process that goes on has read a configuration that is valid, or a secret.
LEMMA ReadIsValid ==
  ASSUME StartupInv, main \notin {"flags", "load"}, Read PROVE Valid(cfg)
BY DEF StartupInv, Read

LEMMA NothingIsKnown == Known("nothing")
BY DEF Known

\* A configuration that was read and makes a goroutine panic is a known one.
LEMMA PanicsAreKnown ==
  ASSUME StartupInv, Read, NEW g \in running, NEW value, PanicsOn(g, value)
  PROVE  Known(value)
<1>1. main = "select" /\ g \in Goroutines
  BY DEF StartupInv
<1>2. Valid(cfg)
  BY <1>1, ReadIsValid
<1>3. Monitoring => keyManager
  BY <1>1 DEF StartupInv
<1>4. ~NoProvider /\ ~NormalModulo
  <2>1. cfg.providers > 0 /\ cfg.cleanUpBlockInterval # 0
    BY <1>2 DEF Valid, ValidBSC, ValidBBC
  <2>2. cfg.providers # 0
    BY <2>1
  <2> QED
    BY <2>1, <2>2 DEF NoProvider, NormalModulo
<1>5. cfg.enableAlert => AlertParses
  BY <1>2 DEF AlertParses, Valid, ValidAlert
<1>6. g = "competitionDaemon" => cfg.competitionMode
  BY <1>1 DEF Goroutines
<1>7. g = "doubleSignMonitor" => Monitoring
  BY <1>1 DEF Goroutines
<1> QED
  BY <1>3, <1>4, <1>5, <1>6, <1>7 DEF PanicsOn, Known, Unjudged

\* Steps of main, which stays alive and keeps its inputs.
LEMMA MainKeeps ==
  ASSUME StartupInv, NEW at, NEW to, Main(at, to), at # "select",
         to \notin {"flags", "load"} => flags.configType = "aws" \/ Valid(cfg)
  PROVE  /\ (Living => blamed = "nothing")'
         /\ (Read /\ main \notin {"flags", "load"} => Known(blamed))'
         /\ (main \notin {"flags", "load"} => flags.configType = "aws" \/ Valid(cfg))'
         /\ running = {}
<1>1. blamed' = "nothing" /\ main' = to /\ flags' = flags /\ cfg' = cfg
  BY DEF Main, StartupInv, Living, inputs
<1>2. running = {}
  BY DEF Main, StartupInv
<1>3. (flags.configType = "aws" \/ Valid(cfg))' <=> (flags.configType = "aws" \/ Valid(cfg))
  BY <1>1 DEF Valid, ValidAdmin, ValidLog, ValidBBC, ValidBSC, ValidAlert, ValidDB
<1> QED
  BY <1>1, <1>2, <1>3 DEF Living, Known

\* Whatever ends the process for a known reason, or not for its configuration.
LEMMA EndKeeps ==
  ASSUME StartupInv, exit' # "no",
         UNCHANGED <<inputs, main, keyManager, running>>,
         Read /\ main \notin {"flags", "load"} => Known(blamed')
  PROVE  StartupInv'
<1>1. /\ (Valid(cfg)' <=> Valid(cfg)) /\ (Monitoring' <=> Monitoring)
      /\ (Read' <=> Read) /\ Goroutines' = Goroutines
  BY DEF Read, Valid, ValidAdmin, ValidLog, ValidBBC, ValidBSC, ValidAlert, ValidDB,
         Monitoring, Goroutines, inputs
<1>2. ~Living'
  BY DEF Living
<1>3. (Read /\ main \notin {"flags", "load"} => Known(blamed))'
  BY <1>1 DEF Known, inputs
<1> QED
  BY <1>1, <1>2, <1>3 DEF StartupInv, inputs

\* In main a known reason ends the process, if its configuration does.
LEMMA EndsKeeps ==
  ASSUME StartupInv, NEW at, NEW how \in {"usage", "error", "panic"}, NEW value,
         Ends(at, how, value), Read /\ at \notin {"flags", "load"} => Known(value)
  PROVE  StartupInv'
BY EndKeeps DEF Ends

\* The first steps of main.
LEMMA EarlyStepsKeep ==
  ASSUME StartupInv, ReadFlags \/ LoadConfig \/ OpenDB \/ StartAdmin PROVE StartupInv'
<1>1. CASE ReadFlags
  <2>1. CASE UsableFlags
    <3>1. Main("flags", "load")
      BY <1>1, <2>1 DEF ReadFlags
    <3>2. running' = running /\ main' = "load"
      BY <1>1, <2>1, <3>1 DEF ReadFlags, Main
    <3> QED
      BY <3>1, <3>2, MainKeeps DEF StartupInv
  <2>2. CASE ~UsableFlags
    BY <1>1, <2>2, EndsKeeps DEF ReadFlags
  <2> QED
    BY <2>1, <2>2
<1>2. CASE LoadConfig
  <2>1. CASE Loaded /\ (flags.configType = "aws" \/ Valid(cfg))
    <3>1. Main("load", "db") /\ running' = running /\ main' = "db"
      BY <2>1 DEF Loaded, Main
    <3> QED
      BY <2>1, <3>1, MainKeeps DEF StartupInv
  <2>2. ASSUME NEW value, Ends("load", "panic", value) PROVE StartupInv'
    BY <2>2, EndsKeeps
  <2>3. ASSUME NEW how \in {"error", "panic"}, NoSecret("load", how) PROVE StartupInv'
    BY <2>3, EndsKeeps DEF NoSecret
  <2> QED
    BY <1>2, <2>1, <2>2, <2>3 DEF LoadConfig
<1>3. CASE OpenDB
  <2>1. main = "db" /\ (flags.configType = "aws" \/ Valid(cfg))
    BY <1>3 DEF OpenDB, Main, Ends, StartupInv
  <2>2. CASE Main("db", "admin") /\ UNCHANGED running
    <3>1. main' = "admin"
      BY <2>2 DEF Main
    <3> QED
      BY <2>1, <2>2, <3>1, MainKeeps DEF StartupInv
  <2>3. ASSUME NEW value \in {"nothing", "dbPath"}, Ends("db", "panic", value) PROVE StartupInv'
    BY <2>3, EndsKeeps DEF Known, Unjudged
  <2>4. CASE cfg.dialect \notin DBDialects /\ Ends("db", "panic", "dialect")
    <3>1. ~Read
      BY <2>1, <2>4, ReadIsValid DEF Valid, ValidDB
    <3> QED
      BY <2>4, <3>1, EndsKeeps
  <2> QED
    BY <1>3, <2>2, <2>3, <2>4 DEF OpenDB
<1>4. CASE StartAdmin
  <2>1. Main("admin", "bbc") /\ running' = running /\ main' = "bbc" /\ main = "admin"
    BY <1>4 DEF StartAdmin, Main
  <2>2. flags.configType = "aws" \/ Valid(cfg)
    BY <2>1 DEF StartupInv
  <2> QED
    BY <2>1, <2>2, MainKeeps DEF StartupInv
<1> QED
  BY <1>1, <1>2, <1>3, <1>4

\* The two executors.
LEMMA ExecutorStepsKeep ==
  ASSUME StartupInv, NewBBCExecutor \/ NewBSCExecutor PROVE StartupInv'
<1>1. main \in {"bbc", "bsc"} /\ (flags.configType = "aws" \/ Valid(cfg))
  BY DEF NewBBCExecutor, NewBSCExecutor, NoSecret, Main, Ends, StartupInv
<1>2. CASE Main("bbc", "bsc") /\ keyManager' = Monitoring /\ UNCHANGED running
  <2>1. main' = "bsc" /\ (Monitoring' <=> Monitoring)
    BY <1>2 DEF Main, Monitoring, inputs
  <2> QED
    BY <1>1, <1>2, <2>1, MainKeeps DEF StartupInv
<1>3. CASE Main("bsc", "info") /\ UNCHANGED <<keyManager, running>>
  <2>1. main = "bsc" /\ main' = "info" /\ (Monitoring' <=> Monitoring)
    BY <1>3 DEF Main, Monitoring, inputs
  <2> QED
    BY <1>1, <1>3, <2>1, MainKeeps DEF StartupInv
<1>4. ASSUME NEW at, NEW how \in {"error", "panic"}, NoSecret(at, how) \/ Ends(at, how, "nothing")
      PROVE  StartupInv'
  BY <1>4, EndsKeeps, NothingIsKnown DEF NoSecret
<1>5. CASE Monitoring /\ Ends("bbc", "panic", "mnemonic")
  BY <1>5, EndsKeeps DEF Known, Unjudged
<1>6. CASE Ends("bsc", "panic", "providerAddrs")
  BY <1>6, EndsKeeps DEF Known, Unjudged
<1> QED
  BY <1>2, <1>3, <1>4, <1>5, <1>6 DEF NewBBCExecutor, NewBSCExecutor

\* The start block, and Start with the goroutines.
LEMMA StartKeeps ==
  ASSUME StartupInv, ReadStartBlock \/ Start PROVE StartupInv'
<1>1. /\ main \in {"info", "start"} /\ (keyManager <=> Monitoring)
      /\ flags.configType = "aws" \/ Valid(cfg)
  BY DEF ReadStartBlock, Start, Main, Ends, StartupInv
<1>2. CASE Main("info", "start") /\ UNCHANGED <<keyManager, running>>
  <2>1. main' = "start" /\ (Monitoring' <=> Monitoring)
    BY <1>2 DEF Main, Monitoring, inputs
  <2> QED
    BY <1>1, <1>2, <2>1, MainKeeps DEF StartupInv
<1>3. CASE Ends("info", "error", "nothing")
  BY <1>3, EndsKeeps, NothingIsKnown
<1>4. CASE cfg.rpcAddrs = 0 /\ Ends("info", "panic", "rpcAddrs")
  <2>1. ~Read
    BY <1>1, <1>4, ReadIsValid DEF Valid, ValidBBC
  <2> QED
    BY <1>4, <2>1, EndsKeeps
<1>5. CASE Main("start", "select") /\ running' = Goroutines /\ UNCHANGED keyManager
  <2>1. main' = "select" /\ (Monitoring' <=> Monitoring) /\ Goroutines' = Goroutines
    BY <1>5 DEF Main, Monitoring, Goroutines, inputs
  <2> QED
    BY <1>1, <1>5, <2>1, MainKeeps DEF StartupInv
<1>6. CASE cfg.providers = 0 /\ Ends("start", "panic", "providers")
  <2>1. ~Read
    BY <1>1, <1>6, ReadIsValid DEF Valid, ValidBSC
  <2> QED
    BY <1>6, <2>1, EndsKeeps
<1> QED
  BY <1>2, <1>3, <1>4, <1>5, <1>6 DEF ReadStartBlock, Start

\* The goroutines, and the steps that change nothing of this.
LEMMA GoroutinesKeep ==
  ASSUME StartupInv,
         \/ Listen \/ ListenFails \/ SubscribeFails
         \/ \E g \in running : GoroutineFails(g)
         \/ UNCHANGED startupVars
  PROVE  StartupInv'
<1>1. ASSUME UNCHANGED <<inputs, main, keyManager, running, exit, blamed>> PROVE StartupInv'
  <2>1. /\ (Valid(cfg)' <=> Valid(cfg)) /\ (Monitoring' <=> Monitoring) /\ (Read' <=> Read)
        /\ Goroutines' = Goroutines /\ (Living' <=> Living)
    BY <1>1 DEF Read, Valid, ValidAdmin, ValidLog, ValidBBC, ValidBSC, ValidAlert, ValidDB,
                Monitoring, Goroutines, inputs, Living
  <2>2. Known(blamed)' <=> Known(blamed)
    BY <1>1, <2>1 DEF Known, inputs
  <2> QED
    BY <1>1, <2>1, <2>2 DEF StartupInv, inputs
<1>2. ASSUME NEW value, GoroutinePanics(value), Read => Known(value) PROVE StartupInv'
  BY <1>2, EndKeeps DEF GoroutinePanics
<1>3. CASE Listen
  BY <1>1, <1>3 DEF Listen
<1>4. CASE ListenFails
  <2>1. PICK value \in {"listenAddr", "nothing"} : GoroutinePanics(value)
    BY <1>4 DEF ListenFails
  <2> QED
    BY <1>2, <2>1 DEF Known, Unjudged
<1>5. CASE SubscribeFails
  <2>1. PICK value \in {"seedAddrs", "nothing"} : GoroutinePanics(value)
    BY <1>5 DEF SubscribeFails
  <2>2. Monitoring
    BY <1>5 DEF SubscribeFails, StartupInv, Goroutines
  <2> QED
    BY <1>2, <2>1, <2>2 DEF Known, Unjudged
<1>6. ASSUME NEW g \in running, GoroutineFails(g) PROVE StartupInv'
  <2>1. PICK value : PanicsOn(g, value) /\ GoroutinePanics(value)
    BY <1>6 DEF GoroutineFails
  <2> QED
    BY <1>2, <2>1, PanicsAreKnown
<1>7. CASE UNCHANGED startupVars
  BY <1>1, <1>7 DEF startupVars, inputs
<1> QED
  BY <1>3, <1>4, <1>5, <1>6, <1>7

LEMMA StartupInvInductive == StartupInv /\ [StartupNext]_startupVars => StartupInv'
BY EarlyStepsKeep, ExecutorStepsKeep, StartKeeps, GoroutinesKeep DEF StartupNext, Stays

LEMMA StartupInvInitially == StartupInit => StartupInv
BY DEF StartupInit, StartupInv, Living

\* Whatever the configuration and the flags are: in a process that has read a
\* configuration Validate accepts, no value that Validate judges causes a
\* panic; the others that may are those it passes unseen.
THEOREM KnownPanics == StartupSpec => []OnlyKnownPanics
<1>1. StartupInv => OnlyKnownPanics
  BY DEF StartupInv, OnlyKnownPanics, Known, Read
<1> QED
  BY <1>1, StartupInvInitially, StartupInvInductive, PTL DEF StartupSpec

\* Every variable of the start keeps its type, whatever the configuration.
THEOREM StartupTypes == StartupSpec => []StartupTypeOK
<1>1. StartupInit => StartupTypeOK
  BY DEF StartupInit, StartupTypeOK, Blamable
<1>2. StartupTypeOK /\ [StartupNext]_startupVars => StartupTypeOK'
  <2> SUFFICES ASSUME StartupTypeOK, StartupNext \/ UNCHANGED startupVars PROVE StartupTypeOK'
    OBVIOUS
  <2>1. Goroutines \subseteq {"competitionDaemon", "daemon", "bbcUpdateClients",
          "bscUpdateClients", "txTracker", "alert", "doubleSignMonitor"}
    BY DEF Goroutines
  <2>2. ASSUME NEW at, NEW how \in {"usage", "error", "panic"}, NEW value \in Blamable,
               Ends(at, how, value)
        PROVE  StartupTypeOK'
    BY <2>2 DEF Ends, StartupTypeOK
  <2>3. ASSUME NEW value \in Blamable, GoroutinePanics(value) PROVE StartupTypeOK'
    BY <2>3 DEF GoroutinePanics, StartupTypeOK
  <2>b. {"nothing", "validation", "dialect", "rpcAddrs", "providers", "cleanUpBlockInterval",
          "balanceThreshold", "listenAddr", "dbPath", "mnemonic", "providerAddrs", "seedAddrs",
          "blockIntervalForCleanUpUndeliveredPackages"} \subseteq Blamable
    BY DEF Blamable, Unjudged
  <2>4. CASE ReadFlags
    BY <2>2, <2>b, <2>4 DEF ReadFlags, Main, StartupTypeOK
  <2>5. CASE LoadConfig
    <3>1. CASE Loaded
      BY <3>1 DEF Loaded, Main, StartupTypeOK
    <3>2. ASSUME NEW how \in {"error", "panic"}, NEW value \in {"nothing", "validation"},
                 Ends("load", how, value)
          PROVE  StartupTypeOK'
      BY <2>2, <2>b, <3>2
    <3> QED
      BY <2>5, <3>1, <3>2 DEF LoadConfig, NoSecret
  <2>6. CASE OpenDB
    BY <2>2, <2>b, <2>6 DEF OpenDB, InitTables, Main, StartupTypeOK
  <2>7. CASE StartAdmin
    BY <2>7 DEF StartAdmin, Main, StartupTypeOK
  <2>8. CASE NewBBCExecutor
    <3>1. Monitoring \in BOOLEAN
      BY DEF Monitoring
    <3>2. CASE Main("bbc", "bsc") /\ keyManager' = Monitoring /\ UNCHANGED <<admin, tables, running>>
      BY <3>1, <3>2 DEF Main, StartupTypeOK
    <3> QED
      BY <2>2, <2>b, <2>8, <3>2 DEF NewBBCExecutor, NoSecret
  <2>9. CASE NewBSCExecutor
    BY <2>2, <2>b, <2>9 DEF NewBSCExecutor, NoSecret, Main, StartupTypeOK
  <2>10. CASE ReadStartBlock
    BY <2>2, <2>b, <2>10 DEF ReadStartBlock, Main, StartupTypeOK
  <2>11. CASE Start
    BY <2>1, <2>2, <2>b, <2>11 DEF Start, Main, StartupTypeOK
  <2>12. CASE Listen
    BY <2>12 DEF Listen, StartupTypeOK
  <2>13. CASE ListenFails \/ SubscribeFails \/ \E g \in running : GoroutineFails(g)
    <3>1. ASSUME NEW g \in running, NEW value, PanicsOn(g, value) PROVE value \in Blamable
      BY <2>b, <3>1 DEF PanicsOn
    <3> QED
      BY <2>3, <2>b, <2>13, <3>1 DEF ListenFails, SubscribeFails, GoroutineFails
  <2>14. CASE UNCHANGED startupVars
    BY <2>14 DEF startupVars, inputs, StartupTypeOK
  <2> QED
    BY <2>4, <2>5, <2>6, <2>7, <2>8, <2>9, <2>10, <2>11, <2>12, <2>13, <2>14 DEF StartupNext, Stays
<1> QED
  BY <1>1, <1>2, PTL DEF StartupSpec

-------------------------------------------------------------------------------
(* The account *)

Kinds == {"register", "claim", "other"}
AtMostOne(kind) ==
  \A i, j \in DOMAIN pending : pending[i] = kind /\ pending[j] = kind => i = j

\* What is under way is worth its fee: nothing of its kind is pending, and BSC
\* has what it asks for.
WorthIt ==
  /\ wasted = 0
  /\ AtMostOne("register") /\ AtMostOne("claim")
  /\ IsPending("register") => ~registered
  /\ hub \in {"nonce", "send"} => ~registered /\ ~IsPending("register")
  /\ IsPending("claim") => vault >= minimumReward
  /\ claimer # "query" => hub = "done" /\ vault >= minimumReward /\ ~IsPending("claim")
AccountInv == AccountTypeOK /\ (~staleView => WorthIt)

\* What a new transaction changes of the pending ones, and what the execution
\* of the oldest does.
LEMMA AppendPending ==
  ASSUME pending \in Seq(Kinds), NEW new \in Kinds, pending' = Append(pending, new)
  PROVE  /\ pending' \in Seq(Kinds) /\ Len(pending') = Len(pending) + 1
         /\ \A kind : IsPending(kind)' <=> IsPending(kind) \/ new = kind
         /\ \A kind : AtMostOne(kind) /\ (new = kind => ~IsPending(kind)) => AtMostOne(kind)'
<1>1. /\ pending' \in Seq(Kinds) /\ Len(pending') = Len(pending) + 1
      /\ DOMAIN pending = 1..Len(pending) /\ DOMAIN pending' = 1..(Len(pending) + 1)
      /\ Len(pending) \in Nat
      /\ pending'[Len(pending) + 1] = new
      /\ \A i \in 1..Len(pending) : pending'[i] = pending[i]
  OBVIOUS
<1>2. ASSUME NEW kind PROVE IsPending(kind)' <=> IsPending(kind) \/ new = kind
  <2>1. IsPending(kind) => IsPending(kind)'
    BY <1>1 DEF IsPending
  <2>2. new = kind => IsPending(kind)'
    BY <1>1 DEF IsPending
  <2>3. IsPending(kind)' => IsPending(kind) \/ new = kind
    BY <1>1 DEF IsPending
  <2> QED
    BY <2>1, <2>2, <2>3
<1>3. ASSUME NEW kind, AtMostOne(kind), new = kind => ~IsPending(kind) PROVE AtMostOne(kind)'
  BY <1>1, <1>3 DEF AtMostOne, IsPending
<1> QED
  BY <1>1, <1>2, <1>3

LEMMA TailPending ==
  ASSUME pending \in Seq(Kinds), pending # <<>>, pending' = Tail(pending)
  PROVE  /\ pending' \in Seq(Kinds) /\ Len(pending') = Len(pending) - 1
         /\ Head(pending) \in Kinds /\ IsPending(Head(pending))
         /\ \A kind : IsPending(kind)' => IsPending(kind)
         /\ \A kind : AtMostOne(kind) => AtMostOne(kind)'
         /\ \A kind : AtMostOne(kind) /\ Head(pending) = kind => ~IsPending(kind)'
<1>1. /\ pending' \in Seq(Kinds) /\ Len(pending') = Len(pending) - 1
      /\ DOMAIN pending = 1..Len(pending) /\ DOMAIN pending' = 1..(Len(pending) - 1)
      /\ Len(pending) \in Nat \ {0}
      /\ Head(pending) = pending[1] /\ Head(pending) \in Kinds
      /\ \A i \in 1..(Len(pending) - 1) : pending'[i] = pending[i + 1]
  OBVIOUS
<1>2. \A i \in DOMAIN pending' : i + 1 \in DOMAIN pending /\ i + 1 # 1 /\ pending'[i] = pending[i + 1]
  BY <1>1
<1>3. 1 \in DOMAIN pending
  BY <1>1
<1>4. IsPending(Head(pending))
  BY <1>1, <1>3 DEF IsPending
<1>5. ASSUME NEW kind PROVE IsPending(kind)' => IsPending(kind)
  BY <1>2 DEF IsPending
<1>6. ASSUME NEW kind, AtMostOne(kind) PROVE AtMostOne(kind)'
  <2> SUFFICES ASSUME NEW i \in DOMAIN pending', NEW j \in DOMAIN pending',
                      pending'[i] = kind, pending'[j] = kind
               PROVE  i = j
    BY DEF AtMostOne
  <2>1. i + 1 = j + 1
    BY <1>2, <1>6 DEF AtMostOne
  <2> QED
    BY <1>1, <2>1
<1>7. ASSUME NEW kind, AtMostOne(kind), Head(pending) = kind PROVE ~IsPending(kind)'
  BY <1>1, <1>2, <1>3, <1>7 DEF AtMostOne, IsPending
<1> QED
  BY <1>1, <1>4, <1>5, <1>6, <1>7

\* The nonce that was read stays one that the account has reached.
LEMMA NonceStays ==
  ASSUME AccountTypeOK, mined' \in Nat, Len(pending') \in Nat,
         PendingNonceAt' >= PendingNonceAt, nonce' \in {nonce, PendingNonceAt}
  PROVE  nonce' \in 0..PendingNonceAt'
<1>1. Len(pending) \in Nat /\ mined \in Nat
  BY DEF AccountTypeOK
<1>2. PendingNonceAt \in Nat /\ PendingNonceAt' \in Nat
  BY <1>1 DEF PendingNonceAt
<1> QED
  BY <1>2 DEF AccountTypeOK

LEMMA MishapType ==
  ASSUME AccountTypeOK, NoMishap \/ Mishap(TRUE) \/ Mishap(FALSE)
  PROVE  /\ mishaps' \in 0..AccountFaults /\ staleView' \in BOOLEAN
         /\ ~staleView' => ~staleView
         /\ Mishap(TRUE) => staleView'
<1>1. mishaps \in 0..AccountFaults /\ staleView \in BOOLEAN /\ AccountFaults \in Nat
  BY AccountAssumption DEF AccountTypeOK
<1>2. CASE NoMishap
  <2>1. UNCHANGED <<mishaps, staleView>>
    BY <1>2 DEF NoMishap, mishapVars
  <2>2. ~Mishap(TRUE)
    BY <1>1, <2>1 DEF Mishap
  <2> QED
    BY <1>1, <2>1, <2>2
<1>3. ASSUME NEW stale \in BOOLEAN, Mishap(stale)
      PROVE  /\ mishaps' \in 0..AccountFaults /\ staleView' \in BOOLEAN
             /\ (~staleView' => ~staleView) /\ (stale => staleView')
  <2>1. mishaps' \in 0..AccountFaults
    BY <1>1, <1>3 DEF Mishap
  <2>2. staleView' = (staleView \/ stale)
    BY <1>3 DEF Mishap
  <2> QED
    BY <1>1, <2>1, <2>2, Zenon
<1> QED
  BY <1>2, <1>3

\* Nothing is sent in a step that leaves the pending transactions alone.
LEMMA UnchangedPending ==
  ASSUME UNCHANGED pending
  PROVE  \A kind : (IsPending(kind)' <=> IsPending(kind)) /\ (AtMostOne(kind)' <=> AtMostOne(kind))
BY DEF IsPending, AtMostOne

LEMMA AccountInvInitially == AccountInit => AccountInv
<1> SUFFICES ASSUME AccountInit PROVE AccountInv
  OBVIOUS
<1>1. pending \in Seq(Kinds) /\ Len(pending) = 0 /\ DOMAIN pending = {}
  BY DEF AccountInit
<1>2. AccountTypeOK
  <2>1. /\ vault \in 0..MaxVault /\ mishaps \in 0..AccountFaults
        /\ registered \in BOOLEAN /\ staleView \in BOOLEAN
    <3>1. MaxVault \in Nat /\ AccountFaults \in Nat
      BY AccountAssumption
    <3>2. vault = 0 /\ mishaps = 0
      BY DEF AccountInit
    <3>3. vault \in 0..MaxVault /\ mishaps \in 0..AccountFaults
      BY <3>1, <3>2
    <3>4. registered \in BOOLEAN /\ staleView \in BOOLEAN
      BY DEF AccountInit
    <3> QED
      BY <3>3, <3>4
  <2>2. PendingNonceAt = 0 /\ mined = 0 /\ nonce \in 0..PendingNonceAt /\ wasted \in 0..mined
    BY <1>1 DEF AccountInit, PendingNonceAt
  <2>3. pending \in Seq({"register", "claim", "other"})
    BY <1>1 DEF Kinds
  <2> QED
    BY <2>1, <2>2, <2>3 DEF AccountInit, AccountTypeOK
<1>3. WorthIt
  BY <1>1 DEF AccountInit, WorthIt, AtMostOne, IsPending
<1> QED
  BY <1>2, <1>3 DEF AccountInv
\* The relayer's own steps: at most one transaction is sent, BSC stays.
RelayerStep ==
  /\ UNCHANGED <<registered, vault, mined, wasted>>
  /\ hub' \in {"ask", "nonce", "send", "check", "done"}
  /\ claimer' \in {"query", "nonce", "send"}
  /\ pending' = pending \/ \E kind \in Kinds : pending' = Append(pending, kind)
  /\ nonce' \in {nonce, PendingNonceAt}
  /\ NoMishap \/ Mishap(TRUE) \/ Mishap(FALSE)

LEMMA RelayerStepType == ASSUME AccountTypeOK, RelayerStep PROVE AccountTypeOK'
<1>1. /\ pending \in Seq(Kinds) /\ Len(pending) \in Nat /\ mined \in Nat
      /\ registered \in BOOLEAN /\ vault \in 0..MaxVault
      /\ wasted \in 0..mined
  BY DEF AccountTypeOK, Kinds
<1>2. UNCHANGED <<registered, vault, mined, wasted>>
  BY DEF RelayerStep
<1>3. pending' \in Seq(Kinds) /\ Len(pending') \in Nat /\ Len(pending') >= Len(pending)
  <2>1. CASE pending' = pending
    BY <1>1, <2>1
  <2>2. ASSUME NEW kind \in Kinds, pending' = Append(pending, kind)
        PROVE  pending' \in Seq(Kinds) /\ Len(pending') = Len(pending) + 1
    BY <1>1, <2>2, AppendPending
  <2> QED
    BY <1>1, <2>1, <2>2 DEF RelayerStep
<1>4. mined' \in Nat /\ PendingNonceAt' >= PendingNonceAt
  BY <1>1, <1>2, <1>3 DEF PendingNonceAt
<1>5. nonce' \in 0..PendingNonceAt'
  BY <1>3, <1>4, NonceStays DEF RelayerStep
<1>6. mishaps' \in 0..AccountFaults /\ staleView' \in BOOLEAN
  BY MishapType DEF RelayerStep
<1>7. pending' \in Seq({"register", "claim", "other"})
  BY <1>3 DEF Kinds
<1>8. /\ registered' \in BOOLEAN /\ vault' \in 0..MaxVault
      /\ wasted' \in 0..mined'
  BY <1>1, <1>2
<1> QED
  BY <1>4, <1>5, <1>6, <1>7, <1>8 DEF AccountTypeOK, RelayerStep

\* A fresh answer knows the pending transactions.
LEMMA FreshAnswer ==
  ASSUME AccountInv, NEW opts \in Views, Answered(opts), ~staleView'
  PROVE  /\ ~staleView /\ WorthIt
         /\ ~IsRelayer(opts) => ~registered /\ ~IsPending("register")
         /\ WorthClaiming(RelayerRewardVault(opts)) =>
              vault >= minimumReward /\ ~IsPending("claim")
<1>1. ~Mishap(TRUE) /\ ~staleView
  BY MishapType DEF AccountInv, Answered
<1>2. opts.Pending
  <2>1. opts = getCallOpts
    BY <1>1 DEF Answered
  <2>2. opts.Pending = TRUE
    BY <2>1 DEF getCallOpts
  <2> QED
    BY <2>2
<1>3. ~(0 >= minimumReward)
  BY AccountAssumption
<1> QED
  BY <1>1, <1>2, <1>3 DEF AccountInv, IsRelayer, RelayerRewardVault, WorthClaiming

\* Registration: it asks before it pays, and after every restart again.
LEMMA RegistrationKeeps ==
  ASSUME AccountInv, AskRelayer \/ RegisterNonce \/ RegisterRelayer \/ CheckRelayer
  PROVE  AccountInv'
<1>1. AccountTypeOK /\ pending \in Seq(Kinds)
  BY DEF AccountInv, AccountTypeOK, Kinds
<1>2. ASSUME NEW from \in {"ask", "nonce", "send", "check"}, NEW to \in {"nonce", "send", "check", "done", "ask"},
             Hub(from, to)
      PROVE  /\ UNCHANGED <<registered, vault, mined, wasted, claimer>>
             /\ claimer \in {"query", "nonce", "send"}
             /\ hub' = to /\ hub = from /\ (~staleView => claimer = "query")
  BY <1>2 DEF Hub, AccountInv, AccountTypeOK, WorthIt
<1>3. ASSUME NEW opts \in Views, Answered(opts), UNCHANGED <<pending, nonce>>,
             \/ Hub("ask", IF IsRelayer(opts) THEN "done" ELSE "nonce")
             \/ Hub("check", IF IsRelayer(opts) THEN "done" ELSE "ask")
      PROVE  AccountInv'
  <2>1. RelayerStep
    BY <1>2, <1>3 DEF RelayerStep, Answered
  <2>2. ASSUME ~staleView' PROVE WorthIt'
    <3>1. WorthIt /\ ~staleView /\ (~IsRelayer(opts) => ~registered /\ ~IsPending("register"))
      BY <1>3, <2>2, FreshAnswer
    <3>2. hub' \in {"nonce", "send"} => ~registered /\ ~IsPending("register")
      BY <1>3, <3>1 DEF Hub
    <3>3. claimer' = "query" /\ UNCHANGED <<registered, vault, wasted>>
      BY <1>2, <1>3, <3>1
    <3> QED
      BY <1>3, <3>1, <3>2, <3>3, UnchangedPending DEF WorthIt
  <2> QED
    BY <1>1, <2>1, <2>2, RelayerStepType DEF AccountInv
<1>4. CASE AskRelayer \/ CheckRelayer
  BY <1>3, <1>4 DEF AskRelayer, CheckRelayer
<1>5. CASE RegisterNonce
  <2>1. Hub("nonce", "send") /\ UNCHANGED pending /\ nonce' = PendingNonceAt /\ NoMishap
    BY <1>5 DEF RegisterNonce, ReadAccountNonce
  <2>2. RelayerStep
    BY <1>2, <2>1 DEF RelayerStep
  <2>3. ASSUME ~staleView' PROVE WorthIt'
    <3>1. WorthIt /\ ~staleView
      BY <2>1, <2>3 DEF NoMishap, mishapVars, AccountInv
    <3>2. /\ claimer' = "query" /\ UNCHANGED <<registered, vault, wasted>>
          /\ ~registered /\ ~IsPending("register")
      BY <1>2, <2>1, <3>1 DEF WorthIt
    <3> QED
      BY <2>1, <3>1, <3>2, UnchangedPending DEF WorthIt
  <2> QED
    BY <1>1, <2>2, <2>3, RelayerStepType DEF AccountInv
<1>6. CASE RegisterRelayer
  <2>1. /\ Hub("send", "check") /\ pending' = Append(pending, "register") /\ NoMishap
        /\ UNCHANGED nonce
    BY <1>6 DEF RegisterRelayer, Takes
  <2>2. RelayerStep
    BY <1>2, <2>1 DEF RelayerStep, Kinds
  <2>3. ASSUME ~staleView' PROVE WorthIt'
    <3>1. WorthIt /\ ~staleView
      BY <2>1, <2>3 DEF NoMishap, mishapVars, AccountInv
    <3>2. /\ claimer' = "query" /\ UNCHANGED <<registered, vault, wasted>> /\ hub' = "check"
          /\ ~registered /\ ~IsPending("register")
      BY <1>2, <2>1, <3>1 DEF WorthIt
    <3>3. /\ \A kind : IsPending(kind)' <=> IsPending(kind) \/ "register" = kind
          /\ \A kind : AtMostOne(kind) /\ ("register" = kind => ~IsPending(kind)) => AtMostOne(kind)'
      BY <1>1, <2>1, AppendPending DEF Kinds
    <3> QED
      BY <3>1, <3>2, <3>3 DEF WorthIt
  <2> QED
    BY <1>1, <2>2, <2>3, RelayerStepType DEF AccountInv
<1> QED
  BY <1>4, <1>5, <1>6
\* A restart forgets what the calls knew; what they sent stays pending.
LEMMA RestartKeeps == ASSUME AccountInv, Restart PROVE AccountInv'
<1>1. AccountTypeOK /\ pending \in Seq(Kinds)
  BY DEF AccountInv, AccountTypeOK, Kinds
<1>2. /\ hub' = "ask" /\ claimer' = "query" /\ Mishap(FALSE)
      /\ UNCHANGED <<registered, vault, mined, wasted, nonce>>
  BY DEF Restart, Restarted
<1>3. /\ \/ UNCHANGED pending
         \/ hub = "send" /\ pending' = Append(pending, "register")
         \/ hub = "done" /\ claimer = "send" /\ pending' = Append(pending, "claim")
  BY DEF Restart, Takes
<1>4. RelayerStep
  BY <1>2, <1>3 DEF RelayerStep, Kinds
<1>5. ASSUME ~staleView' PROVE WorthIt'
  <2>1. WorthIt
    BY <1>1, <1>2, <1>5, MishapType DEF AccountInv
  <2>2. CASE UNCHANGED pending
    BY <1>2, <2>1, <2>2, UnchangedPending DEF WorthIt
  <2>3. CASE hub = "send" /\ pending' = Append(pending, "register")
    <3>1. ~registered /\ ~IsPending("register")
      BY <2>1, <2>3 DEF WorthIt
    <3>2. /\ \A kind : IsPending(kind)' <=> IsPending(kind) \/ "register" = kind
          /\ \A kind : AtMostOne(kind) /\ ("register" = kind => ~IsPending(kind)) => AtMostOne(kind)'
      BY <1>1, <2>3, AppendPending DEF Kinds
    <3> QED
      BY <1>2, <2>1, <3>1, <3>2 DEF WorthIt
  <2>4. CASE claimer = "send" /\ pending' = Append(pending, "claim")
    <3>1. vault >= minimumReward /\ ~IsPending("claim")
      BY <2>1, <2>4 DEF WorthIt
    <3>2. /\ \A kind : IsPending(kind)' <=> IsPending(kind) \/ "claim" = kind
          /\ \A kind : AtMostOne(kind) /\ ("claim" = kind => ~IsPending(kind)) => AtMostOne(kind)'
      BY <1>1, <2>4, AppendPending DEF Kinds
    <3> QED
      BY <1>2, <2>1, <3>1, <3>2 DEF WorthIt
  <2> QED
    BY <1>3, <2>2, <2>3, <2>4
<1> QED
  BY <1>1, <1>4, <1>5, RelayerStepType DEF AccountInv

\* Claims: a round asks for the vault, reads the nonce and sends once.
LEMMA ClaimsKeep ==
  ASSUME AccountInv, QueryReward \/ ClaimNonce \/ ClaimReward PROVE AccountInv'
<1>1. AccountTypeOK /\ pending \in Seq(Kinds)
  BY DEF AccountInv, AccountTypeOK, Kinds
<1>2. ASSUME NEW from, NEW to \in {"query", "nonce", "send"}, Claimer(from, to)
      PROVE  /\ UNCHANGED <<registered, vault, mined, wasted, hub>>
             /\ hub = "done"
             /\ claimer' = to /\ claimer = from
  BY <1>1, <1>2 DEF Claimer, AccountTypeOK
<1>3. CASE QueryReward
  <2>1. PICK opts \in Views, to \in {"query", "nonce"} :
          /\ Answered(opts) /\ UNCHANGED <<pending, nonce>> /\ Claimer("query", to)
          /\ to = "nonce" => WorthClaiming(RelayerRewardVault(opts))
    BY <1>3 DEF QueryReward
  <2>2. RelayerStep
    BY <1>2, <2>1 DEF RelayerStep, Answered
  <2>3. ASSUME ~staleView' PROVE WorthIt'
    <3>1. WorthIt /\ (to = "nonce" => vault >= minimumReward /\ ~IsPending("claim"))
      BY <2>1, <2>3, FreshAnswer
    <3> QED
      BY <1>2, <2>1, <3>1, UnchangedPending DEF WorthIt
  <2> QED
    BY <1>1, <2>2, <2>3, RelayerStepType DEF AccountInv
<1>4. CASE ClaimNonce
  <2>1. Claimer("nonce", "send") /\ UNCHANGED pending /\ nonce' = PendingNonceAt /\ NoMishap
    BY <1>4 DEF ClaimNonce, ReadAccountNonce
  <2>2. RelayerStep
    BY <1>2, <2>1 DEF RelayerStep
  <2>3. ASSUME ~staleView' PROVE WorthIt'
    <3>1. WorthIt
      BY <2>1, <2>3 DEF NoMishap, mishapVars, AccountInv
    <3> QED
      BY <1>2, <2>1, <3>1, UnchangedPending DEF WorthIt
  <2> QED
    BY <1>1, <2>2, <2>3, RelayerStepType DEF AccountInv
<1>5. CASE ClaimReward
  <2>1. /\ Claimer("send", "query") /\ UNCHANGED nonce
        /\ UNCHANGED pending \/ pending' = Append(pending, "claim")
        /\ NoMishap \/ Mishap(FALSE)
    BY <1>5 DEF ClaimReward, Transact, Takes
  <2>2. RelayerStep
    BY <1>2, <2>1 DEF RelayerStep, Kinds
  <2>3. ASSUME ~staleView' PROVE WorthIt'
    <3>1. WorthIt
      BY <1>1, <2>1, <2>3, MishapType DEF AccountInv
    <3>2. /\ UNCHANGED <<registered, vault, wasted, hub>> /\ hub = "done" /\ claimer' = "query"
          /\ vault >= minimumReward /\ ~IsPending("claim")
      BY <1>2, <2>1, <3>1 DEF WorthIt
    <3>3. CASE UNCHANGED pending
      BY <3>1, <3>2, <3>3, UnchangedPending DEF WorthIt
    <3>4. CASE pending' = Append(pending, "claim")
      <4>1. /\ \A kind : IsPending(kind)' <=> IsPending(kind) \/ "claim" = kind
            /\ \A kind : AtMostOne(kind) /\ ("claim" = kind => ~IsPending(kind)) => AtMostOne(kind)'
        BY <1>1, <3>4, AppendPending DEF Kinds
      <4> QED
        BY <3>1, <3>2, <4>1 DEF WorthIt
    <3> QED
      BY <2>1, <3>3, <3>4
  <2> QED
    BY <1>1, <2>2, <2>3, RelayerStepType DEF AccountInv
<1> QED
  BY <1>3, <1>4, <1>5

\* The rest of the process sends its own.
LEMMA OthersKeep == ASSUME AccountInv, OthersSend PROVE AccountInv'
<1>1. AccountTypeOK /\ pending \in Seq(Kinds)
  BY DEF AccountInv, AccountTypeOK, Kinds
<1>2. /\ UNCHANGED <<registered, vault, wasted, hub, claimer>> /\ NoMishap
      /\ UNCHANGED pending \/ pending' = Append(pending, "other")
  BY DEF OthersSend, chainVars, NoMishap
<1>3. RelayerStep
  BY <1>1, <1>2 DEF RelayerStep, OthersSend, chainVars, Kinds, AccountTypeOK
<1>4. ASSUME ~staleView' PROVE WorthIt'
  <2>1. WorthIt
    BY <1>2, <1>4 DEF NoMishap, mishapVars, AccountInv
  <2>2. CASE UNCHANGED pending
    BY <1>2, <2>1, <2>2, UnchangedPending DEF WorthIt
  <2>3. CASE pending' = Append(pending, "other")
    <3>1. /\ \A kind : IsPending(kind)' <=> IsPending(kind) \/ "other" = kind
          /\ \A kind : AtMostOne(kind) /\ ("other" = kind => ~IsPending(kind)) => AtMostOne(kind)'
      BY <1>1, <2>3, AppendPending DEF Kinds
    <3> QED
      BY <1>2, <2>1, <3>1 DEF WorthIt
  <2> QED
    BY <1>2, <2>2, <2>3
<1> QED
  BY <1>1, <1>3, <1>4, RelayerStepType DEF AccountInv

\* BSC executes the oldest transaction; a claim under way has its reward.
LEMMA ExecuteKeeps == ASSUME AccountInv, Execute PROVE AccountInv'
<1>1. AccountTypeOK /\ pending \in Seq(Kinds)
  BY DEF AccountInv, AccountTypeOK, Kinds
<1>2. /\ pending # <<>> /\ pending' = Tail(pending) /\ mined' = mined + 1
      /\ UNCHANGED <<hub, claimer, nonce, mishaps, staleView>>
  BY DEF Execute, mishapVars
<1> DEFINE kind == Head(pending)
<1>3. /\ registered' = (registered \/ kind = "register")
      /\ vault' = IF kind = "claim" THEN 0 ELSE vault
      /\ wasted' = IF \/ kind = "register" /\ registered
                      \/ kind = "claim" /\ vault < minimumReward
                   THEN wasted + 1 ELSE wasted
  BY DEF Execute
<1>4. /\ pending' \in Seq(Kinds) /\ Len(pending') = Len(pending) - 1
      /\ kind \in Kinds /\ IsPending(kind)
      /\ \A k : IsPending(k)' => IsPending(k)
      /\ \A k : AtMostOne(k) => AtMostOne(k)'
      /\ \A k : AtMostOne(k) /\ kind = k => ~IsPending(k)'
  BY <1>1, <1>2, TailPending
<1> HIDE DEF kind
<1>5. AccountTypeOK'
  <2>1. /\ mined \in Nat /\ wasted \in 0..mined /\ vault \in 0..MaxVault
        /\ registered \in BOOLEAN
        /\ nonce \in 0..(mined + Len(pending)) /\ Len(pending) \in Nat /\ Len(pending') \in Nat
        /\ MaxVault \in Nat
    BY <1>1, <1>4, AccountAssumption DEF AccountTypeOK, PendingNonceAt
  <2>2. mined' \in Nat /\ wasted' \in 0..mined' /\ vault' \in 0..MaxVault
    <3>1. wasted' \in {wasted, wasted + 1} /\ vault' \in {0, vault}
      BY <1>3
    <3> QED
      BY <1>2, <2>1, <3>1
  <2>3. nonce' \in 0..PendingNonceAt'
    BY <1>2, <1>4, <2>1 DEF PendingNonceAt
  <2>4. registered' \in BOOLEAN
    BY <1>3, <2>1
  <2>5. pending' \in Seq({"register", "claim", "other"})
    BY <1>4 DEF Kinds
  <2> QED
    BY <1>1, <1>2, <2>2, <2>3, <2>4, <2>5 DEF AccountTypeOK
<1>6. ASSUME ~staleView' PROVE WorthIt'
  <2>1. WorthIt
    BY <1>2, <1>6 DEF AccountInv
  <2>2. /\ kind = "register" => ~registered /\ ~IsPending("register")'
        /\ kind = "claim" => vault >= minimumReward /\ ~IsPending("claim")' /\ claimer = "query"
    BY <1>4, <2>1 DEF WorthIt
  <2>3. vault \in Nat /\ minimumReward \in Nat
    BY <1>1, AccountAssumption DEF AccountTypeOK
  <2>4. wasted' = 0 /\ (kind # "claim" => vault' = vault)
    BY <1>3, <2>1, <2>2, <2>3 DEF WorthIt
  <2>5. AtMostOne("register")' /\ AtMostOne("claim")'
    BY <1>4, <2>1 DEF WorthIt
  <2>6. IsPending("register")' => ~registered'
    BY <1>3, <1>4, <2>1, <2>2 DEF WorthIt
  <2>7. hub' \in {"nonce", "send"} => ~registered' /\ ~IsPending("register")'
    BY <1>2, <1>3, <1>4, <2>1, <2>2 DEF WorthIt
  <2>8. IsPending("claim")' => vault' >= minimumReward
    BY <1>4, <2>1, <2>2, <2>4 DEF WorthIt
  <2>9. claimer' # "query" => hub' = "done" /\ vault' >= minimumReward /\ ~IsPending("claim")'
    BY <1>2, <1>4, <2>1, <2>2, <2>4 DEF WorthIt
  <2> QED
    BY <2>4, <2>5, <2>6, <2>7, <2>8, <2>9 DEF WorthIt
<1> QED
  BY <1>5, <1>6 DEF AccountInv

\* A reward only adds to the vault.
LEMMA RewardKeeps == ASSUME AccountInv, Reward PROVE AccountInv'
<1>1. /\ vault < MaxVault /\ vault' = vault + 1
      /\ UNCHANGED <<registered, mined, pending, wasted, hub, claimer, nonce, mishaps, staleView>>
  BY DEF Reward, mishapVars
<1>2. AccountTypeOK /\ vault \in Nat /\ MaxVault \in Nat /\ minimumReward \in Nat
  BY AccountAssumption DEF AccountInv, AccountTypeOK
<1>3. PendingNonceAt' = PendingNonceAt /\ vault' \in 0..MaxVault
  BY <1>1, <1>2 DEF PendingNonceAt
<1>4. AccountTypeOK'
  BY <1>1, <1>2, <1>3 DEF AccountTypeOK
<1>5. vault >= minimumReward => vault' >= minimumReward
  BY <1>1, <1>2
<1>6. ASSUME ~staleView' PROVE WorthIt'
  BY <1>1, <1>5, <1>6, UnchangedPending DEF AccountInv, WorthIt
<1> QED
  BY <1>4, <1>6 DEF AccountInv

LEMMA AccountInvInductive == AccountInv /\ [AccountNext]_accountVars => AccountInv'
<1>1. ASSUME AccountInv, UNCHANGED accountVars PROVE AccountInv'
  BY <1>1 DEF AccountInv, AccountTypeOK, WorthIt, AtMostOne, IsPending, PendingNonceAt, accountVars
<1> QED
  BY <1>1, RegistrationKeeps, RestartKeeps, ClaimsKeep, OthersKeep, ExecuteKeeps, RewardKeeps
     DEF AccountNext

\* For every minimum reward, threshold, number of transactions and faults:
\* unless a provider answered without the pending transactions, every
\* registration and claim that BSC executes achieves something.
THEOREM NoWaste == AccountSpec => []NothingWasted
<1>1. AccountInv => NothingWasted
  BY DEF AccountInv, WorthIt, NothingWasted
<1> QED
  BY <1>1, AccountInvInitially, AccountInvInductive, PTL DEF AccountSpec

\* Every variable of the account keeps its type.
THEOREM AccountTypes == AccountSpec => []AccountTypeOK
<1>1. AccountInv => AccountTypeOK
  BY DEF AccountInv
<1> QED
  BY <1>1, AccountInvInitially, AccountInvInductive, PTL DEF AccountSpec
===============================================================================
