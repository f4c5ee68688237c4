-------------------------------- MODULE Startup --------------------------------
(***************************************************************************)
(* The relayer process from its command line to its goroutines: main reads *)
(* the flags and the configuration, opens the database, starts the admin   *)
(* server, builds the two executors and starts the relayer, whose          *)
(* goroutines then use the configuration for the first time.  A panic in   *)
(* any goroutine ends the process.                                         *)
(*                                                                         *)
(* The configuration is a record of what the code asks of it: a string is  *)
(* "" (empty), "good" or "bad" (the code that uses it cannot), a list its  *)
(* length, and of a list of addresses also whether all of them are "good". *)
(***************************************************************************)
EXTENDS Integers, FiniteSets

CONSTANTS
  Configs,       \* the configurations a file or secret may hold
  CommandLines   \* the values the flags may have

Networks == {"test", "tmpTest", "prod"}
KeyTypeLocalPrivateKey == "local_private_key"
KeyTypeAWSPrivateKey == "aws_private_key"
KeyTypeMnemonic == "local_mnemonic"
KeyTypeAWSMnemonic == "aws_mnemonic"
DBDialects == {"mysql", "sqlite3"}

\* The sections of the configuration, as their Validate functions judge them.
ValidAdmin(c) == c.listenAddr # ""
ValidLog(c) == c.useFileLogger =>
  c.filename # "" /\ c.maxFileSizeInMB > 0 /\ c.maxBackupsOfLogFiles > 0
ValidBBC_NoInterval(c) ==
  /\ c.rpcAddrs > 0
  /\ c.mnemonicType \in {KeyTypeMnemonic, KeyTypeAWSMnemonic}
  /\ c.mnemonicType = KeyTypeAWSMnemonic => c.bbcRegion # "" /\ c.bbcSecret # ""
  /\ c.sleepMillisecondForWaitBlock >= 0
ValidBBC(c) ==
  /\ c.rpcAddrs > 0
  /\ c.mnemonicType \in {KeyTypeMnemonic, KeyTypeAWSMnemonic}
  /\ c.mnemonicType = KeyTypeAWSMnemonic => c.bbcRegion # "" /\ c.bbcSecret # ""
  /\ c.sleepMillisecondForWaitBlock >= 0
  /\ c.cleanUpBlockInterval # 0
ValidBSC(c) ==
  /\ c.providers > 0
  /\ c.keyType \in {KeyTypeLocalPrivateKey, KeyTypeAWSPrivateKey}
  /\ c.keyType = KeyTypeAWSPrivateKey => c.bscRegion # "" /\ c.bscSecret # ""
  /\ c.keyType # KeyTypeAWSPrivateKey => c.privateKey # ""
  /\ c.gasLimit # 0 /\ c.unconfirmedTxThreshold # 0
\* balance_threshold is an integer here, but alert() parses a decimal: whatever
\* passes here parses there.
ValidAlert(c) == c.enableAlert =>
  /\ c.interval > 0 /\ c.balanceThreshold = "good" /\ c.sequenceGapThreshold > 0
ValidDB(c) == c.dialect \in DBDialects
Valid(c) ==
  /\ ValidAdmin(c) /\ ValidLog(c) /\ ValidBBC(c) /\ ValidBSC(c)
  /\ ValidAlert(c) /\ ValidDB(c)

\* The sections of the configuration: the fields the code below asks about, and
\* what they may hold.
CrossChainConfig == [competitionMode |-> BOOLEAN]
BBCConfig ==
  [rpcAddrs |-> Nat, mnemonicType |-> STRING, bbcRegion |-> STRING, bbcSecret |-> STRING,
   mnemonic |-> STRING, sleepMillisecondForWaitBlock |-> Int, cleanUpBlockInterval |-> Nat,
   blockIntervalForCleanUpUndeliveredPackages |-> Nat]
BSCConfig ==
  [keyType |-> STRING, bscRegion |-> STRING, bscSecret |-> STRING, privateKey |-> STRING,
   providers |-> Nat, providerAddrs |-> STRING, gasLimit |-> Nat,
   unconfirmedTxThreshold |-> Nat, seeds |-> Nat, seedAddrs |-> STRING]
LogConfig ==
  [filename |-> STRING, maxFileSizeInMB |-> Int, maxBackupsOfLogFiles |-> Int,
   useFileLogger |-> BOOLEAN]
AdminConfig == [listenAddr |-> STRING]
AlertConfig ==
  [enableAlert |-> BOOLEAN, interval |-> Int, balanceThreshold |-> STRING,
   sequenceGapThreshold |-> Nat]
DBConfig == [dialect |-> STRING, dbPath |-> STRING]
Sections ==
  {CrossChainConfig, BBCConfig, BSCConfig, LogConfig, AdminConfig, AlertConfig, DBConfig}

ASSUME ConfigAssumption ==
  \A c \in Configs :
    /\ DOMAIN c = UNION {DOMAIN section : section \in Sections}
    /\ \A section \in Sections : \A f \in DOMAIN section : c[f] \in section[f]

VARIABLES
  flags,      \* the command line
  cfg,        \* the configuration (before "load" the one that will be read)
  main,       \* main's control point
  admin,      \* the admin server's goroutine: off, starting or serving
  keyManager, \* does the BBC executor hold a key?
  tables,     \* are the database's tables there?
  running,    \* the goroutines Start has started
  exit,       \* no, usage, error (logged, main returned) or panic
  blamed      \* history: the value of cfg that caused the panic, or "nothing"
              \* ("validation" when Validate made it)

inputs == <<flags, cfg>>
startupVars ==
  <<flags, cfg, main, admin, keyManager, tables, running, exit, blamed>>

Living == exit = "no"
\* main is at `at` and goes to `to`.
Main(at, to) == Living /\ main = at /\ main' = to /\ UNCHANGED <<inputs, exit, blamed>>
\* main is at `at`, and the process ends.
Ends(at, how, value) ==
  /\ Living /\ main = at
  /\ exit' = how /\ blamed' = value
  /\ UNCHANGED <<inputs, main, admin, keyManager, tables, running>>

StartupInit ==
  /\ flags \in CommandLines /\ cfg \in Configs
  /\ main = "flags" /\ admin = "off"
  /\ keyManager = FALSE /\ tables = FALSE /\ running = {}
  /\ exit = "no" /\ blamed = "nothing"

\* Only "aws" and "local" name a source, whatever the flag's default says.
UsableFlags ==
  /\ flags.network \in Networks
  /\ \/ flags.configType = "aws" /\ flags.awsSecretKey # "" /\ flags.awsRegion # ""
     \/ flags.configType = "local" /\ flags.configPath # ""
ReadFlags ==
  IF UsableFlags
  THEN Main("flags", "load") /\ UNCHANGED <<admin, keyManager, tables, running>>
  ELSE Ends("flags", "usage", "nothing")

\* GetSecret: the secret store may fail or hold nothing of use.
NoSecret(at, how) == Ends(at, how, "nothing")

\* A secret is parsed and used as it is; a file is parsed and validated.  A
\* secret that cannot be had ends main, everything else is a panic: a file or
\* secret that cannot be read or parsed, and a value Validate refuses.
Loaded == Main("load", "db") /\ UNCHANGED <<admin, keyManager, tables, running>>
LoadConfig ==
  \/ flags.configType = "local" /\ Valid(cfg) /\ Loaded
  \/ flags.configType = "local" /\ ~Valid(cfg) /\ Ends("load", "panic", "validation")
  \/ flags.configType = "local" /\ Ends("load", "panic", "nothing")
  \/ flags.configType = "aws" /\ (Loaded \/ \E how \in {"error", "panic"} : NoSecret("load", how))

\* The database is optional: without a path it is not opened.  It may be down,
\* its path may not name one, and gorm may have no driver of that dialect.
InitTables == tables' = (cfg.dbPath # "")
OpenDB ==
  \/ /\ cfg.dbPath # "" => cfg.dbPath = "good" /\ cfg.dialect \in DBDialects
     /\ Main("db", "admin")
     /\ InitTables /\ UNCHANGED <<admin, keyManager, running>>
  \/ cfg.dbPath # "" /\ Ends("db", "panic", "nothing")
  \/ cfg.dbPath = "bad" /\ Ends("db", "panic", "dbPath")
  \/ cfg.dbPath # "" /\ cfg.dialect \notin DBDialects /\ Ends("db", "panic", "dialect")

\* go adm.Serve(): listening may fail at any later time, which is a panic; on
\* an address that is not one it always fails.
StartAdmin ==
  /\ Main("admin", "bbc") /\ admin' = "starting"
  /\ UNCHANGED <<keyManager, tables, running>>
Listen ==
  /\ Living /\ admin = "starting" /\ cfg.listenAddr # "bad" /\ admin' = "serving"
  /\ UNCHANGED <<inputs, main, keyManager, tables, running, exit, blamed>>
GoroutinePanics(value) ==
  /\ exit' = "panic" /\ blamed' = value
  /\ UNCHANGED <<inputs, main, admin, keyManager, tables, running>>
ListenFails ==
  /\ Living /\ admin = "starting"
  /\ GoroutinePanics(IF cfg.listenAddr = "bad" THEN "listenAddr" ELSE "nothing")

\* NewBBCExecutor: the key that signs evidence is only read when there are
\* enough providers to monitor; every failure there is a panic.
Monitoring == cfg.seeds >= 2
getMnemonic == cfg.mnemonicType = KeyTypeAWSMnemonic \/ cfg.mnemonic = "good"
NewBBCExecutor ==
  \/ /\ Monitoring => getMnemonic
     /\ Main("bbc", "bsc") /\ keyManager' = Monitoring
     /\ UNCHANGED <<admin, tables, running>>
  \/ Monitoring /\ cfg.mnemonicType = KeyTypeAWSMnemonic /\ NoSecret("bbc", "panic")
  \/ Monitoring /\ ~getMnemonic /\ Ends("bbc", "panic", "mnemonic")

\* NewBSCExecutor: a key that cannot be had or read ends main; a provider
\* that cannot be dialled, or whose address is not one, is a panic.
getPrivateKey == cfg.keyType = KeyTypeAWSPrivateKey \/ cfg.privateKey = "good"
initClients == cfg.providers = 0 \/ cfg.providerAddrs = "good"
NewBSCExecutor ==
  \/ /\ getPrivateKey /\ initClients
     /\ Main("bsc", "info") /\ UNCHANGED <<admin, keyManager, tables, running>>
  \/ cfg.keyType = KeyTypeAWSPrivateKey /\ NoSecret("bsc", "error")
  \/ ~getPrivateKey /\ Ends("bsc", "error", "nothing")
  \/ getPrivateKey /\ cfg.providers > 0 /\ Ends("bsc", "panic", "nothing")
  \/ getPrivateKey /\ ~initClients /\ Ends("bsc", "panic", "providerAddrs")

\* The start height and its validators hash; GetClient panics without a provider.
ReadStartBlock ==
  \/ cfg.rpcAddrs > 0 /\ Main("info", "start") /\ UNCHANGED <<admin, keyManager, tables, running>>
  \/ cfg.rpcAddrs > 0 /\ Ends("info", "error", "nothing")
  \/ cfg.rpcAddrs = 0 /\ Ends("info", "panic", "rpcAddrs")

\* Start: the cleanup of the competition mode runs first (its error is only
\* logged), then the goroutines are started.
Goroutines ==
  {IF cfg.competitionMode THEN "competitionDaemon" ELSE "daemon",
   "bbcUpdateClients", "bscUpdateClients", "txTracker", "alert"}
  \cup (IF Monitoring THEN {"doubleSignMonitor"} ELSE {})
Start ==
  \/ /\ Main("start", "select") /\ running' = Goroutines
     /\ UNCHANGED <<admin, keyManager, tables>>
  \/ cfg.competitionMode /\ cfg.providers = 0 /\ Ends("start", "panic", "providers")

\* What a goroutine's code makes of a value it cannot use: a division by
\* zero, an index out of range, a number that does not parse, a nil key.
NoProvider == cfg.providers = 0
CompetitionModulo == cfg.blockIntervalForCleanUpUndeliveredPackages = 0
NormalModulo == cfg.cleanUpBlockInterval = 0
AlertParses == cfg.balanceThreshold # "bad"
PanicsOn(g, value) ==
  \/ /\ NoProvider /\ value = "providers"
     /\ \/ g \in {"competitionDaemon", "daemon", "bscUpdateClients"}
        \/ g = "alert" /\ cfg.enableAlert
        \/ g = "txTracker" /\ tables
  \/ /\ g = "competitionDaemon" /\ CompetitionModulo
     /\ value = "blockIntervalForCleanUpUndeliveredPackages"
  \/ g = "daemon" /\ NormalModulo /\ value = "cleanUpBlockInterval"
  \/ g = "alert" /\ cfg.enableAlert /\ ~AlertParses /\ value = "balanceThreshold"
  \/ g = "doubleSignMonitor" /\ ~keyManager /\ value = "mnemonic"
GoroutineFails(g) ==
  Living /\ g \in running /\ \E value \in DOMAIN cfg : PanicsOn(g, value) /\ GoroutinePanics(value)
\* The monitor panics as well when a provider cannot be dialled, or cannot be
\* subscribed to: over plain http it never can.
SubscribeFails ==
  /\ Living /\ "doubleSignMonitor" \in running
  /\ GoroutinePanics(IF cfg.seedAddrs = "bad" THEN "seedAddrs" ELSE "nothing")

\* A process that has ended, or in which every goroutine only serves, stays.
Stays == (~Living \/ main = "select") /\ UNCHANGED startupVars

StartupNext ==
  \/ ReadFlags \/ LoadConfig \/ OpenDB \/ StartAdmin \/ NewBBCExecutor
  \/ NewBSCExecutor \/ ReadStartBlock \/ Start
  \/ Listen \/ ListenFails \/ SubscribeFails
  \/ \E g \in running : GoroutineFails(g)
  \/ Stays

StartupSpec == StartupInit /\ [][StartupNext]_startupVars

-------------------------------------------------------------------------------

\* The values that Validate does not look at, or only for being empty.
Unjudged ==
  {"listenAddr", "dbPath", "mnemonic", "providerAddrs", "seedAddrs",
   "blockIntervalForCleanUpUndeliveredPackages"}
\* All that a panic may be due to.
Blamable ==
  Unjudged \cup {"nothing", "validation", "dialect", "rpcAddrs", "providers",
                "cleanUpBlockInterval", "balanceThreshold"}

\* Every variable has its type; flags and cfg are inputs that no step changes.
StartupTypeOK ==
  /\ main \in {"flags", "load", "db", "admin", "bbc", "bsc", "info", "start", "select"}
  /\ admin \in {"off", "starting", "serving"}
  /\ {keyManager, tables} \subseteq BOOLEAN
  /\ running \subseteq {"competitionDaemon", "daemon", "bbcUpdateClients",
       "bscUpdateClients", "txTracker", "alert", "doubleSignMonitor"}
  /\ exit \in {"no", "usage", "error", "panic"}
  /\ blamed \in Blamable

\* What validation is worth: once a process has read a configuration that
\* Validate accepts, no value that Validate judges makes main or a goroutine
\* panic.  The values it lets pass unseen still do: a listen address, a
\* database path or a provider's address that is not one, and, where they are
\* used, the mnemonic and the monitor's providers (with two of them) and the
\* cleanup interval of the competition mode (config.go:80 checks the other
\* interval under this one's name).  A secret is not validated, and nothing is
\* promised of one (config.go:206-212).
OnlyKnownPanics ==
  (flags.configType = "local" \/ Valid(cfg)) /\ main \notin {"flags", "load"} =>
    /\ blamed \in Unjudged \cup {"nothing"}
    /\ blamed = "blockIntervalForCleanUpUndeliveredPackages" => cfg.competitionMode
    /\ blamed \in {"mnemonic", "seedAddrs"} => Monitoring
===============================================================================
