------------------------------- MODULE MCProcess -------------------------------
(***************************************************************************)
(* An instance of the process around the daemons: its start, its pool of   *)
(* providers and its account.  They share no state, so a behaviour lets    *)
(* one of them run while the others rest in an initial state.              *)
(***************************************************************************)
EXTENDS ClientPool, Startup, RelayerAccount

VARIABLE part \* the component that runs: pool, startup or account

\* A configuration that Validate accepts, and what else a field may hold.
Base ==
  [listenAddr |-> "good", useFileLogger |-> FALSE, filename |-> "good",
   maxFileSizeInMB |-> 1, maxBackupsOfLogFiles |-> 1, rpcAddrs |-> 1,
   mnemonicType |-> KeyTypeMnemonic, bbcRegion |-> "good", bbcSecret |-> "good",
   mnemonic |-> "good", sleepMillisecondForWaitBlock |-> 0, cleanUpBlockInterval |-> 1,
   blockIntervalForCleanUpUndeliveredPackages |-> 1, providers |-> 1,
   providerAddrs |-> "good", seedAddrs |-> "good", keyType |-> KeyTypeLocalPrivateKey,
   bscRegion |-> "good", bscSecret |-> "good",
   privateKey |-> "good", gasLimit |-> 1, unconfirmedTxThreshold |-> 1, seeds |-> 0,
   enableAlert |-> FALSE, interval |-> 1, balanceThreshold |-> "good",
   sequenceGapThreshold |-> 1, dialect |-> "mysql", dbPath |-> "", competitionMode |-> FALSE]
Other ==
  [listenAddr |-> {"", "bad"}, useFileLogger |-> {TRUE}, filename |-> {""},
   maxFileSizeInMB |-> {0}, maxBackupsOfLogFiles |-> {0}, rpcAddrs |-> {0},
   mnemonicType |-> {"", KeyTypeAWSMnemonic}, bbcRegion |-> {""}, bbcSecret |-> {""},
   mnemonic |-> {"", "bad"}, sleepMillisecondForWaitBlock |-> {-1},
   cleanUpBlockInterval |-> {0}, blockIntervalForCleanUpUndeliveredPackages |-> {0},
   providers |-> {0}, providerAddrs |-> {"bad"}, seedAddrs |-> {"bad"},
   keyType |-> {"", KeyTypeAWSPrivateKey}, bscRegion |-> {""},
   bscSecret |-> {""}, privateKey |-> {"", "bad"}, gasLimit |-> {0},
   unconfirmedTxThreshold |-> {0}, seeds |-> {1, 2}, enableAlert |-> {TRUE},
   interval |-> {0}, balanceThreshold |-> {"bad", "zero"}, sequenceGapThreshold |-> {0},
   dialect |-> {"sqlite3", "other"}, dbPath |-> {"good", "bad"}, competitionMode |-> {TRUE}]
With(c) == UNION {{[c EXCEPT ![f] = v] : v \in Other[f]} : f \in DOMAIN Base}
Singly == {c : c \in With(Base)}
\* All that differ from the base in at most two fields.
MCConfigs == {c : c \in {Base} \cup Singly \cup UNION {With(c) : c \in Singly}}

Line(network, type, path, secret, region) ==
  [network |-> network, configType |-> type, configPath |-> path,
   awsSecretKey |-> secret, awsRegion |-> region]
FromFile == Line("test", "local", "good", "", "")
MCCommandLines ==
  {FromFile, Line("tmpTest", "aws", "", "good", "good"),
   Line("prod", "local", "", "", ""), Line("prod", "aws", "", "", "good"),
   Line("prod", "aws", "", "good", ""), Line("other", "local", "good", "", ""),
   Line("test", "local_private_key", "good", "good", "good")}

allVars == <<part, vars, startupVars, accountVars>>
MCInit ==
  /\ part \in {"pool", "startup", "account"}
  /\ Init /\ AccountInit
  /\ part = "startup" \/ (part # "startup" /\ cfg = Base /\ flags = FromFile)
  /\ StartupInit
MCNext ==
  \/ part = "pool" /\ Next /\ UNCHANGED <<part, startupVars, accountVars>>
  \/ part = "startup" /\ StartupNext /\ UNCHANGED <<part, vars, accountVars>>
  \/ part = "account" /\ AccountNext /\ UNCHANGED <<part, vars, startupVars>>

\* The fairness of the two modules, while their component runs.
MCFairness ==
  /\ WF_vars(part = "pool" /\ UpdateStep) /\ SF_vars(part = "pool" /\ UpdateLock)
  /\ \A s \in Switchers : WF_vars(SwitchIncrement(s)) /\ WF_vars(SwitchWrap(s))
  /\ WF_accountVars(part = "account" /\ RegisterStep)
  /\ WF_accountVars(part = "account" /\ ClaimerStep)
  /\ WF_accountVars(part = "account" /\ Execute)
MCSpec == MCInit /\ [][MCNext]_allVars /\ MCFairness
===============================================================================
