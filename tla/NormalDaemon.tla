----------------------------- MODULE NormalDaemon -----------------------------
(***************************************************************************)
(* The relayer in normal mode (relayerDaemon of relayer/daemon.go): it     *)
(* looks at every BC block for a validator-set change only, and delivers   *)
(* packages by cleanups, at every CleanInterval-th height or, while a      *)
(* channel is far behind, at every height.                                 *)
(***************************************************************************)
EXTENDS Executor

CONSTANTS
  HeightBehindThreshold, \* daemon.go: blocks the walk may lag behind (10)
  CleanInterval,         \* BBCConfig.CleanUpBlockInterval
  MaxLead,               \* bound: BC runs at most so far ahead of the walk
  Nil                    \* no validators hash (a nil slice)

ASSUME NormalAssumption ==
  /\ HeightBehindThreshold \in Nat
  /\ CleanInterval \in Nat \ {0}
  /\ MaxLead \in Nat
  /\ Nil \notin ValSets

VARIABLES
  height,         \* next BC height to look at
  curVals,        \* curValidatorsHash
  needAccelerate, \* clean up at this height whatever the interval
  startHeight     \* history: the first height since the last boot

daemonVars == <<height, curVals, needAccelerate, startHeight>>
vars == <<chainVars, execVars, daemonVars>>

Hash(h) == blocks[h].vals

\* main.go reads the hash one block below the latest one and starts the
\* daemon; the two kinds of start differ only in what survives on the chains.
Init ==
  /\ ChainInit /\ ExecInit
  /\ pc = "start" /\ cleanRet = "none" /\ ch = 0 /\ ci = 0
  /\ height = 0 /\ curVals = Hash(Latest - 1) /\ needAccelerate = FALSE
  /\ startHeight = 0

Crash ==
  /\ Fault("crash")
  /\ err' = FALSE /\ hdr' = 0 /\ nonce' = 0 /\ syncRet' = "none"
  /\ nextSeq' = 0 /\ seq' = 0 /\ end' = 0 /\ synced' = FALSE /\ accel' = FALSE
  /\ pc' = "start" /\ cleanRet' = "none" /\ ch' = 0 /\ ci' = 0
  /\ height' = 0 /\ curVals' = Hash(Latest - 1) /\ needAccelerate' = FALSE
  /\ startHeight' = 0
  /\ UNCHANGED <<blocks, bscVars, pool, sent, capped>>

\* getLatestHeight: an error reads as height 0.
LatestRead(l) == (l = Latest /\ NoFault) \/ (l = 0 /\ Fault("rpc"))

\* The first height is whatever is the latest once the goroutine runs.
Start ==
  /\ pc = "start"
  /\ \E l \in {0, Latest} : LatestRead(l) /\ height' = l /\ startHeight' = l
  /\ pc' = "top"
  /\ UNCHANGED <<blocks, bscVars, pool, sent, err, nonce, syncVars, batchVars, cleanVars, capped,
                 curVals, needAccelerate>>

\* Far behind, the walk jumps to the latest height and cleans up there.
Jump_NoCleanup(l) == height' = l /\ UNCHANGED needAccelerate
Jump(l) == height' = l /\ needAccelerate' = TRUE
Top ==
  /\ pc = "top"
  /\ \E l \in {0, Latest} :
       /\ LatestRead(l)
       /\ \/ l > height + HeightBehindThreshold /\ Jump(l)
          \/ l <= height + HeightBehindThreshold /\ UNCHANGED <<height, needAccelerate>>
  /\ pc' = "monitor"
  /\ UNCHANGED <<blocks, bscVars, pool, sent, err, nonce, syncVars, batchVars, cleanVars, capped,
                 curVals, startHeight>>

\* MonitorValidatorSetChange: a change is noticed only while a hash is known.
Changed_IgnoresNext(b) == curVals # Nil /\ b.vals # curVals
Changed(b) == curVals # Nil /\ (b.vals # curVals \/ b.vals # b.next)

Monitor ==
  /\ pc = "monitor"
  /\ height \in 1..Latest
  /\ IF Changed(blocks[height])
       THEN CallSync(height, "changeSynced") /\ curVals' = Hash(height)
       ELSE pc' = "dispatch" /\ UNCHANGED <<syncVars, curVals>>
  /\ NoFault
  /\ UNCHANGED <<blocks, bscVars, pool, sent, err, nonce, batchVars, cleanVars, capped,
                 height, needAccelerate, startHeight>>

\* An error returns a nil hash, and the loop keeps it.
MonitorFails ==
  /\ pc = "monitor"
  /\ (height \notin 1..Latest /\ NoFault) \/ Fault("rpc")
  /\ curVals' = Nil /\ pc' = "top"
  /\ UNCHANGED <<blocks, bscVars, pool, sent, err, nonce, syncVars, batchVars, cleanVars, capped,
                 height, needAccelerate, startHeight>>

\* Whether the header of the change was synced or not: an error is only logged.
ChangeSynced ==
  /\ pc = "changeSynced"
  /\ pc' = "dispatch" /\ err' = FALSE /\ NoFault
  /\ UNCHANGED <<blocks, bscVars, pool, sent, nonce, syncVars, batchVars, cleanVars, capped, daemonVars>>

CleanupDue == needAccelerate \/ height % CleanInterval = 0

Dispatch ==
  /\ pc = "dispatch"
  /\ \/ /\ CleanupDue
        /\ CallClean(height, IF needAccelerate THEN "accelCleaned" ELSE "intervalCleaned")
        /\ UNCHANGED height
     \/ /\ ~CleanupDue
        /\ height' = Inc(height) /\ pc' = "top" /\ UNCHANGED cleanVars
  /\ NoFault
  /\ UNCHANGED <<blocks, bscVars, pool, sent, err, nonce, syncVars, batchVars, capped,
                 curVals, needAccelerate, startHeight>>

\* A cleanup returned: its first result decides about the next height, also
\* when it returned an error before it had looked at every channel.
Accelerate_Never == needAccelerate' = FALSE
Accelerate == needAccelerate' = accel
Cleaned ==
  /\ pc \in {"accelCleaned", "intervalCleaned"}
  /\ height' = Inc(height) /\ Accelerate
  /\ pc' = "top" /\ err' = FALSE /\ EndClean /\ NoFault
  /\ UNCHANGED <<blocks, bscVars, pool, sent, nonce, syncVars, batchVars, capped,
                 curVals, startHeight>>

DaemonStep ==
  Start \/ Top \/ Monitor \/ MonitorFails \/ ChangeSynced \/ Dispatch \/ Cleaned

\* A step of a subroutine, which cannot see the loop's own variables.
CallStep(step) == step /\ UNCHANGED daemonVars
ExecutorStep ==
  \/ CallStep(SyncNonce) \/ CallStep(SyncQuery) \/ CallStep(SyncSend)
  \/ CallStep(CleanSeq) \/ CallStep(CleanDeliver) \/ CallStep(CleanSynced)
  \/ CallStep(BatchNonce) \/ CallStep(BatchPkg) \/ CallStep(BatchSend)
RelayerStep == DaemonStep \/ ExecutorStep

EnvOnly(step) == step /\ UNCHANGED <<execVars, daemonVars>>
BlockInReach == Latest < height + MaxLead /\ ProduceBlock
EnvStep ==
  EnvOnly(BlockInReach) \/ EnvOnly(MineTx) \/ EnvOnly(RivalDelivers) \/ EnvOnly(DropTx)

Next == RelayerStep \/ EnvStep \/ Crash

Spec == Init /\ [][Next]_vars

\* As in competition mode: the thread runs, BC grows within the bounds, BSC
\* mines.
Fairness ==
  /\ WF_vars(RelayerStep)
  /\ WF_vars(EnvOnly(BlockInReach))
  /\ WF_vars(EnvOnly(MineTx))
FairSpec == Spec /\ Fairness
===============================================================================
