-------------------------- MODULE CompetitionDaemon --------------------------
(***************************************************************************)
(* The relayer in competition mode: main.go boots it, Relayer.Start cleans *)
(* up once and relayerCompetitionDaemon (relayer/daemon.go) walks BC block *)
(* by block, racing other relayers.                                        *)
(***************************************************************************)
EXTENDS Executor

CONSTANTS
  BehindBlockThreshold, \* BBCConfig.BehindBlockThreshold
  CleanInterval,        \* BlockIntervalForCleanUpUndeliveredPackages
  Nil                   \* no validators hash (a nil slice)

\* CleanInterval is not validated by the code, which panics when it is 0.
ASSUME CompetitionAssumption ==
  /\ BehindBlockThreshold \in Nat
  /\ CleanInterval \in Nat \ {0}
  /\ Nil \notin ValSets

VARIABLES
  height,      \* next BC height to walk
  curVals,     \* curValidatorsHash
  tasks,       \* tashSet.TaskList of block height, not yet relayed
  startHeight  \* height of the last boot

daemonVars == <<height, curVals, tasks, startHeight>>
vars == <<chainVars, execVars, daemonVars>>

\* The pseudo-package that stands for a validator-set change.
PureHeader == [chan |-> -1, seq |-> 0]

Hash(h) == blocks[h].vals

-------------------------------------------------------------------------------
(* Boot *)

\* main.go starts one block below the latest one; any error ends the process.
Boot(h, chain) ==
  /\ pc = "cleanSeq" /\ cleanRet = "startCleaned" /\ ch = h /\ ci = 1
  /\ height = h /\ startHeight = h /\ tasks = <<>>
  /\ curVals = chain[h].vals

Init == ChainInit /\ ExecInit /\ Boot(Latest - 1, blocks)

\* The process dies between any two steps and is started again.
Crash ==
  /\ Fault("crash")
  /\ err' = FALSE /\ hdr' = 0 /\ nonce' = 0 /\ syncRet' = "none"
  /\ nextSeq' = 0 /\ seq' = 0 /\ end' = 0 /\ synced' = FALSE /\ accel' = FALSE
  /\ pc' = "cleanSeq" /\ cleanRet' = "startCleaned" /\ ch' = Latest - 1 /\ ci' = 1
  /\ height' = Latest - 1 /\ startHeight' = Latest - 1 /\ tasks' = <<>>
  /\ curVals' = Hash(Latest - 1)
  /\ UNCHANGED <<blocks, bscVars, pool, sent, capped>>

-------------------------------------------------------------------------------
(* relayerCompetitionDaemon *)

NextHeight(h) == height' = Inc(h) /\ pc' = "top" /\ tasks' = <<>>

Behind_Swapped(l) == height > l + BehindBlockThreshold
Behind(l) == l > height + BehindBlockThreshold

\* getLatestHeight() - 1 is computed on uint64, and an error reads as 0.
LatestRead(l) ==
  \/ l = Latest - 1 /\ NoFault
  \/ l = Word - 1 /\ Fault("rpc")
Top ==
  /\ pc = "top"
  /\ \E l \in {Latest - 1, Word - 1} :
       /\ LatestRead(l)
       /\ \/ Behind(l) /\ CallClean(l, "skipCleaned")
          \/ ~Behind(l) /\ pc' = "monitor" /\ UNCHANGED cleanVars
  /\ UNCHANGED <<blocks, bscVars, pool, sent, err, nonce, syncVars, batchVars, capped, daemonVars>>

\* MonitorCrossChainPackage: a change is noticed only while a hash is known.
Changed_IgnoresNext(b) == curVals # Nil /\ b.vals # curVals
Changed(b) == curVals # Nil /\ (b.vals # curVals \/ b.vals # b.next)

Monitor ==
  /\ pc = "monitor"
  /\ height \in 1..Latest
  /\ LET b == blocks[height] IN
       /\ tasks' = (IF Changed(b) THEN <<PureHeader>> ELSE <<>>) \o b.tasks
       /\ curVals' = IF Changed(b) THEN b.vals ELSE curVals
       /\ IF Changed(b) THEN CallSync(height, "changeSynced")
                        ELSE pc' = "dispatch" /\ UNCHANGED syncVars
  /\ NoFault
  /\ UNCHANGED <<blocks, bscVars, pool, sent, err, nonce, batchVars, cleanVars, capped,
                 height, startHeight>>

\* An error returns a nil hash, and the loop keeps it.
MonitorFails ==
  /\ pc = "monitor"
  /\ (height \notin 1..Latest /\ NoFault) \/ Fault("rpc")
  /\ curVals' = Nil /\ pc' = "top"
  /\ UNCHANGED <<blocks, bscVars, pool, sent, err, nonce, syncVars, batchVars, cleanVars, capped,
                 height, tasks, startHeight>>

\* The header of the change has been synced, or not: an error is only logged.
ChangeSynced ==
  /\ pc = "changeSynced"
  /\ pc' = "dispatch" /\ err' = FALSE /\ NoFault
  /\ UNCHANGED <<blocks, bscVars, pool, sent, nonce, syncVars, batchVars, cleanVars, capped, daemonVars>>

NoPackages == tasks = <<>> \/ tasks = <<PureHeader>>

CleanupDue_Never(h) == FALSE
CleanupDue(h) == h % CleanInterval = 0

Dispatch ==
  /\ pc = "dispatch"
  /\ \/ /\ CleanupDue(height)
        /\ CallClean(height, "intervalCleaned") /\ tasks' = <<>>
        /\ UNCHANGED <<height, syncVars>>
     \/ /\ ~CleanupDue(height) /\ NoPackages
        /\ NextHeight(height) /\ UNCHANGED <<syncVars, cleanVars>>
     \/ /\ ~CleanupDue(height) /\ ~NoPackages
        /\ CallSync(Inc(height), "blockSynced") /\ UNCHANGED <<height, tasks, cleanVars>>
  /\ NoFault
  /\ UNCHANGED <<blocks, bscVars, pool, sent, err, nonce, batchVars, capped, curVals, startHeight>>

BlockSynced_IgnoresError ==
  /\ pc = "blockSynced"
  /\ pc' = "taskPkg" /\ err' = FALSE /\ NoFault
  /\ UNCHANGED <<blocks, bscVars, pool, sent, nonce, syncVars, batchVars, cleanVars, capped, daemonVars>>
\* Without its header the block is tried again from the top of the loop.
BlockSynced ==
  /\ pc = "blockSynced"
  /\ \/ err /\ pc' = "top" /\ tasks' = <<>>
     \/ ~err /\ pc' = "taskPkg" /\ UNCHANGED tasks
  /\ err' = FALSE /\ NoFault
  /\ UNCHANGED <<blocks, bscVars, pool, sent, nonce, syncVars, batchVars, cleanVars, capped,
                 height, curVals, startHeight>>

\* The next task; after the last one the loop goes on to the next height.
NextTask ==
  \/ /\ Len(tasks) > 1
     /\ tasks' = Tail(tasks) /\ pc' = "taskPkg" /\ UNCHANGED height
  \/ Len(tasks) <= 1 /\ NextHeight(height)

\* RelayCrossChainPackage.  Whatever fails, the loop goes on with the next
\* task; the pseudo-package is a task like the others and does not exist.
TaskPkg ==
  /\ pc = "taskPkg"
  /\ LET exists == PackageExists(Head(tasks).chan, Head(tasks).seq, height) IN
       \/ exists /\ NoFault /\ pc' = "taskNonce" /\ UNCHANGED <<tasks, height>>
       \/ ~exists /\ NoFault /\ NextTask
       \/ Fault("rpc") /\ NextTask
  /\ UNCHANGED <<blocks, bscVars, pool, sent, err, nonce, syncVars, batchVars, cleanVars, capped,
                 curVals, startHeight>>

TaskNonce ==
  /\ pc = "taskNonce"
  /\ \/ /\ \E n \in Nonces : ReadNonce(n) /\ nonce' = n
        /\ pc' = "taskSend" /\ UNCHANGED <<tasks, height>>
     \/ Fault("rpc") /\ NextTask /\ UNCHANGED nonce
  /\ UNCHANGED <<blocks, bscVars, pool, sent, err, syncVars, batchVars, cleanVars, capped,
                 curVals, startHeight>>

TaskSend ==
  /\ pc = "taskSend"
  /\ \E ok \in BOOLEAN :
       Broadcast(PackageTx(Head(tasks).chan, Head(tasks).seq, height, ProofHeader(height), nonce), ok)
  /\ NextTask /\ nonce' = 0
  /\ UNCHANGED <<blocks, bscVars, err, syncVars, batchVars, cleanVars, capped, curVals, startHeight>>

\* A cleanup returned; its error, if any, is only logged.
StartCleaned ==
  /\ pc = "startCleaned"
  /\ pc' = "top" /\ err' = FALSE /\ EndClean /\ NoFault
  /\ UNCHANGED <<blocks, bscVars, pool, sent, nonce, syncVars, batchVars, capped, daemonVars>>
SkipCleaned_OneTooFar ==
  /\ pc = "skipCleaned"
  /\ NextHeight(Inc(ch)) /\ err' = FALSE /\ EndClean /\ NoFault
  /\ UNCHANGED <<blocks, bscVars, pool, sent, nonce, syncVars, batchVars, capped, curVals, startHeight>>
SkipCleaned ==
  /\ pc = "skipCleaned"
  /\ NextHeight(ch) /\ err' = FALSE /\ EndClean /\ NoFault
  /\ UNCHANGED <<blocks, bscVars, pool, sent, nonce, syncVars, batchVars, capped, curVals, startHeight>>
IntervalCleaned ==
  /\ pc = "intervalCleaned"
  /\ NextHeight(height) /\ err' = FALSE /\ EndClean /\ NoFault
  /\ UNCHANGED <<blocks, bscVars, pool, sent, nonce, syncVars, batchVars, capped, curVals, startHeight>>

DaemonStep ==
  \/ Top \/ Monitor \/ MonitorFails \/ ChangeSynced \/ Dispatch \/ BlockSynced
  \/ TaskPkg \/ TaskNonce \/ TaskSend
  \/ StartCleaned \/ SkipCleaned \/ IntervalCleaned

\* A step of a subroutine, which cannot see the loop's own variables.
CallStep(step) == step /\ UNCHANGED daemonVars
ExecutorStep ==
  \/ CallStep(SyncNonce) \/ CallStep(SyncQuery) \/ CallStep(SyncSend)
  \/ CallStep(CleanSeq) \/ CallStep(CleanDeliver) \/ CallStep(CleanSynced)
  \/ CallStep(BatchNonce) \/ CallStep(BatchPkg) \/ CallStep(BatchSend)

\* The relayer's own thread.
RelayerStep == DaemonStep \/ ExecutorStep

EnvOnly(step) == step /\ UNCHANGED <<execVars, daemonVars>>
EnvStep ==
  EnvOnly(ProduceBlock) \/ EnvOnly(MineTx) \/ EnvOnly(RivalDelivers) \/ EnvOnly(DropTx)

Next == RelayerStep \/ EnvStep \/ Crash

Spec == Init /\ [][Next]_vars

\* The thread keeps running, BC keeps producing blocks up to the bound, and
\* BSC keeps mining: nothing is assumed of faults, rivals or crashes.
Fairness ==
  /\ WF_vars(RelayerStep)
  /\ WF_vars(EnvOnly(ProduceBlock))
  /\ WF_vars(EnvOnly(MineTx))
FairSpec == Spec /\ Fairness
===============================================================================
