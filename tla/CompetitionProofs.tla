-------------------------- MODULE CompetitionProofs --------------------------
(***************************************************************************)
(* Inv is an invariant of the daemon in competition mode, and the daemon   *)
(* submits every package in the turn of the abstract delivery, for every   *)
(* number of channels, validator sets and heights.                         *)
(***************************************************************************)
EXTENDS CompetitionProps, ExecutorProofs

\* What the invariant says of the loop's own variables.
LoopTypeOK ==
  /\ pc \in Pcs /\ cleanRet # "accelCleaned"
  /\ height \in Uint64 /\ startHeight \in Uint64
  /\ curVals \in ValSets \cup {Nil}
  /\ tasks \in Seq(Task)

LEMMA InvParts == Inv <=> ExecInv /\ LoopTypeOK /\ TasksOK
  BY DEF Inv, TypeOK, LoopTypeOK, ExecInv

LEMMA InvPartsNext ==
  ASSUME ExecInv', LoopTypeOK', TasksOK'
  PROVE  Inv'
  BY DEF Inv, TypeOK, LoopTypeOK, ExecInv

\* Control points outside the tasks of a block leave TasksOK vacuous.
LEMMA TasksVacuous ==
  ASSUME pc' \notin TaskPcs \cup {"blockSynced"},
         ~(pc' \in SyncPcs /\ syncRet' = "blockSynced")
  PROVE  TasksOK'
  BY DEF TasksOK, TaskPcs

LEMMA WordTypes ==
  /\ 0 \in Uint64 /\ Word - 1 \in Uint64
  /\ ChainTypeOK => Latest - 1 \in Uint64 /\ Latest - 1 \in 1..Latest /\ Latest \in Uint64
  BY ExecutorAssumption, BoundsAssumption DEF Uint64, ChainTypeOK

\* A block and its validator sets.
LEMMA BlockTypes ==
  ASSUME ChainTypeOK, NEW h \in 1..Latest
  PROVE  blocks[h].vals \in ValSets /\ blocks[h].tasks \in Seq(Task)
<1>1. blocks[h] \in BlockType
  BY ElementOfSeq DEF ChainTypeOK, Latest
<1> QED
  BY <1>1 DEF BlockType

LEMMA InitInv == Init => Inv
<1> SUFFICES ASSUME Init PROVE Inv
  OBVIOUS
<1>1. ChainTypeOK /\ SequencesGrow /\ PackageProvable /\ PoolSent
  BY ChainInitInv DEF Init
<1>2. Latest - 1 \in Uint64 /\ 0 \in Uint64 /\ Latest - 1 \in 1..Latest
  BY <1>1, WordTypes
<1>3. ExecTypeOK
  BY <1>1, <1>2 DEF Init, Boot, ExecInit, ExecTypeOK, CleanedPcs
<1>4. ControlOK
  BY DEF Init, Boot, ExecInit, ControlOK, Cleaning, CleanPcs, BatchPcs, SyncPcs, CleanedPcs
<1>5. LoopTypeOK
  <2>1. blocks[Latest - 1].vals \in ValSets
    BY <1>1, <1>2, BlockTypes
  <2>2. <<>> \in Seq(Task)
    BY EmptySeq
  <2> QED
    BY <1>2, <2>1, <2>2 DEF Init, Boot, LoopTypeOK, Pcs, CleanPcs
<1>6. TasksOK
  BY DEF Init, Boot, TasksOK, TaskPcs, SyncPcs
<1> QED
  BY <1>1, <1>3, <1>4, <1>5, <1>6, InvParts DEF ExecInv

-------------------------------------------------------------------------------
(* The loop's steps *)

LEMMA TopPreserves ==
  ASSUME Inv, Top
  PROVE  Inv'
<1>1. ExecInv /\ LoopTypeOK
  BY InvParts
<1>2. PICK l \in {Latest - 1, Word - 1} :
        /\ LatestRead(l)
        /\ CallClean(l, "skipCleaned") \/ (pc' = "monitor" /\ UNCHANGED cleanVars)
  BY DEF Top
<1>3. l \in Uint64
  BY <1>1, <1>2, WordTypes DEF ExecInv, ExecTypeOK
<1>4. UNCHANGED <<blocks, bscVars, pool, sent, err, nonce, syncVars, batchVars, capped, daemonVars>>
      /\ (NoFault \/ \E k : Fault(k))
  BY <1>2 DEF Top, LatestRead
<1>5. CASE CallClean(l, "skipCleaned")
  <2>1. ExecInv'
    BY <1>1, <1>3, <1>4, <1>5, LoopCallsClean DEF CleanedPcs
  <2>2. pc' = "cleanSeq" /\ cleanRet' = "skipCleaned"
    BY <1>5 DEF CallClean
  <2>3. LoopTypeOK'
    BY <1>1, <1>4, <2>2 DEF LoopTypeOK, Pcs, CleanPcs, daemonVars
  <2>4. TasksOK'
    BY <2>2, TasksVacuous DEF TaskPcs, SyncPcs
  <2> QED
    BY <2>1, <2>3, <2>4, InvPartsNext
<1>6. CASE pc' = "monitor" /\ UNCHANGED cleanVars
  <2>1. ExecInv'
    <3>1. err' \in BOOLEAN /\ nonce' \in Nat
      BY <1>1, <1>4 DEF ExecInv, ExecTypeOK
    <3>2. pc' \notin SyncPcs \cup CleanPcs
      BY <1>6 DEF SyncPcs, CleanPcs, BatchPcs
    <3> QED
      BY <1>1, <1>4, <1>6, <3>1, <3>2, LoopStep
  <2>2. LoopTypeOK'
    BY <1>1, <1>4, <1>6 DEF LoopTypeOK, Pcs, daemonVars, cleanVars
  <2>3. TasksOK'
    BY <1>6, TasksVacuous DEF TaskPcs, SyncPcs
  <2> QED
    BY <2>1, <2>2, <2>3, InvPartsNext
<1> QED
  BY <1>2, <1>5, <1>6

\* The tasks a block yields, with or without the pseudo-package.
LEMMA MonitoredTasks ==
  ASSUME ChainTypeOK, NEW h \in 1..Latest, NEW yes \in BOOLEAN
  PROVE  (IF yes THEN <<PureHeader>> ELSE <<>>) \o blocks[h].tasks \in Seq(Task)
<1>1. PureHeader \in Task
  BY DEF PureHeader, Task
<1>2. <<PureHeader>> \in Seq(Task) /\ <<>> \in Seq(Task)
  BY <1>1, EmptySeq
<1>3. (IF yes THEN <<PureHeader>> ELSE <<>>) \in Seq(Task)
  BY <1>2
<1> QED
  BY <1>3, BlockTypes, ConcatProperties

LEMMA MonitorPreserves ==
  ASSUME Inv, Monitor
  PROVE  Inv'
<1>1. ExecInv /\ LoopTypeOK
  BY InvParts
<1> DEFINE b == blocks[height]
<1>2. height \in 1..Latest /\ b.vals \in ValSets
  BY <1>1, BlockTypes DEF Monitor, ExecInv, ExecTypeOK
<1>3. /\ tasks' = (IF Changed(b) THEN <<PureHeader>> ELSE <<>>) \o b.tasks
      /\ curVals' = IF Changed(b) THEN b.vals ELSE curVals
      /\ IF Changed(b) THEN CallSync(height, "changeSynced")
                       ELSE pc' = "dispatch" /\ UNCHANGED syncVars
      /\ UNCHANGED <<blocks, bscVars, pool, sent, err, nonce, batchVars, cleanVars, capped,
                     height, startHeight>>
      /\ NoFault
  BY DEF Monitor
<1>4. tasks' \in Seq(Task)
  <2>1. Changed(b) \in BOOLEAN
    BY DEF Changed
  <2> QED
    BY <1>1, <1>2, <1>3, <2>1, MonitoredTasks DEF ExecInv, ExecTypeOK
<1> HIDE DEF b
<1>5. CASE CallSync(height, "changeSynced")
  <2>1. ExecInv'
    BY <1>1, <1>3, <1>5, LoopCallsSync DEF LoopTypeOK
  <2>2. pc' = "syncNonce" /\ syncRet' = "changeSynced"
    BY <1>5 DEF CallSync
  <2>3. LoopTypeOK'
    BY <1>1, <1>2, <1>3, <1>4, <2>2 DEF LoopTypeOK, Pcs, SyncPcs, cleanVars
  <2>4. TasksOK'
    BY <2>2, TasksVacuous DEF TaskPcs, SyncPcs
  <2> QED
    BY <2>1, <2>3, <2>4, InvPartsNext
<1>6. CASE pc' = "dispatch" /\ UNCHANGED syncVars
  <2>1. ExecInv'
    <3>1. err' \in BOOLEAN /\ nonce' \in Nat
      BY <1>1, <1>3 DEF ExecInv, ExecTypeOK
    <3>2. pc' \notin SyncPcs \cup CleanPcs
      BY <1>6 DEF SyncPcs, CleanPcs, BatchPcs
    <3> QED
      BY <1>1, <1>3, <1>6, <3>1, <3>2, LoopStep
  <2>2. LoopTypeOK'
    BY <1>1, <1>2, <1>3, <1>4, <1>6 DEF LoopTypeOK, Pcs, cleanVars
  <2>3. TasksOK'
    BY <1>6, TasksVacuous DEF TaskPcs, SyncPcs
  <2> QED
    BY <2>1, <2>2, <2>3, InvPartsNext
<1> QED
  BY <1>3, <1>5, <1>6

\* A step of the loop that calls nothing and ends outside a block's tasks.
LEMMA PlainLoopStep ==
  ASSUME Inv, UNCHANGED <<blocks, bscVars, pool, sent, syncVars, batchVars, capped>>,
         NoFault \/ \E k : Fault(k), UNCHANGED cleanVars \/ EndClean,
         err' \in BOOLEAN, nonce' \in Nat, pc' \in {"top", "dispatch"},
         height' \in Uint64, UNCHANGED startHeight, curVals' \in {curVals, Nil},
         tasks' \in {tasks, <<>>}
  PROVE  Inv'
<1>1. ExecInv /\ LoopTypeOK
  BY InvParts
<1>2. ExecInv'
  BY <1>1, LoopStep DEF SyncPcs, CleanPcs, BatchPcs
<1>3. LoopTypeOK'
  <2>1. <<>> \in Seq(Task)
    BY EmptySeq
  <2> QED
    BY <1>1, <2>1 DEF LoopTypeOK, Pcs, cleanVars, EndClean
<1>4. TasksOK'
  BY TasksVacuous DEF TaskPcs, SyncPcs
<1> QED
  BY <1>2, <1>3, <1>4, InvPartsNext

LEMMA IncHeight ==
  ASSUME Inv
  PROVE  Inc(height) \in Uint64 /\ Inc(ch) \in Uint64
  BY InvParts, IncProperties DEF LoopTypeOK, ExecInv, ExecTypeOK

LEMMA MonitorFailsPreserves ==
  ASSUME Inv, MonitorFails
  PROVE  Inv'
  BY PlainLoopStep, InvParts DEF MonitorFails, LoopTypeOK, ExecInv, ExecTypeOK

LEMMA ChangeSyncedPreserves ==
  ASSUME Inv, ChangeSynced
  PROVE  Inv'
  BY PlainLoopStep, InvParts DEF ChangeSynced, LoopTypeOK, ExecInv, ExecTypeOK, daemonVars

LEMMA StartCleanedPreserves ==
  ASSUME Inv, StartCleaned
  PROVE  Inv'
  BY PlainLoopStep, InvParts DEF StartCleaned, LoopTypeOK, ExecInv, ExecTypeOK, daemonVars

LEMMA SkipCleanedPreserves ==
  ASSUME Inv, SkipCleaned
  PROVE  Inv'
  BY PlainLoopStep, IncHeight, InvParts DEF SkipCleaned, NextHeight, ExecInv, ExecTypeOK

LEMMA IntervalCleanedPreserves ==
  ASSUME Inv, IntervalCleaned
  PROVE  Inv'
  BY PlainLoopStep, IncHeight, InvParts DEF IntervalCleaned, NextHeight, ExecInv, ExecTypeOK

LEMMA DispatchPreserves ==
  ASSUME Inv, Dispatch
  PROVE  Inv'
<1>1. ExecInv /\ LoopTypeOK /\ Inc(height) \in Uint64
  BY InvParts, IncHeight
<1>2. UNCHANGED <<blocks, bscVars, pool, sent, err, nonce, batchVars, capped, curVals, startHeight>>
      /\ NoFault
  BY DEF Dispatch
<1>3. CASE CallClean(height, "intervalCleaned") /\ tasks' = <<>> /\ UNCHANGED <<height, syncVars>>
  <2>1. ExecInv'
    BY <1>1, <1>2, <1>3, LoopCallsClean DEF CleanedPcs, LoopTypeOK
  <2>2. pc' = "cleanSeq" /\ cleanRet' = "intervalCleaned"
    BY <1>3 DEF CallClean
  <2>3. LoopTypeOK'
    <3>1. <<>> \in Seq(Task)
      BY EmptySeq
    <3> QED
      BY <1>1, <1>2, <1>3, <2>2, <3>1 DEF LoopTypeOK, Pcs, CleanPcs
  <2>4. TasksOK'
    BY <2>2, TasksVacuous DEF TaskPcs, SyncPcs
  <2> QED
    BY <2>1, <2>3, <2>4, InvPartsNext
<1>4. CASE NextHeight(height) /\ UNCHANGED <<syncVars, cleanVars>>
  BY <1>1, <1>2, <1>4, PlainLoopStep DEF NextHeight, ExecInv, ExecTypeOK
<1>5. CASE ~NoPackages /\ CallSync(Inc(height), "blockSynced") /\ UNCHANGED <<height, tasks, cleanVars>>
  <2>1. ExecInv'
    BY <1>1, <1>2, <1>5, LoopCallsSync
  <2>2. pc' = "syncNonce" /\ syncRet' = "blockSynced" /\ hdr' = Inc(height)
    BY <1>5 DEF CallSync
  <2>3. LoopTypeOK'
    BY <1>1, <1>2, <1>5, <2>2 DEF LoopTypeOK, Pcs, SyncPcs, cleanVars
  <2>4. TasksOK'
    BY <1>5, <2>2 DEF TasksOK, TaskPcs, SyncPcs, NoPackages, Inc
  <2> QED
    BY <2>1, <2>3, <2>4, InvPartsNext
<1> QED
  BY <1>3, <1>4, <1>5 DEF Dispatch

LEMMA BlockSyncedPreserves ==
  ASSUME Inv, BlockSynced
  PROVE  Inv'
<1>1. ExecInv /\ LoopTypeOK /\ TasksOK
  BY InvParts
<1>2. pc = "blockSynced" /\ err' = FALSE /\ NoFault
      /\ UNCHANGED <<blocks, bscVars, pool, sent, nonce, syncVars, batchVars, cleanVars, capped,
                     height, curVals, startHeight>>
  BY DEF BlockSynced
<1>3. err' \in BOOLEAN /\ nonce' \in Nat /\ height' \in Uint64
  BY <1>1, <1>2 DEF ExecInv, ExecTypeOK, LoopTypeOK
<1>4. CASE pc' = "top" /\ tasks' = <<>>
  BY <1>2, <1>3, <1>4, PlainLoopStep
<1>5. CASE ~err /\ pc' = "taskPkg" /\ UNCHANGED tasks
  <2>1. ExecInv'
    BY <1>1, <1>2, <1>3, <1>5, LoopStep DEF SyncPcs, CleanPcs, BatchPcs
  <2>2. LoopTypeOK'
    BY <1>1, <1>2, <1>5 DEF LoopTypeOK, Pcs, TaskPcs, cleanVars
  <2>3. TasksOK'
    BY <1>1, <1>2, <1>5 DEF TasksOK, TaskPcs, SyncPcs, HeaderSent, Inc
  <2> QED
    BY <2>1, <2>2, <2>3, InvPartsNext
<1> QED
  BY <1>4, <1>5 DEF BlockSynced

-------------------------------------------------------------------------------
(* The tasks of a block *)

\* What NextTask leaves behind, whatever became of the task before.
LEMMA NextTaskLoop ==
  ASSUME LoopTypeOK, TasksOK, pc \in TaskPcs, NextTask, UNCHANGED <<cleanRet, curVals, startHeight>>,
         sent \subseteq sent', Inc(height) \in Uint64
  PROVE  LoopTypeOK' /\ TasksOK' /\ pc' \in {"taskPkg", "top"}
<1>1. CASE Len(tasks) > 1 /\ tasks' = Tail(tasks) /\ pc' = "taskPkg" /\ UNCHANGED height
  <2>1. tasks # <<>>
    BY DEF TasksOK
  <2>2. Tail(tasks) \in Seq(Task) /\ Len(Tail(tasks)) = Len(tasks) - 1 /\ Len(tasks) \in Nat
    BY <2>1, HeadTailProperties, LenProperties DEF LoopTypeOK
  <2>3. Tail(tasks) # <<>>
    <3>1. Len(Tail(tasks)) # 0
      <4> DEFINE n == Len(tasks)
                 m == Len(Tail(tasks))
      <4>1. n \in Nat /\ n > 1 /\ m = n - 1
        BY <1>1, <2>2
      <4> HIDE DEF n, m
      <4>2. m # 0
        BY <4>1
      <4> QED
        BY <4>2 DEF m
    <3>2. Len(<<>>) = 0
      BY EmptySeq
    <3> QED
      BY <3>1, <3>2
  <2>4. HeaderSent(Inc(height))'
    BY <1>1 DEF TasksOK, HeaderSent, Inc
  <2> QED
    BY <1>1, <2>2, <2>3, <2>4 DEF LoopTypeOK, TasksOK, Pcs, TaskPcs, SyncPcs
<1>2. CASE NextHeight(height)
  <2>1. pc' = "top" /\ height' = Inc(height) /\ tasks' = <<>> /\ <<>> \in Seq(Task)
    BY <1>2, EmptySeq DEF NextHeight
  <2> QED
    BY <2>1, TasksVacuous DEF LoopTypeOK, Pcs, TaskPcs, SyncPcs
<1> QED
  BY <1>1, <1>2 DEF NextTask

LEMMA TaskPkgPreserves ==
  ASSUME Inv, TaskPkg
  PROVE  Inv'
<1>1. ExecInv /\ LoopTypeOK /\ TasksOK /\ Inc(height) \in Uint64
  BY InvParts, IncHeight
<1>2. pc = "taskPkg" /\ (NoFault \/ \E k : Fault(k))
      /\ UNCHANGED <<blocks, bscVars, pool, sent, err, nonce, syncVars, batchVars, cleanVars, capped,
                     curVals, startHeight>>
  BY DEF TaskPkg
<1>3. err' \in BOOLEAN /\ nonce' \in Nat
  BY <1>1, <1>2 DEF ExecInv, ExecTypeOK
<1>4. CASE NextTask
  <2>1. LoopTypeOK' /\ TasksOK' /\ pc' \in {"taskPkg", "top"}
    BY <1>1, <1>2, <1>4, NextTaskLoop DEF cleanVars, TaskPcs
  <2>2. ExecInv'
    BY <1>1, <1>2, <1>3, <2>1, LoopStep DEF SyncPcs, CleanPcs, BatchPcs
  <2> QED
    BY <2>1, <2>2, InvPartsNext
<1>5. CASE /\ PackageExists(Head(tasks).chan, Head(tasks).seq, height)
           /\ pc' = "taskNonce" /\ UNCHANGED <<tasks, height>>
  <2>1. ExecInv'
    BY <1>1, <1>2, <1>3, <1>5, LoopStep DEF SyncPcs, CleanPcs, BatchPcs
  <2>2. LoopTypeOK'
    BY <1>1, <1>2, <1>5 DEF LoopTypeOK, Pcs, TaskPcs, cleanVars
  <2>3. PackageExists(Head(tasks).chan, Head(tasks).seq, height)'
    BY <1>2, <1>5 DEF PackageExists, SeqAt
  <2>4. TasksOK'
    BY <1>1, <1>2, <1>5, <2>3 DEF TasksOK, TaskPcs, SyncPcs, HeaderSent, Inc
  <2> QED
    BY <2>1, <2>2, <2>4, InvPartsNext
<1> QED
  BY <1>4, <1>5 DEF TaskPkg

LEMMA TaskNoncePreserves ==
  ASSUME Inv, TaskNonce
  PROVE  Inv'
<1>1. ExecInv /\ LoopTypeOK /\ TasksOK /\ Inc(height) \in Uint64
  BY InvParts, IncHeight
<1>2. pc = "taskNonce" /\ (NoFault \/ \E k : Fault(k))
      /\ UNCHANGED <<blocks, bscVars, pool, sent, err, syncVars, batchVars, cleanVars, capped,
                     curVals, startHeight>>
  BY DEF TaskNonce, ReadNonce
<1>3. err' \in BOOLEAN /\ nonce' \in Nat
  BY <1>1, <1>2, ReadTypes DEF ExecInv, ExecTypeOK, TaskNonce
<1>4. CASE NextTask
  <2>1. LoopTypeOK' /\ TasksOK' /\ pc' \in {"taskPkg", "top"}
    BY <1>1, <1>2, <1>4, NextTaskLoop DEF cleanVars, TaskPcs
  <2>2. ExecInv'
    BY <1>1, <1>2, <1>3, <2>1, LoopStep DEF SyncPcs, CleanPcs, BatchPcs
  <2> QED
    BY <2>1, <2>2, InvPartsNext
<1>5. CASE pc' = "taskSend" /\ UNCHANGED <<tasks, height>>
  <2>1. ExecInv'
    BY <1>1, <1>2, <1>3, <1>5, LoopStep DEF SyncPcs, CleanPcs, BatchPcs
  <2>2. LoopTypeOK'
    BY <1>1, <1>2, <1>5 DEF LoopTypeOK, Pcs, TaskPcs, cleanVars
  <2>3. PackageExists(Head(tasks).chan, Head(tasks).seq, height)'
    BY <1>1, <1>2, <1>5 DEF PackageExists, SeqAt, TasksOK
  <2>4. TasksOK'
    BY <1>1, <1>2, <1>5, <2>3 DEF TasksOK, TaskPcs, SyncPcs, HeaderSent, Inc
  <2> QED
    BY <2>1, <2>2, <2>4, InvPartsNext
<1> QED
  BY <1>4, <1>5 DEF TaskNonce

LEMMA TaskSendPreserves ==
  ASSUME Inv, TaskSend
  PROVE  Inv'
<1>1. ExecInv /\ LoopTypeOK /\ TasksOK /\ Inc(height) \in Uint64
  BY InvParts, IncHeight
<1> DEFINE c == Head(tasks).chan
           s == Head(tasks).seq
           t == PackageTx(c, s, height, ProofHeader(height), nonce)
<1>2. PICK ok \in BOOLEAN : Broadcast(t, ok)
  BY DEF TaskSend
<1>3. /\ pc = "taskSend" /\ NextTask /\ nonce' = 0
      /\ UNCHANGED <<blocks, bscVars, err, syncVars, batchVars, cleanVars, capped, curVals, startHeight>>
  BY DEF TaskSend
<1>4. PackageExists(c, s, height) /\ HeaderSent(Inc(height)) /\ tasks # <<>>
  BY <1>1, <1>3 DEF TasksOK, TaskPcs
<1>5. Head(tasks) \in Task
  BY <1>1, <1>4, HeadTailProperties DEF LoopTypeOK
<1>6. c \in Channels /\ s \in Nat /\ height \in 1..Latest
  BY <1>1, <1>4, <1>5, SeqAtType DEF ExecInv, ExecTypeOK, Task
<1>7. c \in Nat /\ nonce \in Nat /\ height \in Uint64 /\ height + 1 < Word
  <2>1. c \in Nat
    BY <1>6, ChannelsAssumption
  <2>2. nonce \in Nat /\ height \in Uint64 /\ Latest \in 2..MaxHeight
    BY <1>1 DEF LoopTypeOK, ExecInv, ExecTypeOK, ChainTypeOK
  <2> QED
    BY <1>6, <2>1, <2>2, ExecutorAssumption, BoundsAssumption
<1> HIDE DEF c, s
<1>8. t \in Tx /\ t.kind = "package" /\ t.chan = c /\ t.seq = s /\ t.at = height
      /\ t.hdr = Inc(height) /\ Inc(height) = height + 1
  <2>1. Inc(height) \in Uint64 /\ Inc(height) = height + 1 /\ ProofHeader(height) = Inc(height)
    BY <1>1, <1>7, IncProperties DEF ProofHeader
  <2>2. t = PackageTx(c, s, height, Inc(height), nonce)
    BY <2>1
  <2>3. c \in Nat /\ s \in Nat /\ height \in Uint64 /\ Inc(height) \in Uint64 /\ nonce \in Nat
    BY <1>6, <1>7, <2>1
  <2> HIDE DEF t
  <2> QED
    BY ONLY <2>1, <2>2, <2>3, PackageTxType_
<1> HIDE DEF t
<1>9. (sent' = sent \/ sent' = sent \cup {t}) /\ PoolSent'
  BY <1>1, <1>2, <1>8, BroadcastEffect DEF ExecInv, ExecTypeOK
<1>10. ChainTypeOK'
  BY <1>1, <1>2, <1>3, <1>8, SendChain DEF ExecInv, ExecTypeOK
<1>11. PackageProvable'
  BY <1>1, <1>3, <1>4, <1>8, <1>9, ProvableExtends, ProvableFrame DEF ExecInv
<1>12. SequencesGrow'
  BY <1>1, <1>3, StoreFrame DEF ExecInv
<1>13. LoopTypeOK' /\ TasksOK' /\ pc' \in {"taskPkg", "top"}
  BY <1>1, <1>3, <1>9, NextTaskLoop DEF cleanVars, TaskPcs
<1>14. ExecTypeOK'
  BY <1>1, <1>3, <1>10 DEF ExecInv, ExecTypeOK, syncVars, batchVars, cleanVars
<1>15. ControlOK'
  BY <1>13 DEF ControlOK, Cleaning, BatchPcs, CleanPcs, SyncPcs
<1> QED
  BY <1>9, <1>11, <1>12, <1>13, <1>14, <1>15, InvPartsNext DEF ExecInv

-------------------------------------------------------------------------------
(* The other actors *)

LEMMA ExecutorStepPreserves ==
  ASSUME Inv, SubroutineStep, UNCHANGED daemonVars
  PROVE  Inv'
<1>1. ExecInv /\ LoopTypeOK /\ TasksOK
  BY InvParts
<1>2. ExecInv'
  BY <1>1, SubroutinePreserves
<1>3. /\ \/ pc' \in SyncPcs \cup CleanPcs
         \/ pc \in SyncPcs /\ pc' = syncRet
         \/ pc' = cleanRet /\ cleanRet \in CleanedPcs
      /\ cleanRet' \in {cleanRet, "none"}
      /\ pc' \in SyncPcs /\ syncRet' # "cleanSynced" => pc \in SyncPcs /\ UNCHANGED <<syncRet, hdr>>
      /\ sent \subseteq sent'
      /\ pc \in SyncPcs /\ pc' = syncRet /\ syncRet \in SyncedPcs /\ ~err' =>
           \E t \in sent' : t.kind = "header" /\ t.height = hdr
  BY <1>1, SubroutineReturns
<1>4. pc \in SyncPcs => syncRet \in SyncedPcs
  BY <1>1 DEF ExecInv, ControlOK
<1>5. LoopTypeOK'
  BY <1>1, <1>3, <1>4 DEF LoopTypeOK, Pcs, SyncedPcs, CleanedPcs, daemonVars, CleanPcs
<1>6. TasksOK'
  <2>1. CASE pc' \in SyncPcs \cup CleanPcs
    <3>1. pc' \notin TaskPcs \cup {"blockSynced"}
      BY <2>1 DEF TaskPcs, SyncPcs, CleanPcs, BatchPcs
    <3>2. CASE pc' \in SyncPcs /\ syncRet' = "blockSynced"
      BY <1>1, <1>3, <3>1, <3>2 DEF TasksOK, TaskPcs, daemonVars, Inc
    <3>3. CASE ~(pc' \in SyncPcs /\ syncRet' = "blockSynced")
      BY <3>1, <3>3, TasksVacuous
    <3> QED
      BY <3>2, <3>3
  <2>2. CASE pc \in SyncPcs /\ pc' = syncRet
    <3>1. CASE syncRet = "blockSynced"
      <4>1. hdr = Inc(height) /\ tasks # <<>>
        BY <1>1, <2>2, <3>1 DEF TasksOK
      <4>2. ~err' => HeaderSent(Inc(height))'
        BY <1>3, <1>4, <2>2, <4>1 DEF HeaderSent, Inc, daemonVars
      <4> QED
        BY <2>2, <3>1, <4>1, <4>2 DEF TasksOK, TaskPcs, SyncPcs, daemonVars
    <3>2. CASE syncRet # "blockSynced"
      <4>1. pc' \notin TaskPcs \cup {"blockSynced"} \cup SyncPcs
        BY <1>4, <2>2, <3>2 DEF SyncedPcs, TaskPcs, SyncPcs
      <4> QED
        BY <4>1, TasksVacuous
    <3> QED
      BY <3>1, <3>2
  <2>3. CASE pc' = cleanRet /\ cleanRet \in CleanedPcs
    <3>1. pc' \notin TaskPcs \cup {"blockSynced"} \cup SyncPcs
      BY <2>3 DEF CleanedPcs, TaskPcs, SyncPcs
    <3> QED
      BY <3>1, TasksVacuous
  <2> QED
    BY <1>3, <2>1, <2>2, <2>3
<1> QED
  BY <1>2, <1>5, <1>6, InvPartsNext

LEMMA EnvStepPreserves ==
  ASSUME Inv, EnvStep
  PROVE  Inv'
<1>1. ExecInv /\ LoopTypeOK /\ TasksOK
  BY InvParts
<1>2. UNCHANGED <<execVars, daemonVars>>
      /\ (ProduceBlock \/ MineTx \/ RivalDelivers \/ DropTx)
  BY DEF EnvStep, EnvOnly
<1>3. ExecInv'
  BY <1>1, <1>2, ProduceBlockPreserves, MineTxPreserves, RivalDeliversPreserves, DropTxPreserves
<1>4. LoopTypeOK'
  BY <1>1, <1>2 DEF LoopTypeOK, execVars, daemonVars
<1>5. sent' = sent
  BY <1>2 DEF ProduceBlock, MineTx, RivalDelivers, DropTx
<1>6. \A c, s, h : PackageExists(c, s, h) => PackageExists(c, s, h)'
  BY <1>1, <1>2, StoreStable, StoreFrame DEF MineTx, RivalDelivers, DropTx
<1>7. TasksOK'
  BY <1>1, <1>2, <1>5, <1>6 DEF TasksOK, HeaderSent, Inc, execVars, daemonVars
<1> QED
  BY <1>3, <1>4, <1>7, InvPartsNext

LEMMA CrashPreserves ==
  ASSUME Inv, Crash
  PROVE  Inv'
<1>1. ExecInv /\ LoopTypeOK
  BY InvParts
<1>3. 0 \in Uint64 /\ Latest - 1 \in Uint64 /\ Latest - 1 \in 1..Latest
  BY <1>1, WordTypes DEF ExecInv, ExecTypeOK
<1>4. ASSUME ChainTypeOK' PROVE ExecTypeOK'
  BY <1>1, <1>3, <1>4 DEF Crash, ExecInv, ExecTypeOK, CleanedPcs
<1>5. ControlOK'
  BY RestartControl DEF Crash, CleanedPcs
<1>6. ExecInv'
  BY <1>1, <1>4, <1>5, QuietStep DEF Crash
<1>7. LoopTypeOK'
  <2>1. Hash(Latest - 1) \in ValSets
    BY <1>1, <1>3, BlockTypes DEF Hash, ExecInv, ExecTypeOK
  <2>2. <<>> \in Seq(Task)
    BY EmptySeq
  <2> QED
    BY <1>1, <1>3, <2>1, <2>2 DEF Crash, LoopTypeOK, Pcs, CleanPcs
<1>8. TasksOK'
  BY TasksVacuous DEF Crash, TaskPcs, SyncPcs
<1> QED
  BY <1>6, <1>7, <1>8, InvPartsNext

LEMMA NextInv == Inv /\ [Next]_vars => Inv'
<1> SUFFICES ASSUME Inv, [Next]_vars PROVE Inv'
  OBVIOUS
<1>1. CASE DaemonStep
  BY <1>1, TopPreserves, MonitorPreserves, MonitorFailsPreserves, ChangeSyncedPreserves,
     DispatchPreserves, BlockSyncedPreserves, TaskPkgPreserves, TaskNoncePreserves,
     TaskSendPreserves, StartCleanedPreserves, SkipCleanedPreserves, IntervalCleanedPreserves
     DEF DaemonStep
<1>2. CASE ExecutorStep
  BY <1>2, ExecutorStepPreserves DEF ExecutorStep, CallStep, SubroutineStep
<1>3. CASE EnvStep
  BY <1>3, EnvStepPreserves
<1>4. CASE Crash
  BY <1>4, CrashPreserves
<1>5. CASE UNCHANGED vars
  <2>1. UNCHANGED <<blocks, recv, headers, acctNonce, pool, sent, faults, incidents>>
        /\ UNCHANGED execVars /\ UNCHANGED daemonVars
    BY <1>5 DEF vars, chainVars
  <2>2. ExecInv'
    <3>1. ChainTypeOK'
      BY <2>1, InvParts DEF ChainTypeOK, Latest, ExecInv, ExecTypeOK
    <3> QED
      BY <2>1, <3>1, InvParts, BscStep
  <2>3. LoopTypeOK' /\ TasksOK'
    BY <2>1, InvParts DEF LoopTypeOK, TasksOK, HeaderSent, Inc, PackageExists, SeqAt, execVars, daemonVars
  <2> QED
    BY <2>2, <2>3, InvPartsNext
<1> QED
  BY <1>1, <1>2, <1>3, <1>4, <1>5 DEF Next, RelayerStep

-------------------------------------------------------------------------------
(* The theorems *)

\* In every reachable state the control facts, the sequence order of BC's
\* blocks, the provability of what was sent and the loop's facts about the
\* block it relays hold.
THEOREM Invariance == Spec => []Inv
<1> QED
  BY InitInv, NextInv, PTL DEF Spec

\* Every variable of the daemon and of its subroutines keeps its type: heights
\* stay uint64 words even when the latest height reads as 0 - 1.
THEOREM TypeCorrectness == Spec => []TypeOK
<1>1. Inv => TypeOK
  BY DEF Inv
<1> QED
  BY <1>1, Invariance, PTL

\* Whatever fails and however often the process restarts, BSC can verify every
\* package the relayer ever sent: it exists at the height of its proof and the
\* header above that height was submitted.
THEOREM Provability == Spec => []PackageProvable
<1>1. Inv => PackageProvable
  BY DEF Inv, ExecInv
<1> QED
  BY <1>1, Invariance, PTL

-------------------------------------------------------------------------------
(* Nonces *)

\* But for its tasks, the loop holds no nonce.
LEMMA LoopNonces ==
  ASSUME DaemonStep, ~TaskNonce, ~TaskSend
  PROVE  /\ UNCHANGED <<acctNonce, pool, sent>> /\ pc' \notin HoldPcs
         /\ NoFault \/ \E k : Fault(k)
<1>1. CASE Top
  BY <1>1 DEF Top, LatestRead, CallClean, HoldPcs, bscVars
<1>2. CASE Monitor \/ MonitorFails \/ ChangeSynced
  BY <1>2 DEF Monitor, CallSync, MonitorFails, ChangeSynced, HoldPcs, bscVars
<1>3. CASE Dispatch \/ BlockSynced
  BY <1>3 DEF Dispatch, CallClean, CallSync, NextHeight, BlockSynced, HoldPcs, bscVars
<1>4. CASE TaskPkg
  BY <1>4 DEF TaskPkg, NextTask, NextHeight, HoldPcs, bscVars
<1>5. CASE StartCleaned \/ SkipCleaned \/ IntervalCleaned
  BY <1>5 DEF StartCleaned, SkipCleaned, IntervalCleaned, NextHeight, HoldPcs, bscVars
<1> QED
  BY <1>1, <1>2, <1>3, <1>4, <1>5 DEF DaemonStep

\* A task reads the nonce and sends its package with it.
LEMMA TaskNonces ==
  ASSUME Inv, FreshInv, TaskNonce \/ TaskSend
  PROVE  FreshInv'
<1>1. ExecInv /\ LoopTypeOK /\ TasksOK /\ ChainTypeOK
  BY InvParts DEF ExecInv, ExecTypeOK
<1>2. CASE TaskNonce
  <2>1. UNCHANGED <<acctNonce, pool, sent>>
    BY <1>2 DEF TaskNonce, bscVars
  <2>2. CASE \E n \in Nonces : ReadNonce(n) /\ nonce' = n
    BY <1>1, <2>1, <2>2, NonceRead
  <2>3. CASE Fault("rpc") /\ NextTask
    <3>1. pc' \notin HoldPcs
      BY <2>3 DEF NextTask, NextHeight, HoldPcs
    <3> QED
      BY <2>1, <2>3, <3>1, NoncesKept, OneViewBefore
  <2> QED
    BY <1>2, <2>2, <2>3 DEF TaskNonce
<1>3. CASE TaskSend
  <2> DEFINE c == Head(tasks).chan
             s == Head(tasks).seq
             t == PackageTx(c, s, height, ProofHeader(height), nonce)
  <2>1. PICK ok \in BOOLEAN : Broadcast(t, ok)
    BY <1>3 DEF TaskSend
  <2>2. pc \in HoldPcs /\ pc' \notin HoldPcs /\ UNCHANGED acctNonce
    BY <1>3 DEF TaskSend, NextTask, NextHeight, HoldPcs, bscVars
  <2>3. PackageExists(c, s, height) /\ HeaderSent(Inc(height)) /\ tasks # <<>>
    BY <1>1, <1>3 DEF TaskSend, TasksOK, TaskPcs
  <2>4. Head(tasks) \in Task
    BY <1>1, <2>3, HeadTailProperties DEF LoopTypeOK
  <2>5. c \in Nat /\ s \in Nat
    BY <1>1, <2>3, <2>4, SeqAtType, ChannelsAssumption DEF Task
  <2>6. ProofHeader(height) \in Uint64 /\ height \in Uint64 /\ nonce \in Nat
    BY <1>1, IncProperties DEF LoopTypeOK, ProofHeader, ExecInv, ExecTypeOK
  <2> HIDE DEF c, s
  <2>7. t \in Tx /\ t.nonce = nonce /\ t.hdr = Inc(height)
    BY <2>5, <2>6, PackageTxType_ DEF PackageTx, ProofHeader
  <2> HIDE DEF t
  <2> QED
    BY <1>1, <2>1, <2>2, <2>3, <2>7, NonceUsed
<1> QED
  BY <1>2, <1>3

LEMMA FreshNext == Inv /\ FreshInv /\ [Next]_vars => FreshInv'
<1> SUFFICES ASSUME Inv, FreshInv, [Next]_vars PROVE FreshInv'
  OBVIOUS
<1>1. ExecInv /\ ChainTypeOK
  BY InvParts DEF ExecInv, ExecTypeOK
<1>2. CASE DaemonStep
  BY <1>2, LoopNonces, TaskNonces, NoncesKept, OneViewBefore
<1>3. CASE ExecutorStep
  BY <1>1, <1>3, SubroutineNonces DEF ExecutorStep, CallStep, SubroutineStep
<1>4. CASE EnvStep
  BY <1>1, <1>4, EnvironmentNonces DEF EnvStep, EnvOnly
<1>5. CASE Crash
  BY <1>5, NoncesKept, OneViewBefore DEF Crash, HoldPcs, bscVars
<1>6. CASE UNCHANGED vars
  <2>1. UNCHANGED <<acctNonce, pool, sent, pc, nonce, incidents>>
    BY <1>6 DEF vars, chainVars, execVars
  <2> QED
    BY <2>1, NoncesKept DEF OneView
<1> QED
  BY <1>2, <1>3, <1>4, <1>5, <1>6 DEF Next, RelayerStep

LEMMA NonceSafety == Spec => [](Inv /\ FreshInv)
<1>1. Init => FreshInv
  BY NoncesInitially DEF Init, Boot, HoldPcs
<1> QED
  BY <1>1, InitInv, NextInv, FreshNext, PTL DEF Spec

\* However the header syncs, the batches and the tasks interleave with BSC's
\* blocks and with lost replies, retries and restarts: a nonce is still the
\* account's next one when a transaction is sent with it.
THEOREM NonceFreshness == Spec => []NonceFresh
<1>1. Inv /\ FreshInv => NonceFresh
  BY FreshNonce, InvParts DEF FreshInv, ExecInv, ExecTypeOK
<1> QED
  BY <1>1, NonceSafety, PTL

\* As long as the providers agree about the account, BSC executes the header a
\* package needs before the package.
THEOREM HeadersFirst == Spec => []HeaderFirst
<1>1. FreshInv => HeaderFirst
  BY DEF FreshInv
<1> QED
  BY <1>1, NonceSafety, PTL

-------------------------------------------------------------------------------
(* The walk *)

Calm == incidents \cap {"rpc", "crash"} = {}

\* The daemon has seen the block at its height, and is not done with it.
Past ==
  \/ pc \in TaskPcs \cup {"changeSynced", "dispatch", "blockSynced", "intervalCleaned"}
  \/ pc \in SyncPcs /\ syncRet \in {"changeSynced", "blockSynced"}
  \/ Cleaning /\ cleanRet = "intervalCleaned"

\* It is about to jump to the block above the one it cleans up at.
Skipping == pc = "skipCleaned" \/ (Cleaning /\ cleanRet = "skipCleaned")

\* The walk is at most one block ahead of BC, so its height does not wrap
\* around; and it jumps forward only.
WalkOK ==
  /\ height <= Latest + 1 /\ (Past => height <= Latest)
  /\ Skipping => height <= ch /\ ch <= Latest
WalkInv == Calm => WalkOK

LEMMA CalmBefore ==
  ASSUME NoFault \/ \E k : Fault(k), Calm'
  PROVE  Calm
  BY DEF NoFault, Fault, faultVars, Calm

\* The daemon stays where it is.
LEMMA WalkStays ==
  ASSUME WalkOK, UNCHANGED <<height, blocks>>, Past' => Past,
         Skipping' => Skipping /\ UNCHANGED ch
  PROVE  WalkOK'
  BY DEF WalkOK, Latest

\* The daemon goes on above a block that exists.
LEMMA WalkOn ==
  ASSUME ChainTypeOK, height \in Uint64, UNCHANGED blocks,
         NEW h \in Uint64, height <= h, h <= Latest, NextHeight(h)
  PROVE  WalkOK' /\ height' >= height
<1>1. Latest \in Nat /\ h + 1 < Word
  BY ExecutorAssumption, BoundsAssumption DEF ChainTypeOK, Uint64
<1>2. height' = h + 1 /\ pc' = "top"
  BY <1>1, IncProperties DEF NextHeight
<1>3. ~Past' /\ ~Skipping'
  BY <1>2 DEF Past, Skipping, TaskPcs, Cleaning, CleanPcs, BatchPcs, SyncPcs
<1> QED
  BY <1>1, <1>2, <1>3 DEF WalkOK, Latest, Uint64

LEMMA SubroutineWalk ==
  ASSUME ExecInv, WalkOK, SubroutineStep, UNCHANGED daemonVars
  PROVE  WalkOK'
<1>1. /\ \/ pc' \in SyncPcs \cup CleanPcs
         \/ pc \in SyncPcs /\ pc' = syncRet
         \/ pc' = cleanRet /\ cleanRet \in CleanedPcs
      /\ cleanRet' \in {cleanRet, "none"}
      /\ pc' \in SyncPcs /\ syncRet' # "cleanSynced" => pc \in SyncPcs /\ UNCHANGED syncRet
      /\ UNCHANGED <<blocks, ch, height>> /\ (Cleaning' => Cleaning)
  BY SubroutineReturns, SubroutineCaller DEF daemonVars
<1>2. /\ pc \in SyncPcs => syncRet \in SyncedPcs
      /\ pc' = cleanRet /\ cleanRet \in CleanedPcs => Cleaning
  <2>1. pc \in SyncPcs => syncRet \in SyncedPcs
    BY DEF ExecInv, ControlOK
  <2>2. ASSUME pc' = cleanRet, cleanRet \in CleanedPcs PROVE Cleaning
    <3>1. pc \in SyncPcs => pc' \in SyncPcs \/ pc' \in SyncedPcs
      BY <2>1 DEF SubroutineStep, SyncNonce, SyncQuery, QueryTendermintHeader, SyncSend,
           ReturnSync, CleanSeq,
         CleanDeliver, CleanSynced, BatchNonce, BatchPkg, BatchSend, SyncPcs
    <3>2. pc \in SyncPcs \cup CleanPcs
      BY SubroutineReturns
    <3> QED
      BY <2>2, <3>1, <3>2 DEF Cleaning, SyncPcs, SyncedPcs, CleanedPcs
  <2> QED
    BY <2>1, <2>2
<1>3. Past' => Past
  BY <1>1, <1>2 DEF Past, TaskPcs, SyncPcs, CleanPcs, BatchPcs, SyncedPcs, CleanedPcs
<1>4. Skipping' => Skipping
  BY <1>1, <1>2 DEF Skipping, SyncPcs, CleanPcs, BatchPcs, SyncedPcs
<1> QED
  BY <1>1, <1>3, <1>4, WalkStays

LEMMA NextTaskWalk ==
  ASSUME ChainTypeOK, height \in Uint64, UNCHANGED blocks, WalkOK, pc \in TaskPcs, NextTask
  PROVE  WalkOK' /\ height' >= height
<1>1. Past /\ height <= Latest
  BY DEF Past, WalkOK
<1>2. CASE pc' = "taskPkg" /\ UNCHANGED height
  <2>1. ~Skipping'
    BY <1>2 DEF Skipping, Cleaning, CleanPcs, BatchPcs, SyncPcs
  <2> QED
    BY <1>1, <1>2, <2>1, WalkStays DEF Uint64
<1>3. CASE NextHeight(height)
  BY <1>1, <1>3, WalkOn DEF Uint64
<1> QED
  BY <1>2, <1>3 DEF NextTask

LEMMA LoopWalk ==
  ASSUME Inv, WalkOK, Calm', DaemonStep
  PROVE  WalkOK' /\ height' >= height
<1>1. ChainTypeOK /\ height \in Uint64 /\ ch \in Uint64 /\ Latest \in Nat
  BY InvParts DEF ExecInv, ExecTypeOK, LoopTypeOK, ChainTypeOK
<1>2. UNCHANGED blocks
  BY DEF DaemonStep, Top, Monitor, MonitorFails, ChangeSynced, Dispatch, BlockSynced,
     TaskPkg, TaskNonce, TaskSend, StartCleaned, SkipCleaned, IntervalCleaned
<1>3. ASSUME UNCHANGED height, pc' \in {"top", "monitor"} PROVE WalkOK' /\ height' >= height
  <2>1. ~Past' /\ ~Skipping'
    BY <1>3 DEF Past, Skipping, TaskPcs, Cleaning, CleanPcs, BatchPcs, SyncPcs
  <2> QED
    BY <1>1, <1>2, <1>3, <2>1, WalkStays DEF Uint64
<1>4. ASSUME UNCHANGED height, height <= Latest, ~Skipping' PROVE WalkOK' /\ height' >= height
  BY <1>1, <1>2, <1>4 DEF WalkOK, Latest, Uint64
<1>5. CASE Top
  <2>1. PICK l \in {Latest - 1, Word - 1} :
          /\ LatestRead(l)
          /\ \/ Behind(l) /\ CallClean(l, "skipCleaned")
             \/ ~Behind(l) /\ pc' = "monitor"
    BY <1>5 DEF Top
  <2>2. l = Latest - 1 /\ UNCHANGED height
    BY <1>5, <2>1 DEF LatestRead, Fault, Calm, Top, daemonVars
  <2>3. CASE Behind(l) /\ CallClean(l, "skipCleaned")
    <3>1. height <= l /\ l <= Latest
      BY <1>1, <2>2, <2>3, CompetitionAssumption DEF Behind, Uint64
    <3>2. pc' = "cleanSeq" /\ cleanRet' = "skipCleaned" /\ ch' = l
      BY <2>3 DEF CallClean
    <3>3. ~Past'
      BY <3>2 DEF Past, TaskPcs, SyncPcs
    <3> QED
      BY <1>1, <1>2, <2>2, <3>1, <3>2, <3>3 DEF WalkOK, Latest, Uint64
  <2> QED
    BY <1>3, <2>1, <2>2, <2>3
<1>6. CASE Monitor
  <2>1. UNCHANGED height /\ height <= Latest
    BY <1>1, <1>6 DEF Monitor
  <2>2. pc' = "dispatch" \/ (pc' = "syncNonce" /\ syncRet' = "changeSynced")
    BY <1>6 DEF Monitor, CallSync
  <2>3. ~Skipping'
    BY <2>2 DEF Skipping, Cleaning, CleanPcs, BatchPcs, SyncPcs
  <2> QED
    BY <1>4, <2>1, <2>3
<1>7. CASE MonitorFails \/ StartCleaned
  BY <1>3, <1>7 DEF MonitorFails, StartCleaned, daemonVars
<1>8. CASE ChangeSynced \/ BlockSynced
  <2>1. Past
    BY <1>8 DEF ChangeSynced, BlockSynced, Past
  <2>2. pc' \in {"dispatch", "top", "taskPkg"} /\ UNCHANGED height
    BY <1>8 DEF ChangeSynced, BlockSynced, daemonVars
  <2>3. ~Skipping'
    BY <2>2 DEF Skipping, Cleaning, CleanPcs, BatchPcs, SyncPcs
  <2> QED
    BY <1>4, <2>1, <2>2, <2>3 DEF WalkOK
<1>9. CASE Dispatch
  <2>1. height <= Latest
    BY <1>9 DEF Dispatch, Past, WalkOK
  <2>2. CASE CallClean(height, "intervalCleaned") /\ UNCHANGED height
    <3>1. ~Skipping'
      BY <2>2 DEF CallClean, Skipping, Cleaning
    <3> QED
      BY <1>4, <2>1, <2>2, <3>1
  <2>3. CASE NextHeight(height)
    BY <1>1, <1>2, <2>1, <2>3, WalkOn DEF Uint64
  <2>4. CASE CallSync(Inc(height), "blockSynced") /\ UNCHANGED height
    <3>1. ~Skipping'
      BY <2>4 DEF CallSync, Skipping, Cleaning, CleanPcs, BatchPcs, SyncPcs
    <3> QED
      BY <1>4, <2>1, <2>4, <3>1
  <2> QED
    BY <1>9, <2>2, <2>3, <2>4 DEF Dispatch
<1>10. CASE TaskPkg
  <2>1. pc = "taskPkg" /\ pc \in TaskPcs /\ ((pc' = "taskNonce" /\ UNCHANGED height) \/ NextTask)
    BY <1>10 DEF TaskPkg, TaskPcs
  <2>2. CASE pc' = "taskNonce" /\ UNCHANGED height
    <3>1. ~Skipping' /\ Past
      BY <2>1, <2>2 DEF Skipping, Past, TaskPcs, Cleaning, CleanPcs, BatchPcs, SyncPcs
    <3> QED
      BY <1>4, <2>2, <3>1 DEF WalkOK
  <2> QED
    BY <1>1, <1>2, <2>1, <2>2, NextTaskWalk
<1>11. CASE TaskNonce
  <2>1. pc = "taskNonce" /\ pc \in TaskPcs /\ ((pc' = "taskSend" /\ UNCHANGED height) \/ NextTask)
    BY <1>11 DEF TaskNonce, TaskPcs
  <2>2. CASE pc' = "taskSend" /\ UNCHANGED height
    <3>1. ~Skipping' /\ Past
      BY <2>1, <2>2 DEF Skipping, Past, TaskPcs, Cleaning, CleanPcs, BatchPcs, SyncPcs
    <3> QED
      BY <1>4, <2>2, <3>1 DEF WalkOK
  <2> QED
    BY <1>1, <1>2, <2>1, <2>2, NextTaskWalk
<1>12. CASE TaskSend
  <2>1. pc \in TaskPcs /\ NextTask
    BY <1>12 DEF TaskSend, TaskPcs
  <2> QED
    BY <1>1, <1>2, <2>1, NextTaskWalk
<1>13. CASE SkipCleaned
  <2>1. Skipping /\ NextHeight(ch)
    BY <1>13 DEF SkipCleaned, Skipping
  <2> QED
    BY <1>1, <1>2, <2>1, WalkOn DEF WalkOK
<1>14. CASE IntervalCleaned
  <2>1. Past /\ NextHeight(height)
    BY <1>14 DEF IntervalCleaned, Past
  <2> QED
    BY <1>1, <1>2, <2>1, WalkOn DEF WalkOK, Uint64
<1> QED
  BY <1>5, <1>6, <1>7, <1>8, <1>9, <1>10, <1>11, <1>12, <1>13, <1>14 DEF DaemonStep

LEMMA LoopFaults ==
  ASSUME DaemonStep \/ SubroutineStep
  PROVE  NoFault \/ \E k : Fault(k)
  BY DEF DaemonStep, Top, LatestRead, Monitor, MonitorFails, ChangeSynced, Dispatch, BlockSynced,
     TaskPkg, TaskNonce, TaskSend, StartCleaned, SkipCleaned, IntervalCleaned, SubroutineStep,
     SyncNonce, SyncQuery, QueryTendermintHeader, SyncSend, CleanSeq, CleanDeliver, CleanSynced,
          BatchNonce, BatchPkg,
     BatchSend, ReadNonce, ReadRecv, Broadcast

LEMMA WalkStep ==
  ASSUME Inv, WalkInv, [Next]_vars
  PROVE  WalkInv' /\ (Calm' => height' >= height)
<1> SUFFICES ASSUME Calm' PROVE WalkOK' /\ height' >= height
  BY DEF WalkInv
<1>1. ExecInv /\ ChainTypeOK /\ height \in Uint64 /\ height \in Nat
  BY InvParts DEF ExecInv, ExecTypeOK, LoopTypeOK, Uint64
<1>2. CASE DaemonStep
  BY <1>2, LoopFaults, CalmBefore, LoopWalk DEF WalkInv
<1>3. CASE ExecutorStep
  <2>1. SubroutineStep /\ UNCHANGED daemonVars
    BY <1>3 DEF ExecutorStep, CallStep, SubroutineStep
  <2>2. WalkOK
    BY <2>1, LoopFaults, CalmBefore DEF WalkInv
  <2> QED
    BY <1>1, <2>1, <2>2, SubroutineWalk DEF daemonVars
<1>4. CASE EnvStep
  <2>1. /\ UNCHANGED <<pc, syncRet, ch, cleanRet, height>>
        /\ ProduceBlock \/ MineTx \/ RivalDelivers \/ DropTx
    BY <1>4 DEF EnvStep, EnvOnly, execVars, daemonVars
  <2>2. NoFault \/ \E k : Fault(k)
    BY <2>1 DEF ProduceBlock, MineTx, RivalDelivers, DropTx, NoFault
  <2>3. Latest \in Nat /\ Latest' \in {Latest, Latest + 1}
    BY <1>1, <2>1, StoreStable DEF MineTx, RivalDelivers, DropTx, ChainTypeOK, Latest
  <2>4. (Past' <=> Past) /\ (Skipping' <=> Skipping)
    BY <2>1 DEF Past, Skipping, Cleaning
  <2>5. ch \in Nat /\ WalkOK
    BY <1>1, <2>2, CalmBefore DEF WalkInv, ExecInv, ExecTypeOK, Uint64
  <2>6. height' <= Latest' + 1 /\ height' >= height
    <3>1. height' = height /\ height <= Latest + 1
      BY <2>1, <2>5 DEF WalkOK
    <3>2. Latest' = Latest \/ Latest' = Latest + 1
      BY <2>3
    <3>3. ASSUME NEW x \in Nat, NEW y \in Nat, NEW z, z = y \/ z = y + 1, x <= y + 1
          PROVE  x <= z + 1 /\ x >= x
      BY <3>3
    <3>4. height <= Latest' + 1 /\ height >= height
      BY <1>1, <2>3, <3>1, <3>2, <3>3
    <3> QED
      BY <3>1, <3>4
  <2>7. ASSUME Past PROVE height' <= Latest'
    BY <1>1, <2>1, <2>3, <2>5, <2>7 DEF WalkOK
  <2>8. ASSUME Skipping PROVE height' <= ch' /\ ch' <= Latest'
    BY <1>1, <2>1, <2>3, <2>5, <2>8 DEF WalkOK
  <2> QED
    BY <2>4, <2>6, <2>7, <2>8 DEF WalkOK
<1>5. CASE Crash
  BY <1>5 DEF Crash, Fault, Calm
<1>6. CASE UNCHANGED vars
  <2>1. UNCHANGED <<pc, syncRet, ch, cleanRet, height, blocks, incidents>>
    BY <1>6 DEF vars, chainVars, execVars, daemonVars
  <2> QED
    BY <1>1, <2>1 DEF WalkInv, WalkOK, Calm, Past, Skipping, Cleaning, Latest
<1> QED
  BY <1>2, <1>3, <1>4, <1>5, <1>6 DEF Next, RelayerStep

\* For every chain and every interleaving: the daemon goes back to a lower
\* height only when reading the latest height failed or after a restart.
THEOREM NoWalkBack == Spec => NeverWalksBack
<1>1. Init => WalkInv
  <2> SUFFICES ASSUME Init PROVE WalkOK
    BY DEF WalkInv
  <2>1. height = Latest - 1 /\ Latest \in Nat /\ pc = "cleanSeq" /\ cleanRet = "startCleaned"
    BY InitInv, InvParts DEF Init, Boot, ExecInv, ExecTypeOK, ChainTypeOK
  <2> QED
    BY <2>1 DEF WalkOK, Past, Skipping, TaskPcs, SyncPcs
<1>2. Inv /\ WalkInv /\ [Next]_vars => WalkInv'
  BY WalkStep
<1>3. Inv /\ WalkInv /\ [Next]_vars =>
        [height' >= height \/ "rpc" \in incidents' \/ "crash" \in incidents']_vars
  BY WalkStep DEF Calm
<1> QED
  BY <1>1, <1>2, <1>3, Invariance, PTL DEF Spec, NeverWalksBack

-------------------------------------------------------------------------------
(* Validator sets *)

\* The header of the set just noticed is on its way.
Syncing == pc \in SyncPcs /\ syncRet = "changeSynced"

SetOK ==
  /\ startHeight \in 1..Latest /\ startHeight <= height
  /\ Syncing \/ pc = "changeSynced" => height \in 1..Latest /\ curVals = Hash(height)
  /\ Syncing => hdr = height
  /\ pc = "changeSynced" => HeaderSent(height)
  /\ pc = "dispatch" /\ curVals # Nil =>
       /\ height \in 1..Latest /\ curVals = Hash(height)
       /\ curVals # blocks[height].next => HeaderSent(height)
  /\ ~Syncing =>
       curVals \in {Nil, Hash(startHeight)} \/ SignedBy(curVals, startHeight, height)
SetInv == NothingWrong => SetOK

\* Where no block is being looked at, only the tracked set matters.
LEMMA SetPasses ==
  ASSUME SetOK, ~Syncing, ~Syncing', pc' \notin {"changeSynced", "dispatch"}, BlocksKept,
         sent \subseteq sent', UNCHANGED startHeight, curVals' \in {curVals, Nil},
         height \in Nat, height' \in Nat, height <= height'
  PROVE  SetOK'
<1>1. Latest \in Nat /\ Latest' \in Nat /\ Latest <= Latest'
  BY DEF BlocksKept
<1>2. startHeight \in 1..Latest /\ startHeight <= height
  BY DEF SetOK
<1>3. startHeight' \in 1..Latest' /\ startHeight' <= height'
  BY <1>1, <1>2
<1>4. Hash(startHeight)' = Hash(startHeight)
  BY <1>2 DEF BlocksKept, Hash
<1>5. curVals' \in {Nil, Hash(startHeight)'} \/ SignedBy(curVals, startHeight, height)'
  <2>1. CASE curVals' \in {Nil, Hash(startHeight)}
    BY <1>4, <2>1
  <2>2. CASE curVals' = curVals /\ SignedBy(curVals, startHeight, height)
    <3>1. startHeight \in Nat
      BY <1>2
    <3>2. \A v : SignedBy(v, startHeight, height) =>
            \E t \in HeaderTxs' : /\ t.height \in startHeight..height' /\ t.height \in 1..Latest'
                                  /\ blocks'[t.height].vals = v
      BY <3>1, SignedByStays DEF SignedBy
    <3> QED
      BY <2>2, <3>2 DEF SignedBy
  <2> QED
    BY <2>1, <2>2 DEF SetOK
<1> QED
  BY <1>3, <1>5 DEF SetOK

\* The daemon stays at its block.
LEMMA SetStays ==
  ASSUME SetOK, BlocksKept, sent \subseteq sent', height \in Nat,
         UNCHANGED <<pc, syncRet, hdr, height, curVals, startHeight>>
  PROVE  SetOK'
<1>1. (Syncing' <=> Syncing) /\ (HeaderSent(height) => HeaderSent(height)')
  BY DEF Syncing, HeaderSent
<1>2. /\ Latest \in Nat /\ Latest' \in Nat /\ Latest <= Latest'
      /\ \A h \in 1..Latest : blocks'[h] = blocks[h]
  BY DEF BlocksKept
<1>3. CASE ~Syncing /\ pc \notin {"changeSynced", "dispatch"}
  BY <1>1, <1>3, SetPasses
<1>4. startHeight' \in 1..Latest' /\ startHeight' <= height' /\ Hash(startHeight)' = Hash(startHeight)
  BY <1>2 DEF SetOK, Hash
<1>5. height \in 1..Latest => height' \in 1..Latest' /\ blocks'[height'] = blocks[height]
  BY <1>2
<1>6. SignedBy(curVals, startHeight, height) => SignedBy(curVals, startHeight, height)'
  <2>1. startHeight \in Nat
    BY DEF SetOK
  <2>2. \A v : SignedBy(v, startHeight, height) =>
          \E t \in HeaderTxs' : /\ t.height \in startHeight..height /\ t.height \in 1..Latest'
                                /\ blocks'[t.height].vals = v
    BY <2>1, SignedByStays DEF SignedBy
  <2> QED
    BY <2>2 DEF SignedBy
<1> QED
  BY <1>1, <1>4, <1>5, <1>6 DEF SetOK, Hash

LEMMA SubroutineSet ==
  ASSUME ExecInv, FreshInv, SetOK, SubroutineStep, UNCHANGED daemonVars, NothingWrong',
         height \in Nat
  PROVE  SetOK'
<1>1. /\ sent \subseteq sent' /\ UNCHANGED blocks
      /\ \/ pc' \in SyncPcs \cup CleanPcs
         \/ pc \in SyncPcs /\ pc' = syncRet
         \/ pc' = cleanRet /\ cleanRet \in CleanedPcs
      /\ pc' \in SyncPcs /\ syncRet' # "cleanSynced" => pc \in SyncPcs /\ UNCHANGED <<syncRet, hdr>>
  BY SubroutineReturns
<1>2. BlocksKept
  BY <1>1, BlocksStay
<1>3. UNCHANGED <<height, curVals, startHeight>>
  BY DEF daemonVars
<1>4. CASE ~Syncing
  <2>1. ~Syncing'
    BY <1>1, <1>4 DEF Syncing
  <2>2. pc \in SyncPcs => syncRet \in {"blockSynced", "cleanSynced"}
    BY <1>4 DEF Syncing, ExecInv, ControlOK, SyncedPcs
  <2>3. pc' \notin {"changeSynced", "dispatch"}
    BY <1>1, <2>2 DEF SyncPcs, CleanPcs, BatchPcs, CleanedPcs
  <2> QED
    BY <1>1, <1>2, <1>3, <1>4, <2>1, <2>3, SetPasses
<1>5. CASE Syncing
  <2>1. /\ hdr = height /\ height \in 1..Latest /\ curVals = Hash(height) /\ syncRet = "changeSynced"
        /\ pc \in SyncPcs /\ startHeight \in 1..Latest /\ startHeight <= height
    BY <1>5 DEF SetOK, Syncing
  <2>2. \/ pc' \in SyncPcs /\ UNCHANGED syncVars
        \/ pc' = "changeSynced" /\ HeaderSent(height)'
    <3>1. \/ pc' \in SyncPcs /\ UNCHANGED syncVars
          \/ pc' = syncRet /\ \E t \in sent' : t.kind = "header" /\ t.height = hdr
      BY <2>1, SyncGoesOn
    <3> QED
      BY <1>3, <2>1, <3>1 DEF HeaderSent
  <2>3. CASE pc' \in SyncPcs /\ UNCHANGED syncVars
    BY <1>1, <1>3, <2>1, <2>3 DEF SetOK, Syncing, SyncPcs, syncVars, Hash, Latest
  <2>4. CASE pc' = "changeSynced" /\ HeaderSent(height)'
    <3>1. ~Syncing'
      BY <2>4 DEF Syncing, SyncPcs
    <3>2. Latest' = Latest /\ Hash(height)' = Hash(height) /\ Latest \in Nat
      BY <1>1, <1>2, <1>3 DEF Latest, Hash, BlocksKept
    <3>3. SignedBy(curVals, startHeight, height)'
      <4>1. PICK t \in sent' : t.kind = "header" /\ t.height = height
        BY <1>3, <2>4 DEF HeaderSent
      <4>2. t.height \in startHeight..height
        BY <2>1, <4>1
      <4>3. t \in HeaderTxs' /\ t.height \in 1..Latest' /\ blocks'[t.height].vals = curVals'
        BY <1>1, <1>3, <2>1, <3>2, <4>1 DEF HeaderTxs, Hash
      <4> QED
        BY <1>3, <4>2, <4>3 DEF SignedBy
    <3>4. startHeight' \in 1..Latest' /\ startHeight' <= height' /\ height' \in 1..Latest'
      BY <1>3, <2>1, <3>2
    <3> QED
      BY <1>3, <2>1, <2>4, <3>1, <3>2, <3>3, <3>4 DEF SetOK
  <2> QED
    BY <2>2, <2>3, <2>4
<1> QED
  BY <1>4, <1>5

\* What a step of the loop leaves alone.
LEMMA LoopKeeps ==
  ASSUME Inv, DaemonStep
  PROVE  sent \subseteq sent' /\ UNCHANGED <<blocks, startHeight>>
<1>1. CASE TaskSend
  <2>1. \A t, ok : Broadcast(t, ok) => sent \subseteq sent'
    BY DEF Broadcast, Submit
  <2> QED
    BY <1>1, <2>1 DEF TaskSend
<1>2. CASE ~TaskSend
  BY <1>2 DEF DaemonStep, Top, Monitor, MonitorFails, ChangeSynced, Dispatch, BlockSynced,
     TaskPkg, TaskNonce, StartCleaned, SkipCleaned, IntervalCleaned, daemonVars
<1> QED
  BY <1>1, <1>2

LEMMA LoopSet ==
  ASSUME Inv, SetOK, DaemonStep, NothingWrong, NothingWrong', height <= height', height' \in Nat
  PROVE  SetOK'
<1>1. ChainTypeOK /\ height \in Nat /\ Latest \in Nat
  <2>1. ExecInv /\ LoopTypeOK
    BY InvParts
  <2> QED
    BY <2>1 DEF ExecInv, ExecTypeOK, LoopTypeOK, ChainTypeOK, Uint64
<1>2. sent \subseteq sent' /\ UNCHANGED <<blocks, startHeight>> /\ BlocksKept
  BY <1>1, LoopKeeps, BlocksStay, InvParts
<1>3. Latest' = Latest /\ startHeight' \in 1..Latest' /\ startHeight' <= height'
      /\ Hash(startHeight)' = Hash(startHeight)
  BY <1>1, <1>2 DEF SetOK, Latest, Hash
<1>4. ASSUME ~Syncing, ~Syncing', pc' \notin {"changeSynced", "dispatch"},
             curVals' \in {curVals, Nil}
      PROVE  SetOK'
  BY <1>1, <1>2, <1>4, SetPasses
<1>5. CASE Monitor
  <2>1. /\ pc = "monitor" /\ height \in 1..Latest /\ UNCHANGED height /\ ~Syncing
        /\ curVals' = IF Changed(blocks[height]) THEN Hash(height) ELSE curVals
    BY <1>5 DEF Monitor, Syncing, SyncPcs, Hash
  <2>2. CASE Changed(blocks[height])
    <3>1. pc' = "syncNonce" /\ syncRet' = "changeSynced" /\ hdr' = height /\ curVals' = Hash(height)
      BY <1>5, <2>1, <2>2 DEF Monitor, CallSync
    <3> QED
      BY <1>2, <1>3, <2>1, <3>1 DEF SetOK, Syncing, SyncPcs, Hash
  <2>3. CASE ~Changed(blocks[height])
    <3>1. pc' = "dispatch" /\ UNCHANGED curVals
      BY <1>5, <2>1, <2>3 DEF Monitor
    <3>2. ~Syncing' /\ (SignedBy(curVals, startHeight, height) => SignedBy(curVals, startHeight, height)')
      BY <1>2, <2>1, <3>1 DEF Syncing, SyncPcs, SignedBy, HeaderTxs, Latest
    <3>3. curVals = Nil \/ (curVals = Hash(height) /\ curVals = blocks[height].next)
      BY <2>3 DEF Changed, Hash
    <3>4. curVals' \in {Nil, Hash(startHeight)'} \/ SignedBy(curVals, startHeight, height)'
      BY <1>3, <2>1, <3>1, <3>2 DEF SetOK
    <3>5. curVals' # Nil => /\ height' \in 1..Latest' /\ curVals' = Hash(height)'
                            /\ curVals' = blocks'[height'].next
      BY <1>2, <1>3, <2>1, <3>1, <3>3 DEF Hash
    <3> QED
      BY <1>3, <3>1, <3>2, <3>4, <3>5 DEF SetOK
  <2> QED
    BY <2>2, <2>3
<1>6. CASE ChangeSynced
  <2>1. pc = "changeSynced" /\ pc' = "dispatch" /\ UNCHANGED <<height, curVals, sent>>
    BY <1>6 DEF ChangeSynced, daemonVars
  <2>2. ~Syncing /\ ~Syncing'
    BY <2>1 DEF Syncing, SyncPcs
  <2>3. height \in 1..Latest /\ curVals = Hash(height) /\ HeaderSent(height)
    BY <2>1 DEF SetOK
  <2>4. /\ SignedBy(curVals, startHeight, height) => SignedBy(curVals, startHeight, height)'
        /\ Hash(height)' = Hash(height) /\ HeaderSent(height)'
    BY <1>2, <2>1, <2>3 DEF SignedBy, HeaderTxs, Latest, Hash, HeaderSent
  <2>5. curVals' \in {Nil, Hash(startHeight)'} \/ SignedBy(curVals, startHeight, height)'
    BY <1>3, <2>1, <2>2, <2>4 DEF SetOK
  <2> QED
    BY <1>3, <2>1, <2>2, <2>3, <2>4, <2>5 DEF SetOK
<1>7. CASE Top \/ MonitorFails
  BY <1>4, <1>7 DEF Top, CallClean, MonitorFails, Syncing, SyncPcs, daemonVars
<1>8. CASE Dispatch
  BY <1>4, <1>8 DEF Dispatch, CallClean, CallSync, NextHeight, Syncing, SyncPcs
<1>9. CASE BlockSynced \/ TaskPkg \/ TaskNonce \/ TaskSend
  BY <1>4, <1>9 DEF BlockSynced, TaskPkg, TaskNonce, TaskSend, NextTask, NextHeight, Syncing, SyncPcs
<1>10. CASE StartCleaned \/ SkipCleaned \/ IntervalCleaned
  BY <1>4, <1>10 DEF StartCleaned, SkipCleaned, IntervalCleaned, NextHeight, Syncing, SyncPcs, daemonVars
<1> QED
  BY <1>5, <1>6, <1>7, <1>8, <1>9, <1>10 DEF DaemonStep

LEMMA SetStep ==
  ASSUME Inv, FreshInv, WalkInv, SetInv, [Next]_vars
  PROVE  SetInv'
<1> SUFFICES ASSUME NothingWrong' PROVE SetOK'
  BY DEF SetInv
<1>1. ExecInv /\ ChainTypeOK /\ height \in Nat
  BY InvParts DEF ExecInv, ExecTypeOK, LoopTypeOK, Uint64
<1>2. height <= height' /\ height' \in Nat
  <2>1. height' >= height
    BY WalkStep DEF NothingWrong, Calm
  <2>2. height' \in Nat
    BY NextInv DEF Inv, TypeOK, Uint64
  <2> QED
    BY <1>1, <2>1, <2>2
<1>3. CASE DaemonStep
  BY <1>2, <1>3, LoopFaults, NothingWrongBefore, LoopSet DEF SetInv
<1>4. CASE ExecutorStep
  <2>1. SubroutineStep /\ UNCHANGED daemonVars
    BY <1>4 DEF ExecutorStep, CallStep, SubroutineStep
  <2>2. SetOK
    BY <2>1, LoopFaults, NothingWrongBefore DEF SetInv
  <2> QED
    BY <1>1, <2>1, <2>2, SubroutineSet
<1>5. CASE EnvStep
  <2>1. /\ UNCHANGED <<pc, syncRet, hdr, height, curVals, startHeight, sent>>
        /\ ProduceBlock \/ MineTx \/ RivalDelivers \/ DropTx
    BY <1>5 DEF EnvStep, EnvOnly, execVars, syncVars, daemonVars, ProduceBlock, MineTx,
       RivalDelivers, DropTx
  <2>2. SetOK
    BY <2>1, NothingWrongBefore DEF SetInv, ProduceBlock, MineTx, RivalDelivers, DropTx, NoFault
  <2>3. BlocksKept
    BY <1>1, <2>1, BlocksStay DEF MineTx, RivalDelivers, DropTx
  <2> QED
    BY <1>1, <2>1, <2>2, <2>3, SetStays
<1>6. CASE Crash
  BY <1>6 DEF Crash, Fault, NothingWrong
<1>7. CASE UNCHANGED vars
  <2>1. UNCHANGED <<pc, syncRet, hdr, height, curVals, startHeight, sent, blocks, incidents>>
    BY <1>7 DEF vars, chainVars, execVars, syncVars, daemonVars
  <2>2. SetOK
    BY <2>1 DEF SetInv, NothingWrong
  <2> QED
    BY <1>1, <2>1, <2>2, BlocksStay, SetStays
<1> QED
  BY <1>3, <1>4, <1>5, <1>6, <1>7 DEF Next, RelayerStep

LEMMA SetsInitially ==
  ASSUME Init
  PROVE  WalkInv /\ FreshInv /\ SetInv
<1>1. /\ height = Latest - 1 /\ startHeight = height /\ Latest \in Nat /\ Latest >= 2
      /\ pc = "cleanSeq" /\ cleanRet = "startCleaned" /\ curVals = Hash(startHeight)
  BY InitInv, InvParts DEF Init, Boot, ExecInv, ExecTypeOK, ChainTypeOK, Hash
<1>2. WalkInv
  BY <1>1 DEF WalkInv, WalkOK, Past, Skipping, TaskPcs, SyncPcs
<1>3. FreshInv
  BY NoncesInitially DEF Init, Boot, HoldPcs
<1>4. SetInv
  BY <1>1 DEF SetInv, SetOK, Syncing, SyncPcs
<1> QED
  BY <1>2, <1>3, <1>4

\* For every chain of validator sets: while nothing goes wrong, a set the
\* daemon still tracks is the one in force, a header signed by it was submitted
\* unless it is the set found at boot, and so was the header of a block that
\* announces another one.  Nothing is said once a poll has stored nil.
THEOREM SetsRelayed == Spec => []TrackedSetRelayed
<1>1. Init => WalkInv /\ FreshInv /\ SetInv
  BY SetsInitially
<1>2. Inv /\ FreshInv /\ WalkInv /\ SetInv /\ [Next]_vars => WalkInv' /\ FreshInv' /\ SetInv'
  BY WalkStep, FreshNext, SetStep
<1>3. SetInv => TrackedSetRelayed
  <2> SUFFICES ASSUME SetOK, pc = "dispatch", curVals # Nil
               PROVE  /\ curVals = Hash(height)
                      /\ curVals # blocks[height].next => HeaderSent(height)
                      /\ curVals # Hash(startHeight) =>
                           \E t \in HeaderTxs : /\ t.height \in startHeight..height
                                               /\ Hash(t.height) = curVals
    BY DEF SetInv, TrackedSetRelayed
  <2>1. ~Syncing
    BY DEF Syncing, SyncPcs
  <2> QED
    BY <2>1 DEF SetOK, SignedBy, Hash
<1> QED
  BY <1>1, <1>2, <1>3, Invariance, PTL DEF Spec

-------------------------------------------------------------------------------
(* Where the daemon is, whatever fails *)

\* The cleanup at boot, and the one at every CleanInterval-th height.
StartCleaning == pc = "startCleaned" \/ (Cleaning /\ cleanRet = "startCleaned")
IntervalCleaning == pc = "intervalCleaned" \/ (Cleaning /\ cleanRet = "intervalCleaned")

\* The block at the daemon's height is being relayed.
Relaying == Past /\ ~IntervalCleaning

\* The daemon is past a block only if BC has it, and it cleans up at the height
\* it is at unless it is about to skip blocks.
PlaceOK ==
  /\ Past => height \in 1..Latest
  /\ IntervalCleaning => ch = height
  /\ StartCleaning => ch = height /\ height = startHeight /\ height \in 1..Latest

LEMMA PlaceTypes ==
  ASSUME Inv
  PROVE  /\ ExecInv /\ LoopTypeOK /\ TasksOK /\ ChainTypeOK /\ (FreshInv => AccountInv)
         /\ height \in Nat /\ ch \in Nat /\ Latest \in Nat /\ Latest >= 2 /\ Latest <= MaxHeight
         /\ MaxHeight \in Nat /\ Latest - 1 \in 1..Latest /\ Word - 1 > MaxHeight
         /\ (height <= Latest => Inc(height) = height + 1) /\ (ch <= Latest => Inc(ch) = ch + 1)
<1>1. ExecInv /\ LoopTypeOK /\ TasksOK /\ height \in Uint64 /\ ch \in Uint64 /\ ChainTypeOK
  BY InvParts DEF LoopTypeOK, ExecInv, ExecTypeOK
<1>2. Latest \in 2..MaxHeight
  BY <1>1 DEF ChainTypeOK
<1>3. height \in Nat /\ ch \in Nat /\ MaxHeight + 1 < Word /\ MaxHeight \in Nat /\ Word \in Nat
  BY <1>1, ExecutorAssumption, BoundsAssumption DEF Uint64
<1>4. (height <= Latest => height + 1 < Word) /\ (ch <= Latest => ch + 1 < Word)
  BY <1>2, <1>3
<1>5. FreshInv => AccountInv
  BY <1>1 DEF AccountInv, ExecInv
<1>6. Latest - 1 \in 1..Latest /\ Word - 1 > MaxHeight
  BY <1>2, <1>3
<1> QED
  BY <1>1, <1>2, <1>3, <1>4, <1>5, <1>6, IncProperties

\* A subroutine leaves the daemon where it was called.
LEMMA SubroutineStays ==
  ASSUME ExecInv, SubroutineStep
  PROVE  /\ UNCHANGED <<blocks, ch>> /\ (Past' => Past) /\ (Relaying' => Relaying)
         /\ (StartCleaning' <=> StartCleaning) /\ (IntervalCleaning' <=> IntervalCleaning)
         /\ pc' \notin TaskPcs \cup {"top"}
<1>1. UNCHANGED <<blocks, ch>>
  BY SubroutineReturns, SubroutineCaller
<1>2. CASE SyncNonce \/ SyncQuery \/ SyncSend
  <2>1. /\ pc \in SyncPcs /\ syncRet \in SyncedPcs /\ UNCHANGED cleanRet
        /\ (pc' \in SyncPcs /\ UNCHANGED syncRet) \/ pc' = syncRet
    BY <1>2 DEF SyncNonce, SyncQuery, QueryTendermintHeader, SyncSend, ReturnSync, SyncPcs,
         ExecInv, ControlOK, syncVars,
       cleanVars
  <2>2. pc' = syncRet => pc' \in SyncedPcs
    BY <2>1
  <2>3. (Cleaning' <=> Cleaning) /\ (Past' <=> Past)
    BY <2>1, <2>2 DEF Past, TaskPcs, SyncPcs, CleanPcs, BatchPcs, SyncedPcs, Cleaning
  <2> QED
    BY <1>1, <2>1, <2>2, <2>3 DEF Relaying, StartCleaning, IntervalCleaning, TaskPcs, SyncPcs,
       SyncedPcs
<1>3. CASE ~(SyncNonce \/ SyncQuery \/ SyncSend)
  <2>1. CleanupFrame
    BY <1>3, CleanupSteps DEF SubroutineStep
  <2>2. Cleaning /\ cleanRet \in CleanedPcs
    BY <2>1 DEF CleanupFrame, Cleaning, ExecInv, ControlOK
  <2>3. CASE pc' = cleanRet
    <3>1. ~Cleaning' /\ pc \notin SyncPcs /\ pc \notin CleanedPcs
      BY <2>1, <2>2, <2>3 DEF CleanupFrame, Cleaning, CleanedPcs, CleanPcs, BatchPcs, SyncPcs
    <3>2. (StartCleaning' <=> StartCleaning) /\ (IntervalCleaning' <=> IntervalCleaning)
      BY <2>2, <2>3, <3>1 DEF StartCleaning, IntervalCleaning, CleanedPcs
    <3>3. Past' <=> IntervalCleaning'
      BY <2>2, <2>3, <3>1 DEF Past, IntervalCleaning, CleanedPcs, TaskPcs, SyncPcs
    <3>4. IntervalCleaning => Past
      BY DEF Past, IntervalCleaning
    <3> QED
      BY <1>1, <2>2, <2>3, <3>2, <3>3, <3>4 DEF Relaying, CleanedPcs, TaskPcs
  <2>4. CASE pc' # cleanRet
    <3>1. Cleaning' /\ UNCHANGED cleanRet /\ pc \in CleanPcs
          /\ (pc' \in CleanPcs \/ (pc' = "syncNonce" /\ syncRet' = "cleanSynced"))
      BY <2>1, <2>4 DEF CleanupFrame, Cleaning, SyncPcs
    <3>2. (StartCleaning' <=> StartCleaning) /\ (IntervalCleaning' <=> IntervalCleaning)
      BY <2>2, <3>1 DEF StartCleaning, IntervalCleaning, CleanPcs, BatchPcs
    <3>3. Past' <=> IntervalCleaning'
      BY <3>1 DEF Past, IntervalCleaning, CleanPcs, BatchPcs, TaskPcs, SyncPcs
    <3>4. IntervalCleaning => Past
      BY DEF Past, IntervalCleaning
    <3> QED
      BY <1>1, <3>1, <3>2, <3>3, <3>4 DEF Relaying, CleanPcs, BatchPcs, TaskPcs
  <2> QED
    BY <2>3, <2>4
<1> QED
  BY <1>2, <1>3

LEMMA PlaceStep ==
  ASSUME Inv, PlaceOK, [Next]_vars
  PROVE  PlaceOK'
<1>1. /\ ExecInv /\ height \in Nat /\ ch \in Nat /\ Latest \in Nat /\ Latest - 1 \in 1..Latest
      /\ (height <= Latest => Inc(height) = height + 1)
  BY PlaceTypes
<1>2. ASSUME ~StartCleaning', ~IntervalCleaning', UNCHANGED <<blocks, height>>,
             Past' => height \in 1..Latest
      PROVE  PlaceOK'
  BY <1>2 DEF PlaceOK, Latest
<1>3. CASE Top \/ MonitorFails \/ StartCleaned
  <2>1. \/ pc' \in {"top", "monitor"}
        \/ pc' = "cleanSeq" /\ cleanRet' = "skipCleaned"
    BY <1>3 DEF Top, MonitorFails, StartCleaned, CallClean
  <2>2. ~Past' /\ ~StartCleaning' /\ ~IntervalCleaning'
    BY <2>1 DEF Past, StartCleaning, IntervalCleaning, Cleaning, TaskPcs, CleanPcs, BatchPcs, SyncPcs
  <2>3. UNCHANGED <<blocks, height>>
    BY <1>3 DEF Top, MonitorFails, StartCleaned, daemonVars
  <2> QED
    BY <1>2, <2>2, <2>3
<1>4. CASE Monitor \/ ChangeSynced
  <2>1. height \in 1..Latest /\ UNCHANGED <<blocks, height>>
    BY <1>4 DEF Monitor, ChangeSynced, daemonVars, PlaceOK, Past
  <2>2. pc' = "dispatch" \/ (pc' = "syncNonce" /\ syncRet' = "changeSynced")
    BY <1>4 DEF Monitor, ChangeSynced, CallSync
  <2>3. ~StartCleaning' /\ ~IntervalCleaning'
    BY <2>2 DEF StartCleaning, IntervalCleaning, Cleaning, CleanPcs, BatchPcs, SyncPcs
  <2> QED
    BY <1>2, <2>1, <2>3
<1>5. ASSUME pc' = "top", UNCHANGED blocks PROVE PlaceOK'
  BY <1>5 DEF PlaceOK, Past, StartCleaning, IntervalCleaning, Cleaning, TaskPcs, CleanPcs,
     BatchPcs, SyncPcs
<1>6. CASE Dispatch
  <2>1. height \in 1..Latest /\ UNCHANGED blocks
    BY <1>6 DEF Dispatch, PlaceOK, Past
  <2>2. CASE CallClean(height, "intervalCleaned") /\ UNCHANGED height
    <3>1. pc' = "cleanSeq" /\ cleanRet' = "intervalCleaned" /\ ch' = height
      BY <2>2 DEF CallClean
    <3>2. ~StartCleaning'
      BY <3>1 DEF StartCleaning
    <3> QED
      BY <2>1, <2>2, <3>1, <3>2 DEF PlaceOK, Latest
  <2>3. CASE NextHeight(height)
    BY <1>5, <2>1, <2>3 DEF NextHeight
  <2>4. CASE CallSync(Inc(height), "blockSynced") /\ UNCHANGED height
    <3>1. pc' = "syncNonce" /\ syncRet' = "blockSynced"
      BY <2>4 DEF CallSync
    <3>2. ~StartCleaning' /\ ~IntervalCleaning'
      BY <3>1 DEF StartCleaning, IntervalCleaning, Cleaning, CleanPcs, BatchPcs
    <3> QED
      BY <1>2, <2>1, <2>4, <3>2
  <2> QED
    BY <1>6, <2>2, <2>3, <2>4 DEF Dispatch
<1>7. CASE BlockSynced \/ TaskPkg \/ TaskNonce \/ TaskSend
  <2>1. height \in 1..Latest /\ UNCHANGED blocks
    BY <1>7 DEF BlockSynced, TaskPkg, TaskNonce, TaskSend, PlaceOK, Past, TaskPcs
  <2>2. pc' = "top" \/ (pc' \in TaskPcs /\ UNCHANGED height)
    BY <1>7 DEF BlockSynced, TaskPkg, TaskNonce, TaskSend, NextTask, NextHeight, TaskPcs
  <2>3. CASE pc' \in TaskPcs /\ UNCHANGED height
    <3>1. ~StartCleaning' /\ ~IntervalCleaning'
      BY <2>3 DEF StartCleaning, IntervalCleaning, Cleaning, TaskPcs, CleanPcs, BatchPcs, SyncPcs
    <3> QED
      BY <1>2, <2>1, <2>3, <3>1
  <2> QED
    BY <1>5, <2>1, <2>2, <2>3
<1>8. CASE SkipCleaned \/ IntervalCleaned
  BY <1>5, <1>8 DEF SkipCleaned, IntervalCleaned, NextHeight
<1>9. CASE ExecutorStep
  <2>1. SubroutineStep /\ UNCHANGED daemonVars
    BY <1>9 DEF ExecutorStep, CallStep, SubroutineStep
  <2> QED
    BY <1>1, <2>1, SubroutineStays DEF PlaceOK, daemonVars, Latest
<1>10. CASE EnvStep \/ UNCHANGED vars
  <2>1. /\ UNCHANGED <<height, startHeight, ch, pc, syncRet, cleanRet>>
        /\ ProduceBlock \/ UNCHANGED blocks
    BY <1>10 DEF EnvStep, EnvOnly, MineTx, RivalDelivers, DropTx, execVars, daemonVars, vars,
       chainVars
  <2>2. BlocksKept
    BY <1>1, <2>1, BlocksStay
  <2>3. (Past' <=> Past) /\ (StartCleaning' <=> StartCleaning)
        /\ (IntervalCleaning' <=> IntervalCleaning)
    BY <2>1 DEF Past, StartCleaning, IntervalCleaning, Cleaning
  <2>4. height \in 1..Latest => height' \in 1..Latest'
    <3>1. Latest' \in Nat /\ Latest <= Latest' /\ height' = height
      BY <2>1, <2>2 DEF BlocksKept
    <3>2. ASSUME NEW h, NEW l \in Nat, NEW m \in Nat, l <= m, h \in 1..l PROVE h \in 1..m
      BY <3>2
    <3> QED
      BY <1>1, <3>1, <3>2
  <2> QED
    BY <2>1, <2>3, <2>4 DEF PlaceOK
<1>11. CASE Crash
  <2>1. /\ pc' = "cleanSeq" /\ cleanRet' = "startCleaned" /\ ch' = Latest - 1
        /\ height' = Latest - 1 /\ startHeight' = Latest - 1 /\ UNCHANGED blocks
    BY <1>11 DEF Crash
  <2>2. ~Past' /\ ~IntervalCleaning'
    BY <2>1 DEF Past, IntervalCleaning, TaskPcs, SyncPcs
  <2> QED
    BY <1>1, <2>1, <2>2 DEF PlaceOK, Latest
<1> QED
  BY <1>3, <1>4, <1>6, <1>7, <1>8, <1>9, <1>10, <1>11 DEF Next, RelayerStep, DaemonStep

-------------------------------------------------------------------------------
(* Cleanups *)

\* The transaction a task sends.
TaskTx == PackageTx(Head(tasks).chan, Head(tasks).seq, height, ProofHeader(height), nonce)

LEMMA TaskTxType ==
  ASSUME Inv, TaskSend
  PROVE  /\ TaskTx \in Tx /\ TaskTx.kind = "package" /\ TaskTx.nonce = nonce
         /\ TaskTx.chan = Head(tasks).chan /\ TaskTx.seq = Head(tasks).seq /\ TaskTx.at = height
         /\ TaskTx.hdr = height + 1 /\ HeaderSent(height + 1)
         /\ Head(tasks).chan \in Channels /\ Head(tasks).seq \in Nat /\ height \in 1..Latest
         /\ Head(tasks).seq < SeqAt(Head(tasks).chan, height)
<1>1. /\ ExecInv /\ LoopTypeOK /\ TasksOK /\ nonce \in Nat /\ height \in Uint64
      /\ (height <= Latest => Inc(height) = height + 1)
  BY PlaceTypes DEF ExecInv, ExecTypeOK, LoopTypeOK
<1>2. PackageExists(Head(tasks).chan, Head(tasks).seq, height) /\ HeaderSent(Inc(height))
      /\ tasks # <<>>
  BY <1>1 DEF TaskSend, TasksOK, TaskPcs
<1>3. Head(tasks) \in Task
  BY <1>1, <1>2, HeadTailProperties DEF LoopTypeOK
<1>4. Head(tasks).chan \in Channels /\ height \in 1..Latest /\ Head(tasks).seq \in Nat
  BY <1>1, <1>2, <1>3, SeqAtType DEF ExecInv, ExecTypeOK, Task
<1> DEFINE c == Head(tasks).chan
           s == Head(tasks).seq
<1>5. c \in Channels /\ c \in Nat /\ s \in Nat /\ ProofHeader(height) \in Uint64
      /\ Inc(height) = height + 1 /\ PackageExists(c, s, height)
  <2>1. c \in Channels /\ c \in Nat /\ s \in Nat /\ PackageExists(c, s, height)
    BY <1>2, <1>4, ChannelsAssumption
  <2>2. ProofHeader(height) \in Uint64
    BY <1>1, IncProperties DEF ProofHeader
  <2>3. height <= Latest
    BY <1>1, <1>4 DEF ExecInv, ExecTypeOK, ChainTypeOK
  <2> QED
    BY <1>1, <2>1, <2>2, <2>3
<1>6. TaskTx = PackageTx(c, s, height, ProofHeader(height), nonce)
  BY DEF TaskTx
<1>7. s < SeqAt(c, height)
  <2>1. SeqAt(c, height) \in Nat
    BY <1>1, SeqAtType DEF ExecInv, ExecTypeOK
  <2> QED
    BY <1>5, <2>1 DEF PackageExists
<1> HIDE DEF c, s
<1>8. /\ TaskTx \in Tx /\ TaskTx.kind = "package" /\ TaskTx.chan = c /\ TaskTx.seq = s
      /\ TaskTx.at = height /\ TaskTx.hdr = height + 1
  BY <1>1, <1>5, <1>6, PackageTxType_ DEF ProofHeader
<1>9. TaskTx.nonce = nonce
  BY <1>6 DEF PackageTx
<1> QED
  BY <1>2, <1>4, <1>5, <1>7, <1>8, <1>9 DEF c, s

\* A step of the loop, or a crash, sends at most its task's package, and is
\* outside of a cleanup or at its start.
LEMMA LoopFrame ==
  ASSUME Inv, DaemonStep \/ Crash
  PROVE  /\ AccountStep /\ UNCHANGED <<bscVars, blocks, capped>>
         /\ ~TaskSend => UNCHANGED <<pool, sent>>
         /\ OneView' => OneView
         /\ pc' \notin CleanedPcs \cup CleanPcs \/ (pc' = "cleanSeq" /\ ci' = 1)
         /\ pc' \in SyncPcs => syncRet' # "cleanSynced"
         /\ ~InBatch'
<1>1. UNCHANGED <<bscVars, blocks, capped>> /\ (~TaskSend => UNCHANGED <<pool, sent>>)
  BY DEF DaemonStep, Crash, Top, Monitor, MonitorFails, ChangeSynced, Dispatch, BlockSynced,
     TaskPkg, TaskNonce, TaskSend, StartCleaned, SkipCleaned, IntervalCleaned
<1>2. AccountStep
  <2>1. CASE TaskSend
    <3>1. TaskTx \in Tx /\ \E ok \in BOOLEAN : Broadcast(TaskTx, ok)
      BY <2>1, TaskTxType DEF TaskSend, TaskTx
    <3> QED
      BY <1>1, <3>1, BroadcastAccount
  <2>2. CASE ~TaskSend
    BY <1>1, <2>2 DEF AccountStep
  <2> QED
    BY <2>1, <2>2
<1>3. OneView' => OneView
  BY LoopFaults, OneViewBefore DEF Crash
<1>4. /\ pc' \notin CleanedPcs \cup CleanPcs \/ (pc' = "cleanSeq" /\ ci' = 1)
      /\ pc' \in SyncPcs => syncRet' # "cleanSynced"
  <2>1. CASE Top \/ Dispatch \/ Crash
    BY <2>1 DEF Top, Dispatch, Crash, CallClean, CallSync, NextHeight, CleanedPcs, CleanPcs,
       BatchPcs, SyncPcs
  <2>2. CASE Monitor \/ MonitorFails \/ ChangeSynced \/ BlockSynced
    BY <2>2 DEF Monitor, MonitorFails, ChangeSynced, BlockSynced, CallSync, CleanedPcs, CleanPcs,
       BatchPcs, SyncPcs
  <2>3. CASE TaskPkg \/ TaskNonce \/ TaskSend \/ StartCleaned \/ SkipCleaned \/ IntervalCleaned
    BY <2>3 DEF TaskPkg, TaskNonce, TaskSend, StartCleaned, SkipCleaned, IntervalCleaned, NextTask,
       NextHeight, CleanedPcs, CleanPcs, BatchPcs, SyncPcs
  <2> QED
    BY <2>1, <2>2, <2>3 DEF DaemonStep
<1>5. ~InBatch'
  BY <1>4 DEF InBatch, CleanPcs, BatchPcs
<1> QED
  BY <1>1, <1>2, <1>3, <1>4, <1>5

\* The loop cleans up at heights BC has, or, when it could not read the latest
\* one, at a height BC will never have.
LEMMA LoopCleanHeights ==
  ASSUME Inv, PlaceOK, ChOK, DaemonStep \/ Crash
  PROVE  /\ ch' <= Latest' \/ ch' > MaxHeight
         /\ NothingWrong' /\ pc' = "cleanSeq" => ch' <= Latest'
<1>1. /\ height \in Nat /\ Latest \in Nat /\ Latest >= 2 /\ Latest <= MaxHeight
      /\ Latest - 1 \in 1..Latest /\ Word - 1 > MaxHeight /\ Latest' = Latest
  BY PlaceTypes, LoopFrame DEF Latest
<1>2. CASE Top
  <2>1. PICK l \in {Latest - 1, Word - 1} :
          /\ LatestRead(l)
          /\ CallClean(l, "skipCleaned") \/ (pc' = "monitor" /\ UNCHANGED cleanVars)
    BY <1>2 DEF Top
  <2>2. NothingWrong' => l = Latest - 1
    BY <2>1 DEF LatestRead, Fault, NothingWrong
  <2>3. CASE CallClean(l, "skipCleaned")
    BY <1>1, <2>2, <2>3 DEF CallClean
  <2>4. CASE pc' = "monitor" /\ UNCHANGED cleanVars
    BY <1>1, <2>4 DEF ChOK, cleanVars
  <2> QED
    BY <2>1, <2>3, <2>4
<1>3. CASE Dispatch
  <2>1. height \in 1..Latest
    BY <1>3 DEF Dispatch, PlaceOK, Past
  <2>2. (pc' = "cleanSeq" /\ ch' = height) \/ (pc' # "cleanSeq" /\ ch' = ch)
    BY <1>3 DEF Dispatch, CallClean, CallSync, NextHeight, cleanVars
  <2> QED
    BY <1>1, <2>1, <2>2 DEF ChOK
<1>4. CASE Crash
  BY <1>1, <1>4 DEF Crash
<1>5. CASE ~Top /\ ~Dispatch /\ DaemonStep
  <2>1. pc' # "cleanSeq" /\ ch' \in {ch, 0}
    BY <1>5 DEF DaemonStep, Monitor, MonitorFails, ChangeSynced, BlockSynced, TaskPkg, TaskNonce,
       TaskSend, StartCleaned, SkipCleaned, IntervalCleaned, CallSync, NextTask, NextHeight,
       EndClean, cleanVars
  <2> QED
    BY <1>1, <2>1 DEF ChOK
<1> QED
  BY <1>2, <1>3, <1>4, <1>5

LEMMA CleanupNext ==
  ASSUME Inv, Inv', FreshInv, FreshInv', PlaceOK, CleanupInv, [Next]_vars
  PROVE  CleanupInv'
<1>1. ExecInv /\ ExecInv'
  BY DEF Inv
<1>2. CASE DaemonStep \/ Crash
  BY <1>1, <1>2, LoopFrame, LoopCleanHeights, LoopCleanup DEF CleanupInv
<1>3. CASE ExecutorStep
  BY <1>1, <1>3, SubroutineCleanup DEF ExecutorStep, CallStep, SubroutineStep
<1>4. CASE EnvStep
  BY <1>1, <1>4, EnvironmentCleanup DEF EnvStep, EnvOnly
<1>5. CASE UNCHANGED vars
  BY <1>5, CleanupStutters DEF vars
<1> QED
  BY <1>2, <1>3, <1>4, <1>5 DEF Next, RelayerStep

\* What is known of the account and the cleanups, whatever fails.
SafeInv == Inv /\ FreshInv /\ PlaceOK /\ CleanupInv

LEMMA SafeInitially ==
  ASSUME Init
  PROVE  SafeInv
<1>1. Inv /\ FreshInv
  BY InitInv, NoncesInitially DEF Init, Boot, HoldPcs
<1>2. /\ pc = "cleanSeq" /\ ci = 1 /\ ch = height /\ height = startHeight
      /\ height = Latest - 1 /\ Latest - 1 \in 1..Latest /\ Latest \in Nat
      /\ syncRet = "none" /\ cleanRet = "startCleaned"
  BY <1>1, PlaceTypes DEF Init, Boot, ExecInit
<1>3. PlaceOK
  <2>1. ~Past /\ ~IntervalCleaning
    BY <1>2 DEF Past, IntervalCleaning, TaskPcs, SyncPcs
  <2> QED
    BY <1>2, <2>1 DEF PlaceOK
<1>4. CleanupInv
  BY <1>2, CleanupInitially DEF Init
<1> QED
  BY <1>1, <1>3, <1>4 DEF SafeInv

LEMMA CleanupSafety == Spec => []SafeInv
<1>1. Init => SafeInv
  BY SafeInitially
<1>2. SafeInv /\ [Next]_vars => SafeInv'
  BY NextInv, FreshNext, PlaceStep, CleanupNext DEF SafeInv
<1> QED
  BY <1>1, <1>2, PTL DEF Spec

\* Whatever failed earlier: a cleanup that returns no error and was never cut
\* leaves nothing behind on any monitored channel.
THEOREM CleanupsDeliver == Spec => []CleanupDelivers
<1>1. SafeInv => CleanupDelivers
  BY CleanupDeliversFrom DEF SafeInv, CleanupInv
<1> QED
  BY <1>1, CleanupSafety, PTL

-------------------------------------------------------------------------------
(* The tasks of the block being relayed *)

\* ts are tasks of block h, in the order of their sequences.
OfBlock(chain, h, ts) ==
  /\ Ascending(ts)
  /\ \A i \in 1..Len(ts) :
       \/ ts[i] = PureHeader
       \/ /\ ts[i].chan \in Channels
          /\ ts[i].seq \in SeqOn(chain, ts[i].chan, h - 1)..(SeqOn(chain, ts[i].chan, h) - 1)
TasksInv == Relaying => OfBlock(blocks, height, tasks)

LEMMA TailTypes ==
  ASSUME NEW ts \in Seq(Task), ts # <<>>
  PROVE  /\ Tail(ts) \in Seq(Task) /\ Len(ts) \in Nat \ {0} /\ Len(Tail(ts)) = Len(ts) - 1
         /\ Head(ts) = ts[1] /\ \A i \in 1..Len(Tail(ts)) : Tail(ts)[i] = ts[i + 1]
<1>1. Len(ts) \in Nat /\ Len(ts) # 0 /\ Head(ts) = ts[1]
  BY LenProperties, EmptySeq
<1> QED
  BY <1>1, HeadTailProperties

LEMMA TailOfBlock ==
  ASSUME NEW ts \in Seq(Task), ts # <<>>, NEW chain, NEW h, OfBlock(chain, h, ts)
  PROVE  OfBlock(chain, h, Tail(ts))
<1>1. Len(ts) \in Nat /\ Len(Tail(ts)) \in Nat /\ \A i \in 1..Len(Tail(ts)) : i + 1 \in 1..Len(ts)
      /\ Tail(ts)[i] = ts[i + 1]
  BY TailTypes
<1>2. Ascending(Tail(ts))
  <2> SUFFICES ASSUME NEW i \in 1..Len(Tail(ts)), NEW j \in 1..Len(Tail(ts)), i < j,
                      Tail(ts)[i].chan = Tail(ts)[j].chan
               PROVE  Tail(ts)[i].seq < Tail(ts)[j].seq
    BY DEF Ascending
  <2>1. i + 1 \in 1..Len(ts) /\ j + 1 \in 1..Len(ts) /\ i + 1 < j + 1
    BY <1>1
  <2> QED
    BY <1>1, <2>1 DEF OfBlock, Ascending
<1> QED
  BY <1>1, <1>2 DEF OfBlock

\* What the loop finds in a block.
Found(b, yes) == (IF yes THEN <<PureHeader>> ELSE <<>>) \o b.tasks

\* Among the tasks ts is every package of block h.
HasAll(chain, h, ts) ==
  \A c \in Channels : \A s \in SeqOn(chain, c, h - 1)..(SeqOn(chain, c, h) - 1) :
    \E i \in 1..Len(ts) : ts[i].chan = c /\ ts[i].seq = s

LEMMA FoundOfBlock ==
  ASSUME ChainTypeOK, BlocksAnnounce, NEW h \in 1..Latest, NEW yes \in BOOLEAN
  PROVE  OfBlock(blocks, h, Found(blocks[h], yes)) /\ HasAll(blocks, h, Found(blocks[h], yes))
<1> DEFINE bt == blocks[h].tasks
           pre == IF yes THEN <<PureHeader>> ELSE <<>>
           ts == pre \o bt
           New(c) == SeqOn(blocks, c, h - 1)..(SeqOn(blocks, c, h) - 1)
<1>1. bt \in Seq(Task) /\ Announces(blocks, h)
  BY BlockTypes DEF BlocksAnnounce
<1>2. /\ \A i \in 1..Len(bt) : bt[i].chan \in Channels /\ bt[i].seq \in New(bt[i].chan)
      /\ Ascending(bt)
      /\ \A c \in Channels : \A s \in New(c) : \E i \in 1..Len(bt) : bt[i].chan = c /\ bt[i].seq = s
  BY <1>1 DEF Announces
<1>3. Len(bt) \in Nat
  BY <1>1
<1>4. PICK k \in {0, 1} : /\ Len(ts) = k + Len(bt)
                          /\ \A i \in 1..Len(ts) : i <= k => ts[i] = PureHeader
                          /\ \A i \in 1..Len(ts) : i > k => ts[i] = bt[i - k]
  <2>1. PureHeader \in Task /\ <<PureHeader>> \in Seq(Task) /\ <<>> \in Seq(Task)
    BY DEF PureHeader, Task
  <2>2. Len(<<PureHeader>>) = 1 /\ <<PureHeader>>[1] = PureHeader /\ Len(<<>>) = 0
    OBVIOUS
  <2>3. pre \in Seq(Task) /\ Len(pre) \in {0, 1} /\ (Len(pre) = 1 => pre[1] = PureHeader)
    BY <2>1, <2>2
  <2> HIDE DEF pre, bt
  <2>4. /\ Len(ts) = Len(pre) + Len(bt)
        /\ \A i \in 1..Len(ts) : ts[i] = IF i <= Len(pre) THEN pre[i] ELSE bt[i - Len(pre)]
    BY <1>1, <2>3, ConcatProperties
  <2>5. Len(pre) \in {0, 1} /\ Len(ts) = Len(pre) + Len(bt)
    BY <2>3, <2>4
  <2>6. \A i \in 1..Len(ts) : ts[i] = IF i <= Len(pre) THEN pre[i] ELSE bt[i - Len(pre)]
    BY <2>4
  <2> HIDE DEF ts
  <2>7. ASSUME NEW i \in 1..Len(ts) PROVE i <= Len(pre) => ts[i] = PureHeader
    <3>1. i <= Len(pre) => i = 1 /\ Len(pre) = 1
      <4>1. i \in Nat \ {0}
        BY <1>3, <2>5
      <4>2. \A l \in {0, 1}, n \in Nat \ {0} : n <= l => n = 1 /\ l = 1
        OBVIOUS
      <4> QED
        BY <2>5, <4>1, <4>2
    <3> QED
      BY <2>3, <2>5, <2>6, <3>1
  <2>8. ASSUME NEW i \in 1..Len(ts) PROVE i > Len(pre) => ts[i] = bt[i - Len(pre)]
    <3>1. i > Len(pre) => ~(i <= Len(pre))
      BY <1>3, <2>5
    <3> QED
      BY <2>5, <2>6, <3>1
  <2> QED
    BY <2>5, <2>7, <2>8
<1> HIDE DEF bt, ts, New, pre
<1>5. Ascending(ts)
  <2> SUFFICES ASSUME NEW i \in 1..Len(ts), NEW j \in 1..Len(ts), i < j, ts[i].chan = ts[j].chan
               PROVE  ts[i].seq < ts[j].seq
    BY DEF Ascending
  <2>1. CASE i > k
    <3>1. i - k \in 1..Len(bt) /\ j - k \in 1..Len(bt) /\ i - k < j - k /\ j > k
      BY <1>3, <1>4, <2>1
    <3>2. ts[i] = bt[i - k] /\ ts[j] = bt[j - k]
      BY <1>4, <2>1, <3>1
    <3>3. bt[i - k].chan = bt[j - k].chan
      BY <3>2
    <3>4. bt[i - k].seq < bt[j - k].seq
      BY <1>2, <3>1, <3>3 DEF Ascending
    <3> QED
      BY <3>2, <3>4
  <2>2. CASE ~(i > k)
    <3>1. ts[i] = PureHeader /\ j > k /\ j - k \in 1..Len(bt)
      BY <1>3, <1>4, <2>2
    <3>2. ts[i].chan = -1 /\ ts[j].chan \in Channels
      BY <1>2, <1>4, <3>1 DEF PureHeader
    <3>3. \A c \in Channels : c # -1
      BY ChannelsAssumption
    <3> QED
      BY <3>2, <3>3
  <2> QED
    BY <2>1, <2>2
<1>6. ASSUME NEW i \in 1..Len(ts)
      PROVE  ts[i] = PureHeader \/ (ts[i].chan \in Channels /\ ts[i].seq \in New(ts[i].chan))
  <2>1. CASE i > k
    <3>1. i - k \in 1..Len(bt)
      BY <1>3, <1>4, <2>1
    <3> QED
      BY <1>2, <1>4, <2>1, <3>1
  <2>2. CASE ~(i > k)
    BY <1>4, <2>2
  <2> QED
    BY <2>1, <2>2
<1>7. ASSUME NEW c \in Channels, NEW s \in New(c)
      PROVE  \E i \in 1..Len(ts) : ts[i].chan = c /\ ts[i].seq = s
  <2>1. PICK i \in 1..Len(bt) : bt[i].chan = c /\ bt[i].seq = s
    BY <1>2
  <2>2. i + k \in 1..Len(ts) /\ i + k > k /\ (i + k) - k = i
    BY <1>3, <1>4
  <2>3. ts[i + k] = bt[i]
    BY <1>4, <2>2
  <2> QED
    BY <2>1, <2>2, <2>3
<1>8. OfBlock(blocks, h, ts)
  BY <1>5, <1>6 DEF OfBlock, New
<1>9. HasAll(blocks, h, ts)
  BY <1>7 DEF HasAll, New
<1>10. Found(blocks[h], yes) = ts
  BY DEF Found, ts, pre, bt
<1> QED
  BY <1>8, <1>9, <1>10

\* BC's counters at a height it has, and at the one below, do not change.
LEMMA CountersStay ==
  ASSUME ChainTypeOK, ChainTypeOK', BlocksKept, NEW h \in Nat, h <= Latest
  PROVE  \A c : SeqOn(blocks', c, h) = SeqOn(blocks, c, h)
<1>1. Latest \in Nat /\ Latest <= MaxHeight /\ MaxHeight + 1 < Word /\ Word \in Nat /\ MaxHeight \in Nat
  BY BoundsAssumption, ExecutorAssumption DEF ChainTypeOK
<1>2. h \in Uint64
  BY <1>1 DEF Uint64
<1> QED
  BY <1>2, SeqStable

LEMMA OfBlockStays ==
  ASSUME ChainTypeOK, ChainTypeOK', BlocksKept, NEW h \in 1..Latest, NEW ts, OfBlock(blocks, h, ts)
  PROVE  OfBlock(blocks', h, ts)
<1>1. Latest \in Nat
  BY DEF ChainTypeOK
<1>2. h \in Nat /\ h <= Latest /\ h - 1 \in Nat /\ h - 1 <= Latest
  BY <1>1
<1>3. \A c : SeqOn(blocks', c, h) = SeqOn(blocks, c, h) /\ SeqOn(blocks', c, h - 1) = SeqOn(blocks, c, h - 1)
  BY <1>2, CountersStay
<1> QED
  BY <1>3 DEF OfBlock

\* The loop relays the same tasks on, drops the first, or is not relaying.
LEMMA LoopTasks ==
  ASSUME Inv, PlaceOK, DaemonStep, ~Monitor
  PROVE  \/ ~Relaying'
         \/ Relaying /\ UNCHANGED <<blocks, height>> /\ tasks' = tasks
         \/ pc \in TaskPcs /\ UNCHANGED <<blocks, height>> /\ tasks' = Tail(tasks)
<1>1. UNCHANGED blocks
  BY LoopFrame
<1>2. ASSUME pc' \in {"top", "monitor"} \/ (pc' = "cleanSeq" /\ cleanRet' \in CleanedPcs)
      PROVE  ~Relaying'
  BY <1>2 DEF Relaying, Past, IntervalCleaning, Cleaning, TaskPcs, SyncPcs, CleanPcs, BatchPcs
<1>3. ASSUME pc \in TaskPcs \cup {"changeSynced", "dispatch", "blockSynced"}
      PROVE  Relaying
  BY <1>3 DEF Relaying, Past, IntervalCleaning, Cleaning, TaskPcs, SyncPcs, CleanPcs, BatchPcs
<1>4. CASE Top \/ MonitorFails \/ StartCleaned \/ SkipCleaned \/ IntervalCleaned
  BY <1>2, <1>4 DEF Top, CallClean, MonitorFails, StartCleaned, SkipCleaned, IntervalCleaned,
     NextHeight, CleanedPcs
<1>5. CASE ChangeSynced
  BY <1>1, <1>3, <1>5 DEF ChangeSynced, daemonVars
<1>6. CASE Dispatch
  BY <1>1, <1>2, <1>3, <1>6 DEF Dispatch, CallClean, NextHeight, CleanedPcs
<1>7. CASE BlockSynced
  BY <1>1, <1>2, <1>3, <1>7 DEF BlockSynced
<1>8. CASE TaskPkg \/ TaskNonce \/ TaskSend
  <2>1. pc \in TaskPcs /\ (NextTask \/ UNCHANGED <<tasks, height>>)
    BY <1>8 DEF TaskPkg, TaskNonce, TaskSend, TaskPcs
  <2> QED
    BY <1>1, <1>2, <1>3, <2>1 DEF NextTask, NextHeight
<1> QED
  BY <1>4, <1>5, <1>6, <1>7, <1>8 DEF DaemonStep

LEMMA TasksStep ==
  ASSUME Inv, Inv', PlaceOK, BlocksAnnounce, TasksInv, [Next]_vars
  PROVE  TasksInv'
<1> SUFFICES ASSUME Relaying' PROVE OfBlock(blocks', height', tasks')
  BY DEF TasksInv
<1>1. /\ ExecInv /\ ChainTypeOK /\ ChainTypeOK' /\ tasks \in Seq(Task)
      /\ (pc \in TaskPcs => tasks # <<>>)
  BY PlaceTypes DEF LoopTypeOK, TasksOK, Inv, ExecInv, ExecTypeOK
<1>2. Relaying => height \in 1..Latest
  BY DEF Relaying, PlaceOK
<1>3. pc \in TaskPcs => Relaying
  BY DEF Relaying, Past, IntervalCleaning, Cleaning, TaskPcs, SyncPcs, CleanPcs, BatchPcs
<1>4. CASE Monitor
  <2>1. /\ height \in 1..Latest /\ UNCHANGED <<height, blocks>>
        /\ tasks' = Found(blocks[height], Changed(blocks[height]))
    BY <1>4 DEF Monitor, Found
  <2>2. Changed(blocks[height]) \in BOOLEAN
    BY DEF Changed
  <2>3. OfBlock(blocks, height, tasks')
    BY <1>1, <2>1, <2>2, FoundOfBlock
  <2> QED
    BY <2>1, <2>3
<1>5. CASE DaemonStep /\ ~Monitor
  <2>1. \/ Relaying /\ UNCHANGED <<blocks, height>> /\ tasks' = tasks
        \/ pc \in TaskPcs /\ UNCHANGED <<blocks, height>> /\ tasks' = Tail(tasks)
    BY <1>5, LoopTasks
  <2>2. OfBlock(blocks, height, tasks)
    BY <1>3, <2>1 DEF TasksInv
  <2>3. pc \in TaskPcs => OfBlock(blocks, height, Tail(tasks))
    BY <1>1, <2>2, TailOfBlock
  <2> QED
    BY <2>1, <2>2, <2>3
<1>6. CASE ExecutorStep
  <2>1. SubroutineStep /\ UNCHANGED daemonVars
    BY <1>6 DEF ExecutorStep, CallStep, SubroutineStep
  <2>2. Relaying /\ UNCHANGED <<blocks, height, tasks>>
    BY <1>1, <2>1, SubroutineStays DEF daemonVars
  <2> QED
    BY <2>2 DEF TasksInv
<1>7. CASE EnvStep \/ UNCHANGED vars
  <2>1. /\ UNCHANGED <<height, tasks, pc, syncRet, cleanRet>>
        /\ ProduceBlock \/ UNCHANGED blocks
    BY <1>7 DEF EnvStep, EnvOnly, MineTx, RivalDelivers, DropTx, execVars, syncVars, cleanVars,
       daemonVars, vars, chainVars
  <2>2. BlocksKept /\ Relaying
    BY <1>1, <2>1, BlocksStay DEF Relaying, Past, IntervalCleaning, Cleaning
  <2>3. height \in 1..Latest /\ OfBlock(blocks, height, tasks)
    BY <1>2, <2>2 DEF TasksInv
  <2> QED
    BY <1>1, <2>1, <2>2, <2>3, OfBlockStays
<1>8. CASE Crash
  BY <1>8 DEF Crash, Relaying, Past, TaskPcs, SyncPcs, Cleaning, CleanPcs
<1> QED
  BY <1>4, <1>5, <1>6, <1>7, <1>8 DEF Next, RelayerStep

\* What is known of the walk before its packages are counted.
WalkSafe == SafeInv /\ WalkInv /\ SetInv /\ BlocksAnnounce /\ TasksInv

LEMMA WalkSafeNext == WalkSafe /\ [Next]_vars => WalkSafe'
<1> SUFFICES ASSUME WalkSafe, [Next]_vars PROVE WalkSafe'
  OBVIOUS
<1>1. SafeInv' /\ WalkInv' /\ SetInv'
  BY NextInv, FreshNext, PlaceStep, CleanupNext, WalkStep, SetStep DEF WalkSafe, SafeInv
<1>2. ProduceBlock \/ UNCHANGED blocks
  <2>1. CASE RelayerStep \/ Crash
    BY <2>1, LoopFrame, SubroutineReturns DEF RelayerStep, ExecutorStep, CallStep, SubroutineStep,
       WalkSafe, SafeInv, Inv
  <2>2. CASE EnvStep \/ UNCHANGED vars
    BY <2>2 DEF EnvStep, EnvOnly, MineTx, RivalDelivers, DropTx, vars, chainVars
  <2> QED
    BY <2>1, <2>2 DEF Next
<1>3. BlocksAnnounce'
  BY <1>2, AnnouncedNext DEF WalkSafe, SafeInv, Inv
<1>4. TasksInv'
  BY <1>1, TasksStep DEF WalkSafe, SafeInv
<1> QED
  BY <1>1, <1>3, <1>4 DEF WalkSafe

LEMMA WalkSafeInitially == Init => WalkSafe
<1> SUFFICES ASSUME Init PROVE WalkSafe
  OBVIOUS
<1>1. SafeInv
  BY SafeInitially
<1>2. WalkInv /\ SetInv
  BY SetsInitially
<1>3. BlocksAnnounce
  BY AnnouncedInitially DEF Init
<1>4. TasksInv
  BY DEF Init, Boot, TasksInv, Relaying, Past, TaskPcs, SyncPcs, Cleaning, CleanPcs
<1> QED
  BY <1>1, <1>2, <1>3, <1>4 DEF WalkSafe

-------------------------------------------------------------------------------
(* What the walk has left behind *)

\* s expects the packages of every monitored channel up to block h.
CoversTo(s, chain, h) == \A c \in Monitored : Got(s, c) >= SeqOn(chain, c, h)

\* What of them it does not expect yet is a task in ts.
CoversBut(s, chain, h, ts) ==
  \A c \in Monitored : \A n \in 0..(SeqOn(chain, c, h) - 1) :
    n < Got(s, c) \/ \E i \in 1..Len(ts) : ts[i].chan = c /\ ts[i].seq = n

LEMMA CoversOn ==
  ASSUME AccountInv, AccountInv', AccountStep, OneView, OneView', BlocksKept,
         NEW h \in Nat, h <= Latest
  PROVE  /\ CoversTo(Pending, blocks, h) => CoversTo(Pending', blocks', h)
         /\ \A ts : CoversBut(Pending, blocks, h, ts) => CoversBut(Pending', blocks', h, ts)
<1>1. CoversTo(Pending, blocks, h) => CoversTo(Pending', blocks', h)
  BY CoveredOn DEF CoversTo, Covered
<1>2. ASSUME NEW ts, CoversBut(Pending, blocks, h, ts), NEW c \in Monitored,
             NEW n \in 0..(SeqOn(blocks', c, h) - 1)
      PROVE  n < Got(Pending', c) \/ \E i \in 1..Len(ts) : ts[i].chan = c /\ ts[i].seq = n
  <2>1. SeqOn(blocks', c, h) = SeqOn(blocks, c, h)
    BY CountersStay DEF AccountInv
  <2>2. n < Got(Pending, c) \/ \E i \in 1..Len(ts) : ts[i].chan = c /\ ts[i].seq = n
    BY <1>2, <2>1 DEF CoversBut
  <2>3. Got(Pending, c) \in Nat /\ Got(Pending', c) \in Nat /\ Got(Pending, c) <= Got(Pending', c)
    BY PendingGrows, GotGrows
  <2>4. n < Got(Pending, c) => n < Got(Pending', c)
    BY <2>3
  <2> QED
    BY <2>2, <2>4
<1> QED
  BY <1>1, <1>2 DEF CoversBut

LEMMA CoversAll ==
  ASSUME NEW s \in ContractState, NEW chain, NEW h, \A c : SeqOn(chain, c, h) \in Nat,
         NEW ts, ts = <<>> \/ ts = <<PureHeader>>, CoversBut(s, chain, h, ts)
  PROVE  CoversTo(s, chain, h)
<1> SUFFICES ASSUME NEW c \in Monitored, ~(Got(s, c) >= SeqOn(chain, c, h)) PROVE FALSE
  BY DEF CoversTo
<1>1. Got(s, c) \in Nat /\ SeqOn(chain, c, h) \in Nat
  BY DEF Got, ContractState
<1>2. Got(s, c) \in 0..(SeqOn(chain, c, h) - 1) /\ ~(Got(s, c) < Got(s, c))
  BY <1>1
<1>3. PICK i \in 1..Len(ts) : ts[i].chan = c
  BY <1>2 DEF CoversBut
<1>4. ts = <<PureHeader>>
  BY <1>3
<1>5. i = 1 /\ ts[1] = PureHeader
  BY <1>3, <1>4
<1>6. c = -1
  BY <1>3, <1>5 DEF PureHeader
<1> QED
  BY <1>6, ExecutorAssumption DEF Monitored

LEMMA CoversTail ==
  ASSUME NEW s, NEW chain, NEW h, NEW ts \in Seq(Task), ts # <<>>, CoversBut(s, chain, h, ts),
         Head(ts).chan \in Monitored => Head(ts).seq < Got(s, Head(ts).chan)
  PROVE  CoversBut(s, chain, h, Tail(ts))
<1> SUFFICES ASSUME NEW c \in Monitored, NEW n \in 0..(SeqOn(chain, c, h) - 1), ~(n < Got(s, c))
             PROVE  \E i \in 1..Len(Tail(ts)) : Tail(ts)[i].chan = c /\ Tail(ts)[i].seq = n
  BY DEF CoversBut
<1>1. PICK i \in 1..Len(ts) : ts[i].chan = c /\ ts[i].seq = n
  BY DEF CoversBut
<1>2. /\ Len(ts) \in Nat \ {0} /\ Len(Tail(ts)) = Len(ts) - 1 /\ Head(ts) = ts[1]
      /\ \A j \in 1..Len(Tail(ts)) : Tail(ts)[j] = ts[j + 1]
  BY TailTypes
<1>3. i # 1
  BY <1>1, <1>2
<1>4. i - 1 \in 1..Len(Tail(ts)) /\ (i - 1) + 1 = i
  BY <1>2, <1>3
<1>5. Tail(ts)[i - 1] = ts[i]
  BY <1>2, <1>4
<1> QED
  BY <1>1, <1>4, <1>5

\* The next task of a monitored channel is one BSC expects, or expected.
LEMMA HeadExpected ==
  ASSUME NEW s \in ContractState, NEW chain, NEW h, \A c : SeqOn(chain, c, h) \in Nat,
         NEW ts \in Seq(Task), ts # <<>>, CoversBut(s, chain, h, ts), OfBlock(chain, h, ts),
         Head(ts).chan \in Monitored, Head(ts).seq < SeqOn(chain, Head(ts).chan, h)
  PROVE  Head(ts).seq <= Got(s, Head(ts).chan)
<1> DEFINE c == Head(ts).chan
           n == Got(s, c)
<1>1. n \in Nat /\ SeqOn(chain, c, h) \in Nat /\ Head(ts).seq \in Nat
  <2>1. Head(ts) \in Task
    BY HeadTailProperties
  <2> QED
    BY <2>1 DEF Got, ContractState, Task
<1>2. Len(ts) \in Nat \ {0} /\ Head(ts) = ts[1]
  BY TailTypes
<1> SUFFICES ASSUME n < Head(ts).seq PROVE FALSE
  BY <1>1
<1>3. n \in 0..(SeqOn(chain, c, h) - 1) /\ ~(n < n)
  BY <1>1
<1>4. PICK i \in 1..Len(ts) : ts[i].chan = c /\ ts[i].seq = n
  BY <1>3 DEF CoversBut
<1>5. i # 1
  BY <1>1, <1>2, <1>4
<1>6. 1 \in 1..Len(ts) /\ 1 < i
  BY <1>2, <1>5
<1>7. ts[1].seq < ts[i].seq
  BY <1>2, <1>4, <1>6 DEF OfBlock, Ascending
<1> QED
  BY <1>1, <1>2, <1>4, <1>7

\* All blocks below the daemon's height are done with, but for the cleanup at
\* boot; and the tasks of the block it relays are what is left of it.
CoverOK ==
  /\ ~StartCleaning => CoversTo(Pending, blocks, height - 1)
  /\ Relaying => CoversBut(Pending, blocks, height, tasks)
CoverInv == NothingWrong /\ ~capped => CoverOK

\* With a fresh nonce no provider refuses a task's package.
LEMMA TaskSucceeds ==
  ASSUME Inv, FreshInv, TaskSend, NothingWrong'
  PROVE  Submit(TaskTx)
<1>1. PICK ok \in BOOLEAN : Broadcast(TaskTx, ok)
  BY DEF TaskSend, TaskTx
<1>2. NothingWrong /\ NoFault
  BY <1>1, NothingWrongBefore DEF Broadcast
<1>3. IsPendingNonce(nonce)
  <2>1. NonceFresh /\ OneView
    BY <1>2, FreshNonce DEF Inv, FreshInv, ExecInv, ExecTypeOK, NothingWrong, OneView
  <2> QED
    BY <2>1 DEF NonceFresh, TaskSend
<1>4. acctNonce \in Nat /\ nonce \in Nat /\ TaskTx.nonce = nonce
  BY TaskTxType DEF Inv, ExecInv, ExecTypeOK, ChainTypeOK
<1>5. ~Refused(TaskTx)
  BY <1>3, <1>4 DEF Refused, IsPendingNonce
<1>6. \A k : ~Fault(k)
  BY <1>2 DEF Fault, NothingWrong, NoFault, faultVars
<1> QED
  BY <1>1, <1>5, <1>6 DEF Broadcast

\* What a step of the account leaves of the walk.
LEMMA WalkTypes ==
  ASSUME WalkSafe, NothingWrong
  PROVE  /\ Inv /\ ExecInv /\ AccountInv /\ PlaceOK /\ TasksInv /\ SmoothInv /\ OneView
         /\ Pending \in ContractState /\ HeadersPending /\ CleanInv
         /\ Latest \in Nat /\ height \in 1..(Latest + 1)
         /\ startHeight \in 1..Latest /\ startHeight <= height
         /\ height - 1 \in Nat /\ height - 1 <= Latest
         /\ (height <= Latest => Inc(height) = height + 1)
         /\ tasks \in Seq(Task) /\ (pc \in TaskPcs => tasks # <<>>)
         /\ \A c, h : SeqOn(blocks, c, h) \in Nat
<1>1. /\ Inv /\ ExecInv /\ AccountInv /\ PlaceOK /\ TasksInv /\ SmoothInv /\ OneView
      /\ HeadersPending /\ CleanInv /\ ChainTypeOK
  BY PlaceTypes DEF WalkSafe, SafeInv, CleanupInv, NothingWrong, OneView
<1>2. Pending \in ContractState
  BY <1>1, PendingType DEF AccountInv, FreshInv
<1>3. /\ Latest \in Nat /\ height \in Nat /\ (height <= Latest => Inc(height) = height + 1)
      /\ tasks \in Seq(Task) /\ (pc \in TaskPcs => tasks # <<>>)
  BY <1>1, PlaceTypes DEF LoopTypeOK, TasksOK
<1>4. SetOK /\ WalkOK
  BY DEF WalkSafe, SetInv, WalkInv, NothingWrong, Calm
<1>5. startHeight \in 1..Latest /\ startHeight <= height /\ height <= Latest + 1
  BY <1>4 DEF SetOK, WalkOK
<1>6. height \in 1..(Latest + 1) /\ height - 1 \in Nat /\ height - 1 <= Latest
  BY <1>3, <1>5
<1>7. \A c, h : SeqOn(blocks, c, h) \in Nat
  BY <1>1, SeqAtType DEF SeqAt
<1> QED
  BY <1>1, <1>2, <1>3, <1>5, <1>6, <1>7

LEMMA WalkTypesNext ==
  ASSUME WalkSafe', NothingWrong'
  PROVE  AccountInv' /\ OneView' /\ Pending' \in ContractState
<1>1. ChainTypeOK' /\ PoolSent' /\ FreshInv' /\ OneView'
  BY DEF WalkSafe, SafeInv, Inv, ExecInv, ExecTypeOK, NothingWrong, OneView
<1> QED
  BY <1>1, PendingTypeNext DEF AccountInv, FreshInv

\* The daemon stays at its height.
LEMMA CoverStays ==
  ASSUME WalkSafe, WalkSafe', NothingWrong, NothingWrong', CoverOK, AccountStep, BlocksKept,
         UNCHANGED height, StartCleaning => StartCleaning', Relaying' => Relaying /\ UNCHANGED tasks
  PROVE  CoverOK'
<1>1. AccountInv /\ AccountInv' /\ OneView /\ OneView' /\ Latest \in Nat
      /\ height - 1 \in Nat /\ height - 1 <= Latest /\ (Relaying => height \in 1..Latest)
  BY WalkTypes, WalkTypesNext DEF PlaceOK, Relaying
<1>2. Relaying => height \in Nat /\ height <= Latest
  BY <1>1
<1>3. ~StartCleaning' => CoversTo(Pending', blocks', height - 1)
  BY <1>1, CoversOn DEF CoverOK
<1>4. Relaying' => CoversBut(Pending', blocks', height, tasks)
  <2> SUFFICES ASSUME Relaying' PROVE CoversBut(Pending', blocks', height, tasks)
    OBVIOUS
  <2>1. CoversBut(Pending, blocks, height, tasks) /\ height \in Nat /\ height <= Latest
    BY <1>2 DEF CoverOK
  <2> QED
    BY <1>1, <2>1, CoversOn
<1> QED
  BY <1>3, <1>4 DEF CoverOK

\* The daemon goes on above a block that is done with.
LEMMA CoverGoesOn ==
  ASSUME NEW h \in Nat, CoversTo(Pending', blocks', h), height' = h + 1, pc' = "top"
  PROVE  CoverOK'
<1>1. ~Relaying'
  BY DEF Relaying, Past, TaskPcs, SyncPcs, Cleaning, CleanPcs, BatchPcs
<1>2. height' - 1 = h
  OBVIOUS
<1> QED
  BY <1>1, <1>2 DEF CoverOK

\* A cleanup without an error has covered its height.
LEMMA CleanupCovers ==
  ASSUME WalkSafe, NothingWrong, ~capped, pc \in CleanedPcs
  PROVE  CoversTo(Pending, blocks, ch)
<1>1. ~err
  BY WalkTypes DEF SmoothInv
<1>2. CleanOK
  BY WalkTypes DEF CleanInv
<1> QED
  BY <1>1, <1>2 DEF CleanOK, Covered, CoversTo

\* The tasks found in a block are what is left of it.
LEMMA MonitorCovers ==
  ASSUME WalkSafe, NothingWrong, CoverOK, Monitor
  PROVE  CoversBut(Pending, blocks, height, tasks')
<1>1. /\ pc = "monitor" /\ height \in 1..Latest
      /\ tasks' = Found(blocks[height], Changed(blocks[height]))
  BY DEF Monitor, Found
<1>2. Changed(blocks[height]) \in BOOLEAN
  BY DEF Changed
<1>3. HasAll(blocks, height, tasks')
  <2>1. ChainTypeOK /\ BlocksAnnounce
    BY DEF WalkSafe, SafeInv, Inv, ExecInv, ExecTypeOK
  <2> QED
    BY <1>1, <1>2, <2>1, FoundOfBlock
<1>4. CoversTo(Pending, blocks, height - 1)
  BY <1>1 DEF CoverOK, StartCleaning, Cleaning, CleanPcs, BatchPcs, SyncPcs
<1> SUFFICES ASSUME NEW c \in Monitored, NEW n \in 0..(SeqOn(blocks, c, height) - 1),
                    ~(n < Got(Pending, c))
             PROVE  \E i \in 1..Len(tasks') : tasks'[i].chan = c /\ tasks'[i].seq = n
  BY DEF CoversBut
<1>5. SeqOn(blocks, c, height - 1) \in Nat /\ SeqOn(blocks, c, height) \in Nat
      /\ Got(Pending, c) \in Nat
  BY WalkTypes DEF Got, ContractState
<1>6. n \in SeqOn(blocks, c, height - 1)..(SeqOn(blocks, c, height) - 1)
  BY <1>4, <1>5 DEF CoversTo
<1>7. c \in Channels
  <2>1. SeqOn(blocks, c, height) # 0
    BY <1>5
  <2> QED
    BY <2>1 DEF SeqOn
<1> QED
  BY <1>3, <1>6, <1>7 DEF HasAll

LEMMA TaskPcsRelay ==
  ASSUME WalkSafe, NothingWrong, pc \in TaskPcs
  PROVE  /\ Relaying /\ height \in 1..Latest /\ OfBlock(blocks, height, tasks)
         /\ ~Cleaning /\ pc \notin CleanedPcs
<1>1. Relaying /\ ~Cleaning /\ pc \notin CleanedPcs
  BY DEF Relaying, Past, IntervalCleaning, Cleaning, CleanedPcs, TaskPcs, SyncPcs, CleanPcs, BatchPcs
<1> QED
  BY <1>1, WalkTypes DEF PlaceOK, Relaying, TasksInv

\* A package the loop sends is one BSC expects once the pool is executed.
LEMMA TaskDelivers ==
  ASSUME WalkSafe, WalkSafe', NothingWrong, NothingWrong', CoverOK, TaskSend,
         Head(tasks).chan \in Monitored
  PROVE  Head(tasks).seq < Got(Pending', Head(tasks).chan)
<1>1. /\ Inv /\ ExecInv /\ AccountInv /\ AccountInv' /\ OneView /\ OneView' /\ HeadersPending
      /\ tasks \in Seq(Task) /\ tasks # <<>> /\ pc \in TaskPcs /\ UNCHANGED bscVars
      /\ Pending \in ContractState /\ Pending' \in ContractState
      /\ \A c, h : SeqOn(blocks, c, h) \in Nat
  BY WalkTypes, WalkTypesNext DEF TaskSend, TaskPcs
<1>2. OfBlock(blocks, height, tasks) /\ CoversBut(Pending, blocks, height, tasks)
  BY <1>1, TaskPcsRelay DEF CoverOK
<1> DEFINE t == Head(tasks)
<1>3. Submit(TaskTx)
  BY <1>1, TaskSucceeds DEF AccountInv
<1>4. /\ TaskTx \in Tx /\ TaskTx.kind = "package" /\ TaskTx.chan = t.chan /\ TaskTx.seq = t.seq
      /\ TaskTx.hdr = TaskTx.at + 1 /\ HeaderSent(TaskTx.hdr) /\ t.chan \in Channels /\ t.seq \in Nat
      /\ t.seq < SeqOn(blocks, t.chan, height)
  BY <1>1, TaskTxType DEF SeqAt
<1>5. t.seq <= Got(Pending, t.chan)
  BY <1>1, <1>2, <1>4, HeadExpected
<1>6. t.seq + 1 <= Got(Pending', t.chan)
  BY <1>1, <1>3, <1>4, <1>5, PackageDelivers
<1>7. Got(Pending', t.chan) \in Nat
  BY <1>1 DEF Got, ContractState
<1> QED
  BY <1>4, <1>6, <1>7

\* A task that is dropped does not exist, or is expected by BSC from now on.
LEMMA TaskLeaves ==
  ASSUME WalkSafe, WalkSafe', NothingWrong, NothingWrong', CoverOK,
         TaskPkg \/ TaskNonce \/ TaskSend, NextTask
  PROVE  CoversBut(Pending', blocks', height, Tail(tasks)) /\ height \in 1..Latest
<1>1. /\ Inv /\ ExecInv /\ AccountInv /\ AccountInv' /\ OneView /\ OneView'
      /\ tasks \in Seq(Task) /\ tasks # <<>> /\ pc \in TaskPcs
      /\ \A c, h : SeqOn(blocks, c, h) \in Nat
  BY WalkTypes, WalkTypesNext DEF TaskPkg, TaskNonce, TaskSend, TaskPcs, WalkSafe, NothingWrong, OneView
<1>2. height \in 1..Latest /\ OfBlock(blocks, height, tasks)
      /\ CoversBut(Pending, blocks, height, tasks)
  BY <1>1, TaskPcsRelay DEF CoverOK
<1>3. CoversBut(Pending', blocks', height, tasks)
  <2>1. AccountStep /\ BlocksKept
    BY <1>1, LoopFrame, BlocksStay DEF DaemonStep
  <2>2. height \in Nat /\ height <= Latest
    BY <1>2, WalkTypes
  <2> QED
    BY <1>1, <1>2, <2>1, <2>2, CoversOn
<1> DEFINE t == Head(tasks)
<1>4. ASSUME t.chan \in Monitored PROVE t.seq < Got(Pending', t.chan)
  <2>1. ASSUME TaskPkg PROVE PackageExists(t.chan, t.seq, height)
    <3>1. t = PureHeader \/ (t.chan \in Channels
             /\ t.seq \in SeqOn(blocks, t.chan, height - 1)..(SeqOn(blocks, t.chan, height) - 1))
      <4>1. t = tasks[1] /\ 1 \in 1..Len(tasks)
        BY <1>1, TailTypes
      <4> QED
        BY <1>2, <4>1 DEF OfBlock
    <3>2. t # PureHeader
      BY <1>4, ExecutorAssumption DEF PureHeader, Monitored
    <3>3. SeqOn(blocks, t.chan, height - 1) \in Nat /\ SeqOn(blocks, t.chan, height) \in Nat
      BY <1>1
    <3> QED
      BY <3>1, <3>2, <3>3 DEF PackageExists, SeqAt
  <2>2. TaskSend
    <3>1. CASE TaskPkg
      BY <2>1, <3>1 DEF TaskPkg, NextTask, NextHeight, Fault, NothingWrong, TaskPcs
    <3>2. CASE TaskNonce
      BY <3>2 DEF TaskNonce, NextTask, NextHeight, Fault, NothingWrong, TaskPcs
    <3> QED
      BY <3>1, <3>2
  <2> QED
    BY <1>4, <2>2, TaskDelivers
<1> QED
  BY <1>1, <1>2, <1>3, <1>4, CoversTail

LEMMA LoopCover ==
  ASSUME WalkSafe, WalkSafe', NothingWrong, NothingWrong', ~capped, CoverOK, DaemonStep
  PROVE  CoverOK'
<1>1. /\ Inv /\ ExecInv /\ PlaceOK /\ AccountInv /\ AccountInv' /\ OneView /\ OneView'
      /\ Latest \in Nat /\ height - 1 \in Nat /\ height - 1 <= Latest
      /\ (height <= Latest => Inc(height) = height + 1)
  BY WalkTypes, WalkTypesNext
<1>2. AccountStep /\ BlocksKept /\ UNCHANGED <<blocks, bscVars>>
      /\ (~TaskSend => UNCHANGED <<pool, sent>>)
  BY <1>1, LoopFrame, BlocksStay
<1>3. ASSUME UNCHANGED height, StartCleaning => StartCleaning',
             Relaying' => Relaying /\ UNCHANGED tasks
      PROVE  CoverOK'
  BY <1>2, <1>3, CoverStays
<1>4. ASSUME NEW h \in Nat, h <= Latest, CoversTo(Pending, blocks, h), height' = h + 1, pc' = "top"
      PROVE  CoverOK'
  BY <1>1, <1>2, <1>4, CoversOn, CoverGoesOn
<1>5. /\ pc \notin CleanedPcs \cup CleanPcs \cup SyncPcs => ~StartCleaning /\ ~IntervalCleaning
      /\ pc \in TaskPcs \cup {"changeSynced", "dispatch", "blockSynced"} => Relaying
      /\ pc' \in {"top", "monitor"} => ~Relaying'
      /\ pc' = "cleanSeq" /\ cleanRet' # "none" => ~Relaying' \/ cleanRet' \notin CleanedPcs
  BY DEF StartCleaning, IntervalCleaning, Relaying, Past, Cleaning, TaskPcs, SyncPcs, CleanPcs,
     BatchPcs, CleanedPcs
<1>6. CASE Top \/ MonitorFails
  BY <1>3, <1>5, <1>6 DEF Top, MonitorFails, CallClean, daemonVars, CleanedPcs, CleanPcs, BatchPcs,
     SyncPcs
<1>7. CASE Monitor
  <2>1. /\ pc = "monitor" /\ UNCHANGED height /\ height \in 1..Latest
        /\ UNCHANGED <<pool, bscVars, blocks>>
        /\ pc' = "dispatch" \/ (pc' = "syncNonce" /\ syncRet' = "changeSynced")
    BY <1>7 DEF Monitor, CallSync
  <2>2. Pending' = Pending /\ CoversBut(Pending, blocks, height, tasks')
    BY <1>7, <2>1, PendingFrame, MonitorCovers
  <2>3. CoversTo(Pending, blocks, height - 1)
    BY <1>5, <2>1 DEF CoverOK, CleanedPcs, CleanPcs, BatchPcs, SyncPcs
  <2> QED
    BY <2>1, <2>2, <2>3 DEF CoverOK
<1>8. CASE ChangeSynced
  BY <1>3, <1>5, <1>8 DEF ChangeSynced, daemonVars, CleanedPcs, CleanPcs, BatchPcs, SyncPcs
<1>9. CASE Dispatch
  <2>1. pc = "dispatch" /\ Relaying /\ ~StartCleaning
    BY <1>5, <1>9 DEF Dispatch, CleanedPcs, CleanPcs, BatchPcs, SyncPcs
  <2>2. height \in 1..Latest /\ CoversBut(Pending, blocks, height, tasks)
    BY <1>1, <2>1 DEF CoverOK, PlaceOK, Relaying
  <2>3. CASE CallClean(height, "intervalCleaned") /\ UNCHANGED height
    <3>1. ~Relaying'
      BY <1>5, <2>3 DEF CallClean, CleanedPcs
    <3> QED
      BY <1>3, <2>1, <2>3, <3>1
  <2>4. CASE NoPackages /\ NextHeight(height)
    <3>1. CoversTo(Pending, blocks, height)
      BY <2>2, <2>4, WalkTypes, CoversAll DEF NoPackages
    <3>2. height \in Nat /\ height <= Latest /\ height' = height + 1 /\ pc' = "top"
      BY <1>1, <2>2, <2>4 DEF NextHeight
    <3> QED
      BY <1>4, <3>1, <3>2
  <2>5. CASE CallSync(Inc(height), "blockSynced") /\ UNCHANGED <<height, tasks>>
    BY <1>3, <2>1, <2>5
  <2> QED
    BY <1>9, <2>3, <2>4, <2>5 DEF Dispatch
<1>10. CASE BlockSynced
  BY <1>3, <1>5, <1>10 DEF BlockSynced, CleanedPcs, CleanPcs, BatchPcs, SyncPcs
<1>11. CASE TaskPkg \/ TaskNonce \/ TaskSend
  <2>1. pc \in TaskPcs /\ Relaying /\ ~StartCleaning
    BY <1>5, <1>11 DEF TaskPkg, TaskNonce, TaskSend, TaskPcs, CleanedPcs, CleanPcs, BatchPcs, SyncPcs
  <2>2. CASE UNCHANGED <<tasks, height>>
    BY <1>3, <2>1, <2>2
  <2>3. CASE NextTask
    <3>1. CoversBut(Pending', blocks', height, Tail(tasks)) /\ height \in 1..Latest
      BY <1>11, <2>3, TaskLeaves
    <3>2. tasks \in Seq(Task) /\ tasks # <<>> /\ Tail(tasks) \in Seq(Task)
          /\ Len(tasks) \in Nat \ {0} /\ Len(Tail(tasks)) = Len(tasks) - 1
      BY <2>1, WalkTypes, TailTypes
    <3>3. CASE tasks' = Tail(tasks) /\ UNCHANGED height
      <4>1. CoversTo(Pending', blocks', height - 1)
        BY <1>1, <1>2, <2>1, CoversOn DEF CoverOK
      <4> QED
        BY <3>1, <3>3, <4>1 DEF CoverOK
    <3>4. CASE Len(tasks) <= 1 /\ NextHeight(height)
      <4>1. Tail(tasks) = <<>>
        BY <3>2, <3>4, EmptySeq
      <4>2. Pending' \in ContractState /\ \A c, h : SeqOn(blocks', c, h) \in Nat
        BY <1>2, WalkTypes, WalkTypesNext
      <4>3. CoversTo(Pending', blocks', height)
        BY <3>1, <4>1, <4>2, CoversAll
      <4>4. height \in Nat /\ height' = height + 1 /\ pc' = "top"
        BY <1>1, <3>1, <3>4 DEF NextHeight
      <4> QED
        BY <4>3, <4>4, CoverGoesOn
    <3> QED
      BY <2>3, <3>3, <3>4 DEF NextTask
  <2> QED
    BY <1>11, <2>2, <2>3 DEF TaskPkg, TaskNonce, TaskSend
<1>12. CASE StartCleaned
  <2>1. /\ StartCleaning /\ pc = "startCleaned" /\ pc' = "top" /\ UNCHANGED <<height, pool>>
    BY <1>12 DEF StartCleaned, StartCleaning, daemonVars
  <2>2. ch = height /\ height \in 1..Latest
    BY <1>1, <2>1 DEF PlaceOK
  <2>3. CoversTo(Pending, blocks, height)
    BY <2>1, <2>2, CleanupCovers DEF CleanedPcs
  <2>4. CoversTo(Pending, blocks, height - 1)
    <3>1. height - 1 <= height /\ Pending \in ContractState
      BY <2>2, WalkTypes
    <3> QED
      BY <1>1, <2>2, <2>3, <3>1, CoveredBelow DEF CoversTo, Covered
  <2>5. CoversTo(Pending', blocks', height - 1) /\ ~Relaying'
    BY <1>1, <1>2, <1>5, <2>1, <2>4, CoversOn
  <2> QED
    BY <2>1, <2>5 DEF CoverOK
<1>13. CASE SkipCleaned \/ IntervalCleaned
  <2>1. pc \in {"skipCleaned", "intervalCleaned"} /\ CoversTo(Pending, blocks, ch)
    BY <1>13, CleanupCovers DEF SkipCleaned, IntervalCleaned, CleanedPcs
  <2>2. ch \in Nat /\ ch <= Latest /\ (IntervalCleaned => ch = height)
    <3>1. ch \in Nat
      BY <1>1, PlaceTypes
    <3>2. ch <= Latest
      <4>1. CASE SkipCleaned
        BY <4>1 DEF SkipCleaned, Skipping, WalkSafe, WalkInv, WalkOK, NothingWrong, Calm
      <4>2. CASE IntervalCleaned
        BY <1>1, <4>2 DEF IntervalCleaned, IntervalCleaning, Past, PlaceOK
      <4> QED
        BY <1>13, <4>1, <4>2
    <3>3. IntervalCleaned => ch = height
      BY <1>1 DEF IntervalCleaned, IntervalCleaning, PlaceOK
    <3> QED
      BY <3>1, <3>2, <3>3
  <2>3. height' = ch + 1 /\ pc' = "top"
    <3>1. Inc(ch) = ch + 1
      BY <1>1, <2>2, PlaceTypes
    <3> QED
      BY <1>13, <2>2, <3>1 DEF SkipCleaned, IntervalCleaned, NextHeight
  <2> QED
    BY <1>4, <2>1, <2>2, <2>3
<1> QED
  BY <1>6, <1>7, <1>8, <1>9, <1>10, <1>11, <1>12, <1>13 DEF DaemonStep

LEMMA SubroutineUncapped ==
  ASSUME ExecInv, SubroutineStep
  PROVE  ~capped' => ~capped
<1>1. CASE CleanDeliver
  <2>1. \/ \E d : Undelivered(d)
        \/ UNCHANGED capped
    BY <1>1 DEF CleanDeliver, NothingNew
  <2>2. \A d : Undelivered(d) => (capped => capped')
    BY DEF Undelivered
  <2> QED
    BY <2>1, <2>2
<1>2. CASE ~CleanDeliver
  BY <1>2 DEF SubroutineStep, SyncNonce, SyncQuery, QueryTendermintHeader, SyncSend, CleanSeq,
       CleanSynced, BatchNonce,
     BatchPkg, BatchSend
<1> QED
  BY <1>1, <1>2

\* The loop stays where it is: a step of a subroutine, or of the environment.
Unnoticed ==
  /\ NothingWrong /\ (~capped' => ~capped) /\ UNCHANGED daemonVars /\ AccountStep /\ BlocksKept
  /\ (Relaying' => Relaying) /\ (StartCleaning' <=> StartCleaning)

LEMMA UnnoticedStep ==
  ASSUME WalkSafe, [ExecutorStep \/ EnvStep]_vars, NothingWrong'
  PROVE  Unnoticed
<1>1. ExecInv
  BY DEF WalkSafe, SafeInv, Inv
<1>2. CASE ExecutorStep
  <2>1. SubroutineStep /\ UNCHANGED daemonVars
    BY <1>2 DEF ExecutorStep, CallStep, SubroutineStep
  <2>2. NothingWrong
    BY <2>1, LoopFaults, NothingWrongBefore
  <2> QED
    BY <1>1, <2>1, <2>2, SubroutineStays, SubroutineAccount, SubroutineUncapped, BlocksStay
    DEF Unnoticed
<1>3. CASE EnvStep \/ UNCHANGED vars
  <2>1. /\ UNCHANGED <<daemonVars, capped, pc, syncRet, cleanRet>>
        /\ ProduceBlock \/ UNCHANGED blocks
        /\ AccountStep
    BY <1>3 DEF EnvStep, EnvOnly, ProduceBlock, MineTx, RivalDelivers, DropTx, execVars, vars,
       chainVars, AccountStep, bscVars
  <2>2. NothingWrong
    BY <1>3, NothingWrongBefore DEF EnvStep, EnvOnly, ProduceBlock, MineTx, RivalDelivers, DropTx,
       vars, chainVars, NoFault, faultVars, NothingWrong
  <2>3. BlocksKept
    BY <1>1, <2>1, BlocksStay
  <2>4. (Relaying' <=> Relaying) /\ (StartCleaning' <=> StartCleaning)
    BY <2>1 DEF Relaying, StartCleaning, IntervalCleaning, Past, Cleaning
  <2> QED
    BY <2>1, <2>2, <2>3, <2>4 DEF Unnoticed
<1> QED
  BY <1>2, <1>3

LEMMA CoverStep ==
  ASSUME WalkSafe, WalkSafe', CoverInv, [Next]_vars
  PROVE  CoverInv'
<1> SUFFICES ASSUME NothingWrong', ~capped' PROVE CoverOK'
  BY DEF CoverInv
<1>1. CASE DaemonStep
  <2>1. NothingWrong /\ ~capped
    BY <1>1, LoopFaults, NothingWrongBefore, LoopFrame DEF WalkSafe, SafeInv
  <2> QED
    BY <1>1, <2>1, LoopCover DEF CoverInv
<1>2. CASE ExecutorStep \/ EnvStep \/ UNCHANGED vars
  <2>1. Unnoticed
    BY <1>2, UnnoticedStep
  <2> QED
    BY <2>1, CoverStays DEF Unnoticed, CoverInv, daemonVars
<1>3. CASE Crash
  BY <1>3 DEF Crash, Fault, NothingWrong
<1> QED
  BY <1>1, <1>2, <1>3 DEF Next, RelayerStep

LEMMA CoverSafety == Spec => [](WalkSafe /\ CoverInv)
<1>1. Init => WalkSafe /\ CoverInv
  <2> SUFFICES ASSUME Init PROVE CoverInv
    BY WalkSafeInitially
  <2>1. StartCleaning /\ ~Relaying
    BY DEF Init, Boot, StartCleaning, Relaying, Past, TaskPcs, SyncPcs, Cleaning, CleanPcs
  <2> QED
    BY <2>1 DEF CoverInv, CoverOK
<1>2. WalkSafe /\ CoverInv /\ [Next]_vars => WalkSafe' /\ CoverInv'
  BY WalkSafeNext, CoverStep
<1> QED
  BY <1>1, <1>2, PTL DEF Spec

\* For any channels, blocks and rivals: while nothing goes wrong and no backlog
\* exceeds a batch, every package of a monitored channel below the daemon's
\* height was delivered or submitted, whether the daemon walked its block,
\* cleaned up there or jumped over it.
THEOREM NothingSkipped == Spec => []NoSilentSkip
<1>1. WalkSafe /\ CoverInv => NoSilentSkip
  <2> SUFFICES ASSUME WalkSafe, CoverInv, NothingWrong, ~capped, height > startHeight,
                      NEW c \in Monitored, NEW s \in 0..(SeqAt(c, height - 1) - 1)
               PROVE  s < recv[c] \/ PackageSent(c, s)
    BY DEF NoSilentSkip
  <2>1. AccountInv /\ OneView /\ PlaceOK /\ height \in Nat /\ startHeight \in Nat
        /\ Pending \in ContractState /\ SeqOn(blocks, c, height - 1) \in Nat
    BY WalkTypes
  <2>2. ~StartCleaning
    BY <2>1 DEF PlaceOK
  <2>3. Got(Pending, c) >= SeqOn(blocks, c, height - 1)
    BY <2>2 DEF CoverInv, CoverOK, CoversTo
  <2>4. s \in Nat /\ s < Got(Pending, c)
    BY <2>1, <2>3 DEF SeqAt, Got, ContractState
  <2> QED
    BY <2>1, <2>4, MissingSent
<1> QED
  BY <1>1, CoverSafety, PTL

-------------------------------------------------------------------------------
(* The abstract delivery *)

\* The task the loop sends is one whose turn has come.
LEMMA TaskInTurn ==
  ASSUME WalkSafe, NothingWrong, CoverOK, TaskSend, Head(tasks).chan \in Relayed
  PROVE  InTurn(TaskTx)
<1>1. /\ Inv /\ ExecInv /\ tasks \in Seq(Task) /\ tasks # <<>> /\ pc \in TaskPcs
      /\ Pending \in ContractState /\ \A c, h : SeqOn(blocks, c, h) \in Nat
  BY WalkTypes DEF TaskSend, TaskPcs
<1>2. OfBlock(blocks, height, tasks) /\ CoversBut(Pending, blocks, height, tasks)
      /\ height \in 1..Latest
  BY <1>1, TaskPcsRelay DEF CoverOK
<1> DEFINE t == Head(tasks)
<1>3. /\ TaskTx.chan = t.chan /\ TaskTx.seq = t.seq /\ t.seq \in Nat
      /\ TaskTx.hdr = TaskTx.at + 1 /\ HeaderSent(TaskTx.hdr)
      /\ t.seq < SeqAt(t.chan, height)
  BY <1>1, TaskTxType
<1>4. t.chan \in Monitored /\ t.seq < SeqOn(blocks, t.chan, height)
  BY <1>3 DEF SeqAt, Relayed
<1>5. t.seq <= Got(Pending, t.chan)
  BY <1>1, <1>2, <1>4, HeadExpected
<1>6. t.seq < SeqAt(t.chan, Latest)
  <2>1. SeqAt(t.chan, height) \in Nat
    BY <1>1 DEF SeqAt
  <2>2. PackageExists(t.chan, t.seq, height)
    BY <1>3, <2>1 DEF PackageExists
  <2> QED
    BY <1>1, <2>2, StillExists
<1> QED
  BY <1>3, <1>5, <1>6 DEF InTurn

LEMMA LoopInTurn ==
  ASSUME WalkSafe, WalkSafe', NothingWrong, NothingWrong', CoverOK, DaemonStep
  PROVE  [D!Next]_(D!vars)
<1>1. /\ Inv /\ ExecInv /\ AccountInv /\ AccountInv' /\ OneView /\ OneView' /\ HeadersPending
  BY WalkTypes, WalkTypesNext
<1>2. UNCHANGED <<bscVars, blocks>> /\ (~TaskSend => UNCHANGED <<pool, sent>>)
  BY <1>1, LoopFrame
<1>3. CASE TaskSend
  <2>1. PICK ok \in BOOLEAN : Broadcast(TaskTx, ok)
    BY <1>3 DEF TaskSend, TaskTx
  <2>2. TaskTx \in Tx /\ (TaskTx.chan \in Relayed => InTurn(TaskTx))
    BY <1>1, <1>3, TaskTxType, TaskInTurn
  <2> QED
    BY <1>1, <1>2, <2>1, <2>2, BroadcastInTurn
<1>4. CASE ~TaskSend
  BY <1>1, <1>2, <1>4, EnvironmentDelivers
<1> QED
  BY <1>3, <1>4

LEMMA TurnStep ==
  ASSUME WalkSafe, WalkSafe', CoverInv, [Next]_vars, NothingWrong', ~capped'
  PROVE  [D!Next]_(D!vars)
<1>1. CASE DaemonStep
  <2>1. NothingWrong /\ ~capped
    BY <1>1, LoopFaults, NothingWrongBefore, LoopFrame DEF WalkSafe, SafeInv
  <2> QED
    BY <1>1, <2>1, LoopInTurn DEF CoverInv
<1>2. CASE ExecutorStep \/ EnvStep \/ UNCHANGED vars
  <2>1. NothingWrong
    BY <1>2, UnnoticedStep DEF Unnoticed
  <2>2. ExecInv /\ AccountInv /\ AccountInv' /\ OneView /\ OneView' /\ HeadersPending /\ CleanInv
    BY <2>1, WalkTypes, WalkTypesNext
  <2>3. CASE ExecutorStep
    BY <2>2, <2>3, SubroutineInTurn DEF ExecutorStep, CallStep, SubroutineStep
  <2>4. CASE EnvStep \/ UNCHANGED vars
    <3>1. ProduceBlock \/ MineTx \/ RivalDelivers \/ DropTx \/ UNCHANGED <<blocks, bscVars, pool, sent>>
      BY <2>4 DEF EnvStep, EnvOnly, vars, chainVars, bscVars
    <3> QED
      BY <2>2, <3>1, EnvironmentDelivers
  <2> QED
    BY <1>2, <2>3, <2>4
<1>3. CASE Crash
  BY <1>3 DEF Crash, Fault, NothingWrong
<1> QED
  BY <1>1, <1>2, <1>3 DEF Next, RelayerStep

\* The walk and the cleanups of competition mode implement the abstract
\* delivery until something fails or a backlog exceeds a batch, for any
\* channels, blocks and rivals: whatever is sent is sent in its turn.
THEOREM Implementation == Spec => SubmitsInTurn
<1>1. Init => D!Init
  BY DeliveryInitially DEF Init
<1>2. WalkSafe /\ WalkSafe' /\ CoverInv /\ [Next]_vars
        => [NothingWrong' /\ ~capped' => [D!Next]_(D!vars)]_vars
  BY TurnStep
<1> QED
  BY <1>1, <1>2, CoverSafety, PTL DEF Spec, SubmitsInTurn

-------------------------------------------------------------------------------
(* What is sent once *)

\* The block a package was sent from is below the daemon's height, is the one
\* it booted at or the one it cleans up at, or is the one whose tasks it
\* relays; then the package comes before the tasks that are left.
AtPlace(p) ==
  \/ p.at < height \/ p.at = startHeight
  \/ (Cleaning \/ pc \in CleanedPcs) /\ p.at = ch
  \/ /\ pc \in TaskPcs /\ p.at = height
     /\ \A i \in 1..Len(tasks) : tasks[i].chan = p.chan => p.seq < tasks[i].seq

Apart(p, q) ==
  p.chan = q.chan /\ p.seq = q.seq => p = q \/ (p.at = startHeight /\ q.at = startHeight)

OnceOK ==
  /\ OrderOK
  /\ \A p \in PackageTxs : AtPlace(p)
  /\ \A p, q \in PackageTxs : Apart(p, q)
OnceInv == NothingWrong /\ ~capped => OnceOK

\* A task that is left comes after the first one of its channel.
LEMMA TailAbove ==
  ASSUME NEW ts \in Seq(Task), ts # <<>>, Ascending(ts)
  PROVE  \A i \in 1..Len(Tail(ts)) :
           Tail(ts)[i].chan = Head(ts).chan => Head(ts).seq < Tail(ts)[i].seq
<1> TAKE i \in 1..Len(Tail(ts))
<1>1. /\ Len(ts) \in Nat \ {0} /\ Len(Tail(ts)) = Len(ts) - 1 /\ Head(ts) = ts[1]
      /\ Tail(ts)[i] = ts[i + 1]
  BY TailTypes
<1>2. 1 \in 1..Len(ts) /\ i + 1 \in 1..Len(ts) /\ 1 < i + 1
  BY <1>1
<1>3. ts[1].chan = ts[i + 1].chan => ts[1].seq < ts[i + 1].seq
  BY <1>2 DEF Ascending
<1> QED
  BY <1>1, <1>3

\* The walk goes on, from the same boot.
LEMMA GoesOn ==
  ASSUME WalkSafe, NothingWrong', DaemonStep \/ [ExecutorStep \/ EnvStep]_vars
  PROVE  height' >= height /\ UNCHANGED startHeight /\ height \in Nat
<1>1. Inv /\ WalkInv /\ height \in Nat
  BY PlaceTypes DEF WalkSafe, SafeInv
<1>2. [Next]_vars
  BY DEF Next, RelayerStep
<1>3. height' >= height
  BY <1>1, <1>2, WalkStep DEF NothingWrong, Calm
<1>4. UNCHANGED startHeight
  <2>1. CASE DaemonStep
    BY <1>1, <2>1, LoopKeeps
  <2>2. CASE ~DaemonStep
    BY <2>2 DEF ExecutorStep, CallStep, EnvStep, EnvOnly, daemonVars, vars
  <2> QED
    BY <2>1, <2>2
<1> QED
  BY <1>1, <1>3, <1>4

\* What lies below the daemon, or at the height of the boot, stays there.
LEMMA BelowStays ==
  ASSUME NEW p, p.at \in Nat, p.at < height \/ p.at = startHeight,
         height \in Nat, height' \in Nat, height' >= height, UNCHANGED startHeight
  PROVE  AtPlace(p)'
<1>1. p.at < height' \/ p.at = startHeight'
  OBVIOUS
<1> QED
  BY <1>1 DEF AtPlace

\* A step of the loop leaves what was sent in its place.
LEMMA LoopPlaces ==
  ASSUME WalkSafe, WalkSafe', NothingWrong, NothingWrong', DaemonStep,
         NEW p, p.at \in Nat, p.seq \in Nat, AtPlace(p)
  PROVE  AtPlace(p)'
<1>1. /\ Inv /\ PlaceOK /\ height' >= height /\ UNCHANGED startHeight
      /\ height \in Nat /\ height' \in Nat /\ Latest \in Nat
      /\ (height <= Latest => Inc(height) = height + 1)
  <2>1. height' >= height /\ UNCHANGED startHeight /\ height \in Nat
    BY GoesOn
  <2>2. Inv /\ PlaceOK /\ Latest \in Nat /\ (height <= Latest => Inc(height) = height + 1)
    BY WalkTypes
  <2>3. height' \in Nat
    BY DEF WalkSafe, SafeInv, Inv, TypeOK, Uint64
  <2> QED
    BY <2>1, <2>2, <2>3
<1>2. CASE p.at < height \/ p.at = startHeight
  BY <1>1, <1>2, BelowStays
<1>3. CASE (Cleaning \/ pc \in CleanedPcs) /\ p.at = ch
  <2>1. pc \in CleanedPcs /\ (StartCleaned \/ SkipCleaned \/ IntervalCleaned)
    BY <1>3 DEF Cleaning, CleanPcs, BatchPcs, SyncPcs, CleanedPcs, DaemonStep, Top, Monitor,
       MonitorFails, ChangeSynced, Dispatch, BlockSynced, TaskPkg, TaskNonce, TaskSend,
       StartCleaned, SkipCleaned, IntervalCleaned
  <2>2. CASE StartCleaned
    <3>1. p.at = startHeight
      BY <1>1, <1>3, <2>2 DEF StartCleaned, StartCleaning, PlaceOK
    <3> QED
      BY <1>1, <3>1, BelowStays
  <2>3. CASE SkipCleaned \/ IntervalCleaned
    <3>1. ch \in Nat /\ ch <= Latest
      <4>1. ch \in Nat
        BY <1>1, PlaceTypes
      <4>2. CASE SkipCleaned
        BY <4>1, <4>2 DEF SkipCleaned, Skipping, WalkSafe, WalkInv, WalkOK, NothingWrong, Calm
      <4>3. CASE IntervalCleaned
        BY <1>1, <4>1, <4>3 DEF IntervalCleaned, IntervalCleaning, Past, PlaceOK
      <4> QED
        BY <2>3, <4>2, <4>3
    <3>2. IntervalCleaned => height = ch
      BY <1>1 DEF IntervalCleaned, IntervalCleaning, PlaceOK
    <3>3. height' = ch + 1
      <4>1. Inc(ch) = ch + 1
        BY <1>1, <3>1, PlaceTypes
      <4> QED
        BY <2>3, <3>2, <4>1 DEF SkipCleaned, IntervalCleaned, NextHeight
    <3>4. p.at < height'
      BY <1>3, <3>1, <3>3
    <3> QED
      BY <3>4 DEF AtPlace
  <2> QED
    BY <2>1, <2>2, <2>3
<1>4. CASE /\ pc \in TaskPcs /\ p.at = height
           /\ \A i \in 1..Len(tasks) : tasks[i].chan = p.chan => p.seq < tasks[i].seq
  <2>1. /\ tasks \in Seq(Task) /\ tasks # <<>> /\ height <= Latest
        /\ (pc' \in TaskPcs /\ UNCHANGED <<tasks, height>>) \/ NextTask
    <3>1. tasks \in Seq(Task) /\ tasks # <<>>
      BY <1>4, WalkTypes
    <3>2. height <= Latest
      BY <1>1, <1>4 DEF PlaceOK, Past
    <3>3. TaskPkg \/ TaskNonce \/ TaskSend
      BY <1>4 DEF TaskPcs, DaemonStep, Top, Monitor, MonitorFails, ChangeSynced, Dispatch,
         BlockSynced, StartCleaned, SkipCleaned, IntervalCleaned
    <3> QED
      BY <3>1, <3>2, <3>3 DEF TaskPkg, TaskNonce, TaskSend, TaskPcs
  <2>2. CASE pc' \in TaskPcs /\ UNCHANGED <<tasks, height>>
    BY <1>4, <2>2 DEF AtPlace
  <2>3. CASE tasks' = Tail(tasks) /\ pc' = "taskPkg" /\ UNCHANGED height
    <3>1. \A i \in 1..Len(Tail(tasks)) : i + 1 \in 1..Len(tasks) /\ Tail(tasks)[i] = tasks[i + 1]
      BY <2>1, TailTypes
    <3>2. \A i \in 1..Len(Tail(tasks)) : Tail(tasks)[i].chan = p.chan => p.seq < Tail(tasks)[i].seq
      BY <1>4, <3>1
    <3> QED
      BY <1>4, <2>3, <3>2 DEF AtPlace, TaskPcs
  <2>4. CASE NextHeight(height)
    <3>1. p.at < height'
      BY <1>1, <1>4, <2>1, <2>4 DEF NextHeight
    <3> QED
      BY <3>1 DEF AtPlace
  <2> QED
    BY <2>1, <2>2, <2>3, <2>4 DEF NextTask
<1> QED
  BY <1>2, <1>3, <1>4 DEF AtPlace

\* A subroutine that cleans up goes on, or returns from the cleanup.
LEMMA CleaningOn ==
  ASSUME ExecInv, SubroutineStep
  PROVE  /\ pc \in SyncPcs \cup CleanPcs /\ UNCHANGED ch
         /\ Cleaning => Cleaning' \/ pc' \in CleanedPcs
<1>1. pc \in SyncPcs \cup CleanPcs /\ UNCHANGED ch
  BY SubroutineReturns, SubroutineStays
<1>2. ASSUME Cleaning PROVE Cleaning' \/ pc' \in CleanedPcs
  <2>1. CASE SyncNonce \/ SyncQuery \/ SyncSend
    <3>1. syncRet = "cleanSynced" /\ ((pc' \in SyncPcs /\ UNCHANGED syncRet) \/ pc' = syncRet)
      BY <1>2, <2>1 DEF SyncNonce, SyncQuery, QueryTendermintHeader, SyncSend, ReturnSync,
           Cleaning, CleanPcs, BatchPcs,
         SyncPcs, syncVars
    <3> QED
      BY <3>1 DEF Cleaning, CleanPcs
  <2>2. CASE ~(SyncNonce \/ SyncQuery \/ SyncSend)
    <3>1. CleanupFrame
      BY <2>2, CleanupSteps DEF SubroutineStep
    <3>2. cleanRet \in CleanedPcs
      BY <1>2 DEF ExecInv, ControlOK
    <3> QED
      BY <3>1, <3>2 DEF CleanupFrame, Cleaning, SyncPcs
  <2> QED
    BY <2>1, <2>2
<1> QED
  BY <1>1, <1>2

\* A step of a subroutine or of the environment leaves what was sent in its place.
LEMMA OthersPlace ==
  ASSUME WalkSafe, WalkSafe', NothingWrong', [ExecutorStep \/ EnvStep]_vars,
         NEW p, p.at \in Nat, AtPlace(p)
  PROVE  AtPlace(p)'
<1>1. UNCHANGED <<height, tasks, startHeight>> /\ ExecInv
  BY DEF ExecutorStep, CallStep, EnvStep, EnvOnly, daemonVars, vars, WalkSafe, SafeInv, Inv
<1>2. CASE ExecutorStep
  <2>1. SubroutineStep
    BY <1>2 DEF ExecutorStep, CallStep, SubroutineStep
  <2>2. /\ pc \in SyncPcs \cup CleanPcs /\ UNCHANGED ch
        /\ Cleaning => Cleaning' \/ pc' \in CleanedPcs
    BY <1>1, <2>1, CleaningOn
  <2>3. pc \notin CleanedPcs \cup TaskPcs
    BY <2>2 DEF SyncPcs, CleanPcs, BatchPcs, CleanedPcs, TaskPcs
  <2> QED
    BY <1>1, <2>2, <2>3 DEF AtPlace
<1>3. CASE EnvStep \/ UNCHANGED vars
  <2>1. UNCHANGED <<pc, syncRet, ch>>
    BY <1>3 DEF EnvStep, EnvOnly, execVars, vars
  <2>2. Cleaning' <=> Cleaning
    BY <2>1 DEF Cleaning
  <2> QED
    BY <1>1, <2>1, <2>2 DEF AtPlace
<1> QED
  BY <1>2, <1>3

\* What a task sends is in its place: its block is done with, or the tasks
\* left come after it.
LEMMA TaskPlaced ==
  ASSUME WalkSafe, NothingWrong, TaskSend, NEW t, t = TaskTx
  PROVE  AtPlace(t)'
<1>1. /\ Inv /\ PlaceOK /\ TasksInv /\ tasks \in Seq(Task) /\ tasks # <<>> /\ height \in Nat
      /\ Latest \in Nat /\ (height <= Latest => Inc(height) = height + 1)
  BY WalkTypes, PlaceTypes DEF TaskSend, TaskPcs
<1>2. t.chan = Head(tasks).chan /\ t.seq = Head(tasks).seq /\ t.at = height /\ height \in 1..Latest
  BY <1>1, TaskTxType
<1>3. Ascending(tasks)
  <2>1. Relaying
    BY DEF TaskSend, Relaying, Past, TaskPcs, IntervalCleaning, Cleaning, SyncPcs, CleanPcs, BatchPcs
  <2> QED
    BY <1>1, <2>1 DEF TasksInv, OfBlock
<1>4. CASE tasks' = Tail(tasks) /\ pc' = "taskPkg" /\ UNCHANGED height
  <2>1. \A i \in 1..Len(Tail(tasks)) : Tail(tasks)[i].chan = t.chan => t.seq < Tail(tasks)[i].seq
    BY <1>1, <1>2, <1>3, TailAbove
  <2> QED
    BY <1>2, <1>4, <2>1 DEF AtPlace, TaskPcs
<1>5. CASE NextHeight(height)
  <2>1. t.at < height'
    BY <1>1, <1>2, <1>5 DEF NextHeight
  <2> QED
    BY <2>1 DEF AtPlace
<1> QED
  BY <1>4, <1>5 DEF TaskSend, NextTask

\* And nothing sent from another block is like it.
LEMMA TaskApart ==
  ASSUME WalkSafe, NothingWrong, TaskSend, NEW t, t = TaskTx, NEW p \in PackageTxs, AtPlace(p)
  PROVE  Apart(p, t) /\ Apart(t, p)
<1> SUFFICES ASSUME p.chan = t.chan, p.seq = t.seq
             PROVE  p.at = startHeight /\ t.at = startHeight
  BY DEF Apart
<1>1. /\ Inv /\ ExecInv /\ TasksInv /\ tasks \in Seq(Task) /\ tasks # <<>> /\ height \in Nat
      /\ Latest \in Nat /\ startHeight \in 1..Latest /\ startHeight <= height
      /\ height - 1 \in Nat /\ height - 1 <= Latest
      /\ \A c, h : SeqOn(blocks, c, h) \in Nat
  BY WalkTypes, PlaceTypes DEF TaskSend, TaskPcs
<1>2. /\ t.chan = Head(tasks).chan /\ t.seq = Head(tasks).seq /\ t.at = height
      /\ t.chan \in Channels /\ t.seq \in Nat
  BY <1>1, TaskTxType
<1>3. Head(tasks) = tasks[1] /\ 1 \in 1..Len(tasks)
  BY <1>1, TailTypes
<1>4. ~(p.at < height)
  <2> SUFFICES ASSUME p.at < height PROVE FALSE
    OBVIOUS
  <2>1. p.at \in Nat /\ PackageExists(p.chan, p.seq, p.at)
    BY <1>1 DEF ExecInv, ExecTypeOK, ChainTypeOK, PackageProvable, PackageTxs, Tx, HeaderTxType,
       PackageTxType
  <2>2. t.seq < SeqOn(blocks, t.chan, p.at)
    BY <1>1, <2>1 DEF PackageExists, SeqAt
  <2>3. p.at <= height - 1
    BY <1>1, <2>1
  <2>4. SeqOn(blocks, t.chan, p.at) <= SeqOn(blocks, t.chan, height - 1)
    BY <1>1, <2>1, <2>3, SeqOnGrows
  <2>5. SeqOn(blocks, t.chan, height - 1) <= t.seq
    <3>1. Relaying
      BY DEF TaskSend, Relaying, Past, TaskPcs, IntervalCleaning, Cleaning, SyncPcs, CleanPcs,
         BatchPcs
    <3>2. OfBlock(blocks, height, tasks)
      BY <1>1, <3>1 DEF TasksInv
    <3>3. tasks[1] # PureHeader
      BY <1>2, <1>3, ChannelsAssumption DEF PureHeader
    <3>4. t.seq \in SeqOn(blocks, t.chan, height - 1)..(SeqOn(blocks, t.chan, height) - 1)
      BY <1>2, <1>3, <3>2, <3>3 DEF OfBlock
    <3> QED
      BY <1>1, <1>2, <3>4
  <2>6. SeqOn(blocks, t.chan, height - 1) \in Nat /\ SeqOn(blocks, t.chan, p.at) \in Nat
    BY <1>1
  <2> QED
    BY <1>2, <2>2, <2>4, <2>5, <2>6
<1>5. p.at = startHeight
  <2>1. ~((Cleaning \/ pc \in CleanedPcs) /\ p.at = ch)
    BY DEF TaskSend, Cleaning, CleanPcs, BatchPcs, SyncPcs, CleanedPcs
  <2>2. ~(\A i \in 1..Len(tasks) : tasks[i].chan = p.chan => p.seq < tasks[i].seq)
    <3>1. tasks[1].chan = p.chan /\ tasks[1].seq = p.seq /\ ~(p.seq < tasks[1].seq)
      BY <1>2, <1>3
    <3> QED
      BY <1>3, <3>1
  <2> QED
    BY <1>4, <2>1, <2>2 DEF AtPlace
<1>6. startHeight = height
  BY <1>1, <1>4, <1>5
<1> QED
  BY <1>2, <1>5, <1>6

LEMMA PackageTypes ==
  ASSUME ChainTypeOK
  PROVE  \A p \in PackageTxs : p.at \in Nat /\ p.seq \in Nat
BY DEF ChainTypeOK, PackageTxs, Tx, HeaderTxType, PackageTxType

\* What was sent stays in its place and apart while nothing new is sent.
LEMMA OnceStays ==
  ASSUME WalkSafe, WalkSafe', NothingWrong, NothingWrong', OnceOK, OrderOK',
         DaemonStep \/ [ExecutorStep \/ EnvStep]_vars, PackageTxs' = PackageTxs
  PROVE  OnceOK'
<1>1. \A p \in PackageTxs : p.at \in Nat /\ p.seq \in Nat
  BY PackageTypes DEF WalkSafe, SafeInv, Inv, ExecInv, ExecTypeOK
<1>2. ASSUME NEW p \in PackageTxs PROVE AtPlace(p)'
  BY <1>1, <1>2, LoopPlaces, OthersPlace DEF OnceOK
<1>3. UNCHANGED startHeight
  BY GoesOn
<1>4. \A p, q \in PackageTxs : Apart(p, q)'
  BY <1>3 DEF OnceOK, Apart
<1> QED
  BY <1>2, <1>4 DEF OnceOK

\* One more package leaves all in place and apart, if it is itself.
LEMMA OnceSends ==
  ASSUME WalkSafe, WalkSafe', NothingWrong, NothingWrong', OnceOK, OrderOK',
         DaemonStep \/ [ExecutorStep \/ EnvStep]_vars, NEW t, PackageTxs' = PackageTxs \cup {t},
         AtPlace(t)', \A p \in PackageTxs : Apart(p, t) /\ Apart(t, p)
  PROVE  OnceOK'
<1>1. \A p \in PackageTxs : p.at \in Nat /\ p.seq \in Nat
  BY PackageTypes DEF WalkSafe, SafeInv, Inv, ExecInv, ExecTypeOK
<1>2. ASSUME NEW p \in PackageTxs PROVE AtPlace(p)'
  BY <1>1, <1>2, LoopPlaces, OthersPlace DEF OnceOK
<1>3. UNCHANGED startHeight
  BY GoesOn
<1>4. \A p, q : Apart(p, q) => Apart(p, q)'
  BY <1>3 DEF Apart
<1>5. Apart(t, t)
  BY DEF Apart
<1>6. \A p, q \in PackageTxs' : Apart(p, q)'
  <2> SUFFICES ASSUME NEW p \in PackageTxs', NEW q \in PackageTxs' PROVE Apart(p, q)'
    OBVIOUS
  <2>1. Apart(p, q)
    BY <1>5 DEF OnceOK
  <2> QED
    BY <1>4, <2>1
<1> QED
  BY <1>2, <1>6 DEF OnceOK

\* What a task sends goes to the end of its channel's line.
LEMMA TaskOrder ==
  ASSUME WalkSafe, WalkSafe', NothingWrong, NothingWrong', CoverOK, OrderOK, TaskSend
  PROVE  OrderOK' /\ PackageTxs' = PackageTxs \cup {TaskTx}
<1>1. /\ Inv /\ ExecInv /\ AccountInv /\ AccountInv' /\ OneView /\ OneView'
  BY WalkTypes, WalkTypesNext
<1>2. Submit(TaskTx) /\ TaskTx.kind = "package" /\ TaskTx.chan = Head(tasks).chan
      /\ TaskTx.seq = Head(tasks).seq
  BY <1>1, TaskSucceeds, TaskTxType DEF AccountInv
<1>3. PackageTxs' = PackageTxs \cup {TaskTx}
  BY <1>2 DEF Submit, PackageTxs
<1>4. AccountStep /\ ~InBatch'
  BY <1>1, LoopFrame DEF DaemonStep
<1>5. NotBehind(Pending, Pending') /\ Pending \in ContractState /\ Pending' \in ContractState
  BY <1>1, <1>4, PendingGrows
<1>6. ASSUME NEW p \in PackageTxs, p.chan \in Monitored PROVE p.seq < Got(Pending', p.chan)
  <2>1. p.seq < Got(Pending, p.chan) /\ p.seq \in Nat
    BY <1>1, <1>6, PackageTypes DEF OrderOK, SentBelow, AccountInv
  <2>2. /\ Got(Pending, p.chan) \in Nat /\ Got(Pending', p.chan) \in Nat
        /\ Got(Pending, p.chan) <= Got(Pending', p.chan)
    BY <1>5, GotGrows
  <2> QED
    BY <2>1, <2>2
<1>7. TaskTx.chan \in Monitored => TaskTx.seq < Got(Pending', TaskTx.chan)
  BY <1>2, TaskDelivers
<1>8. SentBelow'
  <2> SUFFICES ASSUME NEW p \in PackageTxs', p.chan \in Monitored
               PROVE  p.seq < Got(Pending', p.chan)
    BY DEF SentBelow, Monitored
  <2> QED
    BY <1>3, <1>6, <1>7
<1> QED
  BY <1>3, <1>4, <1>8 DEF OrderOK, BatchAhead

LEMMA LoopOnce ==
  ASSUME WalkSafe, WalkSafe', NothingWrong, NothingWrong', CoverOK, OnceOK, DaemonStep
  PROVE  OnceOK'
<1>1. Inv /\ AccountInv /\ AccountInv' /\ OneView /\ OneView' /\ OrderOK
  BY WalkTypes, WalkTypesNext DEF OnceOK
<1>2. CASE TaskSend
  <2>1. PICK t : t = TaskTx
    OBVIOUS
  <2>2. OrderOK' /\ PackageTxs' = PackageTxs \cup {t}
    BY <1>1, <1>2, <2>1, TaskOrder
  <2>3. AtPlace(t)'
    BY <1>2, <2>1, TaskPlaced
  <2>4. \A p \in PackageTxs : Apart(p, t) /\ Apart(t, p)
    BY <1>2, <2>1, TaskApart DEF OnceOK
  <2> QED
    BY <2>2, <2>3, <2>4, OnceSends
<1>3. CASE ~TaskSend
  <2>1. AccountStep /\ UNCHANGED sent /\ ~InBatch'
    BY <1>1, <1>3, LoopFrame
  <2>2. OrderOK'
    BY <1>1, <2>1, OrderStays
  <2> QED
    BY <2>1, <2>2, OnceStays DEF PackageTxs
<1> QED
  BY <1>2, <1>3

LEMMA SubroutineOnce ==
  ASSUME WalkSafe, WalkSafe', NothingWrong, NothingWrong', OnceOK, ExecutorStep
  PROVE  OnceOK'
<1>1. /\ ExecInv /\ AccountInv /\ AccountInv' /\ OneView /\ OneView' /\ HeadersPending
      /\ CleanInv /\ SubroutineStep
  BY WalkTypes, WalkTypesNext DEF ExecutorStep, CallStep, SubroutineStep
<1>2. OrderOK'
  BY <1>1, SubroutineOrder DEF OnceOK
<1>3. CASE PackageTxs' = PackageTxs
  BY <1>2, <1>3, OnceStays
<1>4. CASE BatchSend /\ Submit(BatchTx) /\ PackageTxs' = PackageTxs \cup {BatchTx}
  <2>1. PICK t : t = BatchTx
    OBVIOUS
  <2>2. t.chan = ChannelList[ci] /\ t.seq = seq /\ t.at = ch
    BY <1>1, <1>4, <2>1, BatchTxType
  <2>3. AtPlace(t)'
    <3>1. UNCHANGED ch /\ (Cleaning' \/ pc' \in CleanedPcs)
      BY <1>1, <1>4, CleaningOn DEF BatchSend, Cleaning, CleanPcs, BatchPcs
    <3> QED
      BY <2>2, <3>1 DEF AtPlace
  <2>4. ASSUME NEW p \in PackageTxs PROVE ~(p.chan = t.chan /\ p.seq = t.seq)
    <3>1. p.chan = ChannelList[ci] => p.seq < seq
      BY <1>4 DEF OnceOK, OrderOK, BatchAhead, InBatch, BatchSend, BatchPcs
    <3>2. p.seq \in Nat
      BY <1>1, PackageTypes DEF AccountInv
    <3> QED
      BY <2>2, <3>1, <3>2
  <2>5. \A p \in PackageTxs : Apart(p, t) /\ Apart(t, p)
    BY <2>4 DEF Apart
  <2> QED
    BY <1>2, <1>4, <2>1, <2>3, <2>5, OnceSends
<1> QED
  BY <1>1, <1>3, <1>4, PackagesSent

LEMMA OnceStep ==
  ASSUME WalkSafe, WalkSafe', CoverInv, OnceInv, [Next]_vars
  PROVE  OnceInv'
<1> SUFFICES ASSUME NothingWrong', ~capped' PROVE OnceOK'
  BY DEF OnceInv
<1>1. CASE DaemonStep
  <2>1. NothingWrong /\ ~capped
    BY <1>1, LoopFaults, NothingWrongBefore, LoopFrame DEF WalkSafe, SafeInv
  <2> QED
    BY <1>1, <2>1, LoopOnce DEF CoverInv, OnceInv
<1>2. CASE ExecutorStep \/ EnvStep \/ UNCHANGED vars
  <2>1. NothingWrong /\ OnceOK /\ AccountStep
    BY <1>2, UnnoticedStep DEF Unnoticed, OnceInv
  <2>2. CASE ExecutorStep
    BY <2>1, <2>2, SubroutineOnce
  <2>3. CASE EnvStep \/ UNCHANGED vars
    <3>1. UNCHANGED <<pc, syncRet, ci, seq, sent>>
      BY <2>3 DEF EnvStep, EnvOnly, ProduceBlock, MineTx, RivalDelivers, DropTx, execVars, vars,
         chainVars
    <3>2. (InBatch' => InBatch) /\ PackageTxs' = PackageTxs
      BY <3>1 DEF InBatch, PackageTxs
    <3>3. OrderOK'
      BY <2>1, <3>1, <3>2, WalkTypes, WalkTypesNext, OrderStays DEF OnceOK
    <3> QED
      BY <2>1, <2>3, <3>2, <3>3, OnceStays
  <2> QED
    BY <1>2, <2>2, <2>3
<1>3. CASE Crash
  BY <1>3 DEF Crash, Fault, NothingWrong
<1> QED
  BY <1>1, <1>2, <1>3 DEF Next, RelayerStep

LEMMA OnceSafety == Spec => [](WalkSafe /\ CoverInv /\ OnceInv)
<1>1. Init => OnceInv
  <2> SUFFICES ASSUME Init PROVE OnceOK
    BY DEF OnceInv
  <2>1. PackageTxs = {}
    BY DEF Init, ChainInit, PackageTxs
  <2> QED
    BY <2>1 DEF OnceOK, OrderOK, SentBelow, BatchAhead
<1>2. WalkSafe /\ WalkSafe' /\ CoverInv /\ OnceInv /\ [Next]_vars => OnceInv'
  BY OnceStep
<1> QED
  BY <1>1, <1>2, CoverSafety, PTL DEF Spec

\* For any channels, blocks and rivals: while nothing goes wrong and no backlog
\* exceeds a batch, the relayer pays for a package once, unless the cleanup at
\* boot and the walk over the same height both send it.
THEOREM NothingPaidTwice == Spec => []SentOnce
<1>1. OnceInv => SentOnce
  BY DEF OnceInv, OnceOK, SentOnce, Apart
<1> QED
  BY <1>1, OnceSafety, PTL
===============================================================================
