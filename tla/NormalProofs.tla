----------------------------- MODULE NormalProofs -----------------------------
(***************************************************************************)
(* Inv is an invariant of the daemon in normal mode, and this daemon too   *)
(* submits every package in its turn, for all constants.                   *)
(***************************************************************************)
EXTENDS NormalProps, ExecutorProofs

\* What the invariant says of the loop's own variables.
LoopTypeOK ==
  /\ pc \in Pcs /\ syncRet # "blockSynced"
  /\ cleanRet \in {"none", "accelCleaned", "intervalCleaned"}
  /\ height \in Uint64 /\ startHeight \in Uint64
  /\ curVals \in ValSets \cup {Nil}
  /\ needAccelerate \in BOOLEAN

LEMMA InvParts == Inv <=> ExecInv /\ LoopTypeOK
  BY DEF Inv, TypeOK, LoopTypeOK, ExecInv

LEMMA InvPartsNext ==
  ASSUME ExecInv', LoopTypeOK'
  PROVE  Inv'
  BY DEF Inv, TypeOK, LoopTypeOK, ExecInv

LEMMA WordTypes ==
  /\ 0 \in Uint64
  /\ ChainTypeOK => Latest \in Uint64 /\ Latest - 1 \in 1..Latest
  BY ExecutorAssumption, BoundsAssumption DEF Uint64, ChainTypeOK

LEMMA HashType ==
  ASSUME ChainTypeOK, NEW h \in 1..Latest
  PROVE  Hash(h) \in ValSets
<1>1. blocks[h] \in BlockType
  BY ElementOfSeq DEF ChainTypeOK, Latest
<1> QED
  BY <1>1 DEF BlockType, Hash

LEMMA InitInv == Init => Inv
<1> SUFFICES ASSUME Init PROVE Inv
  OBVIOUS
<1>1. ChainTypeOK /\ SequencesGrow /\ PackageProvable /\ PoolSent
  BY ChainInitInv DEF Init
<1>2. 0 \in Uint64 /\ Latest - 1 \in 1..Latest
  BY <1>1, WordTypes
<1>3. ExecTypeOK
  BY <1>1, <1>2 DEF Init, ExecInit, ExecTypeOK
<1>4. ControlOK
  BY DEF Init, ExecInit, ControlOK, Cleaning, CleanPcs, BatchPcs, SyncPcs
<1>5. LoopTypeOK
  BY <1>1, <1>2, HashType DEF Init, ExecInit, LoopTypeOK, Pcs
<1> QED
  BY <1>1, <1>3, <1>4, <1>5, InvParts DEF ExecInv

-------------------------------------------------------------------------------
(* The loop's steps *)

\* A step of the loop that calls nothing.
LEMMA PlainLoopStep ==
  ASSUME Inv, UNCHANGED <<blocks, bscVars, pool, sent, syncVars, batchVars, capped>>,
         NoFault \/ \E k : Fault(k), UNCHANGED cleanVars \/ EndClean,
         err' \in BOOLEAN, nonce' \in Nat, pc' \in {"top", "monitor", "dispatch"},
         height' \in Uint64, startHeight' \in Uint64, curVals' \in {curVals, Nil},
         needAccelerate' \in BOOLEAN
  PROVE  Inv'
<1>1. ExecInv /\ LoopTypeOK
  BY InvParts
<1>2. ExecInv'
  BY <1>1, LoopStep DEF SyncPcs, CleanPcs, BatchPcs
<1>3. LoopTypeOK'
  BY <1>1 DEF LoopTypeOK, Pcs, cleanVars, syncVars, EndClean
<1> QED
  BY <1>2, <1>3, InvPartsNext

LEMMA Types ==
  ASSUME Inv
  PROVE  /\ err \in BOOLEAN /\ nonce \in Nat /\ accel \in BOOLEAN /\ needAccelerate \in BOOLEAN
         /\ height \in Uint64 /\ startHeight \in Uint64 /\ Inc(height) \in Uint64
         /\ 0 \in Uint64 /\ Latest \in Uint64
  BY InvParts, IncProperties, WordTypes DEF LoopTypeOK, ExecInv, ExecTypeOK

LEMMA StartPreserves ==
  ASSUME Inv, Start
  PROVE  Inv'
<1>1. PICK l \in {0, Latest} : LatestRead(l) /\ height' = l /\ startHeight' = l
  BY DEF Start
<1>2. NoFault \/ \E k : Fault(k)
  BY <1>1 DEF LatestRead
<1> QED
  BY <1>1, <1>2, Types, PlainLoopStep DEF Start

LEMMA TopPreserves ==
  ASSUME Inv, Top
  PROVE  Inv'
<1>1. PICK l \in {0, Latest} : LatestRead(l) /\ (Jump(l) \/ UNCHANGED <<height, needAccelerate>>)
  BY DEF Top
<1>2. NoFault \/ \E k : Fault(k)
  BY <1>1 DEF LatestRead
<1>3. height' \in Uint64 /\ needAccelerate' \in BOOLEAN
  <2>1. CASE Jump(l)
    BY <1>1, <2>1, Types DEF Jump
  <2>2. CASE UNCHANGED <<height, needAccelerate>>
    BY <2>2, Types
  <2> QED
    BY <1>1, <2>1, <2>2
<1> QED
  BY <1>2, <1>3, Types, PlainLoopStep DEF Top

LEMMA MonitorPreserves ==
  ASSUME Inv, Monitor
  PROVE  Inv'
<1>1. ExecInv /\ LoopTypeOK
  BY InvParts
<1>2. UNCHANGED <<blocks, bscVars, pool, sent, err, nonce, batchVars, cleanVars, capped,
                  height, needAccelerate, startHeight>> /\ NoFault
  BY DEF Monitor
<1>3. CASE CallSync(height, "changeSynced") /\ curVals' = Hash(height)
  <2>1. ExecInv'
    BY <1>1, <1>2, <1>3, LoopCallsSync DEF LoopTypeOK
  <2>2. pc' = "syncNonce" /\ syncRet' = "changeSynced"
    BY <1>3 DEF CallSync
  <2>3. Hash(height) \in ValSets
    BY <1>1, HashType DEF Monitor, ExecInv, ExecTypeOK
  <2>4. LoopTypeOK'
    BY <1>1, <1>2, <1>3, <2>2, <2>3 DEF LoopTypeOK, Pcs, SyncPcs, cleanVars
  <2> QED
    BY <2>1, <2>4, InvPartsNext
<1>4. CASE pc' = "dispatch" /\ UNCHANGED <<syncVars, curVals>>
  BY <1>2, <1>4, Types, PlainLoopStep
<1> QED
  BY <1>3, <1>4 DEF Monitor

LEMMA MonitorFailsPreserves ==
  ASSUME Inv, MonitorFails
  PROVE  Inv'
  BY Types, PlainLoopStep DEF MonitorFails

LEMMA ChangeSyncedPreserves ==
  ASSUME Inv, ChangeSynced
  PROVE  Inv'
  BY Types, PlainLoopStep DEF ChangeSynced, daemonVars

LEMMA CleanedPreserves ==
  ASSUME Inv, Cleaned
  PROVE  Inv'
<1>1. needAccelerate' \in BOOLEAN
  BY Types DEF Cleaned, Accelerate
<1> QED
  BY <1>1, Types, PlainLoopStep DEF Cleaned

LEMMA DispatchPreserves ==
  ASSUME Inv, Dispatch
  PROVE  Inv'
<1>1. ExecInv /\ LoopTypeOK
  BY InvParts
<1>2. UNCHANGED <<blocks, bscVars, pool, sent, err, nonce, syncVars, batchVars, capped,
                  curVals, needAccelerate, startHeight>> /\ NoFault
  BY DEF Dispatch
<1>3. CASE /\ \E ret \in {"accelCleaned", "intervalCleaned"} : CallClean(height, ret)
           /\ UNCHANGED height
  <2>1. PICK ret \in {"accelCleaned", "intervalCleaned"} : CallClean(height, ret)
    BY <1>3
  <2>2. ExecInv'
    BY <1>1, <1>2, <2>1, LoopCallsClean DEF LoopTypeOK, CleanedPcs
  <2>3. pc' = "cleanSeq" /\ cleanRet' = ret
    BY <2>1 DEF CallClean
  <2>4. LoopTypeOK'
    BY <1>1, <1>2, <1>3, <2>3 DEF LoopTypeOK, Pcs, CleanPcs, syncVars
  <2> QED
    BY <2>2, <2>4, InvPartsNext
<1>4. CASE height' = Inc(height) /\ pc' = "top" /\ UNCHANGED cleanVars
  BY <1>2, <1>4, Types, PlainLoopStep
<1> QED
  BY <1>3, <1>4 DEF Dispatch

-------------------------------------------------------------------------------
(* The other actors *)

LEMMA ExecutorStepPreserves ==
  ASSUME Inv, SubroutineStep, UNCHANGED daemonVars
  PROVE  Inv'
<1>1. ExecInv /\ LoopTypeOK
  BY InvParts
<1>2. ExecInv'
  BY <1>1, SubroutinePreserves
<1>3. /\ \/ pc' \in SyncPcs \cup CleanPcs
         \/ pc \in SyncPcs /\ pc' = syncRet
         \/ pc' = cleanRet /\ cleanRet \in CleanedPcs
      /\ cleanRet' \in {cleanRet, "none"}
      /\ syncRet' \in {syncRet, "none", "cleanSynced"}
  BY <1>1, SubroutineReturns
<1>4. pc \in SyncPcs => syncRet \in SyncedPcs
  BY <1>1 DEF ExecInv, ControlOK
<1>5. LoopTypeOK'
  BY <1>1, <1>3, <1>4 DEF LoopTypeOK, Pcs, SyncedPcs, CleanedPcs, daemonVars, CleanPcs
<1> QED
  BY <1>2, <1>5, InvPartsNext

LEMMA EnvStepPreserves ==
  ASSUME Inv, EnvStep
  PROVE  Inv'
<1>1. ExecInv /\ LoopTypeOK
  BY InvParts
<1>2. UNCHANGED <<execVars, daemonVars>>
      /\ (ProduceBlock \/ MineTx \/ RivalDelivers \/ DropTx)
  BY DEF EnvStep, EnvOnly, BlockInReach
<1>3. ExecInv'
  BY <1>1, <1>2, ProduceBlockPreserves, MineTxPreserves, RivalDeliversPreserves, DropTxPreserves
<1>4. LoopTypeOK'
  BY <1>1, <1>2 DEF LoopTypeOK, execVars, daemonVars
<1> QED
  BY <1>3, <1>4, InvPartsNext

LEMMA CrashPreserves ==
  ASSUME Inv, Crash
  PROVE  Inv'
<1>1. ExecInv /\ LoopTypeOK
  BY InvParts
<1>2. 0 \in Uint64 /\ Latest - 1 \in 1..Latest
  BY <1>1, WordTypes DEF ExecInv, ExecTypeOK
<1>3. ASSUME ChainTypeOK' PROVE ExecTypeOK'
  BY <1>1, <1>2, <1>3 DEF Crash, ExecInv, ExecTypeOK
<1>4. ControlOK'
  BY RestartControl DEF Crash
<1>5. ExecInv'
  BY <1>1, <1>3, <1>4, QuietStep DEF Crash
<1>6. LoopTypeOK'
  <2>1. Hash(Latest - 1) \in ValSets
    BY <1>1, <1>2, HashType DEF ExecInv, ExecTypeOK
  <2> QED
    BY <1>1, <1>2, <2>1 DEF Crash, LoopTypeOK, Pcs
<1> QED
  BY <1>5, <1>6, InvPartsNext

LEMMA NextInv == Inv /\ [Next]_vars => Inv'
<1> SUFFICES ASSUME Inv, [Next]_vars PROVE Inv'
  OBVIOUS
<1>1. CASE DaemonStep
  BY <1>1, StartPreserves, TopPreserves, MonitorPreserves, MonitorFailsPreserves,
     ChangeSyncedPreserves, DispatchPreserves, CleanedPreserves DEF DaemonStep
<1>2. CASE ExecutorStep
  BY <1>2, ExecutorStepPreserves DEF ExecutorStep, CallStep, SubroutineStep
<1>3. CASE EnvStep
  BY <1>3, EnvStepPreserves
<1>4. CASE Crash
  BY <1>4, CrashPreserves
<1>5. CASE UNCHANGED vars
  <2>1. UNCHANGED <<blocks, recv, headers, acctNonce, pool, sent, faults, incidents>>
        /\ UNCHANGED execVars /\ UNCHANGED daemonVars
    BY <1>5 DEF vars, chainVars
  <2>2. ExecInv /\ LoopTypeOK
    BY InvParts
  <2>3. ChainTypeOK'
    BY <2>1, <2>2 DEF ChainTypeOK, Latest, ExecInv, ExecTypeOK
  <2>4. ExecInv'
    BY <2>1, <2>2, <2>3, BscStep
  <2>5. LoopTypeOK'
    BY <2>1, <2>2 DEF LoopTypeOK, execVars, daemonVars
  <2> QED
    BY <2>4, <2>5, InvPartsNext
<1> QED
  BY <1>1, <1>2, <1>3, <1>4, <1>5 DEF Next, RelayerStep

-------------------------------------------------------------------------------
(* The theorems *)

\* The executor's invariant and the types of the loop hold in every reachable
\* state of the daemon in normal mode, whatever fails and however often the
\* process restarts; packages sent are therefore always provable on BSC.
THEOREM Invariance == Spec => []Inv
<1> QED
  BY InitInv, NextInv, PTL DEF Spec

\* BSC can verify every package the daemon's cleanups ever sent.
THEOREM Provability == Spec => []PackageProvable
<1>1. Inv => PackageProvable
  BY DEF Inv, ExecInv
<1> QED
  BY <1>1, Invariance, PTL

-------------------------------------------------------------------------------
(* Nonces *)

\* The loop itself never holds a nonce.
LEMMA LoopNonces ==
  ASSUME DaemonStep
  PROVE  /\ UNCHANGED <<acctNonce, pool, sent>> /\ pc' \notin HoldPcs
         /\ NoFault \/ \E k : Fault(k)
<1>1. CASE Start \/ Top
  BY <1>1 DEF Start, Top, LatestRead, HoldPcs, bscVars
<1>2. CASE Monitor \/ MonitorFails \/ ChangeSynced
  BY <1>2 DEF Monitor, CallSync, MonitorFails, ChangeSynced, HoldPcs, bscVars
<1>3. CASE Dispatch \/ Cleaned
  BY <1>3 DEF Dispatch, CallClean, Cleaned, HoldPcs, bscVars
<1> QED
  BY <1>1, <1>2, <1>3 DEF DaemonStep

LEMMA FreshNext == Inv /\ FreshInv /\ [Next]_vars => FreshInv'
<1> SUFFICES ASSUME Inv, FreshInv, [Next]_vars PROVE FreshInv'
  OBVIOUS
<1>1. ExecInv /\ ChainTypeOK
  BY InvParts DEF ExecInv, ExecTypeOK
<1>2. CASE DaemonStep
  BY <1>2, LoopNonces, NoncesKept, OneViewBefore
<1>3. CASE ExecutorStep
  BY <1>1, <1>3, SubroutineNonces DEF ExecutorStep, CallStep, SubroutineStep
<1>4. CASE EnvStep
  BY <1>1, <1>4, EnvironmentNonces DEF EnvStep, EnvOnly, BlockInReach
<1>5. CASE Crash
  BY <1>5, NoncesKept, OneViewBefore DEF Crash, HoldPcs, bscVars
<1>6. CASE UNCHANGED vars
  <2>1. UNCHANGED <<acctNonce, pool, sent, pc, nonce, incidents>>
    BY <1>6 DEF vars, chainVars, execVars
  <2> QED
    BY <2>1, NoncesKept DEF OneView
<1> QED
  BY <1>2, <1>3, <1>4, <1>5, <1>6 DEF Next, RelayerStep

LEMMA NonceSafety == Spec => [](Inv /\ FreshInv)
<1>1. Init => FreshInv
  BY NoncesInitially DEF Init, HoldPcs
<1> QED
  BY <1>1, InitInv, NextInv, FreshNext, PTL DEF Spec

\* In normal mode too a nonce is still the account's next one when it is used.
THEOREM NonceFreshness == Spec => []NonceFresh
<1>1. Inv /\ FreshInv => NonceFresh
  BY FreshNonce, InvParts DEF FreshInv, ExecInv, ExecTypeOK
<1> QED
  BY <1>1, NonceSafety, PTL

-------------------------------------------------------------------------------
(* Validator sets *)

\* The header of the set just noticed is on its way.
Syncing == pc \in SyncPcs /\ syncRet = "changeSynced"

SetOK ==
  /\ pc \notin {"top", "monitor"} => height <= Latest
  /\ Syncing \/ pc = "changeSynced" => height \in 1..Latest /\ curVals = Hash(height)
  /\ Syncing => hdr = height
  /\ pc = "changeSynced" => HeaderSent(height)
  /\ pc = "dispatch" /\ curVals # Nil =>
       /\ height \in 1..Latest /\ curVals = Hash(height)
       /\ curVals # blocks[height].next => HeaderSent(height)
  /\ ~Syncing => curVals \in {Nil, Hash(1)} \/ SignedBy(curVals, 1, height)
SetInv == NothingWrong => SetOK

\* Where no block is being looked at, only the tracked set matters.
LEMMA SetPasses ==
  ASSUME SetOK, ~Syncing, ~Syncing', pc' \notin {"changeSynced", "dispatch"}, BlocksKept,
         sent \subseteq sent', curVals' \in {curVals, Nil}, Latest >= 1,
         height \in Nat, height' \in Nat, height <= height',
         pc' \notin {"top", "monitor"} => height' <= Latest'
  PROVE  SetOK'
<1>1. Latest \in Nat /\ Latest' \in Nat /\ Latest <= Latest'
  BY DEF BlocksKept
<1>2. Hash(1)' = Hash(1)
  BY <1>1 DEF BlocksKept, Hash
<1>3. curVals' \in {Nil, Hash(1)'} \/ SignedBy(curVals, 1, height)'
  <2>1. CASE curVals' \in {Nil, Hash(1)}
    BY <1>2, <2>1
  <2>2. CASE curVals' = curVals /\ SignedBy(curVals, 1, height)
    <3>1. \A v : SignedBy(v, 1, height) =>
            \E t \in HeaderTxs' : /\ t.height \in 1..height' /\ t.height \in 1..Latest'
                                  /\ blocks'[t.height].vals = v
      BY SignedByStays DEF SignedBy
    <3> QED
      BY <2>2, <3>1 DEF SignedBy
  <2> QED
    BY <2>1, <2>2 DEF SetOK
<1> QED
  BY <1>3 DEF SetOK

\* The daemon stays at its block.
LEMMA SetStays ==
  ASSUME SetOK, BlocksKept, sent \subseteq sent', height \in Nat, Latest >= 1,
         UNCHANGED <<pc, syncRet, hdr, height, curVals>>
  PROVE  SetOK'
<1>1. (Syncing' <=> Syncing) /\ (HeaderSent(height) => HeaderSent(height)')
  BY DEF Syncing, HeaderSent
<1>2. /\ Latest \in Nat /\ Latest' \in Nat /\ Latest <= Latest'
      /\ \A h \in 1..Latest : blocks'[h] = blocks[h]
  BY DEF BlocksKept
<1>3. Hash(1)' = Hash(1) /\ (pc \notin {"top", "monitor"} => height' <= Latest')
  BY <1>2 DEF SetOK, Hash
<1>4. CASE ~Syncing /\ pc \notin {"changeSynced", "dispatch"}
  BY <1>1, <1>3, <1>4, SetPasses
<1>5. height \in 1..Latest => height' \in 1..Latest' /\ blocks'[height'] = blocks[height]
  BY <1>2
<1>6. SignedBy(curVals, 1, height) => SignedBy(curVals, 1, height)'
  <2>1. \A v : SignedBy(v, 1, height) =>
          \E t \in HeaderTxs' : /\ t.height \in 1..height /\ t.height \in 1..Latest'
                                /\ blocks'[t.height].vals = v
    BY SignedByStays DEF SignedBy
  <2> QED
    BY <2>1 DEF SignedBy
<1> QED
  BY <1>1, <1>3, <1>5, <1>6 DEF SetOK, Hash

LEMMA SubroutineSet ==
  ASSUME ExecInv, FreshInv, SetOK, SubroutineStep, UNCHANGED daemonVars, NothingWrong',
         height \in Nat, Latest >= 1
  PROVE  SetOK'
<1>1. /\ sent \subseteq sent' /\ UNCHANGED blocks
      /\ pc \in SyncPcs \cup CleanPcs
      /\ \/ pc' \in SyncPcs \cup CleanPcs
         \/ pc \in SyncPcs /\ pc' = syncRet
         \/ pc' = cleanRet /\ cleanRet \in CleanedPcs
      /\ pc' \in SyncPcs /\ syncRet' # "cleanSynced" => pc \in SyncPcs /\ UNCHANGED <<syncRet, hdr>>
  BY SubroutineReturns
<1>2. BlocksKept
  BY <1>1, BlocksStay
<1>3. UNCHANGED <<height, curVals>> /\ Latest' = Latest /\ height' <= Latest'
  <2>1. pc \notin {"top", "monitor"}
    BY <1>1 DEF SyncPcs, CleanPcs, BatchPcs
  <2> QED
    BY <1>1, <2>1 DEF daemonVars, SetOK, Latest
<1>4. CASE ~Syncing
  <2>1. ~Syncing'
    BY <1>1, <1>4 DEF Syncing
  <2>2. pc \in SyncPcs => syncRet \in {"blockSynced", "cleanSynced"}
    BY <1>4 DEF Syncing, ExecInv, ControlOK, SyncedPcs
  <2>3. pc' \notin {"changeSynced", "dispatch"}
    BY <1>1, <2>2 DEF SyncPcs, CleanPcs, BatchPcs, CleanedPcs
  <2> QED
    BY <1>1, <1>2, <1>3, <1>4, <2>1, <2>3, SetPasses
<1>5. CASE Syncing
  <2>1. /\ hdr = height /\ height \in 1..Latest /\ curVals = Hash(height)
        /\ syncRet = "changeSynced" /\ pc \in SyncPcs
    BY <1>5 DEF SetOK, Syncing
  <2>2. \/ pc' \in SyncPcs /\ UNCHANGED syncVars
        \/ pc' = "changeSynced" /\ HeaderSent(height)'
    <3>1. \/ pc' \in SyncPcs /\ UNCHANGED syncVars
          \/ pc' = syncRet /\ \E t \in sent' : t.kind = "header" /\ t.height = hdr
      BY <2>1, SyncGoesOn
    <3> QED
      BY <1>3, <2>1, <3>1 DEF HeaderSent
  <2>3. CASE pc' \in SyncPcs /\ UNCHANGED syncVars
    BY <1>1, <1>3, <2>1, <2>3 DEF SetOK, Syncing, SyncPcs, syncVars, Hash, Latest
  <2>4. CASE pc' = "changeSynced" /\ HeaderSent(height)'
    <3>1. ~Syncing'
      BY <2>4 DEF Syncing, SyncPcs
    <3>2. Hash(height)' = Hash(height) /\ Latest \in Nat
      BY <1>1, <1>2, <1>3 DEF Hash, BlocksKept
    <3>3. SignedBy(curVals, 1, height)'
      <4>1. PICK t \in sent' : t.kind = "header" /\ t.height = height
        BY <1>3, <2>4 DEF HeaderSent
      <4>2. t.height \in 1..height
        BY <2>1, <4>1
      <4>3. t \in HeaderTxs' /\ t.height \in 1..Latest' /\ blocks'[t.height].vals = curVals'
        BY <1>1, <1>3, <2>1, <3>2, <4>1 DEF HeaderTxs, Hash
      <4> QED
        BY <1>3, <4>2, <4>3 DEF SignedBy
    <3> QED
      BY <1>3, <2>1, <2>4, <3>1, <3>2, <3>3 DEF SetOK
  <2> QED
    BY <2>2, <2>3, <2>4
<1> QED
  BY <1>4, <1>5

\* The loop never goes back, and is past a block that exists.
LEMMA LoopRises ==
  ASSUME Inv, SetOK, DaemonStep, NothingWrong'
  PROVE  /\ height <= height' /\ (pc' \notin {"top", "monitor"} => height' <= Latest)
         /\ UNCHANGED <<blocks, sent>>
<1>1. height \in Uint64 /\ height \in Nat /\ Latest \in Nat /\ Latest + 1 < Word
  <2>1. height \in Uint64 /\ Latest \in 2..MaxHeight
    BY InvParts DEF ExecInv, ExecTypeOK, LoopTypeOK, ChainTypeOK
  <2> QED
    BY <2>1, ExecutorAssumption, BoundsAssumption DEF Uint64
<1>2. \A k : ~Fault(k)
  BY DEF Fault, NothingWrong
<1>3. UNCHANGED <<blocks, sent>>
  BY DEF DaemonStep, Start, Top, Monitor, MonitorFails, ChangeSynced, Dispatch, Cleaned
<1>4. CASE Start
  <2>1. height' = Latest /\ pc' = "top" /\ pc = "start"
    BY <1>2, <1>4 DEF Start, LatestRead
  <2> QED
    BY <1>1, <1>3, <2>1 DEF SetOK
<1>5. CASE Top
  <2>1. PICK l \in {0, Latest} :
          /\ LatestRead(l)
          /\ \/ l > height + HeightBehindThreshold /\ Jump(l)
             \/ l <= height + HeightBehindThreshold /\ UNCHANGED <<height, needAccelerate>>
    BY <1>5 DEF Top
  <2>2. l = Latest /\ pc' = "monitor"
    BY <1>2, <1>5, <2>1 DEF Top, LatestRead
  <2>3. height <= height'
    BY <1>1, <2>1, <2>2, NormalAssumption DEF Jump
  <2> QED
    BY <1>3, <2>2, <2>3
<1>6. CASE Monitor \/ MonitorFails \/ ChangeSynced
  <2>1. UNCHANGED height
    BY <1>6 DEF Monitor, MonitorFails, ChangeSynced, daemonVars
  <2>2. pc' \in {"top", "monitor"} \/ height <= Latest
    BY <1>6 DEF Monitor, MonitorFails, ChangeSynced, SetOK
  <2> QED
    BY <1>1, <1>3, <2>1, <2>2
<1>7. CASE Dispatch \/ Cleaned
  <2>1. height <= Latest
    BY <1>7 DEF Dispatch, Cleaned, SetOK
  <2>2. UNCHANGED height \/ (height' = Inc(height) /\ pc' = "top")
    BY <1>7 DEF Dispatch, Cleaned
  <2>3. Inc(height) = height + 1
    <3>1. height + 1 < Word
      BY <1>1, <2>1, ExecutorAssumption
    <3> QED
      BY <1>1, <3>1, IncProperties
  <2> QED
    BY <1>1, <1>3, <2>1, <2>2, <2>3
<1> QED
  BY <1>4, <1>5, <1>6, <1>7 DEF DaemonStep

LEMMA LoopSet ==
  ASSUME Inv, SetOK, DaemonStep, NothingWrong', height' \in Nat
  PROVE  SetOK'
<1>1. ChainTypeOK /\ height \in Nat /\ Latest \in Nat /\ Latest >= 1
  <2>1. ExecInv /\ LoopTypeOK
    BY InvParts
  <2> QED
    BY <2>1 DEF ExecInv, ExecTypeOK, LoopTypeOK, ChainTypeOK, Uint64
<1>2. /\ UNCHANGED <<blocks, sent>> /\ BlocksKept /\ Latest' = Latest /\ Hash(1)' = Hash(1)
      /\ height <= height' /\ (pc' \notin {"top", "monitor"} => height' <= Latest')
  BY LoopRises, BlocksStay, InvParts DEF Latest, Hash
<1>3. ASSUME ~Syncing, ~Syncing', pc' \notin {"changeSynced", "dispatch"},
             curVals' \in {curVals, Nil}
      PROVE  SetOK'
  BY <1>1, <1>2, <1>3, SetPasses
<1>4. CASE Monitor
  <2>1. /\ pc = "monitor" /\ height \in 1..Latest /\ UNCHANGED height /\ ~Syncing
        /\ curVals' = IF Changed(blocks[height]) THEN Hash(height) ELSE curVals
    BY <1>4 DEF Monitor, Syncing, SyncPcs, Hash
  <2>2. CASE Changed(blocks[height])
    <3>1. pc' = "syncNonce" /\ syncRet' = "changeSynced" /\ hdr' = height /\ curVals' = Hash(height)
      BY <1>4, <2>1, <2>2 DEF Monitor, CallSync
    <3> QED
      BY <1>2, <2>1, <3>1 DEF SetOK, Syncing, SyncPcs, Hash
  <2>3. CASE ~Changed(blocks[height])
    <3>1. pc' = "dispatch" /\ UNCHANGED curVals
      BY <1>4, <2>1, <2>3 DEF Monitor
    <3>2. ~Syncing' /\ (SignedBy(curVals, 1, height) => SignedBy(curVals, 1, height)')
      BY <1>2, <2>1, <3>1 DEF Syncing, SyncPcs, SignedBy, HeaderTxs, Latest
    <3>3. curVals = Nil \/ (curVals = Hash(height) /\ curVals = blocks[height].next)
      BY <2>3 DEF Changed, Hash
    <3>4. curVals' \in {Nil, Hash(1)'} \/ SignedBy(curVals, 1, height)'
      BY <1>2, <2>1, <3>1, <3>2 DEF SetOK
    <3>5. curVals' # Nil => /\ height' \in 1..Latest' /\ curVals' = Hash(height)'
                            /\ curVals' = blocks'[height'].next
      BY <1>2, <2>1, <3>1, <3>3 DEF Hash
    <3> QED
      BY <1>2, <3>1, <3>2, <3>4, <3>5 DEF SetOK
  <2> QED
    BY <2>2, <2>3
<1>5. CASE ChangeSynced
  <2>1. pc = "changeSynced" /\ pc' = "dispatch" /\ UNCHANGED <<height, curVals, sent>>
    BY <1>5 DEF ChangeSynced, daemonVars
  <2>2. ~Syncing /\ ~Syncing'
    BY <2>1 DEF Syncing, SyncPcs
  <2>3. height \in 1..Latest /\ curVals = Hash(height) /\ HeaderSent(height)
    BY <2>1 DEF SetOK
  <2>4. /\ SignedBy(curVals, 1, height) => SignedBy(curVals, 1, height)'
        /\ Hash(height)' = Hash(height) /\ HeaderSent(height)'
    BY <1>2, <2>1, <2>3 DEF SignedBy, HeaderTxs, Latest, Hash, HeaderSent
  <2>5. curVals' \in {Nil, Hash(1)'} \/ SignedBy(curVals, 1, height)'
    BY <1>2, <2>1, <2>2, <2>4 DEF SetOK
  <2> QED
    BY <1>2, <2>1, <2>2, <2>3, <2>4, <2>5 DEF SetOK
<1>6. CASE Start \/ Top \/ MonitorFails
  BY <1>3, <1>6 DEF Start, Top, MonitorFails, Syncing, SyncPcs
<1>7. CASE Dispatch \/ Cleaned
  BY <1>3, <1>7 DEF Dispatch, CallClean, Cleaned, Syncing, SyncPcs
<1> QED
  BY <1>4, <1>5, <1>6, <1>7 DEF DaemonStep

LEMMA SetStep ==
  ASSUME Inv, FreshInv, SetInv, [Next]_vars
  PROVE  SetInv'
<1> SUFFICES ASSUME NothingWrong' PROVE SetOK'
  BY DEF SetInv
<1>1. ExecInv /\ ChainTypeOK /\ height \in Nat /\ Latest >= 1
  <2>1. ExecInv /\ LoopTypeOK
    BY InvParts
  <2> QED
    BY <2>1 DEF ExecInv, ExecTypeOK, ChainTypeOK, LoopTypeOK, Uint64
<1>2. height' \in Nat
  BY NextInv DEF Inv, LoopTypeOK, TypeOK, Uint64
<1>3. CASE DaemonStep
  BY <1>2, <1>3, LoopNonces, NothingWrongBefore, LoopSet DEF SetInv
<1>4. CASE ExecutorStep
  <2>1. SubroutineStep /\ UNCHANGED daemonVars
    BY <1>4 DEF ExecutorStep, CallStep, SubroutineStep
  <2>2. NoFault \/ \E k : Fault(k)
    BY <2>1 DEF SubroutineStep, SyncNonce, SyncQuery, QueryTendermintHeader, SyncSend, CleanSeq,
         CleanDeliver,
       CleanSynced, BatchNonce, BatchPkg, BatchSend, ReadNonce, ReadRecv, Broadcast
  <2>3. SetOK
    BY <2>2, NothingWrongBefore DEF SetInv
  <2> QED
    BY <1>1, <2>1, <2>3, SubroutineSet
<1>5. CASE EnvStep
  <2>1. /\ UNCHANGED <<pc, syncRet, hdr, height, curVals, sent>>
        /\ ProduceBlock \/ MineTx \/ RivalDelivers \/ DropTx
    BY <1>5 DEF EnvStep, EnvOnly, BlockInReach, execVars, syncVars, daemonVars, ProduceBlock,
       MineTx, RivalDelivers, DropTx
  <2>2. SetOK
    BY <2>1, NothingWrongBefore DEF SetInv, ProduceBlock, MineTx, RivalDelivers, DropTx, NoFault
  <2>3. BlocksKept
    BY <1>1, <2>1, BlocksStay DEF MineTx, RivalDelivers, DropTx
  <2> QED
    BY <1>1, <2>1, <2>2, <2>3, SetStays
<1>6. CASE Crash
  BY <1>6 DEF Crash, Fault, NothingWrong
<1>7. CASE UNCHANGED vars
  <2>1. UNCHANGED <<pc, syncRet, hdr, height, curVals, sent, blocks, incidents>>
    BY <1>7 DEF vars, chainVars, execVars, syncVars, daemonVars
  <2>2. SetOK
    BY <2>1 DEF SetInv, NothingWrong
  <2> QED
    BY <1>1, <2>1, <2>2, BlocksStay, SetStays
<1> QED
  BY <1>3, <1>4, <1>5, <1>6, <1>7 DEF Next, RelayerStep

\* For every chain of validator sets and every jump: while nothing goes wrong,
\* a set the daemon still tracks is the one in force, a header signed by it was
\* submitted unless it is the set found at boot, and so was the header of a
\* block that announces another one.  Nothing is said once a poll has stored nil.
THEOREM SetsRelayed == Spec => []SetInUseRelayed
<1>1. Init => FreshInv /\ SetInv
  <2> SUFFICES ASSUME Init PROVE FreshInv /\ SetInv
    OBVIOUS
  <2>1. FreshInv
    BY NoncesInitially DEF Init, HoldPcs
  <2>2. Latest = 2
    BY DEF Init, ChainInit, Extend, Latest
  <2>3. pc = "start" /\ height = 0 /\ curVals = Hash(1)
    BY <2>2 DEF Init
  <2>4. SetInv
    BY <2>2, <2>3 DEF SetInv, SetOK, Syncing, SyncPcs
  <2> QED
    BY <2>1, <2>4
<1>2. Inv /\ FreshInv /\ SetInv /\ [Next]_vars => FreshInv' /\ SetInv'
  BY FreshNext, SetStep
<1>3. SetInv => SetInUseRelayed
  <2> SUFFICES ASSUME SetOK, pc = "dispatch", curVals # Nil
               PROVE  /\ curVals = Hash(height)
                      /\ curVals # blocks[height].next => HeaderSent(height)
                      /\ curVals # Hash(1) =>
                           \E t \in HeaderTxs : t.height \in 1..height /\ Hash(t.height) = curVals
    BY DEF SetInv, SetInUseRelayed
  <2>1. ~Syncing
    BY DEF Syncing, SyncPcs
  <2> QED
    BY <2>1 DEF SetOK, SignedBy, Hash
<1> QED
  BY <1>1, <1>2, <1>3, Invariance, PTL DEF Spec

-------------------------------------------------------------------------------
(* Where the walk is *)

\* The control points past the look at a block.
Past ==
  \/ pc \in {"changeSynced", "dispatch"} \cup CleanedPcs
  \/ Syncing \/ Cleaning

\* Whatever fails, the walk is at most one block ahead of BC, past a block only
\* if BC has it, and a cleanup runs at the height of the walk.
HeightOK ==
  /\ height <= Latest + 1
  /\ Past => height \in 1..Latest
  /\ Cleaning \/ pc \in CleanedPcs => ch = height
  /\ ch <= Latest

LEMMA HeightTypes ==
  ASSUME Inv
  PROVE  /\ ExecInv /\ ChainTypeOK /\ (FreshInv => AccountInv)
         /\ height \in Nat /\ ch \in Nat /\ Latest \in Nat /\ Latest >= 2 /\ Latest <= MaxHeight
         /\ MaxHeight \in Nat /\ (height <= Latest => Inc(height) = height + 1)
<1>1. ExecInv /\ height \in Uint64 /\ ch \in Uint64 /\ ChainTypeOK
  BY InvParts DEF LoopTypeOK, ExecInv, ExecTypeOK
<1>2. Latest \in 2..MaxHeight
  BY <1>1 DEF ChainTypeOK
<1>3. height \in Nat /\ ch \in Nat /\ MaxHeight + 1 < Word /\ MaxHeight \in Nat /\ Word \in Nat
  BY <1>1, ExecutorAssumption, BoundsAssumption DEF Uint64
<1>4. height <= Latest => height + 1 < Word
  BY <1>2, <1>3
<1>5. FreshInv => AccountInv
  BY <1>1 DEF AccountInv, ExecInv
<1> QED
  BY <1>1, <1>2, <1>3, <1>4, <1>5, IncProperties

LEMMA HeightStep ==
  ASSUME Inv, HeightOK, [Next]_vars
  PROVE  HeightOK'
<1>1. ExecInv /\ height \in Nat /\ ch \in Nat /\ Latest \in Nat /\ Latest >= 2
      /\ (height <= Latest => Inc(height) = height + 1)
  BY HeightTypes
<1>2. CASE Start \/ Top
  <2>1. pc' \in {"top", "monitor"} /\ height' \in {height, 0, Latest} /\ UNCHANGED <<blocks, ch>>
    BY <1>2 DEF Start, Top, Jump, cleanVars
  <2>2. ~Past' /\ ~Cleaning' /\ pc' \notin CleanedPcs
    BY <2>1 DEF Past, Syncing, Cleaning, CleanedPcs, CleanPcs, BatchPcs, SyncPcs
  <2> QED
    BY <1>1, <2>1, <2>2 DEF HeightOK, Latest
<1>3. CASE Monitor \/ MonitorFails \/ ChangeSynced
  <2>1. UNCHANGED <<height, blocks, ch>>
    BY <1>3 DEF Monitor, MonitorFails, ChangeSynced, daemonVars, cleanVars
  <2>2. ~Cleaning' /\ pc' \notin CleanedPcs
    BY <1>3 DEF Monitor, MonitorFails, ChangeSynced, CallSync, Cleaning, CleanedPcs, CleanPcs,
       BatchPcs, SyncPcs
  <2>3. Past' => height \in 1..Latest
    BY <1>3, <2>2 DEF Monitor, MonitorFails, ChangeSynced, HeightOK, Past, Syncing, SyncPcs
  <2> QED
    BY <2>1, <2>2, <2>3 DEF HeightOK, Latest
<1>4. CASE Dispatch \/ Cleaned
  <2>1. height \in 1..Latest /\ UNCHANGED blocks
    BY <1>4 DEF Dispatch, Cleaned, HeightOK, Past, CleanedPcs
  <2>2. \/ pc' = "cleanSeq" /\ ch' = height /\ UNCHANGED height
        \/ pc' = "top" /\ height' = height + 1 /\ ch' \in {ch, 0}
    BY <1>1, <1>4, <2>1 DEF Dispatch, Cleaned, CallClean, EndClean, cleanVars
  <2>3. CASE pc' = "cleanSeq" /\ ch' = height /\ UNCHANGED height
    BY <1>1, <2>1, <2>3 DEF HeightOK, Latest
  <2>4. CASE pc' = "top" /\ height' = height + 1 /\ ch' \in {ch, 0}
    <3>1. ~Past' /\ ~Cleaning' /\ pc' \notin CleanedPcs
      BY <2>4 DEF Past, Syncing, Cleaning, CleanedPcs, CleanPcs, BatchPcs, SyncPcs
    <3>2. height' <= Latest + 1 /\ ch' <= Latest
      BY <1>1, <2>1, <2>4 DEF HeightOK
    <3> QED
      BY <2>1, <3>1, <3>2 DEF HeightOK, Latest
  <2> QED
    BY <2>2, <2>3, <2>4
<1>5. CASE ExecutorStep
  <2>1. SubroutineStep /\ UNCHANGED daemonVars
    BY <1>5 DEF ExecutorStep, CallStep, SubroutineStep
  <2>2. UNCHANGED <<height, ch, blocks>> /\ (Cleaning' => Cleaning)
        /\ (pc' \in CleanedPcs => Cleaning) /\ (pc' = "changeSynced" => Syncing)
        /\ (Syncing' => Syncing)
    BY <1>1, <2>1, SubroutineCaller, SubroutinePlace, SubroutineReturns DEF daemonVars, Syncing
  <2>3. pc' # "dispatch"
    <3>1. pc \in SyncPcs => syncRet \in SyncedPcs
      BY <1>1 DEF ExecInv, ControlOK
    <3> QED
      BY <1>1, <2>1, <3>1, SubroutineReturns DEF SyncPcs, CleanPcs, BatchPcs, SyncedPcs, CleanedPcs
  <2>4. (Past' => Past) /\ (Cleaning' \/ pc' \in CleanedPcs => Cleaning) /\ Latest' = Latest
    BY <2>2, <2>3 DEF Past, Latest
  <2> QED
    BY <2>2, <2>4, Zenon DEF HeightOK
<1>6. CASE EnvStep
  <2>1. UNCHANGED <<height, ch, pc, syncRet>> /\ (ProduceBlock \/ UNCHANGED blocks)
    BY <1>6 DEF EnvStep, EnvOnly, BlockInReach, MineTx, RivalDelivers, DropTx, execVars, daemonVars
  <2>2. BlocksKept
    BY <1>1, <2>1, BlocksStay
  <2>3. (Past' <=> Past) /\ (Cleaning' <=> Cleaning)
    BY <2>1 DEF Past, Syncing, Cleaning
  <2>4. /\ height <= Latest + 1 => height' <= Latest' + 1
        /\ height \in 1..Latest => height' \in 1..Latest'
        /\ ch <= Latest => ch' <= Latest'
    <3>1. Latest' \in Nat /\ Latest <= Latest' /\ height' = height /\ ch' = ch
      BY <2>1, <2>2 DEF BlocksKept
    <3>2. ASSUME NEW h \in Nat, NEW l \in Nat, NEW m \in Nat, l <= m
          PROVE  /\ h <= l + 1 => h <= m + 1
                 /\ h \in 1..l => h \in 1..m
                 /\ h <= l => h <= m
      BY <3>2
    <3> QED
      BY <1>1, <3>1, <3>2
  <2> QED
    BY <2>1, <2>3, <2>4 DEF HeightOK
<1>7. CASE Crash
  BY <1>1, <1>7 DEF Crash, HeightOK, Past, Syncing, Cleaning, CleanedPcs, CleanPcs, BatchPcs,
     SyncPcs, Latest
<1>8. CASE UNCHANGED vars
  <2>1. UNCHANGED <<height, ch, pc, syncRet, blocks>>
    BY <1>8 DEF vars, chainVars, execVars, daemonVars
  <2> QED
    BY <2>1 DEF HeightOK, Past, Syncing, Cleaning, Latest
<1> QED
  BY <1>2, <1>3, <1>4, <1>5, <1>6, <1>7, <1>8 DEF Next, RelayerStep, DaemonStep

-------------------------------------------------------------------------------
(* Cleanups *)

\* A step of the loop, or a crash, sends nothing and is outside of a cleanup or
\* at its start.
LEMMA LoopFrame ==
  ASSUME Inv, DaemonStep \/ Crash
  PROVE  /\ AccountStep /\ UNCHANGED <<bscVars, pool, sent, blocks>>
         /\ OneView' => OneView
         /\ pc' \notin CleanedPcs \cup CleanPcs \/ (pc' = "cleanSeq" /\ ci' = 1 /\ ch' = height)
         /\ pc' \in SyncPcs => syncRet' # "cleanSynced"
         /\ ~InBatch'
<1>1. UNCHANGED <<bscVars, pool, sent, blocks>>
  BY DEF DaemonStep, Crash, Start, Top, Monitor, MonitorFails, ChangeSynced, Dispatch, Cleaned
<1>2. OneView' => OneView
  BY LoopNonces, OneViewBefore DEF Crash
<1>3. /\ pc' \notin CleanedPcs \cup CleanPcs \/ (pc' = "cleanSeq" /\ ci' = 1 /\ ch' = height)
      /\ pc' \in SyncPcs => syncRet' # "cleanSynced"
  BY DEF DaemonStep, Crash, Start, Top, Monitor, MonitorFails, ChangeSynced, Dispatch, Cleaned,
     CallSync, CallClean, CleanedPcs, CleanPcs, BatchPcs, SyncPcs
<1>4. ~InBatch'
  BY <1>3 DEF InBatch, CleanPcs, BatchPcs
<1> QED
  BY <1>1, <1>2, <1>3, <1>4 DEF AccountStep

LEMMA CleanupNext ==
  ASSUME Inv, Inv', FreshInv, FreshInv', HeightOK, HeightOK', CleanupInv, [Next]_vars
  PROVE  CleanupInv'
<1>1. ExecInv /\ ExecInv'
  BY DEF Inv
<1>2. CASE DaemonStep \/ Crash
  BY <1>1, <1>2, LoopFrame, LoopCleanup DEF HeightOK
<1>3. CASE ExecutorStep
  BY <1>1, <1>3, SubroutineCleanup DEF ExecutorStep, CallStep, SubroutineStep
<1>4. CASE EnvStep
  BY <1>1, <1>4, EnvironmentCleanup DEF EnvStep, EnvOnly, BlockInReach
<1>5. CASE UNCHANGED vars
  BY <1>5, CleanupStutters DEF vars
<1> QED
  BY <1>2, <1>3, <1>4, <1>5 DEF Next, RelayerStep

\* What is known of the account and the cleanups, whatever fails.
SafeInv == Inv /\ FreshInv /\ HeightOK /\ CleanupInv

LEMMA CleanupSafety == Spec => []SafeInv
<1>1. Init => SafeInv
  <2> SUFFICES ASSUME Init PROVE SafeInv
    OBVIOUS
  <2>1. Inv /\ FreshInv
    BY InitInv, NoncesInitially DEF Init, HoldPcs
  <2>2. pc = "start" /\ ch = 0 /\ ci = 0 /\ height = 0 /\ Latest \in Nat /\ syncRet = "none"
    BY <2>1, HeightTypes DEF Init, ExecInit
  <2>3. HeightOK
    BY <2>2 DEF HeightOK, Past, Syncing, Cleaning, CleanedPcs, CleanPcs, BatchPcs, SyncPcs
  <2>4. CleanupInv
    BY <2>2, CleanupInitially DEF Init
  <2> QED
    BY <2>1, <2>3, <2>4 DEF SafeInv
<1>2. SafeInv /\ [Next]_vars => SafeInv'
  BY NextInv, FreshNext, HeightStep, CleanupNext DEF SafeInv
<1> QED
  BY <1>1, <1>2, PTL DEF Spec

\* In normal mode too a cleanup that returns no error and was never cut leaves
\* nothing behind.
THEOREM CleanupsDeliver == Spec => []CleanupDelivers
<1>1. SafeInv => CleanupDelivers
  BY CleanupDeliversFrom DEF SafeInv, CleanupInv
<1> QED
  BY <1>1, CleanupSafety, PTL

-------------------------------------------------------------------------------
(* The abstract delivery *)

LEMMA TurnStep ==
  ASSUME SafeInv, SafeInv', [Next]_vars, OneView'
  PROVE  [D!Next]_(D!vars)
<1>1. Inv /\ ExecInv /\ HeadersPending /\ CleanInv /\ AccountInv /\ AccountInv'
  <2>1. AccountInv'
    BY DEF SafeInv, Inv, ExecInv, ExecTypeOK, AccountInv
  <2> QED
    BY <2>1, HeightTypes DEF SafeInv, CleanupInv
<1>2. CASE DaemonStep \/ Crash
  <2>1. UNCHANGED <<blocks, bscVars, pool, sent>> /\ OneView
    BY <1>1, <1>2, LoopFrame
  <2> QED
    BY <1>1, <2>1, EnvironmentDelivers
<1>3. CASE ExecutorStep
  <2>1. SubroutineStep
    BY <1>3 DEF ExecutorStep, CallStep, SubroutineStep
  <2>2. OneView
    BY <2>1, OneViewBefore DEF SubroutineStep, SyncNonce, SyncQuery, QueryTendermintHeader,
         SyncSend, CleanSeq,
       CleanDeliver, CleanSynced, BatchNonce, BatchPkg, BatchSend, ReadNonce, ReadRecv, Broadcast
  <2> QED
    BY <1>1, <2>1, <2>2, SubroutineInTurn
<1>4. CASE EnvStep \/ UNCHANGED vars
  <2>1. OneView
    BY <1>4 DEF EnvStep, EnvOnly, BlockInReach, ProduceBlock, MineTx, RivalDelivers, DropTx, Fault,
       OneView, faultVars, vars, chainVars
  <2>2. ProduceBlock \/ MineTx \/ RivalDelivers \/ DropTx \/ UNCHANGED <<blocks, bscVars, pool, sent>>
    BY <1>4 DEF EnvStep, EnvOnly, BlockInReach, vars, chainVars, bscVars
  <2> QED
    BY <1>1, <2>1, <2>2, EnvironmentDelivers
<1> QED
  BY <1>2, <1>3, <1>4 DEF Next, RelayerStep

\* The cleanups of normal mode implement the abstract delivery as long as the
\* providers show one view of the account, for any channels, blocks and rivals
\* and whatever else fails: whatever is sent is sent in its turn.
THEOREM Implementation == Spec => SubmitsInTurn
<1>1. Init => D!Init
  BY DeliveryInitially DEF Init
<1>2. SafeInv /\ SafeInv' /\ [Next]_vars => [OneView' => [D!Next]_(D!vars)]_vars
  BY TurnStep
<1> QED
  BY <1>1, <1>2, CleanupSafety, PTL DEF Spec, SubmitsInTurn

-------------------------------------------------------------------------------
(* The order in which packages are sent *)

OrderInv == OneView => OrderOK

LEMMA OrderNext ==
  ASSUME SafeInv, SafeInv', OrderInv, [Next]_vars
  PROVE  OrderInv'
<1> SUFFICES ASSUME OneView' PROVE OrderOK'
  BY DEF OrderInv
<1>1. Inv /\ ExecInv /\ HeadersPending /\ CleanInv /\ AccountInv /\ AccountInv'
  <2>1. AccountInv'
    BY DEF SafeInv, Inv, ExecInv, ExecTypeOK, AccountInv
  <2> QED
    BY <2>1, HeightTypes DEF SafeInv, CleanupInv
<1>2. CASE DaemonStep \/ Crash
  BY <1>1, <1>2, LoopFrame, OrderStays DEF OrderInv
<1>3. CASE ExecutorStep
  <2>1. SubroutineStep
    BY <1>3 DEF ExecutorStep, CallStep, SubroutineStep
  <2>2. OneView
    BY <2>1, OneViewBefore DEF SubroutineStep, SyncNonce, SyncQuery, QueryTendermintHeader,
         SyncSend, CleanSeq,
       CleanDeliver, CleanSynced, BatchNonce, BatchPkg, BatchSend, ReadNonce, ReadRecv, Broadcast
  <2> QED
    BY <1>1, <2>1, <2>2, SubroutineOrder DEF OrderInv
<1>4. CASE EnvStep \/ UNCHANGED vars
  <2>1. UNCHANGED <<sent, pc, syncRet, ci, seq>> /\ AccountStep
    BY <1>4 DEF EnvStep, EnvOnly, BlockInReach, ProduceBlock, MineTx, RivalDelivers, DropTx,
       execVars, AccountStep, vars, chainVars, bscVars
  <2>2. OneView
    BY <1>4 DEF EnvStep, EnvOnly, BlockInReach, ProduceBlock, MineTx, RivalDelivers, DropTx, Fault,
       OneView, faultVars, vars, chainVars
  <2>3. InBatch' => InBatch
    BY <2>1 DEF InBatch
  <2> QED
    BY <1>1, <2>1, <2>2, <2>3, OrderStays DEF OrderInv
<1> QED
  BY <1>2, <1>3, <1>4 DEF Next, RelayerStep

LEMMA InOrderNext ==
  ASSUME SafeInv, OrderInv, SentInOrder, [Next]_vars
  PROVE  SentInOrder'
<1>1. Inv /\ ExecInv /\ ChainTypeOK /\ FreshInv
  BY HeightTypes DEF SafeInv
<1>2. \/ PackageTxs' = PackageTxs
      \/ BatchSend /\ Submit(BatchTx) /\ PackageTxs' = PackageTxs \cup {BatchTx}
  <2>1. CASE ExecutorStep
    BY <1>1, <2>1, PackagesSent DEF ExecutorStep, CallStep, SubroutineStep
  <2>2. CASE DaemonStep \/ Crash
    BY <1>1, <2>2, LoopFrame DEF PackageTxs
  <2>3. CASE EnvStep \/ UNCHANGED vars
    BY <2>3 DEF EnvStep, EnvOnly, BlockInReach, ProduceBlock, MineTx, RivalDelivers, DropTx,
       PackageTxs, vars, chainVars
  <2> QED
    BY <2>1, <2>2, <2>3 DEF Next, RelayerStep
<1>3. OneView' => OneView
  <2>1. CASE EnvStep \/ UNCHANGED vars
    BY <2>1 DEF EnvStep, EnvOnly, BlockInReach, ProduceBlock, MineTx, RivalDelivers, DropTx, Fault,
       OneView, faultVars, vars, chainVars
  <2>2. CASE ExecutorStep
    BY <2>2, OneViewBefore DEF ExecutorStep, CallStep, SyncNonce, SyncQuery,
         QueryTendermintHeader, SyncSend, CleanSeq,
       CleanDeliver, CleanSynced, BatchNonce, BatchPkg, BatchSend, ReadNonce, ReadRecv, Broadcast
  <2> QED
    BY <1>1, <2>1, <2>2, LoopFrame DEF Next, RelayerStep
<1>4. CASE PackageTxs' = PackageTxs
  BY <1>3, <1>4 DEF SentInOrder
<1>5. CASE BatchSend /\ Submit(BatchTx) /\ PackageTxs' = PackageTxs \cup {BatchTx}
  <2> SUFFICES ASSUME OneView', NEW p \in PackageTxs', NEW q \in PackageTxs',
                      p.chan = q.chan, p # q
               PROVE  p.nonce # q.nonce /\ (p.nonce < q.nonce <=> p.seq < q.seq)
    BY DEF SentInOrder
  <2>1. /\ BatchTx.nonce = nonce /\ BatchTx.chan = ChannelList[ci] /\ BatchTx.seq = seq
        /\ nonce \in Nat /\ seq \in Nat /\ pc \in HoldPcs /\ InBatch
    BY <1>1, <1>5, BatchTxType DEF BatchSend, HoldPcs, InBatch, BatchPcs, ExecInv, ExecTypeOK
  <2>2. ASSUME NEW r \in PackageTxs
        PROVE  /\ r.nonce \in Nat /\ r.seq \in Nat /\ r.nonce < nonce
               /\ r.chan = ChannelList[ci] => r.seq < seq
    <3>1. r \in sent /\ r.nonce \in Nat /\ r.seq \in Nat
      BY <1>1 DEF ChainTypeOK, PackageTxs, Tx, HeaderTxType, PackageTxType
    <3>2. r.nonce < nonce
      BY <1>1, <1>3, <2>1, <3>1, NonceAbove
    <3> QED
      BY <1>3, <2>1, <3>1, <3>2 DEF OrderInv, OrderOK, BatchAhead
  <2>3. CASE p \in PackageTxs /\ q \in PackageTxs
    BY <1>3, <2>3 DEF SentInOrder
  <2>4. CASE p \in PackageTxs /\ q = BatchTx
    <3>1. p.nonce \in Nat /\ p.seq \in Nat /\ p.nonce < nonce /\ p.seq < seq
      BY <2>1, <2>2, <2>4
    <3> QED
      BY <2>1, <2>4, <3>1
  <2>5. CASE p = BatchTx /\ q \in PackageTxs
    <3>1. q.nonce \in Nat /\ q.seq \in Nat /\ q.nonce < nonce /\ q.seq < seq
      BY <2>1, <2>2, <2>5
    <3> QED
      BY <2>1, <2>5, <3>1
  <2> QED
    BY <1>5, <2>3, <2>4, <2>5
<1> QED
  BY <1>2, <1>4, <1>5

\* Whatever fails short of a provider with another view of the account, the
\* packages of a channel are sent in order, each once.
THEOREM PackagesInOrder == Spec => []SentInOrder
<1>1. Init => OrderInv /\ SentInOrder
  BY DEF Init, ChainInit, ExecInit, OrderInv, OrderOK, SentBelow, BatchAhead, InBatch, BatchPcs,
     SyncPcs, SentInOrder, PackageTxs
<1>2. SafeInv /\ SafeInv' /\ OrderInv /\ SentInOrder /\ [Next]_vars => OrderInv' /\ SentInOrder'
  BY OrderNext, InOrderNext
<1> QED
  BY <1>1, <1>2, CleanupSafety, PTL DEF Spec

-------------------------------------------------------------------------------
(* What the walk leaves behind *)

\* Every cleanup height the walk has passed is delivered, or the walk has just
\* jumped and will clean up before it goes on.
DueBelow(h) ==
  \A c \in Monitored, m \in startHeight..(h - 1) : m % CleanInterval = 0 => Covered(c, m)
Jumped == needAccelerate /\ pc # "top" /\ (pc = "monitor" => height \in 1..Latest)
IntervalInv == NothingWrong /\ ~capped => DueBelow(height) \/ Jumped

\* The walk stays where it is, or starts.
LEMMA DueStays ==
  ASSUME SafeInv, SafeInv', AccountStep, BlocksKept, NothingWrong, NothingWrong',
         DueBelow(height), UNCHANGED <<height, startHeight>>
  PROVE  DueBelow(height)'
<1>1. AccountInv /\ AccountInv' /\ height \in Nat /\ Latest \in Nat /\ startHeight \in Nat
      /\ height <= Latest + 1 /\ OneView /\ OneView'
  <2>1. AccountInv' /\ startHeight \in Nat
    BY Types, ExecutorAssumption
    DEF SafeInv, Inv, ExecInv, ExecTypeOK, AccountInv, Uint64
  <2> QED
    BY <2>1, HeightTypes DEF SafeInv, HeightOK, NothingWrong, OneView
<1>2. ASSUME NEW c \in Monitored, NEW m \in startHeight..(height - 1), m % CleanInterval = 0
      PROVE  Got(Pending', c) >= SeqOn(blocks', c, m)
  <2>1. m \in Nat /\ m <= Latest
    BY <1>1
  <2>2. Covered(c, m)
    BY <1>2 DEF DueBelow
  <2> QED
    BY <1>1, <2>1, <2>2, CoveredOn
<1> QED
  BY <1>2 DEF DueBelow, Covered, Monitored

\* A cleanup that is through makes good for all heights below.
LEMMA DueCleaned ==
  ASSUME SafeInv, NothingWrong, ~capped, pc \in CleanedPcs
  PROVE  DueBelow(height + 1)
<1>1. ExecInv /\ AccountInv /\ OneView /\ height \in 1..Latest /\ ch = height /\ ~err
      /\ startHeight \in Nat /\ height \in Nat
  BY HeightTypes, Types, ExecutorAssumption DEF SafeInv, HeightOK, Past, NothingWrong, OneView,
     CleanupInv, SmoothInv, Uint64
<1>2. Pending \in ContractState
  BY <1>1, PendingType DEF AccountInv, FreshInv
<1>3. \A c \in Monitored : Covered(c, height)
  BY <1>1 DEF SafeInv, CleanupInv, CleanInv, CleanOK
<1>4. ASSUME NEW c \in Monitored, NEW m \in startHeight..((height + 1) - 1) PROVE Covered(c, m)
  <2>1. m \in Nat /\ m <= height
    BY <1>1
  <2> QED
    BY <1>1, <1>2, <1>3, <2>1, CoveredBelow
<1> QED
  BY <1>4 DEF DueBelow

LEMMA IntervalNext ==
  ASSUME SafeInv, SafeInv', IntervalInv, [Next]_vars
  PROVE  IntervalInv'
<1> SUFFICES ASSUME NothingWrong', ~capped' PROVE DueBelow(height)' \/ Jumped'
  BY DEF IntervalInv
<1>1. Inv /\ ExecInv /\ height \in Nat /\ Latest \in Nat /\ Latest >= 2 /\ startHeight \in Nat
      /\ (height <= Latest => Inc(height) = height + 1)
  BY HeightTypes, Types, ExecutorAssumption DEF SafeInv, Uint64
<1>2. \A k : ~Fault(k)
  BY DEF Fault, NothingWrong
<1>3. CASE DaemonStep
  <2>1. NothingWrong
    BY <1>3, LoopNonces, NothingWrongBefore
  <2>2. AccountStep /\ UNCHANGED <<bscVars, pool, sent, blocks>>
    BY <1>1, <1>3, LoopFrame
  <2>3. Pending' = Pending /\ BlocksKept /\ Latest' = Latest
    BY <1>1, <2>2, PendingFrame, BlocksStay DEF Latest
  <2>4. UNCHANGED capped
    BY <1>3 DEF DaemonStep, Start, Top, Monitor, MonitorFails, ChangeSynced, Dispatch, Cleaned
  <2>5. ASSUME NEW h, DueBelow(h), height' = h, UNCHANGED startHeight PROVE DueBelow(height)'
    BY <2>2, <2>3, <2>5 DEF DueBelow, Covered, Monitored
  <2>6. DueBelow(height) \/ Jumped
    BY <2>1, <2>4 DEF IntervalInv
  <2>7. CASE Start
    <3>1. height' = Latest /\ startHeight' = Latest
      BY <1>2, <2>7 DEF Start, LatestRead
    <3>2. Latest..(Latest - 1) = {}
      BY <1>1
    <3> QED
      BY <3>1, <3>2 DEF DueBelow
  <2>8. CASE Top
    <3>1. PICK l \in {0, Latest} :
            /\ LatestRead(l)
            /\ \/ l > height + HeightBehindThreshold /\ Jump(l)
               \/ l <= height + HeightBehindThreshold /\ UNCHANGED <<height, needAccelerate>>
      BY <2>8 DEF Top
    <3>2. l = Latest /\ pc = "top" /\ pc' = "monitor" /\ UNCHANGED startHeight
      BY <1>2, <2>8, <3>1 DEF Top, LatestRead
    <3>3. CASE Jump(l)
      <4>1. height' \in 1..Latest'
        BY <1>1, <2>3, <3>2, <3>3 DEF Jump
      <4> QED
        BY <3>2, <3>3, <4>1 DEF Jump, Jumped
    <3>4. CASE UNCHANGED <<height, needAccelerate>>
      BY <2>5, <2>6, <3>2, <3>4 DEF Jumped
    <3> QED
      BY <3>1, <3>3, <3>4
  <2>9. CASE Monitor \/ MonitorFails \/ ChangeSynced
    <3>1. UNCHANGED <<height, startHeight, needAccelerate>>
      BY <2>9 DEF Monitor, MonitorFails, ChangeSynced, daemonVars
    <3>2. CASE DueBelow(height)
      BY <2>5, <3>1, <3>2
    <3>3. CASE Jumped
      <4>1. pc' \in {"syncNonce", "dispatch"}
        BY <1>2, <2>9, <3>3 DEF Monitor, MonitorFails, ChangeSynced, CallSync, Jumped
      <4> QED
        BY <3>1, <3>3, <4>1 DEF Jumped
    <3> QED
      BY <2>6, <3>2, <3>3
  <2>10. CASE Dispatch
    <3>1. UNCHANGED <<startHeight, needAccelerate>> /\ pc = "dispatch" /\ height \in 1..Latest
      BY <2>10 DEF Dispatch, SafeInv, HeightOK, Past
    <3>2. CASE pc' = "cleanSeq" /\ UNCHANGED height
      BY <2>5, <2>6, <3>1, <3>2 DEF Jumped
    <3>3. CASE ~CleanupDue /\ height' = Inc(height)
      <4>1. DueBelow(height) /\ height % CleanInterval # 0 /\ height' = height + 1
        BY <1>1, <2>6, <3>1, <3>3 DEF CleanupDue, Jumped
      <4>2. \A m \in startHeight..((height + 1) - 1) : m \in startHeight..(height - 1) \/ m = height
        BY <1>1
      <4>3. DueBelow(height + 1)
        BY <4>1, <4>2 DEF DueBelow
      <4> QED
        BY <2>5, <3>1, <4>1, <4>3
    <3> QED
      BY <2>10, <3>2, <3>3 DEF Dispatch, CallClean
  <2>11. CASE Cleaned
    <3>1. pc \in CleanedPcs /\ height' = Inc(height) /\ UNCHANGED startHeight
      BY <2>11 DEF Cleaned, CleanedPcs
    <3>2. height \in 1..Latest
      BY <3>1 DEF SafeInv, HeightOK, Past
    <3>3. height' = height + 1
      BY <1>1, <3>1, <3>2
    <3>4. DueBelow(height + 1)
      BY <2>1, <2>4, <3>1, DueCleaned
    <3> QED
      BY <2>5, <3>1, <3>3, <3>4
  <2> QED
    BY <1>3, <2>7, <2>8, <2>9, <2>10, <2>11 DEF DaemonStep
<1>4. CASE ExecutorStep
  <2>1. SubroutineStep /\ UNCHANGED daemonVars
    BY <1>4 DEF ExecutorStep, CallStep, SubroutineStep
  <2>2. NothingWrong
    BY <2>1, NothingWrongBefore DEF SubroutineStep, SyncNonce, SyncQuery, QueryTendermintHeader,
         SyncSend, CleanSeq,
       CleanDeliver, CleanSynced, BatchNonce, BatchPkg, BatchSend, ReadNonce, ReadRecv, Broadcast
  <2>3. ~capped
    BY <2>1 DEF SubroutineStep, SyncNonce, SyncQuery, QueryTendermintHeader, SyncSend, CleanSeq,
         CleanDeliver,
       CleanSynced, BatchNonce, BatchPkg, BatchSend, Undelivered, NothingNew
  <2>4. /\ pc \in SyncPcs \cup CleanPcs /\ UNCHANGED blocks
        /\ pc' \in SyncPcs \cup CleanPcs \cup SyncedPcs \cup CleanedPcs
    <3>1. pc \in SyncPcs => syncRet \in SyncedPcs
      BY <1>1 DEF ExecInv, ControlOK
    <3> QED
      BY <1>1, <2>1, <3>1, SubroutineReturns
  <2>5. pc' \notin {"top", "monitor"}
    BY <2>4 DEF SyncPcs, CleanPcs, BatchPcs, SyncedPcs, CleanedPcs
  <2>6. AccountStep /\ BlocksKept
    BY <1>1, <2>1, <2>4, SubroutineAccount, BlocksStay
  <2> QED
    BY <2>1, <2>2, <2>3, <2>5, <2>6, DueStays DEF IntervalInv, Jumped, daemonVars
<1>5. CASE EnvStep \/ UNCHANGED vars
  <2>1. /\ UNCHANGED <<pc, capped, height, startHeight, needAccelerate>> /\ AccountStep
        /\ ProduceBlock \/ UNCHANGED blocks
    BY <1>5 DEF EnvStep, EnvOnly, BlockInReach, ProduceBlock, MineTx, RivalDelivers, DropTx,
       execVars, daemonVars, AccountStep, vars, chainVars, bscVars
  <2>2. NothingWrong
    BY <1>2, <1>5 DEF EnvStep, EnvOnly, BlockInReach, ProduceBlock, MineTx, RivalDelivers, DropTx,
       NothingWrong, faultVars, vars, chainVars
  <2>3. BlocksKept
    BY <1>1, <2>1, BlocksStay
  <2>4. Jumped => Jumped'
    <3>1. height \in 1..Latest => height' \in 1..Latest'
      <4>1. Latest' \in Nat /\ Latest <= Latest'
        BY <2>3 DEF BlocksKept
      <4>2. ASSUME NEW h, NEW l \in Nat, NEW m \in Nat, l <= m, h \in 1..l PROVE h \in 1..m
        BY <4>2
      <4> QED
        BY <1>1, <2>1, <4>1, <4>2
    <3> QED
      BY <2>1, <3>1 DEF Jumped
  <2> QED
    BY <2>1, <2>2, <2>3, <2>4, DueStays DEF IntervalInv
<1>6. ~Crash
  BY <1>2 DEF Crash
<1> QED
  BY <1>3, <1>4, <1>5, <1>6 DEF Next, RelayerStep

\* However the walk jumps: as long as nothing fails and no backlog exceeds a
\* batch, what BC had at a cleanup height is delivered or in the pool once the
\* walk is above it.
THEOREM IntervalsDelivered == Spec => []IntervalDelivered
<1>1. Init => IntervalInv
  <2> SUFFICES ASSUME Init PROVE IntervalInv
    OBVIOUS
  <2>1. height = 0 /\ startHeight = 0 /\ 0..(0 - 1) = {}
    BY DEF Init
  <2> QED
    BY <2>1 DEF IntervalInv, DueBelow
<1>2. SafeInv /\ SafeInv' /\ IntervalInv /\ [Next]_vars => IntervalInv'
  BY IntervalNext
<1>3. IntervalInv => IntervalDelivered
  BY PendingGot DEF IntervalInv, IntervalDelivered, DueBelow, Jumped, Covered, SeqAt
<1> QED
  BY <1>1, <1>2, <1>3, CleanupSafety, PTL DEF Spec
===============================================================================
