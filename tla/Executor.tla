------------------------------- MODULE Executor -------------------------------
(***************************************************************************)
(* The subroutines both daemons run: SyncTendermintLightClientHeader,      *)
(* GetPackage, BatchRelayCrossChainPackages (executor/bsc_executor.go) and *)
(* cleanPreviousPackages (relayer/cleanup.go).  One step is one call to a  *)
(* provider, since the chains move between any two calls.                  *)
(*                                                                         *)
(* pc is the control point of the one daemon thread; a subroutine returns  *)
(* by setting pc to the return point its caller left and err to whether it *)
(* returned an error.  Locals that go out of scope are reset.              *)
(***************************************************************************)
EXTENDS CrossChain

CONSTANTS
  ChannelList,          \* MonitorChannelList of the configuration
  MaxBatchSize,         \* cleanup.go: packages per channel and cleanup (30)
  SequenceGapThreshold, \* AlertConfig.SequenceGapThreshold
  Word                  \* scaled 2^64: heights are uint64

ASSUME ExecutorAssumption ==
  /\ ChannelList \in Seq(Nat)
  /\ MaxBatchSize \in Nat \ {0}
  /\ SequenceGapThreshold \in Nat
  /\ Word \in Nat
  /\ MaxHeight + 1 < Word

VARIABLES
  pc,       \* control point of the daemon
  err,      \* did the subroutine that just returned fail?
  hdr,      \* sync: the height of the header being synced
  nonce,    \* sync, batch and task: the nonce read for the next transaction
  syncRet,  \* sync: where it returns to
  ch,       \* cleanup: its height
  ci,       \* cleanup: index of the current channel
  nextSeq,  \* cleanup: next sequence on BC (nextSequence)
  seq,      \* batch: next sequence to relay
  end,      \* batch: first sequence not to relay (endSequence)
  synced,   \* cleanup: has header ch+1 been synced by this call? (blockSynced)
  accel,    \* cleanup: its first result (needAccelerate)
  cleanRet, \* cleanup: where it returns to
  capped    \* history: has a cleanup left packages out of its batch?

syncVars == <<hdr, syncRet>>
batchVars == <<seq, end>>
cleanVars == <<ch, ci, nextSeq, synced, accel, cleanRet>>
execVars == <<pc, err, hdr, nonce, syncRet, ch, ci, nextSeq, seq, end, synced, accel, cleanRet, capped>>

Inc_NoWrap(h) == h + 1
Inc(h) == (h + 1) % Word

\* CallBuildInSystemContract names the header that proves a package of height h.
ProofHeader_SameHeight(h) == h
ProofHeader(h) == Inc(h)

-------------------------------------------------------------------------------
(* SyncTendermintLightClientHeader(h) *)

CallSync(h, ret) == pc' = "syncNonce" /\ hdr' = h /\ syncRet' = ret
ReturnSync(failed) ==
  pc' = syncRet /\ err' = failed /\ hdr' = 0 /\ syncRet' = "none" /\ nonce' = 0

SyncNonce ==
  /\ pc = "syncNonce"
  /\ \/ /\ \E n \in Nonces : ReadNonce(n) /\ nonce' = n
        /\ pc' = "syncQuery"
        /\ UNCHANGED <<err, syncVars>>
     \/ Fault("rpc") /\ ReturnSync(TRUE)
  /\ UNCHANGED <<blocks, bscVars, pool, sent, batchVars, cleanVars, capped>>

\* tryAgain: while the header does not exist yet the query is repeated with
\* no pause and no limit; a height no block can have is another error.
SyncQuery ==
  /\ pc = "syncQuery"
  /\ \/ /\ QueryTendermintHeader(hdr)
        /\ pc' = "syncSend" /\ NoFault /\ UNCHANGED <<err, nonce, syncVars>>
     \/ /\ hdr > Latest
        /\ NoFault /\ UNCHANGED <<pc, err, nonce, syncVars>>
     \/ /\ hdr < 1
        /\ ReturnSync(TRUE) /\ NoFault
     \/ Fault("rpc") /\ ReturnSync(TRUE)
  /\ UNCHANGED <<blocks, bscVars, pool, sent, batchVars, cleanVars, capped>>

SyncSend ==
  /\ pc = "syncSend"
  /\ \E ok \in BOOLEAN : Broadcast(HeaderTx(hdr, nonce), ok) /\ ReturnSync(~ok)
  /\ UNCHANGED <<blocks, bscVars, batchVars, cleanVars, capped>>

-------------------------------------------------------------------------------
(* cleanPreviousPackages(h) *)

CallClean(h, ret) ==
  /\ pc' = "cleanSeq" /\ ch' = h /\ cleanRet' = ret
  /\ ci' = 1 /\ synced' = FALSE /\ accel' = FALSE
  /\ UNCHANGED nextSeq
\* The caller still needs ch, accel and err; it forgets them with EndClean.
ReturnClean(failed) ==
  /\ pc' = cleanRet /\ err' = failed /\ cleanRet' = "none"
  /\ ci' = 0 /\ synced' = FALSE /\ nextSeq' = 0
  /\ seq' = 0 /\ end' = 0 /\ nonce' = 0
  /\ UNCHANGED <<ch, accel>>
EndClean == ch' = 0 /\ accel' = FALSE /\ UNCHANGED <<ci, nextSeq, synced, cleanRet>>

\* GetNextSequence on BC.  An error also switches the BC client.
CleanSeq ==
  /\ pc = "cleanSeq"
  /\ \/ /\ ci > Len(ChannelList)
        /\ ReturnClean(FALSE) /\ NoFault
     \/ /\ ci <= Len(ChannelList)
        /\ nextSeq' = SeqAt(ChannelList[ci], ch)
        /\ pc' = "cleanDeliver" /\ NoFault
        /\ UNCHANGED <<err, nonce, batchVars, ch, ci, synced, accel, cleanRet>>
     \/ /\ ci <= Len(ChannelList)
        /\ Fault("rpc") /\ ReturnClean(TRUE)
  /\ UNCHANGED <<blocks, bscVars, pool, sent, syncVars, capped>>

NextChannel == pc' = "cleanSeq" /\ ci' = ci + 1 /\ nextSeq' = 0

Smaller(a, b) == IF a < b THEN a ELSE b
BatchEnd_OneShort(d) == Smaller(nextSeq, d + MaxBatchSize) - 1
BatchEnd(d) == Smaller(nextSeq, d + MaxBatchSize)

Undelivered_SkipsNext(d) ==
  /\ nextSeq > d
  /\ seq' = d + 1
  /\ end' = BatchEnd(d)
  /\ capped' = (capped \/ nextSeq > d + MaxBatchSize)
  /\ accel' = (accel \/ nextSeq - d >= SequenceGapThreshold \div 2)
  /\ nextSeq' = 0
  /\ IF synced THEN pc' = "batchNonce" /\ UNCHANGED syncVars
               ELSE CallSync(Inc(ch), "cleanSynced")
  /\ UNCHANGED ci
\* GetNextSequence on BSC returned d, less than the next sequence on BC: the
\* batch is cut at MaxBatchSize packages, the header above ch is synced once.
Undelivered(d) ==
  /\ nextSeq > d
  /\ seq' = d
  /\ end' = BatchEnd(d)
  /\ capped' = (capped \/ nextSeq > d + MaxBatchSize)
  /\ accel' = (accel \/ nextSeq - d >= SequenceGapThreshold \div 2)
  /\ nextSeq' = 0
  /\ IF synced THEN pc' = "batchNonce" /\ UNCHANGED syncVars
               ELSE CallSync(Inc(ch), "cleanSynced")
  /\ UNCHANGED ci
NothingNew(d) ==
  /\ nextSeq <= d
  /\ NextChannel
  /\ UNCHANGED <<capped, batchVars, accel, syncVars>>

CleanDeliver ==
  /\ pc = "cleanDeliver"
  /\ \/ /\ \E d \in Recvs(ChannelList[ci]) :
             ReadRecv(ChannelList[ci], d) /\ (Undelivered(d) \/ NothingNew(d))
        /\ UNCHANGED <<err, nonce, ch, synced, cleanRet>>
     \/ Fault("rpc") /\ ReturnClean(TRUE) /\ UNCHANGED <<capped, syncVars>>
  /\ UNCHANGED <<blocks, bscVars, pool, sent>>

CleanSynced_IgnoresError ==
  /\ pc = "cleanSynced"
  /\ pc' = "batchNonce" /\ synced' = TRUE
  /\ NoFault
  /\ UNCHANGED <<err, nonce, batchVars, ch, ci, nextSeq, accel, cleanRet>>
  /\ UNCHANGED <<blocks, bscVars, pool, sent, syncVars, capped>>
CleanSynced ==
  /\ pc = "cleanSynced"
  /\ IF err THEN ReturnClean(TRUE)
     ELSE /\ pc' = "batchNonce" /\ synced' = TRUE
          /\ UNCHANGED <<err, nonce, batchVars, ch, ci, nextSeq, accel, cleanRet>>
  /\ NoFault
  /\ UNCHANGED <<blocks, bscVars, pool, sent, syncVars, capped>>

-------------------------------------------------------------------------------
(* BatchRelayCrossChainPackages: one nonce is read, then counted up *)

BatchNonce ==
  /\ pc = "batchNonce"
  /\ \/ /\ \E n \in Nonces : ReadNonce(n) /\ nonce' = n
        /\ pc' = "batchPkg"
        /\ UNCHANGED <<err, batchVars, cleanVars>>
     \/ Fault("rpc") /\ ReturnClean(TRUE)
  /\ UNCHANGED <<blocks, bscVars, pool, sent, syncVars, capped>>

\* GetPackage; a package that does not exist is an error after ten tries.
BatchPkg ==
  /\ pc = "batchPkg"
  /\ \/ /\ seq >= end
        /\ NextChannel /\ seq' = 0 /\ end' = 0 /\ nonce' = 0 /\ NoFault
        /\ UNCHANGED <<err, ch, synced, accel, cleanRet>>
     \/ /\ seq < end /\ PackageExists(ChannelList[ci], seq, ch)
        /\ pc' = "batchSend" /\ NoFault
        /\ UNCHANGED <<err, nonce, batchVars, cleanVars>>
     \/ /\ ~PackageExists(ChannelList[ci], seq, ch)
        /\ ReturnClean(TRUE) /\ NoFault
     \/ Fault("rpc") /\ ReturnClean(TRUE)
  /\ UNCHANGED <<blocks, bscVars, pool, sent, syncVars, capped>>

Sent_SameNonce ==
  \/ /\ seq + 1 < end
     /\ pc' = "batchPkg" /\ seq' = seq + 1 /\ nonce' = nonce
     /\ UNCHANGED <<err, end, cleanVars>>
  \/ /\ seq + 1 >= end
     /\ NextChannel /\ seq' = 0 /\ end' = 0 /\ nonce' = 0
     /\ UNCHANGED <<err, ch, synced, accel, cleanRet>>
\* A package is out: the batch goes on, or is done and so is the channel.
Sent ==
  \/ /\ seq + 1 < end
     /\ pc' = "batchPkg" /\ seq' = seq + 1 /\ nonce' = nonce + 1
     /\ UNCHANGED <<err, end, cleanVars>>
  \/ /\ seq + 1 >= end
     /\ NextChannel /\ seq' = 0 /\ end' = 0 /\ nonce' = 0
     /\ UNCHANGED <<err, ch, synced, accel, cleanRet>>

BatchSend ==
  /\ pc = "batchSend"
  /\ \E ok \in BOOLEAN :
       /\ Broadcast(PackageTx(ChannelList[ci], seq, ch, ProofHeader(ch), nonce), ok)
       /\ (ok /\ Sent) \/ (~ok /\ ReturnClean(TRUE))
  /\ UNCHANGED <<blocks, bscVars, syncVars, capped>>

ExecInit ==
  /\ err = FALSE /\ hdr = 0 /\ nonce = 0 /\ syncRet = "none"
  /\ nextSeq = 0 /\ seq = 0 /\ end = 0 /\ synced = FALSE /\ accel = FALSE
  /\ capped = FALSE
===============================================================================
