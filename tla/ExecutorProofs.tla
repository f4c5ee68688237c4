---------------------------- MODULE ExecutorProofs ----------------------------
(***************************************************************************)
(* What the chains' steps and each step of the executor's subroutines do   *)
(* to ExecInv, whichever daemon calls them: lemmas the proofs about both   *)
(* daemons cite.                                                           *)
(***************************************************************************)
EXTENDS ExecutorProps, FiniteSetTheorems, SequenceTheorems, WellFoundedInduction, TLAPS

\* uint64 increment stays in the word and is +1 below the wrap-around.
LEMMA IncProperties ==
  ASSUME NEW h \in Uint64
  PROVE  /\ Inc(h) \in Uint64
         /\ h + 1 < Word => Inc(h) = h + 1
  BY ExecutorAssumption, BoundsAssumption DEF Uint64, Inc

\* The transactions the executor builds are well formed.
LEMMA HeaderTxType_ ==
  ASSUME NEW h \in Uint64, NEW n \in Nat
  PROVE  /\ HeaderTx(h, n) \in Tx
         /\ HeaderTx(h, n).kind = "header"
         /\ HeaderTx(h, n).height = h
  BY ExecutorAssumption DEF HeaderTx, Tx, HeaderTxType, Uint64

LEMMA PackageTxType_ ==
  ASSUME NEW c \in Nat, NEW s \in Nat, NEW at \in Uint64, NEW h \in Uint64, NEW n \in Nat
  PROVE  /\ PackageTx(c, s, at, h, n) \in Tx
         /\ PackageTx(c, s, at, h, n).kind = "package"
         /\ PackageTx(c, s, at, h, n).chan = c
         /\ PackageTx(c, s, at, h, n).seq = s
         /\ PackageTx(c, s, at, h, n).at = at
         /\ PackageTx(c, s, at, h, n).hdr = h
  BY ExecutorAssumption DEF PackageTx, Tx, PackageTxType, Uint64

\* A fault, or none, leaves the fault bookkeeping well typed.
LEMMA FaultTypes ==
  ASSUME ChainTypeOK, NoFault \/ \E k : Fault(k)
  PROVE  faults' \in Nat /\ incidents' \subseteq AllFaults
  BY FaultsAssumption DEF ChainTypeOK, NoFault, Fault, faultVars

\* Broadcasting adds at most the one transaction, and adds it when it says so.
LEMMA BroadcastEffect ==
  ASSUME ChainTypeOK, NEW t \in Tx, NEW ok \in BOOLEAN, Broadcast(t, ok)
  PROVE  /\ sent' = sent \/ sent' = sent \cup {t}
         /\ ok => sent' = sent \cup {t}
         /\ pool' \subseteq Tx /\ IsFiniteSet(pool')
         /\ PoolSent => PoolSent'
         /\ faults' \in Nat /\ incidents' \subseteq AllFaults
<1>1. faults' \in Nat /\ incidents' \subseteq AllFaults
  BY FaultTypes DEF Broadcast
<1>2. IsFiniteSet(pool \cup {t})
  BY FS_AddElement DEF ChainTypeOK
<1> QED
  BY <1>1, <1>2 DEF Broadcast, Submit, ChainTypeOK, PoolSent

\* A header once sent stays sent.
LEMMA HeaderSentStable ==
  ASSUME sent \subseteq sent', NEW h, HeaderSent(h)
  PROVE  HeaderSent(h)'
  BY DEF HeaderSent

\* Reads of the nonce and of the next sequence are numbers.
LEMMA ReadTypes ==
  ASSUME ChainTypeOK
  PROVE  /\ Nonces \subseteq Nat
         /\ \A c : Recvs(c) \subseteq Nat
<1>1. Cardinality(pool) \in Nat
  BY FS_CardinalityType DEF ChainTypeOK
<1>2. acctNonce \in Nat /\ \A c \in Channels : recv[c] \in Nat
  BY DEF ChainTypeOK
<1> QED
  BY <1>1, <1>2 DEF Nonces, Recvs

\* BC's next sequence numbers are numbers, and a package that exists has a
\* number, a channel and a block.
LEMMA SeqAtType ==
  ASSUME ChainTypeOK, NEW c, NEW h
  PROVE  /\ SeqAt(c, h) \in Nat
         /\ \A s : PackageExists(c, s, h) => c \in Channels /\ h \in 1..Latest
<1>1. Latest \in Nat /\ \A i \in 1..Latest : blocks[i] \in BlockType
  BY LenProperties, ElementOfSeq DEF ChainTypeOK, Latest
<1>2. \A i \in 1..Latest : blocks[i].seqAt \in [Channels -> Nat]
  BY <1>1 DEF BlockType
<1>3. CASE h \in 1..Latest /\ c \in Channels
  <2>1. SeqAt(c, h) = blocks[h].seqAt[c]
    BY <1>3 DEF SeqAt, SeqOn, Latest
  <2> QED
    BY <1>2, <1>3, <2>1
<1>4. CASE ~(h \in 1..Latest /\ c \in Channels)
  <2>1. SeqAt(c, h) = 0
    BY <1>4 DEF SeqAt, SeqOn, Latest
  <2>2. 0..(0 - 1) = {}
    OBVIOUS
  <2> QED
    BY <2>1, <2>2 DEF PackageExists
<1> QED
  BY <1>3, <1>4

\* A transaction added to sent keeps PackageProvable if it is a header or a
\* package that exists and whose header is out.
LEMMA ProvableExtends ==
  ASSUME PackageProvable, UNCHANGED blocks, NEW t, sent' = sent \cup {t},
         t.kind = "package" =>
           t.hdr = t.at + 1 /\ PackageExists(t.chan, t.seq, t.at) /\ HeaderSent(t.hdr)
  PROVE  PackageProvable'
<1>1. sent \subseteq sent'
  OBVIOUS
<1>2. \A c, s, h : PackageExists(c, s, h)' <=> PackageExists(c, s, h)
  BY DEF PackageExists, SeqAt, SeqOn, Latest
<1> SUFFICES ASSUME NEW p \in PackageTxs'
             PROVE  p.hdr = p.at + 1 /\ PackageExists(p.chan, p.seq, p.at)' /\ HeaderSent(p.hdr)'
  BY DEF PackageProvable
<1>3. p \in sent \cup {t} /\ p.kind = "package"
  BY DEF PackageTxs
<1>4. p.hdr = p.at + 1 /\ PackageExists(p.chan, p.seq, p.at) /\ HeaderSent(p.hdr)
  BY <1>3 DEF PackageProvable, PackageTxs
<1> QED
  BY <1>1, <1>2, <1>4, HeaderSentStable

LEMMA ProvableFrame ==
  ASSUME PackageProvable, UNCHANGED <<blocks, sent>>
  PROVE  PackageProvable'
  BY DEF PackageProvable, PackageTxs, PackageExists, SeqAt, SeqOn, Latest, HeaderSent

-------------------------------------------------------------------------------
(* Frames *)

LEMMA QuietChain ==
  ASSUME ChainTypeOK, UNCHANGED <<blocks, bscVars, pool, sent>>, NoFault \/ \E k : Fault(k)
  PROVE  ChainTypeOK'
  BY FaultTypes DEF ChainTypeOK, bscVars, Latest

LEMMA SendChain ==
  ASSUME ChainTypeOK, NEW t \in Tx, NEW ok \in BOOLEAN, Broadcast(t, ok),
         UNCHANGED <<blocks, bscVars>>
  PROVE  ChainTypeOK'
<1>1. sent' \subseteq Tx
  BY BroadcastEffect DEF ChainTypeOK
<1> QED
  BY <1>1, BroadcastEffect DEF ChainTypeOK, bscVars, Latest

LEMMA StoreFrame ==
  ASSUME UNCHANGED blocks
  PROVE  /\ \A c, s, h : PackageExists(c, s, h)' <=> PackageExists(c, s, h)
         /\ SequencesGrow => SequencesGrow'
  BY DEF PackageExists, SeqAt, SeqOn, Latest, SequencesGrow

\* A step that touches neither the chains nor the history of transactions
\* preserves the invariant if the types and the control facts hold after it.
LEMMA QuietStep ==
  ASSUME ExecInv, UNCHANGED <<blocks, bscVars, pool, sent>>,
         NoFault \/ \E k : Fault(k),
         ChainTypeOK' => ExecTypeOK' /\ ControlOK'
  PROVE  ExecInv'
  BY QuietChain, StoreFrame, ProvableFrame DEF ExecInv, ExecTypeOK, PoolSent

-------------------------------------------------------------------------------
(* SyncTendermintLightClientHeader *)

LEMMA SyncNoncePreserves ==
  ASSUME ExecInv, SyncNonce
  PROVE  ExecInv'
<1>1. nonce' \in Nat
  BY ReadTypes DEF SyncNonce, ReturnSync, ExecInv, ExecTypeOK
<1>2. NoFault \/ \E k : Fault(k)
  BY DEF SyncNonce, ReadNonce
<1>3. HeaderSent(Inc(ch))' <=> HeaderSent(Inc(ch))
  BY DEF SyncNonce, HeaderSent, Inc, cleanVars
<1>5. 0 \in Uint64
  BY ExecutorAssumption, BoundsAssumption DEF Uint64
<1>6. ASSUME ChainTypeOK' PROVE ExecTypeOK'
  BY <1>1, <1>5, <1>6 DEF SyncNonce, ReturnSync, ExecInv, ExecTypeOK, syncVars, batchVars, cleanVars
<1>7. CASE pc' = "syncQuery" /\ UNCHANGED <<err, syncVars>>
  <2>1. ControlOK'
    BY <1>3, <1>7 DEF SyncNonce, ExecInv, ControlOK, Cleaning, SyncPcs, BatchPcs, CleanPcs,
       syncVars, batchVars, cleanVars
  <2> QED
    BY <1>2, <1>6, <2>1, QuietStep DEF SyncNonce
<1>8. CASE ReturnSync(TRUE)
  <2>1. ControlOK'
    BY <1>3, <1>8 DEF SyncNonce, ReturnSync, ExecInv, ControlOK, Cleaning, SyncPcs, SyncedPcs,
       BatchPcs, CleanPcs, syncVars, batchVars, cleanVars
  <2> QED
    BY <1>2, <1>6, <2>1, QuietStep DEF SyncNonce
<1> QED
  BY <1>7, <1>8 DEF SyncNonce

LEMMA SyncQueryPreserves ==
  ASSUME ExecInv, SyncQuery
  PROVE  ExecInv'
<1>1. NoFault \/ \E k : Fault(k)
  BY DEF SyncQuery, QueryTendermintHeader
<1>2. HeaderSent(Inc(ch))' <=> HeaderSent(Inc(ch))
  BY DEF SyncQuery, QueryTendermintHeader, HeaderSent, Inc, cleanVars
<1>3. 0 \in Uint64
  BY ExecutorAssumption, BoundsAssumption DEF Uint64
<1>4. ASSUME ChainTypeOK' PROVE ExecTypeOK'
  <2>1. CASE UNCHANGED <<err, nonce, syncVars>>
    BY <1>4, <2>1 DEF SyncQuery, QueryTendermintHeader, ExecInv, ExecTypeOK, syncVars, batchVars,
         cleanVars
  <2>2. CASE ReturnSync(TRUE)
    BY <1>3, <1>4, <2>2 DEF SyncQuery, QueryTendermintHeader, ReturnSync, ExecInv, ExecTypeOK,
         batchVars, cleanVars
  <2> QED
    BY <2>1, <2>2 DEF SyncQuery, QueryTendermintHeader
<1>5. CASE pc' \in {"syncQuery", "syncSend"} /\ UNCHANGED <<err, syncVars>>
  <2>1. ControlOK'
    BY <1>2, <1>5 DEF SyncQuery, QueryTendermintHeader, ExecInv, ControlOK, Cleaning, SyncPcs,
         BatchPcs, CleanPcs,
       syncVars, batchVars, cleanVars
  <2> QED
    BY <1>1, <1>4, <2>1, QuietStep DEF SyncQuery, QueryTendermintHeader
<1>6. CASE ReturnSync(TRUE)
  <2>1. ControlOK'
    BY <1>2, <1>6 DEF SyncQuery, QueryTendermintHeader, ReturnSync, ExecInv, ControlOK, Cleaning,
         SyncPcs, SyncedPcs,
       BatchPcs, CleanPcs, syncVars, batchVars, cleanVars
  <2> QED
    BY <1>1, <1>4, <2>1, QuietStep DEF SyncQuery, QueryTendermintHeader
<1> QED
  BY <1>5, <1>6 DEF SyncQuery, QueryTendermintHeader, syncVars

\* A sync that reports success has put its header into sent; it returns to its
\* caller in any case.
LEMMA SyncSendEffect ==
  ASSUME ExecInv, SyncSend
  PROVE  /\ sent \subseteq sent'
         /\ ~err' => \E t \in sent' : t.kind = "header" /\ t.height = hdr
         /\ pc' = syncRet /\ err' \in BOOLEAN
<1>1. PICK ok \in BOOLEAN : Broadcast(HeaderTx(hdr, nonce), ok) /\ ReturnSync(~ok)
  BY DEF SyncSend
<1>2. HeaderTx(hdr, nonce) \in Tx /\ HeaderTx(hdr, nonce).kind = "header"
      /\ HeaderTx(hdr, nonce).height = hdr
  BY HeaderTxType_ DEF ExecInv, ExecTypeOK
<1>3. (sent' = sent \/ sent' = sent \cup {HeaderTx(hdr, nonce)})
      /\ (ok => sent' = sent \cup {HeaderTx(hdr, nonce)})
  BY <1>1, <1>2, BroadcastEffect DEF ExecInv, ExecTypeOK
<1>4. ok => \E t \in sent' : t.kind = "header" /\ t.height = hdr
  BY <1>2, <1>3
<1> QED
  BY <1>1, <1>3, <1>4 DEF ReturnSync

LEMMA SyncSendPreserves ==
  ASSUME ExecInv, SyncSend
  PROVE  ExecInv'
<1>1. PICK ok \in BOOLEAN : Broadcast(HeaderTx(hdr, nonce), ok) /\ ReturnSync(~ok)
  BY DEF SyncSend
<1>2. HeaderTx(hdr, nonce) \in Tx /\ HeaderTx(hdr, nonce).kind = "header"
  BY HeaderTxType_ DEF ExecInv, ExecTypeOK
<1>3. sent' = sent \/ sent' = sent \cup {HeaderTx(hdr, nonce)}
  BY <1>1, <1>2, BroadcastEffect DEF ExecInv, ExecTypeOK
<1>4. ChainTypeOK'
  BY <1>1, <1>2, SendChain DEF SyncSend, ExecInv, ExecTypeOK
<1>5. 0 \in Uint64
  BY ExecutorAssumption, BoundsAssumption DEF Uint64
<1>6. ExecTypeOK'
  BY <1>1, <1>4, <1>5 DEF SyncSend, ReturnSync, ExecInv, ExecTypeOK, batchVars, cleanVars
<1>7. PackageProvable'
  BY <1>2, <1>3, ProvableExtends, ProvableFrame DEF SyncSend, ExecInv
<1>8. SequencesGrow'
  BY StoreFrame DEF SyncSend, ExecInv
<1>9. ControlOK'
  <2>1. HeaderSent(Inc(ch)) => HeaderSent(Inc(ch))'
    BY SyncSendEffect, HeaderSentStable DEF SyncSend, cleanVars, HeaderSent, Inc
  <2>2. pc' = "cleanSynced" /\ ~err' => HeaderSent(Inc(ch))'
    BY SyncSendEffect DEF SyncSend, cleanVars, HeaderSent, Inc, ExecInv, ControlOK, SyncPcs
  <2> QED
    BY <1>1, <2>1, <2>2 DEF SyncSend, ReturnSync, ExecInv, ControlOK, Cleaning, SyncPcs, SyncedPcs,
       BatchPcs, CleanPcs, batchVars, cleanVars
<1>10. PoolSent'
  BY <1>1, <1>2, BroadcastEffect DEF ExecInv, ExecTypeOK
<1> QED
  BY <1>6, <1>7, <1>8, <1>9, <1>10 DEF ExecInv

-------------------------------------------------------------------------------
(* cleanPreviousPackages *)

\* A cleanup that returns leaves every control fact vacuous.
LEMMA ReturnCleanControl ==
  ASSUME ExecInv, Cleaning, pc \notin SyncPcs, NEW f \in BOOLEAN, ReturnClean(f)
  PROVE  ControlOK'
<1>1. pc' \in CleanedPcs
  BY DEF ReturnClean, ExecInv, ControlOK
<1> QED
  BY <1>1 DEF ControlOK, CleanedPcs, Cleaning, SyncPcs, BatchPcs, CleanPcs

LEMMA CleanSeqPreserves ==
  ASSUME ExecInv, CleanSeq
  PROVE  ExecInv'
<1>1. NoFault \/ \E k : Fault(k)
  BY DEF CleanSeq
<1>2. HeaderSent(Inc(ch))' <=> HeaderSent(Inc(ch))
  BY DEF CleanSeq, ReturnClean, HeaderSent, Inc
<1>3. SeqAt(ChannelList[ci], ch) \in Nat
  BY SeqAtType DEF ExecInv, ExecTypeOK
<1>4. ASSUME ChainTypeOK' PROVE ExecTypeOK'
  <2>1. CASE \E f \in BOOLEAN : ReturnClean(f)
    <3>1. PICK f \in BOOLEAN : ReturnClean(f)
      BY <2>1
    <3>2. UNCHANGED <<syncVars, capped>>
      BY DEF CleanSeq
    <3> QED
      BY <1>4, <3>1, <3>2 DEF ReturnClean, ExecInv, ExecTypeOK, syncVars
  <2>2. CASE /\ nextSeq' = SeqAt(ChannelList[ci], ch)
             /\ UNCHANGED <<err, nonce, batchVars, ch, ci, synced, accel, cleanRet>>
    BY <1>3, <1>4, <2>2 DEF CleanSeq, ExecInv, ExecTypeOK, syncVars, batchVars
  <2> QED
    BY <2>1, <2>2 DEF CleanSeq
<1>5. Cleaning /\ pc \notin SyncPcs
  BY DEF CleanSeq, Cleaning, CleanPcs, SyncPcs
<1>6. CASE pc' = "cleanDeliver" /\ ci <= Len(ChannelList)
           /\ UNCHANGED <<err, batchVars, ch, ci, synced, accel, cleanRet>>
  <2>1. ControlOK'
    BY <1>2, <1>5, <1>6 DEF ExecInv, ControlOK, Cleaning, SyncPcs, BatchPcs, CleanPcs
  <2> QED
    BY <1>1, <1>4, <2>1, QuietStep DEF CleanSeq
<1>7. CASE \E f \in BOOLEAN : ReturnClean(f)
  <2>1. ControlOK'
    BY <1>5, <1>7, ReturnCleanControl
  <2> QED
    BY <1>1, <1>4, <2>1, QuietStep DEF CleanSeq
<1> QED
  BY <1>6, <1>7 DEF CleanSeq

LEMMA CleanDeliverPreserves ==
  ASSUME ExecInv, CleanDeliver
  PROVE  ExecInv'
<1>1. NoFault \/ \E k : Fault(k)
  BY DEF CleanDeliver, ReadRecv
<1>2. Cleaning /\ pc \notin SyncPcs
  BY DEF CleanDeliver, Cleaning, CleanPcs, SyncPcs
<1>3. UNCHANGED <<blocks, bscVars, pool, sent>>
  BY DEF CleanDeliver
<1>4. HeaderSent(Inc(ch))' <=> HeaderSent(Inc(ch))
  BY <1>3 DEF CleanDeliver, ReturnClean, HeaderSent, Inc
<1>5. CASE \E d \in Recvs(ChannelList[ci]) : Undelivered(d) \/ NothingNew(d)
  <2>1. PICK d \in Nat : Undelivered(d) \/ NothingNew(d)
    BY <1>5, ReadTypes DEF ExecInv, ExecTypeOK
  <2>2. CASE ReturnClean(TRUE)
    <3>1. ASSUME ChainTypeOK' PROVE ExecTypeOK'
      BY <2>1, <2>2, <3>1 DEF CleanDeliver, ReturnClean, Undelivered, NothingNew, NextChannel,
         CallSync, BatchEnd, Smaller, ExecInv, ExecTypeOK, syncVars, batchVars
    <3> QED
      BY <1>1, <1>2, <1>3, <2>2, <3>1, ReturnCleanControl, QuietStep
  <2>3. CASE UNCHANGED <<err, nonce, ch, synced, cleanRet>>
    <3>1. ASSUME ChainTypeOK' PROVE ExecTypeOK'
      <4>1. CASE Undelivered(d)
        <5>1. Inc(ch) \in Uint64 /\ BatchEnd(d) \in Nat
          BY IncProperties, ExecutorAssumption DEF ExecInv, ExecTypeOK, BatchEnd, Smaller
        <5>2. ci' = ci /\ seq' = d /\ end' = BatchEnd(d) /\ nextSeq' = 0
              /\ accel' \in BOOLEAN /\ capped' \in BOOLEAN
          BY <4>1 DEF Undelivered
        <5>3. hdr' \in {hdr, Inc(ch)} /\ syncRet' \in {syncRet, "cleanSynced"}
          BY <4>1 DEF Undelivered, CallSync, syncVars
        <5> QED
          BY <2>3, <3>1, <5>1, <5>2, <5>3 DEF ExecInv, ExecTypeOK, SyncedPcs
      <4>2. CASE NothingNew(d)
        BY <2>3, <3>1, <4>2 DEF NothingNew, NextChannel, ExecInv, ExecTypeOK, syncVars, batchVars
      <4> QED
        BY <2>1, <4>1, <4>2
    <3>2. ControlOK'
      <4>1. CASE Undelivered(d)
        <5>1. CASE synced
          BY <1>2, <1>4, <2>3, <4>1, <5>1 DEF CleanDeliver, Undelivered, ExecInv, ControlOK, Cleaning,
             SyncPcs, BatchPcs, CleanPcs, SyncedPcs
        <5>2. CASE ~synced
          BY <1>2, <1>4, <2>3, <4>1, <5>2 DEF CleanDeliver, Undelivered, CallSync, ExecInv, ControlOK,
             Cleaning, SyncPcs, BatchPcs, CleanPcs, SyncedPcs, Inc
        <5> QED
          BY <5>1, <5>2
      <4>2. CASE NothingNew(d)
        BY <1>2, <1>4, <2>3, <4>2 DEF CleanDeliver, NothingNew, NextChannel, ExecInv, ExecTypeOK,
           ControlOK, Cleaning, SyncPcs, BatchPcs, CleanPcs
      <4> QED
        BY <2>1, <4>1, <4>2
    <3> QED
      BY <1>1, <1>3, <3>1, <3>2, QuietStep
  <2> QED
    BY <2>2, <2>3 DEF CleanDeliver
<1>6. CASE ReturnClean(TRUE) /\ UNCHANGED <<capped, syncVars>>
  <2>1. ASSUME ChainTypeOK' PROVE ExecTypeOK'
    BY <1>6, <2>1 DEF ReturnClean, ExecInv, ExecTypeOK, syncVars
  <2> QED
    BY <1>1, <1>2, <1>3, <1>6, <2>1, ReturnCleanControl, QuietStep
<1> QED
  BY <1>5, <1>6 DEF CleanDeliver

LEMMA CleanSyncedPreserves ==
  ASSUME ExecInv, CleanSynced
  PROVE  ExecInv'
<1>1. UNCHANGED <<blocks, bscVars, pool, sent, syncVars, capped>> /\ NoFault
  BY DEF CleanSynced
<1>2. Cleaning /\ pc \notin SyncPcs
  BY DEF CleanSynced, Cleaning, CleanPcs, SyncPcs
<1>3. CASE err
  <2>1. ReturnClean(TRUE)
    BY <1>3 DEF CleanSynced
  <2>2. ASSUME ChainTypeOK' PROVE ExecTypeOK'
    BY <1>1, <2>1, <2>2 DEF ReturnClean, ExecInv, ExecTypeOK, syncVars
  <2> QED
    BY <1>1, <1>2, <2>1, <2>2, ReturnCleanControl, QuietStep
<1>4. CASE ~err
  <2>1. pc' = "batchNonce" /\ synced' = TRUE
        /\ UNCHANGED <<err, nonce, batchVars, ch, ci, nextSeq, accel, cleanRet>>
    BY <1>4 DEF CleanSynced
  <2>2. ASSUME ChainTypeOK' PROVE ExecTypeOK'
    BY <1>1, <2>1, <2>2 DEF ExecInv, ExecTypeOK, syncVars, batchVars
  <2>3. HeaderSent(Inc(ch)) /\ (HeaderSent(Inc(ch)) => HeaderSent(Inc(ch))')
    BY <1>1, <1>4, <2>1 DEF CleanSynced, ExecInv, ControlOK, HeaderSent, Inc
  <2>4. ControlOK'
    BY <1>2, <2>1, <2>3 DEF CleanSynced, ExecInv, ControlOK, Cleaning, SyncPcs, BatchPcs, CleanPcs
  <2> QED
    BY <1>1, <2>2, <2>4, QuietStep
<1> QED
  BY <1>3, <1>4

LEMMA BatchNoncePreserves ==
  ASSUME ExecInv, BatchNonce
  PROVE  ExecInv'
<1>1. UNCHANGED <<blocks, bscVars, pool, sent, syncVars, capped>> /\ (NoFault \/ \E k : Fault(k))
  BY DEF BatchNonce, ReadNonce
<1>2. Cleaning /\ pc \notin SyncPcs
  BY DEF BatchNonce, Cleaning, CleanPcs, BatchPcs, SyncPcs
<1>3. CASE ReturnClean(TRUE)
  <2>1. UNCHANGED <<syncVars, capped>>
    BY <1>1
  <2>2. ASSUME ChainTypeOK' PROVE ExecTypeOK'
    BY <1>3, <2>1, <2>2 DEF ReturnClean, ExecInv, ExecTypeOK, syncVars
  <2> QED
    BY <1>1, <1>2, <1>3, <2>2, ReturnCleanControl, QuietStep
<1>4. CASE /\ \E n \in Nonces : nonce' = n
           /\ pc' = "batchPkg" /\ UNCHANGED <<err, batchVars, cleanVars>>
  <2>1. nonce' \in Nat
    BY <1>4, ReadTypes DEF ExecInv, ExecTypeOK
  <2>2. ASSUME ChainTypeOK' PROVE ExecTypeOK'
    BY <1>1, <1>4, <2>1, <2>2 DEF ExecInv, ExecTypeOK, syncVars, batchVars, cleanVars
  <2>3. HeaderSent(Inc(ch)) => HeaderSent(Inc(ch))'
    BY <1>1, <1>4 DEF HeaderSent, Inc, cleanVars
  <2>4. ControlOK'
    BY <1>2, <1>4, <2>3 DEF BatchNonce, ExecInv, ControlOK, Cleaning, SyncPcs, BatchPcs, CleanPcs,
       cleanVars
  <2> QED
    BY <1>1, <2>2, <2>4, QuietStep
<1> QED
  BY <1>3, <1>4 DEF BatchNonce

LEMMA BatchPkgPreserves ==
  ASSUME ExecInv, BatchPkg
  PROVE  ExecInv'
<1>1. UNCHANGED <<blocks, bscVars, pool, sent, syncVars, capped>> /\ (NoFault \/ \E k : Fault(k))
  BY DEF BatchPkg
<1>2. Cleaning /\ pc \notin SyncPcs
  BY DEF BatchPkg, Cleaning, CleanPcs, BatchPcs, SyncPcs
<1>3. CASE ReturnClean(TRUE)
  <2>1. UNCHANGED <<syncVars, capped>>
    BY <1>1
  <2>2. ASSUME ChainTypeOK' PROVE ExecTypeOK'
    BY <1>3, <2>1, <2>2 DEF ReturnClean, ExecInv, ExecTypeOK, syncVars
  <2> QED
    BY <1>1, <1>2, <1>3, <2>2, ReturnCleanControl, QuietStep
<1>4. CASE /\ PackageExists(ChannelList[ci], seq, ch)
           /\ pc' = "batchSend" /\ UNCHANGED <<err, nonce, batchVars, cleanVars>>
  <2>1. ASSUME ChainTypeOK' PROVE ExecTypeOK'
    BY <1>1, <1>4, <2>1 DEF ExecInv, ExecTypeOK, syncVars, batchVars, cleanVars
  <2>2. HeaderSent(Inc(ch)) => HeaderSent(Inc(ch))'
    BY <1>1, <1>4 DEF HeaderSent, Inc, cleanVars
  <2>3. PackageExists(ChannelList[ci], seq, ch)'
    BY <1>1, <1>4, StoreFrame DEF batchVars, cleanVars, PackageExists, SeqAt
  <2>4. ControlOK'
    BY <1>2, <1>4, <2>2, <2>3 DEF BatchPkg, ExecInv, ControlOK, Cleaning, SyncPcs, BatchPcs, CleanPcs,
       cleanVars
  <2> QED
    BY <1>1, <2>1, <2>4, QuietStep
<1>5. CASE /\ NextChannel /\ seq' = 0 /\ end' = 0 /\ nonce' = 0
           /\ UNCHANGED <<err, ch, synced, accel, cleanRet>>
  <2>1. ASSUME ChainTypeOK' PROVE ExecTypeOK'
    BY <1>1, <1>5, <2>1 DEF NextChannel, ExecInv, ExecTypeOK, syncVars
  <2>2. HeaderSent(Inc(ch)) => HeaderSent(Inc(ch))'
    BY <1>1, <1>5 DEF HeaderSent, Inc
  <2>3. ControlOK'
    BY <1>2, <1>5, <2>2 DEF NextChannel, BatchPkg, ExecInv, ExecTypeOK, ControlOK, Cleaning, SyncPcs,
       BatchPcs, CleanPcs
  <2> QED
    BY <1>1, <2>1, <2>3, QuietStep
<1> QED
  BY <1>3, <1>4, <1>5 DEF BatchPkg

LEMMA BatchSendPreserves ==
  ASSUME ExecInv, BatchSend
  PROVE  ExecInv'
<1> DEFINE t == PackageTx(ChannelList[ci], seq, ch, ProofHeader(ch), nonce)
<1>1. PICK ok \in BOOLEAN : Broadcast(t, ok) /\ ((ok /\ Sent) \/ (~ok /\ ReturnClean(TRUE)))
  BY DEF BatchSend
<1>2. Cleaning /\ pc \notin SyncPcs
  BY DEF BatchSend, Cleaning, CleanPcs, BatchPcs, SyncPcs
<1>3. ChannelList[ci] \in Nat
  BY <1>2, ExecutorAssumption, ElementOfSeq DEF BatchSend, ExecInv, ControlOK, ExecTypeOK
<1>4. PackageExists(ChannelList[ci], seq, ch) /\ HeaderSent(Inc(ch))
  BY DEF BatchSend, ExecInv, ControlOK, BatchPcs
<1>5. ch \in 1..Latest /\ Inc(ch) = ch + 1 /\ Inc(ch) \in Uint64
  <2>1. ch \in 1..Latest
    BY <1>4, SeqAtType DEF ExecInv, ExecTypeOK
  <2>2. ch \in Uint64 /\ ch + 1 < Word
    BY <2>1, ExecutorAssumption, BoundsAssumption DEF ExecInv, ExecTypeOK, ChainTypeOK
  <2> QED
    BY <2>1, <2>2, IncProperties
<1>6. t \in Tx /\ t.kind = "package" /\ t.chan = ChannelList[ci] /\ t.seq = seq /\ t.at = ch
      /\ t.hdr = Inc(ch)
  <2>1. seq \in Nat /\ nonce \in Nat /\ ch \in Uint64 /\ Inc(ch) \in Uint64
    BY <1>5 DEF ExecInv, ExecTypeOK
  <2> DEFINE c == ChannelList[ci]
  <2>2. c \in Nat
    BY <1>3
  <2> HIDE DEF c
  <2>3. t = PackageTx(c, seq, ch, Inc(ch), nonce)
    BY DEF ProofHeader, c
  <2>4. t \in Tx /\ t.kind = "package" /\ t.chan = c /\ t.seq = seq /\ t.at = ch /\ t.hdr = Inc(ch)
    BY <2>1, <2>2, <2>3, PackageTxType_
  <2> QED
    BY <2>4 DEF c
<1> HIDE DEF t
<1>7. sent' = sent \/ sent' = sent \cup {t}
  BY <1>1, <1>6, BroadcastEffect DEF ExecInv, ExecTypeOK
<1>8. UNCHANGED <<blocks, bscVars, syncVars, capped>>
  BY DEF BatchSend
<1>9. ChainTypeOK'
  BY <1>1, <1>6, <1>8, SendChain DEF ExecInv, ExecTypeOK
<1>10. PackageProvable'
  BY <1>4, <1>5, <1>6, <1>7, <1>8, ProvableExtends, ProvableFrame DEF ExecInv
<1>11. SequencesGrow' /\ PoolSent'
  BY <1>1, <1>6, <1>8, StoreFrame, BroadcastEffect DEF ExecInv, ExecTypeOK
<1>12. HeaderSent(Inc(ch)) /\ ch' = ch => HeaderSent(Inc(ch))'
  BY <1>7 DEF HeaderSent, Inc
<1>13. CASE ReturnClean(TRUE)
  <2>1. ExecTypeOK'
    BY <1>8, <1>9, <1>13 DEF ReturnClean, ExecInv, ExecTypeOK, syncVars
  <2> QED
    BY <1>2, <1>10, <1>11, <1>13, <2>1, ReturnCleanControl DEF ExecInv
<1>14. CASE Sent
  <2>1. CASE /\ pc' = "batchPkg" /\ seq' = seq + 1 /\ nonce' = nonce + 1
             /\ UNCHANGED <<err, end, cleanVars>>
    <3>1. ExecTypeOK'
      BY <1>8, <1>9, <2>1 DEF ExecInv, ExecTypeOK, syncVars, cleanVars
    <3>2. ControlOK'
      BY <1>2, <1>4, <1>12, <2>1 DEF BatchSend, ExecInv, ControlOK, Cleaning, SyncPcs, BatchPcs,
         CleanPcs, cleanVars
    <3> QED
      BY <1>10, <1>11, <3>1, <3>2 DEF ExecInv
  <2>2. CASE /\ NextChannel /\ seq' = 0 /\ end' = 0 /\ nonce' = 0
             /\ UNCHANGED <<err, ch, synced, accel, cleanRet>>
    <3>1. ExecTypeOK'
      BY <1>8, <1>9, <2>2 DEF NextChannel, ExecInv, ExecTypeOK, syncVars
    <3>2. ControlOK'
      BY <1>2, <1>4, <1>12, <2>2 DEF NextChannel, BatchSend, ExecInv, ExecTypeOK, ControlOK, Cleaning,
         SyncPcs, BatchPcs, CleanPcs
    <3> QED
      BY <1>10, <1>11, <3>1, <3>2 DEF ExecInv
  <2> QED
    BY <1>14, <2>1, <2>2 DEF Sent
<1>15. CASE ok
  BY <1>1, <1>14, <1>15
<1>16. CASE ~ok
  BY <1>1, <1>13, <1>16
<1> QED
  BY <1>15, <1>16

-------------------------------------------------------------------------------
(* The chains' own steps *)

\* The new block continues the sequence numbers of the last one.
LEMMA BlockGrows ==
  ASSUME NEW chain \in Seq(BlockType), NEW shape \in BlockShapes, NEW v \in ValSets
  PROVE  /\ Block(chain, shape, v) \in BlockType
         /\ \A c \in Channels : SeqOn(chain, c, Len(chain)) <= Block(chain, shape, v).seqAt[c]
<1>1. Len(chain) \in Nat /\ \A i \in 1..Len(chain) : chain[i] \in BlockType
  BY LenProperties, ElementOfSeq
<1>2. \A c : SeqOn(chain, c, Len(chain)) \in Nat
  BY <1>1 DEF SeqOn, BlockType
<1>3. shape \in Seq(Channels) /\ Len(shape) \in Nat /\ \A i \in 1..Len(shape) : shape[i] \in Channels
  BY ShapesAssumption, LenProperties, ElementOfSeq
<1>4. ASSUME NEW c, NEW n \in Nat PROVE Before(shape, c, n) \in Nat
  <2>1. IsFiniteSet(1..(n - 1))
    BY FS_Interval
  <2>2. IsFiniteSet({i \in 1..(n - 1) : shape[i] = c})
    BY <2>1, FS_Subset
  <2> QED
    BY <2>2, FS_CardinalityType DEF Before
<1>5. (IF chain = <<>> THEN v ELSE chain[Len(chain)].next) \in ValSets
  <2>1. chain # <<>> => Len(chain) \in 1..Len(chain)
    BY <1>1, EmptySeq
  <2> QED
    BY <1>1, <2>1 DEF BlockType
<1> DEFINE task(i) == [chan |-> shape[i],
                       seq  |-> SeqOn(chain, shape[i], Len(chain)) + Before(shape, shape[i], i)]
           at == [c \in Channels |-> SeqOn(chain, c, Len(chain)) + Before(shape, c, Len(shape) + 1)]
<1>6. \A i \in 1..Len(shape) : task(i) \in Task
  BY <1>2, <1>3, <1>4 DEF Task
<1>7. at \in [Channels -> Nat] /\ \A c \in Channels : SeqOn(chain, c, Len(chain)) <= at[c]
  BY <1>2, <1>3, <1>4
<1>8. [i \in 1..Len(shape) |-> task(i)] \in Seq(Task)
  <2> HIDE DEF task
  <2> QED
    BY <1>3, <1>6, SeqDef
<1>9. Block(chain, shape, v) =
        [vals |-> IF chain = <<>> THEN v ELSE chain[Len(chain)].next, next |-> v,
         tasks |-> [i \in 1..Len(shape) |-> task(i)], seqAt |-> at]
  BY DEF Block
<1> HIDE DEF task, at
<1> QED
  BY <1>5, <1>7, <1>8, <1>9 DEF BlockType

\* A new block is appended: the old ones, and what they store, stay.
LEMMA StoreStable ==
  ASSUME ExecInv, ProduceBlock
  PROVE  /\ \A c, s, h : PackageExists(c, s, h) => PackageExists(c, s, h)'
         /\ \E b \in BlockType :
              /\ blocks' \in Seq(BlockType) /\ Latest' = Latest + 1
              /\ \A h \in 1..Latest : blocks'[h] = blocks[h]
              /\ blocks'[Latest + 1] = b
              /\ \A c \in Channels : SeqOn(blocks, c, Len(blocks)) <= b.seqAt[c]
<1>1. PICK shape \in BlockShapes, v \in ValSets : blocks' = Extend(blocks, shape, v)
  BY DEF ProduceBlock
<1> DEFINE b == Block(blocks, shape, v)
<1>2. blocks \in Seq(BlockType) /\ Latest \in Nat /\ Latest >= 2 /\ Latest < MaxHeight
  BY BoundsAssumption DEF ProduceBlock, ExecInv, ExecTypeOK, ChainTypeOK
<1>3. b \in BlockType /\ \A c \in Channels : SeqOn(blocks, c, Len(blocks)) <= b.seqAt[c]
  BY <1>2, BlockGrows
<1>4. blocks' = Append(blocks, b)
  BY <1>1 DEF Extend
<1> HIDE DEF b
<1>5. blocks' \in Seq(BlockType) /\ Latest' = Latest + 1
      /\ (\A h \in 1..Latest : blocks'[h] = blocks[h]) /\ blocks'[Latest + 1] = b
  BY <1>2, <1>3, <1>4, AppendProperties DEF Latest
<1>6. \A c, s, h : PackageExists(c, s, h) => PackageExists(c, s, h)'
  <2> SUFFICES ASSUME NEW c, NEW s, NEW h, PackageExists(c, s, h)
               PROVE  PackageExists(c, s, h)'
    OBVIOUS
  <2>1. c \in Channels /\ h \in 1..Latest
    BY SeqAtType DEF ExecInv, ExecTypeOK
  <2>2. SeqAt(c, h)' = SeqAt(c, h)
    BY <1>2, <1>5, <2>1 DEF SeqAt, SeqOn, Latest
  <2> QED
    BY <2>2 DEF PackageExists
<1> QED
  BY <1>3, <1>5, <1>6

\* A new block leaves every package of the old ones where it is, so what was
\* sent stays provable.
LEMMA ProduceBlockPreserves ==
  ASSUME ExecInv, ProduceBlock, UNCHANGED execVars
  PROVE  ExecInv'
<1>1. blocks \in Seq(BlockType) /\ Latest \in Nat /\ Latest >= 2 /\ Latest < MaxHeight
  BY BoundsAssumption DEF ProduceBlock, ExecInv, ExecTypeOK, ChainTypeOK
<1>2. PICK b \in BlockType :
        /\ blocks' \in Seq(BlockType) /\ Latest' = Latest + 1
        /\ \A h \in 1..Latest : blocks'[h] = blocks[h]
        /\ blocks'[Latest + 1] = b
        /\ \A c \in Channels : SeqOn(blocks, c, Len(blocks)) <= b.seqAt[c]
  BY StoreStable
<1>3. \A c, s, h : PackageExists(c, s, h) => PackageExists(c, s, h)'
  BY StoreStable
<1>4. ChainTypeOK'
  BY <1>1, <1>2, BoundsAssumption DEF ProduceBlock, ExecInv, ExecTypeOK, ChainTypeOK, bscVars, faultVars
<1>5. ExecTypeOK'
  BY <1>4 DEF execVars, ExecInv, ExecTypeOK
<1>6. \A h : HeaderSent(h)' <=> HeaderSent(h)
  BY DEF ProduceBlock, HeaderSent
<1>7. PackageProvable'
  BY <1>3, <1>6 DEF ProduceBlock, ExecInv, PackageProvable, PackageTxs
<1>8. ControlOK'
  <2>1. \A h : Inc(h)' = Inc(h)
    BY DEF Inc
  <2> QED
    BY <1>3, <1>6, <2>1 DEF execVars, ExecInv, ControlOK, Cleaning
<1>9. SequencesGrow'
  <2> SUFFICES ASSUME NEW c \in Channels, NEW g \in 1..(Latest + 1), NEW h \in 1..(Latest + 1), g <= h
               PROVE  blocks'[g].seqAt[c] <= blocks'[h].seqAt[c]
    BY <1>2 DEF SequencesGrow
  <2>1. b.seqAt[c] \in Nat /\ SeqOn(blocks, c, Len(blocks)) = blocks[Latest].seqAt[c]
    BY <1>1, <1>2 DEF BlockType, SeqOn, Latest
  <2>2. \A i \in 1..Latest : blocks[i].seqAt[c] \in Nat
    <3>1. \A i \in 1..Latest : blocks[i] \in BlockType
      BY <1>1, ElementOfSeq DEF Latest
    <3> QED
      BY <3>1 DEF BlockType
  <2>3. CASE h \in 1..Latest
    <3>1. g \in 1..Latest
      BY <1>1, <2>3
    <3> QED
      BY <1>2, <2>3, <3>1 DEF ExecInv, SequencesGrow
  <2>4. CASE h = Latest + 1 /\ g \in 1..Latest
    <3>1. blocks[g].seqAt[c] <= blocks[Latest].seqAt[c]
      BY <1>1, <2>4 DEF ExecInv, SequencesGrow
    <3>2. blocks[Latest].seqAt[c] <= b.seqAt[c]
      BY <1>2, <2>1
    <3> QED
      <4>1. blocks'[g] = blocks[g] /\ blocks'[h] = b
        BY <1>1, <1>2, <2>4
      <4>2. Latest \in 1..Latest
        BY <1>1, <2>4
      <4> QED
        BY <2>1, <2>2, <2>4, <3>1, <3>2, <4>1, <4>2
  <2>5. CASE h = Latest + 1 /\ g = Latest + 1
    BY <1>2, <2>1, <2>5
  <2> QED
    BY <1>1, <2>3, <2>4, <2>5
<1>10. PoolSent'
  BY DEF ProduceBlock, ExecInv, PoolSent
<1> QED
  BY <1>5, <1>7, <1>8, <1>9, <1>10 DEF ExecInv

\* BSC's and the rivals' steps change no block and no transaction sent: only
\* the chain's types need an argument.
LEMMA BscStep ==
  ASSUME ExecInv, UNCHANGED execVars, UNCHANGED <<blocks, sent>>, pool' \subseteq pool,
         ChainTypeOK'
  PROVE  ExecInv'
<1>1. ExecTypeOK'
  BY DEF ExecInv, ExecTypeOK, execVars
<1>2. \A h : HeaderSent(h)' <=> HeaderSent(h)
  BY DEF HeaderSent
<1>3. \A h : Inc(h)' = Inc(h)
  BY DEF Inc
<1>4. ControlOK'
  BY <1>2, <1>3, StoreFrame DEF ExecInv, ControlOK, Cleaning, execVars
<1> QED
  BY <1>1, <1>4, StoreFrame, ProvableFrame DEF ExecInv, PoolSent

LEMMA MineTxPreserves ==
  ASSUME ExecInv, MineTx, UNCHANGED execVars
  PROVE  ExecInv'
<1>1. PICK t \in pool : /\ recv' = Exec(State, t).recv
                        /\ headers' = Exec(State, t).headers
                        /\ acctNonce' = acctNonce + 1
                        /\ pool' = {u \in pool : u.nonce # acctNonce}
                        /\ UNCHANGED <<blocks, sent, faultVars>>
  BY DEF MineTx
<1>2. t \in Tx /\ recv \in [Channels -> Nat] /\ headers \subseteq Nat
  BY DEF ExecInv, ExecTypeOK, ChainTypeOK
<1>3. recv' \in [Channels -> Nat] /\ headers' \subseteq Nat
  <2>1. CASE t.kind = "header"
    <3>1. t.height \in Nat
      BY <1>2, <2>1 DEF Tx, HeaderTxType, PackageTxType
    <3> QED
      BY <1>1, <1>2, <2>1, <3>1 DEF Exec, State
  <2>2. CASE t.kind # "header"
    BY <1>1, <1>2, <2>2 DEF Exec, State
  <2> QED
    BY <2>1, <2>2
<1>4. IsFiniteSet(pool')
  BY <1>1, FS_Subset DEF ExecInv, ExecTypeOK, ChainTypeOK
<1>5. ChainTypeOK'
  BY <1>1, <1>3, <1>4 DEF ExecInv, ExecTypeOK, ChainTypeOK, faultVars, Latest
<1> QED
  BY <1>1, <1>5, BscStep

LEMMA RivalDeliversPreserves ==
  ASSUME ExecInv, RivalDelivers, UNCHANGED execVars
  PROVE  ExecInv'
<1>1. PICK c \in Channels, h \in 1..(Latest - 1) :
        recv' = [recv EXCEPT ![c] = @ + 1] /\ headers' = headers \cup {h + 1}
  BY DEF RivalDelivers
<1>2. ChainTypeOK'
  BY <1>1 DEF RivalDelivers, ExecInv, ExecTypeOK, ChainTypeOK, faultVars, Latest
<1> QED
  BY <1>2, BscStep DEF RivalDelivers

LEMMA DropTxPreserves ==
  ASSUME ExecInv, DropTx, UNCHANGED execVars
  PROVE  ExecInv'
<1>1. PICK t \in pool : pool' = pool \ {t}
  BY DEF DropTx
<1>2. IsFiniteSet(pool')
  BY <1>1, FS_Subset DEF ExecInv, ExecTypeOK, ChainTypeOK
<1>3. ChainTypeOK'
  BY <1>1, <1>2, FaultTypes DEF DropTx, ExecInv, ExecTypeOK, ChainTypeOK, bscVars, Latest
<1> QED
  BY <1>1, <1>3, BscStep DEF DropTx

\* The two blocks BC has when the relayer starts.
LEMMA ChainInitInv ==
  ASSUME ChainInit
  PROVE  ChainTypeOK /\ SequencesGrow /\ PackageProvable /\ PoolSent
<1>1. PICK s1 \in BlockShapes, s2 \in BlockShapes, v1 \in ValSets, v2 \in ValSets :
        blocks = Extend(Extend(<<>>, s1, v1), s2, v2)
  BY DEF ChainInit
<1> DEFINE b1 == Block(<<>>, s1, v1)
           c1 == Append(<<>>, b1)
           b2 == Block(c1, s2, v2)
<1>2. b1 \in BlockType
  BY BlockGrows, EmptySeq
<1>3. c1 \in Seq(BlockType) /\ Len(c1) = 1 /\ c1[1] = b1
  <2> HIDE DEF b1
  <2> QED
    BY <1>2, AppendProperties, EmptySeq
<1>4. b2 \in BlockType /\ \A c \in Channels : SeqOn(c1, c, Len(c1)) <= b2.seqAt[c]
  <2> HIDE DEF c1
  <2> QED
    BY <1>3, BlockGrows
<1>5. blocks = Append(c1, b2)
  BY <1>1 DEF Extend
<1> HIDE DEF b1, c1, b2
<1>6. blocks \in Seq(BlockType) /\ Latest = 2 /\ blocks[1] = b1 /\ blocks[2] = b2
  <2>1. /\ Append(c1, b2) \in Seq(BlockType)
        /\ Len(Append(c1, b2)) = Len(c1) + 1
        /\ \A i \in 1..Len(c1) : Append(c1, b2)[i] = c1[i]
        /\ Append(c1, b2)[Len(c1) + 1] = b2
    <3>1. ASSUME NEW x \in Seq(BlockType), NEW y \in BlockType
          PROVE  /\ Append(x, y) \in Seq(BlockType)
                 /\ Len(Append(x, y)) = Len(x) + 1
                 /\ \A i \in 1..Len(x) : Append(x, y)[i] = x[i]
                 /\ Append(x, y)[Len(x) + 1] = y
      BY AppendProperties
    <3> QED
      BY <1>3, <1>4, <3>1
  <2> QED
    BY <1>3, <1>5, <2>1 DEF Latest
<1>7. ChainTypeOK
  BY <1>6, BoundsAssumption, FS_EmptySet DEF ChainInit, ChainTypeOK
<1>8. SequencesGrow
  <2> SUFFICES ASSUME NEW c \in Channels, NEW g \in 1..2, NEW h \in 1..2, g <= h
               PROVE  blocks[g].seqAt[c] <= blocks[h].seqAt[c]
    BY <1>6 DEF SequencesGrow
  <2>1. b1.seqAt[c] \in Nat /\ b2.seqAt[c] \in Nat
    BY <1>2, <1>4 DEF BlockType
  <2>2. b1.seqAt[c] <= b2.seqAt[c]
    BY <1>3, <1>4 DEF SeqOn
  <2> QED
    BY <1>6, <2>1, <2>2
<1>9. PackageProvable /\ PoolSent
  BY DEF ChainInit, PackageProvable, PackageTxs, PoolSent
<1> QED
  BY <1>7, <1>8, <1>9

-------------------------------------------------------------------------------
(* What a daemon's loop does around the subroutines *)

\* A step of the loop that calls nothing.
LEMMA LoopStep ==
  ASSUME ExecInv, UNCHANGED <<blocks, bscVars, pool, sent>>, NoFault \/ \E k : Fault(k),
         pc' \notin SyncPcs \cup CleanPcs, err' \in BOOLEAN, nonce' \in Nat,
         UNCHANGED <<syncVars, batchVars, capped>>, UNCHANGED cleanVars \/ EndClean
  PROVE  ExecInv'
<1>1. 0 \in Uint64
  BY ExecutorAssumption, BoundsAssumption DEF Uint64
<1>2. ASSUME ChainTypeOK' PROVE ExecTypeOK'
  BY <1>1, <1>2 DEF EndClean, ExecInv, ExecTypeOK, syncVars, batchVars, cleanVars
<1>3. ControlOK'
  BY DEF ControlOK, Cleaning, BatchPcs, CleanPcs, SyncPcs
<1> QED
  BY <1>2, <1>3, QuietStep

\* The loop calls SyncTendermintLightClientHeader.
LEMMA LoopCallsSync ==
  ASSUME ExecInv, UNCHANGED <<blocks, bscVars, pool, sent>>, NoFault \/ \E k : Fault(k),
         NEW h \in Uint64, NEW ret \in {"changeSynced", "blockSynced"}, CallSync(h, ret),
         UNCHANGED <<err, nonce, batchVars, cleanVars, capped>>
  PROVE  ExecInv'
<1>1. ASSUME ChainTypeOK' PROVE ExecTypeOK'
  BY <1>1 DEF CallSync, ExecInv, ExecTypeOK, batchVars, cleanVars, SyncedPcs
<1>2. ControlOK'
  BY DEF CallSync, ControlOK, Cleaning, BatchPcs, CleanPcs, SyncPcs, SyncedPcs
<1> QED
  BY <1>1, <1>2, QuietStep

\* The loop calls cleanPreviousPackages.
LEMMA LoopCallsClean ==
  ASSUME ExecInv, UNCHANGED <<blocks, bscVars, pool, sent>>, NoFault \/ \E k : Fault(k),
         NEW h \in Uint64, NEW ret \in CleanedPcs, CallClean(h, ret),
         UNCHANGED <<err, nonce, syncVars, batchVars, capped>>
  PROVE  ExecInv'
<1>1. ASSUME ChainTypeOK' PROVE ExecTypeOK'
  BY <1>1 DEF CallClean, ExecInv, ExecTypeOK, syncVars, batchVars
<1>2. ControlOK'
  BY DEF CallClean, ControlOK, Cleaning, BatchPcs, CleanPcs, SyncPcs
<1> QED
  BY <1>1, <1>2, QuietStep

\* The daemon starts, or starts again after a crash: nothing is under way.
LEMMA RestartControl ==
  ASSUME synced' = FALSE, pc' = "cleanSeq" => ci' = 1 /\ cleanRet' \in CleanedPcs,
         pc' \in {"cleanSeq", "start"}
  PROVE  ControlOK'
  BY DEF ControlOK, Cleaning, BatchPcs, CleanPcs, SyncPcs

SubroutineStep ==
  \/ SyncNonce \/ SyncQuery \/ SyncSend
  \/ CleanSeq \/ CleanDeliver \/ CleanSynced
  \/ BatchNonce \/ BatchPkg \/ BatchSend

LEMMA SubroutinePreserves ==
  ASSUME ExecInv, SubroutineStep
  PROVE  ExecInv'
  BY SyncNoncePreserves, SyncQueryPreserves, SyncSendPreserves, CleanSeqPreserves,
     CleanDeliverPreserves, CleanSyncedPreserves, BatchNoncePreserves, BatchPkgPreserves,
     BatchSendPreserves DEF SubroutineStep

\* A cleanup step stays in the cleanup, calls the header sync or returns.
CleanupFrame ==
  /\ pc \in CleanPcs /\ sent \subseteq sent' /\ UNCHANGED blocks
  /\ \/ pc' \in CleanPcs /\ UNCHANGED <<syncVars, cleanRet>>
     \/ pc' = "syncNonce" /\ syncRet' = "cleanSynced" /\ UNCHANGED cleanRet
     \/ pc' = cleanRet /\ cleanRet' = "none" /\ UNCHANGED syncVars

LEMMA CleanupSteps ==
  ASSUME ExecInv, CleanSeq \/ CleanDeliver \/ CleanSynced \/ BatchNonce \/ BatchPkg \/ BatchSend
  PROVE  CleanupFrame
<1>1. CASE CleanSeq
  BY <1>1 DEF CleanSeq, ReturnClean, CleanupFrame, CleanPcs, BatchPcs
<1>2. CASE CleanDeliver
  <2>1. pc = "cleanDeliver" /\ UNCHANGED <<blocks, sent>>
    BY <1>2 DEF CleanDeliver
  <2>2. CASE \E d : Undelivered(d) \/ NothingNew(d)
    <3>1. PICK d : Undelivered(d) \/ NothingNew(d)
      BY <2>2
    <3>2. UNCHANGED cleanRet \/ (ReturnClean(TRUE) /\ UNCHANGED syncVars)
      BY <1>2 DEF CleanDeliver
    <3>3. \/ pc' \in CleanPcs /\ UNCHANGED syncVars
          \/ pc' = "syncNonce" /\ syncRet' = "cleanSynced"
      BY <3>1 DEF Undelivered, NothingNew, NextChannel, CallSync, CleanPcs, BatchPcs
    <3> QED
      BY <2>1, <3>2, <3>3 DEF ReturnClean, CleanupFrame, CleanPcs, BatchPcs
  <2>3. CASE ReturnClean(TRUE) /\ UNCHANGED <<capped, syncVars>>
    BY <2>1, <2>3 DEF ReturnClean, CleanupFrame, CleanPcs, BatchPcs
  <2> QED
    BY <1>2, <2>2, <2>3 DEF CleanDeliver
<1>3. CASE CleanSynced
  BY <1>3 DEF CleanSynced, ReturnClean, CleanupFrame, CleanPcs, BatchPcs
<1>4. CASE BatchNonce
  BY <1>4 DEF BatchNonce, ReturnClean, CleanupFrame, CleanPcs, BatchPcs, cleanVars
<1>5. CASE BatchPkg
  BY <1>5 DEF BatchPkg, ReturnClean, NextChannel, CleanupFrame, CleanPcs, BatchPcs, cleanVars
<1>6. CASE BatchSend
  <2>1. pc = "batchSend" /\ UNCHANGED <<blocks, syncVars>>
    BY <1>6 DEF BatchSend
  <2>2. sent \subseteq sent'
    BY <1>6 DEF BatchSend, Broadcast, Submit
  <2>3. Sent \/ ReturnClean(TRUE)
    BY <1>6 DEF BatchSend
  <2> QED
    BY <2>1, <2>2, <2>3 DEF Sent, ReturnClean, NextChannel, CleanupFrame, CleanPcs, BatchPcs, cleanVars
<1> QED
  BY <1>1, <1>2, <1>3, <1>4, <1>5, <1>6

\* A subroutine goes on, or returns to the point its caller left; a header
\* sync the loop called keeps its argument until then, and its header is out
\* when it reports no error.
LEMMA SubroutineReturns ==
  ASSUME ExecInv, SubroutineStep
  PROVE  /\ pc \in SyncPcs \cup CleanPcs
         /\ \/ pc' \in SyncPcs \cup CleanPcs
            \/ pc \in SyncPcs /\ pc' = syncRet
            \/ pc' = cleanRet /\ cleanRet \in CleanedPcs
         /\ cleanRet' \in {cleanRet, "none"}
         /\ syncRet' \in {syncRet, "none", "cleanSynced"}
         /\ pc' \in SyncPcs /\ syncRet' # "cleanSynced" =>
              pc \in SyncPcs /\ UNCHANGED <<syncRet, hdr>>
         /\ sent \subseteq sent' /\ UNCHANGED blocks
         /\ pc \in SyncPcs /\ pc' = syncRet /\ syncRet \in SyncedPcs /\ ~err' =>
              \E t \in sent' : t.kind = "header" /\ t.height = hdr
<1>1. CASE SyncNonce
  <2>1. pc = "syncNonce" /\ UNCHANGED <<blocks, sent, cleanVars>>
        /\ ((pc' = "syncQuery" /\ UNCHANGED syncVars) \/ ReturnSync(TRUE))
    BY <1>1 DEF SyncNonce
  <2>2. syncRet \in SyncedPcs
    BY <2>1 DEF ExecInv, ControlOK, SyncPcs
  <2>3. CASE pc' \in {"syncQuery", "syncSend"} /\ UNCHANGED syncVars
    BY <2>1, <2>2, <2>3 DEF SyncPcs, CleanPcs, BatchPcs, SyncedPcs, syncVars, cleanVars
  <2>4. CASE ReturnSync(TRUE)
    <3>1. err' /\ pc' = syncRet /\ syncRet' = "none"
      BY <2>4 DEF ReturnSync
    <3> QED
      BY <2>1, <2>2, <3>1 DEF SyncPcs, CleanPcs, BatchPcs, SyncedPcs, cleanVars
  <2> QED
    BY <2>1, <2>3, <2>4
<1>2. CASE SyncQuery
  <2>1. pc = "syncQuery" /\ UNCHANGED <<blocks, sent, cleanVars>>
        /\ ((pc' \in {"syncQuery", "syncSend"} /\ UNCHANGED syncVars) \/ ReturnSync(TRUE))
    BY <1>2 DEF SyncQuery, QueryTendermintHeader
  <2>2. syncRet \in SyncedPcs
    BY <2>1 DEF ExecInv, ControlOK, SyncPcs
  <2>3. CASE pc' \in {"syncQuery", "syncSend"} /\ UNCHANGED syncVars
    BY <2>1, <2>2, <2>3 DEF SyncPcs, CleanPcs, BatchPcs, SyncedPcs, syncVars, cleanVars
  <2>4. CASE ReturnSync(TRUE)
    <3>1. err' /\ pc' = syncRet /\ syncRet' = "none"
      BY <2>4 DEF ReturnSync
    <3> QED
      BY <2>1, <2>2, <3>1 DEF SyncPcs, CleanPcs, BatchPcs, SyncedPcs, cleanVars
  <2> QED
    BY <2>1, <2>3, <2>4
<1>3. CASE SyncSend
  <2>1. pc = "syncSend" /\ UNCHANGED <<blocks, cleanVars>> /\ syncRet' = "none"
    BY <1>3 DEF SyncSend, ReturnSync
  <2>2. syncRet \in SyncedPcs
    BY <2>1 DEF ExecInv, ControlOK, SyncPcs
  <2> QED
    BY <1>3, <2>1, <2>2, SyncSendEffect DEF SyncPcs, CleanPcs, BatchPcs, SyncedPcs, cleanVars
<1>4. CASE CleanSeq \/ CleanDeliver \/ CleanSynced \/ BatchNonce \/ BatchPkg \/ BatchSend
  <2>1. CleanupFrame
    BY <1>4, CleanupSteps
  <2>2. cleanRet \in CleanedPcs /\ pc \notin SyncPcs
    BY <2>1 DEF CleanupFrame, ExecInv, ControlOK, Cleaning, CleanPcs, BatchPcs, SyncPcs
  <2> QED
    BY <2>1, <2>2 DEF CleanupFrame, SyncPcs, CleanPcs, CleanedPcs, BatchPcs, syncVars
<1> QED
  BY <1>1, <1>2, <1>3, <1>4 DEF SubroutineStep

\* A package that exists at some height exists in the newest block as well.
LEMMA StillExists ==
  ASSUME ExecInv, NEW c, NEW s, NEW h, PackageExists(c, s, h)
  PROVE  c \in Channels /\ s \in Nat /\ s < SeqAt(c, Latest)
<1>1. c \in Channels /\ h \in 1..Latest
  BY SeqAtType DEF ExecInv, ExecTypeOK
<1>2. SeqAt(c, h) \in Nat /\ SeqAt(c, Latest) \in Nat
  BY SeqAtType DEF ExecInv, ExecTypeOK
<1>3. Latest \in 1..Latest /\ Latest = Len(blocks) /\ h <= Latest
  BY <1>1 DEF ExecInv, ExecTypeOK, ChainTypeOK, Latest
<1>4. SeqAt(c, h) = blocks[h].seqAt[c] /\ SeqAt(c, Latest) = blocks[Latest].seqAt[c]
  BY <1>1, <1>3 DEF SeqAt, SeqOn
<1>5. SeqAt(c, h) <= SeqAt(c, Latest)
  BY <1>1, <1>3, <1>4 DEF ExecInv, SequencesGrow
<1> QED
  BY <1>1, <1>2, <1>5 DEF PackageExists

-------------------------------------------------------------------------------
(* Executing a pool of transactions: the run behind StateBefore *)

\* Every non-empty set of numbers has a least element.
LEMMA LeastNumber ==
  ASSUME NEW S, S \subseteq Nat, S # {}
  PROVE  \E n \in S : \A k \in S : n <= k
<1> DEFINE R == OpToRel(<, Nat)
<1>1. IsWellFoundedOn(R, Nat)
  BY NatLessThanWellFounded DEF OpToRel
<1>2. PICK n \in S : \A k \in S : <<k, n>> \notin R
  <2> HIDE DEF R
  <2> QED
    BY <1>1, WFMin
<1>3. \A k \in S : ~(k < n)
  BY <1>2 DEF OpToRel
<1> QED
  BY <1>3

\* So a set of numbers from a on that holds a, and with a number the next one
\* as far as n, holds them all: induction without an operator parameter.
LEMMA UpTo ==
  ASSUME NEW a \in Nat, NEW n \in Nat, NEW S, a \in S,
         \A k \in a..(n - 1) : k \in S => k + 1 \in S
  PROVE  \A k \in a..n : k \in S
<1> DEFINE bad == {k \in a..n : k \notin S}
<1> SUFFICES ASSUME bad # {} PROVE FALSE
  OBVIOUS
<1>1. bad \subseteq Nat
  OBVIOUS
<1>2. PICK k \in bad : \A j \in bad : k <= j
  <2> HIDE DEF bad
  <2> QED
    BY <1>1, LeastNumber
<1>3. k \in a..n /\ k # a
  OBVIOUS
<1>4. k - 1 \in a..(n - 1) /\ k - 1 \in a..n /\ (k - 1) + 1 = k /\ ~(k <= k - 1)
  BY <1>3
<1>5. k - 1 \in S
  BY <1>2, <1>4
<1> QED
  BY <1>4, <1>5

TxIn(p, n) == CHOOSE t \in p : t.nonce = n

\* g is the run of the pool p from the state s at nonce a, as far as nonce n.
IsRun(g, s, p, a, n) ==
  g = [k \in a..n |-> IF k = a THEN s ELSE Exec(g[k - 1], TxIn(p, k - 1))]
Ran(s, p, a, n) == (CHOOSE g : IsRun(g, s, p, a, n))[n]

LEMMA RunExtends ==
  ASSUME NEW s, NEW p, NEW a \in Nat, NEW n \in Nat, a <= n, NEW g, IsRun(g, s, p, a, n)
  PROVE  IsRun([k \in a..(n + 1) |-> IF k = n + 1 THEN Exec(g[n], TxIn(p, n)) ELSE g[k]],
               s, p, a, n + 1)
<1> DEFINE h == [k \in a..(n + 1) |-> IF k = n + 1 THEN Exec(g[n], TxIn(p, n)) ELSE g[k]]
           v(k) == IF k = a THEN s ELSE Exec(h[k - 1], TxIn(p, k - 1))
<1>1. \A k \in a..n : g[k] = IF k = a THEN s ELSE Exec(g[k - 1], TxIn(p, k - 1))
  <2> DEFINE w(k) == IF k = a THEN s ELSE Exec(g[k - 1], TxIn(p, k - 1))
  <2>1. g = [k \in a..n |-> w(k)]
    BY DEF IsRun
  <2> HIDE DEF w
  <2>2. \A k \in a..n : g[k] = w(k)
    BY <2>1
  <2> QED
    BY <2>2 DEF w
<1>2. \A k \in a..(n + 1) : h[k] = v(k)
  <2> SUFFICES ASSUME NEW k \in a..(n + 1) PROVE h[k] = v(k)
    OBVIOUS
  <2>1. CASE k = n + 1
    <3>1. k # a /\ k - 1 = n /\ n \in a..(n + 1) /\ n # n + 1
      BY <2>1
    <3> QED
      BY <2>1, <3>1
  <2>2. CASE k # n + 1 /\ k # a
    <3>1. k \in a..n /\ k - 1 \in a..(n + 1) /\ k - 1 # n + 1
      BY <2>2
    <3> QED
      BY <1>1, <2>2, <3>1
  <2>3. CASE k = a
    <3>1. a \in a..n /\ a # n + 1
      OBVIOUS
    <3> QED
      BY <1>1, <2>3, <3>1
  <2> QED
    BY <2>1, <2>2, <2>3
<1>3. h = [k \in a..(n + 1) |-> h[k]]
  OBVIOUS
<1> HIDE DEF h
<1>4. h = [k \in a..(n + 1) |-> v(k)]
  <2> HIDE DEF v
  <2> QED
    BY <1>2, <1>3
<1>5. IsRun(h, s, p, a, n + 1)
  BY <1>4 DEF IsRun
<1> QED
  BY <1>5 DEF h

LEMMA RunExists ==
  ASSUME NEW s, NEW p, NEW a \in Nat, NEW n \in Nat, a <= n
  PROVE  \E g : IsRun(g, s, p, a, n)
<1> DEFINE S == {k \in a..n : \E g : IsRun(g, s, p, a, k)}
<1>1. a \in S
  <2> DEFINE g == [k \in a..a |-> s]
  <2>1. IsRun(g, s, p, a, a)
    <3>1. a..a = {a}
      OBVIOUS
    <3> QED
      BY <3>1 DEF IsRun
  <2> QED
    BY <2>1
<1>2. ASSUME NEW k \in a..(n - 1), k \in S PROVE k + 1 \in S
  <2>1. k \in Nat /\ a <= k /\ k + 1 \in a..n
    OBVIOUS
  <2> QED
    BY <1>2, <2>1, RunExtends
<1>3. \A k \in a..n : k \in S
  <2> HIDE DEF S
  <2> QED
    BY <1>1, <1>2, UpTo
<1> QED
  BY <1>3

LEMMA RunUnique ==
  ASSUME NEW s, NEW p, NEW a \in Nat, NEW m \in Nat, NEW n \in Nat,
         NEW g, IsRun(g, s, p, a, m), NEW h, IsRun(h, s, p, a, n),
         NEW k \in a..m, k \in a..n
  PROVE  g[k] = h[k]
<1> DEFINE S == {i \in a..k : g[i] = h[i]}
           w(f, i) == IF i = a THEN s ELSE Exec(f[i - 1], TxIn(p, i - 1))
<1>1. \A i \in a..k : g[i] = w(g, i) /\ h[i] = w(h, i)
  <2>1. g = [i \in a..m |-> w(g, i)] /\ h = [i \in a..n |-> w(h, i)]
    BY DEF IsRun
  <2> HIDE DEF w
  <2>2. \A i \in a..k : i \in a..m /\ i \in a..n
    OBVIOUS
  <2> QED
    BY <2>1, <2>2
<1>2. a \in S
  <2>1. a \in a..k
    OBVIOUS
  <2> QED
    BY <1>1, <2>1
<1>3. ASSUME NEW i \in a..(k - 1), i \in S PROVE i + 1 \in S
  <2>1. i + 1 \in a..k /\ i + 1 # a /\ (i + 1) - 1 = i
    OBVIOUS
  <2> QED
    BY <1>1, <1>3, <2>1
<1>4. \A i \in a..k : i \in S
  <2> HIDE DEF S
  <2>1. k \in Nat
    OBVIOUS
  <2> QED
    BY <1>2, <1>3, <2>1, UpTo
<1> QED
  BY <1>4

\* The state before nonce n: the pool's transactions below n are executed one
\* by one.
LEMMA RanSteps ==
  ASSUME NEW s, NEW p, NEW a \in Nat, NEW n \in Nat, a <= n
  PROVE  /\ Ran(s, p, a, a) = s
         /\ Ran(s, p, a, n + 1) = Exec(Ran(s, p, a, n), TxIn(p, n))
<1>1. ASSUME NEW m \in Nat, a <= m
      PROVE  IsRun(CHOOSE g : IsRun(g, s, p, a, m), s, p, a, m)
  BY <1>1, RunExists
<1> DEFINE w(f, i) == IF i = a THEN s ELSE Exec(f[i - 1], TxIn(p, i - 1))
<1>2. ASSUME NEW m \in Nat, a <= m, NEW g, IsRun(g, s, p, a, m), NEW i \in a..m
      PROVE  g[i] = w(g, i)
  <2>1. g = [j \in a..m |-> w(g, j)]
    BY <1>2 DEF IsRun
  <2> HIDE DEF w
  <2> QED
    BY <2>1
<1>3. Ran(s, p, a, a) = s
  <2>1. a \in a..a
    OBVIOUS
  <2> QED
    BY <1>1, <1>2, <2>1 DEF Ran
<1>4. Ran(s, p, a, n + 1) = Exec(Ran(s, p, a, n), TxIn(p, n))
  <2> DEFINE g == CHOOSE g : IsRun(g, s, p, a, n + 1)
             h == CHOOSE h : IsRun(h, s, p, a, n)
  <2>1. IsRun(g, s, p, a, n + 1) /\ IsRun(h, s, p, a, n)
    BY <1>1
  <2>2. g[n + 1] = Ran(s, p, a, n + 1) /\ h[n] = Ran(s, p, a, n)
    BY DEF Ran
  <2> HIDE DEF g, h
  <2>3. n \in a..n /\ n \in a..(n + 1) /\ n + 1 \in a..(n + 1) /\ n + 1 # a /\ (n + 1) - 1 = n
    OBVIOUS
  <2>4. g[n + 1] = Exec(g[n], TxIn(p, n))
    BY <1>2, <2>1, <2>3
  <2>5. g[n] = h[n]
    BY <2>1, <2>3, RunUnique
  <2> QED
    BY <2>2, <2>4, <2>5
<1> QED
  BY <1>3, <1>4

LEMMA RanStart ==
  ASSUME NEW s, NEW p, NEW a \in Nat
  PROVE  Ran(s, p, a, a) = s
  BY RanSteps

LEMMA RanNext ==
  ASSUME NEW s, NEW p, NEW a \in Nat, NEW n \in Nat, a <= n
  PROVE  Ran(s, p, a, n + 1) = Exec(Ran(s, p, a, n), TxIn(p, n))
<1>1. /\ Ran(s, p, a, a) = s
      /\ Ran(s, p, a, n + 1) = Exec(Ran(s, p, a, n), TxIn(p, n))
  BY ONLY a \in Nat, n \in Nat, a <= n, RanSteps
<1> QED
  BY ONLY <1>1

ContractState == [recv : [Channels -> Nat], headers : SUBSET Nat]

\* u has accepted all that s has.
NotBehind(s, u) ==
  /\ \A c \in Channels : s.recv[c] <= u.recv[c]
  /\ s.headers \subseteq u.headers

\* What one transaction does to a contract state.
LEMMA ExecEffect ==
  ASSUME NEW s \in ContractState, NEW t \in Tx
  PROVE  /\ Exec(s, t) \in ContractState
         /\ NotBehind(s, Exec(s, t))
         /\ t.kind = "header" => t.height \in Exec(s, t).headers
         /\ \A c \in Channels : \/ Exec(s, t).recv[c] = s.recv[c]
                               \/ /\ t.kind = "package" /\ t.chan = c /\ t.seq = s.recv[c]
                                  /\ Exec(s, t).recv[c] = s.recv[c] + 1
<1>1. s = [recv |-> s.recv, headers |-> s.headers] /\ s.recv \in [Channels -> Nat]
      /\ s.headers \subseteq Nat
  BY DEF ContractState
<1>2. CASE t.kind = "header"
  <2>1. t.height \in Nat
    BY <1>2 DEF Tx, HeaderTxType, PackageTxType
  <2>2. Exec(s, t) = [recv |-> s.recv, headers |-> s.headers \cup {t.height}]
    BY <1>1, <1>2 DEF Exec
  <2> QED
    BY <1>1, <1>2, <2>1, <2>2 DEF ContractState, NotBehind
<1>3. CASE t.kind # "header" /\ t.chan \in Channels /\ Accepts(s, t)
  <2>1. t.kind = "package" /\ t.seq = s.recv[t.chan]
    BY <1>3 DEF Tx, HeaderTxType, PackageTxType, Accepts
  <2>2. Exec(s, t) = [recv |-> [s.recv EXCEPT ![t.chan] = @ + 1], headers |-> s.headers]
    BY <1>1, <1>3 DEF Exec
  <2> QED
    BY <1>1, <1>3, <2>1, <2>2 DEF ContractState, NotBehind
<1>4. CASE t.kind # "header" /\ ~(t.chan \in Channels /\ Accepts(s, t))
  <2>1. Exec(s, t) = s
    BY <1>4 DEF Exec
  <2> QED
    BY <1>1, <1>4, <2>1 DEF NotBehind, ContractState
<1> QED
  BY <1>2, <1>3, <1>4

\* A state that has accepted more is still ahead after the same transaction.
LEMMA ExecMonotone ==
  ASSUME NEW s \in ContractState, NEW u \in ContractState, NotBehind(s, u), NEW t \in Tx
  PROVE  NotBehind(Exec(s, t), Exec(u, t))
<1>1. s = [recv |-> s.recv, headers |-> s.headers] /\ s.recv \in [Channels -> Nat]
  BY DEF ContractState
<1>2. u = [recv |-> u.recv, headers |-> u.headers] /\ u.recv \in [Channels -> Nat]
  BY DEF ContractState
<1>3. CASE t.kind = "header"
  <2>1. Exec(s, t) = [recv |-> s.recv, headers |-> s.headers \cup {t.height}]
    BY <1>1, <1>3 DEF Exec
  <2>2. Exec(u, t) = [recv |-> u.recv, headers |-> u.headers \cup {t.height}]
    BY <1>2, <1>3 DEF Exec
  <2> QED
    BY <2>1, <2>2 DEF NotBehind
<1>4. CASE t.kind # "header" /\ t.chan \in Channels /\ Accepts(s, t)
  <2>1. Exec(s, t) = [recv |-> [s.recv EXCEPT ![t.chan] = @ + 1], headers |-> s.headers]
    BY <1>1, <1>4 DEF Exec
  <2>2. CASE Accepts(u, t)
    <3>1. Exec(u, t) = [recv |-> [u.recv EXCEPT ![t.chan] = @ + 1], headers |-> u.headers]
      BY <1>2, <1>4, <2>2 DEF Exec
    <3> QED
      BY <1>1, <1>2, <1>4, <2>1, <3>1 DEF NotBehind
  <2>3. CASE ~Accepts(u, t)
    <3>1. Exec(u, t) = u
      BY <1>4, <2>3 DEF Exec
    <3>2. u.recv[t.chan] # s.recv[t.chan]
      BY <1>4, <2>3 DEF Accepts, NotBehind
    <3>3. s.recv[t.chan] + 1 <= u.recv[t.chan]
      BY <1>1, <1>2, <1>4, <3>2 DEF NotBehind
    <3> QED
      BY <1>1, <1>2, <1>4, <2>1, <3>1, <3>3 DEF NotBehind
  <2> QED
    BY <2>2, <2>3
<1>5. CASE t.kind # "header" /\ ~(t.chan \in Channels /\ Accepts(s, t))
  <2>1. Exec(s, t) = s
    BY <1>5 DEF Exec
  <2>2. NotBehind(u, Exec(u, t)) /\ Exec(u, t) \in ContractState
    BY ExecEffect
  <2> QED
    BY <1>1, <1>2, <2>1, <2>2 DEF NotBehind, ContractState
<1> QED
  BY <1>3, <1>4, <1>5

\* The pool p has a transaction for every nonce from a up to n.
Filled(p, a, n) == \A k \in a..(n - 1) : TxIn(p, k) \in Tx

LEMMA RanType ==
  ASSUME NEW s \in ContractState, NEW p, NEW a \in Nat, NEW n \in Nat, a <= n, Filled(p, a, n)
  PROVE  /\ Ran(s, p, a, n) \in ContractState
         /\ \A k \in a..n : /\ Ran(s, p, a, k) \in ContractState
                            /\ NotBehind(Ran(s, p, a, k), Ran(s, p, a, n))
<1> DEFINE r(k) == Ran(s, p, a, k)
           S == {k \in a..n : r(k) \in ContractState}
<1>1. \A k \in a..(n - 1) : r(k + 1) = Exec(r(k), TxIn(p, k)) /\ TxIn(p, k) \in Tx
  <2> SUFFICES ASSUME NEW k \in a..(n - 1)
               PROVE  r(k + 1) = Exec(r(k), TxIn(p, k)) /\ TxIn(p, k) \in Tx
    OBVIOUS
  <2>1. k \in Nat /\ a <= k
    OBVIOUS
  <2>2. Ran(s, p, a, k + 1) = Exec(Ran(s, p, a, k), TxIn(p, k))
    BY <2>1, RanNext
  <2> QED
    BY <2>2 DEF Filled
<1>2. r(a) = s
  BY RanStart
<1> HIDE DEF r
<1>3. \A k \in a..n : r(k) \in ContractState
  <2>1. a \in S
    BY <1>2
  <2>2. \A k \in a..(n - 1) : k \in S => k + 1 \in S
    <3> SUFFICES ASSUME NEW k \in a..(n - 1), k \in S PROVE k + 1 \in S
      OBVIOUS
    <3>1. k + 1 \in a..n
      OBVIOUS
    <3> QED
      BY <1>1, <3>1, ExecEffect
  <2> HIDE DEF S
  <2>3. \A k \in a..n : k \in S
    BY <2>1, <2>2, UpTo
  <2> QED
    BY <2>3 DEF S
<1>4. ASSUME NEW k \in a..n PROVE NotBehind(r(k), r(n))
  <2> DEFINE T == {i \in k..n : NotBehind(r(k), r(i))}
  <2>1. k \in Nat /\ k \in k..n
    OBVIOUS
  <2>2. k \in T
    BY <1>3, <2>1 DEF NotBehind, ContractState
  <2>3. ASSUME NEW i \in k..(n - 1), i \in T PROVE i + 1 \in T
    <3>1. i \in a..(n - 1) /\ i \in a..n /\ i + 1 \in k..n /\ i + 1 \in a..n
      OBVIOUS
    <3>2. NotBehind(r(i), r(i + 1))
      BY <1>1, <1>3, <3>1, ExecEffect
    <3>3. r(k) \in ContractState /\ r(i) \in ContractState /\ r(i + 1) \in ContractState
      BY <1>3, <3>1
    <3>4. NotBehind(r(k), r(i))
      BY <2>3
    <3>5. NotBehind(r(k), r(i + 1))
      <4> HIDE DEF T
      <4>1. ASSUME NEW x \in ContractState, NEW y \in ContractState, NEW z \in ContractState,
                   NotBehind(x, y), NotBehind(y, z)
            PROVE  NotBehind(x, z)
        BY <4>1 DEF NotBehind, ContractState
      <4> QED
        BY <3>2, <3>3, <3>4, <4>1
    <3> QED
      BY <3>1, <3>5
  <2>4. \A i \in k..n : i \in T
    <3> HIDE DEF T
    <3> QED
      BY <2>1, <2>2, <2>3, UpTo
  <2>5. n \in k..n
    OBVIOUS
  <2> QED
    BY <2>4, <2>5
<1>5. n \in a..n
  OBVIOUS
<1> QED
  BY <1>3, <1>4, <1>5 DEF r

\* From a state that is ahead, the same transactions lead to one that is.
LEMMA RanMonotone ==
  ASSUME NEW s \in ContractState, NEW u \in ContractState, NotBehind(s, u),
         NEW p, NEW a \in Nat, NEW n \in Nat, a <= n, Filled(p, a, n)
  PROVE  NotBehind(Ran(s, p, a, n), Ran(u, p, a, n))
<1> DEFINE S == {k \in a..n : NotBehind(Ran(s, p, a, k), Ran(u, p, a, k))}
<1>1. a \in S
  BY RanSteps
<1>2. ASSUME NEW k \in a..(n - 1), k \in S PROVE k + 1 \in S
  <2>1. k + 1 \in a..n /\ k \in a..n /\ k \in Nat /\ a <= k
    OBVIOUS
  <2>2. Ran(s, p, a, k) \in ContractState /\ Ran(u, p, a, k) \in ContractState
    BY <2>1, RanType
  <2>3. TxIn(p, k) \in Tx
    BY DEF Filled
  <2>4. Ran(s, p, a, k + 1) = Exec(Ran(s, p, a, k), TxIn(p, k))
        /\ Ran(u, p, a, k + 1) = Exec(Ran(u, p, a, k), TxIn(p, k))
    BY <2>1, RanNext, Zenon
  <2> QED
    BY <1>2, <2>1, <2>2, <2>3, <2>4, ExecMonotone
<1>3. \A k \in a..n : k \in S
  <2> HIDE DEF S
  <2> QED
    BY <1>1, <1>2, UpTo
<1> QED
  BY <1>3

\* Executing the first transaction, or adding one at the end, leaves the run
\* of the others alone.
LEMMA RanShifts ==
  ASSUME NEW s, NEW p, NEW q, NEW a \in Nat, NEW b \in Nat, NEW n \in Nat, a <= b, b <= n,
         \A k \in b..(n - 1) : TxIn(q, k) = TxIn(p, k)
  PROVE  Ran(Ran(s, p, a, b), q, b, n) = Ran(s, p, a, n)
<1>0. ASSUME NEW k \in Nat, a <= k
      PROVE  Ran(s, p, a, k + 1) = Exec(Ran(s, p, a, k), TxIn(p, k))
  BY <1>0, RanNext
<1> DEFINE S == {k \in b..n : Ran(Ran(s, p, a, b), q, b, k) = Ran(s, p, a, k)}
<1>1. b \in S
  BY RanSteps
<1>2. ASSUME NEW k \in b..(n - 1), k \in S PROVE k + 1 \in S
  <2>1. k + 1 \in b..n /\ k \in Nat /\ a <= k /\ b <= k
    OBVIOUS
  <2> DEFINE u == Ran(s, p, a, b)
  <2> HIDE DEF S, u
  <2>2. Ran(u, q, b, k + 1) = Exec(Ran(u, q, b, k), TxIn(q, k))
    BY ONLY <2>1, b \in Nat, RanNext
  <2>3. Ran(s, p, a, k + 1) = Exec(Ran(s, p, a, k), TxIn(p, k))
    BY <1>0, <2>1
  <2> USE DEF S, u
  <2> QED
    BY <1>2, <2>1, <2>2, <2>3
<1>3. \A k \in b..n : k \in S
  <2> HIDE DEF S
  <2> QED
    BY <1>1, <1>2, UpTo
<1> QED
  BY <1>3

\* A channel that is ahead of the state at the start got there by a package
\* of the pool.
LEMMA RanDelivers ==
  ASSUME NEW s \in ContractState, NEW p, NEW a \in Nat, NEW n \in Nat, a <= n, Filled(p, a, n),
         NEW c \in Channels, NEW i \in Nat, s.recv[c] <= i, i < Ran(s, p, a, n).recv[c]
  PROVE  \E k \in a..(n - 1) : /\ TxIn(p, k).kind = "package"
                             /\ TxIn(p, k).chan = c /\ TxIn(p, k).seq = i
<1> DEFINE S == {k \in a..n : Ran(s, p, a, k).recv[c] <= i}
<1>1. a \in S
  BY RanSteps
<1> SUFFICES ASSUME ~\E k \in a..(n - 1) : /\ TxIn(p, k).kind = "package"
                                        /\ TxIn(p, k).chan = c /\ TxIn(p, k).seq = i
             PROVE  FALSE
  OBVIOUS
<1>2. ASSUME NEW k \in a..(n - 1), k \in S PROVE k + 1 \in S
  <2>1. k + 1 \in a..n /\ k \in a..n /\ k \in Nat /\ a <= k
    OBVIOUS
  <2> DEFINE r == Ran(s, p, a, k)
             t == TxIn(p, k)
  <2>2. r \in ContractState /\ t \in Tx
    BY <2>1, RanType DEF Filled
  <2>3. Ran(s, p, a, k + 1) = Exec(r, t)
    BY <2>1, RanNext, Zenon
  <2>4. r.recv[c] <= i
    BY <1>2
  <2>5. ~(t.kind = "package" /\ t.chan = c /\ t.seq = i)
    OBVIOUS
  <2> HIDE DEF r, t
  <2>6. r.recv[c] \in Nat
    BY <2>2 DEF ContractState
  <2>7. \/ Exec(r, t).recv[c] = r.recv[c]
        \/ /\ t.kind = "package" /\ t.chan = c /\ t.seq = r.recv[c]
           /\ Exec(r, t).recv[c] = r.recv[c] + 1
    BY <2>2, ExecEffect
  <2>8. Exec(r, t).recv[c] <= i
    BY <2>4, <2>5, <2>6, <2>7
  <2> QED
    BY <2>1, <2>3, <2>8
<1>3. \A k \in a..n : k \in S
  <2> HIDE DEF S
  <2> QED
    BY <1>1, <1>2, UpTo
<1>4. Ran(s, p, a, n).recv[c] <= i
  BY <1>3
<1>5. Ran(s, p, a, n).recv[c] \in Nat
  <2>1. Ran(s, p, a, n) \in ContractState
    BY RanType
  <2> QED
    BY <2>1 DEF ContractState
<1> QED
  BY <1>4, <1>5

-------------------------------------------------------------------------------
(* The account's nonces while all providers show one view of it *)

\* The control points between the read of a nonce and its use.
HoldPcs == {"syncQuery", "syncSend", "batchPkg", "batchSend", "taskSend"}

\* m is the account's next nonce: the pool fills the gap up to it, everything
\* sent lies below it, and it is the nonce a subroutine holds.
NextNonce(m) ==
  /\ acctNonce <= m /\ NoncesOf(pool) = acctNonce..(m - 1)
  /\ \A t \in sent : t.nonce < m
  /\ pc \in HoldPcs => nonce = m

NonceInv == OneView => \E m \in Nat : NextNonce(m)

\* No nonce is used twice, whatever became of the transactions.
OncePerNonce == OneView => \A t, u \in sent : t.nonce = u.nonce => t = u
FreshInv == NonceInv /\ HeaderFirst /\ OncePerNonce

\* Incidents are never forgotten.
LEMMA OneViewBefore ==
  ASSUME NoFault \/ \E k : Fault(k), OneView'
  PROVE  OneView
  BY DEF NoFault, Fault, faultVars, OneView

LEMMA FreshNonce ==
  ASSUME ChainTypeOK, NonceInv
  PROVE  NonceFresh
<1> SUFFICES ASSUME OneView, pc \in {"syncSend", "batchSend", "taskSend"} PROVE IsPendingNonce(nonce)
  BY DEF NonceFresh
<1>1. PICK m \in Nat : NextNonce(m)
  BY DEF NonceInv
<1> QED
  BY <1>1 DEF NextNonce, HoldPcs, IsPendingNonce, ChainTypeOK

\* A step that sends nothing leaves what is said of the transactions sent.
LEMMA HistoryFrame ==
  ASSUME HeaderFirst, OncePerNonce, OneView' => OneView, UNCHANGED sent
  PROVE  HeaderFirst' /\ OncePerNonce'
  BY DEF HeaderFirst, OncePerNonce, PackageTxs, HeaderTxs

\* A step that leaves the account alone and takes no nonce up.
LEMMA NoncesKept ==
  ASSUME FreshInv, UNCHANGED <<acctNonce, pool, sent>>, OneView' => OneView,
         pc' \in HoldPcs => pc \in HoldPcs /\ nonce' = nonce
  PROVE  FreshInv'
<1>1. NonceInv'
  <2> SUFFICES ASSUME OneView' PROVE \E m \in Nat : NextNonce(m)'
    BY DEF NonceInv
  <2>1. PICK m \in Nat : NextNonce(m)
    BY DEF FreshInv, NonceInv
  <2>2. NextNonce(m)'
    BY <2>1 DEF NextNonce, NoncesOf
  <2> QED
    BY <2>2
<1> QED
  BY <1>1, HistoryFrame DEF FreshInv

\* A provider answers with the next nonce, unless its answer is stale.
LEMMA NonceRead ==
  ASSUME ChainTypeOK, FreshInv, UNCHANGED <<acctNonce, pool, sent>>,
         NEW n \in Nonces, ReadNonce(n), nonce' = n
  PROVE  FreshInv'
<1>1. NoFault \/ \E k : Fault(k)
  BY DEF ReadNonce
<1>2. NonceInv'
  <2> SUFFICES ASSUME OneView' PROVE \E m \in Nat : NextNonce(m)'
    BY DEF NonceInv
  <2>1. PICK m \in Nat : NextNonce(m)
    BY <1>1, OneViewBefore DEF FreshInv, NonceInv
  <2>2. IsPendingNonce(n)
    BY DEF ReadNonce, Fault, OneView
  <2>3. n \in Nat /\ acctNonce \in Nat
    BY ReadTypes DEF ChainTypeOK
  <2>4. n = m
    BY <2>1, <2>2, <2>3 DEF IsPendingNonce, NextNonce
  <2>5. NextNonce(m)'
    BY <2>1, <2>4 DEF NextNonce, NoncesOf
  <2> QED
    BY <2>5
<1> QED
  BY <1>1, <1>2, HistoryFrame, OneViewBefore DEF FreshInv

\* Sending with the nonce held: it is used up whether or not the caller learns
\* of it, and the header of a package, sent before, has a lower one.
LEMMA NonceUsed ==
  ASSUME ChainTypeOK, FreshInv, pc \in HoldPcs, UNCHANGED acctNonce,
         NEW t \in Tx, t.nonce = nonce, t.kind = "package" => HeaderSent(t.hdr),
         NEW ok \in BOOLEAN, Broadcast(t, ok),
         pc' \notin HoldPcs \/ (ok /\ nonce' = nonce + 1)
  PROVE  FreshInv'
<1> SUFFICES ASSUME OneView'
             PROVE  (\E m \in Nat : NextNonce(m)') /\ HeaderFirst' /\ OncePerNonce'
  BY DEF FreshInv, NonceInv, HeaderFirst, OncePerNonce
<1>1. OneView
  BY OneViewBefore DEF Broadcast
<1>2. PICK m \in Nat : NextNonce(m)
  BY <1>1 DEF FreshInv, NonceInv
<1>3. nonce = m /\ acctNonce \in Nat /\ acctNonce <= m
  BY <1>2 DEF NextNonce, ChainTypeOK
<1>4. CASE UNCHANGED <<pool, sent>>
  <2>1. pc' \notin HoldPcs
    <3>1. t \in sent => t.nonce < m
      BY <1>2 DEF NextNonce
    <3>2. t \notin sent
      BY <1>3, <3>1
    <3> QED
      BY <1>4, <3>2 DEF Broadcast, Submit
  <2>2. NextNonce(m)'
    BY <1>2, <1>4, <2>1 DEF NextNonce, NoncesOf
  <2> QED
    BY <1>1, <1>4, <2>2, HistoryFrame DEF FreshInv
<1>5. CASE Submit(t)
  <2>1. NoncesOf(pool') = NoncesOf(pool) \cup {m}
    BY <1>3, <1>5 DEF Submit, NoncesOf
  <2>2. NoncesOf(pool') = acctNonce..m
    BY <1>2, <1>3, <2>1 DEF NextNonce
  <2>3. \A u \in sent' : u.nonce < m + 1
    <3>1. \A u \in sent : u.nonce \in Nat /\ u.nonce < m
      BY <1>2 DEF NextNonce, ChainTypeOK, Tx, HeaderTxType, PackageTxType
    <3> QED
      BY <1>3, <1>5, <3>1 DEF Submit
  <2>4. NextNonce(m + 1)'
    <3>1. acctNonce' = acctNonce /\ acctNonce' <= m + 1
      BY <1>3
    <3>2. NoncesOf(pool)' = acctNonce'..((m + 1) - 1)
      BY <2>2, <3>1 DEF NoncesOf
    <3>3. pc' \in HoldPcs => nonce' = m + 1
      BY <1>3
    <3> QED
      BY <2>3, <3>1, <3>2, <3>3 DEF NextNonce
  <2>5. HeaderFirst'
    <3> SUFFICES ASSUME NEW p \in PackageTxs'
                 PROVE  \E q \in HeaderTxs' : q.height = p.hdr /\ q.nonce < p.nonce
      BY DEF HeaderFirst
    <3>1. HeaderTxs \subseteq HeaderTxs' /\ sent' = sent \cup {t}
      BY <1>5 DEF HeaderTxs, Submit
    <3>2. CASE p \in sent
      BY <1>1, <3>1, <3>2 DEF FreshInv, HeaderFirst, PackageTxs
    <3>3. CASE p = t
      <4>1. t.kind = "package"
        BY <3>3 DEF PackageTxs
      <4>2. PICK q \in sent : q.kind = "header" /\ q.height = t.hdr
        BY <4>1 DEF HeaderSent
      <4>3. q \in HeaderTxs /\ q.nonce < m
        BY <1>2, <4>2 DEF HeaderTxs, NextNonce
      <4> QED
        BY <1>3, <3>1, <3>3, <4>2, <4>3
    <3> QED
      BY <3>1, <3>2, <3>3 DEF PackageTxs
  <2>6. OncePerNonce'
    <3>1. \A u \in sent : u.nonce < m /\ u.nonce # m
      BY <1>2, <1>3 DEF NextNonce, ChainTypeOK, Tx, HeaderTxType, PackageTxType
    <3>2. sent' = sent \cup {t} /\ \A u, v \in sent : u.nonce = v.nonce => u = v
      BY <1>1, <1>5 DEF FreshInv, OncePerNonce, Submit
    <3> QED
      BY <1>3, <3>1, <3>2 DEF OncePerNonce
  <2> QED
    BY <2>4, <2>5, <2>6
<1> QED
  BY <1>4, <1>5 DEF Broadcast

\* Where the subroutines return to, no nonce is held.
LEMMA ReturnPoints ==
  ASSUME ExecInv
  PROVE  /\ pc \in SyncPcs => syncRet \notin HoldPcs
         /\ pc \in CleanPcs => cleanRet \notin HoldPcs
<1>1. pc \in SyncPcs => syncRet \in SyncedPcs
  BY DEF ExecInv, ControlOK
<1>2. pc \in CleanPcs => cleanRet \in CleanedPcs
  BY DEF ExecInv, ControlOK, Cleaning
<1> QED
  BY <1>1, <1>2 DEF SyncedPcs, CleanedPcs, HoldPcs

\* Every step of a subroutine keeps the nonces in order.
LEMMA SubroutineNonces ==
  ASSUME ExecInv, FreshInv, SubroutineStep
  PROVE  FreshInv'
<1>1. ChainTypeOK /\ ControlOK
  BY DEF ExecInv, ExecTypeOK
<1>2. CASE SyncNonce
  <2>1. pc = "syncNonce" /\ UNCHANGED <<acctNonce, pool, sent>>
    BY <1>2 DEF SyncNonce, bscVars
  <2>2. CASE \E n \in Nonces : ReadNonce(n) /\ nonce' = n
    BY <1>1, <2>1, <2>2, NonceRead
  <2>3. CASE Fault("rpc") /\ ReturnSync(TRUE)
    <3>1. pc' \notin HoldPcs
      BY <2>1, <2>3, ReturnPoints DEF ReturnSync, SyncPcs
    <3> QED
      BY <2>1, <2>3, <3>1, NoncesKept, OneViewBefore
  <2> QED
    BY <1>2, <2>2, <2>3 DEF SyncNonce
<1>3. CASE SyncQuery
  <2>1. pc = "syncQuery" /\ UNCHANGED <<acctNonce, pool, sent>> /\ (NoFault \/ \E k : Fault(k))
    BY <1>3 DEF SyncQuery, QueryTendermintHeader, bscVars
  <2>2. pc' \in HoldPcs => nonce' = nonce
    BY <1>3, <2>1, ReturnPoints DEF SyncQuery, QueryTendermintHeader, ReturnSync, SyncPcs
  <2>3. pc \in HoldPcs
    BY <2>1 DEF HoldPcs
  <2> QED
    BY <2>1, <2>2, <2>3, NoncesKept, OneViewBefore
<1>4. CASE SyncSend
  <2>1. PICK ok \in BOOLEAN : Broadcast(HeaderTx(hdr, nonce), ok) /\ ReturnSync(~ok)
    BY <1>4 DEF SyncSend
  <2>2. pc = "syncSend" /\ UNCHANGED acctNonce /\ pc \in HoldPcs
    BY <1>4 DEF SyncSend, bscVars, HoldPcs
  <2>3. pc' \notin HoldPcs
    BY <2>1, <2>2, ReturnPoints DEF ReturnSync, SyncPcs
  <2>4. HeaderTx(hdr, nonce) \in Tx /\ HeaderTx(hdr, nonce).kind = "header"
    BY HeaderTxType_ DEF ExecInv, ExecTypeOK
  <2>5. HeaderTx(hdr, nonce).nonce = nonce
    BY DEF HeaderTx
  <2> QED
    BY <1>1, <2>1, <2>2, <2>3, <2>4, <2>5, NonceUsed
<1>5. CASE CleanSeq \/ CleanDeliver \/ CleanSynced
  <2>1. CleanupFrame
    BY <1>5, CleanupSteps
  <2>2. UNCHANGED <<acctNonce, pool, sent>>
    BY <1>5 DEF CleanSeq, CleanDeliver, CleanSynced, bscVars
  <2>3. NoFault \/ \E k : Fault(k)
    BY <1>5 DEF CleanSeq, CleanDeliver, CleanSynced, ReadRecv
  <2>4. pc' \notin HoldPcs
    <3>1. CASE pc' = cleanRet
      BY <2>1, <3>1, ReturnPoints DEF CleanupFrame
    <3>2. CASE pc' # cleanRet
      <4>1. CASE CleanSeq
        BY <3>2, <4>1 DEF CleanSeq, ReturnClean, HoldPcs
      <4>2. CASE CleanDeliver
        BY <3>2, <4>2 DEF CleanDeliver, Undelivered, NothingNew, NextChannel, CallSync,
           ReturnClean, HoldPcs
      <4>3. CASE CleanSynced
        BY <3>2, <4>3 DEF CleanSynced, ReturnClean, HoldPcs
      <4> QED
        BY <1>5, <4>1, <4>2, <4>3
    <3> QED
      BY <3>1, <3>2
  <2> QED
    BY <2>2, <2>3, <2>4, NoncesKept, OneViewBefore
<1>6. CASE BatchNonce
  <2>1. pc = "batchNonce" /\ UNCHANGED <<acctNonce, pool, sent>>
    BY <1>6 DEF BatchNonce, bscVars
  <2>2. CASE \E n \in Nonces : ReadNonce(n) /\ nonce' = n
    BY <1>1, <2>1, <2>2, NonceRead
  <2>3. CASE Fault("rpc") /\ ReturnClean(TRUE)
    <3>1. pc' \notin HoldPcs
      BY <2>1, <2>3, ReturnPoints DEF ReturnClean, CleanPcs, BatchPcs
    <3> QED
      BY <2>1, <2>3, <3>1, NoncesKept, OneViewBefore
  <2> QED
    BY <1>6, <2>2, <2>3 DEF BatchNonce
<1>7. CASE BatchPkg
  <2>1. pc = "batchPkg" /\ UNCHANGED <<acctNonce, pool, sent>> /\ (NoFault \/ \E k : Fault(k))
    BY <1>7 DEF BatchPkg, bscVars
  <2>2. pc \in HoldPcs /\ pc \in CleanPcs /\ "cleanSeq" \notin HoldPcs
    BY <2>1 DEF HoldPcs, CleanPcs, BatchPcs
  <2>3. pc' \in HoldPcs => nonce' = nonce
    BY <1>7, <2>2, ReturnPoints DEF BatchPkg, ReturnClean, NextChannel
  <2> QED
    BY <2>1, <2>2, <2>3, NoncesKept, OneViewBefore
<1>8. CASE BatchSend
  <2> DEFINE t == PackageTx(ChannelList[ci], seq, ch, ProofHeader(ch), nonce)
  <2>1. PICK ok \in BOOLEAN : Broadcast(t, ok) /\ ((ok /\ Sent) \/ (~ok /\ ReturnClean(TRUE)))
    BY <1>8 DEF BatchSend
  <2>2. pc = "batchSend" /\ UNCHANGED acctNonce /\ pc \in HoldPcs /\ pc \in CleanPcs
    BY <1>8 DEF BatchSend, bscVars, HoldPcs, CleanPcs, BatchPcs
  <2>3. t \in Tx /\ t.nonce = nonce /\ t.hdr = Inc(ch)
    <3>1. ci \in 1..Len(ChannelList)
      BY <1>1, <2>2 DEF ControlOK, Cleaning, ExecInv, ExecTypeOK
    <3>2. ChannelList[ci] \in Nat
      BY <3>1, ExecutorAssumption, ElementOfSeq
    <3>3. ProofHeader(ch) \in Uint64 /\ seq \in Nat /\ ch \in Uint64 /\ nonce \in Nat
      BY IncProperties DEF ExecInv, ExecTypeOK, ProofHeader
    <3> QED
      BY <3>2, <3>3, PackageTxType_ DEF PackageTx, ProofHeader
  <2>4. HeaderSent(Inc(ch))
    BY <1>1, <2>2 DEF ControlOK, BatchPcs
  <2>5. pc' \notin HoldPcs \/ (ok /\ nonce' = nonce + 1)
    <3>1. CASE ok /\ Sent
      BY <3>1 DEF Sent, NextChannel, HoldPcs
    <3>2. CASE ReturnClean(TRUE)
      BY <2>2, <3>2, ReturnPoints DEF ReturnClean
    <3> QED
      BY <2>1, <3>1, <3>2
  <2> HIDE DEF t
  <2> QED
    BY <1>1, <2>1, <2>2, <2>3, <2>4, <2>5, NonceUsed
<1> QED
  BY <1>2, <1>3, <1>4, <1>5, <1>6, <1>7, <1>8 DEF SubroutineStep

\* So do BSC's blocks, which take the lowest nonce out of the pool, and what
\* else happens around the relayer.
LEMMA EnvironmentNonces ==
  ASSUME ChainTypeOK, FreshInv, UNCHANGED execVars,
         ProduceBlock \/ MineTx \/ RivalDelivers \/ DropTx
  PROVE  FreshInv'
<1>1. UNCHANGED <<pc, nonce>>
  BY DEF execVars
<1>2. CASE ProduceBlock \/ RivalDelivers
  <2>1. UNCHANGED <<acctNonce, pool, sent>> /\ UNCHANGED incidents
    BY <1>2 DEF ProduceBlock, RivalDelivers, bscVars, faultVars
  <2> QED
    BY <1>1, <2>1, NoncesKept DEF OneView
<1>3. CASE DropTx
  <2>1. ~OneView'
    BY <1>3 DEF DropTx, Fault, OneView
  <2> QED
    BY <2>1 DEF FreshInv, NonceInv, HeaderFirst, OncePerNonce
<1>4. CASE MineTx
  <2>1. /\ acctNonce' = acctNonce + 1 /\ acctNonce \in NoncesOf(pool)
        /\ pool' = {u \in pool : u.nonce # acctNonce}
        /\ UNCHANGED <<sent, incidents>> /\ acctNonce \in Nat
    BY <1>4 DEF MineTx, NoncesOf, faultVars, ChainTypeOK
  <2>2. NonceInv'
    <3> SUFFICES ASSUME OneView' PROVE \E m \in Nat : NextNonce(m)'
      BY DEF NonceInv
    <3>1. PICK m \in Nat : NextNonce(m)
      BY <2>1 DEF FreshInv, NonceInv, OneView
    <3>2. NoncesOf(pool') = NoncesOf(pool) \ {acctNonce}
      BY <2>1 DEF NoncesOf
    <3>3. acctNonce \in acctNonce..(m - 1) /\ NoncesOf(pool) = acctNonce..(m - 1)
      BY <2>1, <3>1 DEF NextNonce
    <3>4. acctNonce' <= m /\ NoncesOf(pool') = acctNonce'..(m - 1)
      <4>1. ASSUME NEW a \in Nat, a \in a..(m - 1)
            PROVE  a + 1 <= m /\ (a..(m - 1)) \ {a} = (a + 1)..(m - 1)
        BY <4>1
      <4> QED
        BY <2>1, <3>2, <3>3, <4>1
    <3>5. NoncesOf(pool)' = NoncesOf(pool')
      BY DEF NoncesOf
    <3>6. NextNonce(m)'
      BY <1>1, <2>1, <3>1, <3>4, <3>5 DEF NextNonce
    <3> QED
      BY <3>6
  <2> QED
    BY <2>1, <2>2, HistoryFrame DEF FreshInv, OneView
<1> QED
  BY <1>2, <1>3, <1>4

LEMMA NoncesInitially ==
  ASSUME ChainInit, pc \notin HoldPcs
  PROVE  FreshInv
<1>1. NextNonce(0)
  BY DEF ChainInit, NextNonce, NoncesOf
<1> QED
  BY <1>1 DEF ChainInit, FreshInv, NonceInv, HeaderFirst, OncePerNonce, PackageTxs

-------------------------------------------------------------------------------
(* Validator sets while nothing goes wrong *)

LEMMA NothingWrongBefore ==
  ASSUME NoFault \/ \E k : Fault(k), NothingWrong'
  PROVE  NothingWrong /\ NoFault
  BY DEF NoFault, Fault, faultVars, NothingWrong

\* With a fresh nonce no provider refuses the header.
LEMMA SyncSucceeds ==
  ASSUME ExecInv, FreshInv, SyncSend, NothingWrong'
  PROVE  /\ pc' = syncRet /\ ~err' /\ NothingWrong
         /\ \E t \in sent' : t.kind = "header" /\ t.height = hdr
<1>1. PICK ok \in BOOLEAN : Broadcast(HeaderTx(hdr, nonce), ok) /\ ReturnSync(~ok)
  BY DEF SyncSend
<1>2. NothingWrong /\ NoFault
  BY <1>1, NothingWrongBefore DEF Broadcast
<1>3. IsPendingNonce(nonce)
  <2>1. NonceFresh /\ OneView
    BY <1>2, FreshNonce DEF FreshInv, ExecInv, ExecTypeOK, NothingWrong, OneView
  <2> QED
    BY <2>1 DEF NonceFresh, SyncSend
<1>4. acctNonce \in Nat /\ nonce \in Nat
  BY DEF ExecInv, ExecTypeOK, ChainTypeOK
<1>5. ~Refused(HeaderTx(hdr, nonce))
  BY <1>3, <1>4 DEF Refused, HeaderTx, IsPendingNonce
<1>6. \A k : ~Fault(k)
  BY DEF Fault, NothingWrong
<1>7. ok = TRUE
  BY <1>1, <1>5, <1>6 DEF Broadcast
<1>8. pc' = syncRet /\ ~err'
  BY <1>1, <1>7 DEF ReturnSync
<1> QED
  BY <1>2, <1>8, SyncSendEffect

\* A header sync that works only goes on until its header is out.
LEMMA SyncGoesOn ==
  ASSUME ExecInv, FreshInv, SubroutineStep, pc \in SyncPcs, hdr \in 1..Latest, NothingWrong'
  PROVE  \/ pc' \in SyncPcs /\ UNCHANGED syncVars
         \/ pc' = syncRet /\ \E t \in sent' : t.kind = "header" /\ t.height = hdr
<1>1. \A k : ~Fault(k)
  BY DEF Fault, NothingWrong
<1>2. CASE SyncNonce
  BY <1>1, <1>2 DEF SyncNonce, SyncPcs
<1>3. CASE SyncQuery
  <2>1. Latest \in Nat
    BY DEF ExecInv, ExecTypeOK, ChainTypeOK
  <2>2. ~(hdr > Latest) /\ ~(hdr < 1)
    <3> SUFFICES ASSUME NEW l \in Nat, hdr \in 1..l PROVE ~(hdr > l) /\ ~(hdr < 1)
      BY <2>1
    <3> QED
      OBVIOUS
  <2>3. pc' = "syncSend" /\ UNCHANGED syncVars
    BY <1>1, <1>3, <2>2, Zenon DEF SyncQuery, QueryTendermintHeader
  <2> QED
    BY <2>3 DEF SyncPcs
<1>4. CASE SyncSend
  BY <1>4, SyncSucceeds
<1> QED
  BY <1>2, <1>3, <1>4 DEF SubroutineStep, SyncPcs, CleanSeq, CleanDeliver, CleanSynced, BatchNonce,
     BatchPkg, BatchSend

\* No step takes a block away or changes one.
BlocksKept ==
  /\ Latest \in Nat /\ Latest' \in Nat /\ Latest' >= Latest
  /\ \A h \in 1..Latest : blocks'[h] = blocks[h]

LEMMA BlocksStay ==
  ASSUME ExecInv, ProduceBlock \/ UNCHANGED blocks
  PROVE  BlocksKept
<1>1. Latest \in Nat
  BY DEF ExecInv, ExecTypeOK, ChainTypeOK
<1>2. CASE ProduceBlock
  <2>1. Latest' = Latest + 1 /\ \A h \in 1..Latest : blocks'[h] = blocks[h]
    BY <1>2, StoreStable
  <2> QED
    BY <1>1, <2>1 DEF BlocksKept
<1>3. CASE UNCHANGED blocks
  <2>1. Latest' = Latest
    BY <1>3 DEF Latest
  <2> QED
    BY <1>1, <1>3, <2>1 DEF BlocksKept
<1> QED
  BY <1>2, <1>3

\* A header signed by a set, sent for one of the heights from `from` to `to`.
SignedBy(vals, from, to) ==
  \E t \in HeaderTxs : /\ t.height \in from..to /\ t.height \in 1..Latest
                       /\ blocks[t.height].vals = vals

LEMMA SignedByStays ==
  ASSUME BlocksKept, sent \subseteq sent', NEW vals, NEW from \in Nat, NEW to \in Nat,
         NEW further \in Nat, to <= further, SignedBy(vals, from, to)
  PROVE  SignedBy(vals, from, further)'
<1>1. PICK t \in HeaderTxs : /\ t.height \in from..to /\ t.height \in 1..Latest
                             /\ blocks[t.height].vals = vals
  BY DEF SignedBy
<1>2. t \in HeaderTxs' /\ t.height \in 1..Latest' /\ blocks'[t.height] = blocks[t.height]
  BY <1>1 DEF HeaderTxs, BlocksKept
<1>3. t.height \in from..further
  BY <1>1
<1> QED
  BY <1>1, <1>2, <1>3 DEF SignedBy

-------------------------------------------------------------------------------
(* The contracts once the pool is executed: what a pending-block read sees *)

NextOf(p, a) ==
  CHOOSE m \in a..(a + Cardinality(p)) :
    m >= a /\ m \notin NoncesOf(p) /\ \A k \in a..(m - 1) : k \in NoncesOf(p)
Pend(s, p, a) == Ran(s, p, a, NextOf(p, a))
Pending == Pend(State, pool, acctNonce)

LEMMA PendingIs ==
  ASSUME NEW c
  PROVE  /\ PendingRecv(c) = IF c \in Channels THEN Pending.recv[c] ELSE 0
         /\ PendingRecv(c)' = IF c \in Channels THEN Pending'.recv[c] ELSE 0
<1>1. PendingRecv(c) = IF c \in Channels THEN Pending.recv[c] ELSE 0
  BY DEF PendingRecv, Pending, Pend, NextOf, Ran, IsRun, TxIn, StateBefore, IsPendingNonce
<1>2. PendingRecv(c)' = IF c \in Channels THEN Pending'.recv[c] ELSE 0
  BY DEF PendingRecv, Pending, Pend, NextOf, Ran, IsRun, TxIn, StateBefore, IsPendingNonce
<1> QED
  BY <1>1, <1>2

\* A pool without gaps has one next nonce, and a transaction for each below.
LEMMA PoolFilled ==
  ASSUME NEW p, p \subseteq Tx, IsFiniteSet(p), NEW a \in Nat, NEW m \in Nat, a <= m,
         NoncesOf(p) = a..(m - 1)
  PROVE  NextOf(p, a) = m /\ Filled(p, a, m)
<1>1. Cardinality(a..(m - 1)) = m - a
  <2>1. Cardinality(a..(m - 1)) = IF a > m - 1 THEN 0 ELSE (m - 1) - a + 1
    BY FS_Interval
  <2> QED
    BY <2>1
<1>2. Cardinality(NoncesOf(p)) <= Cardinality(p)
  <2> DEFINE f == [t \in p |-> t.nonce]
  <2>1. f \in Surjection(p, NoncesOf(p))
    BY DEF Surjection, NoncesOf
  <2> QED
    BY <2>1, FS_Surjection
<1>3. Cardinality(p) \in Nat
  BY FS_CardinalityType
<1>4. m \in a..(a + Cardinality(p))
  BY <1>1, <1>2, <1>3
<1>5. ASSUME NEW n \in a..(a + Cardinality(p)), n >= a, n \notin NoncesOf(p),
             \A k \in a..(n - 1) : k \in NoncesOf(p)
      PROVE  n = m
  <2>1. ~(m < n)
    <3>1. m < n => m \in a..(n - 1)
      BY <1>5
    <3>2. m \notin a..(m - 1)
      OBVIOUS
    <3> QED
      BY <1>5, <3>1, <3>2
  <2>2. ~(n < m)
    BY <1>5
  <2> QED
    BY <2>1, <2>2
<1>6. m \notin NoncesOf(p) /\ \A k \in a..(m - 1) : k \in NoncesOf(p)
  OBVIOUS
<1>7. NextOf(p, a) = m
  BY <1>4, <1>5, <1>6 DEF NextOf
<1>8. Filled(p, a, m)
  <2> SUFFICES ASSUME NEW k \in a..(m - 1) PROVE TxIn(p, k) \in Tx
    BY DEF Filled
  <2>1. \E t \in p : t.nonce = k
    BY DEF NoncesOf
  <2> QED
    BY <2>1 DEF TxIn
<1> QED
  BY <1>7, <1>8

LEMMA StateType ==
  ASSUME ChainTypeOK
  PROVE  State \in ContractState
  BY DEF State, ContractState, ChainTypeOK

LEMMA PendRun ==
  ASSUME NEW s \in ContractState, NEW p, p \subseteq Tx, IsFiniteSet(p), NEW a \in Nat,
         NEW m \in Nat, a <= m, NoncesOf(p) = a..(m - 1)
  PROVE  Pend(s, p, a) = Ran(s, p, a, m) /\ Pend(s, p, a) \in ContractState
  BY PoolFilled, RanType DEF Pend

\* While the providers show one view, the pending state is the run of the
\* whole pool.
LEMMA PendingRun ==
  ASSUME ChainTypeOK, NEW m \in Nat, NextNonce(m)
  PROVE  /\ Pending = Ran(State, pool, acctNonce, m)
         /\ Filled(pool, acctNonce, m) /\ acctNonce \in Nat /\ acctNonce <= m
         /\ State \in ContractState
<1>1. acctNonce \in Nat /\ acctNonce <= m /\ pool \subseteq Tx /\ IsFiniteSet(pool)
      /\ NoncesOf(pool) = acctNonce..(m - 1) /\ State \in ContractState
  BY StateType DEF ChainTypeOK, NextNonce
<1> QED
  BY <1>1, PoolFilled, PendRun DEF Pending

LEMMA PendingType ==
  ASSUME ChainTypeOK, NonceInv, OneView
  PROVE  Pending \in ContractState
<1>1. PICK m \in Nat : NextNonce(m)
  BY DEF NonceInv
<1> QED
  BY <1>1, StateType, PendRun DEF Pending, NextNonce, ChainTypeOK

LEMMA PendingTypeNext ==
  ASSUME ChainTypeOK', NonceInv', OneView'
  PROVE  Pending' \in ContractState
<1>1. PICK m \in Nat : NextNonce(m)'
  BY DEF NonceInv
<1> DEFINE p == pool'
           a == acctNonce'
           s == State'
<1>2. p \subseteq Tx /\ IsFiniteSet(p) /\ a \in Nat /\ a <= m /\ NoncesOf(p) = a..(m - 1)
  BY <1>1 DEF NextNonce, ChainTypeOK, NoncesOf
<1>3. s \in ContractState
  BY DEF State, ContractState, ChainTypeOK
<1>4. Pending' = Pend(s, p, a)
  BY DEF Pending
<1> HIDE DEF p, a, s
<1> QED
  BY <1>2, <1>3, <1>4, PendRun

LEMMA PendingFrame ==
  ASSUME UNCHANGED <<bscVars, pool>>
  PROVE  Pending' = Pending
<1>1. State' = State
  BY DEF State, bscVars
<1> QED
  BY <1>1 DEF Pending, bscVars

\* The transactions in a pool without two of one nonce.
LEMMA TxInIs ==
  ASSUME NEW p, \A t, u \in p : t.nonce = u.nonce => t = u, NEW t \in p
  PROVE  TxIn(p, t.nonce) = t
  BY DEF TxIn

\* A transaction that is sent is executed after all that are pending.
LEMMA PendingSubmit ==
  ASSUME ChainTypeOK, ChainTypeOK', PoolSent', FreshInv, FreshInv', OneView, OneView',
         NEW t \in Tx, Submit(t), UNCHANGED bscVars
  PROVE  Pending' = Exec(Pending, t)
<1>1. PICK m \in Nat : NextNonce(m)
  BY DEF FreshInv, NonceInv
<1>2. PICK n \in Nat : NextNonce(n)'
  BY DEF FreshInv, NonceInv
<1> DEFINE a == acctNonce
           q == pool'
<1>3. q = pool \cup {t} /\ a' = a /\ State' = State
  BY DEF Submit, bscVars, State
<1>4. a \in Nat /\ a <= m /\ NoncesOf(pool) = a..(m - 1) /\ NoncesOf(q) = a..(n - 1)
      /\ q \subseteq Tx /\ IsFiniteSet(q) /\ a <= n
  BY <1>1, <1>2, <1>3 DEF NextNonce, ChainTypeOK, NoncesOf
<1>5. t.nonce = m /\ n = m + 1
  <2>1. NoncesOf(q) = NoncesOf(pool) \cup {t.nonce}
    BY <1>3 DEF NoncesOf
  <2>2. t.nonce >= a /\ t.nonce \notin a..(m - 1) /\ t.nonce \in Nat
    BY <1>4 DEF Submit, OneView, Tx, HeaderTxType, PackageTxType
  <2> HIDE DEF a, q
  <2>3. ASSUME NEW k \in Nat, k >= a, k \notin a..(m - 1), (a..(m - 1)) \cup {k} = a..(n - 1)
        PROVE  k = m /\ n = m + 1
    <3>1. k >= m
      BY <1>4, <2>3
    <3>2. k \in a..(n - 1)
      BY <2>3
    <3>3. m \in a..(n - 1)
      BY <1>4, <3>1, <3>2
    <3>4. k = m
      BY <2>3, <3>3
    <3>5. m + 1 \notin (a..(m - 1)) \cup {k}
      BY <3>4
    <3>6. m + 1 \notin a..(n - 1)
      BY <2>3, <3>5
    <3> QED
      BY <1>4, <3>3, <3>4, <3>6
  <2> QED
    BY <1>4, <2>1, <2>2, <2>3
<1>6. \A u, v \in q : u.nonce = v.nonce => u = v
  BY DEF FreshInv, OncePerNonce, PoolSent
<1>7. TxIn(q, m) = t
  BY <1>3, <1>5, <1>6, TxInIs
<1>8. \A k \in a..(m - 1) : TxIn(q, k) = TxIn(pool, k)
  <2> SUFFICES ASSUME NEW k \in a..(m - 1) PROVE TxIn(q, k) = TxIn(pool, k)
    OBVIOUS
  <2>1. PICK u \in pool : u.nonce = k
    BY <1>4 DEF NoncesOf
  <2>2. u \in q /\ \A v, w \in pool : v.nonce = w.nonce => v = w
    BY <1>3, <1>6
  <2> QED
    BY <1>6, <2>1, <2>2, TxInIs
<1>9. Pending = Ran(State, pool, a, m) /\ Pending' = Ran(State, q, a, m + 1)
  <2>1. Pending = Ran(State, pool, a, m)
    BY <1>1, PendingRun
  <2>2. NextOf(q, a) = n
    <3> HIDE DEF a, q
    <3> QED
      BY <1>4, PoolFilled
  <2> QED
    BY <1>3, <1>5, <2>1, <2>2 DEF Pending, Pend
<1> HIDE DEF a, q
<1>10. Ran(State, q, a, m + 1) = Exec(Ran(State, q, a, m), t)
  BY <1>4, <1>7, RanNext
<1>11. Ran(State, q, a, m) = Ran(State, pool, a, m)
  <2>1. Ran(State, pool, a, a) = State
    BY <1>4, RanStart
  <2>2. Ran(Ran(State, pool, a, a), q, a, m) = Ran(State, pool, a, m)
    BY <1>4, <1>8, RanShifts
  <2> QED
    BY <2>1, <2>2
<1> QED
  BY <1>9, <1>10, <1>11

\* Mining only moves the first transaction of the run into the state.
LEMMA PendingMined ==
  ASSUME ChainTypeOK, ChainTypeOK', PoolSent, FreshInv, FreshInv', OneView, OneView', MineTx
  PROVE  Pending' = Pending
<1>1. PICK m \in Nat : NextNonce(m)
  BY DEF FreshInv, NonceInv
<1> DEFINE a == acctNonce
           q == pool'
<1>2. PICK t \in pool : /\ t.nonce = a
                        /\ recv' = Exec(State, t).recv
                        /\ headers' = Exec(State, t).headers
  BY DEF MineTx
<1>3. a' = a + 1 /\ q = {u \in pool : u.nonce # a}
  BY DEF MineTx
<1>4. a \in Nat /\ NoncesOf(pool) = a..(m - 1) /\ a \in a..(m - 1) /\ a + 1 <= m
      /\ q \subseteq Tx /\ IsFiniteSet(q)
  <2>1. a \in Nat /\ NoncesOf(pool) = a..(m - 1) /\ q \subseteq Tx /\ IsFiniteSet(q)
    BY <1>1 DEF NextNonce, ChainTypeOK
  <2>2. a \in NoncesOf(pool)
    BY <1>2 DEF NoncesOf
  <2> QED
    BY <2>1, <2>2
<1>5. NoncesOf(q) = (a + 1)..(m - 1)
  <2>1. NoncesOf(q) = NoncesOf(pool) \ {a}
    BY <1>3 DEF NoncesOf
  <2> HIDE DEF a, q
  <2> QED
    BY <1>4, <2>1
<1>6. \A u, v \in pool : u.nonce = v.nonce => u = v
  BY DEF FreshInv, OncePerNonce, PoolSent
<1>7. TxIn(pool, a) = t
  BY <1>2, <1>6, TxInIs
<1>8. \A k \in (a + 1)..(m - 1) : TxIn(q, k) = TxIn(pool, k)
  <2> SUFFICES ASSUME NEW k \in (a + 1)..(m - 1) PROVE TxIn(q, k) = TxIn(pool, k)
    OBVIOUS
  <2>1. PICK u \in q : u.nonce = k
    BY <1>5 DEF NoncesOf
  <2>2. u \in pool /\ \A v, w \in q : v.nonce = w.nonce => v = w
    BY <1>3, <1>6
  <2> QED
    BY <1>6, <2>1, <2>2, TxInIs
<1>9. State' = Exec(State, t)
  <2>1. t \in Tx /\ State \in ContractState
    BY StateType DEF ChainTypeOK
  <2>2. Exec(State, t) \in ContractState
    BY <2>1, ExecEffect
  <2>3. Exec(State, t) = [recv |-> Exec(State, t).recv, headers |-> Exec(State, t).headers]
    BY <2>2 DEF ContractState
  <2> QED
    BY <1>2, <2>3 DEF State
<1>10. Pending = Ran(State, pool, a, m) /\ Pending' = Ran(State', q, a + 1, m)
  <2>1. Pending = Ran(State, pool, a, m)
    BY <1>1, PendingRun
  <2>2. NextOf(q, a + 1) = m
    <3> HIDE DEF a, q
    <3> QED
      BY <1>4, <1>5, PoolFilled
  <2> QED
    BY <1>3, <2>1, <2>2 DEF Pending, Pend
<1> HIDE DEF a, q
<1>11. Ran(State, pool, a, a + 1) = State'
  <2>1. Ran(State, pool, a, a) = State
    BY <1>4, RanStart
  <2>2. Ran(State, pool, a, a + 1) = Exec(Ran(State, pool, a, a), TxIn(pool, a))
    BY <1>4, RanNext
  <2> QED
    BY <1>7, <1>9, <2>1, <2>2
<1>12. Ran(Ran(State, pool, a, a + 1), q, a + 1, m) = Ran(State, pool, a, m)
  BY <1>4, <1>8, RanShifts
<1> QED
  BY <1>10, <1>11, <1>12

\* What a rival delivers first is ahead of what the pool starts from.
LEMMA PendingRivals ==
  ASSUME ChainTypeOK, ChainTypeOK', FreshInv, OneView, RivalDelivers
  PROVE  NotBehind(Pending, Pending')
<1>1. PICK m \in Nat : NextNonce(m)
  BY DEF FreshInv, NonceInv
<1>2. UNCHANGED <<acctNonce, pool>>
  BY DEF RivalDelivers
<1>3. PICK c \in Channels, h \in 1..(Latest - 1) :
        recv' = [recv EXCEPT ![c] = @ + 1] /\ headers' = headers \cup {h + 1}
  BY DEF RivalDelivers
<1>4. State \in ContractState /\ State' \in ContractState /\ NotBehind(State, State')
  <2>1. recv \in [Channels -> Nat] /\ recv' \in [Channels -> Nat] /\ headers' \subseteq Nat
        /\ headers \subseteq Nat
    BY DEF ChainTypeOK
  <2>2. \A d \in Channels : recv[d] <= recv'[d]
    BY <1>3, <2>1
  <2> QED
    BY <1>3, <2>1, <2>2 DEF State, ContractState, NotBehind
<1>5. Pending = Ran(State, pool, acctNonce, m) /\ Filled(pool, acctNonce, m)
      /\ acctNonce \in Nat /\ acctNonce <= m
  BY <1>1, PendingRun
<1>6. NextOf(pool, acctNonce) = m
  BY <1>1, PoolFilled DEF NextNonce, ChainTypeOK
<1>7. Pending' = Ran(State', pool, acctNonce, m)
  BY <1>2, <1>6 DEF Pending, Pend
<1> QED
  BY <1>4, <1>5, <1>7, RanMonotone

\* What a step of the relayer or of BSC does to the account.
AccountStep ==
  \/ UNCHANGED <<bscVars, pool, sent>>
  \/ \E t \in Tx : Submit(t) /\ UNCHANGED bscVars
  \/ MineTx \/ RivalDelivers \/ DropTx

\* The transaction a batch sends next.
BatchTx == PackageTx(ChannelList[ci], seq, ch, ProofHeader(ch), nonce)

LEMMA BatchTxType ==
  ASSUME ExecInv, BatchSend
  PROVE  /\ BatchTx \in Tx /\ BatchTx.kind = "package" /\ BatchTx.nonce = nonce
         /\ BatchTx.chan = ChannelList[ci] /\ BatchTx.seq = seq /\ BatchTx.at = ch
         /\ BatchTx.hdr = ch + 1 /\ HeaderSent(ch + 1)
         /\ ChannelList[ci] \in Channels /\ ch \in 1..Latest
<1>1. PackageExists(ChannelList[ci], seq, ch) /\ HeaderSent(Inc(ch))
  BY DEF BatchSend, ExecInv, ControlOK, BatchPcs
<1>2. ChannelList[ci] \in Channels /\ ch \in 1..Latest
  BY <1>1, SeqAtType DEF ExecInv, ExecTypeOK
<1>3. ch \in Uint64 /\ seq \in Nat /\ nonce \in Nat /\ ch + 1 < Word
  BY <1>2, ExecutorAssumption, BoundsAssumption DEF ExecInv, ExecTypeOK, ChainTypeOK
<1>4. ProofHeader(ch) = ch + 1 /\ Inc(ch) = ch + 1 /\ ch + 1 \in Uint64
  BY <1>3, IncProperties DEF ProofHeader
<1> DEFINE c == ChannelList[ci]
<1>5. c \in Channels /\ c \in Nat /\ BatchTx = PackageTx(c, seq, ch, ch + 1, nonce)
  BY <1>2, <1>4, ChannelsAssumption DEF BatchTx
<1>6. BatchTx.nonce = nonce
  BY DEF BatchTx, PackageTx
<1> HIDE DEF c
<1>7. /\ BatchTx \in Tx /\ BatchTx.kind = "package" /\ BatchTx.chan = c /\ BatchTx.seq = seq
      /\ BatchTx.at = ch /\ BatchTx.hdr = ch + 1
  BY <1>3, <1>4, <1>5, PackageTxType_
<1> QED
  BY <1>1, <1>2, <1>4, <1>6, <1>7 DEF c

\* Broadcasting submits the transaction, or does nothing.
LEMMA BroadcastAccount ==
  ASSUME NEW t \in Tx, NEW ok \in BOOLEAN, Broadcast(t, ok), UNCHANGED bscVars
  PROVE  AccountStep
  BY DEF Broadcast, AccountStep

LEMMA SubroutineAccount ==
  ASSUME ExecInv, SubroutineStep
  PROVE  AccountStep
<1>1. CASE SyncSend
  <2>1. PICK ok \in BOOLEAN : Broadcast(HeaderTx(hdr, nonce), ok)
    BY <1>1 DEF SyncSend
  <2>2. HeaderTx(hdr, nonce) \in Tx
    BY HeaderTxType_ DEF ExecInv, ExecTypeOK
  <2>3. UNCHANGED bscVars
    BY <1>1 DEF SyncSend
  <2> QED
    BY <2>1, <2>2, <2>3, BroadcastAccount
<1>2. CASE BatchSend
  <2>1. PICK ok \in BOOLEAN : Broadcast(BatchTx, ok)
    BY <1>2 DEF BatchSend, BatchTx
  <2>2. BatchTx \in Tx
    BY <1>2, BatchTxType
  <2>3. UNCHANGED bscVars
    BY <1>2 DEF BatchSend
  <2> QED
    BY <2>1, <2>2, <2>3, BroadcastAccount
<1>3. CASE SyncNonce \/ SyncQuery \/ CleanSeq \/ CleanDeliver \/ CleanSynced \/ BatchNonce \/ BatchPkg
  BY <1>3 DEF SyncNonce, SyncQuery, QueryTendermintHeader, CleanSeq, CleanDeliver, CleanSynced,
       BatchNonce, BatchPkg,
     AccountStep
<1> QED
  BY <1>1, <1>2, <1>3 DEF SubroutineStep

\* What the account's facts are built on.
AccountInv == ChainTypeOK /\ PoolSent /\ FreshInv

\* The pending state never loses anything.
LEMMA PendingGrows ==
  ASSUME AccountInv, AccountInv', AccountStep, OneView, OneView'
  PROVE  /\ NotBehind(Pending, Pending')
         /\ Pending \in ContractState /\ Pending' \in ContractState
<1>1. Pending \in ContractState
  BY PendingType DEF AccountInv, FreshInv
<1>8. Pending' \in ContractState
  BY PendingTypeNext DEF AccountInv, FreshInv
<1>2. ASSUME NEW s \in ContractState PROVE NotBehind(s, s)
  BY DEF NotBehind, ContractState
<1>3. CASE UNCHANGED <<bscVars, pool, sent>>
  <2>1. Pending' = Pending
    BY <1>3, PendingFrame
  <2> QED
    BY <1>1, <1>2, <1>8, <2>1
<1>4. ASSUME NEW t \in Tx, Submit(t), UNCHANGED bscVars
      PROVE  NotBehind(Pending, Pending')
  <2>1. Pending' = Exec(Pending, t)
    BY <1>4, PendingSubmit DEF AccountInv
  <2> QED
    BY <1>1, <2>1, ExecEffect
<1>5. CASE MineTx
  <2>1. Pending' = Pending
    BY <1>5, PendingMined DEF AccountInv
  <2> QED
    BY <1>1, <1>2, <1>8, <2>1
<1>6. CASE RivalDelivers
  <2>1. NotBehind(Pending, Pending')
    BY <1>6, PendingRivals DEF AccountInv
  <2> QED
    BY <1>1, <1>8, <2>1
<1>7. ~DropTx
  BY DEF DropTx, Fault, OneView
<1> QED
  BY <1>1, <1>3, <1>4, <1>5, <1>6, <1>7, <1>8 DEF AccountStep

-------------------------------------------------------------------------------
(* What a cleanup has seen to *)

\* The next sequence of a channel in a contract state.
Got(s, c) == IF c \in Channels THEN s.recv[c] ELSE 0

LEMMA PendingGot ==
  ASSUME NEW c
  PROVE  PendingRecv(c) = Got(Pending, c) /\ PendingRecv(c)' = Got(Pending', c)
BY PendingIs DEF Got

LEMMA GotGrows ==
  ASSUME NEW s \in ContractState, NEW u \in ContractState, NotBehind(s, u), NEW c
  PROVE  Got(s, c) \in Nat /\ Got(u, c) \in Nat /\ Got(s, c) <= Got(u, c)
BY DEF Got, ContractState, NotBehind

\* Every header sent is there once the pool is executed.
HeadersPending == OneView => \A t \in HeaderTxs : t.height \in Pending.headers

LEMMA HeadersArrive ==
  ASSUME AccountInv, AccountInv', AccountStep, OneView' => OneView, HeadersPending
  PROVE  HeadersPending'
<1> SUFFICES ASSUME OneView', NEW t \in HeaderTxs' PROVE t.height \in Pending'.headers
  BY DEF HeadersPending
<1>1. Pending.headers \subseteq Pending'.headers /\ Pending \in ContractState
  BY PendingGrows DEF NotBehind
<1>2. CASE t \in sent
  <2>1. t \in HeaderTxs
    BY <1>2 DEF HeaderTxs
  <2> QED
    BY <1>1, <2>1 DEF HeadersPending
<1>3. CASE t \notin sent
  <2>1. t \in sent' /\ t.kind = "header"
    BY DEF HeaderTxs
  <2>2. Submit(t) /\ UNCHANGED bscVars /\ t \in Tx
    BY <1>3, <2>1 DEF AccountStep, Submit, MineTx, RivalDelivers, DropTx
  <2>3. Pending' = Exec(Pending, t)
    BY <2>2, PendingSubmit DEF AccountInv
  <2> QED
    BY <1>1, <2>1, <2>2, <2>3, ExecEffect
<1> QED
  BY <1>2, <1>3

\* A package that BSC expects at the latest when it executes, whose header is
\* out, moves its channel on.
LEMMA PackageDelivers ==
  ASSUME AccountInv, AccountInv', OneView, OneView', HeadersPending, UNCHANGED bscVars,
         NEW t \in Tx, Submit(t), t.kind = "package", t.chan \in Channels, t.seq \in Nat,
         t.hdr = t.at + 1, HeaderSent(t.hdr), t.seq <= Got(Pending, t.chan)
  PROVE  t.seq + 1 <= Got(Pending', t.chan)
<1>1. Pending' = Exec(Pending, t) /\ Pending \in ContractState /\ Pending' \in ContractState
  BY PendingSubmit, PendingType, PendingTypeNext DEF AccountInv, FreshInv
<1>2. t.hdr \in Pending.headers
  BY DEF HeaderSent, HeadersPending, HeaderTxs
<1> DEFINE c == t.chan
<1>3. CASE t.seq = Pending.recv[c]
  <2>1. Accepts(Pending, t)
    BY <1>2, <1>3 DEF Accepts
  <2>2. Pending' = [Pending EXCEPT !.recv[c] = @ + 1]
    BY <1>1, <2>1 DEF Exec
  <2>3. Pending'.recv[c] = Pending.recv[c] + 1
    BY <1>1, <2>2 DEF ContractState
  <2> QED
    BY <1>3, <2>3 DEF Got
<1>4. CASE t.seq # Pending.recv[c]
  <2>1. t.seq < Pending.recv[c] /\ Pending.recv[c] \in Nat /\ Pending'.recv[c] \in Nat
    BY <1>1, <1>4 DEF Got, ContractState
  <2>2. Pending.recv[c] <= Pending'.recv[c]
    BY <1>1, ExecEffect DEF NotBehind
  <2> QED
    BY <2>1, <2>2 DEF Got
<1> QED
  BY <1>3, <1>4

\* The package a batch sends is delivered by it, unless one of its sequence
\* was before.
LEMMA BatchDelivers ==
  ASSUME ExecInv, AccountInv, AccountInv', OneView, OneView', HeadersPending,
         BatchSend, Submit(BatchTx), seq <= Got(Pending, ChannelList[ci])
  PROVE  seq + 1 <= Got(Pending', ChannelList[ci])
<1>1. BatchTx \in Tx /\ BatchTx.kind = "package" /\ BatchTx.chan = ChannelList[ci]
      /\ BatchTx.seq = seq /\ BatchTx.hdr = BatchTx.at + 1 /\ HeaderSent(BatchTx.hdr)
      /\ ChannelList[ci] \in Channels
  BY BatchTxType
<1>2. seq \in Nat /\ UNCHANGED bscVars
  BY DEF ExecInv, ExecTypeOK, BatchSend
<1> QED
  BY <1>1, <1>2, PackageDelivers

\* The next sequence BC has after a block does not change any more.
LEMMA SeqStable ==
  ASSUME ChainTypeOK, ChainTypeOK', BlocksKept, NEW h \in Uint64, h <= Latest \/ h > MaxHeight
  PROVE  \A c : SeqOn(blocks', c, h) = SeqOn(blocks, c, h)
<1>1. Latest \in Nat /\ Latest' \in Nat /\ Latest <= Latest' /\ Latest' <= MaxHeight
      /\ Latest = Len(blocks) /\ Latest' = Len(blocks')
  BY BoundsAssumption DEF BlocksKept, ChainTypeOK, Latest
<1>2. h \in Nat /\ MaxHeight \in Nat
  BY ExecutorAssumption, BoundsAssumption DEF Uint64
<1>3. CASE h \in 1..Latest
  <2>1. h \in 1..Latest' /\ blocks'[h] = blocks[h]
    BY <1>1, <1>3 DEF BlocksKept
  <2> QED
    BY <1>1, <1>3, <2>1 DEF SeqOn
<1>4. CASE h \notin 1..Latest
  <2>1. h \notin 1..Latest'
    BY <1>1, <1>2, <1>4
  <2> QED
    BY <1>1, <1>4, <2>1 DEF SeqOn
<1> QED
  BY <1>3, <1>4

\* Once the pool is executed the channel c has all that BC has after block h.
Covered(c, h) == Got(Pending, c) >= SeqOn(blocks, c, h)

\* A batch is under way, or the header sync it waits for.
InBatch == \/ pc \in BatchPcs \cup {"cleanSynced"}
           \/ pc \in SyncPcs /\ syncRet = "cleanSynced"

\* A batch starts where the pending pool ends and goes on no further than BC
\* does, and as far unless it was cut.
BatchOK ==
  LET c == ChannelList[ci] IN
    /\ pc = "cleanDeliver" => nextSeq = SeqOn(blocks, c, ch)
    /\ InBatch => /\ seq <= Got(Pending, c) /\ seq < end
                  /\ end <= SeqOn(blocks, c, ch)
                  /\ ~capped => end = SeqOn(blocks, c, ch)

\* The channels before the current one are done, and after a cleanup without
\* an error all are.
CleanOK ==
  /\ Cleaning => \A j \in 1..(ci - 1) : Covered(ChannelList[j], ch)
  /\ pc \in CleanedPcs /\ ~err => \A c \in Monitored : Covered(c, ch)

CleanInv == OneView => BatchOK /\ (~capped => CleanOK)

\* The cleaned height is one BC has, or one it never will (the latest height
\* could not be read).
ChOK == ch <= Latest \/ ch > MaxHeight

LEMMA CleanupDeliversFrom ==
  ASSUME CleanInv
  PROVE  CleanupDelivers
BY PendingGot DEF CleanInv, CleanOK, CleanupDelivers, Covered, SeqAt

\* A step that starts a cleanup, ends one with an error or is outside of one.
LEMMA CleanupIdle ==
  ASSUME ~InBatch', pc' # "cleanDeliver", pc' \in CleanedPcs => err', Cleaning' => ci' = 1
  PROVE  CleanInv'
<1>1. BatchOK'
  BY DEF BatchOK
<1>2. CleanOK'
  BY DEF CleanOK
<1> QED
  BY <1>1, <1>2 DEF CleanInv

\* The pending state and what BC has at the cleaned height over one step.
Grows ==
  /\ Pending \in ContractState /\ Pending' \in ContractState /\ NotBehind(Pending, Pending')
  /\ UNCHANGED ch /\ \A c : SeqOn(blocks', c, ch) = SeqOn(blocks, c, ch)
  /\ \A c, h : SeqOn(blocks, c, h) \in Nat

LEMMA CoveredStays ==
  ASSUME Grows, NEW c, Got(Pending, c) >= SeqOn(blocks, c, ch)
  PROVE  Got(Pending', c) >= SeqOn(blocks', c, ch')
<1>1. Got(Pending, c) \in Nat /\ Got(Pending', c) \in Nat /\ Got(Pending, c) <= Got(Pending', c)
      /\ SeqOn(blocks, c, ch) \in Nat /\ SeqOn(blocks', c, ch') = SeqOn(blocks, c, ch)
  BY GotGrows DEF Grows
<1> QED
  BY <1>1

LEMMA SubroutineGrows ==
  ASSUME ExecInv, AccountInv, AccountInv', SubroutineStep, OneView, OneView'
  PROVE  Grows
<1>1. UNCHANGED <<blocks, ch>>
  BY DEF SubroutineStep, SyncNonce, SyncQuery, QueryTendermintHeader, SyncSend, CleanSeq,
       CleanDeliver, CleanSynced,
     BatchNonce, BatchPkg, BatchSend, ReturnClean, cleanVars, Sent, NextChannel
<1>2. \A c, h : SeqOn(blocks, c, h) \in Nat
  BY SeqAtType DEF SeqAt, AccountInv
<1>3. NotBehind(Pending, Pending') /\ Pending \in ContractState /\ Pending' \in ContractState
  BY SubroutineAccount, PendingGrows
<1> QED
  BY <1>1, <1>2, <1>3 DEF Grows

\* A step inside a cleanup, or around one, that changes none of its numbers.
LEMMA CleanupKept ==
  ASSUME Grows, CleanInv, OneView' => OneView,
         UNCHANGED <<ci, capped>>, ExecTypeOK,
         InBatch' => InBatch /\ UNCHANGED batchVars,
         pc' = "cleanDeliver" => pc = "cleanDeliver" /\ UNCHANGED nextSeq,
         Cleaning' => Cleaning,
         pc' \in CleanedPcs /\ ~err' => pc \in CleanedPcs /\ ~err
  PROVE  CleanInv'
<1> SUFFICES ASSUME OneView' PROVE BatchOK' /\ (~capped' => CleanOK')
  BY DEF CleanInv
<1>1. BatchOK /\ (~capped => CleanOK)
  BY DEF CleanInv
<1>2. BatchOK'
  <2> DEFINE c == ChannelList[ci]
  <2>1. pc' = "cleanDeliver" => nextSeq' = SeqOn(blocks', c, ch')
    BY <1>1 DEF BatchOK, Grows
  <2>2. InBatch' => /\ seq' <= Got(Pending', c) /\ seq' < end'
                    /\ end' <= SeqOn(blocks', c, ch')
                    /\ (~capped' => end' = SeqOn(blocks', c, ch'))
    <3> SUFFICES ASSUME InBatch'
                 PROVE  /\ seq' <= Got(Pending', c) /\ seq' < end'
                        /\ end' <= SeqOn(blocks', c, ch')
                        /\ (~capped' => end' = SeqOn(blocks', c, ch'))
      OBVIOUS
    <3>1. seq <= Got(Pending, c) /\ (~capped => end = SeqOn(blocks, c, ch))
          /\ seq < end /\ end <= SeqOn(blocks, c, ch) /\ seq' = seq /\ end' = end /\ seq \in Nat
      BY <1>1 DEF BatchOK, ExecTypeOK, batchVars
    <3>2. Got(Pending, c) \in Nat /\ Got(Pending', c) \in Nat /\ Got(Pending, c) <= Got(Pending', c)
      BY GotGrows DEF Grows
    <3>3. seq' <= Got(Pending', c)
      BY <3>1, <3>2
    <3> QED
      BY <3>1, <3>3 DEF Grows
  <2> QED
    BY <2>1, <2>2 DEF BatchOK
<1>3. CASE capped'
  BY <1>2, <1>3
<1>4. CASE ~capped'
  <2>1. CleanOK
    BY <1>1, <1>4
  <2>2. ASSUME NEW c, Covered(c, ch) PROVE Got(Pending', c) >= SeqOn(blocks', c, ch')
    BY <2>2, CoveredStays DEF Covered
  <2>3. CleanOK'
    BY <2>1, <2>2 DEF CleanOK, Covered, Monitored
  <2> QED
    BY <1>2, <2>3
<1> QED
  BY <1>3, <1>4

\* The current channel is done, and the cleanup goes on with the next.
LEMMA ChannelDone ==
  ASSUME Grows, CleanInv, OneView' => OneView, Cleaning, ci \in Nat, NextChannel, UNCHANGED capped,
         OneView' /\ ~capped => Got(Pending', ChannelList[ci]) >= SeqOn(blocks', ChannelList[ci], ch')
  PROVE  CleanInv'
<1> SUFFICES ASSUME OneView' PROVE BatchOK' /\ (~capped' => CleanOK')
  BY DEF CleanInv
<1>1. BatchOK'
  BY DEF NextChannel, BatchOK, InBatch, BatchPcs, SyncPcs
<1>2. CASE ~capped'
  <2>1. CleanOK /\ Got(Pending', ChannelList[ci]) >= SeqOn(blocks', ChannelList[ci], ch')
    BY <1>2 DEF CleanInv
  <2>2. ASSUME NEW j \in 1..ci
        PROVE  Got(Pending', ChannelList[j]) >= SeqOn(blocks', ChannelList[j], ch')
    <3>1. CASE j = ci
      BY <2>1, <3>1
    <3>2. CASE j # ci
      <4>1. j \in 1..(ci - 1)
        BY <3>2
      <4>2. Got(Pending, ChannelList[j]) >= SeqOn(blocks, ChannelList[j], ch)
        BY <2>1, <4>1 DEF CleanOK, Covered
      <4> QED
        BY <4>2, CoveredStays
    <3> QED
      BY <3>1, <3>2
  <2>3. ci' - 1 = ci
    BY DEF NextChannel
  <2>4. pc' \notin CleanedPcs
    BY DEF NextChannel, CleanedPcs
  <2>5. \A j \in 1..(ci' - 1) : Got(Pending', ChannelList[j]) >= SeqOn(blocks', ChannelList[j], ch')
    BY <2>2, <2>3
  <2> QED
    BY <1>1, <2>4, <2>5 DEF CleanOK, Covered
<1> QED
  BY <1>1, <1>2

\* A cleanup that gives up returns an error.
LEMMA CleanupFails ==
  ASSUME ExecInv, Cleaning, pc \notin SyncPcs, ReturnClean(TRUE)
  PROVE  CleanInv'
<1>1. pc' \in CleanedPcs /\ err'
  BY DEF ReturnClean, ExecInv, ControlOK
<1>2. ~InBatch' /\ pc' # "cleanDeliver" /\ ~Cleaning'
  BY <1>1 DEF CleanedPcs, InBatch, Cleaning, BatchPcs, SyncPcs, CleanPcs
<1> QED
  BY <1>1, <1>2, CleanupIdle

LEMMA SyncClean ==
  ASSUME ExecInv, Grows, CleanInv, OneView' => OneView, SyncNonce \/ SyncQuery \/ SyncSend
  PROVE  CleanInv'
<1>1. UNCHANGED <<batchVars, cleanVars, capped>> /\ pc \in SyncPcs
  BY DEF SyncNonce, SyncQuery, QueryTendermintHeader, SyncSend, SyncPcs
<1>2. pc \in SyncPcs => syncRet \in SyncedPcs
  BY DEF ExecInv, ControlOK
<1>3. (pc' \in SyncPcs /\ UNCHANGED syncVars) \/ pc' = syncRet
  BY DEF SyncNonce, SyncQuery, QueryTendermintHeader, SyncSend, ReturnSync, SyncPcs
<1>4. ExecTypeOK
  BY DEF ExecInv
<1>5. /\ InBatch' => InBatch
      /\ pc' # "cleanDeliver"
      /\ Cleaning' => Cleaning
      /\ pc' \notin CleanedPcs
  BY <1>1, <1>2, <1>3 DEF InBatch, Cleaning, CleanedPcs, SyncedPcs, SyncPcs, BatchPcs, CleanPcs,
     syncVars
<1> QED
  BY <1>1, <1>4, <1>5, CleanupKept DEF cleanVars

LEMMA CleanSeqClean ==
  ASSUME ExecInv, Grows, CleanInv, OneView' => OneView, CleanSeq
  PROVE  CleanInv'
<1>1. pc = "cleanSeq" /\ Cleaning /\ pc \notin SyncPcs /\ ci \in Nat
      /\ Len(ChannelList) \in Nat /\ cleanRet \in CleanedPcs
  BY ExecutorAssumption DEF CleanSeq, Cleaning, CleanPcs, SyncPcs, ExecInv, ExecTypeOK, ControlOK
<1>2. CASE ci > Len(ChannelList) /\ ReturnClean(FALSE)
  <2> SUFFICES ASSUME OneView' PROVE BatchOK' /\ (~capped' => CleanOK')
    BY DEF CleanInv
  <2>1. pc' \in CleanedPcs
    BY <1>1, <1>2 DEF ReturnClean
  <2>2. ~InBatch' /\ pc' # "cleanDeliver" /\ ~Cleaning'
    BY <2>1 DEF CleanedPcs, InBatch, Cleaning, BatchPcs, SyncPcs, CleanPcs
  <2>3. ASSUME ~capped', NEW c \in Monitored
        PROVE  Got(Pending', c) >= SeqOn(blocks', c, ch')
    <3>1. PICK i \in 1..Len(ChannelList) : c = ChannelList[i]
      BY DEF Monitored
    <3>2. i \in 1..(ci - 1)
      BY <1>1, <1>2
    <3>3. CleanOK
      BY <2>3 DEF CleanSeq, CleanInv
    <3>4. Got(Pending, c) >= SeqOn(blocks, c, ch)
      BY <1>1, <3>1, <3>2, <3>3 DEF CleanOK, Covered
    <3> QED
      BY <3>4, CoveredStays
  <2> QED
    BY <2>2, <2>3 DEF BatchOK, CleanOK, Covered, Monitored
<1>3. CASE /\ nextSeq' = SeqAt(ChannelList[ci], ch) /\ pc' = "cleanDeliver"
           /\ UNCHANGED <<err, nonce, batchVars, ch, ci, synced, accel, cleanRet>>
  <2> SUFFICES ASSUME OneView' PROVE BatchOK' /\ (~capped' => CleanOK')
    BY DEF CleanInv
  <2>1. BatchOK'
    BY <1>3 DEF BatchOK, InBatch, BatchPcs, SyncPcs, SeqAt, Grows
  <2>2. ASSUME ~capped', NEW j \in 1..(ci - 1)
        PROVE  Got(Pending', ChannelList[j]) >= SeqOn(blocks', ChannelList[j], ch')
    <3>1. CleanOK
      BY <2>2 DEF CleanSeq, CleanInv
    <3>2. Got(Pending, ChannelList[j]) >= SeqOn(blocks, ChannelList[j], ch)
      BY <1>1, <3>1 DEF CleanOK, Covered
    <3> QED
      BY <3>2, CoveredStays
  <2>3. pc' \notin CleanedPcs /\ ci' = ci
    BY <1>3 DEF CleanedPcs
  <2> QED
    BY <2>1, <2>2, <2>3 DEF CleanOK, Covered
<1>4. CASE ReturnClean(TRUE)
  BY <1>1, <1>4, CleanupFails
<1> QED
  BY <1>2, <1>3, <1>4 DEF CleanSeq

LEMMA CleanDeliverClean ==
  ASSUME ExecInv, Grows, CleanInv, OneView' => OneView, CleanDeliver
  PROVE  CleanInv'
<1>1. pc = "cleanDeliver" /\ Cleaning /\ pc \notin SyncPcs /\ ci \in Nat /\ nextSeq \in Nat
      /\ MaxBatchSize \in Nat \ {0}
  BY ExecutorAssumption DEF CleanDeliver, Cleaning, CleanPcs, SyncPcs, ExecInv, ExecTypeOK
<1>2. CASE ReturnClean(TRUE)
  BY <1>1, <1>2, CleanupFails
<1>3. CASE ~OneView'
  BY <1>3 DEF CleanInv
<1>4. CASE OneView' /\ ~ReturnClean(TRUE)
  <2> DEFINE c == ChannelList[ci]
  <2>1. PICK d \in Recvs(c) : ReadRecv(c, d) /\ (Undelivered(d) \/ NothingNew(d))
    BY <1>4 DEF CleanDeliver
  <2>2. d = Got(Pending, c)
    BY <1>4, <2>1, PendingGot DEF ReadRecv, Fault, OneView
  <2>3. d \in Nat /\ Got(Pending', c) \in Nat /\ d <= Got(Pending', c)
        /\ SeqOn(blocks, c, ch) \in Nat /\ SeqOn(blocks', c, ch') = SeqOn(blocks, c, ch)
    BY <2>2, GotGrows DEF Grows
  <2>4. nextSeq = SeqOn(blocks, c, ch)
    BY <1>1, <1>4 DEF CleanInv, BatchOK
  <2>5. CASE NothingNew(d)
    <3>1. Got(Pending', c) >= SeqOn(blocks', c, ch')
      BY <2>3, <2>4, <2>5 DEF NothingNew
    <3> QED
      BY <1>1, <2>5, <3>1, ChannelDone DEF NothingNew
  <2>6. CASE Undelivered(d)
    <3>1. /\ pc' \in {"batchNonce", "syncNonce"} /\ ci' = ci /\ seq' = d /\ end' = BatchEnd(d)
          /\ capped' = (capped \/ nextSeq > d + MaxBatchSize)
      BY <2>6 DEF Undelivered, CallSync
    <3>2. seq' <= Got(Pending', c)
      BY <2>3, <3>1
    <3>3. ~capped' => end' = SeqOn(blocks', c, ch')
      <4>1. ~(nextSeq > d + MaxBatchSize) => BatchEnd(d) = nextSeq
        BY <1>1, <2>3 DEF BatchEnd, Smaller
      <4> QED
        BY <2>3, <2>4, <3>1, <4>1
    <3>4. BatchOK'
      <4>1. d < BatchEnd(d) /\ BatchEnd(d) <= nextSeq
        BY <1>1, <2>3, <2>6 DEF BatchEnd, Smaller, Undelivered
      <4>2. seq' < end' /\ end' <= SeqOn(blocks', c, ch')
        BY <2>3, <2>4, <3>1, <4>1
      <4> QED
        BY <3>1, <3>2, <3>3, <4>2 DEF BatchOK
    <3>5. ASSUME ~capped', NEW j \in 1..(ci - 1)
          PROVE  Got(Pending', ChannelList[j]) >= SeqOn(blocks', ChannelList[j], ch')
      <4>1. CleanOK
        BY <1>4, <3>1, <3>5 DEF CleanInv
      <4>2. Got(Pending, ChannelList[j]) >= SeqOn(blocks, ChannelList[j], ch)
        BY <1>1, <4>1 DEF CleanOK, Covered
      <4> QED
        BY <4>2, CoveredStays
    <3>6. pc' \notin CleanedPcs
      BY <3>1 DEF CleanedPcs
    <3> QED
      BY <3>1, <3>4, <3>5, <3>6 DEF CleanInv, CleanOK, Covered
  <2> QED
    BY <2>1, <2>5, <2>6
<1> QED
  BY <1>2, <1>3, <1>4

LEMMA BatchReadClean ==
  ASSUME ExecInv, Grows, CleanInv, OneView' => OneView, CleanSynced \/ BatchNonce \/ BatchPkg
  PROVE  CleanInv'
<1>1. pc \in {"cleanSynced", "batchNonce", "batchPkg"} /\ Cleaning /\ pc \notin SyncPcs /\ InBatch
      /\ ci \in Nat /\ ExecTypeOK
  BY DEF CleanSynced, BatchNonce, BatchPkg, Cleaning, CleanPcs, SyncPcs, BatchPcs, InBatch,
     ExecInv, ExecTypeOK
<1>2. CASE ReturnClean(TRUE)
  BY <1>1, <1>2, CleanupFails
<1>3. CASE pc' \in BatchPcs /\ UNCHANGED <<ci, batchVars, capped>>
  <2>1. pc' \notin CleanedPcs /\ pc' # "cleanDeliver"
    BY <1>3 DEF BatchPcs, CleanedPcs
  <2> QED
    BY <1>1, <1>3, <2>1, CleanupKept
<1>4. CASE BatchPkg /\ seq >= end /\ NextChannel /\ UNCHANGED capped
  <2>1. ASSUME OneView', ~capped'
        PROVE  Got(Pending', ChannelList[ci]) >= SeqOn(blocks', ChannelList[ci], ch')
    <3>1. seq <= Got(Pending, ChannelList[ci]) /\ end = SeqOn(blocks, ChannelList[ci], ch)
      BY <1>1, <1>4, <2>1 DEF CleanInv, BatchOK
    <3>2. Got(Pending, ChannelList[ci]) \in Nat /\ seq \in Nat /\ end \in Nat
      BY GotGrows DEF Grows, ExecInv, ExecTypeOK
    <3>3. Got(Pending, ChannelList[ci]) >= SeqOn(blocks, ChannelList[ci], ch)
      BY <1>4, <3>1, <3>2
    <3> QED
      BY <3>3, CoveredStays
  <2> QED
    BY <1>1, <1>4, <2>1, ChannelDone
<1> QED
  BY <1>1, <1>2, <1>3, <1>4 DEF CleanSynced, BatchNonce, BatchPkg, BatchPcs, cleanVars

LEMMA BatchSendClean ==
  ASSUME ExecInv, AccountInv, AccountInv', Grows, HeadersPending, CleanInv, OneView' => OneView,
         BatchSend
  PROVE  CleanInv'
<1>1. pc = "batchSend" /\ Cleaning /\ pc \notin SyncPcs /\ InBatch /\ ci \in Nat
  BY DEF BatchSend, Cleaning, CleanPcs, SyncPcs, BatchPcs, InBatch, ExecInv, ExecTypeOK
<1>2. CASE ReturnClean(TRUE)
  BY <1>1, <1>2, CleanupFails
<1>3. CASE ~OneView'
  BY <1>3 DEF CleanInv
<1>4. CASE OneView' /\ ~ReturnClean(TRUE)
  <2> DEFINE c == ChannelList[ci]
  <2>1. Submit(BatchTx) /\ Sent /\ UNCHANGED <<capped, ch>>
    BY <1>4 DEF BatchSend, Broadcast, BatchTx, Sent, cleanVars
  <2>2. seq <= Got(Pending, c) /\ (~capped => end = SeqOn(blocks, c, ch))
        /\ end <= SeqOn(blocks, c, ch)
    BY <1>1, <1>4 DEF CleanInv, BatchOK
  <2>3. seq + 1 <= Got(Pending', c)
    BY <1>4, <2>1, <2>2, BatchDelivers
  <2>4. CASE seq + 1 >= end /\ NextChannel
    <3>1. seq \in Nat /\ end \in Nat /\ Got(Pending', c) \in Nat
      BY GotGrows DEF Grows, ExecInv, ExecTypeOK
    <3>2. end <= Got(Pending', c)
      BY <2>3, <2>4, <3>1
    <3>3. ~capped => Got(Pending', c) >= SeqOn(blocks', c, ch')
      BY <2>2, <3>1, <3>2 DEF Grows
    <3> QED
      BY <1>1, <2>1, <2>4, <3>3, ChannelDone
  <2>5. CASE pc' = "batchPkg" /\ seq' = seq + 1 /\ seq + 1 < end /\ UNCHANGED <<end, ci>>
    <3>1. BatchOK'
      BY <2>1, <2>2, <2>3, <2>5 DEF BatchOK, Grows
    <3>2. ASSUME ~capped', NEW j \in 1..(ci - 1)
          PROVE  Got(Pending', ChannelList[j]) >= SeqOn(blocks', ChannelList[j], ch')
      <4>1. CleanOK
        BY <1>4, <2>1, <3>2 DEF CleanInv
      <4>2. Got(Pending, ChannelList[j]) >= SeqOn(blocks, ChannelList[j], ch)
        BY <1>1, <4>1 DEF CleanOK, Covered
      <4> QED
        BY <4>2, CoveredStays
    <3>3. pc' \notin CleanedPcs
      BY <2>5 DEF CleanedPcs
    <3> QED
      BY <2>5, <3>1, <3>2, <3>3 DEF CleanInv, CleanOK, Covered
  <2> QED
    BY <2>1, <2>4, <2>5 DEF Sent, cleanVars
<1> QED
  BY <1>2, <1>3, <1>4

\* Every step of a subroutine keeps what a cleanup has seen to.
LEMMA SubroutineClean ==
  ASSUME ExecInv, AccountInv, AccountInv', HeadersPending, CleanInv, OneView' => OneView,
         SubroutineStep
  PROVE  CleanInv'
<1>1. CASE ~OneView'
  BY <1>1 DEF CleanInv
<1>2. CASE OneView'
  <2>1. Grows
    BY <1>2, SubroutineGrows
  <2> QED
    BY <2>1, SyncClean, CleanSeqClean, CleanDeliverClean, BatchReadClean, BatchSendClean
    DEF SubroutineStep
<1> QED
  BY <1>1, <1>2

\* So does every step of the chains, as long as the cleaned height is stable.
LEMMA EnvironmentClean ==
  ASSUME ExecInv, ExecTypeOK', AccountInv, AccountInv', CleanInv, ChOK, UNCHANGED execVars,
         ProduceBlock \/ MineTx \/ RivalDelivers \/ DropTx
  PROVE  CleanInv' /\ ChOK'
<1>1. UNCHANGED <<pc, err, syncRet, ch, ci, nextSeq, seq, end, capped>>
  BY DEF execVars
<1>2. BlocksKept
  BY BlocksStay DEF MineTx, RivalDelivers, DropTx
<1>3. ChOK'
  <2>1. ch \in Nat
    BY ExecutorAssumption DEF ExecInv, ExecTypeOK, Uint64
  <2> QED
    BY <1>1, <1>2, <2>1 DEF ChOK, BlocksKept
<1>4. CASE ~OneView'
  BY <1>3, <1>4 DEF CleanInv
<1>5. CASE OneView'
  <2>1. OneView
    BY <1>5 DEF ProduceBlock, MineTx, RivalDelivers, DropTx, Fault, OneView, faultVars
  <2>2. AccountStep
    BY DEF AccountStep, ProduceBlock
  <2>3. NotBehind(Pending, Pending') /\ Pending \in ContractState /\ Pending' \in ContractState
    BY <1>5, <2>1, <2>2, PendingGrows
  <2>4. \A c, h : SeqOn(blocks, c, h) \in Nat
    BY SeqAtType DEF SeqAt, AccountInv
  <2>5. \A c : SeqOn(blocks', c, ch) = SeqOn(blocks, c, ch)
    BY <1>2, SeqStable DEF AccountInv, ChOK, ExecInv, ExecTypeOK
  <2>6. Grows
    BY <1>1, <2>3, <2>4, <2>5 DEF Grows
  <2>7. CleanInv'
    BY <1>1, <2>1, <2>6, CleanupKept DEF InBatch, Cleaning, batchVars, ExecInv
  <2> QED
    BY <1>3, <2>7
<1> QED
  BY <1>4, <1>5

\* As long as nothing goes wrong, a cleanup at a height BC has does not fail.
SmoothInv ==
  NothingWrong =>
    /\ Cleaning => ch <= Latest
    /\ pc \in CleanedPcs \cup {"cleanSynced"} => ~err

\* With a fresh nonce no provider refuses the package either.
LEMMA BatchSucceeds ==
  ASSUME ExecInv, FreshInv, BatchSend, NothingWrong'
  PROVE  Submit(BatchTx) /\ Sent /\ NothingWrong
<1>1. PICK ok \in BOOLEAN : /\ Broadcast(BatchTx, ok)
                            /\ (ok /\ Sent) \/ (~ok /\ ReturnClean(TRUE))
  BY DEF BatchSend, BatchTx
<1>2. NothingWrong /\ NoFault
  BY <1>1, NothingWrongBefore DEF Broadcast
<1>3. IsPendingNonce(nonce)
  <2>1. NonceFresh /\ OneView
    BY <1>2, FreshNonce DEF FreshInv, ExecInv, ExecTypeOK, NothingWrong, OneView
  <2> QED
    BY <2>1 DEF NonceFresh, BatchSend
<1>4. acctNonce \in Nat /\ nonce \in Nat /\ BatchTx.nonce = nonce
  BY BatchTxType DEF ExecInv, ExecTypeOK, ChainTypeOK
<1>5. ~Refused(BatchTx)
  BY <1>3, <1>4 DEF Refused, IsPendingNonce
<1>6. \A k : ~Fault(k)
  BY DEF Fault, NothingWrong
<1> QED
  BY <1>1, <1>2, <1>5, <1>6 DEF Broadcast

\* A cleanup that has begun stays at its height.
LEMMA SubroutineCaller ==
  ASSUME ExecInv, SubroutineStep
  PROVE  UNCHANGED ch /\ (Cleaning' => Cleaning)
<1>1. UNCHANGED ch
  BY DEF SubroutineStep, SyncNonce, SyncQuery, QueryTendermintHeader, SyncSend, CleanSeq,
       CleanDeliver, CleanSynced,
     BatchNonce, BatchPkg, BatchSend, ReturnClean, Sent, cleanVars
<1>2. CASE pc \in CleanPcs
  BY <1>1, <1>2 DEF Cleaning
<1>3. CASE pc \notin CleanPcs
  <2>1. SyncNonce \/ SyncQuery \/ SyncSend
    BY <1>3 DEF SubroutineStep, CleanSeq, CleanDeliver, CleanSynced, BatchNonce, BatchPkg,
       BatchSend, CleanPcs, BatchPcs
  <2>2. pc \in SyncPcs
    BY <2>1 DEF SyncNonce, SyncQuery, QueryTendermintHeader, SyncSend, SyncPcs
  <2>3. syncRet \in SyncedPcs
    BY <2>2 DEF ExecInv, ControlOK
  <2>4. \/ pc' \in SyncPcs /\ UNCHANGED syncRet
        \/ pc' = syncRet
    BY <2>1 DEF SyncNonce, SyncQuery, QueryTendermintHeader, SyncSend, ReturnSync, SyncPcs, syncVars
  <2> QED
    BY <1>1, <2>2, <2>3, <2>4 DEF Cleaning, SyncedPcs, SyncPcs, CleanPcs, BatchPcs
<1> QED
  BY <1>2, <1>3

LEMMA SubroutineSmooth ==
  ASSUME ExecInv, FreshInv, CleanInv, SmoothInv, SubroutineStep
  PROVE  SmoothInv'
<1> SUFFICES ASSUME NothingWrong'
             PROVE  /\ Cleaning' => ch' <= Latest'
                    /\ pc' \in CleanedPcs \cup {"cleanSynced"} => ~err'
  BY DEF SmoothInv
<1>1. \A k : ~Fault(k)
  BY DEF Fault, NothingWrong
<1>2. NothingWrong /\ OneView /\ NoFault
  <2>1. NoFault \/ \E k : Fault(k)
    BY DEF SubroutineStep, SyncNonce, SyncQuery, QueryTendermintHeader, SyncSend, CleanSeq,
         CleanDeliver, CleanSynced,
       BatchNonce, BatchPkg, BatchSend, ReadNonce, ReadRecv, Broadcast
  <2> QED
    BY <2>1, NothingWrongBefore DEF NothingWrong, OneView
<1>3. UNCHANGED blocks /\ UNCHANGED ch /\ (Cleaning' => Cleaning)
  BY SubroutineCaller, SubroutineReturns
<1>4. Cleaning' => ch' <= Latest'
  BY <1>2, <1>3 DEF SmoothInv, Latest
<1>5. CASE SyncNonce
  <2>1. pc' = "syncQuery"
    BY <1>1, <1>5 DEF SyncNonce
  <2> QED
    BY <1>4, <2>1 DEF CleanedPcs
<1>6. CASE SyncQuery
  <2>1. CASE pc' \in {"syncSend", "syncQuery"}
    BY <1>4, <2>1 DEF CleanedPcs
  <2>2. CASE hdr < 1 /\ pc' = syncRet
    <3>1. syncRet \in SyncedPcs /\ (syncRet = "cleanSynced" => hdr = Inc(ch) /\ Cleaning)
      BY <1>6 DEF SyncQuery, QueryTendermintHeader, ExecInv, ControlOK, SyncPcs, Cleaning
    <3>2. syncRet # "cleanSynced"
      <4> SUFFICES ASSUME syncRet = "cleanSynced" PROVE FALSE
        OBVIOUS
      <4>1. ch <= Latest /\ ch \in Nat /\ ch \in Uint64 /\ Latest \in Nat /\ Latest <= MaxHeight
        BY <1>2, <3>1, BoundsAssumption, ExecutorAssumption
        DEF SmoothInv, ExecInv, ExecTypeOK, ChainTypeOK, Uint64
      <4>2. ch + 1 < Word
        BY <4>1, BoundsAssumption, ExecutorAssumption
      <4>3. hdr = ch + 1
        BY <3>1, <4>1, <4>2, IncProperties
      <4> QED
        BY <2>2, <4>1, <4>3
    <3> QED
      BY <1>4, <2>2, <3>1, <3>2 DEF CleanedPcs, SyncedPcs
  <2> QED
    BY <1>1, <1>6, <2>1, <2>2 DEF SyncQuery, QueryTendermintHeader, ReturnSync
<1>7. CASE SyncSend
  BY <1>4, <1>7, SyncSucceeds
<1>8. CASE CleanSeq
  <2>1. pc' = "cleanDeliver" \/ ReturnClean(FALSE)
    BY <1>1, <1>8 DEF CleanSeq
  <2> QED
    BY <1>4, <2>1 DEF CleanedPcs, ReturnClean
<1>9. CASE CleanDeliver
  <2>1. pc' \in {"batchNonce", "syncNonce", "cleanSeq"}
    BY <1>1, <1>9 DEF CleanDeliver, Undelivered, NothingNew, CallSync, NextChannel
  <2> QED
    BY <1>4, <2>1 DEF CleanedPcs
<1>10. CASE CleanSynced
  <2>1. pc' = "batchNonce"
    BY <1>2, <1>10 DEF CleanSynced, SmoothInv
  <2> QED
    BY <1>4, <2>1 DEF CleanedPcs
<1>11. CASE BatchNonce
  <2>1. pc' = "batchPkg"
    BY <1>1, <1>11 DEF BatchNonce
  <2> QED
    BY <1>4, <2>1 DEF CleanedPcs
<1>12. CASE BatchPkg
  <2>1. seq < end /\ end <= SeqAt(ChannelList[ci], ch)
    BY <1>2, <1>12 DEF BatchPkg, CleanInv, BatchOK, InBatch, BatchPcs, SeqAt
  <2>2. seq \in Nat /\ end \in Nat /\ SeqAt(ChannelList[ci], ch) \in Nat
    BY SeqAtType DEF ExecInv, ExecTypeOK
  <2>3. PackageExists(ChannelList[ci], seq, ch)
    BY <2>1, <2>2 DEF PackageExists
  <2>4. pc' \in {"cleanSeq", "batchSend"}
    BY <1>1, <1>12, <2>3 DEF BatchPkg, NextChannel
  <2> QED
    BY <1>4, <2>4 DEF CleanedPcs
<1>13. CASE BatchSend
  <2>1. pc' \in {"cleanSeq", "batchPkg"}
    BY <1>13, BatchSucceeds DEF Sent, NextChannel
  <2> QED
    BY <1>4, <2>1 DEF CleanedPcs
<1> QED
  BY <1>5, <1>6, <1>7, <1>8, <1>9, <1>10, <1>11, <1>12, <1>13 DEF SubroutineStep

LEMMA EnvironmentSmooth ==
  ASSUME ExecInv, SmoothInv, UNCHANGED execVars,
         ProduceBlock \/ MineTx \/ RivalDelivers \/ DropTx
  PROVE  SmoothInv'
<1>1. UNCHANGED <<pc, err, syncRet, ch>> /\ ch \in Nat
  BY ExecutorAssumption DEF execVars, ExecInv, ExecTypeOK, Uint64
<1>2. BlocksKept
  BY BlocksStay DEF MineTx, RivalDelivers, DropTx
<1>3. NothingWrong' => NothingWrong
  BY NothingWrongBefore DEF ProduceBlock, MineTx, RivalDelivers, DropTx, NoFault, faultVars,
     NothingWrong
<1> QED
  BY <1>1, <1>2, <1>3 DEF SmoothInv, BlocksKept, Cleaning

-------------------------------------------------------------------------------
(* All that is known of a cleanup, in one invariant *)

CleanupInv == HeadersPending /\ CleanInv /\ ChOK /\ SmoothInv

LEMMA SubroutineCleanup ==
  ASSUME ExecInv, ExecInv', FreshInv, FreshInv', CleanupInv, SubroutineStep
  PROVE  CleanupInv'
<1>1. OneView' => OneView
  BY OneViewBefore DEF SubroutineStep, SyncNonce, SyncQuery, QueryTendermintHeader, SyncSend,
       CleanSeq, CleanDeliver,
     CleanSynced, BatchNonce, BatchPkg, BatchSend, ReadNonce, ReadRecv, Broadcast
<1>2. AccountInv /\ AccountInv'
  BY DEF AccountInv, ExecInv, ExecTypeOK
<1>3. HeadersPending'
  BY <1>1, <1>2, HeadersArrive, SubroutineAccount DEF CleanupInv
<1>4. CleanInv'
  BY <1>1, <1>2, SubroutineClean DEF CleanupInv
<1>5. ChOK'
  BY SubroutineCaller, SubroutineReturns DEF CleanupInv, ChOK, Latest
<1> QED
  BY <1>3, <1>4, <1>5, SubroutineSmooth DEF CleanupInv

LEMMA EnvironmentCleanup ==
  ASSUME ExecInv, ExecInv', FreshInv, FreshInv', CleanupInv, UNCHANGED execVars,
         ProduceBlock \/ MineTx \/ RivalDelivers \/ DropTx
  PROVE  CleanupInv'
<1>1. OneView' => OneView
  BY DEF ProduceBlock, MineTx, RivalDelivers, DropTx, Fault, OneView, faultVars
<1>2. AccountInv /\ AccountInv' /\ ExecTypeOK'
  BY DEF AccountInv, ExecInv, ExecTypeOK
<1>3. AccountStep
  BY DEF AccountStep, ProduceBlock
<1>4. HeadersPending'
  BY <1>1, <1>2, <1>3, HeadersArrive DEF CleanupInv
<1> QED
  BY <1>2, <1>4, EnvironmentClean, EnvironmentSmooth DEF CleanupInv

\* A daemon's loop is in no cleanup, or calls one at a height BC has or will
\* never have.
LEMMA LoopCleanup ==
  ASSUME ExecInv, ExecInv', FreshInv, FreshInv', CleanupInv, AccountStep, OneView' => OneView,
         pc' \notin CleanedPcs \cup CleanPcs \/ (pc' = "cleanSeq" /\ ci' = 1),
         pc' \in SyncPcs => syncRet' # "cleanSynced",
         ch' <= Latest' \/ ch' > MaxHeight,
         NothingWrong' /\ pc' = "cleanSeq" => ch' <= Latest'
  PROVE  CleanupInv'
<1>1. AccountInv /\ AccountInv'
  BY DEF AccountInv, ExecInv, ExecTypeOK
<1>2. HeadersPending'
  BY <1>1, HeadersArrive DEF CleanupInv
<1>3. ~InBatch' /\ pc' # "cleanDeliver" /\ pc' \notin CleanedPcs \cup {"cleanSynced"}
      /\ (Cleaning' => pc' = "cleanSeq" /\ ci' = 1)
  BY DEF InBatch, Cleaning, CleanPcs, BatchPcs, CleanedPcs, SyncPcs
<1>4. CleanInv' /\ SmoothInv'
  BY <1>3, CleanupIdle DEF SmoothInv
<1> QED
  BY <1>2, <1>4 DEF CleanupInv, ChOK

LEMMA CleanupInitially ==
  ASSUME ChainInit, pc \in {"start", "cleanSeq"}, ci \in {0, 1}, ch <= Latest
  PROVE  CleanupInv
<1>1. HeadersPending
  BY DEF ChainInit, HeadersPending, HeaderTxs
<1>2. ~InBatch /\ pc # "cleanDeliver" /\ pc \notin CleanedPcs \cup {"cleanSynced"}
  BY DEF InBatch, CleanPcs, BatchPcs, CleanedPcs, SyncPcs
<1>3. BatchOK /\ CleanOK
  BY <1>2 DEF BatchOK, CleanOK
<1> QED
  BY <1>1, <1>2, <1>3 DEF CleanupInv, CleanInv, ChOK, SmoothInv

LEMMA CleanupStutters ==
  ASSUME CleanupInv, UNCHANGED <<chainVars, execVars>>
  PROVE  CleanupInv'
<1>1. Pending' = Pending
  BY PendingFrame DEF chainVars, bscVars
<1>2. UNCHANGED <<blocks, sent, incidents, pc, err, syncRet, ch, ci, nextSeq, seq, end, capped>>
  BY DEF chainVars, execVars
<1>3. HeadersPending'
  BY <1>1, <1>2 DEF CleanupInv, HeadersPending, OneView, HeaderTxs
<1>4. CleanInv'
  <2>1. (InBatch' <=> InBatch) /\ (Cleaning' <=> Cleaning) /\ (OneView' <=> OneView)
    BY <1>2 DEF InBatch, Cleaning, OneView
  <2>2. BatchOK => BatchOK'
    BY <1>1, <1>2, <2>1 DEF BatchOK
  <2>3. CleanOK => CleanOK'
    BY <1>1, <1>2, <2>1 DEF CleanOK, Covered, Monitored
  <2> QED
    BY <1>2, <2>1, <2>2, <2>3 DEF CleanupInv, CleanInv
<1>5. ChOK' /\ SmoothInv'
  BY <1>2 DEF CleanupInv, ChOK, SmoothInv, NothingWrong, Cleaning, Latest
<1> QED
  BY <1>3, <1>4, <1>5 DEF CleanupInv

\* A subroutine returns to where it was called from.
LEMMA SubroutinePlace ==
  ASSUME ExecInv, SubroutineStep
  PROVE  /\ pc' \in CleanedPcs => Cleaning
         /\ pc' \in {"changeSynced", "blockSynced"} => pc \in SyncPcs /\ syncRet = pc'
<1>1. CASE SyncNonce \/ SyncQuery \/ SyncSend
  <2>1. pc \in SyncPcs /\ syncRet \in SyncedPcs /\ (pc' \in SyncPcs \/ pc' = syncRet)
    BY <1>1 DEF SyncNonce, SyncQuery, QueryTendermintHeader, SyncSend, ReturnSync, SyncPcs,
         ExecInv, ControlOK
  <2> QED
    BY <2>1 DEF CleanedPcs, SyncedPcs, SyncPcs
<1>2. CASE ~(SyncNonce \/ SyncQuery \/ SyncSend)
  <2>1. CleanupFrame
    BY <1>2, CleanupSteps DEF SubroutineStep
  <2>2. Cleaning /\ cleanRet \in CleanedPcs
    BY <2>1 DEF CleanupFrame, Cleaning, ExecInv, ControlOK
  <2> QED
    BY <2>1, <2>2 DEF CleanupFrame, CleanedPcs, CleanPcs, BatchPcs
<1> QED
  BY <1>1, <1>2

-------------------------------------------------------------------------------
(* In which order the packages of a channel are sent *)

\* Once the pool is executed, what was sent for a monitored channel is not
\* expected any more; and a batch is past all that was sent for its channel.
SentBelow == \A p \in PackageTxs : p.chan \in Monitored => p.seq < Got(Pending, p.chan)
BatchAhead == InBatch => \A p \in PackageTxs : p.chan = ChannelList[ci] => p.seq < seq
OrderOK == SentBelow /\ BatchAhead

LEMMA OrderKept ==
  ASSUME ChainTypeOK, OrderOK, Pending \in ContractState, Pending' \in ContractState,
         NotBehind(Pending, Pending'), PackageTxs' = PackageTxs,
         InBatch' => InBatch /\ UNCHANGED <<ci, seq>>
  PROVE  OrderOK'
<1>1. SentBelow'
  <2> SUFFICES ASSUME NEW p \in PackageTxs, p.chan \in Monitored
               PROVE  p.seq < Got(Pending', p.chan)
    BY DEF SentBelow, Monitored
  <2>1. p.seq < Got(Pending, p.chan) /\ p.seq \in Nat
    BY DEF OrderOK, SentBelow, ChainTypeOK, PackageTxs, Tx, HeaderTxType, PackageTxType
  <2>2. Got(Pending, p.chan) \in Nat /\ Got(Pending', p.chan) \in Nat
        /\ Got(Pending, p.chan) <= Got(Pending', p.chan)
    BY GotGrows
  <2> QED
    BY <2>1, <2>2
<1>2. BatchAhead'
  BY DEF OrderOK, BatchAhead
<1> QED
  BY <1>1, <1>2 DEF OrderOK

\* A package of a batch goes to the end of its channel's line.
LEMMA BatchOrder ==
  ASSUME ExecInv, AccountInv, AccountInv', OneView, OneView', HeadersPending, CleanInv, OrderOK,
         BatchSend, Submit(BatchTx)
  PROVE  OrderOK'
<1>1. BatchTx.kind = "package" /\ BatchTx.chan = ChannelList[ci] /\ BatchTx.seq = seq
  BY BatchTxType
<1>2. PackageTxs' = PackageTxs \cup {BatchTx} /\ InBatch /\ UNCHANGED bscVars
  BY <1>1 DEF Submit, PackageTxs, InBatch, BatchPcs, BatchSend
<1>3. seq \in Nat /\ seq + 1 <= Got(Pending', ChannelList[ci])
  BY <1>2, BatchDelivers DEF CleanInv, BatchOK, ExecInv, ExecTypeOK
<1>4. Grows
  BY SubroutineGrows DEF SubroutineStep
<1>5. ASSUME NEW p \in PackageTxs, p.chan \in Monitored
      PROVE  p.seq < Got(Pending', p.chan)
  <2>1. p.seq < Got(Pending, p.chan) /\ p.seq \in Nat
    BY <1>5 DEF OrderOK, SentBelow, AccountInv, ChainTypeOK, PackageTxs, Tx, HeaderTxType,
       PackageTxType
  <2>2. Got(Pending, p.chan) \in Nat /\ Got(Pending', p.chan) \in Nat
        /\ Got(Pending, p.chan) <= Got(Pending', p.chan)
    BY <1>4, GotGrows DEF Grows
  <2> QED
    BY <2>1, <2>2
<1>6. BatchTx.seq < Got(Pending', BatchTx.chan)
  <2>1. Got(Pending', ChannelList[ci]) \in Nat
    BY <1>4, GotGrows DEF Grows
  <2> QED
    BY <1>1, <1>3, <2>1
<1>7. SentBelow'
  BY <1>2, <1>5, <1>6 DEF SentBelow, Monitored
<1>8. BatchAhead'
  <2> SUFFICES ASSUME InBatch', NEW p \in PackageTxs', p.chan = ChannelList[ci'] PROVE p.seq < seq'
    BY DEF BatchAhead
  <2>1. pc' = "batchPkg" /\ seq' = seq + 1 /\ ci' = ci
    <3>1. CASE Sent
      BY <3>1 DEF Sent, NextChannel, InBatch, BatchPcs, SyncPcs, cleanVars
    <3>2. CASE ReturnClean(TRUE)
      <4>1. pc' \in CleanedPcs
        BY <1>2, <3>2 DEF ReturnClean, ExecInv, ControlOK, Cleaning, CleanPcs, BatchSend, BatchPcs
      <4> QED
        BY <4>1 DEF CleanedPcs, InBatch, BatchPcs, SyncPcs
    <3> QED
      BY <3>1, <3>2 DEF BatchSend
  <2>2. CASE p = BatchTx
    BY <1>1, <1>3, <2>1, <2>2
  <2>3. CASE p \in PackageTxs
    <3>1. p.seq < seq /\ p.seq \in Nat
      BY <1>2, <2>1, <2>3 DEF OrderOK, BatchAhead, AccountInv, ChainTypeOK, PackageTxs, Tx,
         HeaderTxType, PackageTxType
    <3> QED
      BY <1>3, <2>1, <3>1
  <2> QED
    BY <1>2, <2>2, <2>3
<1> QED
  BY <1>7, <1>8 DEF OrderOK

LEMMA SubroutineOrder ==
  ASSUME ExecInv, AccountInv, AccountInv', OneView, OneView', HeadersPending, CleanInv, OrderOK,
         SubroutineStep
  PROVE  OrderOK'
<1>1. Grows /\ ChainTypeOK
  BY SubroutineGrows DEF AccountInv
<1>2. ASSUME PackageTxs' = PackageTxs, InBatch' => InBatch /\ UNCHANGED <<ci, seq>> PROVE OrderOK'
  BY <1>1, <1>2, OrderKept DEF Grows
<1>3. ASSUME Cleaning, pc \notin SyncPcs, NEW f \in BOOLEAN, ReturnClean(f) PROVE ~InBatch'
  <2>1. pc' \in CleanedPcs
    BY <1>3 DEF ReturnClean, ExecInv, ControlOK
  <2> QED
    BY <2>1 DEF CleanedPcs, InBatch, BatchPcs, SyncPcs
<1>4. CASE SyncNonce \/ SyncQuery \/ SyncSend
  <2>1. PackageTxs' = PackageTxs
    <3>1. CASE SyncSend
      BY <3>1 DEF SyncSend, Broadcast, Submit, PackageTxs, HeaderTx
    <3> QED
      BY <1>4, <3>1 DEF SyncNonce, SyncQuery, QueryTendermintHeader, PackageTxs
  <2>2. /\ pc \in SyncPcs /\ syncRet \in SyncedPcs
        /\ (pc' \in SyncPcs /\ UNCHANGED syncRet) \/ pc' = syncRet
        /\ UNCHANGED <<ci, seq>>
    BY <1>4 DEF SyncNonce, SyncQuery, QueryTendermintHeader, SyncSend, ReturnSync, SyncPcs,
         ExecInv, ControlOK, syncVars,
       batchVars, cleanVars
  <2> QED
    BY <1>2, <2>1, <2>2 DEF InBatch, SyncedPcs, BatchPcs, SyncPcs
<1>5. CASE CleanSeq
  <2>1. ~InBatch'
    <3>1. Cleaning /\ pc \notin SyncPcs
      BY <1>5 DEF CleanSeq, Cleaning, CleanPcs, SyncPcs
    <3>2. pc' = "cleanDeliver" \/ \E f \in BOOLEAN : ReturnClean(f)
      BY <1>5 DEF CleanSeq
    <3> QED
      BY <1>3, <3>1, <3>2 DEF InBatch, BatchPcs, SyncPcs
  <2> QED
    BY <1>2, <1>5, <2>1 DEF CleanSeq, PackageTxs
<1>6. CASE CleanDeliver
  <2>1. PackageTxs' = PackageTxs /\ Pending' = Pending
    BY <1>6, PendingFrame DEF CleanDeliver, PackageTxs
  <2>2. CASE \E d \in Recvs(ChannelList[ci]) : ReadRecv(ChannelList[ci], d) /\ Undelivered(d)
    <3>1. PICK d \in Recvs(ChannelList[ci]) : ReadRecv(ChannelList[ci], d) /\ Undelivered(d)
      BY <2>2
    <3>2. d = Got(Pending, ChannelList[ci])
      BY <3>1, PendingGot DEF ReadRecv, Fault, OneView
    <3>3. ci' = ci /\ seq' = d
      BY <3>1 DEF Undelivered
    <3>4. SentBelow'
      BY <2>1 DEF OrderOK, SentBelow, Monitored
    <3>5. ChannelList[ci] \in Monitored
      BY <1>6 DEF Monitored, CleanDeliver, ExecInv, ExecTypeOK, ControlOK, Cleaning, CleanPcs
    <3>6. BatchAhead'
      BY <2>1, <3>2, <3>3, <3>5 DEF OrderOK, SentBelow, BatchAhead
    <3> QED
      BY <3>4, <3>6 DEF OrderOK
  <2>3. CASE \E d : NothingNew(d)
    <3>1. ~InBatch'
      BY <2>3 DEF NothingNew, NextChannel, InBatch, BatchPcs, SyncPcs
    <3> QED
      BY <1>2, <2>1, <3>1
  <2>4. CASE ReturnClean(TRUE)
    <3>1. ~InBatch'
      BY <1>3, <1>6, <2>4 DEF CleanDeliver, Cleaning, CleanPcs, SyncPcs
    <3> QED
      BY <1>2, <2>1, <3>1
  <2> QED
    BY <1>6, <2>2, <2>3, <2>4 DEF CleanDeliver
<1>7. CASE CleanSynced \/ BatchNonce \/ BatchPkg
  <2>1. PackageTxs' = PackageTxs /\ InBatch /\ Cleaning /\ pc \notin SyncPcs
    BY <1>7 DEF CleanSynced, BatchNonce, BatchPkg, PackageTxs, InBatch, BatchPcs, Cleaning,
       CleanPcs, SyncPcs
  <2>2. \/ UNCHANGED <<ci, seq>> \/ pc' = "cleanSeq" \/ ReturnClean(TRUE)
    BY <1>7 DEF CleanSynced, BatchNonce, BatchPkg, NextChannel, batchVars, cleanVars
  <2>3. InBatch' => UNCHANGED <<ci, seq>>
    BY <1>3, <2>1, <2>2 DEF InBatch, BatchPcs, SyncPcs
  <2> QED
    BY <1>2, <2>1, <2>3
<1>8. CASE BatchSend
  <2>1. CASE Submit(BatchTx)
    BY <1>8, <2>1, BatchOrder
  <2>2. CASE ~Submit(BatchTx)
    <3>1. UNCHANGED sent /\ ReturnClean(TRUE)
      BY <1>8, <2>2 DEF BatchSend, Broadcast, BatchTx
    <3>2. ~InBatch'
      BY <1>3, <1>8, <3>1 DEF BatchSend, Cleaning, CleanPcs, SyncPcs, BatchPcs
    <3> QED
      BY <1>2, <3>1, <3>2 DEF PackageTxs
  <2> QED
    BY <2>1, <2>2
<1> QED
  BY <1>4, <1>5, <1>6, <1>7, <1>8 DEF SubroutineStep

\* Where no batch is under way and nothing is sent, the order stays.
LEMMA OrderStays ==
  ASSUME AccountInv, AccountInv', AccountStep, OneView, OneView', OrderOK, UNCHANGED sent,
         InBatch' => InBatch /\ UNCHANGED <<ci, seq>>
  PROVE  OrderOK'
<1>1. NotBehind(Pending, Pending') /\ Pending \in ContractState /\ Pending' \in ContractState
  BY PendingGrows
<1> QED
  BY <1>1, OrderKept DEF AccountInv, PackageTxs

\* The subroutines send packages in batches only.
LEMMA PackagesSent ==
  ASSUME ExecInv, SubroutineStep
  PROVE  \/ PackageTxs' = PackageTxs
         \/ BatchSend /\ Submit(BatchTx) /\ PackageTxs' = PackageTxs \cup {BatchTx}
<1>1. CASE SyncSend
  BY <1>1 DEF SyncSend, Broadcast, Submit, PackageTxs, HeaderTx
<1>2. CASE BatchSend
  <2>1. BatchTx.kind = "package"
    BY <1>2, BatchTxType
  <2>2. Submit(BatchTx) \/ UNCHANGED sent
    BY <1>2 DEF BatchSend, Broadcast, BatchTx
  <2> QED
    BY <1>2, <2>1, <2>2 DEF Submit, PackageTxs
<1>3. CASE SyncNonce \/ SyncQuery \/ CleanSeq \/ CleanDeliver \/ CleanSynced \/ BatchNonce \/ BatchPkg
  BY <1>3 DEF SyncNonce, SyncQuery, QueryTendermintHeader, CleanSeq, CleanDeliver, CleanSynced,
       BatchNonce, BatchPkg,
     PackageTxs
<1> QED
  BY <1>1, <1>2, <1>3 DEF SubroutineStep

\* The nonce a subroutine holds is above all that were used.
LEMMA NonceAbove ==
  ASSUME FreshInv, OneView, pc \in HoldPcs
  PROVE  \A t \in sent : t.nonce < nonce
  BY DEF FreshInv, NonceInv, NextNonce

\* What is covered stays covered, and what BC had earlier is covered as well.
LEMMA CoveredOn ==
  ASSUME AccountInv, AccountInv', AccountStep, OneView, OneView', BlocksKept,
         NEW c, NEW h \in Nat, h <= Latest, Covered(c, h)
  PROVE  Got(Pending', c) >= SeqOn(blocks', c, h)
<1>1. ChainTypeOK /\ ChainTypeOK' /\ Latest \in Nat /\ Latest <= MaxHeight
  BY BoundsAssumption DEF AccountInv, ChainTypeOK
<1>2. h \in Uint64
  BY <1>1, BoundsAssumption, ExecutorAssumption DEF Uint64
<1>3. SeqOn(blocks', c, h) = SeqOn(blocks, c, h)
  BY <1>1, <1>2, SeqStable
<1>4. Got(Pending, c) \in Nat /\ Got(Pending', c) \in Nat /\ Got(Pending, c) <= Got(Pending', c)
  BY PendingGrows, GotGrows
<1>5. SeqOn(blocks, c, h) \in Nat
  BY <1>1, SeqAtType DEF SeqAt
<1> QED
  BY <1>3, <1>4, <1>5 DEF Covered

\* BC's counters do not go down from a block to a later one.
LEMMA SeqOnGrows ==
  ASSUME ExecInv, NEW c, NEW m \in Nat, NEW h \in Nat, m <= h, h <= Latest
  PROVE  SeqOn(blocks, c, m) <= SeqOn(blocks, c, h)
<1>1. SeqOn(blocks, c, m) \in Nat /\ SeqOn(blocks, c, h) \in Nat /\ Latest \in Nat
  BY SeqAtType DEF SeqAt, ExecInv, ExecTypeOK, ChainTypeOK
<1>2. CASE m \in 1..Latest /\ c \in Channels
  <2>1. h \in 1..Latest
    BY <1>1, <1>2
  <2>2. blocks[m].seqAt[c] <= blocks[h].seqAt[c]
    BY <1>2, <2>1 DEF ExecInv, SequencesGrow
  <2> QED
    BY <1>2, <2>1, <2>2 DEF SeqOn, Latest
<1>3. CASE ~(m \in 1..Latest /\ c \in Channels)
  <2>1. SeqOn(blocks, c, m) = 0
    BY <1>3 DEF SeqOn, Latest
  <2> QED
    BY <1>1, <2>1
<1> QED
  BY <1>2, <1>3

LEMMA CoveredBelow ==
  ASSUME ExecInv, Pending \in ContractState,
         NEW c, NEW h \in 1..Latest, Covered(c, h), NEW m \in Nat, m <= h
  PROVE  Covered(c, m)
<1>1. Got(Pending, c) \in Nat
  BY DEF Got, ContractState
<1>2. SeqOn(blocks, c, m) \in Nat /\ SeqOn(blocks, c, h) \in Nat /\ Latest \in Nat
  BY SeqAtType DEF SeqAt, ExecInv, ExecTypeOK, ChainTypeOK
<1>3. SeqOn(blocks, c, m) <= SeqOn(blocks, c, h)
  BY <1>2, SeqOnGrows
<1> QED
  BY <1>1, <1>2, <1>3 DEF Covered

-------------------------------------------------------------------------------
(* The packages a block announces *)

\* Tasks of one channel are in the order of their sequences.
Ascending(ts) ==
  \A i, j \in 1..Len(ts) : i < j /\ ts[i].chan = ts[j].chan => ts[i].seq < ts[j].seq

\* The tasks of block h are the packages between the counters of the block
\* before and its own: no other, in order, and all of them.
Announces(chain, h) ==
  LET ts == chain[h].tasks
      New(c) == SeqOn(chain, c, h - 1)..(SeqOn(chain, c, h) - 1)
  IN  /\ \A i \in 1..Len(ts) : ts[i].chan \in Channels /\ ts[i].seq \in New(ts[i].chan)
      /\ Ascending(ts)
      /\ \A c \in Channels : \A s \in New(c) :
           \E i \in 1..Len(ts) : ts[i].chan = c /\ ts[i].seq = s
BlocksAnnounce == \A h \in 1..Latest : Announces(blocks, h)

\* Before counts: one more with each position that carries the channel.
LEMMA BeforeCounts ==
  ASSUME NEW shape, NEW c
  PROVE  /\ Before(shape, c, 1) = 0
         /\ \A n \in Nat : Before(shape, c, n) \in Nat
         /\ \A n \in Nat \ {0} : Before(shape, c, n + 1) =
              IF shape[n] = c THEN Before(shape, c, n) + 1 ELSE Before(shape, c, n)
         /\ \A m, n \in Nat : m <= n => Before(shape, c, m) <= Before(shape, c, n)
<1> DEFINE P(n) == {i \in 1..(n - 1) : shape[i] = c}
<1>1. \A n : Before(shape, c, n) = Cardinality(P(n))
  BY DEF Before
<1>2. ASSUME NEW n \in Nat PROVE IsFiniteSet(P(n))
  <2>1. IsFiniteSet(1..(n - 1))
    BY FS_Interval
  <2> QED
    BY <2>1, FS_Subset
<1>3. P(1) = {}
  OBVIOUS
<1>4. ASSUME NEW n \in Nat \ {0}
      PROVE  P(n + 1) = IF shape[n] = c THEN P(n) \cup {n} ELSE P(n)
  <2>1. 1..((n + 1) - 1) = (1..(n - 1)) \cup {n}
    OBVIOUS
  <2> QED
    BY <2>1
<1>5. ASSUME NEW n \in Nat PROVE n \notin P(n)
  OBVIOUS
<1>6. ASSUME NEW m \in Nat, NEW n \in Nat, m <= n PROVE P(m) \in SUBSET P(n)
  BY <1>6
<1> HIDE DEF P
<1>7. \A n \in Nat : Cardinality(P(n)) \in Nat
  BY <1>2, FS_CardinalityType
<1>8. ASSUME NEW n \in Nat \ {0}
      PROVE  Cardinality(P(n + 1)) = IF shape[n] = c THEN Cardinality(P(n)) + 1 ELSE Cardinality(P(n))
  BY <1>2, <1>4, <1>5, FS_AddElement
<1>9. ASSUME NEW m \in Nat, NEW n \in Nat, m <= n PROVE Cardinality(P(m)) <= Cardinality(P(n))
  BY <1>2, <1>6, <1>9, FS_Subset
<1> QED
  <2>1. \A n \in Nat : Before(shape, c, n) \in Nat
    BY <1>1, <1>7
  <2>2. Before(shape, c, 1) = 0
    BY <1>1, <1>3, FS_EmptySet
  <2>3. \A n \in Nat \ {0} : Before(shape, c, n + 1) =
          IF shape[n] = c THEN Before(shape, c, n) + 1 ELSE Before(shape, c, n)
    BY <1>1, <1>8
  <2>4. \A m, n \in Nat : m <= n => Before(shape, c, m) <= Before(shape, c, n)
    BY <1>1, <1>9
  <2> QED
    BY <2>1, <2>2, <2>3, <2>4

\* So it takes every value on the way to its last one at a position that
\* carries the channel.
LEMMA BeforeReaches ==
  ASSUME NEW shape, NEW c, NEW n \in Nat, NEW r \in Nat, r < Before(shape, c, n + 1)
  PROVE  \E i \in 1..n : shape[i] = c /\ Before(shape, c, i) = r
<1> DEFINE S == {k \in Nat : k >= 1 /\ Before(shape, c, k) > r}
<1>1. S \subseteq Nat /\ n + 1 \in S
  OBVIOUS
<1>2. PICK m \in S : \A k \in S : m <= k
  <2> HIDE DEF S
  <2> QED
    BY <1>1, LeastNumber
<1>3. m \in Nat /\ m >= 1 /\ Before(shape, c, m) > r /\ m <= n + 1
  BY <1>1, <1>2
<1>4. m # 1
  BY <1>3, BeforeCounts
<1>5. m - 1 \in 1..n /\ m - 1 \in Nat \ {0} /\ (m - 1) + 1 = m /\ m - 1 >= 1 /\ ~(m <= m - 1)
  BY <1>3, <1>4
<1>6. m - 1 \notin S
  BY <1>2, <1>5
<1>7. ~(Before(shape, c, m - 1) > r)
  BY <1>5, <1>6
<1> DEFINE p == Before(shape, c, m - 1)
           q == Before(shape, c, m)
<1>8. p \in Nat /\ q \in Nat /\ q = IF shape[m - 1] = c THEN p + 1 ELSE p
  <2>1. p \in Nat /\ q \in Nat
    BY <1>3, <1>5, BeforeCounts
  <2>2. Before(shape, c, (m - 1) + 1) =
          IF shape[m - 1] = c THEN Before(shape, c, m - 1) + 1 ELSE Before(shape, c, m - 1)
    <3>1. \A k \in Nat \ {0} : Before(shape, c, k + 1) =
            IF shape[k] = c THEN Before(shape, c, k) + 1 ELSE Before(shape, c, k)
      BY BeforeCounts
    <3>2. m - 1 \in Nat \ {0}
      BY <1>5
    <3> QED
      BY <3>1, <3>2, Zenon
  <2> QED
    BY <1>5, <2>1, <2>2
<1>9. q > r /\ ~(p > r)
  BY <1>3, <1>7
<1> HIDE DEF p, q
<1>10. shape[m - 1] = c /\ p = r
  BY <1>8, <1>9
<1> QED
  BY <1>5, <1>10 DEF p

LEMMA BlockAnnounces ==
  ASSUME NEW chain \in Seq(BlockType), NEW shape \in BlockShapes, NEW v \in ValSets
  PROVE  Announces(Extend(chain, shape, v), Len(chain) + 1)
<1> DEFINE b == Block(chain, shape, v)
           n == Len(chain)
           next == Extend(chain, shape, v)
           At(c) == SeqOn(chain, c, n)
           ts == b.tasks
<1>1. n \in Nat /\ \A i \in 1..n : chain[i] \in BlockType
  BY LenProperties, ElementOfSeq
<1>2. \A c : At(c) \in Nat
  BY <1>1 DEF SeqOn, BlockType
<1>3. shape \in Seq(Channels) /\ Len(shape) \in Nat /\ \A i \in 1..Len(shape) : shape[i] \in Channels
  BY ShapesAssumption, LenProperties, ElementOfSeq
<1>4. b \in BlockType
  BY BlockGrows
<1>5. /\ next[n + 1] = b /\ Len(next) = n + 1
      /\ \A i \in 1..n : next[i] = chain[i]
  <2>1. next = Append(chain, b)
    BY DEF Extend
  <2> HIDE DEF b, next
  <2> QED
    BY <1>4, <2>1, AppendProperties
<1>6. \A c : SeqOn(next, c, n) = At(c)
  BY <1>1, <1>5 DEF SeqOn
<1>7. \A c \in Channels : SeqOn(next, c, n + 1) = At(c) + Before(shape, c, Len(shape) + 1)
  <2>1. b.seqAt = [c \in Channels |-> At(c) + Before(shape, c, Len(shape) + 1)]
    BY DEF Block
  <2> HIDE DEF b, next, At
  <2> QED
    BY <1>1, <1>5, <2>1 DEF SeqOn
<1>8. /\ Len(ts) = Len(shape)
      /\ \A i \in 1..Len(shape) :
           /\ ts[i].chan = shape[i]
           /\ ts[i].seq = At(shape[i]) + Before(shape, shape[i], i)
  <2>1. ts = [i \in 1..Len(shape) |->
                [chan |-> shape[i], seq |-> At(shape[i]) + Before(shape, shape[i], i)]]
    BY DEF Block
  <2>2. ts \in Seq(Task)
    BY <1>4 DEF BlockType
  <2> HIDE DEF b, At
  <2>3. Len(ts) = Len(shape)
    <3>1. DOMAIN ts = 1..Len(ts) /\ Len(ts) \in Nat
      BY <2>2, LenProperties
    <3>2. DOMAIN ts = 1..Len(shape)
      BY <2>1
    <3> QED
      BY <1>3, <3>1, <3>2
  <2> QED
    BY <2>1, <2>3
<1> HIDE DEF b, next, At, n, ts
<1>9. ASSUME NEW c, NEW i \in 1..Len(shape), shape[i] = c
      PROVE  /\ Before(shape, c, i) \in Nat
             /\ Before(shape, c, i + 1) = Before(shape, c, i) + 1
             /\ \A j \in Nat : i < j => Before(shape, c, i) < Before(shape, c, j)
  <2>1. i \in Nat \ {0} /\ i + 1 \in Nat
    BY <1>3
  <2>2. Before(shape, c, i) \in Nat /\ Before(shape, c, i + 1) = Before(shape, c, i) + 1
    BY <1>9, <2>1, BeforeCounts
  <2>3. ASSUME NEW j \in Nat, i < j PROVE Before(shape, c, i) < Before(shape, c, j)
    <3>1. i + 1 <= j
      BY <2>1, <2>3
    <3>2. Before(shape, c, i + 1) <= Before(shape, c, j) /\ Before(shape, c, j) \in Nat
      BY <2>1, <3>1, BeforeCounts
    <3> QED
      BY <2>2, <3>2
  <2> QED
    BY <2>2, <2>3
<1>10. ASSUME NEW i \in 1..Len(ts)
       PROVE  /\ ts[i].chan \in Channels
              /\ ts[i].seq \in SeqOn(next, ts[i].chan, n)..(SeqOn(next, ts[i].chan, n + 1) - 1)
  <2> DEFINE c == shape[i]
  <2>1. c \in Channels /\ ts[i].chan = c /\ ts[i].seq = At(c) + Before(shape, c, i)
        /\ i \in 1..Len(shape)
    BY <1>3, <1>8
  <2> DEFINE e == Len(shape) + 1
  <2>2. Before(shape, c, i) \in Nat /\ Before(shape, c, i) < Before(shape, c, e)
        /\ Before(shape, c, e) \in Nat
    <3>1. e \in Nat /\ i < e
      BY <1>3, <2>1
    <3> HIDE DEF e
    <3> QED
      BY <1>9, <2>1, <3>1, BeforeCounts
  <2>3. At(c) \in Nat /\ SeqOn(next, c, n) = At(c) /\ SeqOn(next, c, n + 1) = At(c) + Before(shape, c, e)
    BY <1>2, <1>6, <1>7, <2>1
  <2> HIDE DEF c, e
  <2>4. At(c) + Before(shape, c, i) \in At(c)..((At(c) + Before(shape, c, e)) - 1)
    BY <2>2, <2>3
  <2> QED
    BY <2>1, <2>3, <2>4
<1>11. Ascending(ts)
  <2> SUFFICES ASSUME NEW i \in 1..Len(ts), NEW j \in 1..Len(ts), i < j, ts[i].chan = ts[j].chan
               PROVE  ts[i].seq < ts[j].seq
    BY DEF Ascending
  <2> DEFINE c == shape[i]
  <2>1. shape[j] = c /\ ts[i].seq = At(c) + Before(shape, c, i)
        /\ ts[j].seq = At(c) + Before(shape, c, j) /\ i \in 1..Len(shape) /\ j \in Nat
    BY <1>3, <1>8
  <2>2. Before(shape, c, i) \in Nat /\ Before(shape, c, i) < Before(shape, c, j)
        /\ Before(shape, c, j) \in Nat /\ At(c) \in Nat
    BY <1>2, <1>9, <2>1, BeforeCounts
  <2> QED
    BY <2>1, <2>2
<1>12. ASSUME NEW c \in Channels, NEW s \in SeqOn(next, c, n)..(SeqOn(next, c, n + 1) - 1)
       PROVE  \E i \in 1..Len(ts) : ts[i].chan = c /\ ts[i].seq = s
  <2>1. At(c) \in Nat /\ SeqOn(next, c, n) = At(c)
        /\ SeqOn(next, c, n + 1) = At(c) + Before(shape, c, Len(shape) + 1)
        /\ Before(shape, c, Len(shape) + 1) \in Nat
    <3>1. Len(shape) + 1 \in Nat
      BY <1>3
    <3> QED
      BY <1>2, <1>6, <1>7, <3>1, BeforeCounts
  <2>2. s - At(c) \in Nat /\ s - At(c) < Before(shape, c, Len(shape) + 1)
        /\ At(c) + (s - At(c)) = s
    BY <2>1
  <2>3. PICK i \in 1..Len(shape) : shape[i] = c /\ Before(shape, c, i) = s - At(c)
    BY <1>3, <2>2, BeforeReaches
  <2> QED
    BY <1>8, <2>2, <2>3
<1>13. Announces(next, n + 1)
  <2>1. (n + 1) - 1 = n
    BY <1>1
  <2> QED
    BY <1>5, <1>10, <1>11, <1>12, <2>1 DEF Announces, ts
<1> QED
  BY <1>13 DEF next, n

\* What a block announced stays.
LEMMA AnnouncesStays ==
  ASSUME NEW old, NEW new, Len(old) \in Nat, Len(new) \in Nat, Len(old) <= Len(new),
         \A i \in 1..Len(old) : new[i] = old[i], NEW h \in 1..Len(old), Announces(old, h)
  PROVE  Announces(new, h)
<1>1. new[h] = old[h] /\ h \in Nat
  OBVIOUS
<1>2. \A c : SeqOn(new, c, h) = SeqOn(old, c, h) /\ SeqOn(new, c, h - 1) = SeqOn(old, c, h - 1)
  <2>1. h \in 1..Len(new)
    OBVIOUS
  <2>2. CASE h = 1
    BY <1>1, <2>1, <2>2 DEF SeqOn
  <2>3. CASE h # 1
    <3>1. h - 1 \in 1..Len(old) /\ h - 1 \in 1..Len(new)
      BY <2>1, <2>3
    <3> QED
      BY <1>1, <2>1, <3>1 DEF SeqOn
  <2> QED
    BY <2>2, <2>3
<1> QED
  BY <1>1, <1>2 DEF Announces

LEMMA AnnouncedInitially ==
  ASSUME ChainInit
  PROVE  BlocksAnnounce
<1>1. PICK s1 \in BlockShapes, s2 \in BlockShapes, v1 \in ValSets, v2 \in ValSets :
        blocks = Extend(Extend(<<>>, s1, v1), s2, v2)
  BY DEF ChainInit
<1> DEFINE c1 == Extend(<<>>, s1, v1)
<1>2. c1 \in Seq(BlockType) /\ Len(c1) = 1
  <2>1. Block(<<>>, s1, v1) \in BlockType
    BY BlockGrows, EmptySeq
  <2> QED
    BY <2>1, AppendProperties, EmptySeq DEF Extend
<1>3. Announces(c1, 1)
  <2>1. Announces(Extend(<<>>, s1, v1), Len(<<>>) + 1)
    BY BlockAnnounces, EmptySeq
  <2>2. Len(<<>>) + 1 = 1
    BY EmptySeq
  <2> QED
    BY <2>1, <2>2
<1> HIDE DEF c1
<1>4. /\ Len(blocks) = 2 /\ \A i \in 1..1 : blocks[i] = c1[i]
  <2>1. Block(c1, s2, v2) \in BlockType
    BY <1>2, BlockGrows
  <2> QED
    BY <1>1, <1>2, <2>1, AppendProperties DEF Extend, c1
<1>5. Announces(blocks, 2)
  <2>1. Announces(Extend(c1, s2, v2), Len(c1) + 1)
    BY <1>2, BlockAnnounces
  <2>2. blocks = Extend(c1, s2, v2) /\ Len(c1) + 1 = 2
    <3>1. Len(c1) + 1 = 2
      BY <1>2
    <3> QED
      BY <1>1, <3>1, Zenon DEF c1
  <2> QED
    BY <2>1, <2>2
<1>6. Announces(blocks, 1)
  <2>1. Len(c1) \in Nat /\ Len(blocks) \in Nat /\ Len(c1) <= Len(blocks) /\ 1 \in 1..Len(c1)
        /\ \A i \in 1..Len(c1) : blocks[i] = c1[i]
    BY <1>2, <1>4
  <2> QED
    BY <1>3, <2>1, AnnouncesStays
<1>7. \A h \in 1..Latest : h = 1 \/ h = 2
  BY <1>4 DEF Latest
<1> QED
  BY <1>5, <1>6, <1>7 DEF BlocksAnnounce

LEMMA AnnouncedNext ==
  ASSUME ExecInv, BlocksAnnounce, ProduceBlock \/ UNCHANGED blocks
  PROVE  BlocksAnnounce'
<1>1. CASE UNCHANGED blocks
  BY <1>1 DEF BlocksAnnounce, Latest
<1>2. CASE ProduceBlock
  <2>1. PICK shape \in BlockShapes, v \in ValSets : blocks' = Extend(blocks, shape, v)
    BY <1>2 DEF ProduceBlock
  <2>2. blocks \in Seq(BlockType) /\ Len(blocks) \in Nat /\ Len(blocks') = Len(blocks) + 1
        /\ \A h \in 1..Len(blocks) : blocks'[h] = blocks[h]
    BY <1>2, StoreStable DEF ExecInv, ExecTypeOK, ChainTypeOK, Latest
  <2>3. Announces(blocks', Len(blocks) + 1)
    BY <2>1, <2>2, BlockAnnounces
  <2>4. ASSUME NEW h \in 1..Len(blocks) PROVE Announces(blocks', h)
    <3>1. Announces(blocks, h)
      BY DEF BlocksAnnounce, Latest
    <3> QED
      BY <2>2, <3>1, AnnouncesStays
  <2>5. \A h \in 1..Len(blocks') : h \in 1..Len(blocks) \/ h = Len(blocks) + 1
    BY <2>2
  <2> QED
    BY <2>3, <2>4, <2>5 DEF BlocksAnnounce, Latest
<1> QED
  BY <1>1, <1>2

-------------------------------------------------------------------------------
(* What is delivered was sent *)

\* What BSC expects once the pool is executed was delivered, or is in the pool.
LEMMA MissingSent ==
  ASSUME AccountInv, OneView, NEW c, NEW s \in Nat, s < Got(Pending, c)
  PROVE  s < recv[c] \/ PackageSent(c, s)
<1>1. c \in Channels
  BY DEF Got
<1>2. PICK m \in Nat : NextNonce(m)
  BY DEF AccountInv, FreshInv, NonceInv
<1>3. /\ Pending = Ran(State, pool, acctNonce, m) /\ Filled(pool, acctNonce, m)
      /\ acctNonce \in Nat /\ acctNonce <= m /\ State \in ContractState
  BY <1>2, PendingRun DEF AccountInv
<1>4. CASE State.recv[c] <= s
  <2>1. PICK k \in acctNonce..(m - 1) : /\ TxIn(pool, k).kind = "package"
                                        /\ TxIn(pool, k).chan = c /\ TxIn(pool, k).seq = s
    BY <1>1, <1>3, <1>4, RanDelivers DEF Got
  <2>2. k \in NoncesOf(pool)
    BY <1>2 DEF NextNonce
  <2>3. TxIn(pool, k) \in pool
    BY <2>2 DEF NoncesOf, TxIn
  <2> QED
    BY <2>1, <2>3 DEF PackageSent, AccountInv, PoolSent
<1>5. CASE ~(State.recv[c] <= s)
  <2>1. State.recv[c] \in Nat /\ State.recv[c] = recv[c]
    BY <1>1, <1>3 DEF ContractState, State
  <2> QED
    BY <1>5, <2>1
<1> QED
  BY <1>4, <1>5

-------------------------------------------------------------------------------
(* The abstract delivery *)

\* What is due, in terms of the contracts once the pool is executed.
LEMMA DueIs ==
  /\ Due = [c \in Relayed |-> Pending.recv[c]]
  /\ Due' = [c \in Relayed |-> Pending'.recv[c]]
BY PendingIs DEF Due, Relayed, Monitored

LEMMA DeliveryInitially ==
  ASSUME ChainInit
  PROVE  D!Init
<1>1. \A c : SeqAt(c, Latest) \in Nat
  BY ChainInitInv, SeqAtType
<1>2. Pending = State
  <2>1. State \in ContractState /\ pool = {} /\ acctNonce = 0
    BY DEF ChainInit, State, ContractState
  <2>2. NoncesOf({}) = 0..(0 - 1) /\ IsFiniteSet({}) /\ {} \subseteq Tx
    BY FS_EmptySet DEF NoncesOf
  <2>3. Pend(State, {}, 0) = Ran(State, {}, 0, 0)
    BY <2>1, <2>2, PendRun
  <2> QED
    BY <2>1, <2>3, RanStart DEF Pending
<1>3. Due = [c \in Relayed |-> 0]
  BY <1>2, DueIs DEF State, ChainInit, Relayed
<1>4. Submitted = {}
  BY DEF Submitted, PackageTxs, ChainInit
<1> QED
  BY <1>1, <1>3, <1>4 DEF D!Init, Created

\* A step that sends no package, creates none and leaves the pending state's
\* counters alone is none of the abstraction's.
LEMMA TurnKept ==
  ASSUME UNCHANGED blocks, PackageTxs' = PackageTxs,
         \A c \in Relayed : Pending'.recv[c] = Pending.recv[c]
  PROVE  UNCHANGED D!vars
<1>1. Created' = Created
  BY DEF Created, SeqAt, SeqOn, Latest, Relayed, Monitored
<1>2. Due' = Due
  BY DueIs
<1>3. Submitted' = Submitted
  BY DEF Submitted, Relayed, Monitored
<1> QED
  BY <1>1, <1>2, <1>3 DEF D!vars

LEMMA BlockCreates ==
  ASSUME ExecInv, ProduceBlock
  PROVE  D!Create
<1>1. PICK b \in BlockType : /\ Latest' = Latest + 1 /\ blocks'[Latest + 1] = b
                             /\ \A c \in Channels : SeqOn(blocks, c, Len(blocks)) <= b.seqAt[c]
  BY StoreStable
<1>2. Latest \in Nat /\ Latest' = Len(blocks') /\ Latest = Len(blocks)
  BY DEF ExecInv, ExecTypeOK, ChainTypeOK, Latest
<1>3. \A c \in Channels : b.seqAt[c] \in Nat
  BY DEF BlockType
<1>4. \A c \in Channels : SeqAt(c, Latest)' = b.seqAt[c]
  BY <1>1, <1>2 DEF SeqAt, SeqOn
<1>5. \A c \in Channels : SeqAt(c, Latest) = SeqOn(blocks, c, Len(blocks))
  BY <1>2 DEF SeqAt
<1>6. Relayed' = Relayed /\ Relayed \subseteq Channels
  BY DEF Relayed, Monitored
<1>7. Created' \in [Relayed -> Nat] /\ \A c \in Relayed : Created'[c] >= Created[c]
  BY <1>1, <1>3, <1>4, <1>5, <1>6 DEF Created
<1>8. Pending' = Pending /\ sent' = sent
  BY PendingFrame DEF ProduceBlock
<1>9. Due' = Due /\ Submitted' = Submitted
  BY <1>6, <1>8, DueIs DEF Submitted, PackageTxs
<1> QED
  BY <1>7, <1>9 DEF D!Create

LEMMA RivalsOvertake ==
  ASSUME AccountInv, AccountInv', OneView, OneView', RivalDelivers
  PROVE  D!Overtaken
<1>1. /\ NotBehind(Pending, Pending')
      /\ Pending \in ContractState /\ Pending' \in ContractState
  BY PendingGrows DEF AccountStep
<1>2. UNCHANGED <<blocks, sent>>
  BY DEF RivalDelivers
<1>3. Created' = Created /\ Submitted' = Submitted
  BY <1>2 DEF Created, SeqAt, SeqOn, Latest, Submitted, PackageTxs, Relayed, Monitored
<1>4. Relayed \subseteq Channels
  BY DEF Relayed
<1>5. Due' \in [Relayed -> Nat] /\ \A c \in Relayed : Due'[c] >= Due[c]
  BY <1>1, <1>4, DueIs DEF NotBehind, ContractState
<1> QED
  BY <1>3, <1>5 DEF D!Overtaken

\* What a package needs for its turn: all before it are delivered or pending,
\* it exists, and it names the header above its proof, which is out.
InTurn(t) ==
  /\ t.seq \in Nat /\ t.seq < SeqAt(t.chan, Latest)
  /\ t.seq <= Got(Pending, t.chan)
  /\ t.hdr = t.at + 1 /\ HeaderSent(t.hdr)

LEMMA TurnTaken ==
  ASSUME AccountInv, AccountInv', OneView, OneView', HeadersPending,
         UNCHANGED <<bscVars, blocks>>,
         NEW t \in Tx, Submit(t), t.kind = "package", t.chan \in Relayed, InTurn(t)
  PROVE  t.seq \in 0..Due[t.chan] /\ D!Submit(t.chan, t.seq)
<1> DEFINE c == t.chan
           s == t.seq
<1>1. Pending' = Exec(Pending, t) /\ Pending \in ContractState
  BY PendingSubmit, PendingType DEF AccountInv, FreshInv
<1>2. c \in Channels /\ Relayed \subseteq Channels /\ Due[c] = Pending.recv[c]
      /\ Pending.recv[c] \in Nat /\ Got(Pending, c) = Pending.recv[c]
  BY <1>1, DueIs DEF Relayed, Got, ContractState
<1>3. s \in 0..Due[c]
  BY <1>2 DEF InTurn
<1>4. Created' = Created /\ s < Created[c]
  BY DEF Created, SeqAt, SeqOn, Latest, Relayed, Monitored, InTurn
<1>5. Submitted' = Submitted \cup {<<c, s>>}
  <2>1. PackageTxs' = PackageTxs \cup {t}
    BY DEF PackageTxs, Submit
  <2> QED
    BY <2>1 DEF Submitted, Relayed, Monitored
<1>6. Due' = [Due EXCEPT ![c] = IF s = @ THEN @ + 1 ELSE @]
  <2>1. CASE s = Pending.recv[c]
    <3>1. t.hdr \in Pending.headers
      BY DEF HeaderSent, HeadersPending, HeaderTxs, InTurn
    <3>2. Accepts(Pending, t)
      BY <2>1, <3>1 DEF Accepts, InTurn
    <3>3. Pending' = [Pending EXCEPT !.recv[c] = @ + 1]
      BY <1>1, <1>2, <3>2 DEF Exec
    <3>4. Pending'.recv = [Pending.recv EXCEPT ![c] = @ + 1]
      BY <1>1, <3>3 DEF ContractState
    <3> QED
      BY <1>1, <1>2, <2>1, <3>4, DueIs DEF ContractState
  <2>2. CASE s # Pending.recv[c]
    <3>1. Pending' = Pending
      BY <1>1, <2>2 DEF Exec, Accepts
    <3> QED
      BY <1>2, <2>2, <3>1, DueIs
  <2> QED
    BY <2>1, <2>2
<1> QED
  BY <1>3, <1>4, <1>5, <1>6 DEF D!Submit

\* A transaction that is no package of a monitored channel takes no turn.
LEMMA TurnPassed ==
  ASSUME AccountInv, AccountInv', OneView, OneView', UNCHANGED <<bscVars, blocks>>,
         NEW t \in Tx, Submit(t), ~(t.kind = "package" /\ t.chan \in Relayed)
  PROVE  UNCHANGED D!vars
<1>1. Pending' = Exec(Pending, t) /\ Pending \in ContractState
  BY PendingSubmit, PendingType DEF AccountInv, FreshInv
<1>2. Relayed \subseteq Channels
  BY DEF Relayed
<1>3. \A c \in Relayed : Pending'.recv[c] = Pending.recv[c]
  BY <1>1, <1>2, ExecEffect
<1>4. Submitted' = Submitted
  <2>1. sent' = sent \cup {t}
    BY DEF Submit
  <2> QED
    BY <2>1 DEF Submitted, PackageTxs, Relayed, Monitored
<1>5. Created' = Created
  BY DEF Created, SeqAt, SeqOn, Latest, Relayed, Monitored
<1>6. Due' = Due
  BY <1>3, DueIs
<1> QED
  BY <1>4, <1>5, <1>6 DEF D!vars

\* Broadcasting a package in its turn is a step of the abstraction, whether
\* or not the answer arrives.
LEMMA BroadcastInTurn ==
  ASSUME AccountInv, AccountInv', OneView, OneView', HeadersPending,
         UNCHANGED <<bscVars, blocks>>,
         NEW t \in Tx, NEW ok \in BOOLEAN, Broadcast(t, ok),
         t.kind = "package" /\ t.chan \in Relayed => InTurn(t)
  PROVE  [D!Next]_(D!vars)
<1>1. CASE Submit(t) /\ t.kind = "package" /\ t.chan \in Relayed
  <2>1. t.seq \in 0..Due[t.chan] /\ D!Submit(t.chan, t.seq)
    BY <1>1, TurnTaken
  <2> QED
    BY <1>1, <2>1 DEF D!Next
<1>2. CASE Submit(t) /\ ~(t.kind = "package" /\ t.chan \in Relayed)
  BY <1>2, TurnPassed
<1>3. CASE UNCHANGED <<pool, sent>>
  <2>1. Pending' = Pending /\ PackageTxs' = PackageTxs
    BY <1>3, PendingFrame DEF PackageTxs
  <2> QED
    BY <2>1, TurnKept
<1> QED
  BY <1>1, <1>2, <1>3 DEF Broadcast

\* A batch sends its packages in turn: it starts where the pending pool ends.
LEMMA BatchInTurn ==
  ASSUME ExecInv, CleanInv, OneView, BatchSend
  PROVE  InTurn(BatchTx)
<1>1. /\ BatchTx.chan = ChannelList[ci] /\ BatchTx.seq = seq /\ BatchTx.hdr = BatchTx.at + 1
      /\ HeaderSent(BatchTx.hdr)
  BY BatchTxType
<1>2. PackageExists(ChannelList[ci], seq, ch)
  BY DEF BatchSend, ExecInv, ControlOK
<1>3. seq <= Got(Pending, ChannelList[ci])
  BY DEF BatchSend, CleanInv, BatchOK, InBatch, BatchPcs
<1> QED
  BY <1>1, <1>2, <1>3, StillExists DEF InTurn

LEMMA SubroutineInTurn ==
  ASSUME ExecInv, AccountInv, AccountInv', OneView, OneView', HeadersPending, CleanInv,
         SubroutineStep
  PROVE  [D!Next]_(D!vars)
<1>1. CASE SyncSend
  <2>1. PICK ok \in BOOLEAN : Broadcast(HeaderTx(hdr, nonce), ok)
    BY <1>1 DEF SyncSend
  <2>2. HeaderTx(hdr, nonce) \in Tx /\ HeaderTx(hdr, nonce).kind # "package"
    BY HeaderTxType_ DEF ExecInv, ExecTypeOK, HeaderTx
  <2>3. UNCHANGED <<bscVars, blocks>>
    BY <1>1 DEF SyncSend
  <2> QED
    BY <2>1, <2>2, <2>3, BroadcastInTurn
<1>2. CASE BatchSend
  <2>1. PICK ok \in BOOLEAN : Broadcast(BatchTx, ok)
    BY <1>2 DEF BatchSend, BatchTx
  <2>2. BatchTx \in Tx /\ InTurn(BatchTx)
    BY <1>2, BatchTxType, BatchInTurn
  <2>3. UNCHANGED <<bscVars, blocks>>
    BY <1>2 DEF BatchSend
  <2> QED
    BY <2>1, <2>2, <2>3, BroadcastInTurn
<1>3. CASE SyncNonce \/ SyncQuery \/ CleanSeq \/ CleanDeliver \/ CleanSynced \/ BatchNonce \/ BatchPkg
  <2>1. UNCHANGED <<blocks, bscVars, pool, sent>>
    BY <1>3 DEF SyncNonce, SyncQuery, QueryTendermintHeader, CleanSeq, CleanDeliver, CleanSynced,
         BatchNonce, BatchPkg
  <2> QED
    BY <2>1, PendingFrame, TurnKept DEF PackageTxs
<1> QED
  BY <1>1, <1>2, <1>3 DEF SubroutineStep

LEMMA EnvironmentDelivers ==
  ASSUME ExecInv, AccountInv, AccountInv', OneView, OneView',
         ProduceBlock \/ MineTx \/ RivalDelivers \/ DropTx \/ UNCHANGED <<blocks, bscVars, pool, sent>>
  PROVE  [D!Next]_(D!vars)
<1>1. CASE ProduceBlock
  BY <1>1, BlockCreates DEF D!Next
<1>2. CASE MineTx
  <2>1. Pending' = Pending
    BY <1>2, PendingMined DEF AccountInv
  <2>2. UNCHANGED <<blocks, sent>>
    BY <1>2 DEF MineTx
  <2> QED
    BY <2>1, <2>2, TurnKept DEF PackageTxs
<1>3. CASE RivalDelivers
  BY <1>3, RivalsOvertake DEF D!Next
<1>4. CASE DropTx
  BY <1>4 DEF DropTx, Fault, OneView
<1>5. CASE UNCHANGED <<blocks, bscVars, pool, sent>>
  BY <1>5, PendingFrame, TurnKept DEF PackageTxs
<1> QED
  BY <1>1, <1>2, <1>3, <1>4, <1>5
===============================================================================
