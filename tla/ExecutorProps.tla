---------------------------- MODULE ExecutorProps ----------------------------
(***************************************************************************)
(* What the executor's subroutines guarantee whichever daemon calls them.  *)
(***************************************************************************)
EXTENDS Executor

HeaderTxs == {t \in sent : t.kind = "header"}
PackageTxs == {t \in sent : t.kind = "package"}
Monitored == {ChannelList[i] : i \in 1..Len(ChannelList)}
NothingWrong == incidents = {}

\* Only one provider's view of the account is involved, and it forgets nothing.
OneView == incidents \cap {"stale", "drop"} = {}

SyncPcs == {"syncNonce", "syncQuery", "syncSend"}
BatchPcs == {"batchNonce", "batchPkg", "batchSend"}
CleanPcs == {"cleanSeq", "cleanDeliver", "cleanSynced"} \cup BatchPcs
CleanedPcs == {"startCleaned", "skipCleaned", "intervalCleaned", "accelCleaned"}
SyncedPcs == {"changeSynced", "blockSynced", "cleanSynced"}

Uint64 == 0..(Word - 1)
Task == [chan : Channels \cup {-1}, seq : Nat]
BlockType == [vals : ValSets, next : ValSets, tasks : Seq(Task), seqAt : [Channels -> Nat]]
HeaderTxType == [kind : {"header"}, height : Nat, nonce : Nat]
PackageTxType ==
  [kind : {"package"}, chan : Nat, seq : Nat, at : Nat, hdr : Nat, nonce : Nat]
Tx == HeaderTxType \cup PackageTxType

ChainTypeOK ==
  /\ blocks \in Seq(BlockType) /\ Latest \in 2..MaxHeight
  /\ recv \in [Channels -> Nat]
  /\ headers \subseteq Nat
  /\ acctNonce \in Nat
  /\ pool \subseteq Tx /\ IsFiniteSet(pool)
  /\ sent \subseteq Tx
  /\ faults \in Nat /\ incidents \subseteq AllFaults

\* Types of the subroutines' variables; heights are unsigned 64-bit words.
ExecTypeOK ==
  /\ ChainTypeOK
  /\ err \in BOOLEAN
  /\ hdr \in Uint64 /\ nonce \in Nat
  /\ syncRet \in {"none"} \cup SyncedPcs
  /\ ch \in Uint64 /\ ci \in Nat
  /\ nextSeq \in Nat /\ seq \in Nat /\ end \in Nat
  /\ synced \in BOOLEAN /\ accel \in BOOLEAN /\ capped \in BOOLEAN
  /\ cleanRet \in {"none"} \cup CleanedPcs

\* A cleanup is running: its own steps, and the header sync it calls.
Cleaning == pc \in CleanPcs \/ (pc \in SyncPcs /\ syncRet = "cleanSynced")

\* Control and data agree: a subroutine knows where it returns to, a channel
\* is selected while its batch is under way, a batch runs only once header
\* ch+1 is out, and a package is sent only after it was found in the store.
ControlOK ==
  /\ pc \in SyncPcs => syncRet \in SyncedPcs
  /\ Cleaning => cleanRet \in CleanedPcs
  /\ Cleaning => ci >= 1
  /\ Cleaning /\ pc # "cleanSeq" => ci <= Len(ChannelList)
  /\ pc \in SyncPcs /\ syncRet = "cleanSynced" => hdr = Inc(ch)
  /\ Cleaning /\ synced => HeaderSent(Inc(ch))
  /\ pc \in BatchPcs => HeaderSent(Inc(ch))
  /\ pc = "cleanSynced" /\ ~err => HeaderSent(Inc(ch))
  /\ pc = "batchSend" => PackageExists(ChannelList[ci], seq, ch)

\* BC's sequence counters never go down from a block to the next.
SequencesGrow ==
  \A c \in Channels : \A g, h \in 1..Latest :
    g <= h => blocks[g].seqAt[c] <= blocks[h].seqAt[c]

\* BSC can only accept a package whose Merkle proof verifies: every package
\* sent is in BC's store at the height its proof was taken from, it names the
\* header one above, and that header has been submitted
\* (CallBuildInSystemContract passes height+1; daemon.go:81 and cleanup.go:41
\* sync it first and give up when that fails).
PackageProvable ==
  \A p \in PackageTxs :
    /\ p.hdr = p.at + 1
    /\ PackageExists(p.chan, p.seq, p.at)
    /\ HeaderSent(p.hdr)

\* As long as all providers show one view of the account, the header is also
\* executed first: it was sent with a lower nonce than the package.
HeaderFirst ==
  OneView => \A p \in PackageTxs : \E q \in HeaderTxs :
               q.height = p.hdr /\ q.nonce < p.nonce

\* A cleanup that returns no error, and was never cut at MaxBatchSize, leaves
\* nothing behind: once the pool is executed every monitored channel expects
\* the sequence BC has after the cleaned height, whatever failed earlier.
CleanupDelivers ==
  pc \in CleanedPcs /\ ~err /\ ~capped /\ OneView =>
    \A c \in Monitored : PendingRecv(c) >= SeqAt(c, ch)

\* The nonce a transaction is sent with is still the account's next one, so
\* no provider refuses it: header syncs, the batch that counts its nonce up
\* and single tasks share one account without ever reusing or skipping one.
NonceFresh ==
  OneView /\ pc \in {"syncSend", "batchSend", "taskSend"} => IsPendingNonce(nonce)

\* What is pending on BSC is a transaction some provider accepted.
PoolSent == pool \subseteq sent

ExecInv == ExecTypeOK /\ ControlOK /\ SequencesGrow /\ PackageProvable /\ PoolSent

\* The abstract delivery on the channels the relayer monitors.  What is pending
\* counts as under way, so that mining it is no step of the abstraction.
Relayed == Channels \cap Monitored
Created == [c \in Relayed |-> SeqAt(c, Latest)]
Due == [c \in Relayed |-> PendingRecv(c)]
Submitted == {<<p.chan, p.seq>> : p \in {q \in PackageTxs : q.chan \in Relayed}}

D == INSTANCE Delivery WITH
       Channels <- Relayed, created <- Created, due <- Due, submitted <- Submitted

\* Nothing is left to deliver on any channel.
CaughtUp == \A c \in Channels : recv[c] = SeqAt(c, Latest)
===============================================================================
