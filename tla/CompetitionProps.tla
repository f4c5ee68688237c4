--------------------------- MODULE CompetitionProps ---------------------------
(***************************************************************************)
(* What the relayer in competition mode guarantees.                        *)
(***************************************************************************)
EXTENDS CompetitionDaemon, ExecutorProps

TaskPcs == {"taskPkg", "taskNonce", "taskSend"}
Pcs == SyncPcs \cup CleanPcs \cup TaskPcs \cup (CleanedPcs \ {"accelCleaned"})
       \cup {"top", "monitor", "changeSynced", "dispatch", "blockSynced"}

\* Every variable has its type.
TypeOK ==
  /\ ExecTypeOK
  /\ pc \in Pcs
  /\ cleanRet # "accelCleaned"
  /\ height \in Uint64 /\ startHeight \in Uint64
  /\ curVals \in ValSets \cup {Nil}
  /\ tasks \in Seq(Task)

\* While the tasks of a block are relayed the block exists, a task is left and
\* the header above the block is out; a task is sent only if it was found.
TasksOK ==
  /\ pc \in SyncPcs /\ syncRet = "blockSynced" => hdr = Inc(height)
  /\ pc = "blockSynced" /\ ~err => HeaderSent(Inc(height))
  /\ pc \in TaskPcs => HeaderSent(Inc(height))
  /\ pc \in TaskPcs \/ pc = "blockSynced" \/ (pc \in SyncPcs /\ syncRet = "blockSynced")
       => tasks # <<>>
  /\ pc \in {"taskNonce", "taskSend"} =>
       PackageExists(Head(tasks).chan, Head(tasks).seq, height)

\* The inductive invariant of the daemon.
Inv == TypeOK /\ ExecInv /\ TasksOK

\* Nothing is skipped silently: as long as nothing fails and no backlog
\* exceeds a batch, whenever the daemon has moved past a height every package
\* of a monitored channel up to there was delivered or at least submitted,
\* whether it walked the block, cleaned up at it or jumped over it.
NoSilentSkip ==
  NothingWrong /\ ~capped /\ height > startHeight =>
    \A c \in Monitored : \A s \in 0..(SeqAt(c, height - 1) - 1) :
      s < recv[c] \/ PackageSent(c, s)

\* No package is paid for twice: as long as nothing fails and no backlog
\* exceeds a batch, two transactions carry the same package only if they come
\* from the cleanup at boot and the walk over the same height.
SentOnce ==
  NothingWrong /\ ~capped =>
    \A p, q \in PackageTxs :
      p.chan = q.chan /\ p.seq = q.seq =>
        p = q \/ (p.at = startHeight /\ q.at = startHeight)

\* While the daemon still tracks a validator set, it is the set that signed
\* the block being processed; the light client got a header signed by it
\* unless it is the set found at boot; and a block that announces the next
\* set has had its own header submitted.
\* It says nothing once a poll has stored nil (daemon.go:49 and :111).
TrackedSetRelayed ==
  NothingWrong /\ pc = "dispatch" /\ curVals # Nil =>
    /\ curVals = Hash(height)
    /\ curVals # blocks[height].next => HeaderSent(height)
    /\ curVals # Hash(startHeight) =>
         \E t \in HeaderTxs : t.height \in startHeight..height /\ Hash(t.height) = curVals

\* The walk goes back only when the latest height could not be read (it then
\* restarts at 0) or the process restarted.
NeverWalksBack ==
  [][height' >= height \/ "rpc" \in incidents' \/ "crash" \in incidents']_vars

\* daemon.go:46 and daemon.go:73, "packages have been delivered on cleanup":
\* when the daemon leaves a height because of a cleanup, the packages up to
\* the cleaned height are delivered or in the pool.
DeliveredOnCleanup ==
  NothingWrong /\ pc \in {"skipCleaned", "intervalCleaned"} =>
    \A c \in Monitored : PendingRecv(c) >= SeqAt(c, ch)

\* daemon.go:56, "Found validator set change": a block that announces another
\* validator set has had its header submitted before it is processed further.
ChangeFound ==
  NothingWrong /\ pc = "dispatch" /\ Hash(height) # blocks[height].next => HeaderSent(height)

\* The walk and the cleanups implement the abstract delivery: until something
\* fails or a backlog exceeds a batch, every package of a monitored channel is
\* sent in its turn, behind packages that are delivered or pending, with the
\* proof, the header and the nonce it takes to be accepted in that turn.
SubmitsInTurn ==
  D!Init /\ [][NothingWrong' /\ ~capped' => [D!Next]_(D!vars)]_vars

\* Every package is delivered in the end: what fails while a block is walked
\* is made good by a later cleanup.
EventuallyDelivered == <>[](CaughtUp)
===============================================================================
