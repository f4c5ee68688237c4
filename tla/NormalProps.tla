----------------------------- MODULE NormalProps -----------------------------
(***************************************************************************)
(* What the relayer in normal mode guarantees.                             *)
(***************************************************************************)
EXTENDS NormalDaemon, ExecutorProps

Pcs == SyncPcs \cup CleanPcs \cup {"accelCleaned", "intervalCleaned"}
       \cup {"start", "top", "monitor", "changeSynced", "dispatch"}

\* Every variable has its type.
TypeOK ==
  /\ ExecTypeOK
  /\ pc \in Pcs
  /\ syncRet # "blockSynced"
  /\ cleanRet \in {"none", "accelCleaned", "intervalCleaned"}
  /\ height \in Uint64 /\ startHeight \in Uint64
  /\ curVals \in ValSets \cup {Nil}
  /\ needAccelerate \in BOOLEAN

\* The inductive invariant of the daemon.
Inv == TypeOK /\ ExecInv

\* As long as the providers show one view of the account, the packages of a
\* channel are sent in sequence order, each once, whatever else fails: in this
\* mode every package comes from a cleanup, which starts at the sequence the
\* pending block expects, even when the cleanup before was cut at MaxBatchSize,
\* lost an answer or died, and its transactions are still pending.
SentInOrder ==
  OneView =>
    \A p, q \in PackageTxs :
      p.chan = q.chan /\ p # q => p.nonce # q.nonce /\ (p.nonce < q.nonce <=> p.seq < q.seq)

\* No interval is missed: as long as nothing fails and no backlog exceeds a
\* batch, when the daemon is done with a height, each channel's packages up to
\* the last cleanup height below it are delivered or in the pool, also when
\* the walk jumped over that height.
IntervalDelivered ==
  NothingWrong /\ ~capped /\ pc = "top" =>
    \A c \in Monitored, m \in startHeight..(height - 1) :
      m % CleanInterval = 0 => PendingRecv(c) >= SeqAt(c, m)

\* What the light client gets of the validator sets although the walk jumps and
\* main.go read the tracked hash below the height the daemon starts at: while
\* the daemon tracks a set, it is the set that signed the block being
\* processed, a header signed by it was submitted unless it is the set found at
\* boot (at height 1), and a block that announces the next set has had its own
\* header submitted.  A set in force only on heights jumped over is not relayed.
\* It says nothing once a poll has stored nil (daemon.go:49 and :111).
SetInUseRelayed ==
  NothingWrong /\ pc = "dispatch" /\ curVals # Nil =>
    /\ curVals = Hash(height)
    /\ curVals # blocks[height].next => HeaderSent(height)
    /\ curVals # Hash(1) =>
         \E t \in HeaderTxs : t.height \in 1..height /\ Hash(t.height) = curVals

\* Every package is delivered in the end, a backlog of several batches too:
\* while a channel is far behind, the cleanup runs again at the next height.
EventuallyDelivered == <>[](CaughtUp)

\* The cleanups implement the abstract delivery as long as the providers show
\* one view of the account, whatever else fails and however often a cleanup is
\* cut: every package is sent in its turn, behind packages that are delivered
\* or pending, with what it takes to be accepted in that turn.
SubmitsInTurn == D!Init /\ [][OneView' => [D!Next]_(D!vars)]_vars
===============================================================================
