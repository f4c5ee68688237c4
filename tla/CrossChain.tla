------------------------------ MODULE CrossChain ------------------------------
(***************************************************************************)
(* The two chains the relayer stands between, as the relayer sees them     *)
(* through its RPC clients.  None of this is code of the repository: it is *)
(* the environment, modelled from the calls the executors make.            *)
(*                                                                         *)
(* Binance Chain (BC) is a sequence of blocks.  A block names the          *)
(* validator set that signed it and the one that signs the next block,     *)
(* the cross-chain packages its EndBlock events announce, and, for each    *)
(* channel, the next sequence number after the block.  The proof of a      *)
(* package stored at height h needs header h+1.                            *)
(*                                                                         *)
(* Binance Smart Chain (BSC) is the state of the cross-chain contracts     *)
(* (headers accepted by the light client, next sequence expected on each   *)
(* channel) and the pool of the relayer account's transactions, executed   *)
(* one by one in nonce order.                                              *)
(***************************************************************************)
EXTENDS Integers, Sequences, FiniteSets

CONSTANTS
  Channels,        \* channels that carry packages
  ValSets,         \* validator-set hashes
  BlockShapes,     \* channels of the packages of one block, in event order
  MaxHeight,       \* bound: BC stops at this height
  PackageHorizon,  \* bound: no package is created above this height
  FaultKinds,      \* the faults a run admits
  MaxFaults,       \* bound on the number of faults
  FaultHorizon,    \* bound: faults happen only while BC is not above it
  Rivals           \* TRUE iff other relayers deliver packages too

AllFaults == {"rpc", "lostReply", "stale", "drop", "crash"}

ASSUME ChannelsAssumption == Channels \subseteq Nat /\ IsFiniteSet(Channels)
ASSUME ShapesAssumption == BlockShapes \subseteq Seq(Channels)
ASSUME BoundsAssumption ==
  MaxHeight \in Nat /\ MaxHeight >= 2 /\ PackageHorizon \in Nat /\ MaxFaults \in Nat /\ FaultHorizon \in Nat
ASSUME FaultsAssumption == FaultKinds \subseteq AllFaults /\ Rivals \in BOOLEAN

VARIABLES
  blocks,     \* BC: the blocks, indexed by height
  recv,       \* BSC: next sequence each channel expects
  headers,    \* BSC: heights of the BC headers the light client holds
  acctNonce,  \* BSC: next nonce of the relayer account
  pool,       \* BSC: pending transactions of the relayer account
  sent,       \* history: every transaction a provider accepted
  faults,     \* number of faults so far
  incidents   \* history: what went wrong so far

bscVars == <<recv, headers, acctNonce>>
faultVars == <<faults, incidents>>
chainVars == <<blocks, recv, headers, acctNonce, pool, sent, faults, incidents>>

-------------------------------------------------------------------------------
(* Binance Chain *)

Latest == Len(blocks)

\* Next sequence of channel c after block h; 0 when there is no such state.
SeqOn(chain, c, h) ==
  IF h \in 1..Len(chain) /\ c \in Channels THEN chain[h].seqAt[c] ELSE 0
SeqAt(c, h) == SeqOn(blocks, c, h)

\* A header needs the commit and the validators of its height and the validators
\* of the next one: all are there once the block is.
QueryTendermintHeader(h) == h \in 1..Latest

PackageExists(c, s, h) == s \in 0..(SeqAt(c, h) - 1)

\* Positions below n at which the block shape carries a package of channel c.
Before(shape, c, n) == Cardinality({i \in 1..(n - 1) : shape[i] = c})

Block(chain, shape, v) ==
  [vals  |-> IF chain = <<>> THEN v ELSE chain[Len(chain)].next,
   next  |-> v,
   tasks |-> [i \in 1..Len(shape) |->
                [chan |-> shape[i],
                 seq  |-> SeqOn(chain, shape[i], Len(chain)) + Before(shape, shape[i], i)]],
   seqAt |-> [c \in Channels |->
                SeqOn(chain, c, Len(chain)) + Before(shape, c, Len(shape) + 1)]]
Extend(chain, shape, v) == Append(chain, Block(chain, shape, v))

ProduceBlock ==
  /\ Latest < MaxHeight
  /\ \E shape \in BlockShapes, v \in ValSets :
       /\ Latest >= PackageHorizon => shape = <<>>
       /\ blocks' = Extend(blocks, shape, v)
  /\ UNCHANGED <<bscVars, pool, sent, faultVars>>

-------------------------------------------------------------------------------
(* Binance Smart Chain *)

HeaderTx(h, n) == [kind |-> "header", height |-> h, nonce |-> n]
PackageTx(c, s, at, h, n) ==
  [kind |-> "package", chan |-> c, seq |-> s, at |-> at, hdr |-> h, nonce |-> n]

HeaderSent(h) == \E t \in sent : t.kind = "header" /\ t.height = h
PackageSent(c, s) == \E t \in sent : t.kind = "package" /\ t.chan = c /\ t.seq = s

\* What a transaction does to a contract state s = [recv, headers].  The
\* proof of a package read at height `at` verifies against header at+1 only.
Accepts(s, t) == /\ t.hdr = t.at + 1
                 /\ t.hdr \in s.headers
                 /\ t.seq = s.recv[t.chan]
Exec(s, t) ==
  IF t.kind = "header" THEN [s EXCEPT !.headers = @ \cup {t.height}]
  ELSE IF t.chan \in Channels /\ Accepts(s, t) THEN [s EXCEPT !.recv[t.chan] = @ + 1]
  ELSE s
State == [recv |-> recv, headers |-> headers]

NoncesOf(txs) == {t.nonce : t \in txs}

\* PendingNonceAt: the first nonce that neither the chain nor the pool uses.
IsPendingNonce(n) == /\ n >= acctNonce /\ n \notin NoncesOf(pool)
                     /\ \A m \in acctNonce..(n - 1) : m \in NoncesOf(pool)

\* Contract state once the pool's transactions with nonces below n executed.
\* Conflicting transactions need two providers; the read sees one of them.
StateBefore(n) ==
  LET f[m \in acctNonce..n] ==
        IF m = acctNonce THEN State
        ELSE Exec(f[m - 1], CHOOSE t \in pool : t.nonce = m - 1)
  IN  f[n]

\* ChannelReceiveSequenceMap at the pending block.
PendingRecv(c) ==
  LET n == CHOOSE m \in acctNonce..(acctNonce + Cardinality(pool)) : IsPendingNonce(m)
  IN  IF c \in Channels THEN StateBefore(n).recv[c] ELSE 0

MineTx ==
  \E t \in pool :
    /\ t.nonce = acctNonce
    /\ recv' = Exec(State, t).recv
    /\ headers' = Exec(State, t).headers
    /\ acctNonce' = acctNonce + 1
    /\ pool' = {u \in pool : u.nonce # acctNonce}
    /\ UNCHANGED <<blocks, sent, faultVars>>

\* Another relayer syncs the header of the next package of a channel and
\* delivers it, with the proof from the block that created it.
RivalDelivers ==
  /\ Rivals
  /\ \E c \in Channels, h \in 1..(Latest - 1) :
       /\ PackageExists(c, recv[c], h) /\ ~PackageExists(c, recv[c], h - 1)
       /\ recv' = [recv EXCEPT ![c] = @ + 1]
       /\ headers' = headers \cup {h + 1}
  /\ UNCHANGED <<blocks, acctNonce, pool, sent, faultVars>>

-------------------------------------------------------------------------------
(* Faults *)

Fault(k) ==
  /\ k \in FaultKinds
  /\ faults < MaxFaults
  /\ Latest <= FaultHorizon
  /\ faults' = faults + 1
  /\ incidents' = incidents \cup {k}
NoFault == UNCHANGED faultVars

\* The providers forget a pending transaction.
DropTx ==
  /\ Fault("drop")
  /\ \E t \in pool : pool' = pool \ {t}
  /\ UNCHANGED <<blocks, bscVars, sent>>

-------------------------------------------------------------------------------
(* What the executors' client calls see *)

\* PendingNonceAt; a stale provider has not seen the pool's transactions.
ReadNonce(n) ==
  \/ n = acctNonce /\ Fault("stale")
  \/ IsPendingNonce(n) /\ NoFault

\* getCallOpts asks for the pending block, not for the latest.
ReadRecv_Latest(c, d) == d = (IF c \in Channels THEN recv[c] ELSE 0) /\ NoFault
ReadRecv(c, d) ==
  \/ d = (IF c \in Channels THEN recv[c] ELSE 0) /\ Fault("stale")
  \/ d = PendingRecv(c) /\ NoFault

Nonces == acctNonce..(acctNonce + Cardinality(pool))
\* Each pending transaction delivers at most one package.
Recvs(c) == LET r == IF c \in Channels THEN recv[c] ELSE 0 IN r..(r + Cardinality(pool))

Submit(t) ==
  /\ t.nonce >= acctNonce
  /\ t.nonce \notin NoncesOf(pool) \/ "stale" \in incidents
  /\ pool' = pool \cup {t}
  /\ sent' = sent \cup {t}
\* "nonce too low", or "replacement transaction underpriced" at equal price.
Refused(t) == t.nonce < acctNonce \/ t.nonce \in NoncesOf(pool)

\* The caller gets ok = FALSE although the transaction is in the pool when the
\* reply is lost, or when storing the transaction in the database fails.
Broadcast(t, ok) ==
  \/ ok /\ Submit(t) /\ NoFault
  \/ ~ok /\ Submit(t) /\ Fault("lostReply")
  \/ ~ok /\ Fault("rpc") /\ UNCHANGED <<pool, sent>>
  \/ ~ok /\ Refused(t) /\ NoFault /\ UNCHANGED <<pool, sent>>

ChainInit ==
  /\ \E s1, s2 \in BlockShapes, v1, v2 \in ValSets :
       blocks = Extend(Extend(<<>>, s1, v1), s2, v2)
  /\ recv = [c \in Channels |-> 0]
  /\ headers = {}
  /\ acctNonce = 0
  /\ pool = {}
  /\ sent = {}
  /\ faults = 0
  /\ incidents = {}
===============================================================================
