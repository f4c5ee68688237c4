# A TLA+ verification project for the BSC relayer

The BSC relayer carries *cross-chain packages* and *validator-set changes* from
Binance Chain (BC) to Binance Smart Chain (BSC). It reads BC blocks, submits BC
headers to the light-client contract on BSC, and submits packages with Merkle
proofs to the cross-chain contract. This directory models what the relayer does
call by call, checks it on small instances with TLC, and proves its main safety
properties for all instances with TLAPS.

## 1. Inventory

| Component (source) | State | Operations | Talks to |
|---|---|---|---|
| Competition daemon (`relayer/daemon.go:33-97`, `relayer/relayer.go`, `main.go`) | `height`, `curValidatorsHash`, the tasks of the block | walk one BC block: monitor, sync header above it, relay each task; cleanup every n-th height or when behind | executors, cleanup |
| Normal daemon (`relayer/daemon.go:99-138`) | `height`, `curValidatorsHash`, `needAccelerate` | watch validator sets, clean up every n-th height, accelerate on a backlog, jump when behind | executors, cleanup |
| Cleanup (`relayer/cleanup.go`) | channel, batch, `blockSynced` | compare next sequences on both chains, sync one header, relay a batch of at most 30 | both executors |
| BSC executor (`executor/bsc_executor.go`) | client pool; account nonce (on chain) | sync header, find package, relay one, relay a batch | BSC providers, database |
| BBC executor (`executor/bbc_executor.go`) | client pool | blocks, events, validator hashes, headers, sequences, packages, evidence | BC providers |
| Client pools (both executors) | `clientIdx`, mutex, last heights | pick, switch, watch | daemon threads, trackers |
| Transaction tracker (`relayer/daemon.go:140-250`, `model/model.go`) | transaction and statistics tables, the history flag | check each saved transaction: wait, confirm, fail, declare missed | BSC executor, database, admin server |
| Double-sign monitor (`relayer/double_sign_monitor.go`) | per provider a list of header numbers and a map of headers; one mutex | compare each BSC header with those of its number from all providers, submit evidence to BC, trim the cache | its own subscriptions, BBC executor |
| Configuration and start (`config/config.go`, `main.go`, `relayer/relayer.go`) | the configuration, the goroutines started | read flags, file or secret; validate; open the database; build executors; start goroutines | everything |
| Registration, rewards, alerts (`relayer/register.go`, `relayer/claim_reward.go`, `relayer/alert.go`) | the account's registration, reward and balance (on chain) | register with a deposit, claim from a minimum on, report a low balance | BSC executor, hub and incentive contracts |
| Contract bindings (`executor/{crosschain,relayerhub,relayerincentivize,tendermintlightclient}/`) | an iterator's position, a watch's goroutine | calls and transactions, `Filter` and `Watch` of fourteen events | BSC providers |
| Admin server, logging, wire formats | none that the others read | HTTP views, messages, encodings | tables |
| Chains, contracts, rival relayers (external) | blocks, contract state, pending transactions | produce, mine, deliver | - |

The daemon is one goroutine that calls the cleanup and the executors
synchronously. The transaction tracker, the two pool watchers, the admin server
and the alerts are goroutines of their own; they share the client pools with the
daemon (`clientIdx`, under a mutex but for one read) and the account's nonce
through the BSC pool. The double-sign monitor has one goroutine per provider
and one mutex. A panic in any of them ends the process. The chains move between
any two calls.

What is hard here: a chain of remote calls, each of which may fail, be lost or
be answered by a provider that lags; transactions of one account that must
execute in nonce order and whose headers must execute before their packages;
recovery that rests on nothing but a later cleanup; a shared index written in
two steps; caches that several goroutines compare against; rival relayers;
restarts without a memory of what was sent; configuration values that nobody
looks at before some goroutine divides by them; and `uint64` heights that
underflow when a call fails. The hazards are listed with
their lines in `PROJECT.json`.

What makes each part correct:

- the daemons: no height is left with packages that nobody submitted, a package
  is never sent before its header, none is paid for twice, a validator-set
  change reaches the light client, everything is delivered in the end;
- the cleanup: success means nothing is left (up to the batch limit);
- the executors: proofs name the right header, nonces are fresh;
- the pools: the index is in range when used, a provider that lags is left;
- the tracker: each settled transaction is counted once and none is given up early;
- the double-sign monitor: a conflict is found whichever goroutine saw its
  headers first, and memory stays bounded;
- the queries: a block's events become exactly its packages' keys, and the state the
  light client is initialised with reads back from its bytes;
- the start: a value of the configuration that was judged and accepted does not panic later;
- the account: nothing is paid for in vain, and a reward worth claiming is claimed;
- the event streams: no gap, no reordering, and an end when the user wants one;
- the relayer as a whole: it submits the packages of a channel in turn, each with what it
  takes to be accepted in that turn.

## 2. The modules

```
Delivery                       what the relayer promises (abstract)
CrossChain                     the chains as the RPC calls show them (external)
  Executor                     header sync, cleanup, batches, call by call
    ExecutorProps              what they guarantee for any caller
    CompetitionDaemon  NormalDaemon           the two loops
      CompetitionProps   NormalProps          their properties
        MCCompetition      MCNormal           instances for TLC
ClientPool                     one executor's providers
Startup                        main, the configuration and what uses it
RelayerAccount                 registration and rewards
  MCProcess                    an instance of the three
DoubleSignMonitor              the monitor's goroutines and caches
BBCQueries                     one block's events, keys; the light client's initial state
EventStream                    the bindings' iterators and watches
  Selection                    the elements of a sequence at some positions
  MCWatchers                   an instance of the three
TxTracker                      the tables, the tracker, the status page
ExecutorProofs  CompetitionProofs  NormalProofs  ClientPoolProofs
ProcessProofs   DoubleSignProofs   WatcherProofs TrackerProofs
```

**CrossChain.** BC is the sequence `blocks`: each block has the validator set
that signed it, the one announced for the next block, the packages its events
announce (in event order) and the next sequence of each channel after it. BSC
is `recv` (next sequence a channel expects), `headers` (those the light client
holds), `acctNonce` and the `pool` of pending transactions, which are executed
one by one in nonce order. The contract takes a package only if its proof's
header is held, is the one above the height the proof was read at, and the
sequence is the expected one. `sent`, `faults`, `incidents` are histories. The
faults are: an RPC error anywhere a call is made (`rpc`); a transaction whose
submission the caller believes failed, because the reply was lost or storing
the transaction failed afterwards (`lostReply`); a provider that has not seen
the pool (`stale`); a pending transaction that is forgotten (`drop`); and the
death and restart of the process (`crash`).

**Executor.** One action per call to a provider:

| Code | Actions |
|---|---|
| `SyncTendermintLightClientHeader` | `SyncNonce`, `SyncQuery` (the `tryAgain` loop), `SyncSend` |
| `cleanPreviousPackages` | `CleanSeq` (BC's sequence), `CleanDeliver` (BSC's), `CleanSynced` |
| `BatchRelayCrossChainPackages` | `BatchNonce`, `BatchPkg`, `BatchSend` |

`pc` is the daemon thread's control point; a subroutine is called by setting
`pc` and its return point (`CallSync`, `CallClean`) and returns through
`ReturnSync`, `ReturnClean` with `err`. Locals are reset when they go out of
scope. Heights are words modulo `Word` (2^64 in the code), so that
`getLatestHeight() - 1` after an error is the largest word, as in the code.

**CompetitionDaemon.** `Top` (height check), `Monitor`/`MonitorFails`,
`ChangeSynced`, `Dispatch` (cleanup, nothing to do, or relay), `BlockSynced`,
`TaskPkg`/`TaskNonce`/`TaskSend` (`RelayCrossChainPackage`), and the three
returns of a cleanup. The pseudo-task of a validator-set change is in `tasks`,
as in the code, and fails in `TaskPkg` because no such package exists.

**NormalDaemon.** `Start`, `Top` (with the jump), `Monitor`/`MonitorFails`,
`ChangeSynced`, `Dispatch`, `Cleaned`.

**ClientPool.** The writes of `SwitchBSCClient` are separate steps under the
lock (`SwitchLock`, `SwitchIncrement`, `SwitchWrap`), and so are the queries,
the unlocked read and the locked write of `UpdateClients`. The first, unlocked
read is `UpdateCheck`; an index out of range there is the `"panic"` state.

**TxTracker.** One step per database statement or receipt query: `ReadStatistic`,
`Find` (with the overload branch that switches the provider and sets
`leaveAloneHistoryTx`), `Miss`, `Track`, `WriteStatus`, `WriteStatistic`. The
executors insert rows (`SaveRelayTx`), rows grow too old to be read (`Age`), BSC
mines, and the watcher of the providers moves `clientIdx` (`UpdateClients`, here one
step to any provider). gorm's behaviour is taken from its use: a failed read
leaves the zero value or the empty slice, and `Order`/`Limit` chained after `Find`
have no effect, so a batch is not limited. `StatusHandler` is what the admin page reads.

**Startup.** `main` from the command line to the goroutines, one action per
step of `main.go`: `ReadFlags`, `LoadConfig`, `OpenDB`, `StartAdmin`,
`NewBBCExecutor`, `NewBSCExecutor`, `ReadStartBlock`, `Start`; then the admin
server's `Listen`/`ListenFails`, the monitor's `SubscribeFails` and, for every
goroutine, `GoroutineFails` when its code cannot use a value it meets first
there (a zero divisor, an empty list, a number that does not parse, a nil key).
A string of the configuration is empty, good or bad, where bad is one the code that
uses it cannot: a listen address, a database path, a mnemonic, a key, or the address of
a provider (`initClients`) or of a monitored node. Each panic names in `blamed` the value
that caused it, `"nothing"` if it was the environment (a database that is down, a node
that does not answer) and `"validation"` if it was `Validate` itself.
`Valid` is `Config.Validate` section by section; a configuration from the secret
store does not pass through it, as in the code. `CrossChainConfig` to `DBConfig` are
the sections' fields with what they may hold.

**RelayerAccount.** `registerRelayerHub` (`AskRelayer`, `RegisterNonce`,
`RegisterRelayer`, `CheckRelayer`; every error is a panic, so `Restart`) and
`autoClaimRewardDaemon` (`QueryReward`, `ClaimNonce`, `ClaimReward`). Reads ask for
the pending block (`getCallOpts`). External are the other goroutines' transactions,
execution and the rewards that pile up. The balance loop of `alert.go` keeps no state;
of it only the panics are modelled, in `Startup`.

**DoubleSignMonitor.** A provider announces headers (a null one included) into
its channel; its goroutine takes one under the mutex (`Receive`), compares it with
the caches one provider at a time (`Compare`), trims its list and map and stores
the header (`Store`). The submission of a pair succeeds or fails (`SubmitEvidence`):
`evidence` holds the pairs BC took, `refused` those whose submission failed, which the
loop only logs. The two halves of the cache are separate variables, because
only the list decides what is trimmed.

**BBCQueries.** `ScanAttribute` parses one attribute of a block's events with the
conversions of the code (`Uint16`, the signed channel), and `Requests` are the store
keys byte by byte. `GetInitConsensusState` gathers BC's state at a height, and
`EncodeConsensusState` writes it with the lengths of `const.go`, its checks and its
errors (`Encodable`) and Go's `copy`, which cuts what is too long.

**EventStream.** The fourteen events of the four bindings: each names its indexed
arguments and has a `Filter...` and a `Watch...` action with a rule for each of them, which
a caller picks freely; a behaviour follows one call.
The generated code behind them is the same for every event: the
iterator's `Next` (`NextLog`, `NextEnds`, `NextDone`) and `Close`, and the
goroutine of a watch (`WatchLog`, `WatchForward`, `WatchEnds`, `PumpReturned`). The
subscription may break in both. The relayer itself calls none of the 28 at present.

**Selection.** `Selected(s, K, n)`, the elements among the first `n` of `s` whose
position is in `K`. It is what `SelectSeq` computes, written as a recursive function so
that proofs can unfold it; `BBCQueries` selects a block's packages with it and
`EventStream` the logs of a subscription.

**MCProcess, MCWatchers.** Instances of three modules each. The components of one
instance share no state; `part` says which of them runs, and the others rest in
an initial state, so that a run explores their sum and not their product.

**Delivery.** What the relayer promises of what it pays for. Per channel, `created[c]`
packages exist and `due[c]` is the sequence expected once all that has been submitted is
executed; `Submit(c, s)` needs `s <= due[c]` and an existing package, and with `s = due[c]`
it raises `due[c]`: a package sent in its turn is one BSC will accept. The concrete `due` is
computed from the contract's state and the whole pool, so that a package sent with a wrong
height, without its header, with a stale nonce or ahead of its predecessors is no `Submit`.
`SubmitsInTurn` states the refinement, with the condition under which each mode keeps it.

## 3. The runs

| Run | Asks | Bounds |
|---|---|---|
| `competition_calm` | `NoSilentSkip`, `SentOnce`, `TrackedSetRelayed` | two channels in mixed blocks, two validator sets, 5 blocks, no fault; `BehindBlockThreshold` 0, which is what a configuration without it means |
| `competition_faults` | `Inv` and its parts, `HeaderFirst`, `CleanupDelivers`, `NonceFresh`, `NeverWalksBack`, implements `Delivery` (`SubmitsInTurn`) | any two faults of all five kinds while BC has at most 3 blocks, 4 blocks, cleanup every 2nd |
| `competition_live` | `EventuallyDelivered` | rivals, an early error or crash, 6 blocks |
| `normal_calm` | `IntervalDelivered`, `SetInUseRelayed` | double blocks, two validator sets, walk may lag and jump |
| `normal_faults` | `Inv`, `SentInOrder`, `CleanupDelivers`, `NonceFresh`, implements `Delivery` (`SubmitsInTurn`) | any two faults while BC has at most 3 of 5 blocks, rivals |
| `normal_live` | `EventuallyDelivered` for a backlog of several batches | batches of 2, threshold 2, cleanup every 6th of 14 blocks |
| `process` | the pool: types, `GetClientInRange`, `LaggardIsLeft`; the start: `OnlyKnownPanics`; the account: `NothingWasted`, `RewardClaimed` | two providers, one switching thread, 3 heights, threshold 1; all configurations that differ from a valid one in at most two fields, seven command lines; rewards up to 3 with a minimum of 2, 5 transactions, two faults |
| `watchers` | types; the monitor: `CacheBounded`, `ConflictFound`, `WindowKept`, `AllChecked`; queries: `RequestsExact`, `InitialStateReadsBack`; streams: `EventsInOrder`, `StopsOnQuit` | two providers of at most three headers each and four together, out of four (three of one height) and a null one, caches of 2; bytes of 4 values, two attributes; names of 4, 32 and 33 bytes, 1, 2, 99 and 100 validators, one key of another type; chains of four logs, buffers of 2 and 1, every event that occurs in the chain and every rule |
| `tracker` | types, `CountsExact`, `NeverOvercounted`, `GivenUpInBatches`, `TxSettled` | three transactions of both types, batches of up to two followed and of three given up, one of two providers lagging, one fault of any kind |
| `competition_backlog`, `competition_valset`, `pool_race` | the three findings | no fault |

*Why the bounds are enough for the cases that matter.* Every control point and
every error branch is reached: TLC's coverage shows each action of the passing
runs taken. Four or five blocks hold a walked block, a skipped height, a
cleanup height and a block that does not exist yet; two faults let an error
meet the recovery from another one (a lost reply followed by a crash, a stale
provider before a dropped transaction). Blocks of two packages and batches of
two or three put a backlog at, below and above the batch limit. Two validator
sets give a change, a change back, and a change announced but not yet in force.
In the live runs BC goes on for some blocks after the last package, so that a
cleanup height follows; what happens only because BC stops is thereby excluded.
A cache of two headers and three announcements make the monitor trim; three headers of
one height are the least with which one submission fails and another one of the same
comparison must still be made, and a fourth of another height the least that trims a
repeated number twice. 99 validators are the most the encoding takes, 33 bytes the
first name it refuses. Two fields that differ from a valid configuration are what
every condition of `Validate` and of the goroutines relates, but for `enable_alert`,
`competition_mode` and the like, which the proof covers. Bytes of 4 values keep every
place a number is cut or turned signed (15 and 16, channel 1 and 2) within reach.

*Deadlock* is checked in every run but `watchers`, where calls return, iterators
end and the feeds are bounded, so that a behaviour may stop; the daemons' busy waits are steps that
change nothing, so a state in which only waiting is possible does not count as
one, and `EventuallyDelivered` is what excludes an endless wait that matters.

*Fairness.* `WF(RelayerStep)`: the daemon's goroutine is scheduled and its calls
return (they have timeouts or are retried). `WF(ProduceBlock)` up to the bound
and `WF(MineTx)`: the chains live. Nothing is assumed of faults, rivals,
crashes, other threads. In the pool: the watcher loops forever, a switch that
has the lock ends, and `SF(UpdateLock)` because Go's mutex hands itself over to
a starving waiter; the monitor's `SF(Receive)` has the same reason, and its
goroutines' steps are weakly fair. A watch's goroutine is scheduled
(`WF(PumpStep)`), with nothing assumed of the node or of the user. In the tracker: its
goroutine loops forever. Of the account: registration goes on, the claims are a loop that
never ends, and BSC executes what is pending. `EventuallyDelivered` needs faults to end: their number is
bounded and they happen only early, while BC is not above `FaultHorizon`.

### What the checks show

With no fault, the competition mode leaves no height whose packages are neither
delivered nor submitted (`NoSilentSkip`, unless a backlog exceeds a batch), and
sends no package twice but for the height it booted at, which the boot's
cleanup and the walk both cover (`SentOnce`). With any two faults what is
sent stays provable and in the right nonce order, a cleanup that reports success
leaves nothing behind, and every package is submitted in its turn (`SubmitsInTurn`): in normal
mode under every fault but a split view of the account, in competition mode until something
goes wrong or a backlog exceeds a batch, because its walk skips a task that fails and sends
the ones behind it all the same. `HeaderFirst`,
`CleanupDelivers`, `NonceFresh` and, in normal mode, `SentInOrder` hold as long as
providers show one view of the account (`OneView`): a stale provider or a dropped transaction really does
break them, and the next cleanup is what repairs it.

Without faults the status page is exact after every round (`CountsExact`). Crashes
and failed reads or writes of the statistics only lose counts; the one thing that
counts a transaction twice is a failed write of its status, because the counters
move first (`NeverOvercounted`). The flag that an overload leaves behind outlives the
round, but never makes the tracker give up a small batch (`GivenUpInBatches`).

In normal mode the validator set that is in use reaches the light client although
the walk jumps (`SetInUseRelayed`), as long as no call fails; a set in force only on
heights jumped over does not. Both `SetInUseRelayed` and `TrackedSetRelayed` speak of the time
in which the daemon tracks a set: a poll that finds no block ends it with nothing wrong,
which is finding 2.

A value of a configuration from a file panics after it was accepted only if the validation
does not look at it, or only compares it with the empty string (`OnlyKnownPanics`): a listen
address, a database path, a BSC provider's address that is not one; with two
monitored nodes also the mnemonic and the nodes' addresses; and in competition mode a cleanup
interval of 0, which the validation overlooks because it checks the normal mode's
interval under that name (`config.go:80`). One from the secret store is not
validated and may panic anywhere (`OnlyKnownPanics`). The account wastes neither a
deposit nor a claim however often the process dies in between, because every read
asks for the pending block; a provider that hides pending transactions breaks that. A claim
that loses its nonce to another goroutine, or its answer, is made good by a later round
(`RewardClaimed`).

The monitor compares under one mutex what is stored under it, so no conflict is
missed, also after a submission that failed (`ConflictFound`); the failed one itself is not
repeated. A number repeated by a provider may cost the cache the newer
header of that number, and only that (`WindowKept`). The state of a height is encoded exactly
if the chain's name has at most 32 bytes and the next height at most 99 validators, all with
ed25519 keys, and is then read back from the bytes at the places `types.go:23-25` promises
(`InitialStateReadsBack`). Of a block's packages exactly those
for this chain on channels up to 127 become requests (`RequestsExact`): a cleanup would
deliver the channels above, which the walk's parser drops.

Smaller differences between words and code, which no run is needed for:
the message of `config.go:81` names the undelivered packages' interval, the
condition above it another field; the default of `--config-type` and both values its
help names (`main.go:31`) are refused; `enable_alert: false` leaves the messages of cleanup, pool watchers and
double-sign monitor on, and lets `SequenceGapThreshold` be 0, so that every gap counts
as one; a database dialect is required without a database; the low-balance message
says "less than" where the code reports equality too; an error of the monitor's
subscription is read by nobody, so that provider is silent from then on.

### Findings

1. `competition_backlog`: `daemon.go:46` and `:73` say the packages "have been
   delivered on cleanup", but a cleanup stops at 30 packages per channel, reports
   success, and the height is left. A later cleanup does pick the rest up.
2. `competition_valset`: an error of the monitor call, also the ordinary poll of
   a block that does not exist yet, stores a nil validators hash, after which no
   change of the validator set is noticed (`daemon.go:49`, `bbc_executor.go:184`).
   The same holds for the normal mode (`daemon.go:112`, `bbc_executor.go:251`).
3. `pool_race`: `UpdateClients` indexes the providers with a `clientIdx` read
   without the lock, which `SwitchBSCClient` may just have incremented past the
   last one: the process panics (`bsc_executor.go:172`, `bbc_executor.go:156`).

## 4. The proofs

All theorems are for every value of the constants that satisfies the modules'
named assumptions: finite channels, `MaxHeight + 1 < Word`, positive batch size
and cleanup interval, `Nil` not a validator set, at least one provider, positive
cache size and reward minimum, bytes of at least four values, chains that are sequences
of logs, and blocks that are sequences of attributes whose package keys have two bytes of
chain id, one of channel and eight of sequence, as BC writes them. The number and kinds
of faults, the length of BC, the number of rivals' deliveries, of providers,
threads, headers and transactions, and the configuration are arbitrary.

- `CompetitionProofs!Invariance`, `NormalProofs!Invariance`: `Spec => []Inv`.
  `PackageProvable` alone is not inductive. To keep it, a sent package must exist at
  its height and its header must have been submitted *before*, which the loop
  establishes several calls earlier; `ControlOK` and `TasksOK` carry that fact
  from the header sync's return to the send. `SequencesGrow` makes existence survive
  new blocks. A package is proved at `height` by `Inc(height)`, which equals
  `height + 1` only because a package exists at `height`, so `height` is at
  most `MaxHeight` and the word cannot wrap.
- `Provability`: the consequence `[]PackageProvable` in both modes.
- `Implementation`: both modes implement `Delivery`, under `SubmitsInTurn`'s conditions. A
  block maps to `Create` (by `SequencesGrow`), a rival's delivery to `Overtaken`, a transaction
  that is mined to a stutter, since `due` counts the pool already. The substance is the send:
  that a package's sequence is not above `due`, and that it counts if it equals `due`, needs the
  fresh nonce (`FreshInv`), the header that is held once the pool is executed and, for the
  batch, that it starts where the pool ends and counts up (`CleanupInv`), or, for the
  walk, that what lies before the task was covered (`CoverInv`). Neither follows from the contract
  alone: it would refuse a package out of turn, and `due` would stay.
- `NonceFreshness` (both modes) and `HeadersFirst`: `FreshInv`. While providers show
  one view of the account, the nonces in the pool are exactly those from the
  account's nonce up to some `m`, everything ever sent lies below `m`, and a nonce
  held between its read and its use *is* `m`: nobody else sends in between. A batch
  counts on by itself, so its nonce is kept with each send. That a header has a lower nonce
  than its package then follows from the order in which they are sent.
- `CompetitionProofs!NoWalkBack`: `WalkInv`. As long as no call fails the height is at
  most one above BC and, once a block was seen, not above it, so adding one does not
  wrap around; and while a cleanup for a jump runs, its height is not below the walk's.
- `SetsRelayed` (both modes): `SetInv`. While nothing goes wrong a header sync ends only
  when its header was taken (`SyncGoesOn`, by `FreshInv` no provider refuses it), so
  after a change the set tracked is the block's own and its header was sent. Later
  blocks change the tracked set only through another change, or lose it to a poll that stores
  nil; the theorem promises nothing from then on.
- `ExecutorProofs` holds the lemmas the two modes share: one per subroutine step and
  one per step of the environment, and what a loop must show to call or to
  resume from a subroutine.
- `ClientPoolProofs!CallsInRange`, `PoolTypes`: the writer's steps hold the lock
  and end with an index in range, so a reader under the lock sees none of the
  intermediate values. That `Highest` exists is the least-number principle,
  taken from the well-founded order of the naturals.
- `TrackerProofs!Undercounting`, `GivingUp`: for any number of transactions, rounds and
  faults. The invariant relates the round's counters to the number of decided
  rows: while a status is being written they are one ahead, and the write that
  succeeds adds exactly one row (`FS_AddElement`). It needs that what is left to do
  in a round is still unconfirmed, since only the tracker changes a status.

- `TrackerProofs!Exactness`, `TrackerTypes`: without a fault the statistics' row agrees with the
  table between rounds, the round's copy of it throughout, and while a status is being
  written the copy is ahead by exactly that transaction.
- `ProcessProofs!KnownPanics`, `StartupTypes`: what holds after each step of `main`
  (a file is valid once loaded; the monitor runs only with two providers, and a key
  is there then) leaves the unjudged values as causes and no other.
- `ProcessProofs!NoWaste`, `AccountTypes`: at most one registration is pending and
  none if registered; a claim is pending or in hand only while the vault holds its minimum
  and no other claim waits; a nonce that is outdated is refused. That fixes what
  `Execute` finds when it comes to each transaction.
- `DoubleSignProofs!ConflictsSubmitted`: `CheckerOK`, the header in hand was compared with all
  caches the loop has passed, whatever became of the submissions, and the mutex keeps every cache as it was; `MemoryBounded`
  and `WindowRemembered` relate the list to the last headers checked.
- `WatcherProofs!RequestsRight`: while a block is scanned the tasks are exactly the packages
  among the attributes seen (`TasksInv`). What a store key says is read back digit by
  digit from its bytes (`ValueOfBytes`), for bytes of any size.
- `WatcherProofs!EventsOrdered`: for an iterator, what it yielded, what its channel holds and
  what the node has yet to send follow each other in the logs that match; for a watch the
  same of received, sink, event in hand and channel (`StreamInv`). `WatcherTypes`
  composes the three components: one steps, the others rest.

Four theorems follow a transaction into the contract's state. `CleanupDelivers` and
`SentInOrder` speak of `Pending`, the state BSC reaches when the whole pool has
been executed, which the model computes by a recursion over the nonces. `ExecutorProofs`
turns it into facts that need no recursion: `RanSteps` (one nonce more is one execution more), by
the least nonce that would break it; a state that is ahead of another stays ahead; executing the
first transaction, or adding one at the end, leaves the run of the others alone.

- `CleanupsDeliver` (both modes): `CleanupInv`. Each header that was sent is held once the pool
  is executed; a cleanup's channels before the current one are done and its batch
  starts where the pending pool ends; the height it cleans for is one BC has,
  or none BC will have; and while nothing goes wrong no call of it fails.
- `NormalProofs!PackagesInOrder`: `OrderInv`. Of each package sent the sequence lies
  below the one expected once the pool is executed, and a batch that is being put together is
  past all of its channel, so that the next one sent is new.
- `NormalProofs!IntervalsDelivered`: `IntervalInv`. Each cleanup height the walk has passed is
  covered, or the walk has just jumped over it and cleans before it goes on.
- `CompetitionProofs!NothingSkipped`: `WalkSafe` and `CoverInv`. A block announces exactly the
  packages between the counters before it and after it, and the tasks left are a tail of what the
  block announces. All heights below the current one are done with, and of the current one
  what is not among the tasks left is.
- `CompetitionProofs!NothingPaidTwice`: `OnceInv`. Every package that was sent has its place:
  a height below the walk's, the one booted at, the one being cleaned up for, or the block being
  relayed, and there it comes before the tasks that are left. Whatever is sent next lies
  past all of these (`OrderOK` for a batch, the order of the tasks for a single package), so
  two sends are of the same package only at the height booted at.

Only model-checked are the liveness properties (`EventuallyDelivered`, `LaggardIsLeft`,
`TxSettled`, `RewardClaimed`, `AllChecked`, `StopsOnQuit`), which are out of the
prover's reach, `InitialStateReadsBack`, which is about sums of lengths that TLC evaluates on
the states at the limits, and the refutations behind the three findings. Every other invariant
and action property of the passing runs is stated by a theorem.

## 5. What is not modelled

Waiting times, logging back ends, gas prices, fees and their sums; wording, heartbeat
and delivery of messages; HTTP routing and formatting; the contents of packages, proofs
and headers beyond what `BBCQueries` reads; for the daemons, the database (a failed write
is one of the outcomes of a broadcast). The light client's check of validator sets: a
header is accepted once submitted, so that a missed change shows in `ChangeFound`
and not in delivery; the check is the contract's, which is not in this repository.

A provider of *BC* that lags behind the others is not modelled for the daemons: their queries
see one chain that only grows. With a lagging one a height may seem not to exist yet, which is
the error branch the daemons have anyway (`MonitorFails`, the repeated header query); that
`getLatestHeight` goes back between two rounds is outside the model. On the BSC side a provider
that lags behind the pool is the fault `stale`; one that is blocks behind the others in
the contract's state is not modelled for the daemons, only for the pools (`LaggardIsLeft`).
Whether the BC client's constructor panics on an address that is not one is the SDK's affair.

Of the bindings: constructors, sessions, `Parse` functions and the wrappers of contract
methods the relayer never calls, which hold no state and only pass their arguments on;
most of the files' lines are these and the ABI and byte code as strings. Of the wire
formats: the amino codec and `Header.Validate`. Code nobody calls:
`calculateNextDeliverSeqFromDB`. `GetInitConsensusState` and the bindings' events are modelled
although nobody calls them. Registration and rewards are modelled
although `Relayer.Start` has their calls commented out.

`CleanInterval # 0` is an assumption of the two loops; that the code does not validate
it in competition mode is what `Startup` is about.

## 6. Plan

1. (done) `CrossChain`, `Executor`, both daemons, `ClientPool`, `TxTracker`; `Delivery`
   and the refinement; their runs; type correctness, the inductive invariants,
   provability, the refinement, the pool's index and the tracker's counts proved.
2. (done) `DoubleSignMonitor`, `Startup`, `RelayerAccount`, `BBCQueries`,
   `EventStream`; what the validator set in use gets of the light client; proofs of
   nonce freshness, header order, the walk, the validator sets, the tracker's exactness, the
   monitor's caches, the start's panics and the account's waste.
3. (done) Proofs of what the cleanups deliver, that nothing is skipped, paid for
   twice or sent out of order, of the queries' requests and of the event streams' order; the
   abstract delivery restated as what the relayer submits, and its refinement proved.
4. Left: a BC provider that lags, for the daemons; the light client's trust in validator sets as an assumption about the
   contract, so that a missed change shows in delivery.
