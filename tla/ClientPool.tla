------------------------------ MODULE ClientPool ------------------------------
(***************************************************************************)
(* The pool of RPC providers an executor keeps (BSCExecutor and            *)
(* BBCExecutor have the same code): which provider is in use, the          *)
(* goroutine that watches their heights (UpdateClients), the threads that  *)
(* give up on a provider (SwitchBSCClient, SwitchBCClient) and the calls   *)
(* that pick the provider (GetClient).  clientIdx is guarded by a mutex    *)
(* everywhere but in one read of UpdateClients.  Indices start at 0.       *)
(***************************************************************************)
EXTENDS Integers, FiniteSets

CONSTANTS
  N,                   \* number of providers
  Switchers,           \* threads that may switch
  FallBehindThreshold, \* const.go: blocks the current provider may lag (5)
  MaxBlock             \* bound on the heights the providers reach

Index == 0..(N - 1)
Updater == "updater"
Free == "free"

ASSUME PoolAssumption ==
  /\ N \in Nat \ {0} /\ FallBehindThreshold \in Nat /\ MaxBlock \in Nat
  /\ Updater \notin Switchers /\ Free \notin Switchers

VARIABLES
  clientIdx,     \* index of the provider in use
  mutex,         \* who holds the write lock
  swPc,          \* each switcher's control point
  upPc,          \* UpdateClients' control point
  upAt,          \* UpdateClients: next provider to query
  currentHeight, \* last height read from each provider
  got,           \* the index GetClient last used
  chain,         \* environment: height each provider really has
  up             \* environment: does the provider answer?

updVars == <<upPc, upAt, currentHeight>>
envVars == <<chain, up>>
vars == <<clientIdx, mutex, swPc, upPc, upAt, currentHeight, got, chain, up>>

\* An index out of range in any goroutine panics and ends the process.
Alive == upPc # "panic"

Highest == CHOOSE i \in Index : \A j \in Index :
             \/ currentHeight[i] > currentHeight[j]
             \/ currentHeight[i] = currentHeight[j] /\ i <= j

Init ==
  /\ clientIdx = 0 /\ mutex = Free /\ got = 0
  /\ swPc = [s \in Switchers |-> "idle"]
  /\ upPc = "query" /\ upAt = 0
  /\ currentHeight = [i \in Index |-> 0]
  /\ chain = [i \in Index |-> 0] /\ up = [i \in Index |-> TRUE]

\* GetClient holds the read lock, so it runs while nobody writes.
GetClient_NoLock ==
  /\ Alive
  /\ got' = clientIdx
  /\ UNCHANGED <<clientIdx, mutex, swPc, updVars, envVars>>
GetClient ==
  /\ Alive /\ mutex = Free
  /\ got' = clientIdx
  /\ UNCHANGED <<clientIdx, mutex, swPc, updVars, envVars>>

SwitchLock(s) ==
  /\ Alive /\ swPc[s] = "idle" /\ mutex = Free
  /\ mutex' = s /\ swPc' = [swPc EXCEPT ![s] = "increment"]
  /\ UNCHANGED <<clientIdx, got, updVars, envVars>>
SwitchIncrement(s) ==
  /\ Alive /\ swPc[s] = "increment"
  /\ clientIdx' = clientIdx + 1 /\ swPc' = [swPc EXCEPT ![s] = "wrap"]
  /\ UNCHANGED <<mutex, got, updVars, envVars>>
SwitchWrap_OffByOne(s) ==
  /\ Alive /\ swPc[s] = "wrap"
  /\ clientIdx' = IF clientIdx > N THEN 0 ELSE clientIdx
  /\ mutex' = Free /\ swPc' = [swPc EXCEPT ![s] = "idle"]
  /\ UNCHANGED <<got, updVars, envVars>>
SwitchWrap(s) ==
  /\ Alive /\ swPc[s] = "wrap"
  /\ clientIdx' = IF clientIdx >= N THEN 0 ELSE clientIdx
  /\ mutex' = Free /\ swPc' = [swPc EXCEPT ![s] = "idle"]
  /\ UNCHANGED <<got, updVars, envVars>>

\* One provider after the other is asked; an error leaves its last height.
NextQuery == upAt' = upAt + 1 /\ upPc' = IF upAt = N - 1 THEN "check" ELSE "query"
UpdateHeight ==
  /\ Alive /\ upPc = "query"
  /\ NextQuery
  /\ currentHeight' = IF up[upAt] THEN [currentHeight EXCEPT ![upAt] = chain[upAt]]
                                  ELSE currentHeight
  /\ UNCHANGED <<clientIdx, mutex, got, swPc, envVars>>

FallsBehind_Swapped(i) == currentHeight[Highest] + FallBehindThreshold < currentHeight[i]
FallsBehind(i) == currentHeight[i] + FallBehindThreshold < currentHeight[Highest]

\* The unlocked read: a switcher may be between its two writes.
UpdateCheck ==
  /\ Alive /\ upPc = "check"
  /\ upPc' = IF clientIdx \notin Index THEN "panic"
             ELSE IF FallsBehind(clientIdx)
             THEN "lock" ELSE "query"
  /\ upAt' = 0
  /\ UNCHANGED <<clientIdx, mutex, got, swPc, currentHeight, envVars>>
UpdateLock ==
  /\ Alive /\ upPc = "lock" /\ mutex = Free
  /\ mutex' = Updater /\ upPc' = "set"
  /\ UNCHANGED <<clientIdx, got, swPc, upAt, currentHeight, envVars>>
UpdateSet ==
  /\ Alive /\ upPc = "set"
  /\ clientIdx' = Highest /\ mutex' = Free /\ upPc' = "query"
  /\ UNCHANGED <<got, swPc, upAt, currentHeight, envVars>>

UpdateStep == UpdateHeight \/ UpdateCheck \/ UpdateLock \/ UpdateSet

\* Environment: a provider gains a block, stops answering, answers again.
Advance(i) ==
  /\ up[i] /\ chain[i] < MaxBlock
  /\ chain' = [chain EXCEPT ![i] = @ + 1]
  /\ UNCHANGED <<clientIdx, mutex, got, swPc, updVars, up>>
Toggle(i) ==
  /\ up' = [up EXCEPT ![i] = ~@]
  /\ UNCHANGED <<clientIdx, mutex, got, swPc, updVars, chain>>

Next ==
  \/ GetClient
  \/ \E s \in Switchers : SwitchLock(s) \/ SwitchIncrement(s) \/ SwitchWrap(s)
  \/ UpdateHeight \/ UpdateCheck \/ UpdateLock \/ UpdateSet
  \/ \E i \in Index : Advance(i) \/ Toggle(i)

Spec == Init /\ [][Next]_vars

\* UpdateClients loops forever, a switch that began ends, and Go's mutex does
\* not starve a waiter: UpdateLock is strongly fair.
Fairness ==
  /\ WF_vars(UpdateStep) /\ SF_vars(UpdateLock)
  /\ \A s \in Switchers : WF_vars(SwitchIncrement(s)) /\ WF_vars(SwitchWrap(s))
FairSpec == Spec /\ Fairness

-------------------------------------------------------------------------------

\* Every variable has its type; the index may stand one too high for a moment.
TypeOK ==
  /\ clientIdx \in 0..N
  /\ mutex \in Switchers \cup {Updater, Free}
  /\ swPc \in [Switchers -> {"idle", "increment", "wrap"}]
  /\ upPc \in {"query", "check", "lock", "set", "panic"}
  /\ upAt \in 0..N /\ (upAt = N => upPc = "check")
  /\ currentHeight \in [Index -> 0..MaxBlock] /\ chain \in [Index -> 0..MaxBlock]
  /\ got \in 0..N
  /\ up \in [Index -> BOOLEAN]

\* Every call goes to a provider that exists: under the lock nobody sees the
\* index between the increment and the wrap-around.
GetClientInRange == got \in Index

\* A provider is left when another one runs ahead of it: if from some time on
\* the process lives and the heights read show a provider behind by more than
\* the threshold, that provider is not used forever.
ShownBehind(i) ==
  currentHeight[i] + FallBehindThreshold < currentHeight[Highest]
LaggardIsLeft ==
  \A i \in Index : <>[](Alive /\ ShownBehind(i)) => []<>(clientIdx # i)

\* The wrap-around after clientIdx++ is there to keep the index in range, and
\* CHANGELOG.md:7 has several data seeds avoid a single point of failure:
\* watching them does not take the process down.
WatchingSurvives == Alive
===============================================================================
