------------------------------ MODULE TxTracker ------------------------------
(***************************************************************************)
(* The transaction tracker (txTracker of relayer/daemon.go): a goroutine   *)
(* that follows the transactions the executors saved in the database until *)
(* their receipts are known, and keeps the statistics that the admin       *)
(* server shows.  One step is one database statement or one RPC call.      *)
(* Fees are left out: they are summed next to the counters.                *)
(***************************************************************************)
EXTENDS Integers, Sequences, FiniteSets

CONSTANTS
  Txs,                    \* transactions the relayer may submit
  HeaderTxs,              \* those of type SyncBlockHeader
  N,                      \* number of BSC providers
  Lagging,                \* providers that know no receipts
  UnconfirmedTxThreshold, \* BSCConfig.UnconfirmedTxThreshold
  FaultKinds,             \* the faults a run admits
  MaxFaults               \* bound on the number of faults

AllFaults == {"rpc", "read", "rowWrite", "statWrite", "crash"}

ASSUME TrackerAssumption ==
  /\ IsFiniteSet(Txs) /\ HeaderTxs \subseteq Txs
  /\ N \in Nat \ {0} /\ Lagging \subseteq 0..(N - 1)
  /\ UnconfirmedTxThreshold \in Nat \ {0}
  /\ FaultKinds \subseteq AllFaults /\ MaxFaults \in Nat

VARIABLES
  pc,        \* control point of the tracker
  statistic, \* its copy of the statistics row
  relayTxs,  \* the transactions read in this round
  todo,      \* those of them not yet handled
  tx,        \* the one whose status is about to be written, or "none"
  leaveAloneHistoryTx,
  status,    \* table relay_transaction: tx_status, "none" without a row
  stats,     \* table statistic, in the order of the primary key
  old,       \* rows created more than IgnoredTimeGap ago
  receipts,  \* BSC: what became of each transaction
  clientIdx, \* the provider in use
  faults,    \* number of faults so far
  rowFailed  \* history: has the write of a status failed?

roundVars == <<statistic, relayTxs, todo, tx, leaveAloneHistoryTx>>
faultVars == <<faults, rowFailed>>
vars == <<pc, roundVars, status, stats, old, receipts, clientIdx, faultVars>>

Fault(k) ==
  /\ k \in FaultKinds /\ faults < MaxFaults
  /\ faults' = faults + 1 /\ rowFailed' = (rowFailed \/ k = "rowWrite")
NoFault == UNCHANGED faultVars

\* The values of tx_status, and a row of the statistics.
TxStatus == {"Created", "Success", "Failed", "Missed"}
Statistic ==
  [id : Nat, total : Nat, success : Nat, failed : Nat, header : Nat, package : Nat]
Zero == [id |-> 0, total |-> 0, success |-> 0, failed |-> 0, header |-> 0, package |-> 0]

Init ==
  /\ pc = "first" /\ statistic = Zero
  /\ relayTxs = {} /\ todo = {} /\ tx = "none" /\ leaveAloneHistoryTx = FALSE
  /\ status = [t \in Txs |-> "none"] /\ stats = <<>> /\ old = {}
  /\ receipts = [t \in Txs |-> "none"]
  /\ clientIdx = 0
  /\ faults = 0 /\ rowFailed = FALSE

-------------------------------------------------------------------------------
(* One round of the tracker *)

\* First: the row with the least key, the zero value without one.
FirstRow == IF stats = <<>> THEN Zero ELSE stats[1]

\* A failed read leaves the zero value too, and is not noticed.
ReadStatistic ==
  /\ pc = "first"
  /\ \/ statistic' = FirstRow /\ NoFault
     \/ statistic' = Zero /\ Fault("read")
  /\ pc' = "find"
  /\ UNCHANGED <<relayTxs, todo, tx, leaveAloneHistoryTx, status, stats, old, receipts, clientIdx>>

\* Order and Limit come after Find has run: the read has no limit.
Unconfirmed == {t \in Txs : status[t] = "Created" /\ t \notin old}

SwitchBSCClient_NoWrap == clientIdx' = clientIdx + 1
SwitchBSCClient == clientIdx' = (clientIdx + 1) % N

Overload_Sticky(found) ==
  \/ /\ Cardinality(found) > UnconfirmedTxThreshold
     /\ SwitchBSCClient /\ leaveAloneHistoryTx' = TRUE
  \/ /\ Cardinality(found) <= UnconfirmedTxThreshold
     /\ UNCHANGED <<clientIdx, leaveAloneHistoryTx>>
\* An empty read changes nothing, the flag of an earlier round included.
Overload(found) ==
  \/ /\ Cardinality(found) > UnconfirmedTxThreshold
     /\ SwitchBSCClient /\ leaveAloneHistoryTx' = TRUE
  \/ /\ found # {} /\ Cardinality(found) <= UnconfirmedTxThreshold
     /\ leaveAloneHistoryTx' = FALSE /\ UNCHANGED clientIdx
  \/ /\ found = {}
     /\ UNCHANGED <<clientIdx, leaveAloneHistoryTx>>

Find ==
  /\ pc = "find"
  /\ \E found \in {Unconfirmed, {}} :
       /\ (found = Unconfirmed /\ NoFault) \/ (found = {} /\ Fault("read"))
       /\ relayTxs' = found /\ todo' = found
       /\ Overload(found)
  /\ pc' = IF leaveAloneHistoryTx' THEN "miss" ELSE "track"
  /\ UNCHANGED <<statistic, tx, status, stats, old, receipts>>

\* Every transaction read is given up; then the loop starts anew, at once.
\* What it read is overwritten by the next read.
Miss ==
  /\ pc = "miss"
  /\ \/ /\ todo = {}
        /\ pc' = "first" /\ statistic' = Zero /\ relayTxs' = {}
        /\ NoFault /\ UNCHANGED <<todo, status>>
     \/ \E t \in todo :
          /\ todo' = todo \ {t}
          /\ \/ status' = [status EXCEPT ![t] = "Missed"] /\ NoFault
             \/ Fault("rowWrite") /\ UNCHANGED status
          /\ UNCHANGED <<pc, statistic, relayTxs>>
  /\ UNCHANGED <<tx, leaveAloneHistoryTx, stats, old, receipts, clientIdx>>

Counted(s, t) ==
  [s EXCEPT !.total = @ + 1,
            !.success = @ + (IF receipts[t] = "ok" THEN 1 ELSE 0),
            !.failed = @ + (IF receipts[t] = "ok" THEN 0 ELSE 1),
            !.header = @ + (IF t \in HeaderTxs THEN 1 ELSE 0),
            !.package = @ + (IF t \in HeaderTxs THEN 0 ELSE 1)]

HasReceipt(t) == receipts[t] # "none" /\ clientIdx \notin Lagging

Skip_EndsRound(t) == todo' = {} /\ pc' = "track" /\ UNCHANGED <<tx, statistic>>
Skip_Counts(t) ==
  /\ todo' = todo \ {t} /\ pc' = "track"
  /\ statistic' = [statistic EXCEPT !.total = @ + 1] /\ UNCHANGED tx
Skip(t) == todo' = todo \ {t} /\ pc' = "track" /\ UNCHANGED <<tx, statistic>>

\* The receipt of some transaction read; one without is left for later.
Track ==
  /\ pc = "track"
  /\ \/ /\ todo = {}
        /\ pc' = "statistic" /\ NoFault /\ UNCHANGED <<todo, tx, statistic>>
     \/ \E t \in todo :
          \/ /\ HasReceipt(t) /\ NoFault
             /\ statistic' = Counted(statistic, t)
             /\ todo' = todo \ {t} /\ tx' = t /\ pc' = "status"
          \/ ~HasReceipt(t) /\ NoFault /\ Skip(t)
          \/ Fault("rpc") /\ Skip(t)
  /\ UNCHANGED <<relayTxs, leaveAloneHistoryTx, status, stats, old, receipts, clientIdx>>

\* The counters moved already; a failed write is only logged.
WriteStatus ==
  /\ pc = "status"
  /\ \/ /\ status' = [status EXCEPT ![tx] = IF receipts[tx] = "ok" THEN "Success" ELSE "Failed"]
        /\ NoFault
     \/ Fault("rowWrite") /\ UNCHANGED status
  /\ pc' = "track" /\ tx' = "none"
  /\ UNCHANGED <<statistic, relayTxs, todo, leaveAloneHistoryTx, stats, old, receipts, clientIdx>>

\* Which row is written is decided by what the read at the start returned.
Stored_AlwaysNew == Append(stats, [statistic EXCEPT !.id = Len(stats) + 1])
Stored == IF statistic.id = 0 THEN Append(stats, [statistic EXCEPT !.id = Len(stats) + 1])
                              ELSE [stats EXCEPT ![statistic.id] = statistic]
WriteStatistic ==
  /\ pc = "statistic"
  /\ \/ stats' = Stored /\ NoFault
     \/ Fault("statWrite") /\ UNCHANGED stats
  /\ relayTxs' = {} /\ statistic' = Zero /\ pc' = "first"
  /\ UNCHANGED <<todo, tx, leaveAloneHistoryTx, status, old, receipts, clientIdx>>

\* The process restarts; only the tables survive.
Crash ==
  /\ Fault("crash")
  /\ pc' = "first" /\ statistic' = Zero /\ relayTxs' = {} /\ todo' = {} /\ tx' = "none"
  /\ leaveAloneHistoryTx' = FALSE /\ clientIdx' = 0
  /\ UNCHANGED <<status, stats, old, receipts>>

-------------------------------------------------------------------------------
(* The other goroutines, time and BSC *)

\* An executor saves a transaction it has submitted.
SaveRelayTx(t) ==
  /\ status[t] = "none"
  /\ status' = [status EXCEPT ![t] = "Created"]
  /\ UNCHANGED <<pc, roundVars, stats, old, receipts, clientIdx, faultVars>>

\* Only the age of unconfirmed rows is ever looked at.
Age(t) ==
  /\ status[t] = "Created" /\ t \notin old
  /\ old' = old \cup {t}
  /\ UNCHANGED <<pc, roundVars, status, stats, receipts, clientIdx, faultVars>>

\* A submitted transaction is mined, perhaps before it is saved.
Mine(t) ==
  /\ receipts[t] = "none"
  /\ \E outcome \in {"ok", "reverted"} : receipts' = [receipts EXCEPT ![t] = outcome]
  /\ UNCHANGED <<pc, roundVars, status, stats, old, clientIdx, faultVars>>

\* The watcher of the providers moves to the one it found highest.
UpdateClients(i) ==
  /\ clientIdx' = i
  /\ UNCHANGED <<pc, roundVars, status, stats, old, receipts, faultVars>>

TrackerStep ==
  \/ ReadStatistic \/ Find \/ Miss \/ Track \/ WriteStatus \/ WriteStatistic

Next ==
  \/ TrackerStep \/ Crash
  \/ \E t \in Txs : SaveRelayTx(t) \/ Age(t) \/ Mine(t)
  \/ \E i \in 0..(N - 1) : UpdateClients(i)

Spec == Init /\ [][Next]_vars

\* The goroutine loops forever; nothing is assumed of the rest.
FairSpec == Spec /\ WF_vars(TrackerStep)

-------------------------------------------------------------------------------

\* What the admin server's status page shows.
StatusHandler == FirstRow

Having(states) == Cardinality({t \in Txs : status[t] \in states})
Decided == Having({"Success", "Failed"})

\* Every variable has its type.
TypeOK ==
  /\ pc \in {"first", "find", "miss", "track", "status", "statistic"}
  /\ statistic \in Statistic /\ statistic.id <= Len(stats)
  /\ todo \subseteq relayTxs /\ relayTxs \subseteq Txs
  /\ tx \in Txs \cup {"none"} /\ (pc = "status" => tx \in relayTxs \ todo)
  /\ leaveAloneHistoryTx \in BOOLEAN
  /\ status \in [Txs -> TxStatus \cup {"none"}]
  /\ stats \in Seq(Statistic)
  /\ old \subseteq Txs
  /\ receipts \in [Txs -> {"none", "ok", "reverted"}]
  /\ clientIdx \in 0..(N - 1)
  /\ faults \in Nat /\ rowFailed \in BOOLEAN

\* As long as nothing fails, the status page is exact whenever a round is
\* over: every transaction that got a final status is counted once, under its
\* status and its type, over any number of rounds and given-up batches.
CountsExact ==
  faults = 0 /\ pc = "first" =>
    /\ StatusHandler.success = Having({"Success"})
    /\ StatusHandler.failed = Having({"Failed"})
    /\ StatusHandler.total = Decided
    /\ StatusHandler.header =
         Cardinality({t \in HeaderTxs : status[t] \in {"Success", "Failed"}})

\* A crash, a failed read and a failed write of the statistics lose counts but
\* add none: unless the write of some status failed (the transaction is then
\* counted again), the page never shows more than the table holds.
NeverOvercounted == ~rowFailed => StatusHandler.total <= Decided

\* A transaction is given up only with a whole batch: the flag a batch leaves
\* behind does not make the tracker give up the few transactions that follow.
GivenUpInBatches ==
  [][\A t \in Txs : status[t] # "Missed" /\ status'[t] = "Missed" =>
       status[t] = "Created" /\ Cardinality(relayTxs) > UnconfirmedTxThreshold]_vars

\* A mined transaction is settled in the end while its provider knows the
\* receipts and it is young; the unmined ones before it do not hold it up.
TxSettled ==
  \A t \in Txs :
    status[t] = "Created" /\ receipts[t] # "none" ~>
      status[t] # "Created" \/ t \in old \/ clientIdx \in Lagging
===============================================================================
