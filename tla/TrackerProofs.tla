---------------------------- MODULE TrackerProofs ----------------------------
(***************************************************************************)
(* Proofs about the transaction tracker, for any number of transactions,   *)
(* providers and faults.                                                   *)
(***************************************************************************)
EXTENDS TxTracker, FiniteSetTheorems, TLAPS

Statuses == {"none", "Created", "Success", "Failed", "Missed"}
DecidedTxs == {t \in Txs : status[t] \in {"Success", "Failed"}}

\* What the control point says about the transactions of the round.
RoundOK ==
  /\ todo \subseteq {t \in relayTxs : status[t] = "Created"} /\ relayTxs \subseteq Txs
  /\ pc = "status" => tx \in Txs \ todo /\ status[tx] = "Created"
  /\ pc = "miss" /\ todo # {} => Cardinality(relayTxs) > UnconfirmedTxThreshold
  /\ pc = "statistic" => todo = {}
  /\ status \in [Txs -> Statuses]

\* The counters of the round, and those of the first row, are covered by the
\* transactions that have a final status; the one being written is ahead.
CountsOK ==
  /\ statistic.id \in 0..1 /\ (statistic.id = 1 => stats # <<>>)
  /\ stats # <<>> => stats[1].id = 1
  /\ statistic \in Statistic /\ stats \in Seq(Statistic)
  /\ rowFailed \in BOOLEAN
  /\ ~rowFailed =>
       /\ pc # "status" => statistic.total <= Cardinality(DecidedTxs)
       /\ pc = "status" => statistic.total <= Cardinality(DecidedTxs) + 1
       /\ FirstRow.total <= Cardinality(DecidedTxs)

TrackerInv == RoundOK /\ CountsOK

-------------------------------------------------------------------------------

\* The number of decided transactions is a natural number.
LEMMA DecidedFinite ==
  IsFiniteSet(DecidedTxs) /\ Cardinality(DecidedTxs) \in Nat
BY TrackerAssumption, FS_Subset, FS_CardinalityType DEF DecidedTxs

\* The zero value and the first row are statistics, under key 0 or 1.
LEMMA RowTypes ==
  ASSUME stats \in Seq(Statistic)
  PROVE  Zero \in Statistic /\ Zero.id = 0 /\ Zero.total = 0 /\ FirstRow \in Statistic
<1>1. Zero \in Statistic
  BY DEF Zero, Statistic
<1>2. stats # <<>> => stats[1] \in Statistic
  OBVIOUS
<1> QED
  BY <1>1, <1>2 DEF FirstRow, Zero

\* Counting a receipt adds one to the total and keeps the key.
LEMMA CountedTotal ==
  ASSUME NEW s \in Statistic, NEW t
  PROVE  /\ Counted(s, t) \in Statistic
         /\ Counted(s, t).total = s.total + 1 /\ Counted(s, t).id = s.id
<1> DEFINE T == s.total + 1
           S == s.success + (IF receipts[t] = "ok" THEN 1 ELSE 0)
           F == s.failed + (IF receipts[t] = "ok" THEN 0 ELSE 1)
           H == s.header + (IF t \in HeaderTxs THEN 1 ELSE 0)
           P == s.package + (IF t \in HeaderTxs THEN 0 ELSE 1)
<1>1. s.total \in Nat /\ s.success \in Nat /\ s.failed \in Nat /\ s.header \in Nat /\ s.package \in Nat
  BY DEF Statistic
<1>2. T \in Nat /\ S \in Nat /\ F \in Nat /\ H \in Nat /\ P \in Nat
  BY <1>1
<1>3. Counted(s, t) =
        [s EXCEPT !.total = T, !.success = S, !.failed = F, !.header = H, !.package = P]
  BY DEF Counted
<1>4. T = s.total + 1
  OBVIOUS
<1> HIDE DEF T, S, F, H, P
<1> QED
  BY <1>2, <1>3, <1>4 DEF Statistic

LEMMA InitTracker == Init => TrackerInv
<1> SUFFICES ASSUME Init PROVE TrackerInv
  OBVIOUS
<1>1. Zero \in Statistic /\ Zero.id = 0 /\ Zero.total = 0
  BY DEF Zero, Statistic
<1>2. stats \in Seq(Statistic) /\ FirstRow = Zero
  BY DEF Init, FirstRow
<1>3. RoundOK
  BY DEF Init, RoundOK, Statuses
<1>4. statistic = Zero /\ stats = <<>> /\ rowFailed = FALSE
  BY DEF Init
<1>5. statistic.total <= Cardinality(DecidedTxs) /\ FirstRow.total <= Cardinality(DecidedTxs)
  BY <1>1, <1>2, <1>4, DecidedFinite
<1>6. statistic.id \in 0..1 /\ statistic.id # 1
  BY <1>1, <1>4
<1>7. pc # "status"
  BY DEF Init
<1>8. CountsOK
  BY <1>1, <1>2, <1>4, <1>5, <1>6, <1>7 DEF CountsOK
<1> QED
  BY <1>3, <1>8 DEF TrackerInv

\* A round begins with the first row or, after a failed read, with zeros.
LEMMA ReadStatisticKeeps == TrackerInv /\ ReadStatistic => TrackerInv'
<1> SUFFICES ASSUME TrackerInv, ReadStatistic PROVE TrackerInv'
  OBVIOUS
<1>1. RoundOK'
  BY DEF ReadStatistic, RoundOK, TrackerInv
<1>2. Zero \in Statistic /\ Zero.id = 0 /\ Zero.total = 0 /\ FirstRow \in Statistic
  BY RowTypes DEF TrackerInv, CountsOK
<1>3. FirstRow.id \in 0..1 /\ (FirstRow.id = 1 => stats # <<>>)
  BY <1>2 DEF FirstRow, TrackerInv, CountsOK
<1>4. FirstRow' = FirstRow /\ DecidedTxs' = DecidedTxs
  BY DEF ReadStatistic, FirstRow, DecidedTxs
<1>5. rowFailed' \in BOOLEAN /\ (~rowFailed' => ~rowFailed)
  BY DEF ReadStatistic, Fault, NoFault, faultVars, TrackerInv, CountsOK
<1>6. pc' = "find" /\ UNCHANGED stats /\ (statistic' = FirstRow \/ statistic' = Zero)
  BY DEF ReadStatistic
<1>7. CountsOK'
  BY <1>2, <1>3, <1>4, <1>5, <1>6, DecidedFinite DEF TrackerInv, CountsOK
<1> QED
  BY <1>1, <1>7 DEF TrackerInv

\* The flag is set in a round that read rows only if they exceed the threshold.
LEMMA FindKeeps == TrackerInv /\ Find => TrackerInv'
<1> SUFFICES ASSUME TrackerInv, Find PROVE TrackerInv'
  OBVIOUS
<1>1. PICK found \in {Unconfirmed, {}} :
         relayTxs' = found /\ todo' = found /\ Overload(found)
  BY DEF Find
<1>2. found \subseteq {t \in Txs : status[t] = "Created"}
  BY <1>1 DEF Unconfirmed
<1>3. found # {} /\ leaveAloneHistoryTx' => Cardinality(found) > UnconfirmedTxThreshold
  BY <1>1 DEF Overload
<1>4. /\ pc' = IF leaveAloneHistoryTx' THEN "miss" ELSE "track"
      /\ UNCHANGED <<statistic, status, stats>>
  BY DEF Find
<1>5. pc' # "status" /\ (pc' = "miss" => leaveAloneHistoryTx') /\ pc = "find"
  BY <1>4 DEF Find
<1>6. RoundOK'
  BY <1>1, <1>2, <1>3, <1>4, <1>5 DEF RoundOK, TrackerInv
<1>7. rowFailed' \in BOOLEAN /\ (~rowFailed' => ~rowFailed)
  BY DEF Find, Fault, NoFault, faultVars, TrackerInv, CountsOK
<1>8. FirstRow' = FirstRow /\ DecidedTxs' = DecidedTxs
  BY <1>4 DEF FirstRow, DecidedTxs
<1>9. CountsOK'
  BY <1>4, <1>5, <1>7, <1>8 DEF TrackerInv, CountsOK
<1> QED
  BY <1>6, <1>9 DEF TrackerInv

\* Giving up turns unconfirmed transactions into missed ones: the decided
\* transactions stay the same.
LEMMA MissKeeps == TrackerInv /\ Miss => TrackerInv'
<1> SUFFICES ASSUME TrackerInv, Miss PROVE TrackerInv'
  OBVIOUS
<1>1. rowFailed' \in BOOLEAN /\ (~rowFailed' => ~rowFailed)
  BY DEF Miss, Fault, NoFault, faultVars, TrackerInv, CountsOK
<1>2. FirstRow' = FirstRow /\ UNCHANGED stats
  BY DEF Miss, FirstRow
<1>3. CASE todo = {} /\ pc' = "first" /\ statistic' = Zero /\ relayTxs' = {} /\ UNCHANGED <<todo, status>>
  <2>1. RoundOK'
    BY <1>3 DEF RoundOK, TrackerInv
  <2>2. DecidedTxs' = DecidedTxs
    BY <1>3 DEF DecidedTxs
  <2>3. Zero \in Statistic /\ Zero.id = 0 /\ Zero.total = 0
    BY RowTypes DEF TrackerInv, CountsOK
  <2>4. CountsOK'
    BY <1>1, <1>2, <1>3, <2>2, <2>3, DecidedFinite DEF TrackerInv, CountsOK
  <2> QED
    BY <2>1, <2>4 DEF TrackerInv
<1>4. CASE \E t \in todo :
             /\ todo' = todo \ {t} /\ UNCHANGED <<pc, statistic, relayTxs>>
             /\ status' = [status EXCEPT ![t] = "Missed"] \/ UNCHANGED status
  <2>1. PICK t \in todo :
          /\ todo' = todo \ {t} /\ UNCHANGED <<pc, statistic, relayTxs>>
          /\ status' = [status EXCEPT ![t] = "Missed"] \/ UNCHANGED status
    BY <1>4
  <2>2. t \in Txs /\ status[t] = "Created" /\ status \in [Txs -> Statuses] /\ pc = "miss"
    BY DEF RoundOK, TrackerInv, Miss
  <2>3. status' \in [Txs -> Statuses] /\ \A u \in Txs \ {t} : status'[u] = status[u]
    BY <2>1, <2>2 DEF Statuses
  <2>4. RoundOK'
    BY <2>1, <2>2, <2>3 DEF RoundOK, TrackerInv
  <2>5. DecidedTxs' = DecidedTxs
    BY <2>1, <2>2, <2>3 DEF DecidedTxs
  <2>6. CountsOK'
    BY <1>1, <1>2, <2>1, <2>5 DEF TrackerInv, CountsOK
  <2> QED
    BY <2>4, <2>6 DEF TrackerInv
<1> QED
  BY <1>3, <1>4 DEF Miss

\* A receipt moves the counters one ahead of the table.
LEMMA TrackKeeps == TrackerInv /\ Track => TrackerInv'
<1> SUFFICES ASSUME TrackerInv, Track PROVE TrackerInv'
  OBVIOUS
<1>1. rowFailed' \in BOOLEAN /\ (~rowFailed' => ~rowFailed)
  BY DEF Track, Skip, Fault, NoFault, faultVars, TrackerInv, CountsOK
<1>2. /\ UNCHANGED <<relayTxs, status, stats>> /\ pc = "track"
      /\ FirstRow' = FirstRow /\ DecidedTxs' = DecidedTxs
  BY DEF Track, FirstRow, DecidedTxs
<1>3. CASE todo = {} /\ pc' = "statistic" /\ UNCHANGED <<todo, tx, statistic>>
  <2>1. RoundOK'
    BY <1>2, <1>3 DEF RoundOK, TrackerInv
  <2>2. CountsOK'
    BY <1>1, <1>2, <1>3 DEF TrackerInv, CountsOK
  <2> QED
    BY <2>1, <2>2 DEF TrackerInv
<1>4. ASSUME NEW t \in todo, Skip(t) PROVE TrackerInv'
  <2>1. RoundOK'
    BY <1>2, <1>4 DEF RoundOK, TrackerInv, Skip
  <2>2. CountsOK'
    BY <1>1, <1>2, <1>4 DEF TrackerInv, CountsOK, Skip
  <2> QED
    BY <2>1, <2>2 DEF TrackerInv
<1>5. ASSUME NEW t \in todo, statistic' = Counted(statistic, t),
             todo' = todo \ {t}, tx' = t, pc' = "status"
      PROVE  TrackerInv'
  <2>1. RoundOK'
    BY <1>2, <1>5 DEF RoundOK, TrackerInv
  <2>2. /\ statistic' \in Statistic
        /\ statistic'.total = statistic.total + 1 /\ statistic'.id = statistic.id
    BY <1>5, CountedTotal DEF TrackerInv, CountsOK
  <2>3. statistic.total \in Nat
    BY DEF TrackerInv, CountsOK, Statistic
  <2>4. CountsOK'
    BY <1>1, <1>2, <1>5, <2>2, <2>3, DecidedFinite DEF TrackerInv, CountsOK
  <2> QED
    BY <2>1, <2>4 DEF TrackerInv
<1> QED
  BY <1>3, <1>4, <1>5 DEF Track

\* The write of the status catches up with the counters.
LEMMA WriteStatusKeeps == TrackerInv /\ WriteStatus => TrackerInv'
<1> SUFFICES ASSUME TrackerInv, WriteStatus PROVE TrackerInv'
  OBVIOUS
<1>1. /\ UNCHANGED <<statistic, relayTxs, todo, stats>> /\ pc = "status" /\ pc' = "track"
      /\ FirstRow' = FirstRow
  BY DEF WriteStatus, FirstRow
<1>2. tx \in Txs \ todo /\ status[tx] = "Created" /\ status \in [Txs -> Statuses]
  BY <1>1 DEF RoundOK, TrackerInv
<1>3. status' \in [Txs -> Statuses] /\ \A u \in Txs \ {tx} : status'[u] = status[u]
  BY <1>2 DEF WriteStatus, Statuses
<1>4. RoundOK'
  BY <1>1, <1>2, <1>3 DEF RoundOK, TrackerInv
<1>5. rowFailed' \in BOOLEAN
  BY DEF WriteStatus, Fault, NoFault, faultVars, TrackerInv, CountsOK
<1>6. ASSUME ~rowFailed'
      PROVE  ~rowFailed /\ Cardinality(DecidedTxs') = Cardinality(DecidedTxs) + 1
  <2>1. /\ ~rowFailed
        /\ status' = [status EXCEPT ![tx] = IF receipts[tx] = "ok" THEN "Success" ELSE "Failed"]
    BY <1>6 DEF WriteStatus, Fault, NoFault, faultVars, TrackerInv, CountsOK
  <2>2. DecidedTxs' = DecidedTxs \cup {tx} /\ tx \notin DecidedTxs
    BY <1>2, <1>3, <2>1 DEF DecidedTxs
  <2> QED
    BY <2>1, <2>2, DecidedFinite, FS_AddElement
<1>7. CountsOK'
  <2>1. statistic.total \in Nat /\ FirstRow.total \in Nat
    BY RowTypes DEF TrackerInv, CountsOK, Statistic
  <2>2. ~rowFailed' => /\ statistic.total <= Cardinality(DecidedTxs)'
                       /\ FirstRow.total <= Cardinality(DecidedTxs)'
    BY <1>1, <1>6, <2>1, DecidedFinite DEF TrackerInv, CountsOK
  <2> QED
    BY <1>1, <1>5, <2>2 DEF TrackerInv, CountsOK
<1> QED
  BY <1>4, <1>7 DEF TrackerInv

\* The round's counters go to the first row, or to a new one.
LEMMA WriteStatisticKeeps == TrackerInv /\ WriteStatistic => TrackerInv'
<1> SUFFICES ASSUME TrackerInv, WriteStatistic PROVE TrackerInv'
  OBVIOUS
<1>1. /\ UNCHANGED <<todo, tx, status>> /\ pc = "statistic" /\ pc' = "first"
      /\ relayTxs' = {} /\ statistic' = Zero /\ DecidedTxs' = DecidedTxs
  BY DEF WriteStatistic, DecidedTxs
<1>2. RoundOK'
  BY <1>1 DEF RoundOK, TrackerInv
<1>3. rowFailed' \in BOOLEAN /\ (~rowFailed' => ~rowFailed)
  BY DEF WriteStatistic, Fault, NoFault, faultVars, TrackerInv, CountsOK
<1>4. Zero \in Statistic /\ Zero.id = 0 /\ Zero.total = 0
  BY RowTypes DEF TrackerInv, CountsOK
<1>5. stats' = stats \/ stats' = Stored
  BY DEF WriteStatistic
<1>6. CASE stats' = stats
  <2>1. FirstRow' = FirstRow
    BY <1>6 DEF FirstRow
  <2> QED
    BY <1>1, <1>2, <1>3, <1>4, <1>6, <2>1, DecidedFinite DEF TrackerInv, CountsOK
<1>7. CASE stats' = Stored /\ statistic.id = 0
  <2> DEFINE row == [statistic EXCEPT !.id = Len(stats) + 1]
  <2>1. stats \in Seq(Statistic) /\ statistic \in Statistic /\ Len(stats) \in Nat
    BY DEF TrackerInv, CountsOK
  <2>2. /\ row \in Statistic
        /\ row.total = statistic.total /\ row.id = Len(stats) + 1
    <3> DEFINE key == Len(stats) + 1
    <3>1. key \in Nat
      BY <2>1
    <3>2. row = [statistic EXCEPT !.id = key] /\ key = Len(stats) + 1
      OBVIOUS
    <3> HIDE DEF key, row
    <3> QED
      BY <2>1, <3>1, <3>2 DEF Statistic
  <2>3. stats' = Append(stats, row)
    BY <1>7 DEF Stored
  <2> HIDE DEF row
  <2>4. /\ stats' \in Seq(Statistic) /\ stats' # <<>>
        /\ stats' [1] = IF stats = <<>> THEN row ELSE stats[1]
    BY <2>1, <2>2, <2>3
  <2>5. stats = <<>> => Len(stats) = 0
    OBVIOUS
  <2>6. FirstRow' = stats'[1]
    BY <2>4 DEF FirstRow
  <2>7. stats'[1].id = 1
    BY <2>2, <2>4, <2>5 DEF TrackerInv, CountsOK
  <2>8. ~rowFailed => FirstRow'.total <= Cardinality(DecidedTxs)
    BY <1>1, <2>2, <2>4, <2>6 DEF TrackerInv, CountsOK, FirstRow
  <2> QED
    BY <1>1, <1>2, <1>3, <1>4, <2>4, <2>7, <2>8, DecidedFinite DEF TrackerInv, CountsOK
<1>8. CASE stats' = Stored /\ statistic.id = 1
  <2>1. /\ stats \in Seq(Statistic) /\ statistic \in Statistic
        /\ stats # <<>>
    BY <1>8 DEF TrackerInv, CountsOK
  <2>2. stats' = [stats EXCEPT ![1] = statistic]
    BY <1>8 DEF Stored
  <2>3. stats' \in Seq(Statistic) /\ stats' # <<>> /\ stats'[1] = statistic
    BY <2>1, <2>2
  <2>4. FirstRow' = statistic
    BY <2>3 DEF FirstRow
  <2> QED
    BY <1>1, <1>2, <1>3, <1>4, <1>8, <2>3, <2>4, DecidedFinite DEF TrackerInv, CountsOK
<1> QED
  BY <1>5, <1>6, <1>7, <1>8 DEF TrackerInv, CountsOK

\* A crash forgets the round and keeps the tables.
LEMMA CrashKeeps == TrackerInv /\ Crash => TrackerInv'
<1> SUFFICES ASSUME TrackerInv, Crash PROVE TrackerInv'
  OBVIOUS
<1>1. /\ UNCHANGED <<status, stats>> /\ pc' = "first" /\ statistic' = Zero
      /\ relayTxs' = {} /\ todo' = {}
      /\ FirstRow' = FirstRow /\ DecidedTxs' = DecidedTxs
  BY DEF Crash, FirstRow, DecidedTxs
<1>2. RoundOK'
  BY <1>1 DEF RoundOK, TrackerInv
<1>3. rowFailed' \in BOOLEAN /\ (~rowFailed' => ~rowFailed)
  BY DEF Crash, Fault, TrackerInv, CountsOK
<1>4. Zero \in Statistic /\ Zero.id = 0 /\ Zero.total = 0
  BY RowTypes DEF TrackerInv, CountsOK
<1>5. CountsOK'
  BY <1>1, <1>3, <1>4, DecidedFinite DEF TrackerInv, CountsOK
<1> QED
  BY <1>2, <1>5 DEF TrackerInv

\* The other goroutines only add rows; age and receipts are not in the tables.
LEMMA OthersKeep ==
  ASSUME TrackerInv, NEW t \in Txs, SaveRelayTx(t) \/ Age(t) \/ Mine(t)
  PROVE  TrackerInv'
<1>1. /\ UNCHANGED <<pc, statistic, relayTxs, todo, tx, stats, rowFailed>>
      /\ FirstRow' = FirstRow
  BY DEF SaveRelayTx, Age, Mine, roundVars, faultVars, FirstRow
<1>2. \/ UNCHANGED status
      \/ status[t] = "none" /\ status' = [status EXCEPT ![t] = "Created"]
  BY DEF SaveRelayTx, Age, Mine
<1>3. status \in [Txs -> Statuses]
  BY DEF TrackerInv, RoundOK
<1>4. RoundOK'
  BY <1>1, <1>2, <1>3 DEF RoundOK, TrackerInv, Statuses
<1>5. DecidedTxs' = DecidedTxs
  BY <1>2, <1>3 DEF DecidedTxs
<1>6. CountsOK'
  BY <1>1, <1>5 DEF TrackerInv, CountsOK
<1> QED
  BY <1>4, <1>6 DEF TrackerInv

LEMMA TrackerNext == TrackerInv /\ [Next]_vars => TrackerInv'
<1> SUFFICES ASSUME TrackerInv, [Next]_vars PROVE TrackerInv'
  OBVIOUS
<1>1. CASE TrackerStep
  BY <1>1, ReadStatisticKeeps, FindKeeps, MissKeeps, TrackKeeps, WriteStatusKeeps,
     WriteStatisticKeeps DEF TrackerStep
<1>2. CASE Crash
  BY <1>2, CrashKeeps
<1>3. CASE \E t \in Txs : SaveRelayTx(t) \/ Age(t) \/ Mine(t)
  BY <1>3, OthersKeep
<1>4. CASE (\E i \in 0..(N - 1) : UpdateClients(i)) \/ UNCHANGED vars
  <2>1. UNCHANGED <<pc, roundVars, status, stats, faultVars>>
    BY <1>4 DEF UpdateClients, vars
  <2> QED
    BY <2>1 DEF roundVars, faultVars, TrackerInv, RoundOK, CountsOK, DecidedTxs, FirstRow
<1> QED
  BY <1>1, <1>2, <1>3, <1>4 DEF Next

-------------------------------------------------------------------------------

\* Whatever crashes and whichever reads and writes of the statistics fail, the
\* status page never shows more settled transactions than the table holds,
\* unless the write of a status failed.
THEOREM Undercounting == Spec => []NeverOvercounted
<1>1. TrackerInv => NeverOvercounted
  BY DEF TrackerInv, CountsOK, NeverOvercounted, StatusHandler, Decided, Having, DecidedTxs
<1> QED
  BY <1>1, InitTracker, TrackerNext, PTL DEF Spec

\* Transactions are given up only in batches above the threshold, for any
\* number of rounds, although the flag outlives the round that set it.
THEOREM GivingUp == Spec => GivenUpInBatches
<1>1. ASSUME TrackerInv, [Next]_vars, NEW t \in Txs, status[t] # "Missed", status'[t] = "Missed"
      PROVE  status[t] = "Created" /\ Cardinality(relayTxs) > UnconfirmedTxThreshold
  <2>1. status \in [Txs -> Statuses]
    BY <1>1 DEF TrackerInv, RoundOK
  <2>2. \A u \in Txs : SaveRelayTx(u) => status'[t] # "Missed"
    BY <1>1, <2>1 DEF SaveRelayTx
  <2>3. WriteStatus => status'[t] # "Missed"
    BY <1>1, <2>1 DEF WriteStatus
  <2>4. Miss
    BY <1>1, <2>2, <2>3 DEF Next, TrackerStep, ReadStatistic, Find, Track, WriteStatistic, Crash,
       Age, Mine, UpdateClients, vars
  <2>5. PICK u \in todo : status' = [status EXCEPT ![u] = "Missed"]
    BY <1>1, <2>4 DEF Miss
  <2>6. u = t
    BY <1>1, <2>1, <2>5
  <2> QED
    BY <1>1, <2>4, <2>6 DEF Miss, TrackerInv, RoundOK
<1>2. TrackerInv /\ [Next]_vars =>
        [\A t \in Txs : status[t] # "Missed" /\ status'[t] = "Missed" =>
           status[t] = "Created" /\ Cardinality(relayTxs) > UnconfirmedTxThreshold]_vars
  BY <1>1
<1> QED
  BY <1>2, InitTracker, TrackerNext, PTL DEF Spec, GivenUpInBatches
-------------------------------------------------------------------------------
(* The page is exact as long as nothing fails *)

SettledAs(state) == {t \in Txs : status[t] = state}
DecidedHeaders == {t \in HeaderTxs : status[t] \in {"Success", "Failed"}}

\* Counters that agree with the table.
Agrees(s) ==
  /\ s.success = Cardinality(SettledAs("Success"))
  /\ s.failed = Cardinality(SettledAs("Failed"))
  /\ s.total = Cardinality(DecidedTxs)
  /\ s.header = Cardinality(DecidedHeaders)

\* Without faults the row agrees until a round settles something, and the
\* round's copy throughout, but for the transaction whose status is written.
AgreeInv ==
  faults = 0 =>
    /\ pc \in {"first", "find", "miss"} => Agrees(FirstRow)
    /\ pc \notin {"first", "status"} => Agrees(statistic)
    /\ pc # "first" => statistic.id = IF stats = <<>> THEN 0 ELSE 1
    /\ pc = "status" =>
         /\ receipts[tx] # "none"
         /\ statistic.success = Cardinality(SettledAs("Success")) + (IF receipts[tx] = "ok" THEN 1 ELSE 0)
         /\ statistic.failed = Cardinality(SettledAs("Failed")) + (IF receipts[tx] = "ok" THEN 0 ELSE 1)
         /\ statistic.total = Cardinality(DecidedTxs) + 1
         /\ statistic.header = Cardinality(DecidedHeaders) + (IF tx \in HeaderTxs THEN 1 ELSE 0)
ExactInv ==
  /\ TrackerInv /\ AgreeInv
  /\ faults \in Nat /\ receipts \in [Txs -> {"none", "ok", "reverted"}]

LEMMA SettledFinite ==
  /\ \A state : IsFiniteSet(SettledAs(state)) /\ Cardinality(SettledAs(state)) \in Nat
  /\ IsFiniteSet(DecidedHeaders) /\ Cardinality(DecidedHeaders) \in Nat
<1>1. \A state : SettledAs(state) \subseteq Txs
  BY DEF SettledAs
<1>2. DecidedHeaders \subseteq Txs
  BY TrackerAssumption DEF DecidedHeaders
<1> QED
  BY <1>1, <1>2, TrackerAssumption, FS_Subset, FS_CardinalityType

\* What a step that leaves the table's decided rows alone keeps of the counts.
LEMMA SameDecided ==
  ASSUME \A t \in Txs : status'[t] = status[t] \/ {status'[t], status[t]} \cap {"Success", "Failed"} = {}
  PROVE  /\ \A state \in {"Success", "Failed"} : SettledAs(state)' = SettledAs(state)
         /\ DecidedTxs' = DecidedTxs /\ DecidedHeaders' = DecidedHeaders
         /\ \A s : Agrees(s)' <=> Agrees(s)
<1>1. ASSUME NEW state \in {"Success", "Failed"} PROVE SettledAs(state)' = SettledAs(state)
  BY <1>1 DEF SettledAs
<1>2. DecidedTxs' = DecidedTxs /\ DecidedHeaders' = DecidedHeaders
  BY TrackerAssumption DEF DecidedTxs, DecidedHeaders
<1> QED
  BY <1>1, <1>2 DEF Agrees

\* A step without a fault.
LEMMA NoFaultYet ==
  ASSUME faults \in Nat, faults' = 0, NoFault \/ \E k \in AllFaults : Fault(k)
  PROVE  faults = 0 /\ NoFault
BY DEF Fault, NoFault, faultVars

\* A settled transaction adds one to its counts, and to no other.
LEMMA SettledCounts ==
  ASSUME ExactInv, faults = 0, pc = "status",
         status' = [status EXCEPT ![tx] = IF receipts[tx] = "ok" THEN "Success" ELSE "Failed"],
         UNCHANGED statistic
  PROVE  Agrees(statistic)'
<1>1. tx \in Txs /\ status[tx] = "Created" /\ status \in [Txs -> Statuses]
  BY DEF ExactInv, TrackerInv, RoundOK
<1>2. /\ status'[tx] = IF receipts[tx] = "ok" THEN "Success" ELSE "Failed"
      /\ \A t \in Txs \ {tx} : status'[t] = status[t]
  BY <1>1
<1>3. DecidedTxs' = DecidedTxs \cup {tx} /\ tx \notin DecidedTxs
  BY <1>1, <1>2 DEF DecidedTxs
<1>4. Cardinality(DecidedTxs') = Cardinality(DecidedTxs) + 1
  BY <1>3, DecidedFinite, FS_AddElement
<1>5. receipts[tx] = "ok" =>
        /\ SettledAs("Success")' = SettledAs("Success") \cup {tx} /\ tx \notin SettledAs("Success")
        /\ SettledAs("Failed")' = SettledAs("Failed")
  BY <1>1, <1>2 DEF SettledAs
<1>6. receipts[tx] # "ok" =>
        /\ SettledAs("Failed")' = SettledAs("Failed") \cup {tx} /\ tx \notin SettledAs("Failed")
        /\ SettledAs("Success")' = SettledAs("Success")
  BY <1>1, <1>2 DEF SettledAs
<1>7. /\ Cardinality(SettledAs("Success")') =
           Cardinality(SettledAs("Success")) + (IF receipts[tx] = "ok" THEN 1 ELSE 0)
      /\ Cardinality(SettledAs("Failed")') =
           Cardinality(SettledAs("Failed")) + (IF receipts[tx] = "ok" THEN 0 ELSE 1)
  <2>1. CASE receipts[tx] = "ok"
    BY <1>5, <2>1, SettledFinite, FS_AddElement
  <2>2. CASE receipts[tx] # "ok"
    BY <1>6, <2>2, SettledFinite, FS_AddElement
  <2> QED
    BY <2>1, <2>2
<1>8. Cardinality(DecidedHeaders') =
        Cardinality(DecidedHeaders) + (IF tx \in HeaderTxs THEN 1 ELSE 0)
  <2>1. CASE tx \in HeaderTxs
    <3>1. DecidedHeaders' = DecidedHeaders \cup {tx} /\ tx \notin DecidedHeaders
      BY <1>1, <1>2, <2>1, TrackerAssumption DEF DecidedHeaders
    <3> QED
      BY <2>1, <3>1, SettledFinite, FS_AddElement
  <2>2. CASE tx \notin HeaderTxs
    <3>1. DecidedHeaders' = DecidedHeaders
      BY <1>1, <1>2, <2>2, TrackerAssumption DEF DecidedHeaders
    <3> QED
      BY <2>2, <3>1, SettledFinite
  <2> QED
    BY <2>1, <2>2
<1>9. /\ statistic.success = Cardinality(SettledAs("Success")) + (IF receipts[tx] = "ok" THEN 1 ELSE 0)
      /\ statistic.failed = Cardinality(SettledAs("Failed")) + (IF receipts[tx] = "ok" THEN 0 ELSE 1)
      /\ statistic.total = Cardinality(DecidedTxs) + 1
      /\ statistic.header = Cardinality(DecidedHeaders) + (IF tx \in HeaderTxs THEN 1 ELSE 0)
  BY DEF ExactInv, AgreeInv
<1> QED
  BY <1>4, <1>7, <1>8, <1>9 DEF Agrees

\* Counting a receipt, field by field.
LEMMA CountedFields ==
  ASSUME NEW s \in Statistic, NEW t
  PROVE  /\ Counted(s, t).id = s.id /\ Counted(s, t).total = s.total + 1
         /\ Counted(s, t).success = s.success + (IF receipts[t] = "ok" THEN 1 ELSE 0)
         /\ Counted(s, t).failed = s.failed + (IF receipts[t] = "ok" THEN 0 ELSE 1)
         /\ Counted(s, t).header = s.header + (IF t \in HeaderTxs THEN 1 ELSE 0)
<1> DEFINE T == s.total + 1
           S == s.success + (IF receipts[t] = "ok" THEN 1 ELSE 0)
           F == s.failed + (IF receipts[t] = "ok" THEN 0 ELSE 1)
           H == s.header + (IF t \in HeaderTxs THEN 1 ELSE 0)
           P == s.package + (IF t \in HeaderTxs THEN 0 ELSE 1)
<1>1. Counted(s, t) =
        [s EXCEPT !.total = T, !.success = S, !.failed = F, !.header = H, !.package = P]
  BY DEF Counted
<1> HIDE DEF T, S, F, H, P
<1>2. /\ Counted(s, t).id = s.id /\ Counted(s, t).total = T /\ Counted(s, t).success = S
      /\ Counted(s, t).failed = F /\ Counted(s, t).header = H
  BY <1>1 DEF Statistic
<1> QED
  BY <1>2 DEF T, S, F, H

\* The round's steps, one by one, while no fault has occurred.
LEMMA RoundAgrees ==
  ASSUME ExactInv, faults = 0, NoFault,
         ReadStatistic \/ Find \/ Miss \/ Track \/ WriteStatus \/ WriteStatistic
  PROVE  AgreeInv'
<1>0. ~(\E k : Fault(k)) /\ faults' = 0
  BY DEF Fault, NoFault, faultVars
<1>1. /\ stats \in Seq(Statistic) /\ statistic \in Statistic
      /\ stats # <<>> => stats[1].id = 1
      /\ status \in [Txs -> Statuses]
  BY DEF ExactInv, TrackerInv, CountsOK, RoundOK
<1>2. CASE ReadStatistic
  <2>1. statistic' = FirstRow /\ UNCHANGED <<status, stats>> /\ pc = "first" /\ pc' = "find"
    BY <1>0, <1>2 DEF ReadStatistic
  <2>2. FirstRow' = FirstRow /\ FirstRow.id = (IF stats = <<>> THEN 0 ELSE 1)
    BY <1>1, <2>1 DEF FirstRow, Zero
  <2>3. Agrees(FirstRow) /\ \A s : Agrees(s)' <=> Agrees(s)
    BY <2>1, SameDecided DEF ExactInv, AgreeInv
  <2> QED
    BY <2>1, <2>2, <2>3 DEF AgreeInv
<1>3. CASE Find
  <2>1. UNCHANGED <<status, stats, statistic>> /\ pc = "find" /\ pc' \in {"miss", "track"}
    BY <1>3 DEF Find
  <2>2. FirstRow' = FirstRow /\ \A s : Agrees(s)' <=> Agrees(s)
    BY <2>1, SameDecided DEF FirstRow
  <2> QED
    BY <2>1, <2>2 DEF ExactInv, AgreeInv
<1>4. CASE Miss
  <2>1. pc = "miss" /\ UNCHANGED stats /\ FirstRow' = FirstRow
    BY <1>4 DEF Miss, FirstRow
  <2>2. \A t \in Txs : status'[t] = status[t] \/ (status[t] = "Created" /\ status'[t] = "Missed")
    <3>1. todo \subseteq {t \in Txs : status[t] = "Created"}
      BY DEF ExactInv, TrackerInv, RoundOK
    <3>2. UNCHANGED status \/ \E t \in todo : status' = [status EXCEPT ![t] = "Missed"]
      BY <1>4 DEF Miss
    <3> QED
      BY <1>1, <3>1, <3>2
  <2>3. \A s : Agrees(s)' <=> Agrees(s)
    BY <2>2, SameDecided
  <2>4. pc' = "first" \/ (pc' = pc /\ statistic' = statistic)
    BY <1>4 DEF Miss
  <2> QED
    BY <2>1, <2>3, <2>4 DEF ExactInv, AgreeInv
<1>5. CASE Track
  <2>1. pc = "track" /\ UNCHANGED <<status, stats, receipts>> /\ FirstRow' = FirstRow
    BY <1>5 DEF Track, FirstRow
  <2>2. /\ \A s : Agrees(s)' <=> Agrees(s)
        /\ \A state \in {"Success", "Failed"} : SettledAs(state)' = SettledAs(state)
        /\ DecidedTxs' = DecidedTxs /\ DecidedHeaders' = DecidedHeaders
    BY <2>1, SameDecided
  <2>3. Agrees(statistic) /\ statistic.id = IF stats = <<>> THEN 0 ELSE 1
    BY <2>1 DEF ExactInv, AgreeInv
  <2>4. CASE pc' \in {"statistic", "track"} /\ UNCHANGED statistic
    BY <2>1, <2>2, <2>3, <2>4 DEF AgreeInv
  <2>5. ASSUME NEW t \in todo, HasReceipt(t), statistic' = Counted(statistic, t), tx' = t, pc' = "status"
        PROVE  AgreeInv'
    <3>1. receipts'[tx'] # "none" /\ receipts' = receipts
      BY <2>1, <2>5 DEF HasReceipt
    <3>2. /\ statistic'.id = statistic.id /\ statistic'.total = statistic.total + 1
          /\ statistic'.success = statistic.success + (IF receipts[t] = "ok" THEN 1 ELSE 0)
          /\ statistic'.failed = statistic.failed + (IF receipts[t] = "ok" THEN 0 ELSE 1)
          /\ statistic'.header = statistic.header + (IF t \in HeaderTxs THEN 1 ELSE 0)
      BY <1>1, <2>5, CountedFields
    <3> QED
      BY <2>1, <2>2, <2>3, <2>5, <3>1, <3>2 DEF AgreeInv, Agrees
  <2> QED
    BY <1>0, <1>5, <2>4, <2>5 DEF Track, Skip
<1>6. CASE WriteStatus
  <2>1. /\ status' = [status EXCEPT ![tx] = IF receipts[tx] = "ok" THEN "Success" ELSE "Failed"]
        /\ UNCHANGED <<statistic, stats>> /\ pc = "status" /\ pc' = "track"
    BY <1>0, <1>6 DEF WriteStatus
  <2>2. Agrees(statistic)'
    BY <2>1, SettledCounts
  <2> QED
    BY <2>1, <2>2 DEF ExactInv, AgreeInv
<1>7. CASE WriteStatistic
  <2>1. stats' = Stored /\ UNCHANGED status /\ pc = "statistic" /\ pc' = "first"
    BY <1>0, <1>7 DEF WriteStatistic
  <2>2. Agrees(statistic) /\ statistic.id = (IF stats = <<>> THEN 0 ELSE 1)
        /\ \A s : Agrees(s)' <=> Agrees(s)
    BY <2>1, SameDecided DEF ExactInv, AgreeInv
  <2>3. CASE stats = <<>>
    <3> DEFINE row == [statistic EXCEPT !.id = Len(stats) + 1]
    <3>1. stats' = Append(stats, row)
      BY <2>1, <2>2, <2>3 DEF Stored
    <3>2. /\ row.success = statistic.success /\ row.failed = statistic.failed
          /\ row.total = statistic.total /\ row.header = statistic.header
      BY <1>1 DEF Statistic
    <3> HIDE DEF row
    <3>3. FirstRow' = row
      BY <2>3, <3>1 DEF FirstRow
    <3> QED
      BY <2>1, <2>2, <3>2, <3>3 DEF AgreeInv, Agrees
  <2>4. CASE stats # <<>>
    <3>1. stats' = [stats EXCEPT ![1] = statistic]
      BY <2>1, <2>2, <2>4 DEF Stored
    <3>2. stats' # <<>> /\ stats'[1] = statistic
      BY <1>1, <2>4, <3>1
    <3>3. FirstRow' = statistic
      BY <3>2 DEF FirstRow
    <3> QED
      BY <2>1, <2>2, <3>3 DEF AgreeInv
  <2> QED
    BY <2>3, <2>4
<1> QED
  BY <1>2, <1>3, <1>4, <1>5, <1>6, <1>7

\* The others add rows that are not decided, and receipts that were missing.
LEMMA OthersAgree ==
  ASSUME ExactInv, faults = 0, NEW t \in Txs, SaveRelayTx(t) \/ Age(t) \/ Mine(t)
  PROVE  AgreeInv'
<1>1. /\ UNCHANGED <<pc, statistic, tx, stats, faults>> /\ FirstRow' = FirstRow
  BY DEF SaveRelayTx, Age, Mine, roundVars, faultVars, FirstRow
<1>2. status \in [Txs -> Statuses] /\ receipts \in [Txs -> {"none", "ok", "reverted"}]
      /\ (pc = "status" => tx \in Txs)
  BY DEF ExactInv, TrackerInv, RoundOK
<1>3. \A u \in Txs : status'[u] = status[u] \/ (status[u] = "none" /\ status'[u] = "Created")
  BY <1>2 DEF SaveRelayTx, Age, Mine
<1>4. /\ \A s : Agrees(s)' <=> Agrees(s)
      /\ \A state \in {"Success", "Failed"} : SettledAs(state)' = SettledAs(state)
      /\ DecidedTxs' = DecidedTxs /\ DecidedHeaders' = DecidedHeaders
  BY <1>3, SameDecided
<1>5. pc = "status" => receipts'[tx] = receipts[tx]
  BY <1>2 DEF SaveRelayTx, Age, Mine, ExactInv, AgreeInv
<1> QED
  BY <1>1, <1>4, <1>5 DEF ExactInv, AgreeInv

LEMMA ExactNext == ExactInv /\ [Next]_vars => ExactInv'
<1> SUFFICES ASSUME ExactInv, [Next]_vars PROVE ExactInv'
  OBVIOUS
<1>1. TrackerInv'
  BY TrackerNext DEF ExactInv
<1>2. NoFault \/ \E k \in AllFaults : Fault(k)
  BY DEF Next, TrackerStep, ReadStatistic, Find, Miss, Track, WriteStatus, WriteStatistic, Crash,
         SaveRelayTx, Age, Mine, UpdateClients, NoFault, AllFaults, vars
<1>3. faults' \in Nat
  BY <1>2 DEF ExactInv, Fault, NoFault, faultVars
<1>4. receipts' \in [Txs -> {"none", "ok", "reverted"}]
  BY DEF ExactInv, Next, TrackerStep, ReadStatistic, Find, Miss, Track, WriteStatus, WriteStatistic,
         Crash, SaveRelayTx, Age, Mine, UpdateClients, vars
<1>5. ASSUME faults' = 0 PROVE AgreeInv'
  <2>1. faults = 0 /\ NoFault
    BY <1>2, <1>5, NoFaultYet DEF ExactInv
  <2>2. ~Crash
    BY <2>1 DEF Crash, Fault, NoFault, faultVars
  <2>3. CASE (\E i \in 0..(N - 1) : UpdateClients(i)) \/ UNCHANGED vars
    <3>1. UNCHANGED <<pc, roundVars, status, stats, receipts, faultVars>>
      BY <2>3 DEF UpdateClients, vars
    <3>2. /\ \A s : Agrees(s)' <=> Agrees(s)
          /\ \A state \in {"Success", "Failed"} : SettledAs(state)' = SettledAs(state)
          /\ DecidedTxs' = DecidedTxs /\ DecidedHeaders' = DecidedHeaders /\ FirstRow' = FirstRow
      BY <3>1, SameDecided DEF FirstRow
    <3> QED
      BY <3>1, <3>2 DEF ExactInv, AgreeInv, roundVars, faultVars
  <2> QED
    BY <2>1, <2>2, <2>3, RoundAgrees, OthersAgree DEF Next, TrackerStep
<1> QED
  BY <1>1, <1>3, <1>4, <1>5 DEF ExactInv, AgreeInv

LEMMA InitExact == Init => ExactInv
<1> SUFFICES ASSUME Init PROVE ExactInv
  OBVIOUS
<1>1. TrackerInv
  BY InitTracker
<1>2. SettledAs("Success") = {} /\ SettledAs("Failed") = {} /\ DecidedTxs = {} /\ DecidedHeaders = {}
  BY TrackerAssumption DEF Init, SettledAs, DecidedTxs, DecidedHeaders
<1>3. FirstRow = Zero /\ Agrees(Zero)
  BY <1>2, FS_EmptySet DEF Init, FirstRow, Agrees, Zero
<1> QED
  BY <1>1, <1>3 DEF Init, ExactInv, AgreeInv

\* For any number of transactions and rounds: while nothing fails the status
\* page agrees with the table, count by count, after every round.
THEOREM Exactness == Spec => []CountsExact
<1>1. ExactInv => CountsExact
  <2> SUFFICES ASSUME ExactInv, faults = 0, pc = "first" PROVE CountsExact
    BY DEF CountsExact
  <2>1. Agrees(FirstRow)
    BY DEF ExactInv, AgreeInv
  <2>2. /\ Having({"Success"}) = Cardinality(SettledAs("Success"))
        /\ Having({"Failed"}) = Cardinality(SettledAs("Failed"))
        /\ Decided = Cardinality(DecidedTxs)
    BY DEF Having, SettledAs, Decided, DecidedTxs
  <2> QED
    BY <2>1, <2>2 DEF CountsExact, StatusHandler, Agrees, DecidedHeaders
<1> QED
  BY <1>1, InitExact, ExactNext, PTL DEF Spec
-------------------------------------------------------------------------------
(* Types *)

\* What the two invariants above leave of the types.
RestOK ==
  /\ pc \in {"first", "find", "miss", "track", "status", "statistic"}
  /\ todo \subseteq relayTxs /\ relayTxs \subseteq Txs
  /\ tx \in Txs \cup {"none"} /\ (pc = "status" => tx \in relayTxs \ todo)
  /\ leaveAloneHistoryTx \in BOOLEAN
  /\ old \subseteq Txs
  /\ clientIdx \in 0..(N - 1)

\* The next provider is one of the N.
LEMMA NextProvider == ASSUME clientIdx \in 0..(N - 1), SwitchBSCClient PROVE clientIdx' \in 0..(N - 1)
<1>1. N \in Nat \ {0} /\ clientIdx + 1 \in Nat
  BY TrackerAssumption
<1>2. \A m \in Nat : m % N \in 0..(N - 1)
  BY <1>1
<1> QED
  BY <1>1, <1>2 DEF SwitchBSCClient

\* A round ends with nothing left to do, so the list it read can go.
LEMMA RestNext == TrackerInv /\ RestOK /\ [Next]_vars => RestOK'
<1> SUFFICES ASSUME TrackerInv, RestOK, Next \/ UNCHANGED vars PROVE RestOK'
  OBVIOUS
<1>1. CASE ReadStatistic \/ WriteStatus \/ WriteStatistic
  <2>1. CASE ReadStatistic
    BY <2>1 DEF RestOK, ReadStatistic
  <2>2. CASE WriteStatus
    BY <2>2 DEF RestOK, WriteStatus
  <2>3. CASE WriteStatistic
    <3>1. todo = {} /\ todo' = {} /\ relayTxs' = {}
      BY <2>3 DEF WriteStatistic, TrackerInv, RoundOK
    <3> QED
      BY <2>3, <3>1 DEF RestOK, WriteStatistic
  <2> QED
    BY <1>1, <2>1, <2>2, <2>3
<1>2. CASE Find
  <2>1. relayTxs' \subseteq Txs /\ todo' = relayTxs'
    BY <1>2 DEF Find, Unconfirmed
  <2>2. PICK found : Overload(found)
    BY <1>2 DEF Find
  <2>3. clientIdx' \in 0..(N - 1) /\ leaveAloneHistoryTx' \in BOOLEAN
    BY <2>2, NextProvider DEF Overload, RestOK
  <2>4. pc' \in {"miss", "track"} /\ UNCHANGED <<tx, old>>
    BY <1>2 DEF Find
  <2> QED
    BY <2>1, <2>3, <2>4 DEF RestOK
<1>3. CASE Miss
  BY <1>3 DEF RestOK, Miss
<1>4. CASE Track
  BY <1>4 DEF RestOK, Track, Skip
<1>5. CASE Crash
  <2>1. 0 \in 0..(N - 1)
    BY TrackerAssumption
  <2> QED
    BY <1>5, <2>1 DEF RestOK, Crash
<1>6. CASE \E t \in Txs : SaveRelayTx(t) \/ Age(t) \/ Mine(t)
  BY <1>6 DEF RestOK, SaveRelayTx, Age, Mine, roundVars
<1>7. CASE (\E i \in 0..(N - 1) : UpdateClients(i)) \/ UNCHANGED vars
  BY <1>7 DEF RestOK, UpdateClients, roundVars, vars
<1> QED
  BY <1>1, <1>2, <1>3, <1>4, <1>5, <1>6, <1>7 DEF Next, TrackerStep

\* For any number of transactions, providers and faults, every variable of the
\* tracker keeps its type; the provider in use is one that exists.
THEOREM TrackerTypes == Spec => []TypeOK
<1>1. Init => RestOK
  <2>1. 0 \in 0..(N - 1)
    BY TrackerAssumption
  <2> QED
    BY <2>1 DEF Init, RestOK
<1>2. ExactInv /\ RestOK => TypeOK
  <2> SUFFICES ASSUME ExactInv, RestOK PROVE TypeOK
    OBVIOUS
  <2>1. /\ statistic \in Statistic /\ stats \in Seq(Statistic) /\ rowFailed \in BOOLEAN
        /\ statistic.id \in 0..1 /\ (statistic.id = 1 => stats # <<>>)
    BY DEF ExactInv, TrackerInv, CountsOK
  <2>2. statistic.id <= Len(stats)
    BY <2>1
  <2>3. status \in [Txs -> TxStatus \cup {"none"}]
    <3>1. Statuses = TxStatus \cup {"none"}
      BY DEF Statuses, TxStatus
    <3> QED
      BY <3>1 DEF ExactInv, TrackerInv, RoundOK
  <2> QED
    BY <2>1, <2>2, <2>3 DEF ExactInv, RestOK, TypeOK
<1>3. ExactInv /\ RestOK /\ [Next]_vars => RestOK'
  BY RestNext DEF ExactInv
<1> QED
  BY <1>1, <1>2, <1>3, InitExact, ExactNext, PTL DEF Spec
===============================================================================
