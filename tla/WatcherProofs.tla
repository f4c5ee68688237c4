------------------------------ MODULE WatcherProofs ------------------------------
(***************************************************************************)
(* Proofs about what reads the chains: the queries of the BBC executor,    *)
(* for any block and any width of a byte, and the event streams of the     *)
(* bindings, for any chain of logs, rules and capacities; with the         *)
(* double-sign monitor, the three as one system.                           *)
(***************************************************************************)
EXTENDS MCWatchers, DoubleSignProofs, SequenceTheorems, WellFoundedInduction, TLAPS

-------------------------------------------------------------------------------
(* Numbers and selections *)

\* A set of numbers that holds 0, and with a number the next one as far as n,
\* holds all up to n.
LEMMA NumbersUpTo ==
  ASSUME NEW n \in Nat, NEW S, 0 \in S, \A k \in 0..(n - 1) : k \in S => k + 1 \in S
  PROVE  \A k \in 0..n : k \in S
<1> DEFINE bad == {k \in 0..n : k \notin S}
           R == OpToRel(<, Nat)
<1> SUFFICES ASSUME bad # {} PROVE FALSE
  OBVIOUS
<1>1. bad \subseteq Nat /\ IsWellFoundedOn(R, Nat)
  BY NatLessThanWellFounded DEF OpToRel
<1>2. PICK k \in bad : \A j \in bad : <<j, k>> \notin R
  <2> HIDE DEF bad, R
  <2> QED
    BY <1>1, WFMin
<1>3. k \in 0..n /\ k # 0 /\ k \notin S
  OBVIOUS
<1>4. k - 1 \in 0..(n - 1) /\ k - 1 \in Nat /\ k \in Nat /\ k - 1 < k /\ (k - 1) + 1 = k
  BY <1>3
<1>5. k - 1 \notin bad
  BY <1>2, <1>4 DEF OpToRel
<1>6. k - 1 \in 0..n
  BY <1>4
<1> QED
  BY <1>3, <1>4, <1>5, <1>6

\* f is the function behind Selected, as far as n.
IsSelection(f, s, K, n) ==
  f = [k \in 0..n |-> IF k = 0 THEN <<>>
                      ELSE IF k \in K THEN Append(f[k - 1], s[k]) ELSE f[k - 1]]

LEMMA SelectionSteps ==
  ASSUME NEW s, NEW K, NEW n \in Nat, NEW f, IsSelection(f, s, K, n)
  PROVE  /\ f[0] = <<>>
         /\ \A k \in 1..n : f[k] = IF k \in K THEN Append(f[k - 1], s[k]) ELSE f[k - 1]
<1> DEFINE v(k) == IF k = 0 THEN <<>>
                   ELSE IF k \in K THEN Append(f[k - 1], s[k]) ELSE f[k - 1]
<1>1. f = [k \in 0..n |-> v(k)]
  BY DEF IsSelection
<1> HIDE DEF v
<1>2. \A k \in 0..n : f[k] = v(k)
  BY <1>1
<1>3. 0 \in 0..n /\ \A k \in 1..n : k \in 0..n /\ k # 0
  OBVIOUS
<1> QED
  BY <1>2, <1>3 DEF v

LEMMA SelectionExtends ==
  ASSUME NEW s, NEW K, NEW n \in Nat, NEW f, IsSelection(f, s, K, n)
  PROVE  \E g : IsSelection(g, s, K, n + 1)
<1> DEFINE x == IF n + 1 \in K THEN Append(f[n], s[n + 1]) ELSE f[n]
           g == [k \in 0..(n + 1) |-> IF k = n + 1 THEN x ELSE f[k]]
           v(k) == IF k = 0 THEN <<>>
                   ELSE IF k \in K THEN Append(g[k - 1], s[k]) ELSE g[k - 1]
<1>1. \A k \in 0..(n + 1) : g[k] = v(k)
  <2> SUFFICES ASSUME NEW k \in 0..(n + 1) PROVE g[k] = v(k)
    OBVIOUS
  <2>1. CASE k = n + 1
    <3>1. n \in 0..(n + 1) /\ n # n + 1 /\ k - 1 = n /\ k # 0
      BY <2>1
    <3>2. g[n] = f[n] /\ g[k] = x
      BY <2>1, <3>1
    <3> QED
      BY <2>1, <3>1, <3>2
  <2>2. CASE k # n + 1 /\ k # 0
    <3>1. k \in 1..n /\ k - 1 \in 0..(n + 1) /\ k - 1 # n + 1
      BY <2>2
    <3>2. g[k] = f[k] /\ g[k - 1] = f[k - 1]
      BY <2>2, <3>1
    <3>3. f[k] = IF k \in K THEN Append(f[k - 1], s[k]) ELSE f[k - 1]
      BY <3>1, SelectionSteps
    <3> QED
      BY <2>2, <3>2, <3>3
  <2>3. CASE k = 0
    <3>1. 0 # n + 1
      OBVIOUS
    <3> QED
      BY <2>3, <3>1, SelectionSteps
  <2> QED
    BY <2>1, <2>2, <2>3
<1>2. g = [k \in 0..(n + 1) |-> g[k]]
  OBVIOUS
<1> HIDE DEF g
<1>3. g = [k \in 0..(n + 1) |-> v(k)]
  <2> HIDE DEF v
  <2> QED
    BY <1>1, <1>2
<1> QED
  BY <1>3 DEF IsSelection

LEMMA SelectionExists ==
  ASSUME NEW s, NEW K, NEW n \in Nat
  PROVE  \E f : IsSelection(f, s, K, n)
<1> DEFINE S == {k \in 0..n : \E f : IsSelection(f, s, K, k)}
<1>1. 0 \in S
  <2> DEFINE f == [k \in 0..0 |-> <<>>]
  <2>1. 0..0 = {0} /\ 0 \in 0..n
    OBVIOUS
  <2>2. IsSelection(f, s, K, 0)
    BY <2>1 DEF IsSelection
  <2> QED
    BY <2>1, <2>2
<1>2. ASSUME NEW k \in 0..(n - 1), k \in S PROVE k + 1 \in S
  <2>1. k \in Nat /\ k + 1 \in 0..n
    OBVIOUS
  <2> QED
    BY <1>2, <2>1, SelectionExtends
<1>3. n \in S
  <2>1. n \in 0..n
    OBVIOUS
  <2> HIDE DEF S
  <2> QED
    BY <1>1, <1>2, <2>1, NumbersUpTo
<1> QED
  BY <1>3

\* The functions agree as far as both reach.
LEMMA SelectionUnique ==
  ASSUME NEW s, NEW K, NEW n \in Nat, NEW f, NEW g,
         IsSelection(f, s, K, n), IsSelection(g, s, K, n + 1)
  PROVE  g[n] = f[n]
<1> DEFINE S == {k \in 0..n : g[k] = f[k]}
<1>1. 0 \in S
  <2>1. 0 \in 0..n /\ n + 1 \in Nat
    OBVIOUS
  <2>2. ASSUME NEW h, NEW m \in Nat, IsSelection(h, s, K, m) PROVE h[0] = <<>>
    BY <2>2, SelectionSteps
  <2>3. f[0] = <<>> /\ g[0] = <<>>
    BY <2>1, <2>2, Zenon
  <2> QED
    BY <2>1, <2>3
<1>2. ASSUME NEW k \in 0..(n - 1), k \in S PROVE k + 1 \in S
  <2>1. k + 1 \in 1..n /\ k + 1 \in 1..(n + 1) /\ k + 1 \in 0..n /\ (k + 1) - 1 = k /\ n + 1 \in Nat
    OBVIOUS
  <2>2. f[k + 1] = IF k + 1 \in K THEN Append(f[k], s[k + 1]) ELSE f[k]
    BY <2>1, SelectionSteps
  <2>3. g[k + 1] = IF k + 1 \in K THEN Append(g[k], s[k + 1]) ELSE g[k]
    BY <2>1, SelectionSteps
  <2> QED
    BY <1>2, <2>1, <2>2, <2>3
<1>3. n \in S
  <2>1. n \in 0..n
    OBVIOUS
  <2> HIDE DEF S
  <2> QED
    BY <1>1, <1>2, <2>1, NumbersUpTo
<1> QED
  BY <1>3

LEMMA SelectedIs ==
  ASSUME NEW s, NEW K, NEW n \in Nat
  PROVE  \E f : IsSelection(f, s, K, n) /\ Selected(s, K, n) = f[n]
<1> DEFINE f == CHOOSE g : IsSelection(g, s, K, n)
<1>1. IsSelection(f, s, K, n)
  BY SelectionExists
<1>2. Selected(s, K, n) = f[n]
  BY DEF Selected, IsSelection
<1> QED
  BY <1>1, <1>2

\* The two equations that say what Selected is.
LEMMA SelectedNone ==
  ASSUME NEW s, NEW K PROVE Selected(s, K, 0) = <<>>
BY SelectedIs, SelectionSteps
LEMMA SelectedStep ==
  ASSUME NEW s, NEW K, NEW n \in Nat
  PROVE  Selected(s, K, n + 1) = IF n + 1 \in K THEN Append(Selected(s, K, n), s[n + 1])
                                 ELSE Selected(s, K, n)
<1>1. PICK f : IsSelection(f, s, K, n) /\ Selected(s, K, n) = f[n]
  BY SelectedIs
<1>2. n + 1 \in Nat /\ n + 1 \in 1..(n + 1) /\ (n + 1) - 1 = n
  OBVIOUS
<1>3. PICK g : IsSelection(g, s, K, n + 1) /\ Selected(s, K, n + 1) = g[n + 1]
  BY <1>2, SelectedIs
<1>4. g[n] = f[n]
  BY <1>1, <1>3, SelectionUnique
<1>5. g[n + 1] = IF n + 1 \in K THEN Append(g[n], s[n + 1]) ELSE g[n]
  BY <1>2, <1>3, SelectionSteps
<1> QED
  BY <1>1, <1>3, <1>4, <1>5

LEMMA SelectedType ==
  ASSUME NEW T, NEW s \in Seq(T), NEW K
  PROVE  Selected(s, K, Len(s)) \in Seq(T)
<1>1. Len(s) \in Nat
  BY LenProperties
<1> DEFINE n == Len(s)
           S == {k \in 0..n : Selected(s, K, k) \in Seq(T)}
<1>2. 0 \in S
  <2>1. 0 \in 0..n
    BY <1>1
  <2>2. Selected(s, K, 0) \in Seq(T)
    BY SelectedNone, EmptySeq
  <2> QED
    BY <2>1, <2>2
<1>3. ASSUME NEW k \in 0..(n - 1), k \in S PROVE k + 1 \in S
  <2>1. k + 1 \in 1..n /\ k + 1 \in 0..n /\ k \in Nat
    BY <1>1
  <2>2. s[k + 1] \in T /\ Selected(s, K, k) \in Seq(T)
    BY <1>3, <2>1, ElementOfSeq
  <2>3. Append(Selected(s, K, k), s[k + 1]) \in Seq(T)
    BY <2>2, AppendProperties
  <2>4. Selected(s, K, k + 1) \in Seq(T)
    BY <2>1, <2>2, <2>3, SelectedStep
  <2> QED
    BY <2>1, <2>4
<1>4. n \in S
  <2>1. n \in 0..n
    BY <1>1
  <2> HIDE DEF S
  <2> QED
    BY <1>1, <1>2, <1>3, <2>1, NumbersUpTo
<1> QED
  BY <1>4

-------------------------------------------------------------------------------
(* Types of the queries *)

\* A channel id that fits a task survives the conversion to a signed byte.
LEMMA ChannelKept ==
  ASSUME NEW n \in 0..MaxInt8
  PROVE  CrossChainChannelID(n) = n
<1> DEFINE half == Byte \div 2
<1>1. Byte \in Nat /\ Byte >= 4 /\ Byte % 2 = 0
  BY QueryAssumption
<1>2. half \in Nat /\ half + half = Byte
  BY <1>1
<1> HIDE DEF half
<1>3. MaxInt8 = half - 1
  BY DEF MaxInt8, half
<1>4. n \in Int /\ 0 <= n /\ n + half < Byte /\ n + half \in Nat
  BY <1>2, <1>3
<1>5. (n + half) % Byte = n + half
  BY <1>1, <1>2, <1>4
<1>6. n + MaxInt8 + 1 = n + half /\ MaxInt8 + 1 = half
  BY <1>2, <1>3, <1>4
<1> QED
  BY <1>2, <1>4, <1>5, <1>6 DEF CrossChainChannelID

\* The tasks an attribute can become.
Tasks ==
  {[ChannelID |-> c, Sequence |-> attributes[i].items[3]] : c \in 0..MaxInt8, i \in DOMAIN attributes}

\* What has to hold with QueryTypeOK for a step to keep it.
QueryTypeInv ==
  /\ attributes \in Seq(Attribute) /\ scanned \in 0..Len(attributes)
  /\ taskList \in Seq(Tasks) /\ Len(taskList) <= scanned
  /\ attributes \in Blocks /\ bc \in BCStates
  /\ consensusState \in ConsensusState \cup {NoState}

LEMMA QueryTypeInvGives ==
  ASSUME QueryTypeInv PROVE QueryTypeOK
<1>1. ASSUME NEW i \in DOMAIN taskList PROVE taskList[i].ChannelID \in 0..MaxInt8
  <2>1. taskList[i] \in Tasks
    BY <1>1, LenProperties, ElementOfSeq DEF QueryTypeInv
  <2> QED
    BY <2>1 DEF Tasks
<1> QED
  BY <1>1 DEF QueryTypeInv, QueryTypeOK

LEMMA QueryTypeInvInitially ==
  ASSUME QueryInit PROVE QueryTypeInv
<1>1. attributes \in Seq(Attribute)
  BY QueryAssumption DEF QueryInit
<1>2. 0 \in 0..Len(attributes)
  BY <1>1, LenProperties
<1>3. <<>> \in Seq(Tasks) /\ Len(<<>>) = 0
  BY EmptySeq
<1> QED
  BY <1>1, <1>2, <1>3 DEF QueryInit, QueryTypeInv

LEMMA QueryTypeInvKept ==
  ASSUME QueryTypeInv, [QueryNext]_queryVars PROVE QueryTypeInv'
<1>1. CASE ScanAttribute
  <2> DEFINE a == attributes[scanned + 1]
             task == [ChannelID |-> CrossChainChannelID(a.items[2]), Sequence |-> a.items[3]]
  <2>1. /\ scanned' = scanned + 1 /\ scanned < Len(attributes)
        /\ taskList' = IF IsTask(a) THEN Append(taskList, task) ELSE taskList
        /\ UNCHANGED <<attributes, bc, consensusState>>
    BY <1>1 DEF ScanAttribute, queryInputs
  <2>2. Len(attributes) \in Nat /\ scanned \in 0..Len(attributes) /\ Len(taskList) \in Nat
    BY LenProperties DEF QueryTypeInv
  <2>3. scanned' \in 0..Len(attributes) /\ scanned + 1 \in DOMAIN attributes
    BY <2>1, <2>2, LenProperties DEF QueryTypeInv
  <2>4. Tasks' = Tasks
    BY <2>1 DEF Tasks
  <2>5. taskList' \in Seq(Tasks) /\ Len(taskList') <= scanned'
    <3>1. CASE IsTask(a)
      <4>1. a.items[2] \in 0..MaxInt8
        BY <3>1 DEF IsTask
      <4>2. CrossChainChannelID(a.items[2]) \in 0..MaxInt8
        BY <4>1, ChannelKept
      <4>3. task \in Tasks
        BY <2>3, <4>2 DEF Tasks
      <4> HIDE DEF task
      <4>4. Append(taskList, task) \in Seq(Tasks) /\ Len(Append(taskList, task)) = Len(taskList) + 1
        BY <4>3, AppendProperties DEF QueryTypeInv
      <4>5. Len(taskList) <= scanned
        BY DEF QueryTypeInv
      <4> QED
        BY <2>1, <2>2, <3>1, <4>4, <4>5
    <3>2. CASE ~IsTask(a)
      <4>1. taskList' = taskList
        BY <2>1, <3>2
      <4> QED
        BY <2>1, <2>2, <4>1 DEF QueryTypeInv
    <3> QED
      BY <3>1, <3>2
  <2> QED
    BY <2>1, <2>3, <2>4, <2>5 DEF QueryTypeInv
<1>2. CASE GetInitConsensusState
  <2>1. /\ UNCHANGED <<attributes, bc, scanned, taskList>>
        /\ consensusState' = [ChainID |-> bc.Network, Height |-> Height, AppHash |-> bc.AppHash,
                              CurValidatorSetHash |-> bc.ValidatorsHash,
                              NextValidatorSet |-> bc.Validators[Height + 1]]
    BY <1>2 DEF GetInitConsensusState, queryInputs
  <2>2. bc \in BCState /\ Height \in Nat /\ Height + 1 \in Height..(Height + 1)
    BY QueryAssumption DEF QueryTypeInv
  <2>3. /\ bc.Network \in Seq(Nat) /\ bc.AppHash \in Seq(Nat) /\ bc.ValidatorsHash \in Seq(Nat)
        /\ bc.Validators[Height + 1] \in Seq(Validator)
    BY <2>2 DEF BCState
  <2>4. consensusState' \in ConsensusState
    BY <2>1, <2>2, <2>3, Zenon DEF ConsensusState
  <2> QED
    BY <2>1, <2>4 DEF QueryTypeInv, Tasks
<1>3. CASE UNCHANGED queryVars
  BY <1>3 DEF queryVars, QueryTypeInv, Tasks
<1> QED
  BY <1>1, <1>2, <1>3 DEF QueryNext

\* Every variable of a query has its type, for any block, any providers and any
\* width of a byte.
THEOREM QueryTypes == QuerySpec => []QueryTypeOK
<1>1. QueryInit => QueryTypeInv
  BY QueryTypeInvInitially
<1>2. QueryTypeInv /\ [QueryNext]_queryVars => QueryTypeInv'
  BY QueryTypeInvKept
<1>3. QueryTypeInv => QueryTypeOK
  BY QueryTypeInvGives
<1> QED
  BY <1>1, <1>2, <1>3, PTL DEF QuerySpec

-------------------------------------------------------------------------------
(* Numbers as bytes *)

LEMMA ByteFacts == Byte \in Nat /\ Byte >= 4 /\ Byte % 2 = 0
BY QueryAssumption

\* A number is its quotient and its last digit.
LEMMA Digits ==
  ASSUME NEW n \in Nat
  PROVE  /\ n \div Byte \in Nat /\ n % Byte \in 0..(Byte - 1)
         /\ (n \div Byte) * Byte + (n % Byte) = n
BY ByteFacts

IsShift(f, n, k) == f = [i \in 0..k |-> IF i = 0 THEN n ELSE f[i - 1] \div Byte]

LEMMA ShiftSteps ==
  ASSUME NEW n, NEW k \in Nat, NEW f, IsShift(f, n, k)
  PROVE  f[0] = n /\ \A i \in 1..k : f[i] = f[i - 1] \div Byte
<1> DEFINE v(i) == IF i = 0 THEN n ELSE f[i - 1] \div Byte
<1>1. f = [i \in 0..k |-> v(i)]
  BY DEF IsShift
<1> HIDE DEF v
<1>2. \A i \in 0..k : f[i] = v(i)
  BY <1>1
<1>3. 0 \in 0..k /\ \A i \in 1..k : i \in 0..k /\ i # 0
  OBVIOUS
<1> QED
  BY <1>2, <1>3 DEF v

LEMMA ShiftExtends ==
  ASSUME NEW n, NEW k \in Nat, NEW f, IsShift(f, n, k)
  PROVE  \E g : IsShift(g, n, k + 1)
<1> DEFINE x == f[k] \div Byte
           g == [i \in 0..(k + 1) |-> IF i = k + 1 THEN x ELSE f[i]]
           v(i) == IF i = 0 THEN n ELSE g[i - 1] \div Byte
<1>1. \A i \in 0..(k + 1) : g[i] = v(i)
  <2> SUFFICES ASSUME NEW i \in 0..(k + 1) PROVE g[i] = v(i)
    OBVIOUS
  <2>1. CASE i = k + 1
    <3>1. k \in 0..(k + 1) /\ k # k + 1 /\ i - 1 = k /\ i # 0
      BY <2>1
    <3>2. g[k] = f[k] /\ g[i] = x
      BY <2>1, <3>1
    <3> QED
      BY <2>1, <3>1, <3>2
  <2>2. CASE i # k + 1 /\ i # 0
    <3>1. i \in 1..k /\ i - 1 \in 0..(k + 1) /\ i - 1 # k + 1
      BY <2>2
    <3>2. g[i] = f[i] /\ g[i - 1] = f[i - 1]
      BY <2>2, <3>1
    <3>3. f[i] = f[i - 1] \div Byte
      BY <3>1, ShiftSteps
    <3> HIDE DEF g
    <3> QED
      BY <2>2, <3>2, <3>3
  <2>3. CASE i = 0
    <3>1. 0 # k + 1
      OBVIOUS
    <3> QED
      BY <2>3, <3>1, ShiftSteps
  <2> QED
    BY <2>1, <2>2, <2>3
<1>2. g = [i \in 0..(k + 1) |-> g[i]]
  OBVIOUS
<1> HIDE DEF g
<1>3. g = [i \in 0..(k + 1) |-> v(i)]
  <2> HIDE DEF v
  <2> QED
    BY <1>1, <1>2
<1> QED
  BY <1>3 DEF IsShift

LEMMA ShiftExists ==
  ASSUME NEW n, NEW k \in Nat
  PROVE  \E f : IsShift(f, n, k)
<1> DEFINE S == {i \in 0..k : \E f : IsShift(f, n, i)}
<1>1. 0 \in S
  <2> DEFINE f == [i \in 0..0 |-> n]
  <2>1. 0..0 = {0} /\ 0 \in 0..k
    OBVIOUS
  <2>2. IsShift(f, n, 0)
    BY <2>1 DEF IsShift
  <2> QED
    BY <2>1, <2>2
<1>2. ASSUME NEW i \in 0..(k - 1), i \in S PROVE i + 1 \in S
  <2>1. i \in Nat /\ i + 1 \in 0..k
    OBVIOUS
  <2> QED
    BY <1>2, <2>1, ShiftExtends
<1>3. k \in S
  <2>1. k \in 0..k
    OBVIOUS
  <2> HIDE DEF S
  <2> QED
    BY <1>1, <1>2, <2>1, NumbersUpTo
<1> QED
  BY <1>3

LEMMA ShiftUnique ==
  ASSUME NEW n, NEW k \in Nat, NEW f, NEW g, IsShift(f, n, k), IsShift(g, n, k + 1)
  PROVE  g[k] = f[k]
<1> DEFINE S == {i \in 0..k : g[i] = f[i]}
<1>1. 0 \in S
  <2>1. 0 \in 0..k /\ k + 1 \in Nat
    OBVIOUS
  <2>2. f[0] = n
    BY ShiftSteps
  <2>3. g[0] = n
    BY <2>1, ShiftSteps
  <2> QED
    BY <2>1, <2>2, <2>3
<1>2. ASSUME NEW i \in 0..(k - 1), i \in S PROVE i + 1 \in S
  <2>1. i + 1 \in 1..k /\ i + 1 \in 1..(k + 1) /\ i + 1 \in 0..k /\ (i + 1) - 1 = i /\ k + 1 \in Nat
    OBVIOUS
  <2>2. f[i + 1] = f[(i + 1) - 1] \div Byte
    <3>1. \A j \in 1..k : f[j] = f[j - 1] \div Byte
      BY ShiftSteps
    <3> QED
      BY <2>1, <3>1
  <2>3. g[i + 1] = g[(i + 1) - 1] \div Byte
    <3>1. \A j \in 1..(k + 1) : g[j] = g[j - 1] \div Byte
      BY <2>1, ShiftSteps
    <3> QED
      BY <2>1, <3>1
  <2> QED
    BY <1>2, <2>1, <2>2, <2>3
<1>3. k \in S
  <2>1. k \in 0..k
    OBVIOUS
  <2> HIDE DEF S
  <2> QED
    BY <1>1, <1>2, <2>1, NumbersUpTo
<1> QED
  BY <1>3

LEMMA ShiftedIs ==
  ASSUME NEW n, NEW k \in Nat
  PROVE  \E f : IsShift(f, n, k) /\ Shifted(n, k) = f[k]
<1> DEFINE f == CHOOSE g : IsShift(g, n, k)
<1>1. IsShift(f, n, k)
  BY ShiftExists
<1>2. Shifted(n, k) = f[k]
  BY DEF Shifted, IsShift
<1> QED
  BY <1>1, <1>2

\* The two equations that say what Shifted is.
LEMMA ShiftedNone ==
  ASSUME NEW n PROVE Shifted(n, 0) = n
BY ShiftedIs, ShiftSteps
LEMMA ShiftedStep ==
  ASSUME NEW n, NEW k \in Nat
  PROVE  Shifted(n, k + 1) = Shifted(n, k) \div Byte
<1>1. PICK f : IsShift(f, n, k) /\ Shifted(n, k) = f[k]
  BY ShiftedIs
<1>2. k + 1 \in Nat /\ k + 1 \in 1..(k + 1) /\ (k + 1) - 1 = k
  OBVIOUS
<1>3. PICK g : IsShift(g, n, k + 1) /\ Shifted(n, k + 1) = g[k + 1]
  BY <1>2, ShiftedIs
<1>4. g[k] = f[k]
  BY <1>1, <1>3, ShiftUnique
<1>5. g[k + 1] = g[k] \div Byte
  BY <1>2, <1>3, ShiftSteps
<1> QED
  BY <1>1, <1>3, <1>4, <1>5

LEMMA ShiftedType ==
  ASSUME NEW n \in Nat, NEW k \in Nat
  PROVE  Shifted(n, k) \in Nat
<1> DEFINE S == {i \in 0..k : Shifted(n, i) \in Nat}
<1>1. 0 \in S
  <2>1. 0 \in 0..k
    OBVIOUS
  <2> QED
    BY <2>1, ShiftedNone
<1>2. ASSUME NEW i \in 0..(k - 1), i \in S PROVE i + 1 \in S
  <2>1. i \in Nat /\ i + 1 \in 0..k
    OBVIOUS
  <2> QED
    BY <1>2, <2>1, ShiftedStep, Digits
<1>3. k \in S
  <2>1. k \in 0..k
    OBVIOUS
  <2> HIDE DEF S
  <2> QED
    BY <1>1, <1>2, <2>1, NumbersUpTo
<1> QED
  BY <1>3

\* A number that fits its bytes is read back from them.
LEMMA ValueOfBytes ==
  ASSUME NEW n \in Nat, NEW size \in Nat, Shifted(n, size) = 0
  PROVE  Value(BigEndian(n, size)) = n
<1> DEFINE d == BigEndian(n, size)
           IsValue(v) == v = [i \in 0..size |-> IF i = 0 THEN 0 ELSE v[i - 1] * Byte + d[i]]
           w == [i \in 0..size |-> Shifted(n, size - i)]
<1>1. Len(d) = size /\ \A i \in 1..size : d[i] = Shifted(n, size - i) % Byte
  BY DEF BigEndian
<1> HIDE DEF d
<1>2. ASSUME NEW i \in 1..size
      PROVE  Shifted(n, size - i) = Shifted(n, size - (i - 1)) * Byte + d[i]
  <2>1. size - i \in Nat /\ (size - i) + 1 = size - (i - 1)
    OBVIOUS
  <2>2. Shifted(n, size - (i - 1)) = Shifted(n, size - i) \div Byte
    BY <2>1, ShiftedStep
  <2>3. Shifted(n, size - i) \in Nat
    BY <2>1, ShiftedType
  <2> QED
    BY <1>1, <2>2, <2>3, Digits
<1>3. IsValue(w)
  <2>1. ASSUME NEW i \in 0..size PROVE w[i] = IF i = 0 THEN 0 ELSE w[i - 1] * Byte + d[i]
    <3>1. CASE i = 0
      <4>1. size - 0 = size
        OBVIOUS
      <4> QED
        BY <3>1, <4>1
    <3>2. CASE i # 0
      <4>1. i \in 1..size /\ i - 1 \in 0..size
        BY <3>2
      <4> QED
        BY <1>2, <3>2, <4>1
    <3> QED
      BY <3>1, <3>2
  <2>2. w = [i \in 0..size |-> w[i]]
    OBVIOUS
  <2> HIDE DEF w
  <2> QED
    BY <2>1, <2>2
<1> DEFINE v == CHOOSE u : IsValue(u)
<1>4. IsValue(v)
  BY <1>3
<1>5. Value(d) = v[size]
  BY <1>1 DEF Value
<1> HIDE DEF v
<1>6. v[0] = 0 /\ \A i \in 1..size : v[i] = v[i - 1] * Byte + d[i]
  <2> DEFINE t(i) == IF i = 0 THEN 0 ELSE v[i - 1] * Byte + d[i]
  <2>1. v = [i \in 0..size |-> t(i)]
    BY <1>4
  <2> HIDE DEF t
  <2>2. \A i \in 0..size : v[i] = t(i)
    BY <2>1
  <2>3. 0 \in 0..size /\ \A i \in 1..size : i \in 0..size /\ i # 0
    OBVIOUS
  <2> QED
    BY <2>2, <2>3 DEF t
<1> DEFINE S == {i \in 0..size : v[i] = Shifted(n, size - i)}
<1>7. 0 \in S
  <2>1. 0 \in 0..size /\ size - 0 = size
    OBVIOUS
  <2> QED
    BY <1>6, <2>1
<1>8. ASSUME NEW i \in 0..(size - 1), i \in S PROVE i + 1 \in S
  <2>1. i + 1 \in 1..size /\ i + 1 \in 0..size /\ (i + 1) - 1 = i
    OBVIOUS
  <2>2. v[i + 1] = v[i] * Byte + d[i + 1]
    BY <1>6, <2>1
  <2>3. Shifted(n, size - (i + 1)) = Shifted(n, size - i) * Byte + d[i + 1]
    BY <1>2, <2>1
  <2>4. v[i] = Shifted(n, size - i)
    BY <1>8
  <2> QED
    BY <2>1, <2>2, <2>3, <2>4
<1>9. size \in S
  <2>1. size \in 0..size
    OBVIOUS
  <2> HIDE DEF S
  <2> QED
    BY <1>7, <1>8, <2>1, NumbersUpTo
<1>10. v[size] = Shifted(n, 0)
  <2>1. size - size = 0
    OBVIOUS
  <2> QED
    BY <1>9, <2>1
<1> QED
  BY <1>5, <1>10, ShiftedNone DEF d

\* Numbers of two bytes fit two bytes.
LEMMA TwoBytes ==
  ASSUME NEW n \in 0..(Byte * Byte - 1)
  PROVE  Shifted(n, 2) = 0 /\ n \in Nat
<1> DEFINE q == n \div Byte
<1>1. n \in Nat /\ Byte \in Nat /\ Byte >= 4 /\ Byte * Byte \in Nat /\ n < Byte * Byte
  BY ByteFacts
<1>2. q \in Nat /\ n % Byte \in 0..(Byte - 1) /\ q * Byte + (n % Byte) = n
  BY <1>1, Digits
<1> HIDE DEF q
<1>3. q < Byte
  <2> SUFFICES ASSUME q >= Byte PROVE FALSE
    BY <1>1, <1>2
  <2>1. q * Byte >= Byte * Byte
    BY <1>1, <1>2
  <2> QED
    BY <1>1, <1>2, <2>1
<1>4. q \div Byte = 0
  BY <1>1, <1>2, <1>3
<1>5. Shifted(n, 0 + 1) = q
  BY <1>1, ShiftedNone, ShiftedStep DEF q
<1>6. Shifted(n, 1 + 1) = q \div Byte
  BY <1>5, ShiftedStep
<1> QED
  BY <1>1, <1>4, <1>6

-------------------------------------------------------------------------------
(* Requests *)

LEMMA Joined ==
  ASSUME NEW T, NEW s \in Seq(T), NEW t \in Seq(T)
  PROVE  /\ s \o t \in Seq(T) /\ Len(s \o t) = Len(s) + Len(t)
         /\ \A i \in 1..Len(s) : (s \o t)[i] = s[i]
         /\ \A i \in 1..Len(t) : (s \o t)[Len(s) + i] = t[i]
<1> DEFINE j == s \o t
<1>1. Len(s) \in Nat /\ Len(t) \in Nat
  BY LenProperties
<1>2. /\ j \in Seq(T) /\ Len(j) = Len(s) + Len(t)
      /\ \A i \in 1..(Len(s) + Len(t)) : j[i] = IF i <= Len(s) THEN s[i] ELSE t[i - Len(s)]
  BY ConcatProperties
<1> HIDE DEF j
<1>3. ASSUME NEW i \in 1..Len(s) PROVE j[i] = s[i]
  BY <1>1, <1>2
<1>4. ASSUME NEW i \in 1..Len(t) PROVE j[Len(s) + i] = t[i]
  <2>1. Len(s) + i \in 1..(Len(s) + Len(t)) /\ ~(Len(s) + i <= Len(s)) /\ (Len(s) + i) - Len(s) = i
    BY <1>1
  <2> QED
    BY <1>2, <2>1
<1>5. /\ j \in Seq(T) /\ Len(j) = Len(s) + Len(t)
      /\ \A i \in 1..Len(s) : j[i] = s[i]
      /\ \A i \in 1..Len(t) : j[Len(s) + i] = t[i]
  BY <1>2, <1>3, <1>4
<1> QED
  BY <1>5 DEF j

LEMMA Part ==
  ASSUME NEW T, NEW k \in Seq(T), NEW x \in Seq(T), NEW m \in Nat, NEW n \in Nat,
         n = m + Len(x), n <= Len(k), \A i \in 1..Len(x) : k[m + i] = x[i]
  PROVE  SubSeq(k, m + 1, n) = x
<1> DEFINE s == SubSeq(k, m + 1, n)
<1>1. Len(x) \in Nat /\ Len(k) \in Nat
  BY LenProperties
<1>2. ASSUME NEW i \in (m + 1)..n PROVE k[i] \in T
  <2>1. i \in 1..Len(k)
    BY <1>1
  <2> QED
    BY <2>1, ElementOfSeq
<1>3. m + 1 \in Int /\ n \in Int /\ n - (m + 1) + 1 = Len(x) /\ (m + 1 > n => Len(x) = 0)
  BY <1>1
<1>4. /\ s \in Seq(T) /\ Len(s) = IF m + 1 <= n THEN n - (m + 1) + 1 ELSE 0
      /\ \A i \in 1..(n - (m + 1) + 1) : s[i] = k[(m + 1) + i - 1]
  BY <1>2, <1>3, SubSeqProperties
<1> HIDE DEF s
<1>5. Len(s) = Len(x)
  BY <1>1, <1>3, <1>4
<1>6. ASSUME NEW i \in 1..Len(x) PROVE s[i] = x[i]
  <2>1. (m + 1) + i - 1 = m + i
    OBVIOUS
  <2> QED
    BY <1>3, <1>4, <2>1
<1>7. s = x
  BY <1>4, <1>5, <1>6, SeqEqual
<1> QED
  BY <1>7 DEF s

\* The parts of a key, whatever they hold.
Cut(s, m, n) == SubSeq(s, m, n)
Key(A, B, c, D) == <<0>> \o A \o B \o <<c>> \o D

LEMMA KeyParts ==
  ASSUME NEW A \in Seq(Int), NEW B \in Seq(Int), NEW c \in Int, NEW D \in Seq(Int),
         Len(A) = 2, Len(B) = 2, Len(D) = 8
  PROVE  /\ Len(Key(A, B, c, D)) = 14 /\ Key(A, B, c, D)[1] = 0 /\ Key(A, B, c, D)[6] = c
         /\ Cut(Key(A, B, c, D), 2, 3) = A /\ Cut(Key(A, B, c, D), 4, 5) = B
         /\ Cut(Key(A, B, c, D), 7, 14) = D
<1> DEFINE z == <<0>>
           o == <<c>>
           p == z \o A
           q == p \o B
           r == q \o o
           k == r \o D
<1>0. z \in Seq(Int) /\ Len(z) = 1 /\ z[1] = 0 /\ o \in Seq(Int) /\ Len(o) = 1 /\ o[1] = c
  OBVIOUS
<1>j. \A s, t \in Seq(Int) :
        /\ s \o t \in Seq(Int) /\ Len(s \o t) = Len(s) + Len(t)
        /\ \A i \in 1..Len(s) : (s \o t)[i] = s[i]
        /\ \A i \in 1..Len(t) : (s \o t)[Len(s) + i] = t[i]
  BY Joined
<1>p. \A u, x \in Seq(Int), m, n \in Nat :
        n = m + Len(x) /\ n <= Len(u) /\ (\A i \in 1..Len(x) : u[m + i] = x[i]) =>
          SubSeq(u, m + 1, n) = x
  BY Part
<1>k. Key(A, B, c, D) = k
  BY DEF Key
<1> HIDE DEF z, o
<1>1. /\ p \in Seq(Int) /\ Len(p) = Len(z) + Len(A)
      /\ \A i \in 1..Len(z) : p[i] = z[i]
      /\ \A i \in 1..Len(A) : p[Len(z) + i] = A[i]
  BY <1>0, <1>j, Zenon
<1>2. /\ Len(p) = 3 /\ p[1] = 0 /\ \A i \in 1..2 : p[1 + i] = A[i]
  <2> HIDE DEF p
  <2> QED
    BY <1>0, <1>1
<1>3. /\ q \in Seq(Int) /\ Len(q) = Len(p) + Len(B)
      /\ \A i \in 1..Len(p) : q[i] = p[i]
      /\ \A i \in 1..Len(B) : q[Len(p) + i] = B[i]
  <2> HIDE DEF p
  <2> QED
    BY <1>1, <1>j, Zenon
<1> HIDE DEF p
<1>4. Len(q) = 5 /\ (\A i \in 1..3 : q[i] = p[i]) /\ \A i \in 1..2 : q[3 + i] = B[i]
  <2> HIDE DEF q
  <2> QED
    BY <1>2, <1>3
<1>5. /\ r \in Seq(Int) /\ Len(r) = Len(q) + Len(o)
      /\ \A i \in 1..Len(q) : r[i] = q[i]
      /\ \A i \in 1..Len(o) : r[Len(q) + i] = o[i]
  <2> HIDE DEF q
  <2> QED
    BY <1>0, <1>3, <1>j, Zenon
<1> HIDE DEF q
<1>6. Len(r) = 6 /\ (\A i \in 1..5 : r[i] = q[i]) /\ r[6] = c
  <2> HIDE DEF r
  <2>1. 1 \in 1..Len(o) /\ Len(q) + 1 = 6
    BY <1>0, <1>4
  <2>2. r[Len(q) + 1] = o[1]
    BY <1>5, <2>1
  <2> QED
    BY <1>0, <1>4, <1>5, <2>1, <2>2
<1>7. /\ k \in Seq(Int) /\ Len(k) = Len(r) + Len(D)
      /\ \A i \in 1..Len(r) : k[i] = r[i]
      /\ \A i \in 1..Len(D) : k[Len(r) + i] = D[i]
  <2> HIDE DEF r
  <2> QED
    BY <1>5, <1>j, Zenon
<1> HIDE DEF r, k
<1>8. Len(k) = 14 /\ (\A i \in 1..6 : k[i] = r[i]) /\ \A i \in 1..8 : k[6 + i] = D[i]
  BY <1>6, <1>7
<1>9. k[1] = 0 /\ k[6] = c
  BY <1>2, <1>4, <1>6, <1>8
<1>10. \A i \in 1..2 : k[1 + i] = A[i]
  <2> SUFFICES ASSUME NEW i \in 1..2 PROVE k[1 + i] = A[i]
    OBVIOUS
  <2>1. 1 + i \in 1..3 /\ 1 + i \in 1..5 /\ 1 + i \in 1..6
    OBVIOUS
  <2>2. k[1 + i] = r[1 + i] /\ r[1 + i] = q[1 + i] /\ q[1 + i] = p[1 + i] /\ p[1 + i] = A[i]
    BY <1>2, <1>4, <1>6, <1>8, <2>1, Zenon
  <2> QED
    BY <2>2
<1>11. \A i \in 1..2 : k[3 + i] = B[i]
  <2> SUFFICES ASSUME NEW i \in 1..2 PROVE k[3 + i] = B[i]
    OBVIOUS
  <2>1. 3 + i \in 1..5 /\ 3 + i \in 1..6
    OBVIOUS
  <2>2. k[3 + i] = r[3 + i] /\ r[3 + i] = q[3 + i] /\ q[3 + i] = B[i]
    BY <1>4, <1>6, <1>8, <2>1, Zenon
  <2> QED
    BY <2>2
<1>12. SubSeq(k, 1 + 1, 3) = A
  <2>1. 3 = 1 + Len(A) /\ 3 <= Len(k) /\ \A i \in 1..Len(A) : k[1 + i] = A[i]
    BY <1>8, <1>10
  <2> QED
    BY <1>7, <2>1, Part
<1>13. SubSeq(k, 3 + 1, 5) = B
  <2>1. 5 = 3 + Len(B) /\ 5 <= Len(k) /\ \A i \in 1..Len(B) : k[3 + i] = B[i]
    BY <1>8, <1>11
  <2> QED
    BY <1>7, <2>1, Part
<1>14. SubSeq(k, 6 + 1, 14) = D
  <2>1. 14 = 6 + Len(D) /\ 14 <= Len(k) /\ 6 \in Nat /\ 14 \in Nat
    BY <1>8
  <2>2. \A i \in 1..Len(D) : k[6 + i] = D[i]
    BY <1>6, <1>7, Zenon
  <2> QED
    BY <1>7, <1>p, <2>1, <2>2, Zenon
<1>15. 1 + 1 = 2 /\ 3 + 1 = 4 /\ 6 + 1 = 7
  OBVIOUS
<1>16. Cut(k, 2, 3) = A /\ Cut(k, 4, 5) = B
  BY <1>12, <1>13, <1>15 DEF Cut
<1>17. Cut(k, 7, 14) = D
  BY <1>14, <1>15 DEF Cut
<1> QED
  BY <1>k, <1>8, <1>9, <1>16, <1>17, Zenon

LEMMA BytesType ==
  ASSUME NEW n \in Nat, NEW size \in Nat
  PROVE  BigEndian(n, size) \in Seq(Int) /\ Len(BigEndian(n, size)) = size
<1>1. ASSUME NEW i \in 1..size PROVE Shifted(n, size - i) % Byte \in Int
  <2>1. size - i \in Nat
    OBVIOUS
  <2>2. Shifted(n, size - i) \in Nat
    BY <2>1, ShiftedType
  <2> QED
    BY <2>2, Digits
<1> QED
  BY <1>1 DEF BigEndian

\* A package for this chain as Binance Chain writes it.
Written ==
  {a \in Attribute : /\ IsPackage(a) /\ a.items[2] \in 0..MaxInt8
                     /\ a.items[3] \in Nat /\ Shifted(a.items[3], 8) = 0}

LEMMA SmallBytes ==
  ASSUME NEW c \in 0..MaxInt8
  PROVE  c \in Nat /\ c < Byte /\ AsByte(c) = c
<1> DEFINE half == Byte \div 2
<1>1. Byte \in Nat /\ half \in Nat /\ half + half = Byte /\ Byte >= 4
  BY ByteFacts
<1>2. MaxInt8 = half - 1
  BY DEF MaxInt8
<1> HIDE DEF half
<1>3. c \in Nat /\ c < Byte
  BY <1>1, <1>2
<1>4. c % Byte = c
  BY <1>1, <1>3
<1> QED
  BY <1>3, <1>4 DEF AsByte

LEMMA KeyReads ==
  ASSUME NEW a, NEW A \in Seq(Int), NEW B \in Seq(Int), NEW c \in Int, NEW D \in Seq(Int),
         Len(A) = 2, Len(B) = 2, Len(D) = 8,
         Value(A) = SourceChainID, Value(B) = a.items[1], c = a.items[2], Value(D) = a.items[3]
  PROVE  Addresses(Key(A, B, c, D), a)
<1>1. /\ Len(Key(A, B, c, D)) = 14 /\ Key(A, B, c, D)[1] = 0 /\ Key(A, B, c, D)[6] = c
      /\ Cut(Key(A, B, c, D), 2, 3) = A /\ Cut(Key(A, B, c, D), 4, 5) = B
      /\ Cut(Key(A, B, c, D), 7, 14) = D
  BY KeyParts
<1> QED
  BY <1>1 DEF Addresses, Cut

LEMMA KeyAddresses ==
  ASSUME NEW a \in Written
  PROVE  Addresses(buildCrossChainPackageKey(a.items[2], a.items[3]), a)
<1> DEFINE A == BigEndian(SourceChainID, 2)
           B == BigEndian(DestChainID, 2)
           c == AsByte(a.items[2])
           D == BigEndian(a.items[3], 8)
           k == buildCrossChainPackageKey(a.items[2], a.items[3])
<1>1. /\ a.items[1] = DestChainID /\ a.items[2] \in 0..MaxInt8
      /\ a.items[3] \in Nat /\ Shifted(a.items[3], 8) = 0
  BY DEF Written, IsPackage
<1>2. SourceChainID \in 0..(Byte * Byte - 1) /\ DestChainID \in 0..(Byte * Byte - 1)
  BY QueryAssumption
<1>3. /\ SourceChainID \in Nat /\ Shifted(SourceChainID, 2) = 0
      /\ DestChainID \in Nat /\ Shifted(DestChainID, 2) = 0
  BY <1>2, TwoBytes
<1>4. A \in Seq(Int) /\ Len(A) = 2 /\ B \in Seq(Int) /\ Len(B) = 2 /\ D \in Seq(Int) /\ Len(D) = 8
  BY <1>1, <1>3, BytesType
<1>5. c = a.items[2] /\ c \in Int
  BY <1>1, SmallBytes
<1>6. k = Key(A, B, c, D)
  BY DEF buildCrossChainPackageKey, Key
<1>7. Value(A) = SourceChainID /\ Value(B) = DestChainID /\ Value(D) = a.items[3]
  BY <1>1, <1>3, ValueOfBytes
<1>8. DestChainID = a.items[1] /\ Len(D) = 8
  BY <1>1, <1>4
<1> HIDE DEF A, B, c, D
<1>9. Addresses(Key(A, B, c, D), a)
  BY <1>4, <1>5, <1>7, <1>8, KeyReads
<1> QED
  BY <1>6, <1>9

SequenceKey(B, c) == <<240>> \o B \o <<c>>

LEMMA SequenceKeyParts ==
  ASSUME NEW B \in Seq(Int), Len(B) = 2, NEW c \in Int
  PROVE  /\ Len(SequenceKey(B, c)) = 4 /\ SequenceKey(B, c)[1] = 240
         /\ Cut(SequenceKey(B, c), 2, 3) = B /\ SequenceKey(B, c)[4] = c
<1> DEFINE z == <<240>>
           o == <<c>>
           p == z \o B
           k == p \o o
<1>z. z \in Seq(Int) /\ Len(z) = 1 /\ z[1] = 240
  OBVIOUS
<1>o. o \in Seq(Int) /\ Len(o) = 1 /\ o[1] = c
  OBVIOUS
<1>k. SequenceKey(B, c) = k
  BY DEF SequenceKey
<1> HIDE DEF z, o
<1>p. /\ p \in Seq(Int) /\ Len(p) = Len(z) + Len(B)
      /\ \A i \in 1..(Len(z) + Len(B)) : p[i] = IF i <= Len(z) THEN z[i] ELSE B[i - Len(z)]
  <2>1. z \in Seq(Int)
    BY <1>z
  <2> QED
    BY <2>1, ConcatProperties
<1> HIDE DEF p
<1>q. /\ k \in Seq(Int) /\ Len(k) = Len(p) + Len(o)
      /\ \A i \in 1..(Len(p) + Len(o)) : k[i] = IF i <= Len(p) THEN p[i] ELSE o[i - Len(p)]
  <2>1. p \in Seq(Int)
    BY <1>p
  <2> QED
    BY <1>o, <2>1, ConcatProperties
<1> HIDE DEF k
<1>1. 1 \in 1..3 /\ 2 \in 1..3 /\ 3 \in 1..3 /\ 4 \in 1..4
  OBVIOUS
<1>2. Len(p) = 3 /\ Len(k) = 4
  BY <1>z, <1>o, <1>p, <1>q
<1>3. p[1] = 240 /\ p[2] = B[1] /\ p[3] = B[2]
  BY <1>z, <1>1, <1>p
<1>4. Len(k) = 4 /\ k[1] = 240 /\ k[2] = B[1] /\ k[3] = B[2] /\ k[4] = c
  BY <1>o, <1>1, <1>2, <1>3, <1>q
<1>5. \A i \in 1..2 : k[1 + i] = B[i]
  BY <1>4
<1>6. SubSeq(k, 1 + 1, 3) = B
  <2>1. 3 = 1 + Len(B) /\ 3 <= Len(k) /\ \A i \in 1..Len(B) : k[1 + i] = B[i]
    BY <1>4, <1>5
  <2> QED
    BY <1>q, <2>1, Part
<1> QED
  BY <1>4, <1>6, <1>k DEF Cut

\* The key of a channel's sequence reads back, negative signed ids included.
LEMMA SequenceKeys ==
  \A c \in 0..(Byte - 1) : AsksFor(buildChannelSequenceKey(CrossChainChannelID(c)), c)
<1> SUFFICES ASSUME NEW c \in 0..(Byte - 1)
             PROVE  AsksFor(buildChannelSequenceKey(CrossChainChannelID(c)), c)
  OBVIOUS
<1> DEFINE half == Byte \div 2
           n == CrossChainChannelID(c)
           d == BigEndian(DestChainID, 2)
<1>1. half \in Nat /\ half + half = Byte /\ MaxInt8 + 1 = half
  BY ByteFacts DEF MaxInt8
<1> HIDE DEF half
<1>2. n = ((c + half) % Byte) - half
  BY <1>1, ByteFacts DEF CrossChainChannelID, MaxInt8, half
<1>3. AsByte(n) = c
  <2> HIDE DEF n
  <2>1. CASE c < half
    <3>1. (c + half) % Byte = c + half
      BY <1>1, <2>1, ByteFacts
    <3>2. n = c
      BY <1>1, <1>2, <3>1
    <3> QED
      BY <3>2, ByteFacts DEF AsByte
  <2>2. CASE c >= half
    <3>1. (c + half) % Byte = c + half - Byte
      BY <1>1, <2>2, ByteFacts
    <3>2. n = c - Byte
      BY <1>1, <1>2, <3>1
    <3>3. (c - Byte) % Byte = c
      BY ByteFacts
    <3> QED
      BY <3>2, <3>3 DEF AsByte
  <2> QED
    BY <1>1, <2>1, <2>2
<1>4. DestChainID \in Nat /\ Shifted(DestChainID, 2) = 0
  BY QueryAssumption, TwoBytes
<1>5. d \in Seq(Int) /\ Len(d) = 2 /\ Value(d) = DestChainID
  BY <1>4, BytesType, ValueOfBytes
<1>6. buildChannelSequenceKey(n) = SequenceKey(d, c)
  BY <1>3 DEF buildChannelSequenceKey, SequenceKey
<1> HIDE DEF n, d
<1>7. c \in Int
  BY ByteFacts
<1>8. /\ Len(SequenceKey(d, c)) = 4 /\ SequenceKey(d, c)[1] = 240
      /\ SubSeq(SequenceKey(d, c), 2, 3) = d /\ SequenceKey(d, c)[4] = c
  BY <1>5, <1>7, SequenceKeyParts DEF Cut
<1>9. AsksFor(SequenceKey(d, c), c)
  BY <1>5, <1>8 DEF AsksFor
<1> QED
  BY <1>6, <1>9 DEF n

\* The attributes that become tasks are the packages for this chain.
LEMMA TasksArePackages ==
  ASSUME attributes \in Blocks, NEW i \in DOMAIN attributes
  PROVE  /\ IsTask(attributes[i]) <=> IsPackage(attributes[i])
         /\ IsPackage(attributes[i]) => attributes[i] \in Written
<1> DEFINE a == attributes[i]
<1>1. a \in Attribute
  <2>1. attributes \in Seq(Attribute)
    BY QueryAssumption
  <2> QED
    BY <2>1, LenProperties, ElementOfSeq
<1>2. WellFormed(a) =>
        /\ a.items[1] \in 0..(Byte * Byte - 1) /\ a.items[2] \in 0..(Byte - 1)
        /\ a.items[3] \in Nat /\ Shifted(a.items[3], 8) = 0
  BY BlocksAssumption
<1> HIDE DEF a
<1>3. ASSUME WellFormed(a) PROVE Uint16(a.items[1]) = a.items[1]
  <2>1. a.items[1] \in 0..(Byte * Byte - 1) /\ Byte * Byte \in Nat
    BY <1>2, <1>3, ByteFacts
  <2> QED
    BY <2>1 DEF Uint16
<1>4. ASSUME WellFormed(a)
      PROVE  (a.items[2] \in 0..MaxInt8 <=> a.items[2] <= MaxInt8) /\ a.items[3] >= 0
  <2>1. MaxInt8 \in Int
    BY ByteFacts DEF MaxInt8
  <2> QED
    BY <1>2, <1>4, <2>1, ByteFacts
<1>5. IsTask(a) <=> IsPackage(a)
  BY <1>3, <1>4 DEF IsTask, IsPackage
<1>6. IsPackage(a) => a \in Written
  BY <1>1, <1>2, <1>4 DEF IsPackage, Written
<1> QED
  BY <1>5, <1>6 DEF a

PackagesAt == {i \in DOMAIN attributes : IsPackage(attributes[i])}
\* The packages among the attributes scanned so far.
ScannedPackages == Selected(attributes, PackagesAt, scanned)
TaskOf(a) == [ChannelID |-> a.items[2], Sequence |-> a.items[3]]

\* The tasks so far are those of the packages scanned so far, in their order.
TasksInv ==
  /\ attributes \in Blocks
  /\ ScannedPackages \in Seq(Written) /\ Len(taskList) = Len(ScannedPackages)
  /\ \A i \in 1..Len(taskList) : taskList[i] = TaskOf(ScannedPackages[i])

LEMMA TasksInvGives ==
  ASSUME QueryTypeInv, TasksInv PROVE RequestsExact
<1> SUFFICES ASSUME scanned = Len(attributes)
             PROVE  /\ Len(Requests) = Len(Packages)
                    /\ \A i \in DOMAIN Packages : Addresses(Requests[i], Packages[i])
  BY SequenceKeys DEF RequestsExact
<1>1. Packages = ScannedPackages
  BY DEF Packages, ScannedPackages, PackagesAt
<1>2. /\ Packages \in Seq(Written) /\ Len(taskList) = Len(Packages)
      /\ \A i \in 1..Len(taskList) : taskList[i] = TaskOf(Packages[i])
  BY <1>1 DEF TasksInv
<1> HIDE DEF Packages
<1>3. DOMAIN taskList = 1..Len(taskList) /\ DOMAIN Packages = 1..Len(Packages) /\ Len(taskList) \in Nat
  BY <1>2, LenProperties DEF QueryTypeInv
<1>4. Len(Requests) = Len(taskList)
  BY <1>3 DEF Requests
<1>5. ASSUME NEW i \in DOMAIN Packages PROVE Addresses(Requests[i], Packages[i])
  <2>1. i \in 1..Len(taskList) /\ Packages[i] \in Written
    BY <1>2, <1>3, ElementOfSeq
  <2>2. taskList[i].ChannelID = Packages[i].items[2] /\ taskList[i].Sequence = Packages[i].items[3]
    <3>1. taskList[i] = TaskOf(Packages[i])
      BY <1>2, <2>1
    <3> QED
      BY <3>1 DEF TaskOf
  <2>3. Requests[i] = buildCrossChainPackageKey(Packages[i].items[2], Packages[i].items[3])
    BY <1>3, <2>1, <2>2 DEF Requests
  <2> QED
    BY <2>1, <2>3, KeyAddresses
<1> QED
  BY <1>2, <1>4, <1>5

LEMMA TasksInvInitially ==
  ASSUME QueryInit PROVE TasksInv
<1>1. ScannedPackages = <<>>
  BY SelectedNone DEF QueryInit, ScannedPackages
<1>2. <<>> \in Seq(Written) /\ Len(<<>>) = 0
  BY EmptySeq
<1>3. 1..0 = {}
  OBVIOUS
<1> QED
  BY <1>1, <1>2, <1>3 DEF QueryInit, TasksInv

LEMMA TasksInvKept ==
  ASSUME QueryTypeInv, TasksInv, [QueryNext]_queryVars PROVE TasksInv'
<1>1. ASSUME UNCHANGED <<attributes, scanned, taskList>>
      PROVE  TasksInv'
  <2>1. ScannedPackages' = ScannedPackages
    BY <1>1 DEF ScannedPackages, PackagesAt
  <2> QED
    BY <1>1, <2>1 DEF TasksInv
<1>2. CASE ScanAttribute
  <2> DEFINE a == attributes[scanned + 1]
  <2>1. /\ scanned < Len(attributes) /\ scanned' = scanned + 1
        /\ taskList' = IF IsTask(a)
                       THEN Append(taskList, [ChannelID |-> CrossChainChannelID(a.items[2]),
                                              Sequence |-> a.items[3]])
                       ELSE taskList
        /\ attributes' = attributes
    BY <1>2 DEF ScanAttribute, queryInputs
  <2>2. scanned \in Nat /\ Len(attributes) \in Nat /\ scanned + 1 \in DOMAIN attributes
    BY <2>1, LenProperties DEF QueryTypeInv
  <2>3. /\ IsTask(a) <=> IsPackage(a)
        /\ IsPackage(a) => a \in Written
    BY <2>2, TasksArePackages DEF TasksInv
  <2>4. scanned + 1 \in PackagesAt <=> IsPackage(a)
    BY <2>2 DEF PackagesAt
  <2>5. ScannedPackages' = IF IsPackage(a) THEN Append(ScannedPackages, a) ELSE ScannedPackages
    <3>1. ScannedPackages' = Selected(attributes, PackagesAt, scanned + 1)
      BY <2>1 DEF ScannedPackages, PackagesAt
    <3> QED
      BY <2>2, <2>4, <3>1, SelectedStep DEF ScannedPackages
  <2>6. CASE IsPackage(a)
    <3>1. a.items[2] \in 0..MaxInt8
      BY <2>3, <2>6 DEF Written
    <3>2. CrossChainChannelID(a.items[2]) = a.items[2]
      BY <3>1, ChannelKept
    <3>3. taskList' = Append(taskList, TaskOf(a))
      BY <2>1, <2>3, <2>6, <3>2 DEF TaskOf
    <3>4. ScannedPackages' = Append(ScannedPackages, a)
      BY <2>5, <2>6
    <3> DEFINE P == ScannedPackages
               n == Len(P)
               T == Tasks \cup {TaskOf(a)}
    <3> HIDE DEF a
    <3>5. P \in Seq(Written) /\ n \in Nat /\ a \in Written
      BY <2>3, <2>6, LenProperties DEF TasksInv
    <3>6. taskList \in Seq(T) /\ Len(taskList) = n /\ \A i \in 1..n : taskList[i] = TaskOf(P[i])
      <4>1. taskList \in Seq(Tasks) /\ Tasks \subseteq T
        BY DEF QueryTypeInv
      <4>2. taskList \in Seq(T)
        <5> HIDE DEF T
        <5> QED
          BY <4>1
      <4> QED
        BY <4>2 DEF TasksInv
    <3> HIDE DEF P, n
    <3>7. /\ Append(P, a) \in Seq(Written) /\ Len(Append(P, a)) = n + 1
          /\ (\A i \in 1..n : Append(P, a)[i] = P[i]) /\ Append(P, a)[n + 1] = a
      BY <3>5, AppendProperties DEF n
    <3>8. TaskOf(a) \in T
      OBVIOUS
    <3> HIDE DEF T
    <3>9. /\ Len(Append(taskList, TaskOf(a))) = n + 1
          /\ \A i \in 1..n : Append(taskList, TaskOf(a))[i] = taskList[i]
          /\ Append(taskList, TaskOf(a))[n + 1] = TaskOf(a)
      BY <3>6, <3>8, AppendProperties
    <3>10. \A i \in 1..(n + 1) : i \in 1..n \/ i = n + 1
      BY <3>5
    <3>11. \A i \in 1..(n + 1) : taskList'[i] = TaskOf(ScannedPackages'[i])
      BY <3>3, <3>4, <3>6, <3>7, <3>9, <3>10 DEF P
    <3>12. ScannedPackages' \in Seq(Written) /\ Len(taskList') = n + 1 /\ Len(ScannedPackages') = n + 1
      BY <3>3, <3>4, <3>7, <3>9 DEF P
    <3> QED
      BY <2>1, <3>11, <3>12 DEF TasksInv, TaskOf
  <2>7. CASE ~IsPackage(a)
    <3>1. taskList' = taskList /\ ScannedPackages' = ScannedPackages
      BY <2>1, <2>3, <2>5, <2>7
    <3> QED
      BY <2>1, <3>1 DEF TasksInv, TaskOf
  <2> QED
    BY <2>6, <2>7
<1>3. CASE GetInitConsensusState \/ UNCHANGED queryVars
  BY <1>1, <1>3 DEF GetInitConsensusState, queryVars, queryInputs
<1> QED
  BY <1>2, <1>3 DEF QueryNext

\* Whatever a block holds and however wide a byte is, exactly its packages for
\* this chain become requests, in their order, and each key reads back as its
\* package: its chains, its channel and its sequence.
THEOREM RequestsRight == QuerySpec => []RequestsExact
<1>1. QueryInit => QueryTypeInv /\ TasksInv
  BY QueryTypeInvInitially, TasksInvInitially
<1>2. (QueryTypeInv /\ TasksInv) /\ [QueryNext]_queryVars => (QueryTypeInv /\ TasksInv)'
  BY QueryTypeInvKept, TasksInvKept
<1>3. (QueryTypeInv /\ TasksInv) => RequestsExact
  BY TasksInvGives
<1> QED
  BY <1>1, <1>2, <1>3, PTL DEF QuerySpec

-------------------------------------------------------------------------------
(* The matching logs *)

LEMMA MatchingStays ==
  ASSUME UNCHANGED inputVars
  PROVE  Matching' = Matching
<1>1. query' = query /\ chain' = chain
  BY DEF inputVars
<1> QED
  BY <1>1 DEF Matching, Matches

LEMMA MatchingType ==
  ASSUME NEW T, chain \in Seq(T)
  PROVE  Matching \in Seq(T)
BY SelectedType DEF Matching

-------------------------------------------------------------------------------
(* A part of a sequence *)

\* s is what m holds after its first n elements, or the beginning of it.
Follows(s, m, n) ==
  /\ n + Len(s) <= Len(m)
  /\ \A i \in 1..Len(s) : s[i] = m[n + i]

LEMMA FollowsNone ==
  ASSUME NEW m, NEW n \in Nat, Len(m) \in Nat, n <= Len(m)
  PROVE  Follows(<<>>, m, n)
<1>1. Len(<<>>) = 0
  BY EmptySeq
<1> QED
  BY <1>1 DEF Follows

LEMMA FollowsAppend ==
  ASSUME NEW T, NEW s \in Seq(T), NEW m \in Seq(T), NEW n \in Nat,
         Follows(s, m, n), n + Len(s) + 1 <= Len(m)
  PROVE  /\ Append(s, m[n + Len(s) + 1]) \in Seq(T)
         /\ Len(Append(s, m[n + Len(s) + 1])) = Len(s) + 1
         /\ Follows(Append(s, m[n + Len(s) + 1]), m, n)
<1> DEFINE x == m[n + Len(s) + 1]
           a == Append(s, x)
<1>1. Len(s) \in Nat /\ Len(m) \in Nat /\ n + Len(s) + 1 \in 1..Len(m)
  BY LenProperties
<1>2. x \in T
  BY <1>1, ElementOfSeq
<1> HIDE DEF x
<1>3. /\ a \in Seq(T) /\ Len(a) = Len(s) + 1
      /\ \A i \in 1..Len(s) : a[i] = s[i] /\ a[Len(s) + 1] = x
  BY <1>2, AppendProperties
<1>4. a[Len(s) + 1] = x
  BY <1>2, AppendProperties
<1> HIDE DEF a
<1>5. ASSUME NEW i \in 1..Len(a) PROVE a[i] = m[n + i]
  <2>1. CASE i = Len(s) + 1
    <3>1. n + i = n + Len(s) + 1
      BY <1>1, <2>1
    <3> QED
      BY <1>4, <2>1, <3>1 DEF x
  <2>2. CASE i # Len(s) + 1
    <3>1. i \in 1..Len(s)
      BY <1>1, <1>3, <2>2
    <3> QED
      BY <1>3, <3>1 DEF Follows
  <2> QED
    BY <2>1, <2>2
<1>6. Follows(a, m, n)
  BY <1>1, <1>3, <1>5 DEF Follows
<1> QED
  BY <1>3, <1>6 DEF a, x

LEMMA FollowsTail ==
  ASSUME NEW T, NEW s \in Seq(T), NEW m \in Seq(T), NEW n \in Nat,
         Follows(s, m, n), s # <<>>
  PROVE  /\ Head(s) \in T /\ Head(s) = m[n + 1] /\ n + 1 <= Len(m)
         /\ Tail(s) \in Seq(T) /\ Len(Tail(s)) = Len(s) - 1 /\ Len(s) >= 1
         /\ Follows(Tail(s), m, n + 1)
<1>1. Len(s) \in Nat /\ Len(m) \in Nat /\ Len(s) >= 1
  BY LenProperties, EmptySeq
<1>2. Head(s) = s[1] /\ s[1] \in T
  BY <1>1, HeadTailProperties, ElementOfSeq
<1>3. /\ Tail(s) \in Seq(T) /\ Len(Tail(s)) = Len(s) - 1
      /\ \A i \in 1..Len(Tail(s)) : Tail(s)[i] = s[i + 1]
  BY HeadTailProperties
<1>4. ASSUME NEW i \in 1..Len(Tail(s)) PROVE Tail(s)[i] = m[(n + 1) + i]
  <2>1. i + 1 \in 1..Len(s) /\ n + (i + 1) = (n + 1) + i
    BY <1>1, <1>3
  <2>2. s[i + 1] = m[n + (i + 1)]
    BY <2>1 DEF Follows
  <2> QED
    BY <1>3, <2>1, <2>2
<1>5. s[1] = m[n + 1] /\ n + 1 <= Len(m)
  BY <1>1 DEF Follows
<1>6. (n + 1) + Len(Tail(s)) <= Len(m)
  BY <1>1, <1>3 DEF Follows
<1>7. Follows(Tail(s), m, n + 1)
  BY <1>4, <1>6 DEF Follows
<1> QED
  BY <1>1, <1>2, <1>3, <1>5, <1>7

\* What follows from the start is a prefix, and all of it when it is as long.
LEMMA FollowsPrefix ==
  ASSUME NEW T, NEW s \in Seq(T), NEW m \in Seq(T), Follows(s, m, 0)
  PROVE  IsPrefix(s, m) /\ (Len(s) = Len(m) => s = m)
<1>1. Len(s) \in Nat /\ Len(m) \in Nat /\ Len(s) <= Len(m)
  BY LenProperties DEF Follows
<1>2. \A i \in 1..Len(s) : s[i] = m[i]
  BY <1>1 DEF Follows
<1>3. SubSeq(s, 1, Len(s)) = SubSeq(m, 1, Len(s))
  BY <1>1, <1>2
<1>4. Len(s) = Len(m) => s = m
  BY <1>2, SeqEqual
<1> QED
  BY <1>1, <1>3, <1>4 DEF IsPrefix

-------------------------------------------------------------------------------
(* The steps of a stream *)

Rules(e) == [1..Len(e.indexed) -> Rule]
\* What goes on once the call has been made: the same for every event.
StreamStep ==
  \/ Offer \/ Exhausted \/ Breaks
  \/ NextLog \/ NextEnds \/ NextDone \/ Close
  \/ WatchLog \/ WatchForward \/ WatchEnds \/ PumpReturned
  \/ UserReads \/ Unsubscribe

\* As many rules as the event has indexed arguments.
LEMMA RulesOf ==
  /\ \A e \in {AddChannel, CrossChainPackage, UnsupportedPackage} :
       e \in Events /\ \A a, b \in Rule : <<a, b>> \in Rules(e)
  /\ \A e \in {UnexpectedFailureAssertionInPackageHandler, UnexpectedRevertInPackageHandler} :
       e \in Events /\ \A a \in Rule : <<a>> \in Rules(e)
  /\ \A e \in {CrosschainParamChange, InitConsensusState, SyncConsensusState,
               RelayerhubParamChange, RelayerRegister, RelayerUnRegister,
               DistributeCollectedReward, RelayerincentivizeParamChange, RewardToRelayer} :
       e \in Events /\ <<>> \in Rules(e)
<1>1. \A e \in {AddChannel, CrossChainPackage, UnsupportedPackage} : Len(e.indexed) = 2
  BY DEF AddChannel, CrossChainPackage, UnsupportedPackage, Event
<1>2. \A e \in {UnexpectedFailureAssertionInPackageHandler, UnexpectedRevertInPackageHandler} :
        Len(e.indexed) = 1
  BY DEF UnexpectedFailureAssertionInPackageHandler, UnexpectedRevertInPackageHandler, Event
<1>3. \A e \in {CrosschainParamChange, InitConsensusState, SyncConsensusState,
               RelayerhubParamChange, RelayerRegister, RelayerUnRegister,
               DistributeCollectedReward, RelayerincentivizeParamChange, RewardToRelayer} :
        Len(e.indexed) = 0
  BY DEF CrosschainParamChange, InitConsensusState, SyncConsensusState, RelayerhubParamChange,
         RelayerRegister, RelayerUnRegister, DistributeCollectedReward,
         RelayerincentivizeParamChange, RewardToRelayer, Event
<1>4. /\ \A a, b \in Rule : <<a, b>> \in [1..2 -> Rule]
      /\ \A a \in Rule : <<a>> \in [1..1 -> Rule]
      /\ <<>> \in [1..0 -> Rule]
  OBVIOUS
<1> QED
  BY <1>1, <1>2, <1>3, <1>4 DEF Rules, Events

LEMMA FilterSteps ==
  ASSUME FilterStep
  PROVE  \E e \in Events : \E rules \in Rules(e) : FilterLogs(e, rules)
<1>1. CASE FilterAddChannel \/ FilterCrossChainPackage \/ FilterUnsupportedPackage
  BY <1>1, RulesOf DEF FilterAddChannel, FilterCrossChainPackage, FilterUnsupportedPackage
<1>2. CASE FilterUnexpectedFailureAssertionInPackageHandler \/
           FilterUnexpectedRevertInPackageHandler
  BY <1>2, RulesOf DEF FilterUnexpectedFailureAssertionInPackageHandler,
         FilterUnexpectedRevertInPackageHandler
<1>3. CASE FilterCrosschainParamChange \/ FilterInitConsensusState \/
           FilterSyncConsensusState \/ FilterRelayerhubParamChange \/
           FilterRelayerRegister \/ FilterRelayerUnRegister \/
           FilterDistributeCollectedReward \/ FilterRelayerincentivizeParamChange \/
           FilterRewardToRelayer
  BY <1>3, RulesOf DEF FilterCrosschainParamChange, FilterInitConsensusState,
         FilterSyncConsensusState, FilterRelayerhubParamChange, FilterRelayerRegister,
         FilterRelayerUnRegister, FilterDistributeCollectedReward,
         FilterRelayerincentivizeParamChange, FilterRewardToRelayer
<1> QED
  BY <1>1, <1>2, <1>3 DEF FilterStep

LEMMA WatchSteps ==
  ASSUME WatchStep
  PROVE  \/ \E e \in Events : \E rules \in Rules(e) : WatchLogs(e, rules)
         \/ PumpStep
<1>1. CASE WatchAddChannel \/ WatchCrossChainPackage \/ WatchUnsupportedPackage
  BY <1>1, RulesOf DEF WatchAddChannel, WatchCrossChainPackage, WatchUnsupportedPackage,
         Goroutine
<1>2. CASE WatchUnexpectedFailureAssertionInPackageHandler \/
           WatchUnexpectedRevertInPackageHandler
  BY <1>2, RulesOf DEF WatchUnexpectedFailureAssertionInPackageHandler,
         WatchUnexpectedRevertInPackageHandler, Goroutine
<1>3. CASE WatchCrosschainParamChange \/ WatchInitConsensusState \/
           WatchSyncConsensusState \/ WatchRelayerhubParamChange \/ WatchRelayerRegister \/
           WatchRelayerUnRegister \/ WatchDistributeCollectedReward \/
           WatchRelayerincentivizeParamChange \/ WatchRewardToRelayer
  BY <1>3, RulesOf DEF WatchCrosschainParamChange, WatchInitConsensusState,
         WatchSyncConsensusState, WatchRelayerhubParamChange, WatchRelayerRegister,
         WatchRelayerUnRegister, WatchDistributeCollectedReward,
         WatchRelayerincentivizeParamChange, WatchRewardToRelayer, Goroutine
<1> QED
  BY <1>1, <1>2, <1>3 DEF WatchStep

\* A step is a call, or goes on with one.
LEMMA StreamSplit ==
  ASSUME StreamNext
  PROVE  \/ StreamStep
         \/ \E e \in Events : \E rules \in Rules(e) : FilterLogs(e, rules) \/ WatchLogs(e, rules)
<1>1. CASE FilterStep
  BY <1>1, FilterSteps
<1>2. CASE WatchStep
  BY <1>2, WatchSteps DEF PumpStep, StreamStep
<1> QED
  BY <1>1, <1>2 DEF StreamNext, StreamStep

LEMMA StepInputs ==
  ASSUME StreamStep \/ UNCHANGED streamVars
  PROVE  Matching' = Matching /\ query' = query /\ chain' = chain
<1>1. UNCHANGED inputVars
  BY DEF StreamStep, streamVars, inputVars, Offer, Exhausted, Breaks, NextLog, NextEnds, NextDone,
         Close, WatchLog, WatchForward, WatchEnds, PumpReturned, UserReads, Unsubscribe
<1> QED
  BY <1>1, MatchingStays DEF inputVars

-------------------------------------------------------------------------------
(* Types of the streams *)

\* Before the call nothing has happened.
Unused ==
  /\ found = 0 /\ logs = <<>> /\ sub = "none"
  /\ ~done /\ ~fail /\ last = "none" /\ yielded = <<>>
  /\ pump = "returned" /\ sink = <<>> /\ received = <<>>
StreamTypeInv == StreamTypeOK /\ (query = NoQuery => Unused)

LEMMA UnusedStays ==
  ASSUME query = NoQuery => Unused, [StreamNext]_streamVars, query' = NoQuery
  PROVE  Unused'
<1>1. ASSUME NEW e \in Events, NEW rules \in Rules(e), FilterLogs(e, rules) \/ WatchLogs(e, rules)
      PROVE  FALSE
  BY <1>1 DEF FilterLogs, WatchLogs, Calls, Query, NoQuery
<1>2. StreamStep \/ UNCHANGED streamVars
  BY <1>1, StreamSplit
<1>3. query = NoQuery /\ Unused
  BY <1>2, StepInputs
<1>4. query.api = "none"
  BY <1>3 DEF NoQuery, Query
<1>5. ~StreamStep
  BY <1>3, <1>4 DEF StreamStep, Unused, Offer, Exhausted, Breaks, NextLog, NextEnds, NextDone,
       Iterating, Close, WatchLog, WatchForward, WatchEnds, PumpReturned, UserReads, Unsubscribe
<1> QED
  BY <1>2, <1>3, <1>5 DEF Unused, streamVars

\* The call is made once, and changes neither the chain nor the channels.
LEMMA CallTypes ==
  ASSUME StreamTypeInv, NEW e \in Events, NEW rules \in Rules(e),
         FilterLogs(e, rules) \/ WatchLogs(e, rules)
  PROVE  StreamTypeOK'
<1>1. /\ query = NoQuery /\ sub' = "open"
      /\ UNCHANGED <<chain, found, logs, iteratorVars, event, sink, received, quit>>
      /\ \/ query' = Query("filter", e, rules) /\ pump' = pump
         \/ query' = Query("watch", e, rules) /\ pump' = "select"
  BY DEF FilterLogs, WatchLogs, Calls
<1>2. query' \in Queries
  BY <1>1 DEF Queries, Query, Rules
<1>3. Unused /\ StreamTypeOK
  BY <1>1 DEF StreamTypeInv
<1>4. chain' \in Seq(Log)
  BY <1>1, <1>3, StreamAssumption DEF StreamTypeOK
<1>5. Matching' \in Seq(Log)
  BY <1>4, SelectedType DEF Matching
<1>6. found' \in 0..Len(Matching')
  BY <1>1, <1>3, <1>5, LenProperties DEF Unused
<1>7. pump' \in {"select", "returned"} /\ event' \in {NoLog}
  BY <1>1, <1>3 DEF Unused, StreamTypeOK
<1> QED
  BY <1>1, <1>2, <1>3, <1>6, <1>7 DEF StreamTypeOK, iteratorVars

LEMMA StreamTypesInit ==
  ASSUME StreamInit PROVE StreamTypeInv
<1>1. chain \in Seq(Log)
  BY StreamAssumption DEF StreamInit
<1>2. Matching \in Seq(Log)
  BY <1>1, MatchingType
<1>3. 0 \in 0..Len(Matching)
  BY <1>2, LenProperties
<1>4. <<>> \in Seq(Log) /\ Len(<<>>) = 0
  BY EmptySeq
<1>5. 0 <= LogBuffer /\ 0 <= SinkBuffer
  BY StreamAssumption
<1>6. NoQuery \in Queries
  BY DEF Queries
<1>7. StreamTypeOK
  BY <1>3, <1>4, <1>5, <1>6 DEF StreamInit, StreamTypeOK
<1> QED
  BY <1>7 DEF StreamInit, StreamTypeInv, Unused

\* What a channel of logs may become: one longer, or one shorter.
LEMMA LogAdded ==
  ASSUME NEW s \in Seq(Log), NEW x \in Log
  PROVE  Append(s, x) \in Seq(Log) /\ Len(Append(s, x)) = Len(s) + 1 /\ Len(s) \in Nat
BY AppendProperties, LenProperties
LEMMA LogTaken ==
  ASSUME NEW s \in Seq(Log), s # <<>>
  PROVE  /\ Head(s) \in Log /\ Tail(s) \in Seq(Log) /\ Len(Tail(s)) = Len(s) - 1
         /\ Len(s) \in Nat /\ Len(s) >= 1
<1>1. Len(s) \in Nat /\ Len(s) >= 1
  BY LenProperties, EmptySeq
<1>2. Head(s) \in Log
  BY <1>1, HeadTailProperties, ElementOfSeq
<1> QED
  BY <1>1, <1>2, HeadTailProperties

\* The parts of StreamTypeOK about what a step of the iterator or of the
\* goroutine may change.
LEMMA LogsTaken ==
  ASSUME StreamTypeOK, logs # <<>>, logs' = Tail(logs)
  PROVE  logs' \in Seq(Log) /\ Len(logs') <= LogBuffer /\ Head(logs) \in Log
<1>1. /\ logs \in Seq(Log) /\ Len(logs) <= LogBuffer /\ LogBuffer \in Nat
  BY StreamAssumption DEF StreamTypeOK
<1>2. /\ Head(logs) \in Log /\ Tail(logs) \in Seq(Log) /\ Len(Tail(logs)) = Len(logs) - 1
      /\ Len(logs) \in Nat
  BY <1>1, LogTaken
<1> QED
  BY <1>1, <1>2

LEMMA TakeLogTypes ==
  ASSUME StreamTypeOK, logs # <<>>, TakeLog
  PROVE  /\ logs' \in Seq(Log) /\ Len(logs') <= LogBuffer /\ yielded' \in Seq(Log)
         /\ last' \in {"none", "true", "false"} /\ fail' \in BOOLEAN
<1>1. logs' \in Seq(Log) /\ Len(logs') <= LogBuffer /\ Head(logs) \in Log
  BY LogsTaken DEF TakeLog
<1>2. yielded \in Seq(Log) /\ fail \in BOOLEAN
  BY DEF StreamTypeOK
<1>3. Append(yielded, Head(logs)) \in Seq(Log)
  BY <1>1, <1>2, LogAdded
<1> QED
  BY <1>1, <1>2, <1>3 DEF TakeLog

LEMMA DrainTypes ==
  ASSUME StreamTypeOK, Drain
  PROVE  /\ logs' \in Seq(Log) /\ Len(logs') <= LogBuffer /\ yielded' \in Seq(Log)
         /\ last' \in {"none", "true", "false"} /\ fail' \in BOOLEAN
<1>1. CASE logs # <<>>
  BY <1>1, TakeLogTypes DEF Drain
<1>2. CASE logs = <<>>
  BY <1>2 DEF Drain, ReturnFalse, StreamTypeOK
<1> QED
  BY <1>1, <1>2

LEMMA StepTypes ==
  ASSUME StreamTypeOK, StreamStep \/ UNCHANGED streamVars PROVE StreamTypeOK'
<1>2. Matching' = Matching /\ query' = query /\ chain' = chain
  BY StepInputs
<1>3. Matching \in Seq(Log)
  BY StreamAssumption, MatchingType DEF StreamTypeOK
<1>4. LogBuffer \in Nat /\ SinkBuffer \in Nat
  BY StreamAssumption
<1>5. CASE Offer
  <2>1. Len(Matching) \in Nat /\ found \in 0..Len(Matching) /\ found < Len(Matching)
    BY <1>3, <1>5, LenProperties DEF Offer, StreamTypeOK
  <2>2. found' \in 0..Len(Matching) /\ found + 1 \in 1..Len(Matching)
    BY <1>5, <2>1 DEF Offer
  <2>3. Matching[found + 1] \in Log
    BY <1>3, <2>2, ElementOfSeq
  <2>4. logs' \in Seq(Log) /\ Len(logs') <= LogBuffer
    <3>1. logs \in Seq(Log) /\ Len(logs) < LogBuffer /\ logs' = Append(logs, Matching[found + 1])
      BY <1>5 DEF Offer, StreamTypeOK
    <3>2. logs' \in Seq(Log) /\ Len(logs') = Len(logs) + 1 /\ Len(logs) \in Nat
      BY <2>3, <3>1, LogAdded
    <3> QED
      BY <1>4, <3>1, <3>2
  <2> QED
    BY <1>2, <1>5, <2>2, <2>4 DEF Offer, iteratorVars, watchVars, StreamTypeOK
<1>6. CASE Exhausted \/ Breaks
  BY <1>2, <1>6 DEF Exhausted, Breaks, iteratorVars, watchVars, StreamTypeOK
<1>7. CASE NextLog
  <2>1. /\ logs' \in Seq(Log) /\ Len(logs') <= LogBuffer /\ yielded' \in Seq(Log)
        /\ last' \in {"none", "true", "false"} /\ fail' \in BOOLEAN
    BY <1>7, TakeLogTypes DEF NextLog
  <2> QED
    BY <1>2, <1>7, <2>1 DEF NextLog, watchVars, StreamTypeOK
<1>8. CASE NextEnds \/ NextDone
  <2>1. /\ logs' \in Seq(Log) /\ Len(logs') <= LogBuffer /\ yielded' \in Seq(Log)
        /\ last' \in {"none", "true", "false"} /\ fail' \in BOOLEAN
    <3>1. CASE Drain
      BY <3>1, DrainTypes
    <3>2. CASE fail' = TRUE /\ last' = "false" /\ UNCHANGED <<logs, yielded>>
      BY <3>2 DEF StreamTypeOK
    <3> QED
      BY <1>8, <3>1, <3>2 DEF NextEnds, NextDone
  <2> QED
    BY <1>2, <1>8, <2>1 DEF NextEnds, NextDone, watchVars, StreamTypeOK
<1>9. CASE Close
  BY <1>2, <1>9 DEF Close, watchVars, StreamTypeOK
<1>10. CASE WatchLog
  <2>1. logs' \in Seq(Log) /\ Len(logs') <= LogBuffer /\ Head(logs) \in Log
    BY <1>10, LogsTaken DEF WatchLog
  <2>2. /\ pump' \in {"select", "forward", "returned"}
        /\ event' \in IF pump' = "forward" THEN Log ELSE {NoLog}
    BY <1>10, <2>1 DEF WatchLog, Return
  <2> QED
    BY <1>2, <1>10, <2>1, <2>2 DEF WatchLog, iteratorVars, StreamTypeOK
<1>11. CASE WatchForward
  <2>1. sink \in Seq(Log) /\ event \in Log /\ Len(sink) < SinkBuffer /\ sink' = Append(sink, event)
    BY <1>11 DEF WatchForward, StreamTypeOK
  <2>2. sink' \in Seq(Log) /\ Len(sink') = Len(sink) + 1 /\ Len(sink) \in Nat
    BY <2>1, LogAdded
  <2>3. Len(sink') <= SinkBuffer
    BY <1>4, <2>1, <2>2
  <2> QED
    BY <1>2, <1>11, <2>2, <2>3 DEF WatchForward, iteratorVars, StreamTypeOK
<1>12. CASE WatchEnds
  BY <1>2, <1>12 DEF WatchEnds, Return, iteratorVars, StreamTypeOK
<1>13. CASE PumpReturned
  BY <1>2, <1>13 DEF PumpReturned, iteratorVars, watchVars, StreamTypeOK
<1>14. CASE UserReads
  <2>1. /\ sink \in Seq(Log) /\ received \in Seq(Log) /\ sink # <<>> /\ Len(sink) <= SinkBuffer
        /\ sink' = Tail(sink) /\ received' = Append(received, Head(sink))
    BY <1>14 DEF UserReads, StreamTypeOK
  <2>2. /\ Head(sink) \in Log /\ sink' \in Seq(Log) /\ Len(sink') = Len(sink) - 1
        /\ Len(sink) \in Nat
    BY <2>1, LogTaken
  <2>3. received' \in Seq(Log)
    BY <2>1, <2>2, LogAdded
  <2>4. Len(sink') <= SinkBuffer
    BY <1>4, <2>1, <2>2
  <2> QED
    BY <1>2, <1>14, <2>2, <2>3, <2>4 DEF UserReads, iteratorVars, StreamTypeOK
<1>15. CASE Unsubscribe
  BY <1>2, <1>15 DEF Unsubscribe, iteratorVars, StreamTypeOK
<1>16. CASE UNCHANGED streamVars
  BY <1>2, <1>16 DEF streamVars, StreamTypeOK
<1> QED
  BY <1>5, <1>6, <1>7, <1>8, <1>9, <1>10, <1>11, <1>12, <1>13, <1>14, <1>15, <1>16 DEF StreamStep

LEMMA StreamTypesKept ==
  ASSUME StreamTypeInv, [StreamNext]_streamVars PROVE StreamTypeInv'
<1>1. query' = NoQuery => Unused'
  BY UnusedStays DEF StreamTypeInv
<1>2. StreamTypeOK'
  BY StreamSplit, CallTypes, StepTypes DEF StreamTypeInv
<1> QED
  BY <1>1, <1>2 DEF StreamTypeInv

\* Every variable of a stream has its type and neither channel ever holds more
\* than its buffer, at every capacity and for every chain of logs.
THEOREM StreamTypes == StreamSpec => []StreamTypeOK
<1>1. StreamTypeInv => StreamTypeOK
  BY DEF StreamTypeInv
<1> QED
  BY <1>1, StreamTypesInit, StreamTypesKept, PTL DEF StreamSpec

-------------------------------------------------------------------------------
(* What a user is given *)

\* Behind an iterator: what was yielded and then what waits in the channel is
\* what the subscription delivered so far; without an error and not closed, it
\* only ends after the last log.
FilterInv ==
  /\ pump = "returned" /\ sink = <<>> /\ received = <<>> /\ sub # "none"
  /\ Follows(yielded, Matching, 0)
  /\ ~fail => Follows(logs, Matching, Len(yielded)) /\ Len(yielded) + Len(logs) = found
  /\ fail => last = "false"
  /\ sub = "ended" /\ ~closed => found = Len(Matching)
  /\ done => sub = "ended" \/ fail
  /\ last = "false" /\ ~fail => logs = <<>> /\ done

\* How many logs Watch's goroutine took out of the channel.
Taken == Len(received) + Len(sink) + (IF pump = "forward" THEN 1 ELSE 0)
\* Behind a watch: what the user read, what waits for the user, the log that is
\* being forwarded and what waits for the goroutine, one after the other.
WatchInv ==
  /\ last = "none" /\ yielded = <<>>
  /\ Follows(received, Matching, 0) /\ Follows(sink, Matching, Len(received))
  /\ pump = "forward" => event = Matching[Taken]
  /\ pump # "returned" => Follows(logs, Matching, Taken) /\ Taken + Len(logs) = found

StreamInv ==
  /\ query = NoQuery \/ query.api \in {"filter", "watch"}
  /\ query.api = "filter" => FilterInv
  /\ query.api = "watch" => WatchInv

LEMMA StreamInvGives ==
  ASSUME StreamTypeInv, StreamInv PROVE EventsInOrder
<1>0. StreamTypeOK /\ (query = NoQuery => Unused)
  BY DEF StreamTypeInv
<1>1. Matching \in Seq(Log)
  BY <1>0, StreamAssumption, MatchingType DEF StreamTypeOK
<1>2. /\ yielded \in Seq(Log) /\ received \in Seq(Log) /\ logs \in Seq(Log)
      /\ sub \in {"none", "open", "ended", "failed"}
  BY <1>0 DEF StreamTypeOK
<1>3. Len(Matching) \in Nat /\ Len(yielded) \in Nat /\ Len(<<>>) = 0 /\ <<>> \in Seq(Log)
  BY <1>1, <1>2, LenProperties, EmptySeq
<1>4. Follows(<<>>, Matching, 0)
  BY <1>3, FollowsNone
<1>5. Follows(yielded, Matching, 0) /\ Follows(received, Matching, 0)
  BY <1>0, <1>4 DEF StreamInv, FilterInv, WatchInv, Unused
<1>6. IsPrefix(yielded, Matching) /\ IsPrefix(received, Matching)
  BY <1>1, <1>2, <1>5, FollowsPrefix
<1>7. ASSUME last = "false", ~fail, ~closed PROVE yielded = Matching
  <2>1. FilterInv
    BY <1>0, <1>7 DEF StreamInv, WatchInv, Unused
  <2>2. logs = <<>> /\ done /\ sub = "ended"
    BY <1>2, <1>7, <2>1 DEF FilterInv
  <2>3. found = Len(Matching) /\ Len(yielded) + Len(logs) = found
    BY <1>7, <2>1, <2>2 DEF FilterInv
  <2>4. Len(yielded) = Len(Matching)
    BY <1>3, <2>2, <2>3
  <2> QED
    BY <1>1, <1>2, <1>5, <2>4, FollowsPrefix
<1> QED
  BY <1>6, <1>7 DEF EventsInOrder

LEMMA StreamInvInit ==
  ASSUME StreamInit PROVE StreamInv
<1>1. query = NoQuery /\ query.api = "none"
  BY DEF StreamInit, NoQuery, Query
<1> QED
  BY <1>1 DEF StreamInv

\* With the call the invariant of an iterator or of a watch holds: nothing was
\* delivered yet.
LEMMA CallGives ==
  ASSUME StreamTypeInv, NEW e \in Events, NEW rules \in Rules(e),
         FilterLogs(e, rules) \/ WatchLogs(e, rules)
  PROVE  StreamInv'
<1>1. /\ query = NoQuery /\ sub' = "open"
      /\ UNCHANGED <<chain, found, logs, done, fail, last, yielded, sink, received>>
      /\ \/ query' = Query("filter", e, rules) /\ pump' = pump
         \/ query' = Query("watch", e, rules) /\ pump' = "select"
  BY DEF FilterLogs, WatchLogs, Calls, iteratorVars
<1>2. Unused /\ StreamTypeOK
  BY <1>1 DEF StreamTypeInv
<1>3. chain' \in Seq(Log)
  BY <1>1, <1>2, StreamAssumption DEF StreamTypeOK
<1>4. Matching' \in Seq(Log)
  BY <1>3, SelectedType DEF Matching
<1>5. Len(Matching') \in Nat /\ Len(<<>>) = 0
  BY <1>4, LenProperties, EmptySeq
<1>6. Follows(<<>>, Matching', 0)
  BY <1>5, FollowsNone
<1>7. /\ found' = 0 /\ logs' = <<>> /\ yielded' = <<>> /\ sink' = <<>> /\ received' = <<>>
      /\ ~done' /\ ~fail' /\ last' = "none" /\ pump' # "forward"
  BY <1>1, <1>2 DEF Unused
<1>8. Taken' = 0
  BY <1>5, <1>7 DEF Taken
<1>9. CASE query' = Query("filter", e, rules) /\ pump' = pump
  <2>1. query'.api = "filter" /\ pump' = "returned"
    BY <1>2, <1>9 DEF Query, Unused
  <2>2. FilterInv'
    BY <1>1, <1>5, <1>6, <1>7, <2>1 DEF FilterInv
  <2> QED
    BY <2>1, <2>2 DEF StreamInv
<1>10. CASE query' = Query("watch", e, rules)
  <2>1. query'.api = "watch"
    BY <1>10 DEF Query
  <2>2. WatchInv'
    BY <1>5, <1>6, <1>7, <1>8 DEF WatchInv
  <2> QED
    BY <2>1, <2>2 DEF StreamInv
<1> QED
  BY <1>1, <1>9, <1>10

\* The facts a step of a stream starts from.
LEMMA StreamFacts ==
  ASSUME StreamTypeOK
  PROVE  /\ Matching \in Seq(Log) /\ Len(Matching) \in Nat
         /\ logs \in Seq(Log) /\ sink \in Seq(Log) /\ yielded \in Seq(Log) /\ received \in Seq(Log)
         /\ Len(logs) \in Nat /\ Len(sink) \in Nat /\ Len(yielded) \in Nat /\ Len(received) \in Nat
         /\ found \in 0..Len(Matching) /\ found \in Nat
         /\ Len(<<>>) = 0
<1>1. Matching \in Seq(Log)
  BY StreamAssumption, MatchingType DEF StreamTypeOK
<1>2. logs \in Seq(Log) /\ sink \in Seq(Log) /\ yielded \in Seq(Log) /\ received \in Seq(Log)
  BY DEF StreamTypeOK
<1>3. found \in 0..Len(Matching)
  BY DEF StreamTypeOK
<1> QED
  BY <1>1, <1>2, <1>3, LenProperties, EmptySeq

-------------------------------------------------------------------------------
(* The steps of an iterator *)

LEMMA OfferFilter ==
  ASSUME StreamTypeOK, FilterInv, Offer, Matching' = Matching
  PROVE  FilterInv'
<1>1. /\ found' = found + 1 /\ logs' = Append(logs, Matching[found + 1]) /\ found < Len(Matching)
      /\ sub = "open"
      /\ UNCHANGED <<sub, done, fail, last, yielded, closed, pump, sink, received>>
  BY DEF Offer, iteratorVars, watchVars
<1>2. ASSUME ~fail
      PROVE  Follows(logs', Matching, Len(yielded)) /\ Len(yielded) + Len(logs') = found'
  <2>1. Follows(logs, Matching, Len(yielded)) /\ Len(yielded) + Len(logs) = found
    BY <1>2 DEF FilterInv
  <2>2. Len(yielded) + Len(logs) + 1 <= Len(Matching)
    BY <1>1, <2>1, StreamFacts
  <2>3. Follows(logs', Matching, Len(yielded)) /\ Len(logs') = Len(logs) + 1
    BY <1>1, <2>1, <2>2, StreamFacts, FollowsAppend
  <2> QED
    BY <1>1, <2>1, <2>3, StreamFacts
<1>3. ~(last = "false" /\ ~fail)
  BY <1>1 DEF FilterInv
<1> QED
  BY <1>1, <1>2, <1>3 DEF FilterInv

LEMMA TakeLogFilter ==
  ASSUME StreamTypeOK, FilterInv, Iterating, logs # <<>>, TakeLog
  PROVE  /\ Follows(yielded', Matching, 0)
         /\ ~fail' => Follows(logs', Matching, Len(yielded')) /\ Len(yielded') + Len(logs') = found
         /\ fail' => last' = "false"
         /\ ~(last' = "false" /\ ~fail')
<1>1. ~fail /\ last # "false"
  BY DEF Iterating, FilterInv
<1>2. Follows(logs, Matching, Len(yielded)) /\ Len(yielded) + Len(logs) = found
  BY <1>1 DEF FilterInv
<1>3. /\ Head(logs) = Matching[Len(yielded) + 1] /\ Len(yielded) + 1 <= Len(Matching)
      /\ Len(Tail(logs)) = Len(logs) - 1
      /\ Follows(Tail(logs), Matching, Len(yielded) + 1)
  BY <1>2, StreamFacts, FollowsTail
<1>4. Follows(yielded, Matching, 0)
  BY DEF FilterInv
<1>5. CASE Head(logs).good
  <2>1. yielded' = Append(yielded, Head(logs)) /\ last' = "true" /\ fail' = fail /\ logs' = Tail(logs)
    BY <1>5 DEF TakeLog
  <2>2. 0 + Len(yielded) + 1 = Len(yielded) + 1
    BY StreamFacts
  <2>3. Follows(yielded', Matching, 0) /\ Len(yielded') = Len(yielded) + 1
    BY <1>3, <1>4, <2>1, <2>2, StreamFacts, FollowsAppend
  <2>4. Len(yielded') + Len(logs') = found
    BY <1>2, <1>3, <2>1, <2>3, StreamFacts
  <2> QED
    BY <1>1, <1>3, <2>1, <2>3, <2>4
<1>6. CASE ~Head(logs).good
  BY <1>4, <1>6 DEF TakeLog
<1> QED
  BY <1>5, <1>6

LEMMA IteratorFilter ==
  ASSUME StreamTypeOK, FilterInv, NextLog \/ NextEnds \/ NextDone, Matching' = Matching
  PROVE  FilterInv'
<1>1. UNCHANGED <<found, sub, closed, pump, sink, received>> /\ Iterating
  BY DEF NextLog, NextEnds, NextDone, watchVars
<1>2. ~fail
  BY <1>1 DEF Iterating, FilterInv
<1>3. \/ TakeLog /\ logs # <<>> /\ ~done /\ ~done'
      \/ Drain /\ done' /\ sub = "ended"
      \/ fail' /\ last' = "false" /\ UNCHANGED <<logs, yielded>>
  BY <1>2 DEF NextLog, NextEnds, NextDone, FilterInv, StreamTypeOK
<1>4. CASE fail' /\ last' = "false" /\ UNCHANGED <<logs, yielded>>
  BY <1>1, <1>4 DEF FilterInv
<1>5. CASE TakeLog /\ logs # <<>> /\ (done' => sub = "ended")
  <2>1. /\ Follows(yielded', Matching, 0)
        /\ ~fail' => Follows(logs', Matching, Len(yielded')) /\ Len(yielded') + Len(logs') = found
        /\ fail' => last' = "false"
        /\ ~(last' = "false" /\ ~fail')
    BY <1>1, <1>5, TakeLogFilter
  <2> QED
    BY <1>1, <1>5, <2>1 DEF FilterInv
<1>6. CASE logs = <<>> /\ ReturnFalse /\ done' /\ sub = "ended"
  BY <1>1, <1>6 DEF ReturnFalse, FilterInv
<1> QED
  BY <1>3, <1>4, <1>5, <1>6 DEF Drain

LEMMA StreamFilter ==
  ASSUME StreamTypeOK, query.api = "filter", FilterInv, StreamStep, Matching' = Matching
  PROVE  FilterInv'
<1>1. CASE Offer
  BY <1>1, OfferFilter
<1>2. CASE Exhausted \/ Breaks
  BY <1>2 DEF Exhausted, Breaks, iteratorVars, watchVars, FilterInv
<1>3. CASE NextLog \/ NextEnds \/ NextDone
  BY <1>3, IteratorFilter
<1>4. CASE Close
  BY <1>4 DEF Close, watchVars, FilterInv
<1> QED
  BY <1>1, <1>2, <1>3, <1>4
  DEF StreamStep, WatchLog, WatchForward, WatchEnds, PumpReturned, UserReads, Unsubscribe, FilterInv

-------------------------------------------------------------------------------
(* The steps of a watch *)

LEMMA OfferWatch ==
  ASSUME StreamTypeOK, WatchInv, Offer, Matching' = Matching
  PROVE  WatchInv'
<1>1. /\ found' = found + 1 /\ logs' = Append(logs, Matching[found + 1]) /\ found < Len(Matching)
      /\ UNCHANGED <<last, yielded, pump, event, sink, received>>
  BY DEF Offer, iteratorVars, watchVars
<1>2. Taken' = Taken /\ Taken \in Nat
  BY <1>1, StreamFacts DEF Taken
<1>3. ASSUME pump # "returned"
      PROVE  Follows(logs', Matching, Taken) /\ Taken + Len(logs') = found'
  <2>1. Follows(logs, Matching, Taken) /\ Taken + Len(logs) = found
    BY <1>3 DEF WatchInv
  <2>2. Taken + Len(logs) + 1 <= Len(Matching)
    BY <1>1, <1>2, <2>1, StreamFacts
  <2>3. Follows(logs', Matching, Taken) /\ Len(logs') = Len(logs) + 1
    BY <1>1, <1>2, <2>1, <2>2, StreamFacts, FollowsAppend
  <2> QED
    BY <1>1, <1>2, <2>1, <2>3, StreamFacts
<1> QED
  BY <1>1, <1>2, <1>3 DEF WatchInv

LEMMA WatchLogWatch ==
  ASSUME StreamTypeOK, WatchInv, WatchLog, Matching' = Matching
  PROVE  WatchInv'
<1>1. /\ pump = "select" /\ logs # <<>> /\ logs' = Tail(logs)
      /\ UNCHANGED <<found, sink, received, last, yielded>>
  BY DEF WatchLog, iteratorVars
<1>2. Taken = Len(received) + Len(sink) /\ Taken \in Nat
  BY <1>1, StreamFacts DEF Taken
<1>3. Follows(logs, Matching, Taken) /\ Taken + Len(logs) = found
  BY <1>1 DEF WatchInv
<1>4. /\ Head(logs) = Matching[Taken + 1] /\ Len(Tail(logs)) = Len(logs) - 1
      /\ Follows(Tail(logs), Matching, Taken + 1)
  BY <1>1, <1>2, <1>3, StreamFacts, FollowsTail
<1>5. CASE Head(logs).good
  <2>1. pump' = "forward" /\ event' = Head(logs)
    BY <1>5 DEF WatchLog
  <2>2. Taken' = Taken + 1
    BY <1>1, <1>2, <2>1, StreamFacts DEF Taken
  <2>3. Taken' + Len(logs') = found'
    BY <1>1, <1>2, <1>3, <1>4, <2>2, StreamFacts
  <2> QED
    BY <1>1, <1>4, <2>1, <2>2, <2>3 DEF WatchInv
<1>6. CASE ~Head(logs).good
  BY <1>1, <1>6 DEF WatchLog, Return, WatchInv
<1> QED
  BY <1>5, <1>6

LEMMA ForwardWatch ==
  ASSUME StreamTypeOK, WatchInv, WatchForward, Matching' = Matching
  PROVE  WatchInv'
<1>1. /\ pump = "forward" /\ sink' = Append(sink, event) /\ pump' = "select"
      /\ UNCHANGED <<found, logs, received, last, yielded>>
  BY DEF WatchForward, iteratorVars
<1>2. Taken = Len(received) + Len(sink) + 1 /\ Taken \in Nat
  BY <1>1, StreamFacts DEF Taken
<1>3. /\ Follows(logs, Matching, Taken) /\ Taken + Len(logs) = found /\ event = Matching[Taken]
      /\ Follows(sink, Matching, Len(received)) /\ Follows(received, Matching, 0)
  BY <1>1 DEF WatchInv
<1>4. Len(received) + Len(sink) + 1 <= Len(Matching)
  BY <1>2, <1>3, StreamFacts
<1>5. Follows(sink', Matching, Len(received)) /\ Len(sink') = Len(sink) + 1
  BY <1>1, <1>2, <1>3, <1>4, StreamFacts, FollowsAppend
<1>6. Taken' = Taken
  BY <1>1, <1>2, <1>5, StreamFacts DEF Taken
<1> QED
  BY <1>1, <1>3, <1>5, <1>6 DEF WatchInv

LEMMA ReadWatch ==
  ASSUME StreamTypeOK, WatchInv, UserReads, Matching' = Matching
  PROVE  WatchInv'
<1>1. /\ sink # <<>> /\ sink' = Tail(sink) /\ received' = Append(received, Head(sink))
      /\ UNCHANGED <<found, logs, pump, event, last, yielded>>
  BY DEF UserReads, iteratorVars
<1>2. Follows(sink, Matching, Len(received)) /\ Follows(received, Matching, 0)
  BY DEF WatchInv
<1>3. /\ Head(sink) = Matching[Len(received) + 1] /\ Len(received) + 1 <= Len(Matching)
      /\ Len(sink') = Len(sink) - 1
      /\ Follows(sink', Matching, Len(received) + 1)
  BY <1>1, <1>2, StreamFacts, FollowsTail
<1>4. 0 + Len(received) + 1 = Len(received) + 1
  BY StreamFacts
<1>5. Follows(received', Matching, 0) /\ Len(received') = Len(received) + 1
  BY <1>1, <1>2, <1>3, <1>4, StreamFacts, FollowsAppend
<1>6. Taken' = Taken
  BY <1>1, <1>3, <1>5, StreamFacts DEF Taken
<1>7. Follows(sink', Matching, Len(received'))
  BY <1>3, <1>5
<1> QED
  BY <1>1, <1>5, <1>6, <1>7 DEF WatchInv

LEMMA EndsWatch ==
  ASSUME StreamTypeOK, WatchInv, WatchEnds \/ Breaks \/ PumpReturned \/ Unsubscribe,
         Matching' = Matching
  PROVE  WatchInv'
<1>1. /\ UNCHANGED <<found, logs, sink, received, last, yielded>>
      /\ (UNCHANGED <<pump, event>>) \/ pump' = "returned"
  BY DEF WatchEnds, Breaks, PumpReturned, Unsubscribe, Return, iteratorVars, watchVars
<1>2. CASE pump' = "returned"
  BY <1>1, <1>2 DEF WatchInv
<1>3. CASE UNCHANGED <<pump, event>>
  <2>1. Taken' = Taken
    BY <1>1, <1>3 DEF Taken
  <2> QED
    BY <1>1, <1>3, <2>1 DEF WatchInv
<1> QED
  BY <1>1, <1>2, <1>3

LEMMA StreamWatch ==
  ASSUME StreamTypeOK, query.api = "watch", WatchInv, StreamStep, Matching' = Matching
  PROVE  WatchInv'
<1>1. ~(Exhausted \/ NextLog \/ NextEnds \/ NextDone \/ Close)
  BY DEF Exhausted, NextLog, NextEnds, NextDone, Close, Iterating
<1> QED
  BY <1>1, OfferWatch, WatchLogWatch, ForwardWatch, ReadWatch, EndsWatch DEF StreamStep

LEMMA StepKeeps ==
  ASSUME StreamTypeInv, StreamInv, StreamStep PROVE StreamInv'
<1>1. Matching' = Matching /\ query' = query
  BY StepInputs
<1>2. StreamTypeOK /\ (query = NoQuery => query' = NoQuery /\ query.api = "none")
  BY <1>1 DEF StreamTypeInv, NoQuery, Query
<1>3. query.api = "filter" => FilterInv'
  BY <1>1, <1>2, StreamFilter DEF StreamInv
<1>4. query.api = "watch" => WatchInv'
  BY <1>1, <1>2, StreamWatch DEF StreamInv
<1> QED
  BY <1>1, <1>2, <1>3, <1>4 DEF StreamInv

LEMMA StreamInvKept ==
  ASSUME StreamTypeInv, StreamInv, [StreamNext]_streamVars PROVE StreamInv'
<1>1. CASE UNCHANGED streamVars
  <2>1. /\ UNCHANGED <<query, found, logs, sub, done, fail, last, yielded, closed>>
        /\ UNCHANGED <<pump, event, sink, received>>
    BY <1>1 DEF streamVars
  <2>2. Taken' = Taken
    BY <2>1 DEF Taken
  <2>3. Matching' = Matching
    BY <1>1, StepInputs
  <2> QED
    BY <2>1, <2>2, <2>3 DEF StreamInv, FilterInv, WatchInv
<1>2. CASE StreamStep
  BY <1>2, StepKeeps
<1> QED
  BY <1>1, <1>2, StreamSplit, CallGives

\* The user of an iterator or of a watch is given the matching logs in the
\* chain's order without a gap, for every chain, rule and capacity: whichever
\* way the selects go, however long the user waits and whenever the
\* subscription ends; an iterator that stops without an error and was not
\* closed gave all of them.
THEOREM EventsOrdered == StreamSpec => []EventsInOrder
<1>1. StreamInit => StreamTypeInv /\ StreamInv
  BY StreamTypesInit, StreamInvInit
<1>2. (StreamTypeInv /\ StreamInv) /\ [StreamNext]_streamVars => (StreamTypeInv /\ StreamInv)'
  BY StreamTypesKept, StreamInvKept
<1>3. (StreamTypeInv /\ StreamInv) => EventsInOrder
  BY StreamInvGives
<1> QED
  BY <1>1, <1>2, <1>3, PTL DEF StreamSpec

-------------------------------------------------------------------------------
(* The three together *)

\* Each of the three components starts in an initial state of its own and takes
\* its own steps or none: what holds of one alone holds of the composition.
LEMMA PartsInit == MCInit => MonitorInit /\ QueryInit /\ StreamInit
BY DEF MCInit
LEMMA PartsStep ==
  [MCNext]_allVars =>
    [MonitorNext]_monitorVars /\ [QueryNext]_queryVars /\ [StreamNext]_streamVars
BY DEF MCNext, allVars

\* The composition keeps the types of its three components.
THEOREM WatcherTypes == MCSpec => []WatchersTypeOK
<1>1. MonitorInv => MonitorTypeOK
  BY DEF MonitorInv
<1>2. QueryTypeInv => QueryTypeOK
  BY QueryTypeInvGives
<1>3. QueryInit => QueryTypeInv
  BY QueryTypeInvInitially
<1>4. QueryTypeInv /\ [QueryNext]_queryVars => QueryTypeInv'
  BY QueryTypeInvKept
<1>5. StreamInit => StreamTypeInv
  BY StreamTypesInit
<1>6. StreamTypeInv /\ [StreamNext]_streamVars => StreamTypeInv'
  BY StreamTypesKept
<1>7. MonitorTypeOK /\ QueryTypeOK /\ StreamTypeOK => WatchersTypeOK
  BY DEF WatchersTypeOK
<1>8. MCSpec => []MonitorInv
  BY PartsInit, PartsStep, MonitorInvInitially, MonitorInvInductive, PTL DEF MCSpec
<1>9. MCSpec => []QueryTypeInv
  BY PartsInit, PartsStep, <1>3, <1>4, PTL DEF MCSpec
<1>10. MCSpec => []StreamTypeInv
  BY PartsInit, PartsStep, <1>5, <1>6, PTL DEF MCSpec
<1>11. StreamTypeInv => StreamTypeOK
  BY DEF StreamTypeInv
<1> QED
  BY <1>1, <1>2, <1>7, <1>8, <1>9, <1>10, <1>11, PTL
===============================================================================
