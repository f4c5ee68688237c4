--------------------------- MODULE ClientPoolProofs ---------------------------
(***************************************************************************)
(* For any number of providers and of switching threads: the lock keeps    *)
(* every call on a provider that exists.  The proof needs that the best    *)
(* provider exists, which takes the least-number principle twice.          *)
(***************************************************************************)
EXTENDS ClientPool, WellFoundedInduction, TLAPS

\* Who is inside a critical section holds the lock, and only a switcher
\* between its two writes leaves the index out of range.
LockOK ==
  /\ \A s \in Switchers : swPc[s] # "idle" => mutex = s
  /\ upPc = "set" => mutex = Updater
  /\ clientIdx \notin Index => \E s \in Switchers : swPc[s] = "wrap"
  /\ \A s \in Switchers : swPc[s] = "increment" => clientIdx \in Index

PoolInv == TypeOK /\ LockOK /\ GetClientInRange

\* Every non-empty set of numbers has a least element.
LEMMA LeastNumber ==
  ASSUME NEW T, T \subseteq Nat, T # {}
  PROVE  \E x \in T : \A y \in T : x <= y
<1> DEFINE R == {p \in Nat \X Nat : p[1] < p[2]}
<1>1. IsWellFoundedOn(R, Nat)
  BY NatLessThanWellFounded DEF OpToRel
<1>2. \E x \in T : \A y \in T : ~(<<y, x>> \in R)
  <2> HIDE DEF R
  <2> QED
    BY <1>1, WFMin
<1>3. PICK x \in T : \A y \in T : ~(<<y, x>> \in R)
  BY <1>2
<1>4. \A y \in T : <<y, x>> \in R <=> y < x
  OBVIOUS
<1> HIDE DEF R
<1>5. \A y \in T : x \in Nat /\ y \in Nat /\ ~(y < x)
  BY <1>3, <1>4
<1> QED
  BY <1>5

\* Among the providers one is highest, the first of those with its height.
LEMMA HighestExists ==
  ASSUME currentHeight \in [Index -> 0..MaxBlock]
  PROVE  Highest \in Index
<1>1. 0 \in Index /\ Index \subseteq Nat /\ MaxBlock \in Nat
  BY PoolAssumption DEF Index
<1> DEFINE h(i) == currentHeight[i]
           Gap == {MaxBlock - h(i) : i \in Index}
<1>2. \A i \in Index : h(i) \in 0..MaxBlock
  OBVIOUS
<1>3. PICK top \in Index : \A j \in Index : h(j) <= h(top)
  <2>1. Gap \subseteq Nat /\ Gap # {}
    BY <1>1, <1>2
  <2>2. PICK g \in Gap : \A k \in Gap : g <= k
    <3> HIDE DEF Gap
    <3> QED
      BY <2>1, LeastNumber
  <2>3. PICK i \in Index : g = MaxBlock - h(i)
    OBVIOUS
  <2>4. ASSUME NEW j \in Index PROVE h(j) <= h(i)
    <3>1. MaxBlock - h(i) <= MaxBlock - h(j)
      BY <2>2, <2>3
    <3>2. h(i) \in Int /\ h(j) \in Int /\ MaxBlock \in Int
      BY <1>1, <1>2
    <3> HIDE DEF h
    <3> QED
      BY <3>1, <3>2
  <2> QED
    BY <2>4
<1> DEFINE Tops == {i \in Index : h(i) = h(top)}
<1>4. PICK first \in Tops : \A k \in Tops : first <= k
  <2>1. Tops \subseteq Nat /\ Tops # {}
    BY <1>1
  <2> HIDE DEF Tops
  <2> QED
    BY <2>1, LeastNumber
<1>5. first \in Index /\ h(first) = h(top)
  OBVIOUS
<1>6. \A j \in Index : \/ h(first) > h(j)
                       \/ h(first) = h(j) /\ first <= j
  <2> SUFFICES ASSUME NEW j \in Index
               PROVE  h(first) > h(j) \/ (h(first) = h(j) /\ first <= j)
    OBVIOUS
  <2>1. h(j) <= h(first)
    BY <1>3, <1>5
  <2>2. h(j) = h(first) => first <= j
    BY <1>4, <1>5
  <2>3. h(j) \in Int /\ h(first) \in Int
    BY <1>2, <1>5
  <2> HIDE DEF h
  <2> QED
    BY <2>1, <2>2, <2>3
<1> QED
  BY <1>5, <1>6 DEF Highest

LEMMA PoolInit == Init => PoolInv
  BY PoolAssumption DEF Init, PoolInv, TypeOK, LockOK, GetClientInRange, Index

LEMMA SwitchPreserves ==
  ASSUME PoolInv, NEW s \in Switchers, SwitchLock(s) \/ SwitchIncrement(s) \/ SwitchWrap(s)
  PROVE  PoolInv'
<1> USE PoolAssumption DEF PoolInv, updVars, envVars
<1>1. swPc \in [Switchers -> {"idle", "increment", "wrap"}] /\ clientIdx \in 0..N
  BY DEF TypeOK
<1>2. CASE SwitchLock(s)
  <2>1. TypeOK' /\ GetClientInRange'
    BY <1>2 DEF SwitchLock, TypeOK, GetClientInRange, Index
  <2>2. \A r \in Switchers : swPc[r] = "idle"
    BY <1>2 DEF SwitchLock, LockOK
  <2>3. upPc # "set" /\ clientIdx \in Index
    BY <1>2, <2>2 DEF SwitchLock, LockOK, Updater, Free
  <2>4. LockOK'
    BY <1>1, <1>2, <2>2, <2>3 DEF SwitchLock, LockOK, Index
  <2> QED
    BY <2>1, <2>4
<1>3. CASE SwitchIncrement(s)
  <2>1. clientIdx \in Index /\ clientIdx' = clientIdx + 1 /\ mutex = s
    BY <1>3 DEF SwitchIncrement, LockOK
  <2>2. TypeOK' /\ GetClientInRange'
    BY <1>1, <1>3, <2>1 DEF SwitchIncrement, TypeOK, GetClientInRange, Index
  <2>3. \A r \in Switchers : r # s => swPc[r] = "idle"
    BY <2>1 DEF LockOK
  <2>4. LockOK'
    BY <1>1, <1>3, <2>1, <2>3 DEF SwitchIncrement, LockOK, Index
  <2> QED
    BY <2>2, <2>4
<1>4. CASE SwitchWrap(s)
  <2>1. clientIdx' \in Index /\ mutex = s /\ mutex' = Free
    BY <1>1, <1>4 DEF SwitchWrap, LockOK, Index
  <2>2. TypeOK' /\ GetClientInRange'
    BY <1>1, <1>4, <2>1 DEF SwitchWrap, TypeOK, GetClientInRange, Index
  <2>3. LockOK'
    BY <1>1, <1>4, <2>1 DEF SwitchWrap, LockOK, Index
  <2> QED
    BY <2>2, <2>3
<1> QED
  BY <1>2, <1>3, <1>4

LEMMA GetClientPreserves ==
  ASSUME PoolInv, GetClient
  PROVE  PoolInv'
<1>1. clientIdx \in Index
  BY PoolAssumption DEF PoolInv, LockOK, GetClient
<1> QED
  BY <1>1, PoolAssumption
     DEF PoolInv, TypeOK, LockOK, GetClientInRange, GetClient, updVars, envVars, Index

LEMMA UpdatePreserves ==
  ASSUME PoolInv, UpdateStep
  PROVE  PoolInv'
<1> USE PoolAssumption DEF PoolInv, envVars
<1>1. CASE UpdateHeight
  <2>1. TypeOK'
    BY <1>1 DEF UpdateHeight, NextQuery, TypeOK, Index
  <2> QED
    BY <1>1, <2>1 DEF UpdateHeight, NextQuery, LockOK, GetClientInRange, Index
<1>2. CASE UpdateCheck
  <2>1. TypeOK'
    BY <1>2 DEF UpdateCheck, TypeOK, Index
  <2> QED
    BY <1>2, <2>1 DEF UpdateCheck, LockOK, GetClientInRange, Index
<1>3. CASE UpdateLock
  <2>1. TypeOK' /\ GetClientInRange'
    BY <1>3 DEF UpdateLock, TypeOK, GetClientInRange, Index
  <2>2. \A r \in Switchers : swPc[r] = "idle"
    BY <1>3 DEF UpdateLock, LockOK
  <2> QED
    BY <1>3, <2>1, <2>2 DEF UpdateLock, LockOK, Index
<1>4. CASE UpdateSet
  <2>1. Highest \in Index
    BY HighestExists DEF TypeOK
  <2>2. \A r \in Switchers : swPc[r] = "idle"
    BY <1>4 DEF UpdateSet, LockOK
  <2>3. TypeOK' /\ GetClientInRange'
    BY <1>4, <2>1 DEF UpdateSet, TypeOK, GetClientInRange, Index
  <2> QED
    BY <1>4, <2>1, <2>2, <2>3 DEF UpdateSet, LockOK, Index
<1> QED
  BY <1>1, <1>2, <1>3, <1>4 DEF UpdateStep

LEMMA EnvPreserves ==
  ASSUME PoolInv, NEW i \in Index, Advance(i) \/ Toggle(i)
  PROVE  PoolInv'
<1>1. TypeOK'
  <2>1. CASE Advance(i)
    <3>1. chain[i] + 1 \in 0..MaxBlock
      BY <2>1, PoolAssumption DEF PoolInv, TypeOK, Advance
    <3> QED
      BY <2>1, <3>1, PoolAssumption DEF PoolInv, TypeOK, Advance, updVars, Index
  <2>2. CASE Toggle(i)
    BY <2>2, PoolAssumption DEF PoolInv, TypeOK, Toggle, updVars, Index
  <2> QED
    BY <2>1, <2>2
<1> QED
  BY <1>1, PoolAssumption
     DEF PoolInv, LockOK, GetClientInRange, Advance, Toggle, updVars, Index

LEMMA PoolNext == PoolInv /\ [Next]_vars => PoolInv'
<1> SUFFICES ASSUME PoolInv, [Next]_vars PROVE PoolInv'
  OBVIOUS
<1>1. CASE Next
  BY <1>1, GetClientPreserves, SwitchPreserves, UpdatePreserves, EnvPreserves DEF Next, UpdateStep
<1>2. CASE UNCHANGED vars
  BY <1>2 DEF PoolInv, TypeOK, LockOK, GetClientInRange, vars, Index
<1> QED
  BY <1>1, <1>2

\* With any number of providers and switching threads, no call picks a
\* provider that does not exist: the read lock hides the index between
\* clientIdx++ and the wrap-around.
THEOREM CallsInRange == Spec => []GetClientInRange
<1>1. PoolInv => GetClientInRange
  BY DEF PoolInv
<1> QED
  BY <1>1, PoolInit, PoolNext, PTL DEF Spec

\* Every variable keeps its type; the shared index never exceeds the number of
\* providers, so it is at most one too high.
THEOREM PoolTypes == Spec => []TypeOK
<1>1. PoolInv => TypeOK
  BY DEF PoolInv
<1> QED
  BY <1>1, PoolInit, PoolNext, PTL DEF Spec
===============================================================================
