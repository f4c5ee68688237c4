--------------------------- MODULE DoubleSignMonitor ---------------------------
(***************************************************************************)
(* The double-sign monitor: it subscribes to the new block headers of      *)
(* several BSC providers, one goroutine per provider reads its channel,    *)
(* compares each header with those of the same number that any provider    *)
(* has shown, submits what proves a double sign to Binance Chain and keeps *)
(* the header in a bounded cache.  One mutex guards all the caches and is  *)
(* held while the evidence is submitted.                                   *)
(***************************************************************************)
EXTENDS Integers, Sequences, FiniteSets

CONSTANTS
  Seeds,          \* number of providers in MonitorDataSeedList
  Heads,          \* headers: [number, parent, signer, signature]
  NoHead,         \* a nil header; also a signature that cannot be read
  maxCacheHeader, \* headers kept per provider and size of its channel (100)
  MaxHeads        \* bound on the headers a provider announces

Provider == 1..Seeds
Unlocked == 0
Idle == 0

ASSUME MonitorAssumption ==
  /\ Seeds \in Nat /\ maxCacheHeader \in Nat \ {0} /\ MaxHeads \in Nat
  /\ NoHead \notin Heads
  /\ \A h \in Heads : h.number \in Int

VARIABLES
  headerChannel,         \* per provider: headers announced and not yet read
  announced,             \* per provider: how many it announced
  mux,                   \* the provider whose goroutine holds the mutex
  inHand,                \* per goroutine: the header it checks
  comparing,             \* per goroutine: next cache to look into, or Idle
  ethereumHeaderNumbers, \* per provider: list of cached numbers, oldest first
  ethereumHeaders,       \* per provider: number -> header
  evidence,              \* pairs Binance Chain took as evidence (history)
  refused,               \* pairs whose submission failed (history)
  checked                \* per provider: headers checked, in order (history)

caches == <<ethereumHeaderNumbers, ethereumHeaders, checked>>
feed == <<headerChannel, announced>>
submissions == <<evidence, refused>>
monitorVars ==
  <<headerChannel, announced, mux, inHand, comparing,
    ethereumHeaderNumbers, ethereumHeaders, evidence, refused, checked>>

Empty == [n \in {} |-> NoHead]

MonitorInit ==
  /\ headerChannel = [p \in Provider |-> <<>>]
  /\ announced = [p \in Provider |-> 0]
  /\ mux = Unlocked
  /\ inHand = [p \in Provider |-> NoHead]
  /\ comparing = [p \in Provider |-> Idle]
  /\ ethereumHeaderNumbers = [p \in Provider |-> <<>>]
  /\ ethereumHeaders = [p \in Provider |-> Empty]
  /\ evidence = {} /\ refused = {}
  /\ checked = [p \in Provider |-> <<>>]

\* Same number and signer, different parents and signatures, all readable.
isDoubleSignHeaders(h1, h2) ==
  /\ h1.number = h2.number
  /\ h1.parent # h2.parent
  /\ NoHead \notin {h1.signature, h2.signature}
  /\ h1.signature # h2.signature
  /\ h1.signer = h2.signer

\* A provider announces any header, one of a branch it left again included;
\* a nil header is a null notification.  A broken subscription is a provider
\* that never announces again: nobody reads its error or subscribes anew.
Announce(p, h) ==
  /\ announced[p] < MaxHeads
  /\ Len(headerChannel[p]) < maxCacheHeader
  /\ headerChannel' = [headerChannel EXCEPT ![p] = Append(@, h)]
  /\ announced' = [announced EXCEPT ![p] = @ + 1]
  /\ UNCHANGED <<mux, inHand, comparing, submissions, caches>>

\* A goroutine takes the next header from its channel and gets the mutex; a
\* nil header is dropped, and the mutex released.
Take(p) ==
  /\ comparing[p] = Idle /\ headerChannel[p] # <<>>
  /\ headerChannel' = [headerChannel EXCEPT ![p] = Tail(@)]
Check(p, h) ==
  /\ mux' = p
  /\ inHand' = [inHand EXCEPT ![p] = h] /\ comparing' = [comparing EXCEPT ![p] = 1]
Receive_NoMutex(p) ==
  /\ Take(p)
  /\ IF Head(headerChannel[p]) = NoHead THEN UNCHANGED <<mux, inHand, comparing>>
                                        ELSE Check(p, Head(headerChannel[p]))
  /\ UNCHANGED <<announced, submissions, caches>>
Receive_KeepsMutex(p) ==
  /\ mux = Unlocked /\ Take(p)
  /\ IF Head(headerChannel[p]) = NoHead THEN mux' = p /\ UNCHANGED <<inHand, comparing>>
                                        ELSE Check(p, Head(headerChannel[p]))
  /\ UNCHANGED <<announced, submissions, caches>>
Receive(p) ==
  /\ mux = Unlocked /\ Take(p)
  /\ IF Head(headerChannel[p]) = NoHead THEN UNCHANGED <<mux, inHand, comparing>>
                                        ELSE Check(p, Head(headerChannel[p]))
  /\ UNCHANGED <<announced, submissions, caches>>

\* The header is compared with the one of its number in the next cache.  The
\* submission of a pair that proves a double sign succeeds or fails; either way
\* the loop goes on, and a failure is not retried.
CachedAs(q, h) == h.number \in DOMAIN ethereumHeaders[q]
Proves(q, h) == CachedAs(q, h) /\ isDoubleSignHeaders(h, ethereumHeaders[q][h.number])
SubmitEvidence(pair) ==
  \/ evidence' = evidence \cup {pair} /\ UNCHANGED refused
  \/ refused' = refused \cup {pair} /\ UNCHANGED evidence
Submitted(p) ==
  LET q == comparing[p] h == inHand[p] IN
    IF Proves(q, h) THEN SubmitEvidence({h, ethereumHeaders[q][h.number]})
                    ELSE UNCHANGED submissions
Compare_GivesUp(p) ==
  /\ comparing[p] \in Provider
  /\ Submitted(p)
  /\ comparing' = [comparing EXCEPT ![p] = IF refused' = refused THEN @ + 1 ELSE Seeds + 1]
  /\ UNCHANGED <<feed, mux, inHand, caches>>
Compare(p) ==
  /\ comparing[p] \in Provider
  /\ Submitted(p)
  /\ comparing' = [comparing EXCEPT ![p] = @ + 1]
  /\ UNCHANGED <<feed, mux, inHand, caches>>

\* The oldest number makes room, and the map forgets what it holds under
\* that number; then the header is cached and the mutex released.
Full(p) == Len(ethereumHeaderNumbers[p]) >= maxCacheHeader
Trimmed(p) == IF Full(p) THEN Tail(ethereumHeaderNumbers[p])
                         ELSE ethereumHeaderNumbers[p]
Without(f, n) == [k \in DOMAIN f \ {n} |-> f[k]]
TrimmedHeaders_Leaks(p) == ethereumHeaders[p]
TrimmedHeaders_Newest(p) ==
  IF Full(p)
  THEN Without(ethereumHeaders[p], ethereumHeaderNumbers[p][Len(ethereumHeaderNumbers[p])])
  ELSE ethereumHeaders[p]
TrimmedHeaders(p) ==
  IF Full(p) THEN Without(ethereumHeaders[p], Head(ethereumHeaderNumbers[p]))
             ELSE ethereumHeaders[p]
Cached(f, h) == [k \in DOMAIN f \cup {h.number} |-> IF k = h.number THEN h ELSE f[k]]
Store(p) ==
  /\ comparing[p] = Seeds + 1
  /\ ethereumHeaderNumbers' =
       [ethereumHeaderNumbers EXCEPT ![p] = Append(Trimmed(p), inHand[p].number)]
  /\ ethereumHeaders' = [ethereumHeaders EXCEPT ![p] = Cached(TrimmedHeaders(p), inHand[p])]
  /\ checked' = [checked EXCEPT ![p] = Append(@, inHand[p])]
  /\ inHand' = [inHand EXCEPT ![p] = NoHead]
  /\ comparing' = [comparing EXCEPT ![p] = Idle]
  /\ mux' = Unlocked
  /\ UNCHANGED <<feed, submissions>>

CheckerStep(p) == Compare(p) \/ Store(p)

MonitorNext ==
  \E p \in Provider :
    \/ \E h \in Heads \cup {NoHead} : Announce(p, h)
    \/ Receive(p) \/ Compare(p) \/ Store(p)

\* The goroutines run and SubmitEvidence returns; Go's mutex is handed to a
\* goroutine that has waited for it.
MonitorFairness ==
  \A p \in Provider : WF_monitorVars(CheckerStep(p)) /\ SF_monitorVars(Receive(p))

MonitorSpec == MonitorInit /\ [][MonitorNext]_monitorVars

-------------------------------------------------------------------------------

\* Every variable has its type.
MonitorTypeOK ==
  /\ headerChannel \in [Provider -> Seq(Heads \cup {NoHead})]
  /\ announced \in [Provider -> 0..MaxHeads]
  /\ mux \in Provider \cup {Unlocked}
  /\ inHand \in [Provider -> Heads \cup {NoHead}]
  /\ comparing \in [Provider -> 0..(Seeds + 1)]
  /\ ethereumHeaderNumbers \in [Provider -> Seq(Int)]
  /\ evidence \cup refused \subseteq SUBSET Heads
  /\ \A p \in Provider :
       \A n \in DOMAIN ethereumHeaders[p] :
         ethereumHeaders[p][n] \in Heads /\ ethereumHeaders[p][n].number = n

\* Memory stays bounded: the list is no longer than maxCacheHeader, and the
\* map holds no header whose number the list has dropped, however often a
\* provider repeats a number (lines 106-116).
CacheBounded ==
  \A p \in Provider :
    /\ Len(ethereumHeaderNumbers[p]) <= maxCacheHeader
    /\ \A n \in DOMAIN ethereumHeaders[p] :
         \E i \in DOMAIN ethereumHeaderNumbers[p] : ethereumHeaderNumbers[p][i] = n

\* Two headers that are both cached, whichever providers showed them and in
\* whichever order their goroutines ran, have been compared: if they prove a
\* double sign, they were submitted, and neither a submission that failed
\* before (lines 102-105) nor another goroutine kept the pair from it.
ConflictFound ==
  \A p, q \in Provider :
    \A n \in DOMAIN ethereumHeaders[p] \cap DOMAIN ethereumHeaders[q] :
      isDoubleSignHeaders(ethereumHeaders[p][n], ethereumHeaders[q][n])
        => {ethereumHeaders[p][n], ethereumHeaders[q][n]} \in evidence \cup refused

\* A header stays cached until maxCacheHeader others followed it: one of the
\* last ones that is missing was overtaken by a header of its own number, or
\* its number was on the list twice, and the older entry took it along.
WindowKept ==
  \A p \in Provider : \A i \in DOMAIN checked[p] :
    LET h == checked[p][i]
        repeated == \E j \in DOMAIN checked[p] \ {i} : checked[p][j].number = h.number
    IN (i + maxCacheHeader > Len(checked[p]) /\ ~repeated)
         => CachedAs(p, h) /\ ethereumHeaders[p][h.number] = h

\* Every header a provider announced is checked in the end: no goroutine
\* keeps the mutex, whichever way it leaves the checker.
AllChecked == \A p \in Provider : []<>(headerChannel[p] = <<>> /\ comparing[p] = Idle)
===============================================================================
