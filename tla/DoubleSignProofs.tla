--------------------------- MODULE DoubleSignProofs ---------------------------
(***************************************************************************)
(* Proofs about the double-sign monitor, for any number of providers, any  *)
(* headers and any size of the caches.                                     *)
(***************************************************************************)
EXTENDS DoubleSignMonitor, TLAPS

\* The caches are functions of the provider; the list names the numbers of the
\* last headers that were checked.
PerProvider ==
  /\ ethereumHeaders = [p \in Provider |-> ethereumHeaders[p]]
  /\ checked \in [Provider -> Seq(Heads)]
ListOK ==
  \A p \in Provider :
    /\ Len(ethereumHeaderNumbers[p]) <= Len(checked[p])
    /\ Len(checked[p]) > Len(ethereumHeaderNumbers[p]) => Full(p)
    /\ \A i \in DOMAIN ethereumHeaderNumbers[p] :
         ethereumHeaderNumbers[p][i] =
           checked[p][Len(checked[p]) - Len(ethereumHeaderNumbers[p]) + i].number

\* A goroutine that compares holds the mutex, and what its header proved
\* against the caches it has looked into was submitted.
CheckerOK ==
  \A p \in Provider : comparing[p] # Idle =>
    /\ mux = p /\ inHand[p] \in Heads
    /\ \A q \in Provider :
         q < comparing[p] /\ Proves(q, inHand[p]) =>
           {inHand[p], ethereumHeaders[q][inHand[p].number]} \in evidence \cup refused

MonitorInv ==
  /\ MonitorTypeOK /\ PerProvider /\ ListOK /\ CheckerOK
  /\ CacheBounded /\ ConflictFound /\ WindowKept

-------------------------------------------------------------------------------

\* A double sign needs two headers, whichever comes first.
LEMMA ConflictSymmetric ==
  ASSUME NEW h1, NEW h2
  PROVE  /\ isDoubleSignHeaders(h1, h2) => isDoubleSignHeaders(h2, h1)
         /\ ~isDoubleSignHeaders(h1, h1)
BY DEF isDoubleSignHeaders

\* Providers are positive numbers, so that no provider is Idle or Unlocked.
LEMMA ProviderNumbers ==
  /\ Seeds \in Nat /\ maxCacheHeader \in Nat /\ maxCacheHeader >= 1
  /\ \A p \in Provider : p \in Nat /\ p >= 1 /\ p <= Seeds
BY MonitorAssumption DEF Provider

LEMMA MonitorInvInitially == MonitorInit => MonitorInv
<1> SUFFICES ASSUME MonitorInit PROVE MonitorInv
  OBVIOUS
<1>1. \A p \in Provider :
        /\ DOMAIN ethereumHeaders[p] = {} /\ ethereumHeaderNumbers[p] = <<>>
        /\ checked[p] = <<>> /\ comparing[p] = Idle
  BY DEF MonitorInit, Empty
<1>2. MonitorTypeOK
  BY <1>1, ProviderNumbers, MonitorAssumption DEF MonitorInit, MonitorTypeOK, Idle
<1>3. PerProvider
  BY DEF MonitorInit, PerProvider
<1>4. ListOK /\ CheckerOK
  BY <1>1 DEF ListOK, CheckerOK
<1>5. CacheBounded
  BY <1>1, ProviderNumbers DEF CacheBounded
<1>6. ConflictFound /\ WindowKept
  BY <1>1 DEF ConflictFound, WindowKept
<1> QED
  BY <1>2, <1>3, <1>4, <1>5, <1>6 DEF MonitorInv

\* A step that leaves the caches and the checkers alone keeps everything but
\* the types of the feed, which it must keep itself.
LEMMA CachesUntouched ==
  ASSUME MonitorInv, UNCHANGED <<caches, submissions>>
  PROVE  /\ PerProvider' /\ ListOK' /\ CacheBounded' /\ ConflictFound' /\ WindowKept'
         /\ \A q, h : Proves(q, h)' <=> Proves(q, h)
BY DEF MonitorInv, PerProvider, ListOK, CacheBounded, ConflictFound, WindowKept, caches,
       Full, CachedAs, Proves, submissions

LEMMA AnnounceKeeps ==
  ASSUME MonitorInv, NEW p \in Provider, NEW h \in Heads \cup {NoHead}, Announce(p, h)
  PROVE  MonitorInv'
<1>1. UNCHANGED <<mux, inHand, comparing, submissions, caches>>
  BY DEF Announce
<1>2. headerChannel' \in [Provider -> Seq(Heads \cup {NoHead})]
  BY DEF Announce, MonitorInv, MonitorTypeOK
<1>3. announced' \in [Provider -> 0..MaxHeads]
  <2>1. announced[p] + 1 \in 0..MaxHeads
    BY MonitorAssumption DEF Announce, MonitorInv, MonitorTypeOK
  <2> QED
    BY <2>1 DEF Announce, MonitorInv, MonitorTypeOK
<1>4. MonitorTypeOK'
  BY <1>1, <1>2, <1>3 DEF MonitorInv, MonitorTypeOK, caches, submissions
<1>5. CheckerOK'
  BY <1>1, CachesUntouched DEF MonitorInv, CheckerOK, caches, submissions
<1> QED
  BY <1>1, <1>4, <1>5, CachesUntouched DEF MonitorInv

\* Whoever gets the mutex is the only one, and has compared nothing yet.
LEMMA ReceiveKeeps ==
  ASSUME MonitorInv, NEW p \in Provider, Receive(p) PROVE MonitorInv'
<1>1. mux = Unlocked /\ Take(p) /\ UNCHANGED <<announced, submissions, caches>>
  BY DEF Receive
<1>2. \A q \in Provider : comparing[q] = Idle
  BY <1>1, ProviderNumbers DEF MonitorInv, CheckerOK, Unlocked
<1>3. /\ headerChannel[p] \in Seq(Heads \cup {NoHead}) /\ headerChannel[p] # <<>>
      /\ headerChannel' = [headerChannel EXCEPT ![p] = Tail(@)]
  BY <1>1 DEF Take, MonitorInv, MonitorTypeOK
<1>4. Head(headerChannel[p]) \in Heads \cup {NoHead} /\ Tail(headerChannel[p]) \in Seq(Heads \cup {NoHead})
  BY <1>3
<1>5. headerChannel' \in [Provider -> Seq(Heads \cup {NoHead})]
  BY <1>3, <1>4 DEF MonitorInv, MonitorTypeOK
<1>6. CASE UNCHANGED <<mux, inHand, comparing>>
  <2>1. MonitorTypeOK'
    BY <1>1, <1>5, <1>6 DEF MonitorInv, MonitorTypeOK, caches, submissions
  <2>2. CheckerOK'
    BY <1>2, <1>6 DEF CheckerOK
  <2> QED
    BY <1>1, <2>1, <2>2, CachesUntouched DEF MonitorInv
<1>7. CASE Head(headerChannel[p]) # NoHead /\ Check(p, Head(headerChannel[p]))
  <2>1. /\ mux' = p /\ inHand' = [inHand EXCEPT ![p] = Head(headerChannel[p])]
        /\ comparing' = [comparing EXCEPT ![p] = 1]
        /\ Head(headerChannel[p]) \in Heads
    BY <1>4, <1>7 DEF Check
  <2>2. MonitorTypeOK'
    <3>1. 1 \in 0..(Seeds + 1) /\ Head(headerChannel[p]) \in Heads \cup {NoHead}
      BY <2>1, ProviderNumbers
    <3>2. /\ mux' \in Provider \cup {Unlocked} /\ inHand' \in [Provider -> Heads \cup {NoHead}]
          /\ comparing' \in [Provider -> 0..(Seeds + 1)]
      BY <2>1, <3>1 DEF MonitorInv, MonitorTypeOK
    <3> QED
      BY <1>1, <1>5, <3>2 DEF MonitorInv, MonitorTypeOK, caches, submissions
  <2>3. ASSUME NEW r \in Provider, comparing'[r] # Idle
        PROVE  /\ mux' = r /\ inHand'[r] \in Heads
               /\ \A q \in Provider : ~(q < comparing'[r])
    <3>1. r = p
      BY <1>2, <2>1, <2>3 DEF MonitorInv, MonitorTypeOK
    <3> QED
      BY <2>1, <3>1, ProviderNumbers DEF MonitorInv, MonitorTypeOK
  <2>4. CheckerOK'
    BY <2>3 DEF CheckerOK
  <2> QED
    BY <1>1, <2>2, <2>4, CachesUntouched DEF MonitorInv
<1> QED
  BY <1>6, <1>7 DEF Receive

\* One more cache was looked into, and what it proved was submitted.
LEMMA CompareKeeps ==
  ASSUME MonitorInv, NEW p \in Provider, Compare(p) PROVE MonitorInv'
<1> DEFINE q == comparing[p]
           h == inHand[p]
<1>1. /\ q \in Provider /\ comparing' = [comparing EXCEPT ![p] = @ + 1]
      /\ UNCHANGED <<feed, mux, inHand, caches>>
      /\ Submitted(p)
  BY DEF Compare
<1>2. q # Idle /\ mux = p /\ h \in Heads
  BY <1>1, ProviderNumbers DEF MonitorInv, CheckerOK, Idle
<1>3. /\ comparing \in [Provider -> 0..(Seeds + 1)] /\ comparing'[p] = q + 1
      /\ \A r \in Provider \ {p} : comparing'[r] = comparing[r]
  BY <1>1 DEF MonitorInv, MonitorTypeOK
<1>4. comparing' \in [Provider -> 0..(Seeds + 1)]
  BY <1>1, <1>3, ProviderNumbers
<1>6. /\ evidence \cup refused \subseteq (evidence \cup refused)'
      /\ Proves(q, h) => {h, ethereumHeaders[q][h.number]} \in (evidence \cup refused)'
      /\ (evidence \cup refused)' \subseteq SUBSET Heads
  <2>1. evidence \cup refused \subseteq SUBSET Heads
    BY DEF MonitorInv, MonitorTypeOK
  <2>2. CASE Proves(q, h)
    <3> DEFINE pair == {h, ethereumHeaders[q][h.number]}
    <3>1. pair \in SUBSET Heads
      BY <1>1, <1>2, <2>2 DEF MonitorInv, MonitorTypeOK, Proves, CachedAs
    <3> HIDE DEF pair
    <3>2. (evidence \cup refused)' = (evidence \cup refused) \cup {pair}
      BY <1>1, <2>2 DEF Submitted, SubmitEvidence, pair
    <3> QED
      BY <2>1, <3>1, <3>2 DEF pair
  <2>3. CASE ~Proves(q, h)
    BY <1>1, <2>1, <2>3 DEF Submitted, submissions
  <2> QED
    BY <2>2, <2>3
<1>5. MonitorTypeOK'
  BY <1>1, <1>4, <1>6 DEF MonitorInv, MonitorTypeOK, caches, feed
<1>7. UNCHANGED <<ethereumHeaders, ethereumHeaderNumbers, checked, inHand, mux>>
  BY <1>1 DEF caches
<1>8. \A r, g : Proves(r, g)' <=> Proves(r, g)
  BY <1>7 DEF Proves, CachedAs
<1>9. ASSUME NEW r \in Provider, comparing'[r] # Idle,
             NEW s \in Provider, s < comparing'[r], Proves(s, inHand[r])
      PROVE  {inHand[r], ethereumHeaders[s][inHand[r].number]} \in (evidence \cup refused)'
  <2>1. CASE r # p
    BY <1>3, <1>6, <1>9, <2>1 DEF MonitorInv, CheckerOK
  <2>2. CASE r = p /\ s = q
    BY <1>6, <1>9, <2>2
  <2>3. CASE r = p /\ s # q
    <3>1. s < q
      BY <1>1, <1>3, <1>9, <2>3, ProviderNumbers
    <3> QED
      BY <1>2, <1>6, <1>9, <2>3, <3>1 DEF MonitorInv, CheckerOK
  <2> QED
    BY <2>1, <2>2, <2>3
<1>10. ASSUME NEW r \in Provider, comparing'[r] # Idle PROVE mux = r /\ inHand[r] \in Heads
  BY <1>2, <1>3, <1>10 DEF MonitorInv, CheckerOK
<1>11. CheckerOK'
  BY <1>7, <1>8, <1>9, <1>10 DEF CheckerOK
<1>12. PerProvider' /\ ListOK' /\ CacheBounded' /\ WindowKept'
  BY <1>7 DEF MonitorInv, PerProvider, ListOK, CacheBounded, WindowKept, Full, CachedAs
<1>13. ConflictFound'
  BY <1>6, <1>7 DEF MonitorInv, ConflictFound
<1> QED
  BY <1>5, <1>11, <1>12, <1>13 DEF MonitorInv
\* What Store makes of the caches of its provider: the list is trimmed by its
\* oldest number and extended, the map gives that number up and gets the header.
LEMMA StoreCaches ==
  ASSUME MonitorInv, NEW p \in Provider, Store(p)
  PROVE  /\ inHand[p] \in Heads /\ mux = p /\ comparing[p] = Seeds + 1
         /\ mux' = Unlocked /\ UNCHANGED <<headerChannel, announced, evidence, refused>>
         /\ inHand' = [inHand EXCEPT ![p] = NoHead]
         /\ comparing' = [comparing EXCEPT ![p] = Idle]
         /\ ethereumHeaderNumbers' =
              [ethereumHeaderNumbers EXCEPT ![p] = Append(Trimmed(p), inHand[p].number)]
         /\ ethereumHeaderNumbers'[p] = Append(Trimmed(p), inHand[p].number)
         /\ ethereumHeaders'[p] = Cached(TrimmedHeaders(p), inHand[p])
         /\ checked'[p] = Append(checked[p], inHand[p])
         /\ \A q \in Provider \ {p} :
              /\ ethereumHeaderNumbers'[q] = ethereumHeaderNumbers[q]
              /\ ethereumHeaders'[q] = ethereumHeaders[q]
              /\ checked'[q] = checked[q] /\ comparing[q] = Idle
         /\ PerProvider'
<1>1. /\ comparing[p] = Seeds + 1 /\ comparing[p] # Idle
      /\ mux' = Unlocked /\ UNCHANGED <<headerChannel, announced, evidence, refused>>
      /\ inHand' = [inHand EXCEPT ![p] = NoHead]
      /\ comparing' = [comparing EXCEPT ![p] = Idle]
      /\ ethereumHeaderNumbers' =
           [ethereumHeaderNumbers EXCEPT ![p] = Append(Trimmed(p), inHand[p].number)]
      /\ ethereumHeaders' = [ethereumHeaders EXCEPT ![p] = Cached(TrimmedHeaders(p), inHand[p])]
      /\ checked' = [checked EXCEPT ![p] = Append(@, inHand[p])]
  BY ProviderNumbers DEF Store, feed, Idle, submissions
<1>2. inHand[p] \in Heads /\ mux = p
  BY <1>1 DEF MonitorInv, CheckerOK
<1>3. \A q \in Provider \ {p} : comparing[q] = Idle
  BY <1>2 DEF MonitorInv, CheckerOK
<1>4. /\ DOMAIN ethereumHeaderNumbers = Provider /\ DOMAIN checked = Provider
      /\ DOMAIN ethereumHeaders = Provider
  BY DEF MonitorInv, MonitorTypeOK, PerProvider
<1>5. ethereumHeaders' = [q \in Provider |-> ethereumHeaders'[q]]
  BY <1>1, <1>4
<1>6. checked' \in [Provider -> Seq(Heads)]
  <2>1. Append(checked[p], inHand[p]) \in Seq(Heads)
    BY <1>2 DEF MonitorInv, PerProvider
  <2> QED
    BY <1>1, <2>1 DEF MonitorInv, PerProvider
<1> QED
  BY <1>1, <1>2, <1>3, <1>4, <1>5, <1>6 DEF PerProvider

\* The lists before and after, as sequences of numbers.
LEMMA StoreLists ==
  ASSUME MonitorInv, NEW p \in Provider, Store(p)
  PROVE  LET old == ethereumHeaderNumbers[p]
             new == ethereumHeaderNumbers'[p]
         IN /\ old \in Seq(Int) /\ new \in Seq(Int) /\ Len(old) \in Nat
            /\ inHand[p].number \in Int
            /\ Full(p) => /\ Len(old) = maxCacheHeader /\ Len(new) = Len(old)
                          /\ Head(old) = old[1]
                          /\ \A i \in 1..(Len(old) - 1) : new[i] = old[i + 1]
            /\ ~Full(p) => /\ Len(old) < maxCacheHeader /\ Len(new) = Len(old) + 1
                           /\ \A i \in 1..Len(old) : new[i] = old[i]
            /\ new[Len(new)] = inHand[p].number
<1> DEFINE old == ethereumHeaderNumbers[p]
           new == ethereumHeaderNumbers'[p]
<1>1. old \in Seq(Int) /\ Len(old) \in Nat /\ inHand[p].number \in Int /\ Len(old) <= maxCacheHeader
  <2>1. inHand[p] \in Heads
    BY StoreCaches
  <2>2. old \in Seq(Int) /\ Len(old) <= maxCacheHeader
    BY DEF MonitorInv, MonitorTypeOK, CacheBounded
  <2> QED
    BY <2>1, <2>2, MonitorAssumption
<1>2. new = Append(Trimmed(p), inHand[p].number)
  BY StoreCaches
<1>3. CASE Full(p)
  <2>1. Len(old) = maxCacheHeader /\ old # <<>>
    BY <1>1, <1>3, ProviderNumbers DEF Full
  <2>2. Trimmed(p) = Tail(old) /\ Tail(old) \in Seq(Int) /\ Len(Tail(old)) = Len(old) - 1
    BY <1>1, <1>3, <2>1 DEF Trimmed
  <2>3. /\ new \in Seq(Int) /\ Len(new) = Len(old) /\ new[Len(new)] = inHand[p].number
        /\ \A i \in 1..(Len(old) - 1) : new[i] = Tail(old)[i]
    BY <1>1, <1>2, <2>1, <2>2
  <2>4. Head(old) = old[1] /\ \A i \in 1..(Len(old) - 1) : Tail(old)[i] = old[i + 1]
    BY <1>1, <2>1
  <2> QED
    BY <1>1, <1>3, <2>1, <2>3, <2>4
<1>4. CASE ~Full(p)
  <2>1. Trimmed(p) = old /\ Len(old) < maxCacheHeader
    BY <1>1, <1>4, ProviderNumbers DEF Trimmed, Full
  <2> QED
    BY <1>1, <1>2, <1>4, <2>1
<1> QED
  BY <1>3, <1>4

\* The map before and after: only the oldest number is given up.
LEMMA StoreMap ==
  ASSUME MonitorInv, NEW p \in Provider, Store(p)
  PROVE  LET h == inHand[p]
             old == ethereumHeaders[p]
             new == ethereumHeaders'[p]
         IN /\ h.number \in DOMAIN new /\ new[h.number] = h
            /\ \A n \in DOMAIN new \ {h.number} :
                 n \in DOMAIN old /\ new[n] = old[n]
            /\ \A n \in DOMAIN new \ {h.number} : Full(p) => n # Head(ethereumHeaderNumbers[p])
            /\ \A n \in DOMAIN old :
                 ~Full(p) \/ n # Head(ethereumHeaderNumbers[p]) => n \in DOMAIN new
<1> DEFINE h == inHand[p]
           old == ethereumHeaders[p]
           trimmed == TrimmedHeaders(p)
<1>1. Full(p) => /\ DOMAIN trimmed = DOMAIN old \ {Head(ethereumHeaderNumbers[p])}
                 /\ \A n \in DOMAIN trimmed : trimmed[n] = old[n]
  BY DEF TrimmedHeaders, Without
<1>2. ~Full(p) => trimmed = old
  BY DEF TrimmedHeaders
<1> HIDE DEF trimmed
<1>3. ethereumHeaders'[p] = Cached(trimmed, h)
  BY StoreCaches DEF trimmed
<1>4. /\ DOMAIN ethereumHeaders'[p] = DOMAIN trimmed \cup {h.number}
      /\ \A n \in DOMAIN ethereumHeaders'[p] :
           ethereumHeaders'[p][n] = IF n = h.number THEN h ELSE trimmed[n]
  BY <1>3 DEF Cached
<1> QED
  BY <1>1, <1>2, <1>4

LEMMA StoreKeepsTypes ==
  ASSUME MonitorInv, NEW p \in Provider, Store(p) PROVE MonitorTypeOK' /\ PerProvider'
<1>1. /\ headerChannel' \in [Provider -> Seq(Heads \cup {NoHead})]
      /\ announced' \in [Provider -> 0..MaxHeads]
      /\ mux' \in Provider \cup {Unlocked}
  BY StoreCaches DEF MonitorInv, MonitorTypeOK
<1>2. inHand' \in [Provider -> Heads \cup {NoHead}] /\ comparing' \in [Provider -> 0..(Seeds + 1)]
  <2>1. /\ inHand \in [Provider -> Heads \cup {NoHead}] /\ comparing \in [Provider -> 0..(Seeds + 1)]
        /\ Idle \in 0..(Seeds + 1)
    BY ProviderNumbers DEF MonitorInv, MonitorTypeOK, Idle
  <2>2. inHand' = [inHand EXCEPT ![p] = NoHead] /\ comparing' = [comparing EXCEPT ![p] = Idle]
    BY StoreCaches
  <2> QED
    BY <2>1, <2>2
<1>4. ethereumHeaderNumbers' \in [Provider -> Seq(Int)]
  <2>1. ethereumHeaderNumbers'[p] \in Seq(Int)
    BY StoreLists
  <2> QED
    BY <2>1, StoreCaches DEF MonitorInv, MonitorTypeOK
<1>5. ASSUME NEW q \in Provider, NEW n \in DOMAIN ethereumHeaders'[q]
      PROVE  ethereumHeaders'[q][n] \in Heads /\ ethereumHeaders'[q][n].number = n
  <2>0. \A r \in Provider : \A k \in DOMAIN ethereumHeaders[r] :
          ethereumHeaders[r][k] \in Heads /\ ethereumHeaders[r][k].number = k
    BY DEF MonitorInv, MonitorTypeOK
  <2>1. CASE q # p
    <3>1. ethereumHeaders'[q] = ethereumHeaders[q]
      BY <2>1, StoreCaches
    <3> QED
      BY <1>5, <2>0, <3>1
  <2>2. CASE q = p /\ n = inHand[p].number
    BY <2>2, StoreCaches, StoreMap
  <2>3. CASE q = p /\ n # inHand[p].number
    <3>1. n \in DOMAIN ethereumHeaders[p] /\ ethereumHeaders'[p][n] = ethereumHeaders[p][n]
      BY <1>5, <2>3, StoreMap
    <3> QED
      BY <2>0, <2>3, <3>1
  <2> QED
    BY <2>1, <2>2, <2>3
<1>6. evidence' \cup refused' \subseteq SUBSET Heads
  BY StoreCaches DEF MonitorInv, MonitorTypeOK
<1> QED
  BY <1>1, <1>2, <1>4, <1>5, <1>6, StoreCaches DEF MonitorTypeOK

\* No number of the map is dropped from the list alone.
LEMMA StoreKeepsBound ==
  ASSUME MonitorInv, NEW p \in Provider, Store(p) PROVE CacheBounded'
<1> DEFINE old == ethereumHeaderNumbers[p]
           new == ethereumHeaderNumbers'[p]
<1> SUFFICES ASSUME NEW q \in Provider
             PROVE  /\ Len(ethereumHeaderNumbers'[q]) <= maxCacheHeader
                    /\ \A n \in DOMAIN ethereumHeaders'[q] :
                         \E i \in DOMAIN ethereumHeaderNumbers'[q] : ethereumHeaderNumbers'[q][i] = n
  BY DEF CacheBounded
<1>1. CASE q # p
  BY <1>1, StoreCaches DEF MonitorInv, CacheBounded
<1>2. CASE q = p
  <2>1. /\ old \in Seq(Int) /\ new \in Seq(Int) /\ Len(old) \in Nat
        /\ Full(p) => /\ Len(old) = maxCacheHeader /\ Len(new) = Len(old)
                      /\ Head(old) = old[1]
                      /\ \A i \in 1..(Len(old) - 1) : new[i] = old[i + 1]
        /\ ~Full(p) => /\ Len(old) < maxCacheHeader /\ Len(new) = Len(old) + 1
                       /\ \A i \in 1..Len(old) : new[i] = old[i]
        /\ new[Len(new)] = inHand[p].number
    BY StoreLists
  <2>2. /\ Len(new) <= maxCacheHeader /\ Len(new) \in 1..Len(new)
        /\ DOMAIN old = 1..Len(old) /\ DOMAIN new = 1..Len(new)
    <3>1. maxCacheHeader \in Nat \ {0} /\ Len(old) \in Nat
      BY <2>1, ProviderNumbers
    <3>2. old \in Seq(Int) /\ new \in Seq(Int)
      BY <2>1
    <3>3. \/ Len(old) = maxCacheHeader /\ Len(new) = Len(old)
          \/ Len(old) < maxCacheHeader /\ Len(new) = Len(old) + 1
      BY <2>1
    <3> HIDE DEF old, new
    <3>4. DOMAIN old = 1..Len(old) /\ DOMAIN new = 1..Len(new)
      BY <3>2
    <3>5. ASSUME NEW m \in Nat \ {0}, NEW k \in Nat, NEW l,
                 (k = m /\ l = k) \/ (k < m /\ l = k + 1)
          PROVE  l <= m /\ l \in 1..l
      BY <3>5
    <3>6. Len(new) <= maxCacheHeader /\ Len(new) \in 1..Len(new)
      BY <3>1, <3>3, <3>5
    <3> QED
      BY <3>4, <3>6
  <2>3. ASSUME NEW n \in DOMAIN ethereumHeaders'[p] PROVE \E i \in DOMAIN new : new[i] = n
    <3>1. CASE n = inHand[p].number
      BY <2>1, <2>2, <3>1
    <3>2. CASE n # inHand[p].number
      <4>1. n \in DOMAIN ethereumHeaders[p] /\ (Full(p) => n # Head(old))
        BY <2>3, <3>2, StoreMap
      <4>2. PICK i \in DOMAIN old : old[i] = n
        BY <4>1 DEF MonitorInv, CacheBounded
      <4>3. CASE Full(p)
        <5>1. i # 1 /\ i \in 1..Len(old)
          BY <2>1, <2>2, <4>1, <4>2, <4>3
        <5>2. (i - 1) \in 1..(Len(old) - 1) /\ (i - 1) + 1 = i
          <6>1. Len(old) \in Nat
            BY <2>1
          <6> HIDE DEF old
          <6> QED
            BY <5>1, <6>1
        <5>3. new[i - 1] = old[i]
          BY <2>1, <4>3, <5>2
        <5>4. (i - 1) \in DOMAIN new
          BY <2>1, <2>2, <4>3, <5>2
        <5> QED
          BY <4>2, <5>3, <5>4
      <4>4. CASE ~Full(p)
        <5>1. i \in 1..Len(old) /\ i \in DOMAIN new /\ new[i] = old[i]
          <6>1. i \in 1..Len(old)
            BY <2>2
          <6>2. new[i] = old[i] /\ Len(old) \in Nat /\ Len(new) = Len(old) + 1
            BY <2>1, <4>4, <6>1
          <6>3. DOMAIN new = 1..Len(new)
            BY <2>2
          <6> HIDE DEF old, new
          <6> QED
            BY <6>1, <6>2, <6>3
        <5> QED
          BY <4>2, <5>1
      <4> QED
        BY <4>3, <4>4
    <3> QED
      BY <3>1, <3>2
  <2> QED
    BY <1>2, <2>2, <2>3
<1> QED
  BY <1>1, <1>2

\* The new header has been compared with every cache, its own included; two
\* headers under one number of one provider are the same.
LEMMA StoreKeepsConflicts ==
  ASSUME MonitorInv, NEW p \in Provider, Store(p) PROVE ConflictFound' /\ CheckerOK'
<1> DEFINE h == inHand[p]
<1>1. \A q \in Provider : Proves(q, h) => {h, ethereumHeaders[q][h.number]} \in evidence \cup refused
  <2>1. comparing[p] = Seeds + 1 /\ comparing[p] # Idle
    BY StoreCaches, ProviderNumbers DEF Idle
  <2>2. \A q \in Provider : q < comparing[p]
    BY <2>1, ProviderNumbers
  <2> QED
    BY <2>1, <2>2 DEF MonitorInv, CheckerOK
<1>2. ASSUME NEW q \in Provider, NEW n \in DOMAIN ethereumHeaders'[q]
      PROVE  \/ q = p /\ n = h.number /\ ethereumHeaders'[q][n] = h
             \/ n \in DOMAIN ethereumHeaders[q] /\ ethereumHeaders'[q][n] = ethereumHeaders[q][n]
  <2>1. CASE q = p
    BY <1>2, <2>1, StoreMap
  <2>2. CASE q # p
    BY <1>2, <2>2, StoreCaches
  <2> QED
    BY <2>1, <2>2
<1>3. evidence' = evidence /\ refused' = refused
  BY StoreCaches
<1>4. ASSUME NEW q \in Provider, NEW r \in Provider,
             NEW n \in DOMAIN ethereumHeaders'[q] \cap DOMAIN ethereumHeaders'[r],
             isDoubleSignHeaders(ethereumHeaders'[q][n], ethereumHeaders'[r][n])
      PROVE  {ethereumHeaders'[q][n], ethereumHeaders'[r][n]} \in evidence \cup refused
  <2> DEFINE x == ethereumHeaders'[q][n]
             y == ethereumHeaders'[r][n]
  <2>1. isDoubleSignHeaders(y, x) /\ q # r
    BY <1>4, ConflictSymmetric
  <2>2. CASE q = p /\ n = h.number /\ x = h
    <3>1. n \in DOMAIN ethereumHeaders[r] /\ y = ethereumHeaders[r][n]
      BY <1>2, <1>4, <2>1, <2>2
    <3>2. Proves(r, h)
      BY <1>4, <2>2, <3>1 DEF Proves, CachedAs
    <3> QED
      BY <1>1, <2>2, <3>1, <3>2
  <2>3. CASE r = p /\ n = h.number /\ y = h
    <3>1. n \in DOMAIN ethereumHeaders[q] /\ x = ethereumHeaders[q][n]
      BY <1>2, <1>4, <2>1, <2>3
    <3>2. Proves(q, h)
      BY <2>1, <2>3, <3>1 DEF Proves, CachedAs
    <3>3. {x, y} = {h, ethereumHeaders[q][h.number]}
      BY <2>3, <3>1
    <3> QED
      BY <1>1, <3>2, <3>3
  <2>4. CASE /\ n \in DOMAIN ethereumHeaders[q] /\ x = ethereumHeaders[q][n]
             /\ n \in DOMAIN ethereumHeaders[r] /\ y = ethereumHeaders[r][n]
    <3>1. n \in DOMAIN ethereumHeaders[q] \cap DOMAIN ethereumHeaders[r]
      BY <2>4
    <3> QED
      BY <1>4, <2>4, <3>1 DEF MonitorInv, ConflictFound
  <2> QED
    BY <1>2, <1>4, <2>2, <2>3, <2>4
<1>5. ConflictFound'
  BY <1>3, <1>4 DEF ConflictFound
<1>6. \A q \in Provider : comparing'[q] = Idle
  <2>1. comparing' = [comparing EXCEPT ![p] = Idle] /\ \A q \in Provider \ {p} : comparing[q] = Idle
    BY StoreCaches
  <2>2. DOMAIN comparing = Provider
    BY DEF MonitorInv, MonitorTypeOK
  <2> QED
    BY <2>1, <2>2
<1> QED
  BY <1>5, <1>6 DEF CheckerOK
\* What was checked before, and the header that now joins it.
LEMMA StoreChecked ==
  ASSUME MonitorInv, NEW p \in Provider, Store(p)
  PROVE  /\ Len(checked[p]) \in Nat /\ DOMAIN checked[p] = 1..Len(checked[p])
         /\ Len(checked'[p]) = Len(checked[p]) + 1
         /\ DOMAIN checked'[p] = 1..(Len(checked[p]) + 1)
         /\ \A i \in 1..Len(checked[p]) : checked'[p][i] = checked[p][i]
         /\ checked'[p][Len(checked[p]) + 1] = inHand[p]
<1>1. checked[p] \in Seq(Heads) /\ inHand[p] \in Heads
  BY StoreCaches DEF MonitorInv, PerProvider
<1>2. checked'[p] = Append(checked[p], inHand[p])
  BY StoreCaches
<1> QED
  BY <1>1, <1>2

\* Where the entries of a full list stand when one more was checked.
LEMMA Shift ==
  ASSUME NEW c \in Nat, NEW l \in Nat, l <= c, NEW i \in 1..(l - 1)
  PROVE  (i + 1) \in 1..l /\ c - l + (i + 1) = (c + 1) - l + i /\ ((c + 1) - l + i) \in 1..c
OBVIOUS

LEMMA StoreKeepsList ==
  ASSUME MonitorInv, NEW p \in Provider, Store(p) PROVE ListOK'
<1> DEFINE old == ethereumHeaderNumbers[p]
           new == ethereumHeaderNumbers'[p]
           C == Len(checked[p])
           L == Len(old)
<1> SUFFICES ASSUME NEW q \in Provider
             PROVE  /\ Len(ethereumHeaderNumbers'[q]) <= Len(checked'[q])
                    /\ Len(checked'[q]) > Len(ethereumHeaderNumbers'[q]) =>
                         Len(ethereumHeaderNumbers'[q]) >= maxCacheHeader
                    /\ \A i \in DOMAIN ethereumHeaderNumbers'[q] :
                         ethereumHeaderNumbers'[q][i] =
                           checked'[q][Len(checked'[q]) - Len(ethereumHeaderNumbers'[q]) + i].number
  BY DEF ListOK, Full
<1>1. CASE q # p
  <2>1. ethereumHeaderNumbers'[q] = ethereumHeaderNumbers[q] /\ checked'[q] = checked[q]
    BY <1>1, StoreCaches
  <2> QED
    BY <2>1 DEF MonitorInv, ListOK, Full
<1>2. CASE q = p
  <2>1. /\ old \in Seq(Int) /\ new \in Seq(Int) /\ L \in Nat
        /\ Full(p) => /\ L = maxCacheHeader /\ Len(new) = L
                      /\ \A i \in 1..(L - 1) : new[i] = old[i + 1]
        /\ ~Full(p) => /\ Len(new) = L + 1
                       /\ \A i \in 1..L : new[i] = old[i]
        /\ new[Len(new)] = inHand[p].number
    BY StoreLists
  <2>2. DOMAIN old = 1..L /\ DOMAIN new = 1..Len(new)
    BY <2>1
  <2>3. /\ C \in Nat /\ Len(checked'[p]) = C + 1 /\ checked'[p][C + 1] = inHand[p]
        /\ \A i \in 1..C : checked'[p][i] = checked[p][i]
    BY StoreChecked
  <2>4. /\ L <= C /\ (C > L => Full(p))
        /\ \A i \in 1..L : old[i] = checked[p][C - L + i].number
    BY <2>2 DEF MonitorInv, ListOK
  <2>5. CASE Full(p)
    <3>1. ASSUME NEW i \in 1..L PROVE new[i] = checked'[p][(C + 1) - L + i].number
      <4>1. CASE i = L
        <5>1. (C + 1) - L + i = C + 1
          BY <2>1, <2>3, <4>1
        <5> QED
          BY <2>1, <2>3, <2>5, <4>1, <5>1
      <4>2. CASE i # L
        <5>1. L \in Nat /\ C \in Nat /\ L <= C
          BY <2>1, <2>3, <2>4
        <5>2. i \in 1..(L - 1)
          BY <3>1, <4>2, <5>1
        <5> HIDE DEF C, L
        <5>3. (i + 1) \in 1..L /\ C - L + (i + 1) = (C + 1) - L + i /\ ((C + 1) - L + i) \in 1..C
          BY <5>1, <5>2, Shift
        <5>4. new[i] = old[i + 1] /\ old[i + 1] = checked[p][C - L + (i + 1)].number
          BY <2>1, <2>4, <2>5, <5>2, <5>3
        <5>5. checked'[p][(C + 1) - L + i] = checked[p][(C + 1) - L + i]
          BY <2>3, <5>3
        <5> QED
          BY <5>3, <5>4, <5>5
      <4> QED
        BY <4>1, <4>2
    <3>2. Len(new) = L /\ L = maxCacheHeader /\ DOMAIN new = 1..L /\ Len(checked'[p]) = C + 1
      BY <2>1, <2>2, <2>3, <2>5
    <3>3. L <= C + 1 /\ L >= maxCacheHeader
      BY <2>1, <2>3, <2>4, <3>2, ProviderNumbers
    <3> QED
      BY <1>2, <3>1, <3>2, <3>3
  <2>6. CASE ~Full(p)
    <3>1. C = L /\ Len(new) = C + 1
      BY <2>1, <2>3, <2>4, <2>6
    <3>2. ASSUME NEW i \in 1..(C + 1) PROVE new[i] = checked'[p][i].number
      <4>1. CASE i = C + 1
        BY <2>1, <2>3, <3>1, <4>1
      <4>2. CASE i # C + 1
        <5>1. i \in 1..C /\ C - L + i = i
          BY <2>3, <3>1, <3>2, <4>2
        <5> QED
          <6>1. new[i] = old[i] /\ old[i] = checked[p][C - L + i].number
            BY <2>1, <2>4, <2>6, <3>1, <5>1
          <6>2. checked'[p][i] = checked[p][i]
            BY <2>3, <5>1
          <6> QED
            BY <5>1, <6>1, <6>2
      <4> QED
        BY <4>1, <4>2
    <3>3. \A i \in 1..(C + 1) : (C + 1) - (C + 1) + i = i
      BY <2>3
    <3> QED
      BY <1>2, <2>1, <2>2, <2>3, <3>1, <3>2, <3>3
  <2> QED
    BY <2>5, <2>6
<1> QED
  BY <1>1, <1>2

\* Trimming takes the oldest number: a header still in the window loses its
\* place only to its own number.
LEMMA StoreKeepsWindow ==
  ASSUME MonitorInv, NEW p \in Provider, Store(p) PROVE WindowKept'
<1> DEFINE C == Len(checked[p])
<1> SUFFICES ASSUME NEW q \in Provider, NEW i \in DOMAIN checked'[q],
                    i + maxCacheHeader > Len(checked'[q]),
                    \A j \in DOMAIN checked'[q] \ {i} :
                      checked'[q][j].number # checked'[q][i].number
             PROVE  /\ checked'[q][i].number \in DOMAIN ethereumHeaders'[q]
                    /\ ethereumHeaders'[q][checked'[q][i].number] = checked'[q][i]
  BY DEF WindowKept, CachedAs
<1>1. CASE q # p
  <2>1. ethereumHeaders'[q] = ethereumHeaders[q] /\ checked'[q] = checked[q]
    BY <1>1, StoreCaches
  <2> QED
    BY <2>1 DEF MonitorInv, WindowKept, CachedAs
<1>2. CASE q = p
  <2>1. /\ C \in Nat /\ DOMAIN checked[p] = 1..C
        /\ Len(checked'[p]) = C + 1 /\ DOMAIN checked'[p] = 1..(C + 1)
        /\ checked'[p][C + 1] = inHand[p]
        /\ \A j \in 1..C : checked'[p][j] = checked[p][j]
    BY StoreChecked
  <2>2. CASE i = C + 1
    BY <1>2, <2>1, <2>2, StoreMap
  <2>3. CASE i # C + 1
    <3> DEFINE g == checked[p][i]
    <3>1. i \in 1..C /\ checked'[p][i] = g /\ i + maxCacheHeader > C + 1
      BY <1>2, <2>1, <2>3
    <3>2. g.number # inHand[p].number
      BY <1>2, <2>1, <2>3, <3>1
    <3>3. \A j \in 1..C : j # i => checked[p][j].number # g.number
      <4>1. C + 1 \in Nat /\ \A j \in 1..C : j \in 1..(C + 1)
        BY <2>1
      <4>2. \A j \in 1..(C + 1) : j # i => checked'[p][j].number # g.number
        BY <1>2, <2>1, <3>1
      <4> QED
        BY <2>1, <4>1, <4>2
    <3>4. g.number \in DOMAIN ethereumHeaders[p] /\ ethereumHeaders[p][g.number] = g
      <4>1. i + maxCacheHeader > C
        BY <2>1, <3>1, ProviderNumbers
      <4> QED
        BY <2>1, <3>1, <3>3, <4>1 DEF MonitorInv, WindowKept, CachedAs
    <3>5. Full(p) => g.number # Head(ethereumHeaderNumbers[p])
      <4> SUFFICES ASSUME Full(p) PROVE g.number # Head(ethereumHeaderNumbers[p])
        OBVIOUS
      <4>1. /\ ethereumHeaderNumbers[p] \in Seq(Int)
            /\ Len(ethereumHeaderNumbers[p]) = maxCacheHeader
            /\ Head(ethereumHeaderNumbers[p]) = ethereumHeaderNumbers[p][1]
        BY StoreLists
      <4>2. 1 \in DOMAIN ethereumHeaderNumbers[p]
        BY <4>1, ProviderNumbers
      <4>3. /\ maxCacheHeader <= C
            /\ ethereumHeaderNumbers[p][1] = checked[p][C - maxCacheHeader + 1].number
        BY <4>1, <4>2 DEF MonitorInv, ListOK
      <4>4. (C - maxCacheHeader + 1) \in 1..C /\ C - maxCacheHeader + 1 # i
        BY <2>1, <3>1, <4>3, ProviderNumbers
      <4> QED
        BY <3>3, <4>1, <4>3, <4>4
    <3>6. g.number \in DOMAIN ethereumHeaders'[p]
      BY <3>4, <3>5, StoreMap
    <3>7. ethereumHeaders'[p][g.number] = g
      BY <3>2, <3>4, <3>6, StoreMap
    <3> QED
      BY <1>2, <3>1, <3>6, <3>7
  <2> QED
    BY <2>2, <2>3
<1> QED
  BY <1>1, <1>2

LEMMA MonitorInvInductive == MonitorInv /\ [MonitorNext]_monitorVars => MonitorInv'
<1>1. ASSUME MonitorInv, UNCHANGED monitorVars PROVE MonitorInv'
  <2>1. UNCHANGED <<caches, submissions>> /\ UNCHANGED <<headerChannel, announced, mux, inHand, comparing>>
    BY <1>1 DEF monitorVars, caches, submissions
  <2>2. MonitorTypeOK'
    BY <1>1, <2>1 DEF MonitorInv, MonitorTypeOK, caches, submissions
  <2>3. CheckerOK'
    BY <1>1, <2>1, CachesUntouched DEF MonitorInv, CheckerOK, caches, submissions
  <2> QED
    BY <1>1, <2>1, <2>2, <2>3, CachesUntouched DEF MonitorInv
<1>2. ASSUME MonitorInv, NEW p \in Provider, Store(p) PROVE MonitorInv'
  BY <1>2, StoreKeepsTypes, StoreKeepsBound, StoreKeepsConflicts, StoreKeepsList, StoreKeepsWindow
     DEF MonitorInv
<1> QED
  BY <1>1, <1>2, AnnounceKeeps, ReceiveKeeps, CompareKeeps DEF MonitorNext

\* The invariant the theorems below rest on.
THEOREM MonitorInvariance == MonitorSpec => []MonitorInv
BY MonitorInvInitially, MonitorInvInductive, PTL DEF MonitorSpec

\* For any number of providers and any cache size: whatever is cached under
\* one number and proves a double sign was submitted, whichever goroutine
\* came first.
THEOREM ConflictsSubmitted == MonitorSpec => []ConflictFound
<1>1. MonitorInv => ConflictFound
  BY DEF MonitorInv
<1> QED
  BY <1>1, MonitorInvariance, PTL

\* For any number of headers the caches stay within maxCacheHeader.
THEOREM MemoryBounded == MonitorSpec => []CacheBounded
<1>1. MonitorInv => CacheBounded
  BY DEF MonitorInv
<1> QED
  BY <1>1, MonitorInvariance, PTL

\* For any cache size the last maxCacheHeader headers stay cached, but for
\* those whose number was repeated.
THEOREM WindowRemembered == MonitorSpec => []WindowKept
<1>1. MonitorInv => WindowKept
  BY DEF MonitorInv
<1> QED
  BY <1>1, MonitorInvariance, PTL
===============================================================================
