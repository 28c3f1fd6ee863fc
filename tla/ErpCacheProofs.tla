---------------------------- MODULE ErpCacheProofs ----------------------------
(***************************************************************************)
(* The bounded cache in front of the ERP implements ErpReads: whatever the *)
(* hits, misses, evictions and overtaking requests, a caller sees the      *)
(* answer to its own request, at most the time-to-live old.                *)
(***************************************************************************)
EXTENDS ErpCache, SequenceTheorems, TLAPS

(* Where an entry of the cache comes from: an answer the ERP gave to the   *)
(* request that is its key, kept from its arrival for the time-to-live.    *)
Answered(entry, answers) ==
  \E a \in answers : /\ a.request = entry.key
                     /\ a.value = entry.value
                     /\ entry.expires = a.at + Ttl

CacheInv ==
  /\ CacheTypeOK
  /\ \A i \in DOMAIN store : Answered(store[i], told)

-----------------------------------------------------------------------------
(* Sequences of entries.                                                   *)

Distinct(s) == \A i, j \in DOMAIN s : s[i].key = s[j].key => i = j

(* What is left when one position is removed.                              *)
LEMMA RemoveAtProperties ==
  ASSUME NEW S, NEW s \in Seq(S), NEW i \in DOMAIN s
  PROVE  /\ RemoveAt(s, i) \in Seq(S)
         /\ Len(RemoveAt(s, i)) = Len(s) - 1
         /\ \A k \in 1..(Len(s) - 1) : RemoveAt(s, i)[k] = IF k < i THEN s[k] ELSE s[k + 1]
<1>1. Len(s) \in Nat /\ i \in 1..Len(s)
  OBVIOUS
<1> DEFINE a == SubSeq(s, 1, i - 1)
           b == SubSeq(s, i + 1, Len(s))
<1>2. /\ a \in Seq(S) /\ Len(a) = i - 1
      /\ \A k \in 1..(i - 1) : a[k] = s[k]
  <2>1. 1 \in 1..(Len(s) + 1) /\ i - 1 \in 0..Len(s)
    BY <1>1
  <2> QED BY <1>1, <2>1, SubSeqProperties
<1>3. /\ b \in Seq(S) /\ Len(b) = Len(s) - i
      /\ \A k \in 1..(Len(s) - i) : b[k] = s[i + k]
  <2>1. i + 1 \in 1..(Len(s) + 1) /\ Len(s) \in 0..Len(s)
    BY <1>1
  <2> QED BY <1>1, <2>1, SubSeqProperties
<1>4. RemoveAt(s, i) = a \o b
  BY DEF RemoveAt
<1> HIDE DEF a, b
<1>5. /\ a \o b \in Seq(S)
      /\ Len(a \o b) = Len(a) + Len(b)
      /\ \A k \in 1..(Len(a) + Len(b)) : (a \o b)[k] = IF k <= Len(a) THEN a[k] ELSE b[k - Len(a)]
  BY <1>2, <1>3, ConcatProperties
<1>6. Len(a) + Len(b) = Len(s) - 1
  BY <1>1, <1>2, <1>3
<1>7. ASSUME NEW k \in 1..(Len(s) - 1) PROVE (a \o b)[k] = IF k < i THEN s[k] ELSE s[k + 1]
  <2>1. CASE k < i
    BY <1>1, <1>2, <1>5, <1>6, <2>1
  <2>2. CASE ~(k < i)
    <3>1. k - (i - 1) \in 1..(Len(s) - i) /\ i + (k - (i - 1)) = k + 1
      BY <1>1, <2>2
    <3>2. (a \o b)[k] = b[k - (i - 1)]
      BY <1>1, <1>2, <1>5, <1>6, <2>2
    <3> QED BY <1>3, <2>2, <3>1, <3>2
  <2> QED BY <2>1, <2>2
<1> QED BY <1>4, <1>5, <1>6, <1>7

(* Deleting a key from the store leaves the entries of the other keys.     *)
LEMMA WithoutKey ==
  ASSUME store \in Seq(Entry), Distinct(store), NEW key
  PROVE  /\ Without(key) \in Seq(Entry)
         /\ Len(Without(key)) <= Len(store)
         /\ Find(key) # {} => Len(Without(key)) = Len(store) - 1
         /\ Distinct(Without(key))
         /\ \A i \in DOMAIN Without(key) :
              Without(key)[i].key # key /\ \E j \in DOMAIN store : Without(key)[i] = store[j]
<1>1. CASE Find(key) = {}
  <2>1. Without(key) = store
    BY <1>1 DEF Without
  <2> QED BY <1>1, <2>1 DEF Find
<1>2. CASE Find(key) # {}
  <2> DEFINE p == CHOOSE i \in Find(key) : TRUE
             w == RemoveAt(store, p)
  <2>1. p \in DOMAIN store /\ store[p].key = key
    BY <1>2 DEF Find
  <2>2. Without(key) = w
    BY <1>2 DEF Without
  <2> HIDE DEF p
  <2>3. /\ w \in Seq(Entry) /\ Len(w) = Len(store) - 1
        /\ \A k \in 1..(Len(store) - 1) : w[k] = IF k < p THEN store[k] ELSE store[k + 1]
    BY <2>1, RemoveAtProperties
  <2> HIDE DEF w
  <2>4. DOMAIN store = 1..Len(store) /\ DOMAIN w = 1..(Len(store) - 1) /\ Len(store) \in Nat
    BY <2>3
  <2>5. \A k \in DOMAIN w : \E j \in DOMAIN store :
          w[k] = store[j] /\ j # p /\ j = IF k < p THEN k ELSE k + 1
    BY <2>1, <2>3, <2>4
  <2>6. \A k \in DOMAIN w : w[k].key # key
    BY <2>1, <2>5 DEF Distinct
  <2>7. Distinct(w)
    <3>1. SUFFICES ASSUME NEW k \in DOMAIN w, NEW l \in DOMAIN w, w[k].key = w[l].key
                   PROVE  k = l
      BY DEF Distinct
    <3>2. PICK j \in DOMAIN store : w[k] = store[j] /\ j = IF k < p THEN k ELSE k + 1
      BY <2>5
    <3>3. PICK m \in DOMAIN store : w[l] = store[m] /\ m = IF l < p THEN l ELSE l + 1
      BY <2>5
    <3>4. j = m
      BY <3>1, <3>2, <3>3 DEF Distinct
    <3> QED BY <2>1, <2>4, <3>2, <3>3, <3>4
  <2> QED BY <2>2, <2>3, <2>4, <2>5, <2>6, <2>7
<1> QED BY <1>1, <1>2

(* Appending an entry of a key that is not there.                          *)
LEMMA AppendNewKey ==
  ASSUME NEW s \in Seq(Entry), Distinct(s), NEW e \in Entry, \A i \in DOMAIN s : s[i].key # e.key
  PROVE  /\ Append(s, e) \in Seq(Entry)
         /\ Len(Append(s, e)) = Len(s) + 1
         /\ Distinct(Append(s, e))
         /\ \A i \in DOMAIN Append(s, e) :
              Append(s, e)[i] = e \/ \E j \in DOMAIN s : Append(s, e)[i] = s[j]
<1>1. /\ Len(s) \in Nat /\ DOMAIN s = 1..Len(s) /\ DOMAIN Append(s, e) = 1..(Len(s) + 1)
      /\ \A i \in 1..Len(s) : Append(s, e)[i] = s[i]
      /\ Append(s, e)[Len(s) + 1] = e
      /\ Append(s, e) \in Seq(Entry) /\ Len(Append(s, e)) = Len(s) + 1
  OBVIOUS
<1>2. \A i \in DOMAIN Append(s, e) : i \in DOMAIN s \/ i = Len(s) + 1
  BY <1>1
<1> QED BY <1>1, <1>2 DEF Distinct

(* Eviction keeps the last entries, as many as the cache may hold.         *)
LEMMA EvictedProperties ==
  ASSUME NEW s \in Seq(Entry), Distinct(s)
  PROVE  /\ Evicted(s) \in Seq(Entry)
         /\ Len(Evicted(s)) <= MaxEntries
         /\ Distinct(Evicted(s))
         /\ \A i \in DOMAIN Evicted(s) : \E j \in DOMAIN s : Evicted(s)[i] = s[j]
<1>1. Len(s) \in Nat /\ MaxEntries \in Nat /\ DOMAIN s = 1..Len(s)
  BY CacheAssumption
<1>2. CASE Len(s) <= MaxEntries
  BY <1>2 DEF Evicted
<1>3. CASE ~(Len(s) <= MaxEntries)
  <2> DEFINE m == Len(s) - MaxEntries + 1
             w == SubSeq(s, m, Len(s))
  <2>1. Evicted(s) = w
    BY <1>3 DEF Evicted
  <2>2. m \in 1..(Len(s) + 1) /\ Len(s) \in 0..Len(s)
    BY <1>1, <1>3
  <2>3. /\ w \in Seq(Entry) /\ Len(w) = IF m <= Len(s) THEN Len(s) - m + 1 ELSE 0
        /\ \A i \in 1..(Len(s) - m + 1) : w[i] = s[m + i - 1]
    BY <2>2, SubSeqProperties
  <2> HIDE DEF w
  <2>4. Len(w) = MaxEntries /\ DOMAIN w = 1..MaxEntries
        /\ \A i \in 1..MaxEntries : m + i - 1 \in DOMAIN s /\ w[i] = s[m + i - 1]
    BY <1>1, <1>3, <2>3
  <2>5. Distinct(w)
    <3>1. SUFFICES ASSUME NEW k \in DOMAIN w, NEW l \in DOMAIN w, w[k].key = w[l].key
                   PROVE  k = l
      BY DEF Distinct
    <3>2. m + k - 1 = m + l - 1
      BY <2>4, <3>1 DEF Distinct
    <3> QED BY <1>1, <2>4, <3>2
  <2> QED BY <1>1, <2>1, <2>3, <2>4, <2>5
<1> QED BY <1>2, <1>3

-----------------------------------------------------------------------------
(* The invariant.                                                          *)

(* At first the cache is empty and every task idle.                        *)
LEMMA CacheInit == Init => CacheInv
<1> SUFFICES ASSUME Init PROVE CacheInv
  OBVIOUS
<1>1. Requests # {}
  <2>1. PICK a \in Apis, p \in Params : TRUE
    BY CacheAssumption
  <2>2. <<a, p>> \in Requests
    BY DEF Requests
  <2> QED BY <2>2
<1>2. (CHOOSE r \in Requests : TRUE) \in Requests
  BY <1>1
<1>3. 0 \in Versions /\ 0 \in 0..MaxClock /\ 0 <= MaxEntries
  BY CacheAssumption DEF Versions
<1>4. call \in [Tasks -> Call]
  BY <1>2, <1>3 DEF Init, Call
<1>5. store \in Seq(Entry) /\ Len(store) = 0 /\ DOMAIN store = {}
  BY DEF Init
<1> QED BY <1>3, <1>4, <1>5 DEF Init, CacheInv, CacheTypeOK

(* The store after a step that keeps the answers told.                     *)
LEMMA StoreKept ==
  ASSUME CacheInv, told \subseteq told', clock' \in 0..MaxClock,
         data' \in [Requests -> Versions], call' \in [Tasks -> Call],
         \A a \in told' : a.request \in Requests /\ a.value \in Versions /\ a.at \in 0..clock',
         store' \in Seq(Entry), Len(store') <= MaxEntries, Distinct(store'),
         \A i \in DOMAIN store' :
           Answered(store'[i], told') \/ \E j \in DOMAIN store : store'[i] = store[j]
  PROVE  CacheInv'
<1>1. \A i \in DOMAIN store' : Answered(store'[i], told')
  BY DEF CacheInv, Answered
<1> QED BY <1>1 DEF CacheInv, CacheTypeOK, Distinct

(* The clock only advances, so the answers told so far stay in the past.   *)
LEMMA CacheStep == CacheInv /\ [Next]_cache => CacheInv'
<1> SUFFICES ASSUME CacheInv, [Next]_cache PROVE CacheInv'
  OBVIOUS
<1>1. /\ clock \in 0..MaxClock /\ data \in [Requests -> Versions]
      /\ store \in Seq(Entry) /\ Len(store) <= MaxEntries /\ Distinct(store)
      /\ call \in [Tasks -> Call]
      /\ \A a \in told : a.request \in Requests /\ a.value \in Versions /\ a.at \in 0..clock
  BY DEF CacheInv, CacheTypeOK, Distinct
<1>2. clock \in Nat /\ Len(store) \in Nat /\ MaxEntries \in Nat /\ Ttl \in Nat /\ 0 \in Versions
  BY <1>1, CacheAssumption DEF Versions
<1>3. ASSUME NEW t \in Tasks, NEW r \in Requests, Hit(t, r) PROVE CacheInv'
  <2>1. UNCHANGED <<clock, data, call, told>>
    BY <1>3 DEF Hit
  <2>2. PICK i \in DOMAIN store : store' = Touched(i)
    BY <1>3 DEF Hit, Find
  <2> DEFINE w == Without(store[i].key)
  <2>3. /\ w \in Seq(Entry) /\ Len(w) = Len(store) - 1 /\ Distinct(w)
        /\ \A k \in DOMAIN w : w[k].key # store[i].key /\ \E j \in DOMAIN store : w[k] = store[j]
    <3>1. Find(store[i].key) # {}
      BY DEF Find
    <3> QED BY <1>1, <3>1, WithoutKey
  <2>4. store' = Append(w, store[i]) /\ store[i] \in Entry
    BY <1>1, <2>2 DEF Touched
  <2> HIDE DEF w
  <2>5. /\ store' \in Seq(Entry) /\ Len(store') = Len(w) + 1 /\ Distinct(store')
        /\ \A k \in DOMAIN store' : store'[k] = store[i] \/ \E j \in DOMAIN w : store'[k] = w[j]
    BY <2>3, <2>4, AppendNewKey
  <2>6. Len(store') <= MaxEntries
    BY <1>1, <1>2, <2>3, <2>5
  <2>7. \A k \in DOMAIN store' : \E j \in DOMAIN store : store'[k] = store[j]
    BY <2>3, <2>5
  <2> QED BY <1>1, <2>1, <2>5, <2>6, <2>7, StoreKept
<1>4. ASSUME NEW t \in Tasks, NEW r \in Requests, Miss(t, r) PROVE CacheInv'
  <2>1. UNCHANGED <<clock, data, told>> /\ store' = Without(CacheKey(r))
    BY <1>4 DEF Miss
  <2>2. /\ store' \in Seq(Entry) /\ Len(store') <= Len(store) /\ Distinct(store')
        /\ \A k \in DOMAIN store' : \E j \in DOMAIN store : store'[k] = store[j]
    BY <1>1, <2>1, WithoutKey
  <2>3. Len(store') <= MaxEntries
    BY <1>1, <1>2, <2>2
  <2>4. call' \in [Tasks -> Call]
    BY <1>1, <1>4 DEF Miss, Call
  <2> QED BY <1>1, <2>1, <2>2, <2>3, <2>4, StoreKept
<1>5. ASSUME NEW t \in Tasks, Serve(t) PROVE CacheInv'
  <2>1. call' \in [Tasks -> Call]
    BY <1>1, <1>5 DEF Serve, Call
  <2> QED BY <1>1, <1>5, <2>1, StoreKept DEF Serve
<1>6. ASSUME NEW t \in Tasks, Fail(t) PROVE CacheInv'
  <2>1. call' \in [Tasks -> Call]
    BY <1>1, <1>2, <1>6 DEF Fail, Call
  <2> QED BY <1>1, <1>6, <2>1, StoreKept DEF Fail
<1>7. ASSUME NEW t \in Tasks, Arrive(t) PROVE CacheInv'
  <2> DEFINE r == call[t].request
             v == call[t].value
             e == [key |-> r, expires |-> clock + Ttl, value |-> v]
             w == Without(r)
  <2>1. r \in Requests /\ v \in Versions
    BY <1>1 DEF Call
  <2>2. /\ UNCHANGED <<clock, data>>
        /\ store' = Evicted(Append(w, e))
        /\ told' = told \cup {[request |-> r, value |-> v, at |-> clock]}
        /\ call' = [call EXCEPT ![t].at = "idle", ![t].value = 0]
    BY <1>7 DEF Arrive, CacheKey
  <2>3. call' \in [Tasks -> Call]
    BY <1>1, <1>2, <2>2 DEF Call
  <2>4. e \in Entry /\ e.key = r
    BY <1>2, <2>1 DEF Entry
  <2>5. Answered(e, told')
    <3>1. [request |-> r, value |-> v, at |-> clock] \in told'
      BY <2>2
    <3> QED BY <3>1 DEF Answered
  <2>6. \A a \in told' : a.request \in Requests /\ a.value \in Versions /\ a.at \in 0..clock'
    BY <1>1, <1>2, <2>1, <2>2
  <2>7. /\ w \in Seq(Entry) /\ Distinct(w)
        /\ \A k \in DOMAIN w : w[k].key # r /\ \E j \in DOMAIN store : w[k] = store[j]
    BY <1>1, WithoutKey
  <2> HIDE DEF w, e, r, v
  <2>8. /\ Append(w, e) \in Seq(Entry) /\ Distinct(Append(w, e))
        /\ \A k \in DOMAIN Append(w, e) :
             Append(w, e)[k] = e \/ \E j \in DOMAIN w : Append(w, e)[k] = w[j]
    BY <2>4, <2>7, AppendNewKey
  <2>9. /\ store' \in Seq(Entry) /\ Len(store') <= MaxEntries /\ Distinct(store')
        /\ \A k \in DOMAIN store' : \E j \in DOMAIN Append(w, e) : store'[k] = Append(w, e)[j]
    BY <2>2, <2>8, EvictedProperties
  <2>10. \A k \in DOMAIN store' : store'[k] = e \/ \E j \in DOMAIN store : store'[k] = store[j]
    BY <2>7, <2>8, <2>9
  <2> QED BY <1>1, <2>2, <2>3, <2>5, <2>6, <2>9, <2>10, StoreKept
<1>8. ASSUME Change PROVE CacheInv'
  <2>1. data' \in [Requests -> Versions]
    BY <1>1, <1>8, CacheAssumption DEF Change, Versions
  <2> QED BY <1>1, <1>8, <2>1, StoreKept DEF Change
<1>9. ASSUME Tick PROVE CacheInv'
  <2>1. clock' \in 0..MaxClock /\ \A n \in 0..clock : n \in 0..clock'
    BY <1>1, <1>2, <1>9, CacheAssumption DEF Tick
  <2> QED BY <1>1, <1>9, <2>1, StoreKept DEF Tick
<1>10. ASSUME UNCHANGED cache PROVE CacheInv'
  BY <1>10 DEF cache, CacheInv, CacheTypeOK, Answered
<1> QED BY <1>3, <1>4, <1>5, <1>6, <1>7, <1>8, <1>9, <1>10 DEF Next

(* The store stays within its bound and never holds two entries of a key.  *)
THEOREM CacheTypeCorrect == CacheSpec => []CacheTypeOK
<1>1. CacheInv => CacheTypeOK
  BY DEF CacheInv
<1> QED BY <1>1, CacheInit, CacheStep, PTL DEF CacheSpec

-----------------------------------------------------------------------------
(* The refinement: a hit is a recent answer given again, an answer that    *)
(* arrives and a failure are the ERP asked, and the rest is not visible.   *)
LEMMA ReadsStep == CacheInv /\ [Next]_cache => [Reads!Next]_(Reads!reads)
<1> SUFFICES ASSUME CacheInv, Next PROVE Reads!Next \/ UNCHANGED Reads!reads
  BY DEF cache, Reads!reads
<1>1. call \in [Tasks -> Call]
  BY DEF CacheInv, CacheTypeOK
<1>2. ASSUME NEW t \in Tasks, NEW r \in Requests, Hit(t, r) PROVE Reads!Next
  <2>1. PICK i \in DOMAIN store : /\ store[i].key = r /\ clock < store[i].expires
                                  /\ Replied(r, store[i].value)
    BY <1>2 DEF Hit, Find, CacheKey
  <2>2. PICK a \in told : /\ a.request = r /\ a.value = store[i].value
                          /\ store[i].expires = a.at + Ttl
    BY <2>1 DEF CacheInv, Answered
  <2>3. Reads!Remember(r) /\ clock' = clock
    BY <1>2, <2>1, <2>2 DEF Hit, Replied, Reads!Remember
  <2> QED BY <2>3 DEF Reads!Next
<1>3. ASSUME NEW t \in Tasks, Arrive(t) PROVE Reads!Next
  <2>1. call[t].request \in Requests /\ call[t].value \in Versions
    BY <1>1 DEF Call
  <2>2. Reads!AskErp(call[t].request) /\ clock' = clock
    BY <1>3, <2>1 DEF Arrive, Replied, Reads!AskErp
  <2> QED BY <2>1, <2>2 DEF Reads!Next
<1>4. ASSUME NEW t \in Tasks, Fail(t) PROVE Reads!Next
  <2>1. call[t].request \in Requests
    BY <1>1 DEF Call
  <2>2. Reads!AskErp(call[t].request) /\ clock' = clock
    BY <1>4 DEF Fail, Replied, Reads!AskErp
  <2> QED BY <2>1, <2>2 DEF Reads!Next
<1>5. ASSUME NEW t \in Tasks, NEW r \in Requests, Miss(t, r) PROVE UNCHANGED Reads!reads
  BY <1>5 DEF Miss, Reads!reads
<1>6. ASSUME NEW t \in Tasks, Serve(t) PROVE UNCHANGED Reads!reads
  BY <1>6 DEF Serve, Reads!reads
<1>7. ASSUME Change PROVE UNCHANGED Reads!reads
  BY <1>7 DEF Change, Reads!reads
<1>8. ASSUME Tick PROVE Reads!Next
  BY <1>8 DEF Tick, Reads!Next
<1> QED BY <1>2, <1>3, <1>4, <1>5, <1>6, <1>7, <1>8 DEF Next

(* Whatever the cache holds, a caller is answered as ErpReads promises:    *)
(* with what the ERP told for that very request less than the time-to-live *)
(* ago, or asked now, or with an error.                                    *)
THEOREM CacheImplementsReads == CacheSpec => CacheIsTransparent
<1>1. Init => Reads!Init
  BY DEF Init, Reads!Init
<1> QED BY <1>1, CacheInit, CacheStep, ReadsStep, PTL
        DEF CacheSpec, CacheIsTransparent, Reads!ReadsSpec
===============================================================================
