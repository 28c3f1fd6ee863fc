------------------------------- MODULE ErpCache -------------------------------
(***************************************************************************)
(* ApiClient and TTLCache: calls of cacheable (GET) endpoints through a    *)
(* bounded cache with a time-to-live.                                      *)
(*                                                                         *)
(* The bodies of TTLCache.get and set await nothing, so each is one step.  *)
(* Between a miss and the matching set lies the request, during which the  *)
(* other tasks run and the ERP's data may change.                          *)
(***************************************************************************)
EXTENDS Integers, SequencesExt

CONSTANTS
  Tasks,       \* the coroutines that call the client
  Apis,        \* names of cacheable endpoints
  Params,      \* path and query parameters
  Error,       \* an error result
  Ttl,         \* TTLCache._ttl
  MaxEntries,  \* TTLCache._max
  MaxClock,    \* bound: how long the clock runs
  MaxVersion   \* bound: how often the data behind a request changes

ASSUME CacheAssumption ==
  /\ Ttl \in Nat /\ MaxEntries \in Nat /\ MaxClock \in Nat /\ MaxVersion \in Nat
  /\ Error \notin 0..MaxVersion
  /\ Apis # {} /\ Params # {}

VARIABLES
  clock,  \* time.monotonic()
  data,   \* the ERP: the version of what each request returns
  store,  \* TTLCache._store, in the order of the OrderedDict
  call,   \* the call each task is making
  told,   \* history: the ERP's answers, with the time they arrived
  reply   \* history: the last result returned, to whatever task

cache == <<clock, data, store, call, told, reply>>

Requests == Apis \X Params
Versions == 0..MaxVersion
Entry    == [key : Requests \cup Apis, expires : Nat, value : Versions]
Call     == [at : {"idle", "fetching", "arriving"}, request : Requests, value : Versions]

Init ==
  /\ clock = 0
  /\ data = [r \in Requests |-> 0]
  /\ store = <<>>
  /\ call \in [Tasks -> [at : {"idle"}, request : {CHOOSE r \in Requests : TRUE}, value : {0}]]
  /\ told = {}
  /\ reply = {}

(* ApiClient._cache_key: the name and every parameter.                     *)
CacheKey_NameOnly(r) == r[1]
CacheKey(r) == r

Find(key)    == {i \in DOMAIN store : store[i].key = key}
Without(key) ==
  IF Find(key) = {} THEN store ELSE RemoveAt(store, CHOOSE i \in Find(key) : TRUE)

(* OrderedDict.move_to_end: the entry keeps its value and its expiry.      *)
Touched(i) == Append(Without(store[i].key), store[i])

(* while len(store) > max: popitem(last=False)                              *)
Evicted_None(entries) == entries
Evicted(entries) ==
  IF Len(entries) <= MaxEntries THEN entries
  ELSE SubSeq(entries, Len(entries) - MaxEntries + 1, Len(entries))

Replied(r, v) == reply' = {[request |-> r, value |-> v]}

-----------------------------------------------------------------------------
(* TTLCache.get finds an entry that has not expired.                       *)
Hit(t, r) ==
  /\ call[t].at = "idle"
  /\ \E i \in Find(CacheKey(r)) :
       /\ clock < store[i].expires
       /\ Replied(r, store[i].value)
       /\ store' = Touched(i)
  /\ UNCHANGED <<clock, data, call, told>>

(* It finds nothing, or an entry that has expired, which it deletes.       *)
Miss(t, r) ==
  /\ call[t].at = "idle"
  /\ \A i \in Find(CacheKey(r)) : clock >= store[i].expires
  /\ store' = Without(CacheKey(r))
  /\ call' = [call EXCEPT ![t].at = "fetching", ![t].request = r]
  /\ UNCHANGED <<clock, data, told, reply>>

(* The ERP reads the data; its answer is under way.                        *)
Serve(t) ==
  /\ call[t].at = "fetching"
  /\ call' = [call EXCEPT ![t].at = "arriving", ![t].value = data[call[t].request]]
  /\ UNCHANGED <<clock, data, store, told, reply>>

(* The answer arrives, is stored and returned.                             *)
Arrive(t) ==
  LET r == call[t].request
      v == call[t].value
  IN /\ call[t].at = "arriving"
     /\ store' = Evicted(Append(Without(CacheKey(r)),
                                [key |-> CacheKey(r), expires |-> clock + Ttl, value |-> v]))
     /\ told' = told \cup {[request |-> r, value |-> v, at |-> clock]}
     /\ Replied(r, v)
     /\ call' = [call EXCEPT ![t].at = "idle", ![t].value = 0]
     /\ UNCHANGED <<clock, data>>

(* The call fails: the error is returned and not stored.                   *)
Fail(t) ==
  /\ call[t].at # "idle"
  /\ Replied(call[t].request, Error)
  /\ call' = [call EXCEPT ![t].at = "idle", ![t].value = 0]
  /\ UNCHANGED <<clock, data, store, told>>

(* The ERP's data changes, and time passes.                                *)
Change ==
  /\ \E r \in Requests : data[r] < MaxVersion /\ data' = [data EXCEPT ![r] = @ + 1]
  /\ UNCHANGED <<clock, store, call, told, reply>>

Tick ==
  /\ clock < MaxClock
  /\ clock' = clock + 1
  /\ UNCHANGED <<data, store, call, told, reply>>

Next ==
  \/ \E t \in Tasks : (\E r \in Requests : Hit(t, r) \/ Miss(t, r))
                        \/ Serve(t) \/ Arrive(t) \/ Fail(t)
  \/ Change \/ Tick

CacheSpec == Init /\ [][Next]_cache

-----------------------------------------------------------------------------
(* The store is bounded and holds one entry per key.                       *)
CacheTypeOK ==
  /\ clock \in 0..MaxClock
  /\ data \in [Requests -> Versions]
  /\ store \in Seq(Entry)
  /\ call \in [Tasks -> Call]
  /\ \A a \in told : a.request \in Requests /\ a.value \in Versions /\ a.at \in 0..clock
  /\ Len(store) <= MaxEntries
  /\ \A i, j \in DOMAIN store : store[i].key = store[j].key => i = j

(* Through hits, misses, evictions and requests that overtake each other,  *)
(* the cache shows only as answers to the very same request that arrived   *)
(* less than the time-to-live ago.                                         *)
Reads == INSTANCE ErpReads WITH Values <- Versions
CacheIsTransparent == Reads!ReadsSpec
=============================================================================
