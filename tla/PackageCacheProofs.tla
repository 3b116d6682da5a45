------------------------- MODULE PackageCacheProofs -------------------------
(***************************************************************************)
(* Proofs about PackageCache for every set of callers, configs, packages   *)
(* and promise objects, every TTL and cap, and every bound.                *)
(***************************************************************************)
EXTENDS PackageCache, TLAPS, SequenceTheorems

-----------------------------------------------------------------------------
(***************************************************************************)
(* The operators on the Map, as a sequence of entries.                     *)
(***************************************************************************)

UniqueKeys(cache) ==
    \A i, j \in DOMAIN cache : cache[i].key = cache[j].key => i = j

\* Every entry of new is the entry extra or one of old.
OnlyFrom(new, old, extra) ==
    \A i \in DOMAIN new : new[i] = extra \/ \E j \in DOMAIN old : new[i] = old[j]

\* What removing the p-th element of a sequence leaves.
LEMMA RemoveAtLemma ==
    ASSUME NEW S, NEW s \in Seq(S), NEW p \in 1..Len(s)
    PROVE  /\ RemoveAt(s, p) \in Seq(S)
           /\ Len(RemoveAt(s, p)) = Len(s) - 1
           /\ \A i \in 1..Len(RemoveAt(s, p)) :
                 RemoveAt(s, p)[i] = IF i < p THEN s[i] ELSE s[i + 1]
<1> DEFINE left == SubSeq(s, 1, p - 1)
           right == SubSeq(s, p + 1, Len(s))
<1>1. Len(s) \in Nat /\ p \in Nat /\ \A i \in 1..Len(s) : s[i] \in S
  OBVIOUS
<1>2. /\ left \in Seq(S) /\ Len(left) = p - 1
      /\ \A i \in 1..(p - 1) : left[i] = s[i]
  BY <1>1
<1>3. /\ right \in Seq(S) /\ Len(right) = Len(s) - p
      /\ \A i \in 1..(Len(s) - p) : right[i] = s[i + p]
  <2>1. \A i \in (p + 1)..Len(s) : s[i] \in S
    BY <1>1
  <2>2. /\ right \in Seq(S)
        /\ Len(right) = IF p + 1 <= Len(s) THEN Len(s) - (p + 1) + 1 ELSE 0
        /\ \A i \in 1..(Len(s) - (p + 1) + 1) : right[i] = s[(p + 1) + i - 1]
    BY <1>1, <2>1, SubSeqProperties
  <2> HIDE DEF right
  <2> QED
    BY <1>1, <2>2
<1>4. RemoveAt(s, p) = left \o right
  BY DEF RemoveAt
<1> HIDE DEF left, right
<1>5. /\ left \o right \in Seq(S)
      /\ Len(left \o right) = Len(left) + Len(right)
      /\ \A i \in 1..(Len(left) + Len(right)) : (left \o right)[i] =
            IF i <= Len(left) THEN left[i] ELSE right[i - Len(left)]
  BY <1>2, <1>3, ConcatProperties
<1>6. Len(left) + Len(right) = Len(s) - 1
  BY <1>1, <1>2, <1>3
<1>7. ASSUME NEW i \in 1..(Len(s) - 1)
      PROVE  (left \o right)[i] = IF i < p THEN s[i] ELSE s[i + 1]
  <2>1. CASE i < p
    BY <2>1, <1>1, <1>2, <1>5, <1>6
  <2>2. CASE ~(i < p)
    <3>1. (left \o right)[i] = right[i - (p - 1)] /\ i - (p - 1) \in 1..(Len(s) - p)
      BY <2>2, <1>1, <1>2, <1>5, <1>6
    <3>2. right[i - (p - 1)] = s[(i - (p - 1)) + p]
      BY <3>1, <1>3
    <3>3. (i - (p - 1)) + p = i + 1
      BY <1>1
    <3> QED
      BY <2>2, <3>1, <3>2, <3>3
  <2> QED
    BY <2>1, <2>2
<1> QED
  BY <1>4, <1>5, <1>6, <1>7

\* Deleting a key from the Map leaves a Map without that key, with no new entry.
LEMMA DeleteLemma ==
    ASSUME NEW cache \in Seq(Entries), UniqueKeys(cache), NEW key, NEW extra
    PROVE  /\ Delete(cache, key) \in Seq(Entries)
           /\ UniqueKeys(Delete(cache, key))
           /\ OnlyFrom(Delete(cache, key), cache, extra)
           /\ \A i \in DOMAIN Delete(cache, key) : Delete(cache, key)[i].key # key
<1>1. CASE ~Has(cache, key)
  BY <1>1 DEF Delete, Has, OnlyFrom
<1>2. CASE Has(cache, key)
  <2> DEFINE p == Position(cache, key)
             d == RemoveAt(cache, p)
  <2>1. p \in DOMAIN cache /\ cache[p].key = key
    BY <1>2 DEF Has, Position
  <2>2. p \in 1..Len(cache) /\ Len(cache) \in Nat /\ DOMAIN cache = 1..Len(cache)
    BY <2>1
  <2> HIDE DEF p
  <2>4. /\ d \in Seq(Entries)
        /\ Len(d) = Len(cache) - 1
        /\ \A i \in 1..Len(d) : d[i] = IF i < p THEN cache[i] ELSE cache[i + 1]
    BY <2>2, RemoveAtLemma
  <2> HIDE DEF d
  <2>5. DOMAIN d = 1..Len(d)
    BY <2>4
  <2>6. \A i \in DOMAIN d : \E j \in DOMAIN cache : d[i] = cache[j] /\ j # p
                                                    /\ j = IF i < p THEN i ELSE i + 1
    BY <2>2, <2>4, <2>5
  <2>7. UniqueKeys(d)
    BY <2>2, <2>4, <2>5, <2>6 DEF UniqueKeys
  <2>8. \A i \in DOMAIN d : d[i].key # key
    BY <2>1, <2>6 DEF UniqueKeys
  <2>9. Delete(cache, key) = d
    BY <1>2 DEF Delete, d, p
  <2> QED
    BY <2>4, <2>6, <2>7, <2>8, <2>9 DEF OnlyFrom
<1> QED
  BY <1>1, <1>2

\* Appending an entry under a key the Map does not hold.
LEMMA AppendLemma ==
    ASSUME NEW cache \in Seq(Entries), UniqueKeys(cache), NEW entry \in Entries,
           \A i \in DOMAIN cache : cache[i].key # entry.key
    PROVE  /\ Append(cache, entry) \in Seq(Entries)
           /\ UniqueKeys(Append(cache, entry))
           /\ OnlyFrom(Append(cache, entry), cache, entry)
<1> DEFINE a == Append(cache, entry)
<1>1. /\ a \in Seq(Entries) /\ DOMAIN a = 1..Len(cache) + 1
      /\ DOMAIN cache = 1..Len(cache) /\ Len(cache) \in Nat
      /\ a[Len(cache) + 1] = entry
      /\ \A i \in 1..Len(cache) : a[i] = cache[i]
  OBVIOUS
<1>2. UniqueKeys(a)
  BY <1>1 DEF UniqueKeys
<1>3. OnlyFrom(a, cache, entry)
  BY <1>1 DEF OnlyFrom
<1> QED
  BY <1>1, <1>2, <1>3

\* Reading moves an entry, and neither adds nor changes one.
LEMMA TouchLemma ==
    ASSUME NEW cache \in Seq(Entries), UniqueKeys(cache), NEW key, NEW extra
    PROVE  /\ Touch(cache, key) \in Seq(Entries)
           /\ UniqueKeys(Touch(cache, key))
           /\ \A i \in DOMAIN Touch(cache, key) :
                 \E j \in DOMAIN cache : Touch(cache, key)[i] = cache[j]
<1>1. CASE ~Has(cache, key)
  BY <1>1 DEF Touch
<1>2. CASE Has(cache, key)
  <2> DEFINE e == Entry(cache, key)
             d == Delete(cache, key)
  <2>1. /\ Position(cache, key) \in DOMAIN cache
        /\ cache[Position(cache, key)].key = key
    BY <1>2 DEF Has, Position
  <2>2. e \in Entries /\ e.key = key /\ \E j \in DOMAIN cache : e = cache[j]
    BY <2>1, ElementOfSeq DEF Entry
  <2>3. /\ d \in Seq(Entries) /\ UniqueKeys(d) /\ OnlyFrom(d, cache, e)
        /\ \A i \in DOMAIN d : d[i].key # key
    BY DeleteLemma
  <2>4. Touch(cache, key) = Append(d, e)
    BY <1>2 DEF Touch
  <2> HIDE DEF d, e
  <2>5. /\ Append(d, e) \in Seq(Entries) /\ UniqueKeys(Append(d, e))
        /\ OnlyFrom(Append(d, e), d, e)
    BY <2>2, <2>3, AppendLemma
  <2>6. \A i \in DOMAIN Append(d, e) : \E j \in DOMAIN cache : Append(d, e)[i] = cache[j]
    BY <2>2, <2>3, <2>5 DEF OnlyFrom
  <2> QED
    BY <2>4, <2>5, <2>6
<1> QED
  BY <1>1, <1>2

\* Eviction only drops entries.
LEMMA EvictLemma ==
    ASSUME NEW cache \in Seq(Entries), UniqueKeys(cache), NEW cap \in Nat
    PROVE  /\ Evict(cache, cap) \in Seq(Entries)
           /\ UniqueKeys(Evict(cache, cap))
           /\ \A i \in DOMAIN Evict(cache, cap) :
                 \E j \in DOMAIN cache : Evict(cache, cap)[i] = cache[j]
           /\ Len(Evict(cache, cap)) <= cap
<1>1. CASE ~(Len(cache) > cap)
  BY <1>1 DEF Evict
<1>2. CASE Len(cache) > cap
  <2> DEFINE m == Len(cache) - cap
             v == SubSeq(cache, m + 1, Len(cache))
  <2>1. Len(cache) \in Nat /\ m \in Nat /\ m + 1 \in 1..(Len(cache) + 1)
    BY <1>2
  <2>2. /\ v \in Seq(Entries) /\ Len(v) = cap /\ DOMAIN v = 1..cap
        /\ DOMAIN cache = 1..Len(cache)
        /\ \A i \in 1..cap : v[i] = cache[m + i]
    BY <1>2, <2>1
  <2>3. \A i \in 1..cap : m + i \in 1..Len(cache)
    BY <2>1
  <2> HIDE DEF v, m
  <2>4. UniqueKeys(v)
    <3> SUFFICES ASSUME NEW i \in 1..cap, NEW j \in 1..cap, v[i].key = v[j].key
                 PROVE  i = j
      BY <2>2 DEF UniqueKeys
    <3>1. /\ m + i \in DOMAIN cache /\ m + j \in DOMAIN cache
          /\ cache[m + i].key = cache[m + j].key
      BY <2>2, <2>3
    <3>2. m + i = m + j
      BY <3>1 DEF UniqueKeys
    <3> QED
      BY <3>2, <2>1
  <2>5. Evict(cache, cap) = v
    BY <1>2, <2>1 DEF Evict, v, m
  <2>6. Len(v) <= cap /\ \A i \in DOMAIN v : \E j \in DOMAIN cache : v[i] = cache[j]
    BY <2>2, <2>3
  <2> QED
    BY <2>2, <2>4, <2>5, <2>6
<1> QED
  BY <1>1, <1>2

\* Storing an entry adds that entry only, and ends within the cap.
LEMMA StoreLemma ==
    ASSUME NEW cache \in Seq(Entries), UniqueKeys(cache), NEW entry \in Entries,
           NEW cap \in Nat
    PROVE  /\ Store(cache, entry.key, entry, cap) \in Seq(Entries)
           /\ UniqueKeys(Store(cache, entry.key, entry, cap))
           /\ OnlyFrom(Store(cache, entry.key, entry, cap), cache, entry)
           /\ Len(Store(cache, entry.key, entry, cap)) <= cap
<1> DEFINE d == Delete(cache, entry.key)
           a == Append(d, entry)
<1>1. /\ d \in Seq(Entries) /\ UniqueKeys(d) /\ OnlyFrom(d, cache, entry)
      /\ \A i \in DOMAIN d : d[i].key # entry.key
  BY DeleteLemma
<1> HIDE DEF d
<1>2. a \in Seq(Entries) /\ UniqueKeys(a) /\ OnlyFrom(a, d, entry)
  BY <1>1, AppendLemma
<1> HIDE DEF a
<1>3. /\ Evict(a, cap) \in Seq(Entries) /\ UniqueKeys(Evict(a, cap))
      /\ \A i \in DOMAIN Evict(a, cap) : \E j \in DOMAIN a : Evict(a, cap)[i] = a[j]
      /\ Len(Evict(a, cap)) <= cap
  BY <1>2, EvictLemma
<1>4. OnlyFrom(Evict(a, cap), cache, entry)
  BY <1>1, <1>2, <1>3 DEF OnlyFrom
<1>5. Store(cache, entry.key, entry, cap) = Evict(a, cap)
  BY DEF Store, a, d
<1> QED
  BY <1>3, <1>4, <1>5

-----------------------------------------------------------------------------
(***************************************************************************)
(* The inductive invariant.  Registration and progress in the current      *)
(* epoch are the same thing; whatever the Map or a call refers to is a     *)
(* fetch for the same key, in the right epoch, that cannot change again.   *)
(***************************************************************************)

\* Who is registered is in progress, for that key, and not from before a clear.
RegisteredIsCurrent ==
    \A key \in Keys : packageInFlight[key] # NoFetch =>
        /\ InProgress(packageInFlight[key])
        /\ Key(packageInFlight[key]) = key
        /\ fetch[packageInFlight[key]].epoch = epoch

\* Who is in progress since the last clear is registered.
CurrentIsRegistered ==
    \A f \in Fetches : InProgress(f) /\ fetch[f].epoch = epoch => Registered(f)

NoFutureFetch == \A f \in Fetches : fetch[f].epoch <= epoch

GoodEntry(e) ==
    /\ fetch[e.fetch].stage \in {"cached", "done"}
    /\ fetch[e.fetch].outcome = "package"
    /\ fetch[e.fetch].epoch = epoch
    /\ fetch[e.fetch].cachedAt = e.fetchedAt
    /\ Key(e.fetch) = e.key

EntriesAreGood == \A i \in DOMAIN packageCache : GoodEntry(packageCache[i])

CallsAreMatched ==
    \A c \in Callers : call[c].pc # "idle" =>
        /\ call[c].fetch \in Fetches
        /\ fetch[call[c].fetch].stage # "unused"
        /\ fetch[call[c].fetch].epoch = call[c].epoch
        /\ Key(call[c].fetch) = PackageCacheKey(call[c].config, call[c].id)

HitsAreFresh ==
    \A c \in Callers : call[c].hit =>
        /\ call[c].fetch \in Fetches
        /\ fetch[call[c].fetch].stage \in {"cached", "done"}
        /\ fetch[call[c].fetch].outcome = "package"
        /\ call[c].servedAt - fetch[call[c].fetch].cachedAt < TtlMs[call[c].config]

Inv ==
    /\ TypeOK
    /\ RegisteredIsCurrent
    /\ CurrentIsRegistered
    /\ NoFutureFetch
    /\ EntriesAreGood
    /\ CallsAreMatched
    /\ HitsAreFresh
    /\ SingleFlight

USE DEF FetchRecords, CallRecords

LEMMA KeyLemma ==
    ASSUME NEW config \in Configs, NEW id \in PackageIds
    PROVE  /\ PackageCacheKey(config, id) \in Keys
           /\ \A other \in Configs, oid \in PackageIds :
                 PackageCacheKey(config, id) = PackageCacheKey(other, oid) =>
                     /\ id = oid
                     /\ BaseUrl[config] = BaseUrl[other]
                     /\ ApiKey[config] = ApiKey[other]
BY DEF PackageCacheKey, CaseCacheScope, Keys

LEMMA CapLemma ==
    ASSUME NEW config \in Configs
    PROVE  Cap(config) \in Nat \ {0}
BY ConfigAssumption DEF Cap, PositiveOr

LEMMA InitInv == Init => Inv
<1> SUFFICES ASSUME Init PROVE Inv
  OBVIOUS
<1> USE DEF Init
<1>1. /\ (CHOOSE c \in Configs : TRUE) \in Configs
      /\ (CHOOSE id \in PackageIds : TRUE) \in PackageIds
  BY ConfigAssumption
<1>2. fetch \in [Fetches -> FetchRecords]
  BY <1>1, BoundAssumption DEF Unused, FetchRecords, Stages, Outcomes
<1>3. call \in [Callers -> CallRecords]
  BY <1>1, BoundAssumption DEF NoCall, CallRecords
<1>4. TypeOK
  BY <1>2, <1>3, BoundAssumption DEF TypeOK
<1>5. \A f \in Fetches : fetch[f].stage = "unused" /\ fetch[f].epoch = 0
  BY DEF Unused
<1>6. \A c \in Callers : call[c].pc = "idle" /\ call[c].hit = FALSE
  BY DEF NoCall
<1> QED
  BY <1>4, <1>5, <1>6 DEF Inv, RegisteredIsCurrent, CurrentIsRegistered, NoFutureFetch,
     EntriesAreGood, CallsAreMatched, HitsAreFresh, SingleFlight, InProgress

-----------------------------------------------------------------------------
(***************************************************************************)
(* The invariant, one kind of step at a time.                              *)
(***************************************************************************)

\* What a read does to the Map is invisible to the invariant.
LEMMA TouchStep ==
    ASSUME Inv, NEW key, TouchOnRead(key)
    PROVE  /\ packageCache' \in Seq(Entries)
           /\ UniqueKeys(packageCache')
           /\ \A i \in DOMAIN packageCache' :
                 \E j \in DOMAIN packageCache : packageCache'[i] = packageCache[j]
BY TouchLemma DEF TouchOnRead, Inv, TypeOK, UniqueKeys

LEMMA HitStep ==
    ASSUME Inv, NEW c \in Callers, NEW config \in Configs, NEW id \in PackageIds,
           NEW moment \in 0..MaxTime,
           Hit(c, config, id, moment), now' = moment, UNCHANGED epoch
    PROVE  Inv'
<1> DEFINE key == PackageCacheKey(config, id)
           e == Entry(packageCache, key)
           new == [pc |-> "answered", config |-> config, id |-> id, hit |-> TRUE,
                   fetch |-> e.fetch, servedAt |-> moment, epoch |-> epoch]
<1>1. /\ FreshHit(config, key, moment) /\ TouchOnRead(key)
      /\ call' = [call EXCEPT ![c] = new]
      /\ UNCHANGED <<packageInFlight, fetch>>
  BY DEF Hit
<1>2. /\ packageCache' \in Seq(Entries) /\ UniqueKeys(packageCache')
      /\ \A i \in DOMAIN packageCache' :
            \E j \in DOMAIN packageCache : packageCache'[i] = packageCache[j]
  BY <1>1, TouchStep
<1>3. /\ e \in Entries /\ e.key = key /\ GoodEntry(e)
      /\ moment - e.fetchedAt < TtlMs[config]
  <2>1. /\ Position(packageCache, key) \in DOMAIN packageCache
        /\ packageCache[Position(packageCache, key)].key = key
    BY <1>1 DEF FreshHit, Has, Position
  <2>2. e \in Entries /\ e.key = key
    BY <2>1, ElementOfSeq DEF Entry, Inv, TypeOK
  <2>3. GoodEntry(e)
    BY <2>1 DEF Entry, Inv, EntriesAreGood
  <2> QED
    BY <1>1, <2>2, <2>3 DEF FreshHit
<1> HIDE DEF e, key
<1>4. e.fetch \in Fetches /\ new.fetch = e.fetch
  BY <1>3 DEF Entries
<1>5. \A d \in Callers : call'[d] = IF d = c THEN new ELSE call[d]
  BY <1>1 DEF Inv, TypeOK
<1>6. TypeOK'
  BY <1>1, <1>2, <1>4 DEF Inv, TypeOK, UniqueKeys
<1>7. (EntriesAreGood /\ RegisteredIsCurrent /\ CurrentIsRegistered /\ NoFutureFetch)'
  BY <1>1, <1>2 DEF Inv, EntriesAreGood, GoodEntry, RegisteredIsCurrent,
     CurrentIsRegistered, NoFutureFetch, InProgress, Registered, Key
<1>8. CallsAreMatched'
  BY <1>1, <1>3, <1>4, <1>5 DEF Inv, CallsAreMatched, GoodEntry, Key, key
<1>9. HitsAreFresh'
  BY <1>1, <1>3, <1>4, <1>5 DEF Inv, HitsAreFresh, GoodEntry
<1>10. SingleFlight'
  BY <1>1 DEF Inv, SingleFlight, InProgress, Key
<1> QED
  BY <1>6, <1>7, <1>8, <1>9, <1>10 DEF Inv

LEMMA JoinStep ==
    ASSUME Inv, NEW c \in Callers, NEW config \in Configs, NEW id \in PackageIds,
           NEW moment \in 0..MaxTime,
           Join(c, config, id, moment), now' = moment, UNCHANGED epoch
    PROVE  Inv'
<1> DEFINE key == PackageCacheKey(config, id)
           f == packageInFlight[key]
           new == [pc |-> "waiting", config |-> config, id |-> id, hit |-> FALSE,
                   fetch |-> f, servedAt |-> 0, epoch |-> epoch]
<1>1. /\ f # NoFetch /\ TouchOnRead(key)
      /\ call' = [call EXCEPT ![c] = new]
      /\ UNCHANGED <<packageInFlight, fetch>>
  BY DEF Join, Await
<1>2. /\ packageCache' \in Seq(Entries) /\ UniqueKeys(packageCache')
      /\ \A i \in DOMAIN packageCache' :
            \E j \in DOMAIN packageCache : packageCache'[i] = packageCache[j]
  BY <1>1, TouchStep
<1>3. /\ f \in Fetches /\ InProgress(f) /\ Key(f) = key /\ fetch[f].epoch = epoch
  BY <1>1, KeyLemma DEF Inv, TypeOK, RegisteredIsCurrent
<1> HIDE DEF f, key
<1>4. \A d \in Callers : call'[d] = IF d = c THEN new ELSE call[d]
  BY <1>1 DEF Inv, TypeOK
<1>5. TypeOK'
  BY <1>1, <1>2, <1>3, BoundAssumption DEF Inv, TypeOK, UniqueKeys
<1>6. (EntriesAreGood /\ RegisteredIsCurrent /\ CurrentIsRegistered /\ NoFutureFetch)'
  BY <1>1, <1>2 DEF Inv, EntriesAreGood, GoodEntry, RegisteredIsCurrent,
     CurrentIsRegistered, NoFutureFetch, InProgress, Registered, Key
<1>7. CallsAreMatched'
  BY <1>1, <1>3, <1>4 DEF Inv, CallsAreMatched, InProgress, Key, key
<1>8. HitsAreFresh'
  BY <1>1, <1>4 DEF Inv, HitsAreFresh
<1>9. SingleFlight'
  BY <1>1 DEF Inv, SingleFlight, InProgress, Key
<1> QED
  BY <1>5, <1>6, <1>7, <1>8, <1>9 DEF Inv

LEMMA StartStep ==
    ASSUME Inv, NEW c \in Callers, NEW config \in Configs, NEW id \in PackageIds,
           NEW f \in Fetches, NEW moment \in 0..MaxTime,
           Start(c, config, id, f, moment), now' = moment, UNCHANGED epoch
    PROVE  Inv'
<1> DEFINE key == PackageCacheKey(config, id)
           newCall == [pc |-> "waiting", config |-> config, id |-> id, hit |-> FALSE,
                       fetch |-> f, servedAt |-> 0, epoch |-> epoch]
           newFetch == [stage |-> "sent", outcome |-> "none", config |-> config,
                        id |-> id, epoch |-> epoch, cachedAt |-> 0]
<1>1. /\ packageInFlight[key] = NoFetch /\ Allocatable(f, c) /\ TouchOnRead(key)
      /\ call' = [call EXCEPT ![c] = newCall]
      /\ fetch' = [fetch EXCEPT ![f] = newFetch]
      /\ packageInFlight' = [packageInFlight EXCEPT ![key] = f]
  BY DEF Start, Await
<1>2. /\ packageCache' \in Seq(Entries) /\ UniqueKeys(packageCache')
      /\ \A i \in DOMAIN packageCache' :
            \E j \in DOMAIN packageCache : packageCache'[i] = packageCache[j]
  BY <1>1, TouchStep
<1>3. key \in Keys
  BY KeyLemma
<1>4. /\ \A d \in Callers : call'[d] = IF d = c THEN newCall ELSE call[d]
      /\ \A g \in Fetches : fetch'[g] = IF g = f THEN newFetch ELSE fetch[g]
      /\ \A k \in Keys : packageInFlight'[k] = IF k = key THEN f ELSE packageInFlight[k]
  BY <1>1, <1>3 DEF Inv, TypeOK
<1>5. /\ Key(f)' = key
      /\ \A g \in Fetches : g # f => Key(g)' = Key(g)
      /\ \A g \in Fetches : Key(g) \in Keys
  BY <1>4, KeyLemma DEF Key, Inv, TypeOK
<1>6. \A g \in Fetches : g # NoFetch
  BY IdentityAssumption
<1>7. /\ ~InProgress(f)
      /\ \A i \in DOMAIN packageCache : packageCache[i].fetch # f
      /\ \A k \in Keys : packageInFlight[k] # f
      /\ \A d \in Callers : d # c => call[d].fetch # f
  BY <1>1 DEF Allocatable, InProgress
<1> HIDE DEF key
<1>8. TypeOK'
  <2>1. fetch' \in [Fetches -> FetchRecords]
    BY <1>1, BoundAssumption DEF Inv, TypeOK, Stages, Outcomes
  <2>2. call' \in [Callers -> CallRecords]
    BY <1>1, BoundAssumption DEF Inv, TypeOK
  <2>3. packageInFlight' \in [Keys -> Fetches \cup {NoFetch}]
    BY <1>1 DEF Inv, TypeOK
  <2> QED
    BY <1>2, <2>1, <2>2, <2>3 DEF Inv, TypeOK, UniqueKeys
<1>9. EntriesAreGood'
  <2> SUFFICES ASSUME NEW i \in DOMAIN packageCache' PROVE GoodEntry(packageCache[i])'
    BY DEF EntriesAreGood
  <2>2. PICK j \in DOMAIN packageCache : packageCache'[i] = packageCache[j]
    BY <1>2
  <2>3. /\ GoodEntry(packageCache[j]) /\ packageCache[j].fetch # f
        /\ packageCache[j].fetch \in Fetches
    <3>1. packageCache[j] \in Entries
      BY DEF Inv, TypeOK
    <3>2. packageCache[j].fetch \in Fetches
      BY <3>1 DEF Entries
    <3> QED
      BY <3>2, <1>7 DEF Inv, EntriesAreGood
  <2> QED
    BY <2>2, <2>3, <1>4, <1>5 DEF GoodEntry
<1>10. RegisteredIsCurrent'
  <2> SUFFICES ASSUME NEW k \in Keys, packageInFlight'[k] # NoFetch
               PROVE  /\ InProgress(packageInFlight[k])'
                      /\ Key(packageInFlight[k])' = k
                      /\ (fetch[packageInFlight[k]].epoch = epoch)'
    BY DEF RegisteredIsCurrent
  <2>1. CASE k = key
    BY <2>1, <1>4, <1>5 DEF InProgress
  <2>2. CASE k # key
    <3> DEFINE g == packageInFlight[k]
    <3>1. packageInFlight'[k] = g /\ g \in Fetches /\ g # f
      BY <2>2, <1>4, <1>7 DEF Inv, TypeOK
    <3>2. InProgress(g) /\ Key(g) = k /\ fetch[g].epoch = epoch
      BY <3>1, <1>6 DEF Inv, RegisteredIsCurrent
    <3>3. fetch'[g] = fetch[g] /\ Key(g)' = Key(g)
      BY <3>1, <1>4, <1>5, <2>2 DEF Key
    <3> QED
      BY <3>1, <3>2, <3>3 DEF InProgress, Key
  <2> QED
    BY <2>1, <2>2
<1>11. CurrentIsRegistered'
  BY <1>1, <1>3, <1>4, <1>5, <1>6 DEF Inv, CurrentIsRegistered, Registered, InProgress
<1>12. NoFutureFetch'
  <2>1. epoch' = epoch /\ epoch <= epoch
    BY BoundAssumption DEF Inv, TypeOK
  <2> QED
    BY <2>1, <1>4 DEF Inv, NoFutureFetch
<1>13. CallsAreMatched'
  BY <1>4, <1>5, <1>7 DEF Inv, CallsAreMatched, key
<1>14. HitsAreFresh'
  BY <1>4, <1>7 DEF Inv, HitsAreFresh
<1>15. SingleFlight'
  <2>1. \A g \in Fetches : InProgress(g) /\ fetch[g].epoch = epoch => Key(g) # key
    BY <1>1, <1>6 DEF Inv, CurrentIsRegistered, Registered, TypeOK
  <2> QED
    BY <2>1, <1>4, <1>5 DEF Inv, SingleFlight, InProgress
<1> QED
  BY <1>8, <1>9, <1>10, <1>11, <1>12, <1>13, <1>14, <1>15 DEF Inv

LEMMA FetchCFPackageStep ==
    ASSUME Inv, NEW c \in Callers, NEW config \in Configs, NEW id \in PackageIds,
           NEW moment \in 0..MaxTime, FetchCFPackage(c, config, id, moment)
    PROVE  Inv'
BY HitStep, JoinStep, StartStep DEF FetchCFPackage

\* Moving one fetch on, without changing what it is a fetch of or an outcome that
\* was already recorded, keeps every call matched and every hit fresh.
LEMMA CallsLemma ==
    ASSUME Inv, NEW f \in Fetches, UNCHANGED call,
           \A g \in Fetches : g # f => fetch'[g] = fetch[g],
           fetch'[f].config = fetch[f].config,
           fetch'[f].id = fetch[f].id,
           fetch'[f].epoch = fetch[f].epoch,
           fetch'[f].stage # "unused",
           fetch[f].stage \in {"cached", "done"} =>
               /\ fetch'[f].stage \in {"cached", "done"}
               /\ fetch'[f].outcome = fetch[f].outcome
               /\ fetch'[f].cachedAt = fetch[f].cachedAt
    PROVE  CallsAreMatched' /\ HitsAreFresh'
<1>1. ASSUME NEW c \in Callers, call[c].pc # "idle"
      PROVE  /\ call[c].fetch \in Fetches
             /\ fetch'[call[c].fetch].stage # "unused"
             /\ fetch'[call[c].fetch].epoch = call[c].epoch
             /\ PackageCacheKey(fetch'[call[c].fetch].config, fetch'[call[c].fetch].id)
                  = PackageCacheKey(call[c].config, call[c].id)
  <2> DEFINE g == call[c].fetch
  <2>1. /\ g \in Fetches /\ fetch[g].stage # "unused" /\ fetch[g].epoch = call[c].epoch
        /\ PackageCacheKey(fetch[g].config, fetch[g].id)
             = PackageCacheKey(call[c].config, call[c].id)
    BY <1>1 DEF Inv, CallsAreMatched, Key
  <2> HIDE DEF g
  <2>2. CASE g = f
    BY <2>1, <2>2 DEF g
  <2>3. CASE g # f
    BY <2>1, <2>3 DEF g
  <2> QED
    BY <2>2, <2>3
<1>2. ASSUME NEW c \in Callers, call[c].hit
      PROVE  /\ call[c].fetch \in Fetches
             /\ fetch'[call[c].fetch].stage \in {"cached", "done"}
             /\ fetch'[call[c].fetch].outcome = "package"
             /\ call[c].servedAt - fetch'[call[c].fetch].cachedAt < TtlMs[call[c].config]
  <2> DEFINE g == call[c].fetch
  <2>1. /\ g \in Fetches /\ fetch[g].stage \in {"cached", "done"}
        /\ fetch[g].outcome = "package"
        /\ call[c].servedAt - fetch[g].cachedAt < TtlMs[call[c].config]
    BY <1>2 DEF Inv, HitsAreFresh
  <2> HIDE DEF g
  <2>2. CASE g = f
    BY <2>1, <2>2 DEF g
  <2>3. CASE g # f
    BY <2>1, <2>3 DEF g
  <2> QED
    BY <2>2, <2>3
<1>3. CallsAreMatched'
  BY <1>1 DEF CallsAreMatched, Key, PackageCacheKey, CaseCacheScope
<1>4. HitsAreFresh'
  BY <1>2 DEF HitsAreFresh
<1> QED
  BY <1>3, <1>4

\* The response, its body and the timer only move a fetch on that nothing has
\* read the outcome of.
LEMMA UpstreamStep ==
    ASSUME Inv, NEW f \in Fetches, fetch[f].stage \in {"sent", "reading"},
           NEW stage \in {"reading", "settled"}, NEW outcome \in Outcomes,
           ToStage(f, stage, outcome)
    PROVE  Inv'
<1>1. /\ fetch' = [fetch EXCEPT ![f].stage = stage, ![f].outcome = outcome]
      /\ UNCHANGED <<packageCache, packageInFlight, call, now, epoch, recency>>
  BY DEF ToStage
<1>2. /\ \A g \in Fetches : g # f => fetch'[g] = fetch[g]
      /\ fetch'[f] = [fetch[f] EXCEPT !.stage = stage, !.outcome = outcome]
      /\ \A g \in Fetches : /\ fetch'[g].epoch = fetch[g].epoch
                            /\ fetch'[g].cachedAt = fetch[g].cachedAt
                            /\ fetch'[g].config = fetch[g].config
                            /\ fetch'[g].id = fetch[g].id
  BY <1>1 DEF Inv, TypeOK
<1>3. fetch'[f].stage = stage
  BY <1>2 DEF Inv, TypeOK
<1>4. \A g \in Fetches : Key(g)' = Key(g) /\ (InProgress(g)' <=> InProgress(g))
  BY <1>2, <1>3 DEF Key, InProgress
<1>5. TypeOK'
  <2>1. fetch' \in [Fetches -> FetchRecords]
    <3> DEFINE r == [fetch[f] EXCEPT !.stage = stage, !.outcome = outcome]
    <3>1. fetch[f] \in FetchRecords /\ r \in FetchRecords
      BY DEF Inv, TypeOK, Stages
    <3>2. fetch' = [fetch EXCEPT ![f] = r]
      BY <1>1 DEF Inv, TypeOK
    <3> QED
      BY <3>1, <3>2 DEF Inv, TypeOK
  <2> QED
    BY <1>1, <2>1 DEF Inv, TypeOK
<1>6. RegisteredIsCurrent'
  BY <1>1, <1>2, <1>4 DEF Inv, TypeOK, RegisteredIsCurrent
<1>7. CurrentIsRegistered'
  BY <1>1, <1>2, <1>4 DEF Inv, CurrentIsRegistered, Registered
<1>8. NoFutureFetch'
  BY <1>1, <1>2 DEF Inv, NoFutureFetch
<1>9. EntriesAreGood'
  <2> SUFFICES ASSUME NEW i \in DOMAIN packageCache
               PROVE  GoodEntry(packageCache[i])'
    BY <1>1 DEF EntriesAreGood
  <2>1. packageCache[i] \in Entries
    BY DEF Inv, TypeOK
  <2>2. packageCache[i].fetch \in Fetches
    BY <2>1 DEF Entries
  <2>3. GoodEntry(packageCache[i])
    BY DEF Inv, EntriesAreGood
  <2>4. packageCache[i].fetch # f
    BY <2>3 DEF GoodEntry
  <2> QED
    BY <1>1, <1>2, <1>4, <2>2, <2>3, <2>4 DEF GoodEntry
<1>10. CallsAreMatched' /\ HitsAreFresh'
  BY <1>1, <1>2, <1>3, CallsLemma
<1>12. SingleFlight'
  BY <1>2, <1>4 DEF Inv, SingleFlight
<1> QED
  BY <1>5, <1>6, <1>7, <1>8, <1>9, <1>10, <1>12 DEF Inv

LEMMA ThenCacheStep ==
    ASSUME Inv, NEW f \in Fetches, ThenCache(f)
    PROVE  Inv'
<1> DEFINE key == Key(f)
           stores == fetch[f].outcome = "package" /\ Registered(f)
           entry == [key |-> key, fetch |-> f, fetchedAt |-> now]
           new == Store(packageCache, key, entry, Cap(fetch[f].config))
<1>1. /\ fetch[f].stage = "settled"
      /\ fetch' = [fetch EXCEPT ![f].stage = "cached",
                                ![f].cachedAt = IF stores THEN now ELSE 0]
      /\ packageCache' = IF stores THEN new ELSE packageCache
      /\ UNCHANGED <<packageInFlight, call, now, epoch>>
  BY DEF ThenCache
<1>2. /\ \A g \in Fetches : g # f => fetch'[g] = fetch[g]
      /\ fetch'[f].stage = "cached"
      /\ fetch'[f].cachedAt = IF stores THEN now ELSE 0
      /\ \A g \in Fetches : /\ fetch'[g].epoch = fetch[g].epoch
                            /\ fetch'[g].outcome = fetch[g].outcome
                            /\ fetch'[g].config = fetch[g].config
                            /\ fetch'[g].id = fetch[g].id
  BY <1>1 DEF Inv, TypeOK
<1>3. \A g \in Fetches : Key(g)' = Key(g) /\ (InProgress(g)' <=> InProgress(g))
  BY <1>1, <1>2 DEF Key, InProgress
<1>4. key \in Keys /\ fetch[f].config \in Configs
  BY KeyLemma DEF Key, Inv, TypeOK
<1>5. entry \in Entries /\ entry.key = key
  BY <1>4 DEF Entries, Inv, TypeOK
<1>6. Cap(fetch[f].config) \in Nat
  BY <1>4, CapLemma
<1>7. /\ new \in Seq(Entries) /\ UniqueKeys(new) /\ OnlyFrom(new, packageCache, entry)
  <2>1. packageCache \in Seq(Entries) /\ UniqueKeys(packageCache)
    BY DEF Inv, TypeOK, UniqueKeys
  <2> HIDE DEF entry, key
  <2> QED
    BY <2>1, <1>5, <1>6, StoreLemma
<1>8. TypeOK'
  <2>1. fetch' \in [Fetches -> FetchRecords]
    <3> DEFINE r == [fetch[f] EXCEPT !.stage = "cached",
                                      !.cachedAt = IF stores THEN now ELSE 0]
    <3>1. fetch[f] \in FetchRecords /\ r \in FetchRecords
      <4>1. (IF stores THEN now ELSE 0) \in 0..MaxTime
        BY BoundAssumption DEF Inv, TypeOK
      <4> HIDE DEF stores
      <4> QED
        BY <4>1 DEF Inv, TypeOK, Stages
    <3>2. fetch' = [fetch EXCEPT ![f] = r]
      BY <1>1 DEF Inv, TypeOK
    <3> QED
      BY <3>1, <3>2 DEF Inv, TypeOK
  <2>2. packageCache' \in Seq(Entries) /\ UniqueKeys(packageCache')
    BY <1>1, <1>7 DEF Inv, TypeOK, UniqueKeys
  <2> QED
    BY <1>1, <2>1, <2>2 DEF Inv, TypeOK, UniqueKeys
<1>9. EntriesAreGood'
  <2> SUFFICES ASSUME NEW i \in DOMAIN packageCache'
               PROVE  GoodEntry(packageCache[i])'
    BY DEF EntriesAreGood
  <2>1. CASE stores /\ packageCache'[i] = entry
    <3>1. Registered(f) /\ fetch[f].outcome = "package" /\ InProgress(f)
      BY <2>1, <1>1 DEF InProgress
    <3>2. fetch[f].epoch = epoch
      BY <3>1, <1>4, IdentityAssumption DEF Inv, RegisteredIsCurrent, Registered
    <3>3. /\ packageCache'[i].fetch = f /\ packageCache'[i].fetchedAt = now
          /\ packageCache'[i].key = key
      BY <2>1
    <3>4. fetch'[f].stage = "cached" /\ fetch'[f].cachedAt = now
      BY <2>1, <1>2
    <3> QED
      BY <1>1, <1>2, <1>3, <3>1, <3>2, <3>3, <3>4 DEF GoodEntry, Key
  <2>2. CASE \E j \in DOMAIN packageCache : packageCache'[i] = packageCache[j]
    <3>1. PICK j \in DOMAIN packageCache : packageCache'[i] = packageCache[j]
      BY <2>2
    <3>2. packageCache[j] \in Entries
      BY DEF Inv, TypeOK
    <3>3. packageCache[j].fetch \in Fetches
      BY <3>2 DEF Entries
    <3>4. GoodEntry(packageCache[j])
      BY DEF Inv, EntriesAreGood
    <3>5. packageCache[j].fetch # f
      BY <3>4, <1>1 DEF GoodEntry
    <3> QED
      BY <3>1, <3>3, <3>4, <3>5, <1>1, <1>2, <1>3 DEF GoodEntry
  <2> QED
    BY <1>1, <1>7, <2>1, <2>2 DEF OnlyFrom
<1>10. RegisteredIsCurrent'
  BY <1>1, <1>2, <1>3 DEF Inv, TypeOK, RegisteredIsCurrent
<1>11. CurrentIsRegistered'
  BY <1>1, <1>2, <1>3 DEF Inv, CurrentIsRegistered, Registered
<1>12. NoFutureFetch'
  BY <1>1, <1>2 DEF Inv, NoFutureFetch
<1>13. CallsAreMatched' /\ HitsAreFresh'
  BY <1>1, <1>2, CallsLemma
<1>15. SingleFlight'
  BY <1>2, <1>3 DEF Inv, SingleFlight
<1> QED
  BY <1>8, <1>9, <1>10, <1>11, <1>12, <1>13, <1>15 DEF Inv

LEMMA FinallyUnregisterStep ==
    ASSUME Inv, NEW f \in Fetches, FinallyUnregister(f)
    PROVE  Inv'
<1>1. /\ fetch[f].stage = "cached"
      /\ fetch' = [fetch EXCEPT ![f].stage = "done"]
      /\ packageInFlight' = IF Registered(f)
                            THEN [packageInFlight EXCEPT ![Key(f)] = NoFetch]
                            ELSE packageInFlight
      /\ UNCHANGED <<packageCache, call, now, epoch>>
  BY DEF FinallyUnregister, Unregister
<1>2. /\ \A g \in Fetches : g # f => fetch'[g] = fetch[g]
      /\ fetch'[f].stage = "done"
      /\ \A g \in Fetches : /\ fetch'[g].epoch = fetch[g].epoch
                            /\ fetch'[g].outcome = fetch[g].outcome
                            /\ fetch'[g].cachedAt = fetch[g].cachedAt
                            /\ fetch'[g].config = fetch[g].config
                            /\ fetch'[g].id = fetch[g].id
  BY <1>1 DEF Inv, TypeOK
<1>3. /\ \A g \in Fetches : Key(g)' = Key(g) /\ Key(g) \in Keys
      /\ \A g \in Fetches : InProgress(g)' => InProgress(g) /\ g # f
      /\ \A g \in Fetches : InProgress(g) /\ g # f => InProgress(g)'
  <2>1. \A g \in Fetches : Key(g)' = Key(g) /\ Key(g) \in Keys
    BY <1>2, KeyLemma DEF Key, Inv, TypeOK
  <2> QED
    BY <1>1, <1>2, <2>1 DEF InProgress
<1>4. TypeOK'
  <2>1. fetch' \in [Fetches -> FetchRecords]
    <3> DEFINE r == [fetch[f] EXCEPT !.stage = "done"]
    <3>1. fetch[f] \in FetchRecords /\ r \in FetchRecords
      BY DEF Inv, TypeOK, Stages
    <3>2. fetch' = [fetch EXCEPT ![f] = r]
      BY <1>1 DEF Inv, TypeOK
    <3> QED
      BY <3>1, <3>2 DEF Inv, TypeOK
  <2>2. packageInFlight' \in [Keys -> Fetches \cup {NoFetch}]
    BY <1>1 DEF Inv, TypeOK
  <2> QED
    BY <1>1, <2>1, <2>2 DEF Inv, TypeOK
<1>5. RegisteredIsCurrent'
  <2> SUFFICES ASSUME NEW k \in Keys, packageInFlight'[k] # NoFetch
               PROVE  /\ InProgress(packageInFlight[k])'
                      /\ Key(packageInFlight[k])' = k
                      /\ (fetch[packageInFlight[k]].epoch = epoch)'
    BY DEF RegisteredIsCurrent
  <2>1. packageInFlight'[k] = packageInFlight[k] /\ (Registered(f) => k # Key(f))
    BY <1>1, <1>3 DEF Inv, TypeOK
  <2>2. PICK g \in Fetches : /\ g = packageInFlight[k]
                            /\ InProgress(g) /\ Key(g) = k /\ fetch[g].epoch = epoch
    BY <2>1 DEF Inv, TypeOK, RegisteredIsCurrent
  <2>3. g # f
    BY <2>1, <2>2 DEF Registered
  <2>4. InProgress(g)' /\ Key(g)' = k /\ fetch'[g].epoch = epoch'
    BY <1>1, <1>2, <1>3, <2>2, <2>3
  <2> QED
    BY <2>1, <2>2, <2>4 DEF InProgress, Key
<1>6. CurrentIsRegistered'
  <2> SUFFICES ASSUME NEW g \in Fetches, InProgress(g)', fetch'[g].epoch = epoch'
               PROVE  packageInFlight'[Key(g)'] = g
    BY DEF CurrentIsRegistered, Registered
  <2>1. g # f /\ InProgress(g) /\ Registered(g) /\ Key(g)' = Key(g) /\ Key(g) \in Keys
    BY <1>1, <1>2, <1>3 DEF Inv, CurrentIsRegistered
  <2>2. Registered(f) => Key(f) # Key(g)
    BY <2>1 DEF Registered
  <2> QED
    BY <1>1, <2>1, <2>2 DEF Registered, Inv, TypeOK
<1>7. NoFutureFetch'
  BY <1>1, <1>2 DEF Inv, NoFutureFetch
<1>8. EntriesAreGood'
  <2> SUFFICES ASSUME NEW i \in DOMAIN packageCache
               PROVE  GoodEntry(packageCache[i])'
    BY <1>1 DEF EntriesAreGood
  <2>1. packageCache[i] \in Entries
    BY DEF Inv, TypeOK
  <2>2. packageCache[i].fetch \in Fetches
    BY <2>1 DEF Entries
  <2>3. GoodEntry(packageCache[i])
    BY DEF Inv, EntriesAreGood
  <2> QED
    BY <1>1, <1>2, <1>3, <2>2, <2>3 DEF GoodEntry
<1>9. CallsAreMatched' /\ HitsAreFresh'
  BY <1>1, <1>2, CallsLemma
<1>11. SingleFlight'
  BY <1>2, <1>3 DEF Inv, SingleFlight
<1> QED
  BY <1>4, <1>5, <1>6, <1>7, <1>8, <1>9, <1>11 DEF Inv

LEMMA ResumeStep ==
    ASSUME Inv, NEW c \in Callers, Resume(c)
    PROVE  Inv'
<1>1. /\ call' = [call EXCEPT ![c].pc = "answered"]
      /\ call[c].pc = "waiting"
      /\ UNCHANGED <<packageCache, packageInFlight, fetch, now, epoch>>
  BY DEF Resume
<1>2. /\ \A d \in Callers : d # c => call'[d] = call[d]
      /\ \A d \in Callers : /\ call'[d].fetch = call[d].fetch
                            /\ call'[d].epoch = call[d].epoch
                            /\ call'[d].config = call[d].config
                            /\ call'[d].id = call[d].id
                            /\ call'[d].hit = call[d].hit
                            /\ call'[d].servedAt = call[d].servedAt
                            /\ call'[d].pc # "idle" => call[d].pc # "idle"
  BY <1>1 DEF Inv, TypeOK
<1>3. TypeOK'
  <2>1. call' \in [Callers -> CallRecords]
    BY <1>1 DEF Inv, TypeOK
  <2> QED
    BY <1>1, <2>1 DEF Inv, TypeOK
<1>4. /\ RegisteredIsCurrent' /\ CurrentIsRegistered' /\ NoFutureFetch'
      /\ EntriesAreGood' /\ SingleFlight'
  BY <1>1 DEF Inv, RegisteredIsCurrent, CurrentIsRegistered, NoFutureFetch,
     EntriesAreGood, GoodEntry, SingleFlight, InProgress, Registered, Key
<1>5. CallsAreMatched'
  BY <1>1, <1>2 DEF Inv, CallsAreMatched, Key, PackageCacheKey, CaseCacheScope
<1>6. HitsAreFresh'
  BY <1>1, <1>2 DEF Inv, HitsAreFresh
<1> QED
  BY <1>3, <1>4, <1>5, <1>6 DEF Inv

\* A clear leaves every fetch of the epochs before it unregistered, and no fetch
\* of the epoch it begins exists yet.
LEMMA ClearStep ==
    ASSUME Inv, Clear
    PROVE  Inv'
<1>1. /\ epoch < MaxClears
      /\ packageCache' = <<>>
      /\ packageInFlight' = [key \in Keys |-> NoFetch]
      /\ epoch' = epoch + 1
      /\ UNCHANGED <<fetch, call, now>>
  BY DEF Clear
<1>2. TypeOK'
  BY <1>1, BoundAssumption DEF Inv, TypeOK
<1>3. \A f \in Fetches : fetch[f].epoch \in Nat /\ fetch[f].epoch < epoch'
  BY <1>1, BoundAssumption DEF Inv, TypeOK, NoFutureFetch
<1>4. RegisteredIsCurrent' /\ EntriesAreGood'
  BY <1>1 DEF RegisteredIsCurrent, EntriesAreGood
<1>5. CurrentIsRegistered' /\ NoFutureFetch'
  BY <1>1, <1>3 DEF CurrentIsRegistered, NoFutureFetch
<1>6. CallsAreMatched' /\ HitsAreFresh' /\ SingleFlight'
  BY <1>1 DEF Inv, CallsAreMatched, HitsAreFresh, SingleFlight, InProgress, Key
<1> QED
  BY <1>2, <1>4, <1>5, <1>6 DEF Inv

LEMMA TickStep ==
    ASSUME Inv, Tick \/ UNCHANGED vars
    PROVE  Inv'
<1>1. /\ UNCHANGED <<packageCache, packageInFlight, fetch, call, epoch>>
      /\ now' \in 0..MaxTime
  BY BoundAssumption DEF Tick, vars, Inv, TypeOK
<1> QED
  BY <1>1 DEF Inv, TypeOK, RegisteredIsCurrent, CurrentIsRegistered, NoFutureFetch,
     EntriesAreGood, GoodEntry, CallsAreMatched, HitsAreFresh, SingleFlight,
     InProgress, Registered, Key

\* The invariant is inductive.
LEMMA NextInv == Inv /\ [Next]_vars => Inv'
<1> SUFFICES ASSUME Inv, [Next]_vars PROVE Inv'
  OBVIOUS
<1>1. ASSUME NEW c \in Callers, GetCFPackage(c) PROVE Inv'
  <2>1. now \in 0..MaxTime
    BY DEF Inv, TypeOK
  <2> QED
    BY <1>1, <2>1, FetchCFPackageStep DEF GetCFPackage
<1>2. ASSUME NEW c \in Callers, GetCFItemFromCachedPackage(c) PROVE Inv'
  <2>1. now..MaxTime \subseteq 0..MaxTime
    BY BoundAssumption DEF Inv, TypeOK
  <2> QED
    BY <1>2, <2>1, FetchCFPackageStep DEF GetCFItemFromCachedPackage
<1>3. ASSUME NEW c \in Callers, Resume(c) PROVE Inv'
  BY <1>3, ResumeStep
<1>4. ASSUME NEW f \in Fetches,
             \/ ReceiveHeaders(f) \/ ReceiveNotFound(f) \/ ReadPackage(f)
             \/ FailRequest(f) \/ TimeOut(f)
      PROVE  Inv'
  BY <1>4, UpstreamStep DEF ReceiveHeaders, ReceiveNotFound, ReadPackage, FailRequest,
     TimeOut, Outcomes
<1>5. ASSUME NEW f \in Fetches, ThenCache(f) PROVE Inv'
  BY <1>5, ThenCacheStep
<1>6. ASSUME NEW f \in Fetches, FinallyUnregister(f) PROVE Inv'
  BY <1>6, FinallyUnregisterStep
<1>7. CASE Clear
  BY <1>7, ClearStep
<1>8. CASE Tick \/ UNCHANGED vars
  BY <1>8, TickStep
<1> QED
  BY <1>1, <1>2, <1>3, <1>4, <1>5, <1>6, <1>7, <1>8 DEF Next

LEMMA Invariance == Spec => []Inv
<1>1. Init => Inv
  BY InitInv
<1>2. Inv /\ [Next]_vars => Inv'
  BY NextInv
<1> QED
  BY <1>1, <1>2, PTL DEF Spec

-----------------------------------------------------------------------------
(***************************************************************************)
(* The theorems.                                                           *)
(***************************************************************************)

\* Every variable keeps its type, and the Map never holds a key twice.
THEOREM TypeCorrect == Spec => []TypeOK
<1>1. Inv => TypeOK
  BY DEF Inv
<1> QED
  BY <1>1, Invariance, PTL

\* One upstream request per package between two clears, whatever the order in
\* which calls, responses, timers, callbacks and clears happen.
THEOREM SingleFlightHolds == Spec => []SingleFlight
<1>1. Inv => SingleFlight
  BY DEF Inv
<1> QED
  BY <1>1, Invariance, PTL

\* Nothing fetched before a clear reaches a call made after it.
THEOREM ClearBarrierHolds == Spec => []ClearBarrier
<1>1. Inv => ClearBarrier
  <2> SUFFICES ASSUME Inv, NEW c \in Callers, call[c].pc \in {"waiting", "answered"}
               PROVE  fetch[call[c].fetch].epoch >= call[c].epoch
    BY DEF ClearBarrier
  <2>1. fetch[call[c].fetch].epoch = call[c].epoch /\ call[c].epoch \in 0..MaxClears
    BY DEF Inv, CallsAreMatched, TypeOK
  <2> QED
    BY <2>1, BoundAssumption
<1> QED
  BY <1>1, Invariance, PTL

\* No caller is given a package read with another credential, from another
\* server, or under another id.
THEOREM OwnCredentialOnlyHolds == Spec => []OwnCredentialOnly
<1>1. Inv => OwnCredentialOnly
  <2> SUFFICES ASSUME Inv, NEW c \in Callers, call[c].pc \in {"waiting", "answered"}
               PROVE  /\ fetch[call[c].fetch].id = call[c].id
                      /\ BaseUrl[fetch[call[c].fetch].config] = BaseUrl[call[c].config]
                      /\ ApiKey[fetch[call[c].fetch].config] = ApiKey[call[c].config]
    BY DEF OwnCredentialOnly
  <2>1. /\ call[c].fetch \in Fetches
        /\ Key(call[c].fetch) = PackageCacheKey(call[c].config, call[c].id)
    BY DEF Inv, CallsAreMatched
  <2>2. /\ call[c].config \in Configs /\ call[c].id \in PackageIds
        /\ fetch[call[c].fetch].config \in Configs
        /\ fetch[call[c].fetch].id \in PackageIds
    BY <2>1 DEF Inv, TypeOK
  <2> QED
    BY <2>1, <2>2, KeyLemma DEF Key
<1> QED
  BY <1>1, Invariance, PTL

\* A hit is a package, stored less than the caller's TTL before it was served.
THEOREM HitWithinTtlHolds == Spec => []HitWithinTtl
<1>1. Inv => HitWithinTtl
  BY DEF Inv, HitsAreFresh, HitWithinTtl
<1> QED
  BY <1>1, Invariance, PTL

\* Only fetches in progress are registered.
THEOREM NoDeadRegistrationHolds == Spec => []NoDeadRegistration
<1>1. Inv => NoDeadRegistration
  BY DEF Inv, RegisteredIsCurrent, NoDeadRegistration
<1> QED
  BY <1>1, Invariance, PTL

\* Eviction keeps the youngest entry, whatever the cap is, as long as there is one.
LEMMA EvictKeepsLast ==
    ASSUME NEW cache \in Seq(Entries), cache # <<>>, NEW cap \in Nat \ {0}
    PROVE  /\ Evict(cache, cap) # <<>>
           /\ Last(Evict(cache, cap)) = Last(cache)
<1>1. CASE ~(Len(cache) > cap)
  BY <1>1 DEF Evict
<1>2. CASE Len(cache) > cap
  <2> DEFINE m == Len(cache) - cap
             v == SubSeq(cache, m + 1, Len(cache))
  <2>1. Len(cache) \in Nat /\ m \in Nat /\ m + cap = Len(cache)
    BY <1>2
  <2>2. v \in Seq(Entries) /\ Len(v) = cap /\ v[cap] = cache[m + cap]
    BY <1>2, <2>1
  <2>3. Evict(cache, cap) = v
    BY <1>2 DEF Evict
  <2> HIDE DEF v, m
  <2> QED
    BY <2>1, <2>2, <2>3 DEF Last
<1> QED
  BY <1>1, <1>2

\* A store ends within the cap of the config that stored, even if configs with
\* different caps share the Map, and the package just stored is still there.
THEOREM StoredWithinCapHolds == Spec => StoredWithinCap
<1> DEFINE Stored(f) ==
             /\ fetch[f].stage = "settled" /\ fetch'[f].stage = "cached"
             /\ fetch[f].outcome = "package" /\ Registered(f)
           Bounded(f) == /\ Len(packageCache') \in 1..Cap(fetch[f].config)
                         /\ Last(packageCache').fetch = f
<1>1. ASSUME Inv, NEW f \in Fetches, ThenCache(f), Stored(f) PROVE Bounded(f)
  <2> DEFINE key == Key(f)
             entry == [key |-> key, fetch |-> f, fetchedAt |-> now]
             cap == Cap(fetch[f].config)
             d == Delete(packageCache, key)
             a == Append(d, entry)
  <2>1. packageCache' = Evict(a, cap)
    BY <1>1 DEF ThenCache, Store
  <2>2. key \in Keys /\ fetch[f].config \in Configs
    BY <1>1, KeyLemma DEF Key, Inv, TypeOK
  <2>3. entry \in Entries /\ entry.fetch = f
    BY <1>1, <2>2 DEF Entries, Inv, TypeOK
  <2>4. cap \in Nat \ {0}
    BY <2>2, CapLemma
  <2>5. /\ d \in Seq(Entries) /\ UniqueKeys(d)
        /\ \A i \in DOMAIN d : d[i].key # key
    BY <1>1, DeleteLemma DEF Inv, TypeOK, UniqueKeys
  <2>6. a \in Seq(Entries) /\ UniqueKeys(a)
    <3>1. entry.key = key
      OBVIOUS
    <3> HIDE DEF entry, d
    <3> QED
      BY <3>1, <2>3, <2>5, AppendLemma
  <2>7. a # <<>> /\ Last(a) = entry
    <3> HIDE DEF entry, d
    <3> QED
      BY <2>3, <2>5 DEF Last
  <2> HIDE DEF a, entry, cap
  <2>8. /\ Evict(a, cap) \in Seq(Entries) /\ Evict(a, cap) # <<>>
        /\ Last(Evict(a, cap)) = entry /\ Len(Evict(a, cap)) <= cap
    BY <2>4, <2>6, <2>7, EvictLemma, EvictKeepsLast
  <2>9. Len(Evict(a, cap)) \in 1..cap
    BY <2>4, <2>8
  <2> QED
    BY <2>1, <2>3, <2>8, <2>9 DEF cap
<1>2. ASSUME Inv, [Next]_vars, NEW f \in Fetches, Stored(f) PROVE Bounded(f)
  <2>1. fetch[f].stage = "settled" /\ fetch'[f].stage = "cached"
    BY <1>2
  <2>2. ASSUME NEW c \in Callers, NEW config \in Configs, NEW id \in PackageIds,
               NEW moment, FetchCFPackage(c, config, id, moment)
        PROVE  FALSE
    <3>1. CASE UNCHANGED fetch
      BY <2>1, <3>1
    <3>2. ASSUME NEW g \in Fetches, Start(c, config, id, g, moment) PROVE FALSE
      <4>1. fetch'[f] = fetch[f] \/ fetch'[f].stage = "sent"
        BY <1>2, <3>2 DEF Start, Inv, TypeOK
      <4> QED
        BY <2>1, <4>1
    <3> QED
      BY <2>2, <3>1, <3>2 DEF FetchCFPackage, Hit, Join
  <2>3. ASSUME NEW g \in Fetches, ThenCache(g) PROVE g = f
    BY <1>2, <2>1, <2>3 DEF ThenCache, Inv, TypeOK
  <2>4. ASSUME NEW g \in Fetches,
               \/ ReceiveHeaders(g) \/ ReceiveNotFound(g) \/ ReadPackage(g)
               \/ FailRequest(g) \/ TimeOut(g) \/ FinallyUnregister(g)
        PROVE  FALSE
    <3>1. CASE FinallyUnregister(g)
      BY <1>2, <2>1, <3>1 DEF FinallyUnregister, Inv, TypeOK
    <3>2. ASSUME NEW stage \in {"reading", "settled"}, NEW outcome, ToStage(g, stage, outcome)
          PROVE  FALSE
      BY <1>2, <2>1, <3>2 DEF ToStage, Inv, TypeOK
    <3> QED
      BY <2>4, <3>1, <3>2 DEF ReceiveHeaders, ReceiveNotFound, ReadPackage, FailRequest,
         TimeOut
  <2>5. ASSUME Clear \/ Tick \/ UNCHANGED vars \/ \E c \in Callers : Resume(c)
        PROVE  FALSE
    BY <2>1, <2>5 DEF Clear, Tick, vars, Resume
  <2>6. PICK g \in Fetches : ThenCache(g)
    BY <1>2, <2>2, <2>4, <2>5 DEF Next, GetCFPackage, GetCFItemFromCachedPackage
  <2> QED
    BY <1>1, <1>2, <2>3, <2>6
<1>3. Inv /\ [Next]_vars => [\A f \in Fetches : Stored(f) => Bounded(f)]_vars
  BY <1>2
<1> QED
  BY <1>3, Invariance, PTL DEF Spec, StoredWithinCap

-----------------------------------------------------------------------------
(***************************************************************************)
(* The order of the Map.  The touched keys, each once, end with the keys   *)
(* of the Map: deleting, appending and evicting keep it so.                *)
(***************************************************************************)
Once(seq) == \A i, j \in DOMAIN seq : seq[i] = seq[j] => i = j

\* The keys of a Map, in its order, end a sequence of keys.
KeysEnd(cache, keys) ==
    /\ Len(cache) <= Len(keys)
    /\ \A i \in 1..Len(cache) : cache[i].key = keys[Len(keys) - Len(cache) + i]

LruInv == recency \in Seq(Keys) /\ Once(recency) /\ KeysEnd(packageCache, recency)

LEMMA RemoveFirstLemma ==
    ASSUME NEW S, NEW seq \in Seq(S), Once(seq), NEW key
    PROVE  /\ \A p \in 1..Len(seq) : seq[p] = key => RemoveFirst(seq, key) = RemoveAt(seq, p)
           /\ (\A p \in 1..Len(seq) : seq[p] # key) => RemoveFirst(seq, key) = seq
<1>1. ASSUME NEW p \in 1..Len(seq), seq[p] = key
      PROVE  RemoveFirst(seq, key) = RemoveAt(seq, p)
  <2> DEFINE at == {i \in 1..Len(seq) : seq[i] = key}
  <2>1. at = {p} BY <1>1 DEF Once
  <2>2. SelectInSeq(seq, LAMBDA v : v = key) = IF at # {} THEN Min(at) ELSE 0
    BY DEF SelectInSeq
  <2>3. Min(at) = p BY <2>1 DEF Min
  <2>4. SelectInSeq(seq, LAMBDA v : v = key) = p BY <2>1, <2>2, <2>3
  <2> QED BY <1>1, <2>4 DEF RemoveFirst
<1>2. ASSUME \A p \in 1..Len(seq) : seq[p] # key PROVE RemoveFirst(seq, key) = seq
  BY <1>2 DEF RemoveFirst
<1> QED BY <1>1, <1>2

\* Without a key, what had it at most once has every other key still once.
LEMMA RemoveFirstKeepsOnce ==
    ASSUME NEW S, NEW seq \in Seq(S), Once(seq), NEW key
    PROVE  /\ RemoveFirst(seq, key) \in Seq(S)
           /\ Once(RemoveFirst(seq, key))
           /\ \A i \in DOMAIN RemoveFirst(seq, key) : RemoveFirst(seq, key)[i] # key
<1>1. CASE \A p \in 1..Len(seq) : seq[p] # key
  BY <1>1, RemoveFirstLemma
<1>2. ASSUME NEW p \in 1..Len(seq), seq[p] = key
      PROVE  /\ RemoveFirst(seq, key) \in Seq(S)
             /\ Once(RemoveFirst(seq, key))
             /\ \A i \in DOMAIN RemoveFirst(seq, key) : RemoveFirst(seq, key)[i] # key
  <2> DEFINE d == RemoveAt(seq, p)
  <2>1. RemoveFirst(seq, key) = d BY <1>2, RemoveFirstLemma
  <2>2. /\ d \in Seq(S) /\ Len(d) = Len(seq) - 1
        /\ \A i \in 1..Len(d) : d[i] = IF i < p THEN seq[i] ELSE seq[i + 1]
    BY <1>2, RemoveAtLemma
  <2> HIDE DEF d
  <2>3. DOMAIN d = 1..Len(d) /\ DOMAIN seq = 1..Len(seq) /\ Len(seq) \in Nat BY <2>2
  <2>4. \A i \in 1..Len(d) : \E j \in 1..Len(seq) :
            d[i] = seq[j] /\ j # p /\ j = IF i < p THEN i ELSE i + 1
    BY <2>2, <2>3
  <2>5. Once(d) BY <2>3, <2>4 DEF Once
  <2>6. \A i \in DOMAIN d : d[i] # key BY <1>2, <2>3, <2>4 DEF Once
  <2> QED BY <2>1, <2>2, <2>5, <2>6
<1> QED BY <1>1, <1>2

LEMMA DeleteKeepsEnd ==
    ASSUME NEW cache \in Seq(Entries), UniqueKeys(cache), NEW S, NEW keys \in Seq(S), Once(keys),
           KeysEnd(cache, keys), NEW key
    PROVE  KeysEnd(Delete(cache, key), RemoveFirst(keys, key))
<1> DEFINE n == Len(cache)
           m == Len(keys)
           e == Delete(cache, key)
           k == RemoveFirst(keys, key)
<1>1. /\ n \in Nat /\ m \in Nat /\ n <= m
      /\ DOMAIN cache = 1..n /\ DOMAIN keys = 1..m
      /\ \A i \in 1..n : m - n + i \in 1..m /\ cache[i].key = keys[m - n + i]
  BY DEF KeysEnd
<1>2. CASE Has(cache, key)
  <2> DEFINE p == Position(cache, key)
             q == m - n + p
  <2>1. p \in 1..n /\ cache[p].key = key BY <1>1, <1>2 DEF Has, Position
  <2> HIDE DEF p
  <2>2. q \in 1..m /\ keys[q] = key BY <1>1, <2>1
  <2>3. e = RemoveAt(cache, p) BY <1>2 DEF Delete, p
  <2>4. k = RemoveAt(keys, q) BY <2>2, RemoveFirstLemma
  <2>5. Len(e) = n - 1 /\ \A i \in 1..Len(e) : e[i] = IF i < p THEN cache[i] ELSE cache[i + 1]
    BY <2>1, <2>3, RemoveAtLemma
  <2>6. Len(k) = m - 1 /\ \A i \in 1..Len(k) : k[i] = IF i < q THEN keys[i] ELSE keys[i + 1]
    BY <2>2, <2>4, RemoveAtLemma
  <2> HIDE DEF e, k, n, m
  <2>7. ASSUME NEW i \in 1..n - 1 PROVE e[i].key = k[(m - 1) - (n - 1) + i]
    <3>1. (m - 1) - (n - 1) + i = m - n + i /\ m - n + i \in 1..m - 1 /\ (i < p <=> m - n + i < q)
      BY <1>1, <2>1
    <3>2. CASE i < p
      <4>1. e[i] = cache[i] /\ k[m - n + i] = keys[m - n + i] BY <2>5, <2>6, <3>1, <3>2
      <4>2. i \in 1..n BY <1>1
      <4> QED BY <1>1, <3>1, <4>1, <4>2
    <3>3. CASE ~(i < p)
      <4>1. e[i] = cache[i + 1] /\ k[m - n + i] = keys[m - n + i + 1] BY <2>5, <2>6, <3>1, <3>3
      <4>2. i + 1 \in 1..n /\ m - n + i + 1 = m - n + (i + 1) BY <1>1
      <4> QED BY <1>1, <3>1, <4>1, <4>2
    <3> QED BY <3>2, <3>3
  <2>8. n - 1 <= m - 1 BY <1>1
  <2> QED BY <2>5, <2>6, <2>7, <2>8 DEF KeysEnd, e, k
<1>3. CASE ~Has(cache, key)
  <2>1. e = cache /\ \A i \in 1..n : cache[i].key # key BY <1>1, <1>3 DEF Delete, Has
  <2>2. CASE \A q \in 1..m : keys[q] # key
    BY <2>1, <2>2, RemoveFirstLemma
  <2>3. ASSUME NEW q \in 1..m, keys[q] = key PROVE KeysEnd(e, k)
    <3>1. q <= m - n
      <4>1. ASSUME q > m - n PROVE FALSE
        <5>1. q - (m - n) \in 1..n /\ m - n + (q - (m - n)) = q BY <1>1, <4>1
        <5> QED BY <1>1, <2>1, <2>3, <5>1
      <4> QED BY <1>1, <4>1
    <3>2. k = RemoveAt(keys, q) BY <2>3, RemoveFirstLemma
    <3>3. Len(k) = m - 1 /\ \A i \in 1..Len(k) : k[i] = IF i < q THEN keys[i] ELSE keys[i + 1]
      BY <2>3, <3>2, RemoveAtLemma
    <3> HIDE DEF k
    <3>4. n <= m - 1 BY <1>1, <2>3, <3>1
    <3>5. ASSUME NEW i \in 1..n PROVE cache[i].key = k[(m - 1) - n + i]
      <4>1. /\ (m - 1) - n + i \in 1..m - 1 /\ ~((m - 1) - n + i < q)
            /\ ((m - 1) - n + i) + 1 = m - n + i
        BY <1>1, <3>1, <3>4
      <4>2. k[(m - 1) - n + i] = keys[m - n + i] BY <3>3, <4>1
      <4> QED BY <1>1, <4>2
    <3> QED BY <2>1, <3>3, <3>4, <3>5 DEF KeysEnd
  <2> QED BY <2>2, <2>3
<1> QED BY <1>2, <1>3

LEMMA AppendKeepsEnd ==
    ASSUME NEW cache \in Seq(Entries), NEW S, NEW keys \in Seq(S), NEW entry \in Entries,
           entry.key \in S, KeysEnd(cache, keys)
    PROVE  KeysEnd(Append(cache, entry), Append(keys, entry.key))
<1> DEFINE n == Len(cache)
           m == Len(keys)
           e == Append(cache, entry)
           k == Append(keys, entry.key)
<1>1. /\ n \in Nat /\ m \in Nat /\ n <= m
      /\ \A i \in 1..n : m - n + i \in 1..m /\ cache[i].key = keys[m - n + i]
  BY DEF KeysEnd
<1>2. /\ Len(e) = n + 1 /\ e[n + 1] = entry /\ \A i \in 1..n : e[i] = cache[i]
      /\ Len(k) = m + 1 /\ k[m + 1] = entry.key /\ \A i \in 1..m : k[i] = keys[i]
  OBVIOUS
<1> HIDE DEF e, k, n, m
<1>3. ASSUME NEW i \in 1..n + 1 PROVE e[i].key = k[(m + 1) - (n + 1) + i]
  <2>1. (m + 1) - (n + 1) + i = m - n + i BY <1>1
  <2>2. CASE i \in 1..n BY <1>1, <1>2, <2>1, <2>2
  <2>3. CASE i = n + 1
    <3>1. m - n + i = m + 1 BY <1>1, <2>3
    <3> QED BY <1>2, <2>1, <2>3, <3>1
  <2> QED BY <1>1, <2>2, <2>3
<1>4. n + 1 <= m + 1 BY <1>1
<1> QED BY <1>2, <1>3, <1>4 DEF KeysEnd, e, k

LEMMA EvictKeepsEnd ==
    ASSUME NEW cache \in Seq(Entries), NEW S, NEW keys \in Seq(S), KeysEnd(cache, keys), NEW cap \in Nat
    PROVE  KeysEnd(Evict(cache, cap), keys)
<1>1. CASE ~(Len(cache) > cap) BY <1>1 DEF Evict
<1>2. CASE Len(cache) > cap
  <2> DEFINE n == Len(cache)
             m == Len(keys)
             v == SubSeq(cache, n - cap + 1, n)
  <2>1. /\ n \in Nat /\ m \in Nat /\ n <= m
        /\ \A i \in 1..n : cache[i].key = keys[m - n + i]
    BY DEF KeysEnd
  <2>2. n - cap + 1 \in 1..n + 1 BY <1>2, <2>1
  <2>3. Len(v) = cap /\ \A i \in 1..cap : v[i] = cache[n - cap + i] BY <1>2, <2>1, <2>2
  <2>4. Evict(cache, cap) = v BY <1>2 DEF Evict
  <2> HIDE DEF v, n, m
  <2>5. ASSUME NEW i \in 1..cap PROVE v[i].key = keys[m - cap + i]
    <3>1. n - cap + i \in 1..n /\ m - n + (n - cap + i) = m - cap + i BY <1>2, <2>1 DEF n
    <3> QED BY <2>1, <2>3, <3>1
  <2>6. cap <= m BY <1>2, <2>1 DEF n
  <2> QED BY <2>3, <2>4, <2>5, <2>6 DEF KeysEnd, m
<1> QED BY <1>1, <1>2

\* Taking a key out and putting it at the end, in both.
LEMMA RenewKeepsEnd ==
    ASSUME Inv, LruInv, NEW entry \in Entries
    PROVE  /\ Touched(entry.key) \in Seq(Keys) /\ Once(Touched(entry.key))
           /\ Append(Delete(packageCache, entry.key), entry) \in Seq(Entries)
           /\ KeysEnd(Append(Delete(packageCache, entry.key), entry), Touched(entry.key))
<1> DEFINE key == entry.key
           e == Delete(packageCache, key)
           k == RemoveFirst(recency, key)
<1>1. packageCache \in Seq(Entries) /\ UniqueKeys(packageCache) BY DEF Inv, TypeOK, UniqueKeys
<1>2. key \in Keys BY DEF Entries
<1>3. recency \in Seq(Keys) /\ Once(recency) /\ KeysEnd(packageCache, recency) BY DEF LruInv
<1>4. k \in Seq(Keys) /\ Once(k) /\ \A i \in DOMAIN k : k[i] # key BY <1>3, RemoveFirstKeepsOnce
<1>5. e \in Seq(Entries) BY <1>1, DeleteLemma
<1>6. KeysEnd(e, k) BY <1>1, <1>3, DeleteKeepsEnd
<1>7. Touched(key) = Append(k, key) BY DEF Touched
<1> HIDE DEF e, k, key
<1>8. Append(k, key) \in Seq(Keys) /\ Once(Append(k, key)) BY <1>2, <1>4 DEF Once
<1>9. KeysEnd(Append(e, entry), Append(k, key)) BY <1>2, <1>4, <1>5, <1>6, AppendKeepsEnd DEF key
<1>10. Append(e, entry) \in Seq(Entries) BY <1>5
<1> QED BY <1>7, <1>8, <1>9, <1>10 DEF e, key

LEMMA TouchOnReadKeepsOrder ==
    ASSUME Inv, LruInv, NEW key, TouchOnRead(key)
    PROVE  LruInv'
<1>1. CASE ~Has(packageCache, key)
  BY <1>1 DEF TouchOnRead, Touch, LruInv
<1>2. CASE Has(packageCache, key)
  <2> DEFINE entry == Entry(packageCache, key)
  <2>1. Position(packageCache, key) \in DOMAIN packageCache /\ packageCache[Position(packageCache, key)].key = key
    BY <1>2 DEF Has, Position
  <2>2. entry \in Entries /\ entry.key = key BY <2>1, ElementOfSeq DEF Entry, Inv, TypeOK
  <2>3. packageCache' = Append(Delete(packageCache, key), entry) /\ recency' = Touched(key)
    BY <1>2 DEF TouchOnRead, Touch
  <2> HIDE DEF entry
  <2> QED BY <2>2, <2>3, RenewKeepsEnd DEF LruInv
<1> QED BY <1>1, <1>2

LEMMA ThenCacheKeepsOrder ==
    ASSUME Inv, LruInv, NEW f \in Fetches, ThenCache(f)
    PROVE  LruInv'
<1> DEFINE stores == fetch[f].outcome = "package" /\ Registered(f)
           entry == [key |-> Key(f), fetch |-> f, fetchedAt |-> now]
           cap == Cap(fetch[f].config)
<1>1. CASE ~stores BY <1>1 DEF ThenCache, LruInv
<1>2. CASE stores
  <2>1. fetch[f].config \in Configs /\ fetch[f].id \in PackageIds /\ now \in 0..MaxTime
    BY DEF Inv, TypeOK
  <2>2. entry \in Entries /\ entry.key = Key(f) BY <2>1, KeyLemma DEF Key, Entries
  <2>3. cap \in Nat BY <2>1, CapLemma
  <2>4. packageCache' = Evict(Append(Delete(packageCache, Key(f)), entry), cap) /\ recency' = Touched(Key(f))
    BY <1>2 DEF ThenCache, Store
  <2> HIDE DEF entry, cap
  <2>5. /\ Touched(Key(f)) \in Seq(Keys) /\ Once(Touched(Key(f)))
        /\ Append(Delete(packageCache, Key(f)), entry) \in Seq(Entries)
        /\ KeysEnd(Append(Delete(packageCache, Key(f)), entry), Touched(Key(f)))
    BY <2>2, RenewKeepsEnd
  <2>6. KeysEnd(packageCache', recency') BY <2>3, <2>4, <2>5, EvictKeepsEnd
  <2> QED BY <2>4, <2>5, <2>6 DEF LruInv
<1> QED BY <1>1, <1>2

LEMMA NextKeepsOrder == Inv /\ LruInv /\ [Next]_vars => LruInv'
<1> SUFFICES ASSUME Inv, LruInv, [Next]_vars PROVE LruInv'
  OBVIOUS
<1>1. ASSUME NEW c \in Callers, NEW config \in Configs, NEW id \in PackageIds, NEW moment,
             FetchCFPackage(c, config, id, moment)
      PROVE  LruInv'
  BY <1>1, TouchOnReadKeepsOrder DEF FetchCFPackage, Hit, Join, Start
<1>2. ASSUME NEW f \in Fetches, ThenCache(f) PROVE LruInv'
  BY <1>2, ThenCacheKeepsOrder
<1>3. CASE Clear
  BY <1>3 DEF Clear, LruInv, Once, KeysEnd
<1>4. CASE UNCHANGED <<packageCache, recency>>
  BY <1>4 DEF LruInv
<1> QED
  BY <1>1, <1>2, <1>3, <1>4 DEF Next, GetCFPackage, GetCFItemFromCachedPackage, Resume,
     ReceiveHeaders, ReceiveNotFound, ReadPackage, FailRequest, TimeOut, ToStage,
     FinallyUnregister, Tick, vars

LEMMA EndIsSuffix ==
    ASSUME NEW S, NEW s \in Seq(S), NEW t \in Seq(S), Len(s) <= Len(t),
           \A i \in 1..Len(s) : s[i] = t[Len(t) - Len(s) + i]
    PROVE  IsSuffix(s, t)
<1> DEFINE n == Len(s)
           m == Len(t)
           r == Reverse(s)
           u == Reverse(t)
<1>1. n \in Nat /\ m \in Nat /\ n <= m OBVIOUS
<1>2. /\ r \in Seq(S) /\ Len(r) = n /\ \A i \in 1..n : r[i] = s[n - i + 1]
      /\ u \in Seq(S) /\ Len(u) = m /\ \A i \in 1..m : u[i] = t[m - i + 1]
  <2>1. \A i \in 1..n : n - i + 1 \in 1..n /\ s[n - i + 1] \in S BY <1>1
  <2>2. \A i \in 1..m : m - i + 1 \in 1..m /\ t[m - i + 1] \in S BY <1>1
  <2> QED BY <1>1, <2>1, <2>2 DEF Reverse
<1>3. \A i \in 1..n : s[i] = t[m - n + i] OBVIOUS
<1> HIDE DEF n, m, r, u
<1>4. ASSUME NEW i \in 1..n PROVE r[i] = u[i]
  <2>1. n - i + 1 \in 1..n /\ m - n + (n - i + 1) = m - i + 1 /\ i \in 1..m BY <1>1
  <2>2. r[i] = s[n - i + 1] /\ u[i] = t[m - i + 1] BY <1>2, <2>1
  <2>3. s[n - i + 1] = t[m - n + (n - i + 1)] BY <1>3, <2>1
  <2> QED BY <2>1, <2>2, <2>3
<1>5. /\ SubSeq(r, 1, n) \in Seq(S) /\ Len(SubSeq(r, 1, n)) = n
      /\ \A i \in 1..n : SubSeq(r, 1, n)[i] = r[i]
  BY <1>1, <1>2
<1>6. /\ SubSeq(u, 1, n) \in Seq(S) /\ Len(SubSeq(u, 1, n)) = n
      /\ \A i \in 1..n : SubSeq(u, 1, n)[i] = u[i]
  BY <1>1, <1>2
<1>7. SubSeq(r, 1, n) = SubSeq(u, 1, n)
  BY <1>4, <1>5, <1>6, SeqEqual
<1> QED BY <1>1, <1>2, <1>7 DEF IsSuffix, IsPrefix, r, u

\* The Map is the most recently touched keys in order of touch, for any sequence
\* of reads, stores of configs with different caps, expiries and clears.
THEOREM LruInclusionHolds == Spec => []LruInclusion
<1>1. Init => LruInv
  BY DEF Init, LruInv, Once, KeysEnd
<1>2. Inv /\ LruInv /\ [Next]_vars => LruInv'
  BY NextKeepsOrder
<1>3. Inv /\ LruInv => LruInclusion
  <2> SUFFICES ASSUME Inv, LruInv PROVE LruInclusion
    OBVIOUS
  <2> DEFINE s == [i \in DOMAIN packageCache |-> packageCache[i].key]
  <2>1. packageCache \in Seq(Entries) BY DEF Inv, TypeOK
  <2>2. ASSUME NEW i \in DOMAIN packageCache PROVE packageCache[i].key \in Keys
    <3>1. packageCache[i] \in Entries BY <2>1
    <3> QED BY <3>1 DEF Entries
  <2>3. s \in Seq(Keys) /\ Len(s) = Len(packageCache) /\ \A i \in 1..Len(s) : s[i] = packageCache[i].key
    BY <2>1, <2>2
  <2> HIDE DEF s
  <2>4. IsSuffix(s, recency) BY <2>3, EndIsSuffix DEF LruInv, KeysEnd
  <2> QED BY <2>4 DEF LruInclusion, s
<1> QED
  BY <1>1, <1>2, <1>3, Invariance, PTL DEF Spec

-----------------------------------------------------------------------------
(***************************************************************************)
(* PackageCache implements ReadThrough, for every value of the constants.  *)
(* The mapping is the one PackageCache states: a fetch is a read that runs *)
(* until its .finally, and is kept from its .then until the next clear.    *)
(***************************************************************************)

(***************************************************************************)
(* What the mapping needs besides Inv: the stage of a fetch tells whether  *)
(* it has an outcome, and a caller that never called refers to no fetch.   *)
(***************************************************************************)
OutcomeByStage ==
    \A f \in Fetches :
        fetch[f].stage \in {"unused", "sent", "reading"} <=> fetch[f].outcome = "none"

IdleIsUnbound == \A c \in Callers : call[c].pc = "idle" => call[c].fetch = NoFetch

MapInv == Inv /\ OutcomeByStage /\ IdleIsUnbound

LEMMA InitMapInv == Init => MapInv
<1>1. Init => OutcomeByStage /\ IdleIsUnbound
  BY DEF Init, OutcomeByStage, IdleIsUnbound, Unused, NoCall
<1> QED
  BY <1>1, InitInv DEF MapInv

\* How a call and its answer change the callers, and nothing but a new fetch
\* changes a fetch.
LEMMA FetchCFPackageKeeps ==
    ASSUME MapInv, NEW c \in Callers, NEW config \in Configs, NEW id \in PackageIds,
           NEW moment, FetchCFPackage(c, config, id, moment)
    PROVE  (OutcomeByStage /\ IdleIsUnbound)'
<1>1. \A d \in Callers : call'[d] = call[d] \/ call'[d].pc # "idle"
  BY DEF FetchCFPackage, Hit, Join, Start, Await, MapInv, Inv, TypeOK
<1>2. IdleIsUnbound'
  BY <1>1 DEF MapInv, IdleIsUnbound
<1>3. CASE Hit(c, config, id, moment) \/ Join(c, config, id, moment)
  BY <1>2, <1>3 DEF Hit, Join, MapInv, OutcomeByStage
<1>4. ASSUME NEW f \in Fetches, Start(c, config, id, f, moment)
      PROVE  (OutcomeByStage /\ IdleIsUnbound)'
  <2>1. \A g \in Fetches : \/ fetch'[g] = fetch[g]
                           \/ fetch'[g].stage = "sent" /\ fetch'[g].outcome = "none"
    BY <1>4 DEF Start, MapInv, Inv, TypeOK
  <2>2. OutcomeByStage'
    BY <2>1 DEF MapInv, OutcomeByStage
  <2> QED
    BY <1>2, <2>2
<1> QED
  BY <1>3, <1>4 DEF FetchCFPackage

LEMMA ToStageKeeps ==
    ASSUME MapInv, NEW f \in Fetches, NEW stage, NEW outcome, ToStage(f, stage, outcome),
           \/ stage = "reading" /\ outcome = "none"
           \/ stage = "settled" /\ outcome # "none"
    PROVE  (OutcomeByStage /\ IdleIsUnbound)'
<1>1. \A g \in Fetches : \/ fetch'[g] = fetch[g]
                         \/ fetch'[g].stage = stage /\ fetch'[g].outcome = outcome
  BY DEF ToStage, MapInv, Inv, TypeOK
<1> QED
  BY <1>1 DEF ToStage, MapInv, OutcomeByStage, IdleIsUnbound

LEMMA NextMapInv == MapInv /\ [Next]_vars => MapInv'
<1> SUFFICES ASSUME MapInv, [Next]_vars PROVE (OutcomeByStage /\ IdleIsUnbound)'
  BY NextInv DEF MapInv
<1>1. ASSUME NEW c \in Callers, GetCFPackage(c) \/ GetCFItemFromCachedPackage(c)
      PROVE  (OutcomeByStage /\ IdleIsUnbound)'
  BY <1>1, FetchCFPackageKeeps DEF GetCFPackage, GetCFItemFromCachedPackage
<1>2. ASSUME NEW c \in Callers, Resume(c) PROVE (OutcomeByStage /\ IdleIsUnbound)'
  BY <1>2 DEF Resume, MapInv, Inv, TypeOK, OutcomeByStage, IdleIsUnbound
<1>3. ASSUME NEW f \in Fetches,
             \/ ReceiveHeaders(f) \/ ReceiveNotFound(f) \/ ReadPackage(f)
             \/ FailRequest(f) \/ TimeOut(f)
      PROVE  (OutcomeByStage /\ IdleIsUnbound)'
  <2>1. \/ ToStage(f, "reading", "none")
        \/ \E outcome \in {"package", "notFound", "failed"} : ToStage(f, "settled", outcome)
    BY <1>3 DEF ReceiveHeaders, ReceiveNotFound, ReadPackage, FailRequest, TimeOut
  <2>2. CASE ToStage(f, "reading", "none")
    BY <2>2, ToStageKeeps
  <2>3. ASSUME NEW outcome \in {"package", "notFound", "failed"},
               ToStage(f, "settled", outcome)
        PROVE  (OutcomeByStage /\ IdleIsUnbound)'
    <3>1. outcome # "none"
      OBVIOUS
    <3> QED
      BY <2>3, <3>1, ToStageKeeps
  <2> QED
    BY <2>1, <2>2, <2>3
<1>4. ASSUME NEW f \in Fetches, ThenCache(f) \/ FinallyUnregister(f)
      PROVE  (OutcomeByStage /\ IdleIsUnbound)'
  <2>1. /\ fetch[f].stage \in {"settled", "cached"} /\ UNCHANGED call
        /\ \A g \in Fetches : /\ fetch'[g].outcome = fetch[g].outcome
                              /\ g # f => fetch'[g] = fetch[g]
        /\ fetch'[f].stage \in {"cached", "done"}
    <3>1. CASE ThenCache(f)
      BY <3>1 DEF ThenCache, MapInv, Inv, TypeOK
    <3>2. CASE FinallyUnregister(f)
      BY <3>2 DEF FinallyUnregister, MapInv, Inv, TypeOK
    <3> QED
      BY <1>4, <3>1, <3>2
  <2> QED
    BY <2>1 DEF MapInv, OutcomeByStage, IdleIsUnbound
<1>5. CASE Clear \/ Tick \/ UNCHANGED vars
  BY <1>5 DEF Clear, Tick, vars, MapInv, OutcomeByStage, IdleIsUnbound
<1> QED
  BY <1>1, <1>2, <1>3, <1>4, <1>5 DEF Next

-----------------------------------------------------------------------------
(***************************************************************************)
(* The initial states, and the steps one kind at a time.                   *)
(***************************************************************************)
LEMMA InitMaps == Init => Promised!Init
<1> SUFFICES ASSUME Init PROVE Promised!Init
  OBVIOUS
<1>1. /\ (CHOOSE c \in Configs : TRUE) \in Configs
      /\ (CHOOSE id \in PackageIds : TRUE) \in PackageIds
  BY ConfigAssumption
<1>2. ASSUME NEW f \in Fetches
      PROVE  ReadOf(f) \in [key : Keys, running : {FALSE}, got : {"none"}, kept : {{}},
                            epoch : {0}]
  <2>1. /\ Key(f) \in Keys /\ fetch[f].stage = "unused" /\ fetch[f].outcome = "none"
        /\ fetch[f].epoch = 0
    BY <1>1, KeyLemma DEF Init, Unused, Key
  <2>2. InProgress(f) = FALSE /\ Kept(f) = {}
    BY <2>1 DEF InProgress, Kept
  <2> QED
    BY <2>1, <2>2 DEF ReadOf
<1>3. ASSUME NEW c \in Callers
      PROVE  CallerOf(c) \in [demand : Demands, bound : {NoFetch}, answered : {FALSE}]
  <2>1. /\ call[c].fetch = NoFetch /\ call[c].pc = "idle"
        /\ call[c].config \in Configs /\ call[c].id \in PackageIds
    BY <1>1 DEF Init, NoCall
  <2>2. Demand(call[c].config, call[c].id) \in Demands
    BY <2>1 DEF Demands
  <2>3. (call[c].pc = "answered") = FALSE
    BY <2>1
  <2> QED
    BY <2>1, <2>2, <2>3 DEF CallerOf
<1>4. [f \in Fetches |-> ReadOf(f)] \in
          [Fetches -> [key : Keys, running : {FALSE}, got : {"none"}, kept : {{}},
                       epoch : {0}]]
  BY <1>2
<1>5. [c \in Callers |-> CallerOf(c)] \in
          [Callers -> [demand : Demands, bound : {NoFetch}, answered : {FALSE}]]
  BY <1>3
<1>6. now = 0 /\ epoch = 0
  BY DEF Init
<1> QED
  BY <1>4, <1>5, <1>6, Zenon DEF Promised!Init

\* A fetch that a step leaves alone is, within one epoch, the same read.
LEMMA SameRead ==
    ASSUME NEW f \in Fetches, fetch'[f] = fetch[f], UNCHANGED epoch
    PROVE  ReadOf(f)' = ReadOf(f)
BY DEF ReadOf, Kept, InProgress, Key

\* A caller that a step leaves alone is the same caller.
LEMMA SameCaller ==
    ASSUME NEW c \in Callers, call'[c] = call[c]
    PROVE  CallerOf(c)' = CallerOf(c)
BY DEF CallerOf, Demand, PackageCacheKey, CaseCacheScope

\* What binding a caller to a fetch comes to.
LEMMA BindMaps ==
    ASSUME MapInv, NEW c \in Callers, NEW config \in Configs, NEW id \in PackageIds,
           NEW f \in Fetches, NEW pc \in {"waiting", "answered"},
           \A d \in Callers \ {c} : call'[d] = call[d],
           call'[c].pc = pc, call'[c].config = config, call'[c].id = id,
           call'[c].fetch = f
    PROVE  Promised!Bind(c, Demand(config, id), f, pc = "answered")
<1>1. CallerOf(c)' = [demand |-> Demand(config, id), bound |-> f, answered |-> pc = "answered"]
  BY DEF CallerOf, Demand, PackageCacheKey, CaseCacheScope
<1>2. \A d \in Callers \ {c} : CallerOf(d)' = CallerOf(d)
  BY SameCaller
<1> QED
  BY <1>1, <1>2 DEF Promised!Bind

LEMMA StartMaps ==
    ASSUME MapInv, NEW c \in Callers, NEW config \in Configs, NEW id \in PackageIds,
           NEW f \in Fetches, NEW moment, Start(c, config, id, f, moment), UNCHANGED epoch
    PROVE  Promised!Begin(c, Demand(config, id), f)
<1>1. /\ Allocatable(f, c)
      /\ fetch' = [fetch EXCEPT ![f] =
                      [stage |-> "sent", outcome |-> "none", config |-> config,
                       id |-> id, epoch |-> epoch, cachedAt |-> 0]]
      /\ call' = [call EXCEPT ![c] =
                     [pc |-> "waiting", config |-> config, id |-> id, hit |-> FALSE,
                      fetch |-> f, servedAt |-> 0, epoch |-> epoch]]
  BY DEF Start, Await
<1>2. \A d \in Callers \ {c} : call'[d] = call[d]
  BY <1>1 DEF MapInv, Inv, TypeOK
<1>3. /\ call'[c].pc = "waiting" /\ call'[c].config = config /\ call'[c].id = id
      /\ call'[c].fetch = f
  BY <1>1 DEF MapInv, Inv, TypeOK
<1>4. Promised!Bind(c, Demand(config, id), f, FALSE)
  <2>1. Promised!Bind(c, Demand(config, id), f, "waiting" = "answered")
    BY <1>2, <1>3, BindMaps
  <2>2. ("waiting" = "answered") = FALSE
    OBVIOUS
  <2> QED
    BY <2>1, <2>2 DEF Promised!Bind
<1>5. ~ReadOf(f).running /\ \A d \in Callers \ {c} : CallerOf(d).bound # f
  <2>1. ~InProgress(f)
    BY <1>1 DEF Allocatable, InProgress
  <2>2. ~ReadOf(f).running
    BY <2>1 DEF ReadOf
  <2> QED
    BY <1>1, <2>2 DEF Allocatable, CallerOf
<1>6. ReadOf(f)' = [key |-> Demand(config, id).key, running |-> TRUE, got |-> "none",
                    kept |-> {}, epoch |-> epoch]
  <2>1. fetch'[f] = [stage |-> "sent", outcome |-> "none", config |-> config,
                     id |-> id, epoch |-> epoch, cachedAt |-> 0]
    BY <1>1 DEF MapInv, Inv, TypeOK
  <2>2. Kept(f)' = {} /\ InProgress(f)' = TRUE
    BY <2>1 DEF Kept, InProgress
  <2>3. Key(f)' = Demand(config, id).key
    BY <2>1 DEF Key, Demand, PackageCacheKey, CaseCacheScope
  <2>4. fetch'[f].outcome = "none" /\ fetch'[f].epoch = epoch
    BY <2>1
  <2>5. ReadOf(f)' = [key |-> Key(f)', running |-> InProgress(f)', got |-> fetch'[f].outcome,
                      kept |-> Kept(f)', epoch |-> fetch'[f].epoch]
    BY DEF ReadOf
  <2> QED
    BY <2>2, <2>3, <2>4, <2>5, Zenon
<1>7. \A g \in Fetches \ {f} : ReadOf(g)' = ReadOf(g)
  BY <1>1, SameRead DEF MapInv, Inv, TypeOK
<1> QED
  BY <1>4, <1>5, <1>6, <1>7 DEF Promised!Begin

LEMMA JoinMaps ==
    ASSUME MapInv, NEW c \in Callers, NEW config \in Configs, NEW id \in PackageIds,
           NEW moment, Join(c, config, id, moment), UNCHANGED epoch
    PROVE  \E f \in Fetches : Promised!Share(c, Demand(config, id), f)
<1> DEFINE key == PackageCacheKey(config, id)
           f == packageInFlight[key]
<1>1. /\ f # NoFetch /\ UNCHANGED fetch
      /\ call' = [call EXCEPT ![c] =
                     [pc |-> "waiting", config |-> config, id |-> id, hit |-> FALSE,
                      fetch |-> f, servedAt |-> 0, epoch |-> epoch]]
  BY DEF Join, Await
<1>2. key \in Keys /\ key = Demand(config, id).key
  BY KeyLemma DEF Demand
<1> HIDE DEF key
<1>3. f \in Fetches /\ InProgress(f) /\ Key(f) = key /\ fetch[f].epoch = epoch
  BY <1>1, <1>2 DEF MapInv, Inv, TypeOK, RegisteredIsCurrent
<1> HIDE DEF f
<1>4. \A d \in Callers \ {c} : call'[d] = call[d]
  BY <1>1 DEF MapInv, Inv, TypeOK
<1>5. /\ call'[c].pc = "waiting" /\ call'[c].config = config /\ call'[c].id = id
      /\ call'[c].fetch = f
  BY <1>1 DEF MapInv, Inv, TypeOK
<1>6. Promised!Bind(c, Demand(config, id), f, FALSE)
  <2>1. Promised!Bind(c, Demand(config, id), f, "waiting" = "answered")
    BY <1>3, <1>4, <1>5, BindMaps
  <2>2. ("waiting" = "answered") = FALSE
    OBVIOUS
  <2> QED
    BY <2>1, <2>2 DEF Promised!Bind
<1>7. ReadOf(f).key = Demand(config, id).key /\ ReadOf(f).epoch = epoch /\ ReadOf(f).running
  BY <1>2, <1>3 DEF ReadOf
<1>8. \A g \in Fetches : ReadOf(g)' = ReadOf(g)
  BY <1>1, SameRead
<1> QED
  BY <1>3, <1>6, <1>7, <1>8 DEF Promised!Share, Promised!Current

LEMMA HitMaps ==
    ASSUME MapInv, NEW c \in Callers, NEW config \in Configs, NEW id \in PackageIds,
           NEW moment \in 0..MaxTime, Hit(c, config, id, moment), now' = moment,
           UNCHANGED epoch
    PROVE  \E f \in Fetches : Promised!Reuse(c, Demand(config, id), f)
<1> DEFINE key == PackageCacheKey(config, id)
           e == Entry(packageCache, key)
           f == e.fetch
<1>1. /\ Has(packageCache, key) /\ moment - e.fetchedAt < TtlMs[config] /\ UNCHANGED fetch
      /\ call' = [call EXCEPT ![c] =
                     [pc |-> "answered", config |-> config, id |-> id, hit |-> TRUE,
                      fetch |-> f, servedAt |-> moment, epoch |-> epoch]]
  BY DEF Hit, FreshHit
<1>2. e \in Entries /\ e.key = key /\ GoodEntry(e)
  <2>1. /\ Position(packageCache, key) \in DOMAIN packageCache
        /\ packageCache[Position(packageCache, key)].key = key
    BY <1>1 DEF Has, Position
  <2>2. e \in Entries /\ e.key = key
    BY <2>1, ElementOfSeq DEF Entry, MapInv, Inv, TypeOK
  <2>3. GoodEntry(e)
    BY <2>1 DEF Entry, MapInv, Inv, EntriesAreGood
  <2> QED
    BY <2>2, <2>3
<1>3. key = Demand(config, id).key /\ TtlMs[config] = Demand(config, id).ttl
  BY DEF Demand
<1> HIDE DEF key, e
<1>4. /\ f \in Fetches /\ fetch[f].stage \in {"cached", "done"} /\ fetch[f].outcome = "package"
      /\ fetch[f].epoch = epoch /\ fetch[f].cachedAt = e.fetchedAt /\ Key(f) = key
  BY <1>2 DEF Entries, GoodEntry
<1> HIDE DEF f
<1>5. \A d \in Callers \ {c} : call'[d] = call[d]
  BY <1>1 DEF MapInv, Inv, TypeOK
<1>6. /\ call'[c].pc = "answered" /\ call'[c].config = config /\ call'[c].id = id
      /\ call'[c].fetch = f
  BY <1>1 DEF MapInv, Inv, TypeOK
<1>7. Promised!Bind(c, Demand(config, id), f, TRUE)
  <2>1. Promised!Bind(c, Demand(config, id), f, "answered" = "answered")
    BY <1>4, <1>5, <1>6, BindMaps
  <2>2. ("answered" = "answered") = TRUE
    OBVIOUS
  <2> QED
    BY <2>1, <2>2 DEF Promised!Bind
<1>8. Kept(f) = {e.fetchedAt}
  BY <1>4 DEF Kept
<1>9. /\ ReadOf(f).key = Demand(config, id).key /\ ReadOf(f).epoch = epoch
      /\ ReadOf(f).kept = {e.fetchedAt} /\ now' - e.fetchedAt < Demand(config, id).ttl
  BY <1>1, <1>3, <1>4, <1>8 DEF ReadOf
<1>10. \A g \in Fetches : ReadOf(g)' = ReadOf(g)
  BY <1>1, SameRead
<1> QED
  BY <1>4, <1>7, <1>9, <1>10 DEF Promised!Reuse, Promised!Current

\* A call moves the clock forward at most, and is bound in one of the three ways.
LEMMA CallMaps ==
    ASSUME MapInv, NEW c \in Callers, call[c].pc # "waiting", NEW config \in Configs,
           NEW id \in PackageIds, NEW moment \in now..MaxTime,
           FetchCFPackage(c, config, id, moment)
    PROVE  Promised!Call(c)
<1>1. now \in Nat /\ moment \in 0..MaxTime /\ moment >= now
  BY BoundAssumption DEF MapInv, Inv, TypeOK
<1>2. now' = moment /\ UNCHANGED epoch
  BY DEF FetchCFPackage
<1>3. Promised!Idle(c)
  <2>1. call[c].pc = "answered" \/ call[c].fetch = NoFetch
    <3>1. call[c] \in CallRecords
      BY DEF MapInv, Inv, TypeOK
    <3>2. call[c].pc \in {"idle", "answered"}
      BY <3>1 DEF CallRecords
    <3> QED
      BY <3>2 DEF MapInv, IdleIsUnbound
  <2> QED
    BY <2>1 DEF Promised!Idle, CallerOf
<1>4. Demand(config, id) \in Demands
  BY DEF Demands
<1>5. \E f \in Fetches : \/ Promised!Begin(c, Demand(config, id), f)
                         \/ Promised!Share(c, Demand(config, id), f)
                         \/ Promised!Reuse(c, Demand(config, id), f)
  <2>1. CASE Hit(c, config, id, moment)
    BY <1>1, <1>2, <2>1, HitMaps
  <2>2. CASE Join(c, config, id, moment)
    BY <1>2, <2>2, JoinMaps
  <2>3. ASSUME NEW f \in Fetches, Start(c, config, id, f, moment)
        PROVE  Promised!Begin(c, Demand(config, id), f)
    BY <1>2, <2>3, StartMaps
  <2> QED
    BY <2>1, <2>2, <2>3 DEF FetchCFPackage
<1> QED
  BY <1>1, <1>2, <1>3, <1>4, <1>5 DEF Promised!Call

\* The end of the upstream request gives the read its outcome; the headers
\* alone change nothing.
LEMMA UpstreamMaps ==
    ASSUME MapInv, NEW f \in Fetches,
           \/ ReceiveHeaders(f) \/ ReceiveNotFound(f) \/ ReadPackage(f)
           \/ FailRequest(f) \/ TimeOut(f)
    PROVE  Promised!Get(f) \/ UNCHANGED Promised!vars
<1>1. /\ fetch[f].stage \in {"sent", "reading"} /\ fetch[f].outcome = "none"
      /\ UNCHANGED <<call, now, epoch>>
  BY DEF ReceiveHeaders, ReceiveNotFound, ReadPackage, FailRequest, TimeOut, ToStage,
     MapInv, OutcomeByStage
<1>2. PICK outcome \in Outcomes, stage \in {"reading", "settled"} :
          /\ stage = "reading" <=> outcome = "none"
          /\ fetch' = [fetch EXCEPT ![f].stage = stage, ![f].outcome = outcome]
  BY DEF ReceiveHeaders, ReceiveNotFound, ReadPackage, FailRequest, TimeOut, ToStage,
     Outcomes
<1>3. /\ fetch'[f].stage = stage /\ fetch'[f].outcome = outcome
      /\ fetch'[f].config = fetch[f].config /\ fetch'[f].id = fetch[f].id
      /\ fetch'[f].epoch = fetch[f].epoch
      /\ \A g \in Fetches \ {f} : fetch'[g] = fetch[g]
  BY <1>2 DEF MapInv, Inv, TypeOK
<1>4. ReadOf(f) = [key |-> Key(f), running |-> TRUE, got |-> "none", kept |-> {},
                   epoch |-> fetch[f].epoch]
  <2>1. InProgress(f) = TRUE /\ Kept(f) = {}
    BY <1>1 DEF InProgress, Kept
  <2> QED
    BY <1>1, <2>1, Zenon DEF ReadOf
<1>5. ReadOf(f)' = [key |-> Key(f), running |-> TRUE, got |-> outcome, kept |-> {},
                    epoch |-> fetch[f].epoch]
  <2>1. InProgress(f)' = TRUE /\ Kept(f)' = {} /\ Key(f)' = Key(f)
    BY <1>3 DEF InProgress, Kept, Key, PackageCacheKey, CaseCacheScope
  <2>2. ReadOf(f)' = [key |-> Key(f)', running |-> InProgress(f)', got |-> fetch'[f].outcome,
                      kept |-> Kept(f)', epoch |-> fetch'[f].epoch]
    BY DEF ReadOf
  <2> QED
    BY <1>3, <2>1, <2>2, Zenon
<1>6. \A g \in Fetches \ {f} : ReadOf(g)' = ReadOf(g)
  BY <1>1, <1>3, SameRead
<1>7. \A c \in Callers : CallerOf(c)' = CallerOf(c)
  BY <1>1, SameCaller
<1>8. CASE outcome = "none"
  <2>1. \A g \in Fetches : ReadOf(g)' = ReadOf(g)
    BY <1>4, <1>5, <1>6, <1>8
  <2> QED
    BY <1>1, <1>7, <2>1 DEF Promised!vars
<1>9. CASE outcome # "none"
  <2>1. ReadOf(f)' = Promised!Becomes(f, TRUE, outcome, {})
    <3>1. ReadOf(f).key = Key(f) /\ ReadOf(f).epoch = fetch[f].epoch
      BY <1>4
    <3> QED
      BY <1>5, <3>1, Zenon DEF Promised!Becomes
  <2>2. ReadOf(f).running /\ ReadOf(f).got = "none"
    BY <1>4
  <2>3. outcome \in {"package", "notFound", "failed"}
    BY <1>9 DEF Outcomes
  <2> QED
    BY <1>1, <1>6, <1>7, <2>1, <2>2, <2>3 DEF Promised!Get
<1> QED
  BY <1>8, <1>9

\* The .then callback keeps the read exactly if it brought a package back and no
\* clear came in between, which the code asks of the registration instead.
LEMMA ThenMaps ==
    ASSUME MapInv, NEW f \in Fetches, ThenCache(f)
    PROVE  Promised!Keep(f) \/ UNCHANGED Promised!vars
<1> DEFINE stores == fetch[f].outcome = "package" /\ Registered(f)
<1>1. /\ fetch[f].stage = "settled" /\ UNCHANGED <<call, now, epoch>>
      /\ fetch' = [fetch EXCEPT ![f].stage = "cached",
                                ![f].cachedAt = IF stores THEN now ELSE 0]
  BY DEF ThenCache
<1>2. stores <=> fetch[f].outcome = "package" /\ fetch[f].epoch = epoch
  <2>1. InProgress(f) /\ Key(f) \in Keys
    <3>1. fetch[f].config \in Configs /\ fetch[f].id \in PackageIds
      BY DEF MapInv, Inv, TypeOK, FetchRecords
    <3> QED
      BY <1>1, <3>1, KeyLemma DEF InProgress, Key
  <2>2. fetch[f].epoch = epoch => Registered(f)
    BY <2>1 DEF MapInv, Inv, CurrentIsRegistered
  <2>3. Registered(f) => fetch[f].epoch = epoch
    BY <2>1, IdentityAssumption DEF Registered, MapInv, Inv, RegisteredIsCurrent
  <2> QED
    BY <2>2, <2>3
<1>3. /\ fetch'[f].stage = "cached" /\ fetch'[f].outcome = fetch[f].outcome
      /\ fetch'[f].config = fetch[f].config /\ fetch'[f].id = fetch[f].id
      /\ fetch'[f].epoch = fetch[f].epoch
      /\ stores => fetch'[f].cachedAt = now
      /\ \A g \in Fetches \ {f} : fetch'[g] = fetch[g]
  BY <1>1 DEF MapInv, Inv, TypeOK
<1> HIDE DEF stores
<1>4. ReadOf(f) = [key |-> Key(f), running |-> TRUE, got |-> fetch[f].outcome, kept |-> {},
                   epoch |-> fetch[f].epoch]
  <2>1. InProgress(f) = TRUE /\ Kept(f) = {}
    BY <1>1 DEF InProgress, Kept
  <2> QED
    BY <2>1, Zenon DEF ReadOf
<1>5. ReadOf(f)' = [key |-> Key(f), running |-> TRUE, got |-> fetch[f].outcome,
                    kept |-> IF stores THEN {now} ELSE {}, epoch |-> fetch[f].epoch]
  <2>1. InProgress(f)' = TRUE /\ Key(f)' = Key(f)
    BY <1>3 DEF InProgress, Key, PackageCacheKey, CaseCacheScope
  <2>2. Kept(f)' = IF stores THEN {now} ELSE {}
    BY <1>1, <1>2, <1>3 DEF Kept
  <2>3. ReadOf(f)' = [key |-> Key(f)', running |-> InProgress(f)', got |-> fetch'[f].outcome,
                      kept |-> Kept(f)', epoch |-> fetch'[f].epoch]
    BY DEF ReadOf
  <2> QED
    BY <1>3, <2>1, <2>2, <2>3, Zenon
<1>6. \A g \in Fetches \ {f} : ReadOf(g)' = ReadOf(g)
  BY <1>1, <1>3, SameRead
<1>7. \A c \in Callers : CallerOf(c)' = CallerOf(c)
  BY <1>1, SameCaller
<1>8. CASE ~stores
  <2>1. \A g \in Fetches : ReadOf(g)' = ReadOf(g)
    BY <1>4, <1>5, <1>6, <1>8
  <2> QED
    BY <1>1, <1>7, <2>1 DEF Promised!vars
<1>9. CASE stores
  <2>1. ReadOf(f).key = Key(f) /\ ReadOf(f).epoch = fetch[f].epoch
    BY <1>4
  <2>2. fetch[f].outcome = "package"
    BY <1>2, <1>9
  <2>3. ReadOf(f)' = Promised!Becomes(f, TRUE, "package", {now})
    BY <1>5, <1>9, <2>1, <2>2, Zenon DEF Promised!Becomes
  <2>4. ReadOf(f).running /\ ReadOf(f).got = "package" /\ ReadOf(f).kept = {}
    BY <1>4, <2>2
  <2> QED
    BY <1>1, <1>6, <1>7, <2>3, <2>4 DEF Promised!Keep
<1> QED
  BY <1>8, <1>9

LEMMA FinallyMaps ==
    ASSUME MapInv, NEW f \in Fetches, FinallyUnregister(f)
    PROVE  Promised!Finish(f)
<1>1. /\ fetch[f].stage = "cached" /\ UNCHANGED <<call, now, epoch>>
      /\ fetch' = [fetch EXCEPT ![f].stage = "done"]
  BY DEF FinallyUnregister
<1>2. /\ fetch'[f].stage = "done" /\ fetch'[f].outcome = fetch[f].outcome
      /\ fetch'[f].config = fetch[f].config /\ fetch'[f].id = fetch[f].id
      /\ fetch'[f].epoch = fetch[f].epoch /\ fetch'[f].cachedAt = fetch[f].cachedAt
      /\ \A g \in Fetches \ {f} : fetch'[g] = fetch[g]
  BY <1>1 DEF MapInv, Inv, TypeOK
<1>3. fetch[f].outcome # "none"
  BY <1>1 DEF MapInv, OutcomeByStage
<1>4. /\ ReadOf(f).running /\ ReadOf(f).got # "none"
      /\ ReadOf(f).key = Key(f) /\ ReadOf(f).epoch = fetch[f].epoch
      /\ ReadOf(f).got = fetch[f].outcome /\ ReadOf(f).kept = Kept(f)
  <2>1. InProgress(f)
    BY <1>1 DEF InProgress
  <2> QED
    BY <1>3, <2>1 DEF ReadOf
<1>5. ReadOf(f)' = Promised!Becomes(f, FALSE, ReadOf(f).got, ReadOf(f).kept)
  <2>1. InProgress(f)' = FALSE /\ Key(f)' = Key(f)
    BY <1>2 DEF InProgress, Key, PackageCacheKey, CaseCacheScope
  <2>2. Kept(f)' = Kept(f)
    BY <1>1, <1>2 DEF Kept
  <2>3. ReadOf(f)' = [key |-> Key(f)', running |-> InProgress(f)', got |-> fetch'[f].outcome,
                      kept |-> Kept(f)', epoch |-> fetch'[f].epoch]
    BY DEF ReadOf
  <2> QED
    BY <1>2, <1>4, <2>1, <2>2, <2>3, Zenon DEF Promised!Becomes
<1>6. \A g \in Fetches \ {f} : ReadOf(g)' = ReadOf(g)
  BY <1>1, <1>2, SameRead
<1>7. \A c \in Callers : CallerOf(c)' = CallerOf(c)
  BY <1>1, SameCaller
<1> QED
  BY <1>1, <1>4, <1>5, <1>6, <1>7 DEF Promised!Finish

LEMMA ResumeMaps ==
    ASSUME MapInv, NEW c \in Callers, Resume(c)
    PROVE  Promised!Answer(c)
<1>1. /\ call[c].pc = "waiting" /\ fetch[call[c].fetch].stage = "done"
      /\ call' = [call EXCEPT ![c].pc = "answered"] /\ UNCHANGED <<fetch, now, epoch>>
  BY DEF Resume
<1>2. /\ call'[c].pc = "answered" /\ call'[c].fetch = call[c].fetch
      /\ call'[c].config = call[c].config /\ call'[c].id = call[c].id
      /\ \A d \in Callers \ {c} : call'[d] = call[d]
  BY <1>1 DEF MapInv, Inv, TypeOK
<1>3. call[c].fetch \in Fetches /\ call[c].fetch # NoFetch
  BY <1>1, IdentityAssumption DEF MapInv, Inv, CallsAreMatched
<1>4. ~Promised!Idle(c)
  BY <1>1, <1>3 DEF Promised!Idle, CallerOf
<1>5. ~ReadOf(CallerOf(c).bound).running
  BY <1>1, <1>3 DEF CallerOf, ReadOf, InProgress
<1>6. /\ CallerOf(c).demand = Demand(call[c].config, call[c].id)
      /\ CallerOf(c).bound = call[c].fetch
  BY DEF CallerOf
<1>7. Promised!Bind(c, CallerOf(c).demand, CallerOf(c).bound, TRUE)
  <2>1. call[c].config \in Configs /\ call[c].id \in PackageIds
    BY DEF MapInv, Inv, TypeOK, CallRecords
  <2>2. Promised!Bind(c, Demand(call[c].config, call[c].id), call[c].fetch,
                      "answered" = "answered")
    BY <1>2, <1>3, <2>1, BindMaps
  <2>3. ("answered" = "answered") = TRUE
    OBVIOUS
  <2> QED
    BY <1>6, <2>2, <2>3 DEF Promised!Bind
<1>8. \A g \in Fetches : ReadOf(g)' = ReadOf(g)
  BY <1>1, SameRead
<1> QED
  BY <1>1, <1>3, <1>4, <1>5, <1>6, <1>7, <1>8 DEF Promised!Answer, CallerOf

\* No read is of an epoch that has not begun, so that none is kept right after a
\* clear.
LEMMA ClearMaps ==
    ASSUME MapInv, Clear
    PROVE  Promised!Clear
<1>1. epoch' = epoch + 1 /\ UNCHANGED <<fetch, call, now>>
  BY DEF Clear
<1>2. ASSUME NEW f \in Fetches
      PROVE  ReadOf(f)' = Promised!Becomes(f, ReadOf(f).running, ReadOf(f).got, {})
  <2>1. fetch[f].epoch # epoch'
    BY <1>1, BoundAssumption DEF MapInv, Inv, TypeOK, NoFutureFetch, FetchRecords
  <2>2. Kept(f)' = {}
    BY <1>1, <2>1 DEF Kept
  <2>3. InProgress(f)' = InProgress(f) /\ Key(f)' = Key(f)
    BY <1>1 DEF InProgress, Key, PackageCacheKey, CaseCacheScope
  <2>4. ReadOf(f)' = [key |-> Key(f)', running |-> InProgress(f)', got |-> fetch'[f].outcome,
                      kept |-> Kept(f)', epoch |-> fetch'[f].epoch]
    BY DEF ReadOf
  <2>5. /\ ReadOf(f).key = Key(f) /\ ReadOf(f).epoch = fetch[f].epoch
        /\ ReadOf(f).got = fetch[f].outcome
    BY DEF ReadOf
  <2>6. ReadOf(f).running = InProgress(f)
    BY DEF ReadOf
  <2> QED
    BY <1>1, <2>2, <2>3, <2>4, <2>5, <2>6, Zenon DEF Promised!Becomes
<1>3. \A c \in Callers : CallerOf(c)' = CallerOf(c)
  BY <1>1, SameCaller
<1> QED
  BY <1>1, <1>2, <1>3 DEF Promised!Clear

LEMMA IdleStepMaps ==
    ASSUME MapInv, Tick \/ UNCHANGED vars
    PROVE  Promised!Advance \/ UNCHANGED Promised!vars
<1>1. UNCHANGED <<fetch, call, epoch>> /\ (now' = now + 1 \/ UNCHANGED now)
  BY DEF Tick, vars
<1>2. \A f \in Fetches : ReadOf(f)' = ReadOf(f)
  BY <1>1, SameRead
<1>3. \A c \in Callers : CallerOf(c)' = CallerOf(c)
  BY <1>1, SameCaller
<1>4. now' > now \/ UNCHANGED now
  BY <1>1, BoundAssumption DEF MapInv, Inv, TypeOK
<1> QED
  BY <1>1, <1>2, <1>3, <1>4 DEF Promised!Advance, Promised!vars

\* Every step is a step of ReadThrough, or leaves its variables alone.
LEMMA NextMaps == MapInv /\ [Next]_vars => [Promised!Next]_(Promised!vars)
<1> SUFFICES ASSUME MapInv, [Next]_vars PROVE Promised!Next \/ UNCHANGED Promised!vars
  OBVIOUS
<1>1. ASSUME NEW c \in Callers, GetCFPackage(c) \/ GetCFItemFromCachedPackage(c)
      PROVE  Promised!Next
  <2>1. now \in now..MaxTime
    BY BoundAssumption DEF MapInv, Inv, TypeOK
  <2>2. Promised!Call(c)
    BY <1>1, <2>1, CallMaps DEF GetCFPackage, GetCFItemFromCachedPackage
  <2> QED
    BY <2>2 DEF Promised!Next
<1>2. ASSUME NEW c \in Callers, Resume(c) PROVE Promised!Next
  BY <1>2, ResumeMaps DEF Promised!Next
<1>3. ASSUME NEW f \in Fetches,
             \/ ReceiveHeaders(f) \/ ReceiveNotFound(f) \/ ReadPackage(f)
             \/ FailRequest(f) \/ TimeOut(f)
      PROVE  Promised!Next \/ UNCHANGED Promised!vars
  BY <1>3, UpstreamMaps DEF Promised!Next
<1>4. ASSUME NEW f \in Fetches, ThenCache(f) PROVE Promised!Next \/ UNCHANGED Promised!vars
  BY <1>4, ThenMaps DEF Promised!Next
<1>5. ASSUME NEW f \in Fetches, FinallyUnregister(f) PROVE Promised!Next
  BY <1>5, FinallyMaps DEF Promised!Next
<1>6. CASE Clear
  BY <1>6, ClearMaps DEF Promised!Next
<1>7. CASE Tick \/ UNCHANGED vars
  BY <1>7, IdleStepMaps DEF Promised!Next
<1> QED
  BY <1>1, <1>2, <1>3, <1>4, <1>5, <1>6, <1>7 DEF Next

\* The package cache, with its Map, its eviction, its registrations and the
\* callbacks that race a clear, does no more than ReadThrough promises: every
\* call is bound to a read of its own key begun since the last clear, running or
\* kept less than the caller's ttl ago.
THEOREM ImplementsReadThrough == Spec => ReadsThrough
<1>1. Init => MapInv
  BY InitMapInv
<1>2. MapInv /\ [Next]_vars => MapInv'
  BY NextMapInv
<1>3. Init => Promised!Init
  BY InitMaps
<1>4. MapInv /\ [Next]_vars => [Promised!Next]_(Promised!vars)
  BY NextMaps
<1> QED
  BY <1>1, <1>2, <1>3, <1>4, PTL DEF Spec, ReadsThrough, Promised!Spec
=============================================================================
