---------------------------- MODULE PackageCache ----------------------------
(***************************************************************************)
(* The CASE package cache of server/src/case/client.ts: one process-wide   *)
(* least-recently-used Map of whole framework packages, one Map of fetches *)
(* in flight, and the asynchronous callers that share them.                *)
(*                                                                         *)
(* JavaScript runs one callback at a time, so every action below is the    *)
(* code between two points where a callback may end: a call up to its      *)
(* `await`, the headers or the body of a response, the timer, the `.then`  *)
(* callback, the `.finally` callback, a caller's continuation.  Callbacks  *)
(* that are ready may run in any order.  Date.now() moves between any two  *)
(* reads of it.                                                            *)
(***************************************************************************)
EXTENDS Naturals, Sequences, SequencesExt

CONSTANTS
    Callers,            \* asynchronous callers, one outstanding call each
    Configs,            \* the CaseConfig objects in use
    BaseUrl,            \* BaseUrl[config]: its server, no trailing slash
    ApiKey,             \* ApiKey[config]: the credential it reads with
    TtlMs,              \* TtlMs[config]: how long it accepts a cached package
    MaxCachedPackages,  \* MaxCachedPackages[config]: the cap as configured
    DefaultMaxEntries,  \* PACKAGE_CACHE_MAX_ENTRIES
    PackageIds,         \* CFPackage identifiers
    Fetches,            \* promise objects, reused once nothing refers to them
    NoFetch,            \* no promise
    MaxTime,            \* bound on the clock
    MaxClears           \* bound on the number of clears

ASSUME ConfigAssumption ==
    /\ Configs # {} /\ PackageIds # {}
    /\ TtlMs \in [Configs -> Nat]
    /\ DefaultMaxEntries \in Nat \ {0}
    /\ DOMAIN MaxCachedPackages = Configs

ASSUME IdentityAssumption == NoFetch \notin Fetches

ASSUME BoundAssumption == MaxTime \in Nat /\ MaxClears \in Nat

VARIABLES
    packageCache,       \* Map entries, the oldest insertion first
    packageInFlight,    \* key |-> the registered fetch, or NoFetch
    fetch,              \* what became of every promise
    call,               \* what became of every caller's latest call
    now,                \* Date.now()
    epoch,              \* history: how often the cache was cleared
    recency             \* history: keys touched since, the latest last

vars == <<packageCache, packageInFlight, fetch, call, now, epoch, recency>>

-----------------------------------------------------------------------------
(***************************************************************************)
(* Keys, the LRU Map, and freshness.                                       *)
(***************************************************************************)

\* A missing, zero, negative or non-finite setting falls back to the default.
PositiveOr(value, fallback) == IF value \in Nat \ {0} THEN value ELSE fallback

\* BUG: the cache is partitioned by server only.
BugCaseCacheScope(config) == <<BaseUrl[config]>>

CaseCacheScope(config) == <<BaseUrl[config], ApiKey[config]>>

PackageCacheKey(config, id) == <<CaseCacheScope(config), id>>

Keys == {PackageCacheKey(config, id) : config \in Configs, id \in PackageIds}

Has(cache, key) == \E i \in DOMAIN cache : cache[i].key = key

Position(cache, key) == CHOOSE i \in DOMAIN cache : cache[i].key = key

Entry(cache, key) == cache[Position(cache, key)]

\* BUG: no entry is taken out before it is put back at the young end.
BugDelete(cache, key) == cache

\* Map.delete
Delete(cache, key) ==
    IF Has(cache, key) THEN RemoveAt(cache, Position(cache, key)) ELSE cache

\* BUG: a read leaves the entry where it is.
BugTouchKeepsPlace(cache, key) == cache

\* BUG: a read makes the entry young again.
BugTouchRefreshes(cache, key) ==
    IF Has(cache, key)
    THEN Append(Delete(cache, key), [Entry(cache, key) EXCEPT !.fetchedAt = now])
    ELSE cache

\* delete + set: the entry moves to the young end, its fetchedAt unchanged.
Touch(cache, key) ==
    IF Has(cache, key)
    THEN Append(Delete(cache, key), Entry(cache, key))
    ELSE cache

\* BUG: one too many survives.
BugEvict(cache, cap) ==
    IF Len(cache) > cap + 1 THEN SubSeq(cache, Len(cache) - cap, Len(cache)) ELSE cache

\* BUG: eviction drops the young end, the package that was just stored first.
BugEvictYoungest(cache, cap) == IF Len(cache) > cap THEN SubSeq(cache, 1, cap) ELSE cache

\* Eviction from the old end while the Map is larger than the cap.
Evict(cache, cap) ==
    IF Len(cache) > cap THEN SubSeq(cache, Len(cache) - cap + 1, Len(cache)) ELSE cache

Store(cache, key, entry, cap) == Evict(Append(Delete(cache, key), entry), cap)

Cap(config) == PositiveOr(MaxCachedPackages[config], DefaultMaxEntries)

\* BUG: an entry is good for one unit of time too long.
BugFreshHit(config, key, moment) ==
    /\ Has(packageCache, key)
    /\ moment - Entry(packageCache, key).fetchedAt <= TtlMs[config]

\* The freshness test, with Date.now() read at this moment.
FreshHit(config, key, moment) ==
    /\ Has(packageCache, key)
    /\ moment - Entry(packageCache, key).fetchedAt < TtlMs[config]

\* History: the key becomes the most recently touched one.
Touched(key) == Append(RemoveFirst(recency, key), key)

-----------------------------------------------------------------------------
(***************************************************************************)
(* Promises and callers.                                                   *)
(***************************************************************************)

Stages == {"unused", "sent", "reading", "settled", "cached", "done"}
Outcomes == {"none", "package", "notFound", "failed"}

Unused == [stage |-> "unused", outcome |-> "none", config |-> CHOOSE c \in Configs : TRUE,
           id |-> CHOOSE id \in PackageIds : TRUE, epoch |-> 0, cachedAt |-> 0]

Key(f) == PackageCacheKey(fetch[f].config, fetch[f].id)

Registered(f) == packageInFlight[Key(f)] = f

InProgress(f) == fetch[f].stage \in {"sent", "reading", "settled", "cached"}

NoCall == [pc |-> "idle", config |-> CHOOSE c \in Configs : TRUE,
           id |-> CHOOSE id \in PackageIds : TRUE, fetch |-> NoFetch,
           hit |-> FALSE, servedAt |-> 0, epoch |-> 0]

\* A promise object that nothing else refers to may be allocated by c's call.
Allocatable(f, c) ==
    /\ fetch[f].stage \in {"unused", "done"}
    /\ \A i \in DOMAIN packageCache : packageCache[i].fetch # f
    /\ \A key \in Keys : packageInFlight[key] # f
    /\ \A d \in Callers \ {c} : call[d].fetch # f

Init ==
    /\ packageCache = <<>>
    /\ packageInFlight = [key \in Keys |-> NoFetch]
    /\ fetch = [f \in Fetches |-> Unused]
    /\ call = [c \in Callers |-> NoCall]
    /\ now = 0
    /\ epoch = 0
    /\ recency = <<>>

-----------------------------------------------------------------------------
(***************************************************************************)
(* fetchCFPackage up to its first await: a fresh hit answers, a fetch in   *)
(* flight is joined, otherwise a new one is started and registered.  Even  *)
(* an expired entry is touched on the way.                                 *)
(***************************************************************************)
TouchOnRead(key) ==
    /\ packageCache' = Touch(packageCache, key)
    /\ recency' = IF Has(packageCache, key) THEN Touched(key) ELSE recency

Hit(c, config, id, moment) ==
    LET key == PackageCacheKey(config, id) IN
    /\ FreshHit(config, key, moment)
    /\ TouchOnRead(key)
    /\ call' = [call EXCEPT ![c] =
                   [pc |-> "answered", config |-> config, id |-> id, hit |-> TRUE,
                    fetch |-> Entry(packageCache, key).fetch, servedAt |-> moment,
                    epoch |-> epoch]]
    /\ UNCHANGED <<packageInFlight, fetch>>

Await(c, config, id, f) ==
    call' = [call EXCEPT ![c] =
                [pc |-> "waiting", config |-> config, id |-> id, hit |-> FALSE,
                 fetch |-> f, servedAt |-> 0, epoch |-> epoch]]

Join(c, config, id, moment) ==
    LET key == PackageCacheKey(config, id) IN
    /\ ~FreshHit(config, key, moment)
    /\ packageInFlight[key] # NoFetch
    /\ TouchOnRead(key)
    /\ Await(c, config, id, packageInFlight[key])
    /\ UNCHANGED <<packageInFlight, fetch>>

Start(c, config, id, f, moment) ==
    LET key == PackageCacheKey(config, id) IN
    /\ ~FreshHit(config, key, moment)
    /\ packageInFlight[key] = NoFetch
    /\ Allocatable(f, c)
    /\ TouchOnRead(key)
    /\ fetch' = [fetch EXCEPT ![f] =
                    [stage |-> "sent", outcome |-> "none", config |-> config,
                     id |-> id, epoch |-> epoch, cachedAt |-> 0]]
    /\ packageInFlight' = [packageInFlight EXCEPT ![key] = f]
    /\ Await(c, config, id, f)

FetchCFPackage(c, config, id, moment) ==
    /\ \/ Hit(c, config, id, moment)
       \/ Join(c, config, id, moment)
       \/ \E f \in Fetches : Start(c, config, id, f, moment)
    /\ now' = moment
    /\ UNCHANGED epoch

\* getCFPackage and getCasePackage, called by a resolver.
GetCFPackage(c) ==
    /\ call[c].pc # "waiting"
    /\ \E config \in Configs, id \in PackageIds : FetchCFPackage(c, config, id, now)

\* getCFItemFromCachedPackage: isPackageCached reads the clock, and a positive
\* answer is followed, in the same callback, by a call that reads it again.
GetCFItemFromCachedPackage(c) ==
    /\ call[c].pc # "waiting"
    /\ \E config \in Configs, id \in PackageIds, later \in now..MaxTime :
          /\ FreshHit(config, PackageCacheKey(config, id), now)
          /\ FetchCFPackage(c, config, id, later)

-----------------------------------------------------------------------------
(***************************************************************************)
(* upstream(): the response and its body race one timer.                   *)
(***************************************************************************)
ToStage(f, stage, outcome) ==
    /\ fetch' = [fetch EXCEPT ![f].stage = stage, ![f].outcome = outcome]
    /\ UNCHANGED <<packageCache, packageInFlight, call, now, epoch, recency>>

\* The headers arrive; a 404 has no body to read, anything else does.
ReceiveHeaders(f) == fetch[f].stage = "sent" /\ ToStage(f, "reading", "none")

ReceiveNotFound(f) == fetch[f].stage = "sent" /\ ToStage(f, "settled", "notFound")

ReadPackage(f) == fetch[f].stage = "reading" /\ ToStage(f, "settled", "package")

\* A network error, an error status, or a body that does not parse.
FailRequest(f) == fetch[f].stage \in {"sent", "reading"} /\ ToStage(f, "settled", "failed")

\* BUG: the timer is cleared as soon as the headers are in.
BugTimeOut(f) == fetch[f].stage = "sent" /\ ToStage(f, "settled", "failed")

TimeOut(f) == fetch[f].stage \in {"sent", "reading"} /\ ToStage(f, "settled", "failed")

-----------------------------------------------------------------------------
(***************************************************************************)
(* The callbacks of the registered promise.                                *)
(***************************************************************************)

\* .then: cache a package, if this is still the registered fetch.  A
\* rejection only passes through.
ThenCache(f) ==
    LET stores == fetch[f].outcome = "package" /\ Registered(f)
        entry  == [key |-> Key(f), fetch |-> f, fetchedAt |-> now]
    IN
    /\ fetch[f].stage = "settled"
    /\ fetch' = [fetch EXCEPT ![f].stage = "cached",
                              ![f].cachedAt = IF stores THEN now ELSE 0]
    /\ packageCache' = IF stores
                       THEN Store(packageCache, Key(f), entry, Cap(fetch[f].config))
                       ELSE packageCache
    /\ recency' = IF stores THEN Touched(Key(f)) ELSE recency
    /\ UNCHANGED <<packageInFlight, call, now, epoch>>

\* BUG: whatever is registered goes.
BugUnregister(f) == packageInFlight' = [packageInFlight EXCEPT ![Key(f)] = NoFetch]

\* BUG: only a fetch that did not fail is unregistered.
BugUnregisterOnSuccess(f) ==
    packageInFlight' =
        IF Registered(f) /\ fetch[f].outcome # "failed"
        THEN [packageInFlight EXCEPT ![Key(f)] = NoFetch] ELSE packageInFlight

\* .finally: unregister, if this is still the registered fetch.
Unregister(f) ==
    packageInFlight' =
        IF Registered(f) THEN [packageInFlight EXCEPT ![Key(f)] = NoFetch] ELSE packageInFlight

FinallyUnregister(f) ==
    /\ fetch[f].stage = "cached"
    /\ fetch' = [fetch EXCEPT ![f].stage = "done"]
    /\ Unregister(f)
    /\ UNCHANGED <<packageCache, call, now, epoch, recency>>

\* A caller's continuation, after the promise it awaits is done.
Resume(c) ==
    /\ call[c].pc = "waiting"
    /\ fetch[call[c].fetch].stage = "done"
    /\ call' = [call EXCEPT ![c].pc = "answered"]
    /\ UNCHANGED <<packageCache, packageInFlight, fetch, now, epoch, recency>>

-----------------------------------------------------------------------------
\* BUG: fetches in flight stay registered.
BugClear ==
    /\ epoch < MaxClears
    /\ packageCache' = <<>>
    /\ epoch' = epoch + 1
    /\ recency' = <<>>
    /\ UNCHANGED <<packageInFlight, fetch, call, now>>

\* clearCasePackageCache
Clear ==
    /\ epoch < MaxClears
    /\ packageCache' = <<>>
    /\ packageInFlight' = [key \in Keys |-> NoFetch]
    /\ epoch' = epoch + 1
    /\ recency' = <<>>
    /\ UNCHANGED <<fetch, call, now>>

Tick ==
    /\ now < MaxTime
    /\ now' = now + 1
    /\ UNCHANGED <<packageCache, packageInFlight, fetch, call, epoch, recency>>

Next ==
    \/ \E c \in Callers : GetCFPackage(c) \/ GetCFItemFromCachedPackage(c) \/ Resume(c)
    \/ \E f \in Fetches : \/ ReceiveHeaders(f) \/ ReceiveNotFound(f) \/ ReadPackage(f)
                          \/ FailRequest(f) \/ TimeOut(f)
                          \/ ThenCache(f) \/ FinallyUnregister(f)
    \/ Clear
    \/ Tick

Spec == Init /\ [][Next]_vars

(***************************************************************************)
(* A timer that was set fires, and a callback that is ready runs: the      *)
(* event loop's queues are first-in first-out.  Nothing obliges the CASE   *)
(* server to answer.                                                       *)
(***************************************************************************)
Fairness ==
    /\ \A f \in Fetches : /\ WF_vars(TimeOut(f))
                          /\ WF_vars(ThenCache(f))
                          /\ WF_vars(FinallyUnregister(f))
    /\ \A c \in Callers : WF_vars(Resume(c))

FairSpec == Spec /\ Fairness

-----------------------------------------------------------------------------
(***************************************************************************)
(* What the cache promises.                                                *)
(***************************************************************************)

Entries == [key : Keys, fetch : Fetches, fetchedAt : 0..MaxTime]

FetchRecords ==
    [stage : Stages, outcome : Outcomes, config : Configs, id : PackageIds,
     epoch : 0..MaxClears, cachedAt : 0..MaxTime]

CallRecords ==
    [pc : {"idle", "waiting", "answered"}, config : Configs, id : PackageIds,
     fetch : Fetches \cup {NoFetch}, hit : BOOLEAN, servedAt : 0..MaxTime,
     epoch : 0..MaxClears]

\* Every variable has its type, and the Map holds a key at most once.
TypeOK ==
    /\ packageCache \in Seq(Entries)
    /\ \A i, j \in DOMAIN packageCache : packageCache[i].key = packageCache[j].key => i = j
    /\ packageInFlight \in [Keys -> Fetches \cup {NoFetch}]
    /\ fetch \in [Fetches -> FetchRecords]
    /\ call \in [Callers -> CallRecords]
    /\ now \in 0..MaxTime
    /\ epoch \in 0..MaxClears

\* One request per package: however calls, clears and callbacks interleave, two
\* fetches of one package started since the same clear are never in progress
\* at once.
SingleFlight ==
    \A f, g \in Fetches :
        /\ InProgress(f) /\ InProgress(g)
        /\ Key(f) = Key(g) /\ fetch[f].epoch = fetch[g].epoch
        => f = g

\* A call made after clearCasePackageCache() is never answered, from the Map or
\* by sharing, with what a fetch started before that clear brought back.
ClearBarrier ==
    \A c \in Callers :
        call[c].pc \in {"waiting", "answered"} => fetch[call[c].fetch].epoch >= call[c].epoch

\* A caller is only ever given the package it asked for, read from its own
\* server with its own credential.
OwnCredentialOnly ==
    \A c \in Callers : call[c].pc \in {"waiting", "answered"} =>
        LET f == fetch[call[c].fetch] IN
        /\ f.id = call[c].id
        /\ BaseUrl[f.config] = BaseUrl[call[c].config]
        /\ ApiKey[f.config] = ApiKey[call[c].config]

\* A package served from the Map was stored less than the caller's
\* TTL ago, however often it was read and touched in between.
HitWithinTtl ==
    \A c \in Callers : call[c].hit =>
        /\ fetch[call[c].fetch].outcome = "package"
        /\ call[c].servedAt - fetch[call[c].fetch].cachedAt < TtlMs[call[c].config]

\* A registered fetch is one that is still in progress, for that very key: a
\* finished or failed fetch is never there for a later call to join.
NoDeadRegistration ==
    \A key \in Keys : packageInFlight[key] # NoFetch =>
        InProgress(packageInFlight[key]) /\ Key(packageInFlight[key]) = key

\* The Map holds exactly the most recently touched keys, in order of touch: no
\* sequence of hits, stores, expiries and evictions drops a package while it
\* keeps one that was used less recently.
LruInclusion == IsSuffix([i \in DOMAIN packageCache |-> packageCache[i].key], recency)

\* Storing a package leaves the Map within the cap of the config that stored it,
\* and never evicts the package just stored.
StoredWithinCap ==
    [][\A f \in Fetches :
          /\ fetch[f].stage = "settled" /\ fetch'[f].stage = "cached"
          /\ fetch[f].outcome = "package" /\ Registered(f)
          => /\ Len(packageCache') \in 1..Cap(fetch[f].config)
             /\ Last(packageCache').fetch = f]_vars

\* Every call is answered, with a package or an error, even by a server that
\* never answers or stalls in the middle of a body.
EveryCallAnswered ==
    \A c \in Callers : (call[c].pc = "waiting") ~> (call[c].pc = "answered")

-----------------------------------------------------------------------------
(***************************************************************************)
(* The cache as an implementation of ReadThrough.  A fetch is a read that  *)
(* runs until its .finally; it counts as kept from its .then on, evicted   *)
(* or not, until the next clear.                                           *)
(***************************************************************************)
Kept(f) ==
    IF /\ fetch[f].stage \in {"cached", "done"} /\ fetch[f].outcome = "package"
       /\ fetch[f].epoch = epoch
    THEN {fetch[f].cachedAt} ELSE {}

Demand(config, id) == [key |-> PackageCacheKey(config, id), ttl |-> TtlMs[config]]

Demands == {Demand(config, id) : config \in Configs, id \in PackageIds}

ReadOf(f) ==
    [key |-> Key(f), running |-> InProgress(f), got |-> fetch[f].outcome, kept |-> Kept(f),
     epoch |-> fetch[f].epoch]

CallerOf(c) ==
    [demand |-> Demand(call[c].config, call[c].id), bound |-> call[c].fetch,
     answered |-> call[c].pc = "answered"]

Promised == INSTANCE ReadThrough WITH
    Reads   <- Fetches,
    Nothing <- NoFetch,
    clock   <- now,
    read    <- [f \in Fetches |-> ReadOf(f)],
    caller  <- [c \in Callers |-> CallerOf(c)]

\* The Map, its evictions and touches, the registration of fetches and the
\* order in which callbacks run come to no more than a cache of reads promises.
ReadsThrough == Promised!Spec
=============================================================================
