--------------------------- MODULE FrameworkLookup ---------------------------
(***************************************************************************)
(* Resolving a framework title to its package, server/src/case/queries.ts: *)
(* a per-title cache of successful resolutions in front of one listing     *)
(* snapshot per server and credential, whose fetch is shared while it is   *)
(* in flight.                                                              *)
(*                                                                         *)
(* A lookup runs up to its one `await` in one callback and from there in   *)
(* another, whether it awaits a fetch or a snapshot that is already there. *)
(* The listing is what the server holds at some moment; module             *)
(* ListingPager has the pages it is put together from.                     *)
(***************************************************************************)
EXTENDS Naturals, FiniteSets

CONSTANTS
    Callers,        \* asynchronous lookups, one outstanding each
    Configs,        \* the CaseConfig objects in use
    BaseUrl,        \* BaseUrl[config]: its server
    ApiKey,         \* ApiKey[config]: the credential it reads with
    Titles,         \* framework titles callers ask for
    PackageIds,     \* identifiers of the frameworks a server may list
    Fetches,        \* promise objects, reused once nothing refers to them
    NoFetch,        \* no promise
    NoEntry,        \* no cache entry
    TitleTtl,       \* FRAMEWORK_PACKAGE_ID_TTL_MS
    ListingTtl,     \* FRAMEWORK_LISTING_TTL_MS
    MaxTime,        \* bound on the clock
    MaxClears       \* bound on the number of clears

ASSUME TtlAssumption == TitleTtl \in Nat \ {0} /\ ListingTtl \in Nat \ {0}

ASSUME LookupBoundAssumption == MaxTime \in Nat /\ MaxClears \in Nat

\* What the two caches hold, under their keys.
Resolutions == [packageId : PackageIds, fetch : Fetches, cachedAt : 0..MaxTime]
Snapshots == [fetch : Fetches, cachedAt : 0..MaxTime]

ASSUME LookupAssumption ==
    /\ Configs # {} /\ Titles # {} /\ IsFiniteSet(PackageIds)
    /\ NoFetch \notin Fetches
    /\ NoEntry \notin Resolutions \cup Snapshots

VARIABLES
    frameworkPackageIdCache,    \* <<scope, title>> |-> a resolution, or NoEntry
    frameworkListingCache,      \* scope |-> a snapshot, or NoEntry
    frameworkListingInFlight,   \* scope |-> the registered fetch, or NoFetch
    fetch,                      \* what became of every listing fetch
    call,                       \* what became of every caller's latest lookup
    now,                        \* Date.now()
    epoch                       \* history: how often the caches were cleared

vars == <<frameworkPackageIdCache, frameworkListingCache, frameworkListingInFlight,
          fetch, call, now, epoch>>

-----------------------------------------------------------------------------
\* BUG: credentials on one server share what they read.
BugCaseCacheScope(config) == <<BaseUrl[config]>>

CaseCacheScope(config) == <<BaseUrl[config], ApiKey[config]>>

Scopes == {CaseCacheScope(config) : config \in Configs}
TitleKeys == Scopes \X Titles

\* A listing groups the frameworks of a server by title.
Listings == [Titles -> SUBSET PackageIds]

\* BUG: an entry is good for one unit of time too long.
BugExpired(entry, ttl) == now - entry.cachedAt > ttl

Expired(entry, ttl) == now - entry.cachedAt >= ttl

Fresh(entry, ttl) == entry # NoEntry /\ ~Expired(entry, ttl)

\* BUG: nothing is swept.
BugPruneExpired(cache, ttl) == cache

PruneExpired(cache, ttl) ==
    [key \in DOMAIN cache |->
        IF cache[key] # NoEntry /\ Expired(cache[key], ttl) THEN NoEntry ELSE cache[key]]

Unused == [stage |-> "unused", config |-> CHOOSE c \in Configs : TRUE,
           byTitle |-> [t \in Titles |-> {}], ok |-> FALSE, epoch |-> 0, cachedAt |-> 0]

NoCall == [pc |-> "idle", config |-> CHOOSE c \in Configs : TRUE,
           title |-> CHOOSE t \in Titles : TRUE, fetch |-> NoFetch, answer |-> "none",
           packageId |-> {}, fromListing |-> FALSE, fresh |-> FALSE, askedAt |-> 0,
           epoch |-> 0]

InProgress(f) == fetch[f].stage \in {"listing", "settled", "cached"}

Scope(f) == CaseCacheScope(fetch[f].config)

Registered(f) == frameworkListingInFlight[Scope(f)] = f

\* A promise or a snapshot that nothing else refers to may be allocated by c.
Allocatable(f, c) ==
    /\ fetch[f].stage \in {"unused", "done"}
    /\ \A d \in Callers \ {c} : call[d].fetch # f
    /\ \A scope \in Scopes : /\ frameworkListingInFlight[scope] # f
                             /\ frameworkListingCache[scope] # NoEntry
                                    => frameworkListingCache[scope].fetch # f
    /\ \A key \in TitleKeys :
          frameworkPackageIdCache[key] # NoEntry => frameworkPackageIdCache[key].fetch # f

Init ==
    /\ frameworkPackageIdCache = [key \in TitleKeys |-> NoEntry]
    /\ frameworkListingCache = [scope \in Scopes |-> NoEntry]
    /\ frameworkListingInFlight = [scope \in Scopes |-> NoFetch]
    /\ fetch = [f \in Fetches |-> Unused]
    /\ call = [c \in Callers |-> NoCall]
    /\ now = 0
    /\ epoch = 0

-----------------------------------------------------------------------------
(***************************************************************************)
(* resolveFrameworkPackageId up to its await, with frameworksByTitle.      *)
(***************************************************************************)

\* The lookup now waits for listing f; fresh says whether f was a snapshot.
AwaitListing(c, config, title, f, fresh) ==
    call' = [call EXCEPT ![c] =
                [NoCall EXCEPT !.pc = "waiting", !.config = config, !.title = title,
                               !.fetch = f, !.fresh = fresh, !.epoch = epoch,
                               !.askedAt = IF fresh THEN now ELSE 0]]

AnswerFromTitleCache(c, config, title) ==
    LET entry == frameworkPackageIdCache[<<CaseCacheScope(config), title>>] IN
    /\ Fresh(entry, TitleTtl)
    /\ call' = [call EXCEPT ![c] =
                  [NoCall EXCEPT !.pc = "answered", !.config = config, !.title = title,
                                 !.fetch = entry.fetch, !.answer = "packageId",
                                 !.packageId = {entry.packageId}, !.epoch = epoch]]
    /\ UNCHANGED <<fetch, frameworkListingInFlight>>

UseSnapshot(c, config, title) ==
    LET entry == frameworkListingCache[CaseCacheScope(config)] IN
    /\ Fresh(entry, ListingTtl)
    /\ AwaitListing(c, config, title, entry.fetch, TRUE)
    /\ UNCHANGED <<fetch, frameworkListingInFlight>>

JoinListing(c, config, title) ==
    LET scope == CaseCacheScope(config) IN
    /\ ~Fresh(frameworkListingCache[scope], ListingTtl)
    /\ frameworkListingInFlight[scope] # NoFetch
    /\ AwaitListing(c, config, title, frameworkListingInFlight[scope], FALSE)
    /\ UNCHANGED <<fetch, frameworkListingInFlight>>

StartListing(c, config, title, f) ==
    LET scope == CaseCacheScope(config) IN
    /\ ~Fresh(frameworkListingCache[scope], ListingTtl)
    /\ frameworkListingInFlight[scope] = NoFetch
    /\ Allocatable(f, c)
    /\ fetch' = [fetch EXCEPT ![f] =
                    [Unused EXCEPT !.stage = "listing", !.config = config, !.epoch = epoch]]
    /\ frameworkListingInFlight' = [frameworkListingInFlight EXCEPT ![scope] = f]
    /\ AwaitListing(c, config, title, f, FALSE)

ResolveFrameworkPackageId(c) ==
    /\ call[c].pc # "waiting"
    /\ \E config \in Configs, title \in Titles :
          \/ AnswerFromTitleCache(c, config, title)
          \/ /\ ~Fresh(frameworkPackageIdCache[<<CaseCacheScope(config), title>>], TitleTtl)
             /\ \/ UseSnapshot(c, config, title)
                \/ JoinListing(c, config, title)
                \/ \E f \in Fetches : StartListing(c, config, title, f)
    /\ UNCHANGED <<frameworkPackageIdCache, frameworkListingCache, now, epoch>>

-----------------------------------------------------------------------------
(***************************************************************************)
(* The listing fetch: all its pages arrive, or one of them fails or times  *)
(* out; then its two callbacks run.                                        *)
(***************************************************************************)
Settle(f, ok, byTitle) ==
    /\ fetch[f].stage = "listing"
    /\ fetch' = [fetch EXCEPT ![f].stage = "settled", ![f].ok = ok, ![f].byTitle = byTitle]
    /\ UNCHANGED <<frameworkPackageIdCache, frameworkListingCache,
                   frameworkListingInFlight, call, now, epoch>>

ListingArrives(f) == \E byTitle \in Listings : Settle(f, TRUE, byTitle)

ListingFails(f) == Settle(f, FALSE, [t \in Titles |-> {}])

\* BUG: a fetch from before a clear is kept as well.
BugKeepsSnapshot(f) == fetch[f].ok

\* .then: keep the snapshot, if this is still the registered fetch.
KeepsSnapshot(f) == fetch[f].ok /\ Registered(f)

ThenKeepSnapshot(f) ==
    /\ fetch[f].stage = "settled"
    /\ fetch' = [fetch EXCEPT ![f].stage = "cached",
                              ![f].cachedAt = IF KeepsSnapshot(f) THEN now ELSE 0]
    /\ frameworkListingCache' =
          IF KeepsSnapshot(f)
          THEN [PruneExpired(frameworkListingCache, ListingTtl)
                   EXCEPT ![Scope(f)] = [fetch |-> f, cachedAt |-> now]]
          ELSE frameworkListingCache
    /\ UNCHANGED <<frameworkPackageIdCache, frameworkListingInFlight, call, now, epoch>>

\* BUG: whatever is registered goes.
BugUnregister(f) ==
    frameworkListingInFlight' = [frameworkListingInFlight EXCEPT ![Scope(f)] = NoFetch]

\* .finally: unregister, if this is still the registered fetch.
Unregister(f) ==
    frameworkListingInFlight' =
        IF Registered(f)
        THEN [frameworkListingInFlight EXCEPT ![Scope(f)] = NoFetch]
        ELSE frameworkListingInFlight

FinallyUnregister(f) ==
    /\ fetch[f].stage = "cached"
    /\ fetch' = [fetch EXCEPT ![f].stage = "done"]
    /\ Unregister(f)
    /\ UNCHANGED <<frameworkPackageIdCache, frameworkListingCache, call, now, epoch>>

-----------------------------------------------------------------------------
(***************************************************************************)
(* resolveFrameworkPackageId from its await on.  A resolution is cached    *)
(* whether or not the caches were cleared while the lookup waited.         *)
(***************************************************************************)
ListingIsThere(c) == call[c].fresh \/ fetch[call[c].fetch].stage = "done"

Matches(c) == fetch[call[c].fetch].byTitle[call[c].title]

Answer(c, answer, ids) ==
    call' = [call EXCEPT ![c].pc = "answered", ![c].answer = answer,
                         ![c].packageId = ids, ![c].fromListing = TRUE]

FailLookup(c) ==
    /\ ~fetch[call[c].fetch].ok
    /\ Answer(c, "failed", {})
    /\ UNCHANGED frameworkPackageIdCache

NotFound(c) ==
    /\ fetch[call[c].fetch].ok
    /\ Matches(c) = {}
    /\ Answer(c, "notFound", {})
    /\ UNCHANGED frameworkPackageIdCache

Ambiguous(c) ==
    /\ fetch[call[c].fetch].ok
    /\ Cardinality(Matches(c)) > 1
    /\ Answer(c, "ambiguous", {})
    /\ UNCHANGED frameworkPackageIdCache

\* BUG: the first of several matches is taken.
BugResolved(c) ==
    /\ fetch[call[c].fetch].ok
    /\ Matches(c) # {}
    /\ LET id == CHOOSE id \in Matches(c) : TRUE IN
       /\ Answer(c, "packageId", {id})
       /\ frameworkPackageIdCache' =
             [PruneExpired(frameworkPackageIdCache, TitleTtl)
                 EXCEPT ![<<CaseCacheScope(call[c].config), call[c].title>>] =
                     [packageId |-> id, fetch |-> call[c].fetch, cachedAt |-> now]]

Resolved(c) ==
    /\ fetch[call[c].fetch].ok
    /\ Cardinality(Matches(c)) = 1
    /\ Answer(c, "packageId", Matches(c))
    /\ frameworkPackageIdCache' =
          [PruneExpired(frameworkPackageIdCache, TitleTtl)
              EXCEPT ![<<CaseCacheScope(call[c].config), call[c].title>>] =
                  [packageId |-> CHOOSE id \in Matches(c) : TRUE,
                   fetch |-> call[c].fetch, cachedAt |-> now]]

Resume(c) ==
    /\ call[c].pc = "waiting"
    /\ ListingIsThere(c)
    /\ FailLookup(c) \/ NotFound(c) \/ Ambiguous(c) \/ Resolved(c)
    /\ UNCHANGED <<frameworkListingCache, frameworkListingInFlight, fetch, now, epoch>>

-----------------------------------------------------------------------------
ClearFrameworkPackageIdCache ==
    /\ epoch < MaxClears
    /\ frameworkPackageIdCache' = [key \in TitleKeys |-> NoEntry]
    /\ frameworkListingCache' = [scope \in Scopes |-> NoEntry]
    /\ frameworkListingInFlight' = [scope \in Scopes |-> NoFetch]
    /\ epoch' = epoch + 1
    /\ UNCHANGED <<fetch, call, now>>

Tick ==
    /\ now < MaxTime
    /\ now' = now + 1
    /\ UNCHANGED <<frameworkPackageIdCache, frameworkListingCache,
                   frameworkListingInFlight, fetch, call, epoch>>

Next ==
    \/ \E c \in Callers : ResolveFrameworkPackageId(c) \/ Resume(c)
    \/ \E f \in Fetches : \/ ListingArrives(f) \/ ListingFails(f)
                          \/ ThenKeepSnapshot(f) \/ FinallyUnregister(f)
    \/ ClearFrameworkPackageIdCache
    \/ Tick

Spec == Init /\ [][Next]_vars

-----------------------------------------------------------------------------
(***************************************************************************)
(* What a lookup promises.                                                 *)
(***************************************************************************)

FetchRecords ==
    [stage : {"unused", "listing", "settled", "cached", "done"}, config : Configs,
     byTitle : Listings, ok : BOOLEAN, epoch : 0..MaxClears, cachedAt : 0..MaxTime]

CallRecords ==
    [pc : {"idle", "waiting", "answered"}, config : Configs, title : Titles,
     fetch : Fetches \cup {NoFetch},
     answer : {"none", "packageId", "notFound", "ambiguous", "failed"},
     packageId : SUBSET PackageIds, fromListing : BOOLEAN, fresh : BOOLEAN,
     askedAt : 0..MaxTime, epoch : 0..MaxClears]

\* Every variable has its type.
TypeOK ==
    /\ frameworkPackageIdCache \in [TitleKeys -> Resolutions \cup {NoEntry}]
    /\ frameworkListingCache \in [Scopes -> Snapshots \cup {NoEntry}]
    /\ frameworkListingInFlight \in [Scopes -> Fetches \cup {NoFetch}]
    /\ fetch \in [Fetches -> FetchRecords]
    /\ call \in [Callers -> CallRecords]
    /\ now \in 0..MaxTime
    /\ epoch \in 0..MaxClears

\* "thousands of bogus titles in one query meant thousands of upstream requests":
\* one listing fetch per server and credential is in progress between two
\* clears, even when it takes longer than any TTL.
OneListingAtATime ==
    \A f, g \in Fetches :
        /\ InProgress(f) /\ InProgress(g)
        /\ Scope(f) = Scope(g) /\ fetch[f].epoch = fetch[g].epoch
        => f = g

\* A lookup that consults a listing consults one fetched since the last clear
\* before it, and a snapshot or a registration never survives a clear.
ListingClearBarrier ==
    /\ \A c \in Callers :
          call[c].pc = "waiting" \/ call[c].fromListing
              => fetch[call[c].fetch].epoch >= call[c].epoch
    /\ \A scope \in Scopes : frameworkListingCache[scope] # NoEntry =>
          fetch[frameworkListingCache[scope].fetch].epoch = epoch

\* A title is resolved only against a listing read from the caller's own server
\* with the caller's own credential.
OwnListingOnly ==
    \A c \in Callers : call[c].pc # "idle" =>
        LET config == fetch[call[c].fetch].config IN
        /\ BaseUrl[config] = BaseUrl[call[c].config]
        /\ ApiKey[config] = ApiKey[call[c].config]

\* A lookup answered from the snapshot, "not found" above all, was asked within
\* the snapshot's TTL of its arrival.
SnapshotWithinTtl ==
    \A c \in Callers : call[c].fresh =>
        /\ fetch[call[c].fetch].ok
        /\ call[c].askedAt - fetch[call[c].fetch].cachedAt < ListingTtl

\* Titles are not unique: a lookup answers with an id only if that id is the one
\* framework of that title in the listing behind the answer, from either cache,
\* and with "not found" only if the listing has none.
AnswerIsUnambiguous ==
    \A c \in Callers :
        LET matches == fetch[call[c].fetch].byTitle[call[c].title] IN
        /\ call[c].answer = "packageId" => call[c].packageId = matches
        /\ call[c].answer = "notFound" => fetch[call[c].fetch].ok /\ matches = {}

\* Inserting a resolution leaves no expired one behind, so the cache is bounded
\* by the keys in recent use.
SweptOnInsert ==
    [][\A key \in TitleKeys :
          /\ frameworkPackageIdCache'[key] \notin {NoEntry, frameworkPackageIdCache[key]}
          => \A other \in TitleKeys :
                frameworkPackageIdCache'[other] # NoEntry =>
                    now - frameworkPackageIdCache'[other].cachedAt < TitleTtl]_vars

\* case/README.md: clearFrameworkPackageIdCache() "drops every cached
\* title->packageId resolution": a lookup made after it is not answered from a
\* listing of before it, from the title cache either.
TitleClearBarrier ==
    \A c \in Callers :
        call[c].answer = "packageId" => fetch[call[c].fetch].epoch >= call[c].epoch

-----------------------------------------------------------------------------
(***************************************************************************)
(* The directory this implements: what every fetch, lookup and resolution  *)
(* is there.  A listing is kept from its .then until the next clear,       *)
(* whatever the Map does with the snapshot.                                *)
(***************************************************************************)
Got(f) ==
    IF fetch[f].stage \in {"unused", "listing"} THEN "none"
    ELSE IF fetch[f].ok THEN "listed" ELSE "failed"

Kept(f) ==
    IF fetch[f].stage \in {"cached", "done"} /\ fetch[f].ok /\ fetch[f].epoch = epoch
    THEN {fetch[f].cachedAt} ELSE {}

ListingOf(f) ==
    [scope |-> Scope(f), running |-> InProgress(f), got |-> Got(f),
     byTitle |-> fetch[f].byTitle, kept |-> Kept(f), epoch |-> fetch[f].epoch]

\* A lookup that the title cache answered is bound to no listing.
LookupOf(c) ==
    [scope |-> CaseCacheScope(call[c].config), title |-> call[c].title,
     bound |-> IF call[c].pc = "waiting" \/ call[c].fromListing THEN call[c].fetch ELSE NoFetch,
     answer |-> call[c].answer, packageId |-> call[c].packageId]

Fact(scope, title, entry) ==
    [scope |-> scope, title |-> title, packageId |-> entry.packageId, at |-> entry.cachedAt]

Known ==
    {Fact(key[1], key[2], frameworkPackageIdCache[key]) :
        key \in {k \in TitleKeys : frameworkPackageIdCache[k] # NoEntry}}

Promised == INSTANCE FrameworkDirectory WITH
    Listings <- Fetches,
    Nothing  <- NoFetch,
    clock    <- now,
    known    <- Known,
    listing  <- [f \in Fetches |-> ListingOf(f)],
    caller   <- [c \in Callers |-> LookupOf(c)]

\* The three Maps, the registration of listings, the sweeping of entries and the
\* order in which callbacks run come to no more than a directory promises.
AnswersAsPromised == Promised!Spec
=============================================================================
