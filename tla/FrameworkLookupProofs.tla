------------------------- MODULE FrameworkLookupProofs -------------------------
(***************************************************************************)
(* Proofs about FrameworkLookup for every set of callers, configs, titles  *)
(* and promise objects, every TTL, and every bound.                        *)
(***************************************************************************)
EXTENDS FrameworkLookup, TLAPS, FiniteSetTheorems

-----------------------------------------------------------------------------
(***************************************************************************)
(* The inductive invariant.  A registered listing is one in progress, of   *)
(* this epoch; whatever a cache or a lookup relies on is a listing for its *)
(* own scope whose callbacks have run, so that it cannot change any more.  *)
(***************************************************************************)
Frozen(f) == fetch[f].stage \in {"cached", "done"}

RegisteredIsCurrent ==
    \A scope \in Scopes : frameworkListingInFlight[scope] # NoFetch =>
        /\ InProgress(frameworkListingInFlight[scope])
        /\ Scope(frameworkListingInFlight[scope]) = scope
        /\ fetch[frameworkListingInFlight[scope]].epoch = epoch

CurrentIsRegistered ==
    \A f \in Fetches : InProgress(f) /\ fetch[f].epoch = epoch => Registered(f)

NoFutureFetch == \A f \in Fetches : fetch[f].epoch <= epoch

GoodSnapshot(scope, e) ==
    /\ Frozen(e.fetch) /\ fetch[e.fetch].ok
    /\ Scope(e.fetch) = scope
    /\ fetch[e.fetch].epoch = epoch
    /\ fetch[e.fetch].cachedAt = e.cachedAt

SnapshotsAreGood ==
    \A scope \in Scopes : frameworkListingCache[scope] # NoEntry =>
        GoodSnapshot(scope, frameworkListingCache[scope])

GoodResolution(scope, title, e) ==
    /\ Frozen(e.fetch) /\ fetch[e.fetch].ok
    /\ Scope(e.fetch) = scope
    /\ fetch[e.fetch].byTitle[title] = {e.packageId}

ResolutionsAreGood ==
    \A scope \in Scopes, title \in Titles :
        frameworkPackageIdCache[<<scope, title>>] # NoEntry =>
            GoodResolution(scope, title, frameworkPackageIdCache[<<scope, title>>])

GoodCall(c) ==
    /\ call[c].pc # "answered" => call[c].answer = "none"
    /\ call[c].pc = "idle" => ~call[c].fresh /\ ~call[c].fromListing
    /\ call[c].pc # "idle" =>
          /\ call[c].fetch \in Fetches
          /\ fetch[call[c].fetch].stage # "unused"
          /\ Scope(call[c].fetch) = CaseCacheScope(call[c].config)
    /\ call[c].pc = "waiting" \/ call[c].fromListing =>
          fetch[call[c].fetch].epoch = call[c].epoch
    /\ call[c].fresh =>
          /\ Frozen(call[c].fetch) /\ fetch[call[c].fetch].ok
          /\ call[c].askedAt - fetch[call[c].fetch].cachedAt < ListingTtl
    /\ call[c].pc = "answered" => Frozen(call[c].fetch)
    /\ call[c].answer = "packageId" =>
          call[c].packageId = fetch[call[c].fetch].byTitle[call[c].title]
    /\ call[c].answer = "notFound" =>
          fetch[call[c].fetch].ok /\ fetch[call[c].fetch].byTitle[call[c].title] = {}

CallsAreGood == \A c \in Callers : GoodCall(c)

Inv ==
    /\ TypeOK
    /\ RegisteredIsCurrent
    /\ CurrentIsRegistered
    /\ NoFutureFetch
    /\ SnapshotsAreGood
    /\ ResolutionsAreGood
    /\ CallsAreGood
    /\ OneListingAtATime

LEMMA ScopeLemma ==
    ASSUME NEW config \in Configs
    PROVE  /\ CaseCacheScope(config) \in Scopes
           /\ \A other \in Configs : CaseCacheScope(config) = CaseCacheScope(other) =>
                 BaseUrl[config] = BaseUrl[other] /\ ApiKey[config] = ApiKey[other]
BY DEF Scopes, CaseCacheScope

\* The parts of the type invariant the steps rely on.
LEMMA Typed ==
    ASSUME TypeOK
    PROVE  /\ now \in 0..MaxTime /\ now \in Nat /\ epoch \in 0..MaxClears /\ epoch \in Nat
           /\ \A f \in Fetches :
                 /\ fetch[f].config \in Configs /\ Scope(f) \in Scopes
                 /\ fetch[f].epoch \in Nat /\ fetch[f].cachedAt \in Nat
           /\ \A c \in Callers : call[c].config \in Configs /\ call[c].title \in Titles
           /\ \A scope \in Scopes : frameworkListingCache[scope] # NoEntry =>
                 frameworkListingCache[scope] \in Snapshots
           /\ \A scope \in Scopes, title \in Titles :
                 frameworkPackageIdCache[<<scope, title>>] # NoEntry =>
                     frameworkPackageIdCache[<<scope, title>>] \in Resolutions
<1>1. now \in Nat /\ epoch \in Nat
  BY LookupBoundAssumption DEF TypeOK
<1>2. ASSUME NEW f \in Fetches
      PROVE  /\ fetch[f].config \in Configs /\ Scope(f) \in Scopes
             /\ fetch[f].epoch \in Nat /\ fetch[f].cachedAt \in Nat
  BY LookupBoundAssumption, ScopeLemma DEF TypeOK, FetchRecords, Scope
<1>3. \A c \in Callers : call[c].config \in Configs /\ call[c].title \in Titles
  BY DEF TypeOK, CallRecords
<1>4. \A scope \in Scopes : frameworkListingCache[scope] # NoEntry =>
          frameworkListingCache[scope] \in Snapshots
  BY DEF TypeOK
<1>5. \A scope \in Scopes, title \in Titles :
          frameworkPackageIdCache[<<scope, title>>] # NoEntry =>
              frameworkPackageIdCache[<<scope, title>>] \in Resolutions
  BY DEF TypeOK, TitleKeys
<1> QED
  BY <1>1, <1>2, <1>3, <1>4, <1>5 DEF TypeOK

LEMMA InitialRecords == Unused \in FetchRecords /\ NoCall \in CallRecords
<1>1. /\ (CHOOSE c \in Configs : TRUE) \in Configs
      /\ (CHOOSE t \in Titles : TRUE) \in Titles
      /\ [t \in Titles |-> {}] \in Listings
  BY LookupAssumption DEF Listings
<1> QED
  BY <1>1, LookupBoundAssumption DEF Unused, NoCall, FetchRecords, CallRecords

LEMMA InitInv == Init => Inv
<1> SUFFICES ASSUME Init PROVE Inv
  OBVIOUS
<1>1. TypeOK
  BY InitialRecords, LookupBoundAssumption DEF Init, TypeOK
<1>2. \A f \in Fetches : fetch[f].stage = "unused" /\ fetch[f].epoch = 0 /\ epoch = 0
  BY DEF Init, Unused
<1>3. ASSUME NEW c \in Callers PROVE GoodCall(c)
  <2>1. /\ call[c].pc = "idle" /\ call[c].answer = "none"
        /\ call[c].fresh = FALSE /\ call[c].fromListing = FALSE
    BY DEF Init, NoCall
  <2> QED
    BY <2>1 DEF GoodCall
<1>4. RegisteredIsCurrent /\ SnapshotsAreGood /\ ResolutionsAreGood
  BY DEF Init, RegisteredIsCurrent, SnapshotsAreGood, ResolutionsAreGood, TitleKeys
<1>5. CurrentIsRegistered /\ NoFutureFetch /\ OneListingAtATime
  BY <1>2 DEF CurrentIsRegistered, NoFutureFetch, OneListingAtATime, InProgress
<1> QED
  BY <1>1, <1>3, <1>4, <1>5 DEF Inv, CallsAreGood

-----------------------------------------------------------------------------
(***************************************************************************)
(* What a step that moves fetches on leaves intact.                        *)
(***************************************************************************)

\* No fetch changes what it is a fetch of, and one whose .then has run keeps
\* what it brought back.
Persists ==
    \A g \in Fetches :
        /\ fetch'[g].config = fetch[g].config
        /\ fetch'[g].epoch = fetch[g].epoch
        /\ fetch[g].stage # "unused" => fetch'[g].stage # "unused"
        /\ Frozen(g) => /\ fetch'[g].stage \in {"cached", "done"}
                        /\ fetch'[g].ok = fetch[g].ok
                        /\ fetch'[g].byTitle = fetch[g].byTitle
                        /\ fetch'[g].cachedAt = fetch[g].cachedAt

LEMMA CallsPersist ==
    ASSUME Inv, Persists, UNCHANGED call
    PROVE  CallsAreGood'
<1> SUFFICES ASSUME NEW c \in Callers PROVE GoodCall(c)'
  BY DEF CallsAreGood
<1>1. GoodCall(c)
  BY DEF Inv, CallsAreGood
<1>2. CASE call[c].pc = "idle"
  BY <1>1, <1>2 DEF GoodCall
<1>3. CASE call[c].pc # "idle"
  <2> DEFINE f == call[c].fetch
  <2>1. f \in Fetches /\ f = call'[c].fetch
    BY <1>1, <1>3 DEF GoodCall
  <2>2. call[c].pc \in {"waiting", "answered"}
    BY <1>3 DEF Inv, TypeOK, CallRecords
  <2>3. /\ fetch'[f].config = fetch[f].config
        /\ fetch'[f].epoch = fetch[f].epoch
        /\ fetch[f].stage # "unused" => fetch'[f].stage # "unused"
        /\ Frozen(f) => /\ fetch'[f].stage \in {"cached", "done"}
                        /\ fetch'[f].ok = fetch[f].ok
                        /\ fetch'[f].byTitle = fetch[f].byTitle
                        /\ fetch'[f].cachedAt = fetch[f].cachedAt
    BY <2>1 DEF Persists
  <2> QED
    BY <1>1, <1>3, <2>1, <2>2, <2>3 DEF GoodCall, Frozen, Scope, CaseCacheScope
<1> QED
  BY <1>2, <1>3

LEMMA CachesPersist ==
    ASSUME Inv, Persists
    PROVE  /\ UNCHANGED frameworkPackageIdCache => ResolutionsAreGood'
           /\ UNCHANGED <<frameworkListingCache, epoch>> => SnapshotsAreGood'
<1>1. ASSUME UNCHANGED frameworkPackageIdCache,
             NEW scope \in Scopes, NEW title \in Titles,
             frameworkPackageIdCache[<<scope, title>>] # NoEntry
      PROVE  GoodResolution(scope, title, frameworkPackageIdCache[<<scope, title>>])'
  <2> DEFINE e == frameworkPackageIdCache[<<scope, title>>]
  <2>1. e \in Resolutions
    BY <1>1, Typed DEF Inv
  <2>2. GoodResolution(scope, title, e)
    BY <1>1 DEF Inv, ResolutionsAreGood
  <2>3. e' = e
    BY <1>1
  <2> QED
    BY <2>1, <2>2, <2>3 DEF Resolutions, Persists, GoodResolution, Frozen, Scope,
       CaseCacheScope
<1>2. ASSUME UNCHANGED <<frameworkListingCache, epoch>>, NEW scope \in Scopes,
             frameworkListingCache[scope] # NoEntry
      PROVE  GoodSnapshot(scope, frameworkListingCache[scope])'
  <2> DEFINE e == frameworkListingCache[scope]
  <2>1. e \in Snapshots
    BY <1>2, Typed DEF Inv
  <2>2. GoodSnapshot(scope, e)
    BY <1>2 DEF Inv, SnapshotsAreGood
  <2>3. e' = e
    BY <1>2
  <2> QED
    BY <1>2, <2>1, <2>2, <2>3 DEF Snapshots, Persists, GoodSnapshot, Frozen, Scope,
       CaseCacheScope
<1>3. UNCHANGED frameworkPackageIdCache => ResolutionsAreGood'
  BY <1>1 DEF ResolutionsAreGood
<1>4. UNCHANGED <<frameworkListingCache, epoch>> => SnapshotsAreGood'
  BY <1>2 DEF SnapshotsAreGood
<1> QED
  BY <1>3, <1>4

\* A step of caller c that leaves the fetches alone keeps the other calls good.
LEMMA OtherCalls ==
    ASSUME Inv, NEW c \in Callers, UNCHANGED fetch,
           \A d \in Callers : d # c => call'[d] = call[d],
           GoodCall(c)'
    PROVE  CallsAreGood'
<1> SUFFICES ASSUME NEW d \in Callers, d # c PROVE GoodCall(d)'
  BY DEF CallsAreGood
<1>1. GoodCall(d)
  BY DEF Inv, CallsAreGood
<1> QED
  BY <1>1 DEF GoodCall, Frozen, Scope, CaseCacheScope

\* Such a step also keeps everything that is not about calls.
LEMMA FetchesKept ==
    ASSUME Inv,
           UNCHANGED <<frameworkListingCache, frameworkListingInFlight, fetch, epoch>>
    PROVE  /\ RegisteredIsCurrent' /\ CurrentIsRegistered' /\ NoFutureFetch'
           /\ SnapshotsAreGood' /\ OneListingAtATime'
           /\ UNCHANGED frameworkPackageIdCache => ResolutionsAreGood'
<1>1. RegisteredIsCurrent' /\ CurrentIsRegistered' /\ NoFutureFetch' /\ OneListingAtATime'
  BY DEF Inv, RegisteredIsCurrent, CurrentIsRegistered, NoFutureFetch, OneListingAtATime,
     InProgress, Registered, Scope, CaseCacheScope
<1>2. SnapshotsAreGood'
  BY DEF Inv, SnapshotsAreGood, GoodSnapshot, Frozen, Scope, CaseCacheScope
<1>3. ASSUME UNCHANGED frameworkPackageIdCache PROVE ResolutionsAreGood'
  <2>1. Persists
    BY DEF Persists, Frozen
  <2> QED
    BY <1>3, <2>1, CachesPersist
<1> QED
  BY <1>1, <1>2, <1>3

\* The record a waiting lookup starts with.
LEMMA AwaitLemma ==
    ASSUME Inv, NEW c \in Callers, NEW config \in Configs, NEW title \in Titles,
           NEW f \in Fetches, NEW fresh \in BOOLEAN, AwaitListing(c, config, title, f, fresh)
    PROVE  /\ call' \in [Callers -> CallRecords]
           /\ \A d \in Callers : d # c => call'[d] = call[d]
           /\ call'[c].pc = "waiting" /\ call'[c].config = config /\ call'[c].title = title
           /\ call'[c].fetch = f /\ call'[c].answer = "none" /\ call'[c].fromListing = FALSE
           /\ call'[c].fresh = fresh /\ call'[c].epoch = epoch
           /\ call'[c].fresh => call'[c].askedAt = now
<1> DEFINE new == [NoCall EXCEPT !.pc = "waiting", !.config = config, !.title = title,
                                 !.fetch = f, !.fresh = fresh, !.epoch = epoch,
                                 !.askedAt = IF fresh THEN now ELSE 0]
<1>1. call' = [call EXCEPT ![c] = new] /\ call \in [Callers -> CallRecords]
  BY DEF AwaitListing, Inv, TypeOK
<1>2. now \in 0..MaxTime /\ epoch \in 0..MaxClears /\ 0 \in 0..MaxTime
  BY LookupBoundAssumption DEF Inv, TypeOK
<1>3. new \in CallRecords
  BY <1>2, InitialRecords DEF CallRecords
<1>4. /\ new.pc = "waiting" /\ new.config = config /\ new.title = title
      /\ new.fetch = f /\ new.fresh = fresh /\ new.epoch = epoch
      /\ fresh => new.askedAt = now
  BY InitialRecords DEF CallRecords
<1>5. new.answer = "none" /\ new.fromListing = FALSE
  BY DEF NoCall
<1> HIDE DEF new
<1>6. call'[c] = new /\ \A d \in Callers : d # c => call'[d] = call[d]
  BY <1>1
<1> QED
  BY <1>1, <1>3, <1>4, <1>5, <1>6

LEMMA TitleCacheStep ==
    ASSUME Inv, NEW c \in Callers, NEW config \in Configs, NEW title \in Titles,
           AnswerFromTitleCache(c, config, title),
           UNCHANGED <<frameworkPackageIdCache, frameworkListingCache, now, epoch>>
    PROVE  Inv'
<1> DEFINE e == frameworkPackageIdCache[<<CaseCacheScope(config), title>>]
           new == [NoCall EXCEPT !.pc = "answered", !.config = config, !.title = title,
                                 !.fetch = e.fetch, !.answer = "packageId",
                                 !.packageId = {e.packageId}, !.epoch = epoch]
<1>1. /\ e # NoEntry /\ call' = [call EXCEPT ![c] = new]
      /\ UNCHANGED <<fetch, frameworkListingInFlight>>
  BY DEF AnswerFromTitleCache, Fresh
<1>2. CaseCacheScope(config) \in Scopes
  BY ScopeLemma
<1>3. e \in Resolutions /\ GoodResolution(CaseCacheScope(config), title, e)
  BY <1>1, <1>2, Typed DEF Inv, ResolutionsAreGood
<1> HIDE DEF e
<1>4. e.fetch \in Fetches /\ e.packageId \in PackageIds /\ epoch \in 0..MaxClears
  BY <1>3 DEF Resolutions, Inv, TypeOK
<1>5. new \in CallRecords
  BY <1>4, InitialRecords DEF CallRecords
<1>6. /\ new.pc = "answered" /\ new.config = config /\ new.title = title
      /\ new.fetch = e.fetch /\ new.answer = "packageId" /\ new.packageId = {e.packageId}
      /\ new.fresh = FALSE /\ new.fromListing = FALSE
  BY DEF NoCall
<1> HIDE DEF new
<1>7. call'[c] = new /\ \A d \in Callers : d # c => call'[d] = call[d]
  BY <1>1 DEF Inv, TypeOK
<1>8. GoodCall(c)'
  BY <1>1, <1>3, <1>4, <1>6, <1>7 DEF GoodCall, GoodResolution, Frozen, Scope, CaseCacheScope
<1>9. TypeOK'
  BY <1>1, <1>5 DEF Inv, TypeOK
<1> QED
  BY <1>1, <1>7, <1>8, <1>9, OtherCalls, FetchesKept DEF Inv

LEMMA SnapshotStep ==
    ASSUME Inv, NEW c \in Callers, NEW config \in Configs, NEW title \in Titles,
           UseSnapshot(c, config, title),
           UNCHANGED <<frameworkPackageIdCache, frameworkListingCache, now, epoch>>
    PROVE  Inv'
<1> DEFINE e == frameworkListingCache[CaseCacheScope(config)]
<1>1. /\ e # NoEntry /\ ~Expired(e, ListingTtl)
      /\ AwaitListing(c, config, title, e.fetch, TRUE)
      /\ UNCHANGED <<fetch, frameworkListingInFlight>>
  BY DEF UseSnapshot, Fresh
<1>2. CaseCacheScope(config) \in Scopes
  BY ScopeLemma
<1>3. e \in Snapshots /\ GoodSnapshot(CaseCacheScope(config), e)
  BY <1>1, <1>2, Typed DEF Inv, SnapshotsAreGood
<1> HIDE DEF e
<1>4. e.fetch \in Fetches /\ now - e.cachedAt < ListingTtl
  BY <1>1, <1>3, TtlAssumption, LookupBoundAssumption DEF Snapshots, Expired, Inv, TypeOK
<1>5. /\ call' \in [Callers -> CallRecords]
      /\ \A d \in Callers : d # c => call'[d] = call[d]
      /\ call'[c].pc = "waiting" /\ call'[c].config = config
      /\ call'[c].fetch = e.fetch /\ call'[c].answer = "none"
      /\ call'[c].fromListing = FALSE
      /\ call'[c].epoch = epoch /\ (call'[c].fresh => call'[c].askedAt = now)
  BY <1>1, <1>4, AwaitLemma
<1>6. GoodCall(c)'
  BY <1>1, <1>3, <1>4, <1>5 DEF GoodCall, GoodSnapshot, Frozen, Scope, CaseCacheScope
<1>7. TypeOK'
  BY <1>1, <1>5 DEF Inv, TypeOK
<1> QED
  BY <1>1, <1>5, <1>6, <1>7, OtherCalls, FetchesKept DEF Inv

LEMMA JoinStep ==
    ASSUME Inv, NEW c \in Callers, NEW config \in Configs, NEW title \in Titles,
           JoinListing(c, config, title),
           UNCHANGED <<frameworkPackageIdCache, frameworkListingCache, now, epoch>>
    PROVE  Inv'
<1> DEFINE f == frameworkListingInFlight[CaseCacheScope(config)]
<1>1. /\ f # NoFetch /\ AwaitListing(c, config, title, f, FALSE)
      /\ UNCHANGED <<fetch, frameworkListingInFlight>>
  BY DEF JoinListing
<1>2. /\ f \in Fetches /\ InProgress(f) /\ Scope(f) = CaseCacheScope(config)
      /\ fetch[f].epoch = epoch
  BY <1>1, ScopeLemma DEF Inv, TypeOK, RegisteredIsCurrent
<1> HIDE DEF f
<1>3. /\ call' \in [Callers -> CallRecords]
      /\ \A d \in Callers : d # c => call'[d] = call[d]
      /\ call'[c].pc = "waiting" /\ call'[c].config = config
      /\ call'[c].fetch = f /\ call'[c].answer = "none"
      /\ call'[c].fromListing = FALSE /\ call'[c].fresh = FALSE
      /\ call'[c].epoch = epoch
  BY <1>1, <1>2, AwaitLemma
<1>4. GoodCall(c)'
  BY <1>1, <1>2, <1>3 DEF GoodCall, InProgress, Frozen, Scope, CaseCacheScope
<1>5. TypeOK'
  BY <1>1, <1>3 DEF Inv, TypeOK
<1> QED
  BY <1>1, <1>3, <1>4, <1>5, OtherCalls, FetchesKept DEF Inv

\* Allocating a promise object reuses one that no call, cache or registration
\* refers to.
LEMMA StartStep ==
    ASSUME Inv, NEW c \in Callers, NEW config \in Configs, NEW title \in Titles,
           NEW f \in Fetches, StartListing(c, config, title, f),
           UNCHANGED <<frameworkPackageIdCache, frameworkListingCache, now, epoch>>
    PROVE  Inv'
<1> DEFINE scope == CaseCacheScope(config)
           new == [Unused EXCEPT !.stage = "listing", !.config = config, !.epoch = epoch]
<1>1. /\ frameworkListingInFlight[scope] = NoFetch /\ Allocatable(f, c)
      /\ fetch' = [fetch EXCEPT ![f] = new]
      /\ frameworkListingInFlight' = [frameworkListingInFlight EXCEPT ![scope] = f]
      /\ AwaitListing(c, config, title, f, FALSE)
  BY DEF StartListing
<1>2. scope \in Scopes
  BY ScopeLemma
<1>3. /\ new \in FetchRecords
      /\ new.stage = "listing" /\ new.config = config /\ new.epoch = epoch
  BY InitialRecords DEF FetchRecords, Inv, TypeOK
<1> HIDE DEF new
<1>4. /\ fetch'[f] = new /\ \A g \in Fetches : g # f => fetch'[g] = fetch[g]
      /\ \A s \in Scopes : frameworkListingInFlight'[s] =
            IF s = scope THEN f ELSE frameworkListingInFlight[s]
  BY <1>1, <1>2 DEF Inv, TypeOK
<1>5. /\ call' \in [Callers -> CallRecords]
      /\ \A d \in Callers : d # c => call'[d] = call[d]
      /\ call'[c].pc = "waiting" /\ call'[c].config = config
      /\ call'[c].fetch = f /\ call'[c].answer = "none"
      /\ call'[c].fromListing = FALSE /\ call'[c].fresh = FALSE
      /\ call'[c].epoch = epoch
  BY <1>1, AwaitLemma
<1>6. /\ fetch[f].stage \in {"unused", "done"} /\ ~InProgress(f)
      /\ \A d \in Callers : d # c => call[d].fetch # f
      /\ \A s \in Scopes : frameworkListingInFlight[s] # f
      /\ \A s \in Scopes : frameworkListingCache[s] # NoEntry =>
            frameworkListingCache[s].fetch # f
      /\ \A s \in Scopes, t \in Titles : frameworkPackageIdCache[<<s, t>>] # NoEntry =>
            frameworkPackageIdCache[<<s, t>>].fetch # f
  BY <1>1 DEF Allocatable, InProgress, TitleKeys
<1>7. /\ Scope(f)' = scope
      /\ \A g \in Fetches : g # f => Scope(g)' = Scope(g)
      /\ \A g \in Fetches : Scope(g) \in Scopes
  BY <1>3, <1>4, Typed DEF Scope, CaseCacheScope, Inv
<1> HIDE DEF scope
<1>8. TypeOK'
  BY <1>1, <1>3, <1>5 DEF Inv, TypeOK
<1>9. RegisteredIsCurrent'
  <2> SUFFICES ASSUME NEW s \in Scopes, frameworkListingInFlight'[s] # NoFetch
               PROVE  /\ InProgress(frameworkListingInFlight[s])'
                      /\ Scope(frameworkListingInFlight[s])' = s
                      /\ (fetch[frameworkListingInFlight[s]].epoch = epoch)'
    BY DEF RegisteredIsCurrent
  <2>1. CASE s = scope
    BY <2>1, <1>3, <1>4, <1>7 DEF InProgress, Scope
  <2>2. CASE s # scope
    <3> DEFINE g == frameworkListingInFlight[s]
    <3>1. frameworkListingInFlight'[s] = g /\ g \in Fetches /\ g # f
      BY <2>2, <1>4, <1>6 DEF Inv, TypeOK
    <3>2. InProgress(g) /\ Scope(g) = s /\ fetch[g].epoch = epoch
      BY <3>1, LookupAssumption DEF Inv, RegisteredIsCurrent
    <3>3. fetch'[g] = fetch[g] /\ Scope(g)' = Scope(g)
      BY <3>1, <1>4 DEF Scope, CaseCacheScope
    <3> QED
      BY <3>1, <3>2, <3>3 DEF InProgress, Scope
  <2> QED
    BY <2>1, <2>2
<1>10. CurrentIsRegistered'
  BY <1>1, <1>2, <1>4, <1>7, LookupAssumption DEF Inv, CurrentIsRegistered, Registered,
     InProgress
<1>11. NoFutureFetch'
  <2>1. epoch' = epoch /\ epoch <= epoch
    BY Typed DEF Inv
  <2> QED
    BY <2>1, <1>3, <1>4 DEF Inv, NoFutureFetch
<1>12. SnapshotsAreGood'
  <2> SUFFICES ASSUME NEW s \in Scopes, frameworkListingCache[s] # NoEntry
               PROVE  GoodSnapshot(s, frameworkListingCache[s])'
    BY DEF SnapshotsAreGood
  <2>1. frameworkListingCache[s].fetch \in Fetches /\ frameworkListingCache[s].fetch # f
    BY <1>6, Typed DEF Snapshots, Inv
  <2>2. GoodSnapshot(s, frameworkListingCache[s])
    BY DEF Inv, SnapshotsAreGood
  <2> QED
    BY <2>1, <2>2, <1>4 DEF GoodSnapshot, Frozen, Scope, CaseCacheScope
<1>13. ResolutionsAreGood'
  <2> SUFFICES ASSUME NEW s \in Scopes, NEW t \in Titles,
                      frameworkPackageIdCache[<<s, t>>] # NoEntry
               PROVE  GoodResolution(s, t, frameworkPackageIdCache[<<s, t>>])'
    BY DEF ResolutionsAreGood
  <2> DEFINE e == frameworkPackageIdCache[<<s, t>>]
  <2>1. e.fetch \in Fetches /\ e.fetch # f /\ e' = e
    BY <1>6, Typed DEF Resolutions, Inv
  <2>2. GoodResolution(s, t, e)
    BY DEF Inv, ResolutionsAreGood
  <2> QED
    BY <2>1, <2>2, <1>4 DEF GoodResolution, Frozen, Scope, CaseCacheScope
<1>14. CallsAreGood'
  <2> SUFFICES ASSUME NEW d \in Callers PROVE GoodCall(d)'
    BY DEF CallsAreGood
  <2>1. CASE d = c
    BY <2>1, <1>3, <1>4, <1>5 DEF GoodCall, Scope, CaseCacheScope
  <2>2. CASE d # c
    <3>1. GoodCall(d) /\ call'[d] = call[d] /\ call[d].fetch # f
      BY <2>2, <1>5, <1>6 DEF Inv, CallsAreGood
    <3>2. CASE call[d].pc = "idle"
      BY <3>1, <3>2 DEF GoodCall
    <3>3. CASE call[d].pc # "idle"
      <4>1. fetch'[call[d].fetch] = fetch[call[d].fetch]
        BY <3>1, <3>3, <1>4 DEF GoodCall
      <4> QED
        BY <3>1, <3>3, <4>1 DEF GoodCall, Frozen, Scope, CaseCacheScope
    <3> QED
      BY <3>2, <3>3
  <2> QED
    BY <2>1, <2>2
<1>15. OneListingAtATime'
  <2>1. \A g \in Fetches : InProgress(g) /\ fetch[g].epoch = epoch => Scope(g) # scope
    BY <1>1, LookupAssumption DEF Inv, CurrentIsRegistered, Registered
  <2> QED
    BY <2>1, <1>3, <1>4, <1>7 DEF Inv, OneListingAtATime, InProgress
<1> QED
  BY <1>8, <1>9, <1>10, <1>11, <1>12, <1>13, <1>14, <1>15 DEF Inv

\* A fetch that stays in progress keeps registration and progress the same thing.
LEMMA StillInProgress ==
    ASSUME Inv, NEW f \in Fetches, InProgress(f), InProgress(f)',
           UNCHANGED <<frameworkListingInFlight, epoch>>,
           \A g \in Fetches : g # f => fetch'[g] = fetch[g],
           fetch'[f].config = fetch[f].config, fetch'[f].epoch = fetch[f].epoch
    PROVE  /\ RegisteredIsCurrent' /\ CurrentIsRegistered' /\ NoFutureFetch'
           /\ OneListingAtATime'
<1>1. /\ \A g \in Fetches : Scope(g)' = Scope(g) /\ Scope(g) \in Scopes
      /\ \A g \in Fetches : fetch'[g].epoch = fetch[g].epoch
      /\ \A g \in Fetches : InProgress(g)' <=> InProgress(g)
  BY Typed DEF Scope, CaseCacheScope, InProgress, Inv
<1>2. RegisteredIsCurrent'
  <2> SUFFICES ASSUME NEW s \in Scopes, frameworkListingInFlight[s] # NoFetch
               PROVE  /\ InProgress(frameworkListingInFlight[s])'
                      /\ Scope(frameworkListingInFlight[s])' = s
                      /\ (fetch[frameworkListingInFlight[s]].epoch = epoch)'
    BY DEF RegisteredIsCurrent
  <2>1. PICK g \in Fetches : /\ g = frameworkListingInFlight[s]
                            /\ InProgress(g) /\ Scope(g) = s /\ fetch[g].epoch = epoch
    BY DEF Inv, TypeOK, RegisteredIsCurrent
  <2>2. InProgress(g)' /\ Scope(g)' = s /\ fetch'[g].epoch = epoch'
    BY <1>1, <2>1
  <2> QED
    BY <2>1, <2>2 DEF InProgress, Scope
<1>3. CurrentIsRegistered'
  BY <1>1 DEF Inv, CurrentIsRegistered, Registered
<1>4. NoFutureFetch' /\ OneListingAtATime'
  BY <1>1 DEF Inv, NoFutureFetch, OneListingAtATime
<1> QED
  BY <1>2, <1>3, <1>4

LEMMA SettleStep ==
    ASSUME Inv, NEW f \in Fetches, NEW ok \in BOOLEAN, NEW byTitle \in Listings,
           Settle(f, ok, byTitle)
    PROVE  Inv'
<1>1. /\ fetch[f].stage = "listing"
      /\ fetch' = [fetch EXCEPT ![f].stage = "settled", ![f].ok = ok, ![f].byTitle = byTitle]
      /\ UNCHANGED <<frameworkPackageIdCache, frameworkListingCache,
                     frameworkListingInFlight, call, now, epoch>>
  BY DEF Settle
<1>2. /\ fetch'[f].stage = "settled" /\ fetch'[f].config = fetch[f].config
      /\ fetch'[f].epoch = fetch[f].epoch
      /\ \A g \in Fetches : g # f => fetch'[g] = fetch[g]
  BY <1>1 DEF Inv, TypeOK
<1>3. TypeOK'
  <2>1. fetch' \in [Fetches -> FetchRecords]
    BY <1>1 DEF Inv, TypeOK, FetchRecords
  <2> QED
    BY <1>1, <2>1 DEF Inv, TypeOK
<1>4. InProgress(f) /\ InProgress(f)'
  BY <1>1, <1>2 DEF InProgress
<1>5. Persists
  BY <1>1, <1>2 DEF Persists, Frozen
<1> QED
  BY <1>1, <1>2, <1>3, <1>4, <1>5, StillInProgress, CallsPersist, CachesPersist DEF Inv

\* Sweeping a cache only drops entries, and drops every expired one.
LEMMA PruneLemma ==
    ASSUME NEW K, NEW V, NEW STATE cache, cache \in [K -> V \cup {NoEntry}], NEW ttl
    PROVE  /\ PruneExpired(cache, ttl) \in [K -> V \cup {NoEntry}]
           /\ \A k \in K : PruneExpired(cache, ttl)[k] # NoEntry =>
                 /\ PruneExpired(cache, ttl)[k] = cache[k]
                 /\ ~Expired(cache[k], ttl)
<1>1. DOMAIN cache = K
  OBVIOUS
<1>2. PruneExpired(cache, ttl) =
          [k \in K |-> IF cache[k] # NoEntry /\ Expired(cache[k], ttl)
                       THEN NoEntry ELSE cache[k]]
  BY <1>1 DEF PruneExpired
<1> QED
  BY <1>2

LEMMA ThenStep ==
    ASSUME Inv, NEW f \in Fetches, ThenKeepSnapshot(f)
    PROVE  Inv'
<1> DEFINE keeps == KeepsSnapshot(f)
           entry == [fetch |-> f, cachedAt |-> now]
           pruned == PruneExpired(frameworkListingCache, ListingTtl)
<1>1. /\ fetch[f].stage = "settled"
      /\ fetch' = [fetch EXCEPT ![f].stage = "cached",
                                ![f].cachedAt = IF keeps THEN now ELSE 0]
      /\ frameworkListingCache' = IF keeps THEN [pruned EXCEPT ![Scope(f)] = entry]
                                  ELSE frameworkListingCache
      /\ UNCHANGED <<frameworkPackageIdCache, frameworkListingInFlight, call, now, epoch>>
  BY DEF ThenKeepSnapshot
<1>2. /\ Scope(f) \in Scopes /\ entry \in Snapshots /\ now \in 0..MaxTime /\ 0 \in 0..MaxTime
      /\ entry # NoEntry
  BY Typed, LookupBoundAssumption, LookupAssumption DEF Snapshots, Inv
<1>3. /\ fetch'[f].stage = "cached" /\ fetch'[f].config = fetch[f].config
      /\ fetch'[f].epoch = fetch[f].epoch /\ fetch'[f].ok = fetch[f].ok
      /\ keeps => fetch'[f].cachedAt = now
      /\ \A g \in Fetches : g # f => fetch'[g] = fetch[g]
  BY <1>1 DEF Inv, TypeOK
<1>4. /\ pruned \in [Scopes -> Snapshots \cup {NoEntry}]
      /\ \A s \in Scopes : pruned[s] # NoEntry => pruned[s] = frameworkListingCache[s]
  <2>1. frameworkListingCache \in [Scopes -> Snapshots \cup {NoEntry}]
    BY DEF Inv, TypeOK
  <2> QED
    BY <2>1, PruneLemma
<1>5. InProgress(f) /\ InProgress(f)' /\ ~Frozen(f)
  BY <1>1, <1>3 DEF InProgress, Frozen
<1>6. keeps => fetch[f].ok /\ fetch[f].epoch = epoch
  <2>1. ASSUME Registered(f) PROVE fetch[f].epoch = epoch
    BY <1>2, <2>1, LookupAssumption DEF Registered, Inv, RegisteredIsCurrent
  <2> QED
    BY <2>1 DEF KeepsSnapshot
<1> HIDE DEF keeps, entry, pruned
<1>7. TypeOK'
  <2>1. fetch' \in [Fetches -> FetchRecords]
    BY <1>1, <1>2 DEF Inv, TypeOK, FetchRecords
  <2>2. frameworkListingCache' \in [Scopes -> Snapshots \cup {NoEntry}]
    BY <1>1, <1>2, <1>4 DEF Inv, TypeOK
  <2> QED
    BY <1>1, <2>1, <2>2 DEF Inv, TypeOK
<1>8. Persists
  BY <1>3, <1>5 DEF Persists, Frozen
<1>9. SnapshotsAreGood'
  <2> SUFFICES ASSUME NEW s \in Scopes, frameworkListingCache'[s] # NoEntry
               PROVE  GoodSnapshot(s, frameworkListingCache[s])'
    BY DEF SnapshotsAreGood
  <2>1. CASE keeps /\ s = Scope(f)
    <3>1. frameworkListingCache'[s] = entry
      BY <1>1, <1>4, <2>1
    <3>2. entry.fetch = f /\ entry.cachedAt = now
      BY DEF entry
    <3> QED
      BY <1>1, <1>3, <1>6, <2>1, <3>1, <3>2 DEF GoodSnapshot, Frozen, Scope, CaseCacheScope
  <2>2. CASE ~(keeps /\ s = Scope(f))
    <3>1. frameworkListingCache'[s] = frameworkListingCache[s]
      BY <1>1, <1>4, <2>2
    <3>2. frameworkListingCache[s] \in Snapshots /\ GoodSnapshot(s, frameworkListingCache[s])
      BY <3>1, Typed DEF Inv, SnapshotsAreGood
    <3>3. frameworkListingCache[s].fetch \in Fetches \ {f}
      BY <1>5, <3>2 DEF Snapshots, GoodSnapshot
    <3> QED
      BY <1>1, <1>3, <3>1, <3>2, <3>3 DEF GoodSnapshot, Frozen, Scope, CaseCacheScope
  <2> QED
    BY <2>1, <2>2
<1> QED
  BY <1>1, <1>3, <1>5, <1>7, <1>8, <1>9, StillInProgress, CallsPersist, CachesPersist DEF Inv

LEMMA FinallyStep ==
    ASSUME Inv, NEW f \in Fetches, FinallyUnregister(f)
    PROVE  Inv'
<1>1. /\ fetch[f].stage = "cached"
      /\ fetch' = [fetch EXCEPT ![f].stage = "done"]
      /\ frameworkListingInFlight' =
            IF Registered(f) THEN [frameworkListingInFlight EXCEPT ![Scope(f)] = NoFetch]
            ELSE frameworkListingInFlight
      /\ UNCHANGED <<frameworkPackageIdCache, frameworkListingCache, call, now, epoch>>
  BY DEF FinallyUnregister, Unregister
<1>2. /\ \A g \in Fetches : g # f => fetch'[g] = fetch[g]
      /\ fetch'[f].stage = "done"
      /\ \A g \in Fetches : /\ fetch'[g].epoch = fetch[g].epoch
                            /\ fetch'[g].config = fetch[g].config
                            /\ fetch'[g].ok = fetch[g].ok
                            /\ fetch'[g].byTitle = fetch[g].byTitle
                            /\ fetch'[g].cachedAt = fetch[g].cachedAt
  BY <1>1 DEF Inv, TypeOK
<1>3. /\ \A g \in Fetches : Scope(g)' = Scope(g) /\ Scope(g) \in Scopes
      /\ \A g \in Fetches : InProgress(g)' <=> InProgress(g) /\ g # f
  BY <1>1, <1>2, Typed DEF Scope, CaseCacheScope, InProgress, Inv
<1>4. TypeOK'
  <2>1. fetch' \in [Fetches -> FetchRecords]
    <3> DEFINE r == [fetch[f] EXCEPT !.stage = "done"]
    <3>1. r \in FetchRecords
      BY DEF Inv, TypeOK, FetchRecords
    <3>2. fetch' = [fetch EXCEPT ![f] = r]
      BY <1>1 DEF Inv, TypeOK
    <3> QED
      BY <3>1, <3>2 DEF Inv, TypeOK
  <2>2. frameworkListingInFlight' \in [Scopes -> Fetches \cup {NoFetch}]
    BY <1>1 DEF Inv, TypeOK
  <2> QED
    BY <1>1, <2>1, <2>2 DEF Inv, TypeOK
<1>5. RegisteredIsCurrent'
  <2> SUFFICES ASSUME NEW s \in Scopes, frameworkListingInFlight'[s] # NoFetch
               PROVE  /\ InProgress(frameworkListingInFlight[s])'
                      /\ Scope(frameworkListingInFlight[s])' = s
                      /\ (fetch[frameworkListingInFlight[s]].epoch = epoch)'
    BY DEF RegisteredIsCurrent
  <2>1. /\ frameworkListingInFlight'[s] = frameworkListingInFlight[s]
        /\ Registered(f) => s # Scope(f)
    BY <1>1, <1>3 DEF Inv, TypeOK
  <2>2. PICK g \in Fetches : /\ g = frameworkListingInFlight[s]
                            /\ InProgress(g) /\ Scope(g) = s /\ fetch[g].epoch = epoch
    BY <2>1 DEF Inv, TypeOK, RegisteredIsCurrent
  <2>3. g # f
    BY <2>1, <2>2 DEF Registered
  <2>4. InProgress(g)' /\ Scope(g)' = s /\ fetch'[g].epoch = epoch'
    BY <1>1, <1>2, <1>3, <2>2, <2>3
  <2> QED
    BY <2>1, <2>2, <2>4 DEF InProgress, Scope
<1>6. CurrentIsRegistered'
  <2> SUFFICES ASSUME NEW g \in Fetches, InProgress(g)', fetch'[g].epoch = epoch'
               PROVE  frameworkListingInFlight'[Scope(g)'] = g
    BY DEF CurrentIsRegistered, Registered
  <2>1. g # f /\ Registered(g) /\ Scope(g)' = Scope(g) /\ Scope(g) \in Scopes
    BY <1>1, <1>2, <1>3 DEF Inv, CurrentIsRegistered
  <2>2. Registered(f) => Scope(f) # Scope(g)
    BY <2>1 DEF Registered
  <2> QED
    BY <1>1, <2>1, <2>2 DEF Registered, Inv, TypeOK
<1>7. NoFutureFetch' /\ OneListingAtATime'
  BY <1>1, <1>2, <1>3 DEF Inv, NoFutureFetch, OneListingAtATime
<1>8. Persists
  BY <1>1, <1>2 DEF Persists, Frozen
<1> QED
  BY <1>1, <1>4, <1>5, <1>6, <1>7, <1>8, CallsPersist, CachesPersist DEF Inv

\* The record of a lookup that was just answered from a listing.
LEMMA AnswerLemma ==
    ASSUME Inv, NEW c \in Callers, NEW ids \in SUBSET PackageIds,
           NEW answer \in {"packageId", "notFound", "ambiguous", "failed"},
           Answer(c, answer, ids)
    PROVE  /\ call' \in [Callers -> CallRecords]
           /\ \A d \in Callers : d # c => call'[d] = call[d]
           /\ call'[c].pc = "answered" /\ call'[c].answer = answer
           /\ call'[c].packageId = ids /\ call'[c].fetch = call[c].fetch
           /\ call'[c].config = call[c].config /\ call'[c].title = call[c].title
           /\ call'[c].epoch = call[c].epoch /\ call'[c].fresh = call[c].fresh
           /\ call'[c].askedAt = call[c].askedAt /\ call'[c].fromListing = TRUE
<1>1. call \in [Callers -> CallRecords]
  BY DEF Inv, TypeOK
<1>2. call' = [call EXCEPT ![c].pc = "answered", ![c].answer = answer,
                           ![c].packageId = ids, ![c].fromListing = TRUE]
  BY DEF Answer
<1>3. call' \in [Callers -> CallRecords]
  <2> DEFINE r == [call[c] EXCEPT !.pc = "answered", !.answer = answer,
                                  !.packageId = ids, !.fromListing = TRUE]
  <2>1. r \in CallRecords
    <3>1. call[c] \in CallRecords
      BY <1>1
    <3> QED
      BY <3>1 DEF CallRecords
  <2>2. call' = [call EXCEPT ![c] = r]
    BY <1>1, <1>2
  <2> HIDE DEF r
  <2> QED
    BY <1>1, <2>1, <2>2
<1> QED
  BY <1>1, <1>2, <1>3 DEF CallRecords

LEMMA ResumeStep ==
    ASSUME Inv, NEW c \in Callers, Resume(c)
    PROVE  Inv'
<1> DEFINE f == call[c].fetch
           key == <<CaseCacheScope(call[c].config), call[c].title>>
           entry == [packageId |-> CHOOSE id \in Matches(c) : TRUE, fetch |-> f,
                     cachedAt |-> now]
           pruned == PruneExpired(frameworkPackageIdCache, TitleTtl)
<1>1. /\ call[c].pc = "waiting" /\ (call[c].fresh \/ fetch[f].stage = "done")
      /\ UNCHANGED <<frameworkListingCache, frameworkListingInFlight, fetch, now, epoch>>
  BY DEF Resume, ListingIsThere
<1>2. /\ f \in Fetches /\ Frozen(f) /\ Scope(f) = CaseCacheScope(call[c].config)
      /\ fetch[f].epoch = call[c].epoch
      /\ call[c].fresh => call[c].askedAt - fetch[f].cachedAt < ListingTtl /\ fetch[f].ok
  <2>1. GoodCall(c)
    BY DEF Inv, CallsAreGood
  <2> QED
    BY <1>1, <2>1 DEF GoodCall, Frozen
<1>3. /\ call[c].config \in Configs /\ call[c].title \in Titles
      /\ CaseCacheScope(call[c].config) \in Scopes
      /\ Matches(c) = fetch[f].byTitle[call[c].title] /\ Matches(c) \in SUBSET PackageIds
  <2>1. call[c].config \in Configs /\ call[c].title \in Titles
    BY Typed DEF Inv
  <2>2. fetch[f].byTitle \in Listings
    BY <1>2 DEF Inv, TypeOK, FetchRecords
  <2> QED
    BY <2>1, <2>2, ScopeLemma DEF Matches, Listings
<1>4. ASSUME NEW answer \in {"packageId", "notFound", "ambiguous", "failed"},
             NEW ids \in SUBSET PackageIds, Answer(c, answer, ids),
             answer = "packageId" => ids = Matches(c),
             answer = "notFound" => fetch[f].ok /\ Matches(c) = {}
      PROVE  /\ call' \in [Callers -> CallRecords]
             /\ CallsAreGood'
  <2>1. /\ call' \in [Callers -> CallRecords]
        /\ \A d \in Callers : d # c => call'[d] = call[d]
        /\ call'[c].pc = "answered" /\ call'[c].answer = answer
        /\ call'[c].packageId = ids /\ call'[c].fetch = f
        /\ call'[c].config = call[c].config /\ call'[c].title = call[c].title
        /\ call'[c].epoch = call[c].epoch /\ call'[c].fresh = call[c].fresh
        /\ call'[c].askedAt = call[c].askedAt
    BY <1>4, AnswerLemma
  <2>2. fetch[f].stage # "unused"
    BY <1>2 DEF Frozen
  <2> HIDE DEF f
  <2>3. GoodCall(c)'
    BY <1>1, <1>2, <1>3, <1>4, <2>1, <2>2 DEF GoodCall, Frozen, Scope, CaseCacheScope
  <2> QED
    BY <1>1, <2>1, <2>3, OtherCalls
<1>5. CASE FailLookup(c) \/ NotFound(c) \/ Ambiguous(c)
  <2>1. UNCHANGED frameworkPackageIdCache
    BY <1>5 DEF FailLookup, NotFound, Ambiguous
  <2>2. {} \in SUBSET PackageIds
    OBVIOUS
  <2>3. call' \in [Callers -> CallRecords] /\ CallsAreGood'
    <3>1. CASE FailLookup(c)
      BY <1>4, <2>2, <3>1 DEF FailLookup
    <3>2. CASE NotFound(c)
      BY <1>4, <2>2, <3>2 DEF NotFound
    <3>3. CASE Ambiguous(c)
      BY <1>4, <2>2, <3>3 DEF Ambiguous
    <3> QED
      BY <1>5, <3>1, <3>2, <3>3
  <2>4. TypeOK'
    BY <1>1, <2>1, <2>3 DEF Inv, TypeOK
  <2> QED
    BY <1>1, <2>1, <2>3, <2>4, FetchesKept DEF Inv
<1>6. CASE Resolved(c)
  <2>1. /\ fetch[f].ok /\ Cardinality(Matches(c)) = 1
        /\ Answer(c, "packageId", Matches(c))
        /\ frameworkPackageIdCache' = [pruned EXCEPT ![key] = entry]
    BY <1>6 DEF Resolved
  <2>2. /\ entry.packageId \in PackageIds /\ Matches(c) = {entry.packageId}
        /\ entry.fetch = f
    <3>1. IsFiniteSet(Matches(c))
      BY <1>3, LookupAssumption, FS_Subset
    <3>2. PICK id : Matches(c) = {id}
      BY <2>1, <3>1, FS_Singleton
    <3>3. (CHOOSE x \in Matches(c) : TRUE) = id
      BY <3>2
    <3> QED
      BY <1>3, <3>2, <3>3
  <2>3. call' \in [Callers -> CallRecords] /\ CallsAreGood'
    BY <1>3, <1>4, <2>1
  <2>4. entry \in Resolutions /\ key \in TitleKeys
    BY <1>2, <1>3, <2>2 DEF Resolutions, TitleKeys, Inv, TypeOK
  <2>5. /\ pruned \in [TitleKeys -> Resolutions \cup {NoEntry}]
        /\ \A k \in TitleKeys : pruned[k] # NoEntry => pruned[k] = frameworkPackageIdCache[k]
    <3>1. frameworkPackageIdCache \in [TitleKeys -> Resolutions \cup {NoEntry}]
      BY DEF Inv, TypeOK
    <3> QED
      BY <3>1, PruneLemma
  <2> HIDE DEF f, entry, pruned
  <2>6. TypeOK'
    <3>1. frameworkPackageIdCache' \in [TitleKeys -> Resolutions \cup {NoEntry}]
      BY <2>1, <2>4, <2>5
    <3> QED
      BY <1>1, <2>3, <3>1 DEF Inv, TypeOK
  <2>7. ResolutionsAreGood'
    <3> SUFFICES ASSUME NEW s \in Scopes, NEW t \in Titles,
                        frameworkPackageIdCache'[<<s, t>>] # NoEntry
                 PROVE  GoodResolution(s, t, frameworkPackageIdCache[<<s, t>>])'
      BY DEF ResolutionsAreGood
    <3>1. <<s, t>> \in TitleKeys
      BY DEF TitleKeys
    <3>2. CASE <<s, t>> = key
      <4>1. frameworkPackageIdCache'[<<s, t>>] = entry
        BY <2>1, <2>4, <2>5, <3>2
      <4>2. s = CaseCacheScope(call[c].config) /\ t = call[c].title
        BY <3>2
      <4> QED
        BY <1>1, <1>2, <1>3, <2>1, <2>2, <4>1, <4>2
           DEF GoodResolution, Frozen, Scope, CaseCacheScope
    <3>3. CASE <<s, t>> # key
      <4> HIDE DEF key
      <4>1. frameworkPackageIdCache'[<<s, t>>] = frameworkPackageIdCache[<<s, t>>]
        BY <2>1, <2>5, <3>1, <3>3
      <4>2. GoodResolution(s, t, frameworkPackageIdCache[<<s, t>>])
        BY <4>1 DEF Inv, ResolutionsAreGood
      <4> QED
        BY <1>1, <4>1, <4>2 DEF GoodResolution, Frozen, Scope, CaseCacheScope
    <3> QED
      BY <3>2, <3>3
  <2> QED
    BY <1>1, <2>3, <2>6, <2>7, FetchesKept DEF Inv
<1> QED
  BY <1>5, <1>6 DEF Resume

LEMMA ClearStep ==
    ASSUME Inv, ClearFrameworkPackageIdCache
    PROVE  Inv'
<1>1. /\ epoch < MaxClears /\ epoch' = epoch + 1
      /\ frameworkPackageIdCache' = [key \in TitleKeys |-> NoEntry]
      /\ frameworkListingCache' = [scope \in Scopes |-> NoEntry]
      /\ frameworkListingInFlight' = [scope \in Scopes |-> NoFetch]
      /\ UNCHANGED <<fetch, call, now>>
  BY DEF ClearFrameworkPackageIdCache
<1>2. epoch \in Nat /\ epoch' \in 0..MaxClears
  BY <1>1, LookupBoundAssumption, Typed DEF Inv
<1>3. TypeOK'
  BY <1>1, <1>2 DEF Inv, TypeOK
<1>4. \A f \in Fetches : fetch[f].epoch \in Nat /\ fetch[f].epoch < epoch'
  BY <1>1, <1>2, Typed DEF Inv, NoFutureFetch
<1>5. RegisteredIsCurrent' /\ SnapshotsAreGood' /\ ResolutionsAreGood'
  BY <1>1 DEF RegisteredIsCurrent, SnapshotsAreGood, ResolutionsAreGood, TitleKeys
<1>6. CurrentIsRegistered' /\ NoFutureFetch'
  BY <1>1, <1>2, <1>4 DEF CurrentIsRegistered, NoFutureFetch
<1>7. OneListingAtATime'
  BY <1>1 DEF Inv, OneListingAtATime, InProgress, Scope, CaseCacheScope
<1>8. CallsAreGood'
  <2>1. Persists
    BY <1>1 DEF Persists, Frozen
  <2> QED
    BY <1>1, <2>1, CallsPersist
<1> QED
  BY <1>3, <1>5, <1>6, <1>7, <1>8 DEF Inv

LEMMA TickStep ==
    ASSUME Inv, Tick \/ UNCHANGED vars
    PROVE  Inv'
<1>1. /\ UNCHANGED <<frameworkPackageIdCache, frameworkListingCache,
                     frameworkListingInFlight, fetch, call, epoch>>
      /\ now' \in 0..MaxTime
  BY LookupBoundAssumption DEF Tick, vars, Inv, TypeOK
<1>2. TypeOK'
  BY <1>1 DEF Inv, TypeOK
<1>3. Persists
  BY <1>1 DEF Persists, Frozen
<1> QED
  BY <1>1, <1>2, <1>3, FetchesKept, CallsPersist DEF Inv

\* The invariant is inductive.
LEMMA NextInv == Inv /\ [Next]_vars => Inv'
<1> SUFFICES ASSUME Inv, [Next]_vars PROVE Inv'
  OBVIOUS
<1>1. ASSUME NEW c \in Callers, ResolveFrameworkPackageId(c) PROVE Inv'
  <2>1. PICK config \in Configs, title \in Titles :
            \/ AnswerFromTitleCache(c, config, title)
            \/ UseSnapshot(c, config, title)
            \/ JoinListing(c, config, title)
            \/ \E f \in Fetches : StartListing(c, config, title, f)
    BY <1>1 DEF ResolveFrameworkPackageId
  <2>2. UNCHANGED <<frameworkPackageIdCache, frameworkListingCache, now, epoch>>
    BY <1>1 DEF ResolveFrameworkPackageId
  <2> QED
    BY <2>1, <2>2, TitleCacheStep, SnapshotStep, JoinStep, StartStep
<1>2. ASSUME NEW c \in Callers, Resume(c) PROVE Inv'
  BY <1>2, ResumeStep
<1>3. ASSUME NEW f \in Fetches, ListingArrives(f) \/ ListingFails(f) PROVE Inv'
  <2>1. [t \in Titles |-> {}] \in Listings
    BY DEF Listings
  <2>2. CASE ListingArrives(f)
    BY <2>2, SettleStep DEF ListingArrives
  <2>3. CASE ListingFails(f)
    BY <2>1, <2>3, SettleStep DEF ListingFails
  <2> QED
    BY <1>3, <2>2, <2>3
<1>4. ASSUME NEW f \in Fetches, ThenKeepSnapshot(f) PROVE Inv'
  BY <1>4, ThenStep
<1>5. ASSUME NEW f \in Fetches, FinallyUnregister(f) PROVE Inv'
  BY <1>5, FinallyStep
<1>6. CASE ClearFrameworkPackageIdCache
  BY <1>6, ClearStep
<1>7. CASE Tick \/ UNCHANGED vars
  BY <1>7, TickStep
<1> QED
  BY <1>1, <1>2, <1>3, <1>4, <1>5, <1>6, <1>7 DEF Next

LEMMA Invariance == Spec => []Inv
<1>1. Init => Inv
  BY InitInv
<1>2. Inv /\ [Next]_vars => Inv'
  BY NextInv
<1> QED
  BY <1>1, <1>2, PTL DEF Spec

-----------------------------------------------------------------------------
(***************************************************************************)
(* The theorems.                                                           *)
(***************************************************************************)

\* Every variable keeps its type.
THEOREM TypeCorrect == Spec => []TypeOK
<1>1. Inv => TypeOK
  BY DEF Inv
<1> QED
  BY <1>1, Invariance, PTL

\* However many titles are asked for at once, and however long a listing takes,
\* frameworksByTitle has one request per server and credential under way.
THEOREM OneListingAtATimeHolds == Spec => []OneListingAtATime
<1>1. Inv => OneListingAtATime
  BY DEF Inv
<1> QED
  BY <1>1, Invariance, PTL

\* A lookup that consults a listing consults one of its own epoch, and no
\* snapshot outlives clearFrameworkPackageIdCache.
THEOREM ListingClearBarrierHolds == Spec => []ListingClearBarrier
<1>1. ASSUME Inv PROVE ListingClearBarrier
  <2>1. ASSUME NEW c \in Callers, call[c].pc = "waiting" \/ call[c].fromListing
        PROVE  fetch[call[c].fetch].epoch >= call[c].epoch
    <3>1. fetch[call[c].fetch].epoch = call[c].epoch
      BY <1>1, <2>1 DEF Inv, CallsAreGood, GoodCall
    <3>2. call[c].epoch \in Nat
      BY <1>1, LookupBoundAssumption DEF Inv, TypeOK, CallRecords
    <3> QED
      BY <3>1, <3>2
  <2>2. \A scope \in Scopes : frameworkListingCache[scope] # NoEntry =>
            fetch[frameworkListingCache[scope].fetch].epoch = epoch
    BY <1>1 DEF Inv, SnapshotsAreGood, GoodSnapshot
  <2> QED
    BY <2>1, <2>2 DEF ListingClearBarrier
<1> QED
  BY <1>1, Invariance, PTL

\* No title is resolved against a listing read with another credential or from
\* another server.
THEOREM OwnListingOnlyHolds == Spec => []OwnListingOnly
<1>1. ASSUME Inv PROVE OwnListingOnly
  <2> SUFFICES ASSUME NEW c \in Callers, call[c].pc # "idle"
               PROVE  LET config == fetch[call[c].fetch].config IN
                      /\ BaseUrl[config] = BaseUrl[call[c].config]
                      /\ ApiKey[config] = ApiKey[call[c].config]
    BY DEF OwnListingOnly
  <2>1. /\ call[c].fetch \in Fetches
        /\ Scope(call[c].fetch) = CaseCacheScope(call[c].config)
    BY <1>1 DEF Inv, CallsAreGood, GoodCall
  <2>2. call[c].config \in Configs /\ fetch[call[c].fetch].config \in Configs
    BY <1>1, <2>1, Typed DEF Inv
  <2> QED
    BY <2>1, <2>2, ScopeLemma DEF Scope
<1> QED
  BY <1>1, Invariance, PTL

\* An answer from the snapshot was asked for within the snapshot's TTL.
THEOREM SnapshotWithinTtlHolds == Spec => []SnapshotWithinTtl
<1>1. Inv => SnapshotWithinTtl
  BY DEF Inv, CallsAreGood, GoodCall, SnapshotWithinTtl
<1> QED
  BY <1>1, Invariance, PTL

\* Whichever cache answers, an id is the one framework of its title in the
\* listing behind the answer, and "not found" means that listing has none.
THEOREM AnswerIsUnambiguousHolds == Spec => []AnswerIsUnambiguous
<1>1. Inv => AnswerIsUnambiguous
  BY DEF Inv, CallsAreGood, GoodCall, AnswerIsUnambiguous
<1> QED
  BY <1>1, Invariance, PTL

\* Only a resolution puts an entry into the title cache, and it sweeps first: what
\* is there afterwards is what had not expired, and the entry just inserted.
THEOREM SweptOnInsertHolds == Spec => SweptOnInsert
<1> DEFINE Inserts == \E key \in TitleKeys : frameworkPackageIdCache'[key]
                                                 \notin {NoEntry, frameworkPackageIdCache[key]}
           Swept == \A other \in TitleKeys : frameworkPackageIdCache'[other] # NoEntry =>
                        now - frameworkPackageIdCache'[other].cachedAt < TitleTtl
<1>1. ASSUME Inv, NEW c \in Callers, Resolved(c) PROVE Swept
  <2> DEFINE key == <<CaseCacheScope(call[c].config), call[c].title>>
             entry == [packageId |-> CHOOSE id \in Matches(c) : TRUE,
                       fetch |-> call[c].fetch, cachedAt |-> now]
             pruned == PruneExpired(frameworkPackageIdCache, TitleTtl)
  <2>1. frameworkPackageIdCache' = [pruned EXCEPT ![key] = entry]
    BY <1>1 DEF Resolved
  <2>2. /\ pruned \in [TitleKeys -> Resolutions \cup {NoEntry}]
        /\ \A k \in TitleKeys : pruned[k] # NoEntry =>
              pruned[k] = frameworkPackageIdCache[k]
              /\ ~Expired(frameworkPackageIdCache[k], TitleTtl)
    <3>1. frameworkPackageIdCache \in [TitleKeys -> Resolutions \cup {NoEntry}]
      BY <1>1 DEF Inv, TypeOK
    <3> QED
      BY <3>1, PruneLemma
  <2>3. now \in Nat /\ entry.cachedAt = now
    BY <1>1, Typed DEF Inv
  <2> HIDE DEF pruned, entry, key
  <2>4. ASSUME NEW other \in TitleKeys, frameworkPackageIdCache'[other] # NoEntry
        PROVE  now - frameworkPackageIdCache'[other].cachedAt < TitleTtl
    <3>1. CASE frameworkPackageIdCache'[other] = entry
      BY <2>3, <3>1, TtlAssumption
    <3>2. CASE frameworkPackageIdCache'[other] # entry
      <4> DEFINE e == frameworkPackageIdCache'[other]
      <4>1. e = pruned[other]
        BY <2>1, <2>2, <2>4, <3>2
      <4>2. ~Expired(e, TitleTtl) /\ e \in Resolutions
        BY <2>2, <2>4, <4>1
      <4>3. e.cachedAt \in Nat
        BY <4>2, LookupBoundAssumption DEF Resolutions
      <4> HIDE DEF e
      <4>4. now - e.cachedAt < TitleTtl
        BY <2>3, <4>2, <4>3, TtlAssumption DEF Expired
      <4> QED
        BY <4>4 DEF e
    <3> QED
      BY <3>1, <3>2
  <2> QED
    BY <2>4
<1>2. ASSUME Inv, [Next]_vars, Inserts PROVE Swept
  <2>1. ~UNCHANGED frameworkPackageIdCache
    BY <1>2
  <2>2. ~ClearFrameworkPackageIdCache
    BY <1>2 DEF ClearFrameworkPackageIdCache
  <2>3. PICK c \in Callers : Resume(c)
    BY <1>2, <2>1, <2>2 DEF Next, vars, ResolveFrameworkPackageId, ListingArrives,
       ListingFails, Settle, ThenKeepSnapshot, FinallyUnregister, Tick
  <2>4. Resolved(c)
    BY <2>1, <2>3 DEF Resume, FailLookup, NotFound, Ambiguous
  <2> QED
    BY <1>1, <1>2, <2>4
<1>3. Inv /\ [Next]_vars =>
          [\A key \in TitleKeys :
              /\ frameworkPackageIdCache'[key] \notin {NoEntry, frameworkPackageIdCache[key]}
              => \A other \in TitleKeys :
                    frameworkPackageIdCache'[other] # NoEntry =>
                        now - frameworkPackageIdCache'[other].cachedAt < TitleTtl]_vars
  BY <1>2
<1> QED
  BY <1>3, Invariance, PTL DEF Spec, SweptOnInsert
-----------------------------------------------------------------------------
(***************************************************************************)
(* Towards the directory.  What the mapping needs besides Inv: a listing   *)
(* that has not settled says nothing, and a lookup is called answered from *)
(* a listing only with an answer.                                          *)
(***************************************************************************)
EmptyUntilListed ==
    \A f \in Fetches : fetch[f].stage \in {"unused", "listing"} =>
        fetch[f].byTitle = [t \in Titles |-> {}]

ConsultedIsAnswered == \A c \in Callers : call[c].fromListing => call[c].answer # "none"

MapInv == Inv /\ EmptyUntilListed /\ ConsultedIsAnswered

LEMMA InitMapInv == Init => MapInv
<1>1. Init => EmptyUntilListed
  <2>1. Unused.byTitle = [t \in Titles |-> {}]
    BY DEF Unused
  <2>2. Init => \A f \in Fetches : fetch[f] = Unused
    BY DEF Init
  <2> QED
    BY <2>1, <2>2 DEF EmptyUntilListed
<1>2. Init => ConsultedIsAnswered
  <2>1. NoCall.fromListing = FALSE
    BY DEF NoCall
  <2>2. Init => \A c \in Callers : call[c] = NoCall
    BY DEF Init
  <2> QED
    BY <2>1, <2>2 DEF ConsultedIsAnswered
<1> QED
  BY <1>1, <1>2, InitInv DEF MapInv

\* A lookup that waits, or that the title cache answered, consulted nothing yet.
LEMMA LookupKeeps ==
    ASSUME NEW c \in Callers, NEW config \in Configs, NEW title \in Titles, MapInv,
           \/ AnswerFromTitleCache(c, config, title)
           \/ UseSnapshot(c, config, title)
           \/ JoinListing(c, config, title)
           \/ \E f \in Fetches : StartListing(c, config, title, f)
    PROVE  (EmptyUntilListed /\ ConsultedIsAnswered)'
<1>1. PICK r : r.fromListing = FALSE /\ call' = [call EXCEPT ![c] = r]
  BY DEF AnswerFromTitleCache, UseSnapshot, JoinListing, StartListing, AwaitListing, NoCall
<1>2. ConsultedIsAnswered'
  BY <1>1 DEF MapInv, Inv, TypeOK, ConsultedIsAnswered
<1>3. CASE UNCHANGED fetch
  BY <1>2, <1>3 DEF MapInv, EmptyUntilListed
<1>4. ASSUME NEW f \in Fetches, StartListing(c, config, title, f) PROVE EmptyUntilListed'
  <2> DEFINE new == [Unused EXCEPT !.stage = "listing", !.config = config, !.epoch = epoch]
  <2>1. new.byTitle = [t \in Titles |-> {}] /\ fetch' = [fetch EXCEPT ![f] = new]
    BY <1>4 DEF StartListing, Unused
  <2> HIDE DEF new
  <2> QED
    BY <2>1 DEF MapInv, Inv, TypeOK, EmptyUntilListed
<1> QED
  BY <1>2, <1>3, <1>4 DEF AnswerFromTitleCache, UseSnapshot, JoinListing

LEMMA ResumeKeeps ==
    ASSUME NEW c \in Callers, MapInv, Resume(c)
    PROVE  (EmptyUntilListed /\ ConsultedIsAnswered)'
<1>1. PICK answer \in {"packageId", "notFound", "ambiguous", "failed"} :
          \E ids : call' = [call EXCEPT ![c].pc = "answered", ![c].answer = answer,
                                       ![c].packageId = ids, ![c].fromListing = TRUE]
  BY DEF Resume, FailLookup, NotFound, Ambiguous, Resolved, Answer
<1>2. call'[c].answer = answer /\ \A d \in Callers \ {c} : call'[d] = call[d]
  BY <1>1 DEF MapInv, Inv, TypeOK, CallRecords
<1>3. ConsultedIsAnswered'
  BY <1>2 DEF MapInv, ConsultedIsAnswered
<1>4. EmptyUntilListed'
  BY DEF Resume, MapInv, EmptyUntilListed
<1> QED
  BY <1>3, <1>4

\* A fetch moves on, and only while it is listed does what it says change.
LEMMA FetchKeeps ==
    ASSUME NEW f \in Fetches, MapInv,
           \/ ListingArrives(f) \/ ListingFails(f)
           \/ ThenKeepSnapshot(f) \/ FinallyUnregister(f)
    PROVE  (EmptyUntilListed /\ ConsultedIsAnswered)'
<1>1. /\ UNCHANGED call
      /\ fetch'[f].stage \in {"settled", "cached", "done"}
      /\ \A g \in Fetches \ {f} : fetch'[g] = fetch[g]
  BY DEF ListingArrives, ListingFails, Settle, ThenKeepSnapshot, FinallyUnregister,
     MapInv, Inv, TypeOK, FetchRecords
<1> QED
  BY <1>1 DEF MapInv, EmptyUntilListed, ConsultedIsAnswered

LEMMA NextMapInv == MapInv /\ [Next]_vars => MapInv'
<1> SUFFICES ASSUME MapInv, [Next]_vars PROVE (EmptyUntilListed /\ ConsultedIsAnswered)'
  BY NextInv DEF MapInv
<1>1. ASSUME NEW c \in Callers, ResolveFrameworkPackageId(c)
      PROVE  (EmptyUntilListed /\ ConsultedIsAnswered)'
  BY <1>1, LookupKeeps DEF ResolveFrameworkPackageId
<1>2. ASSUME NEW c \in Callers, Resume(c) PROVE (EmptyUntilListed /\ ConsultedIsAnswered)'
  BY <1>2, ResumeKeeps
<1>3. ASSUME NEW f \in Fetches,
             \/ ListingArrives(f) \/ ListingFails(f)
             \/ ThenKeepSnapshot(f) \/ FinallyUnregister(f)
      PROVE  (EmptyUntilListed /\ ConsultedIsAnswered)'
  BY <1>3, FetchKeeps
<1>4. CASE ClearFrameworkPackageIdCache \/ Tick \/ UNCHANGED vars
  BY <1>4 DEF ClearFrameworkPackageIdCache, Tick, vars, MapInv, EmptyUntilListed,
     ConsultedIsAnswered
<1> QED
  BY <1>1, <1>2, <1>3, <1>4 DEF Next

-----------------------------------------------------------------------------
(***************************************************************************)
(* What the steps have in common under the mapping.                        *)
(***************************************************************************)

\* A fetch that a step leaves alone is, within one epoch, the same listing.
LEMMA SameListing ==
    ASSUME NEW f \in Fetches, fetch'[f] = fetch[f], UNCHANGED epoch
    PROVE  ListingOf(f)' = ListingOf(f)
BY DEF ListingOf, Kept, Got, InProgress, Scope, CaseCacheScope

\* A call that a step leaves alone is the same lookup.
LEMMA SameLookup ==
    ASSUME NEW c \in Callers, call'[c] = call[c]
    PROVE  LookupOf(c)' = LookupOf(c)
BY DEF LookupOf, CaseCacheScope

LEMMA SameKnown ==
    ASSUME UNCHANGED frameworkPackageIdCache
    PROVE  Known' = Known
BY DEF Known, Fact

LEMMA SameListings ==
    ASSUME UNCHANGED <<fetch, epoch>>
    PROVE  [f \in Fetches |-> ListingOf(f)]' = [f \in Fetches |-> ListingOf(f)]
<1>1. \A f \in Fetches : ListingOf(f)' = ListingOf(f)
  BY SameListing
<1> QED
  BY <1>1

LEMMA SameLookups ==
    ASSUME UNCHANGED call
    PROVE  [c \in Callers |-> LookupOf(c)]' = [c \in Callers |-> LookupOf(c)]
<1>1. \A c \in Callers : LookupOf(c)' = LookupOf(c)
  BY SameLookup
<1> QED
  BY <1>1

\* One listing changes.
LEMMA OneListing ==
    ASSUME NEW f \in Fetches, NEW r, ListingOf(f)' = r, UNCHANGED epoch,
           \A g \in Fetches \ {f} : fetch'[g] = fetch[g]
    PROVE  [g \in Fetches |-> ListingOf(g)]' =
               [[g \in Fetches |-> ListingOf(g)] EXCEPT ![f] = r]
<1>1. \A g \in Fetches \ {f} : ListingOf(g)' = ListingOf(g)
  BY SameListing
<1> QED
  BY <1>1

\* One lookup changes.
LEMMA AskMaps ==
    ASSUME NEW c \in Callers, NEW config, NEW title, NEW l, NEW answer, NEW ids,
           \A d \in Callers \ {c} : call'[d] = call[d],
           call'[c].config = config, call'[c].title = title,
           call'[c].answer = answer, call'[c].packageId = ids,
           l = IF call'[c].pc = "waiting" \/ call'[c].fromListing
               THEN call'[c].fetch ELSE NoFetch
    PROVE  Promised!Ask(c, CaseCacheScope(config), title, l, answer, ids)
<1>1. \A d \in Callers \ {c} : LookupOf(d)' = LookupOf(d)
  BY SameLookup
<1>2. LookupOf(c)' = [scope |-> CaseCacheScope(config), title |-> title, bound |-> l,
                      answer |-> answer, packageId |-> ids]
  BY DEF LookupOf, CaseCacheScope
<1> QED
  BY <1>1, <1>2 DEF Promised!Ask

LEMMA AwaitMaps ==
    ASSUME NEW c \in Callers, NEW config \in Configs, NEW title \in Titles,
           NEW f \in Fetches, NEW fresh \in BOOLEAN, MapInv,
           AwaitListing(c, config, title, f, fresh)
    PROVE  Promised!Ask(c, CaseCacheScope(config), title, f, "none", {})
<1> DEFINE new == [NoCall EXCEPT !.pc = "waiting", !.config = config, !.title = title,
                                 !.fetch = f, !.fresh = fresh, !.epoch = epoch,
                                 !.askedAt = IF fresh THEN now ELSE 0]
<1>1. call' = [call EXCEPT ![c] = new]
  BY DEF AwaitListing
<1>2. /\ new.pc = "waiting" /\ new.config = config /\ new.title = title /\ new.fetch = f
      /\ new.answer = "none" /\ new.packageId = {}
  BY DEF NoCall
<1> HIDE DEF new
<1>3. call'[c] = new /\ \A d \in Callers \ {c} : call'[d] = call[d]
  BY <1>1 DEF MapInv, Inv, TypeOK
<1>4. f = IF call'[c].pc = "waiting" \/ call'[c].fromListing THEN call'[c].fetch ELSE NoFetch
  BY <1>2, <1>3
<1> QED
  BY <1>2, <1>3, <1>4, AskMaps

-----------------------------------------------------------------------------
(***************************************************************************)
(* The initial states, and the steps one kind at a time.                   *)
(***************************************************************************)
LEMMA InitMaps == Init => Promised!Init
<1> SUFFICES ASSUME Init PROVE Promised!Init
  OBVIOUS
<1> DEFINE NoListing == [scope : Scopes, running : {FALSE}, got : {"none"},
                         byTitle : {[title \in Titles |-> {}]}, kept : {{}}, epoch : {0}]
           NoLookup == [scope : Scopes, title : Titles, bound : {NoFetch},
                        answer : {"none"}, packageId : {{}}]
<1>1. /\ (CHOOSE c \in Configs : TRUE) \in Configs
      /\ (CHOOSE t \in Titles : TRUE) \in Titles
  BY LookupAssumption
<1>2. ASSUME NEW f \in Fetches PROVE ListingOf(f) \in NoListing
  <2>1. /\ Scope(f) \in Scopes /\ fetch[f].stage = "unused" /\ fetch[f].epoch = 0
        /\ fetch[f].byTitle = [title \in Titles |-> {}]
    BY <1>1, ScopeLemma DEF Init, Unused, Scope
  <2>2. InProgress(f) = FALSE /\ Kept(f) = {} /\ Got(f) = "none"
    BY <2>1 DEF InProgress, Kept, Got
  <2> QED
    BY <2>1, <2>2 DEF ListingOf
<1>3. ASSUME NEW c \in Callers PROVE LookupOf(c) \in NoLookup
  <2>1. /\ call[c].fetch = NoFetch /\ call[c].answer = "none" /\ call[c].packageId = {}
        /\ call[c].config \in Configs /\ call[c].title \in Titles
    BY <1>1 DEF Init, NoCall
  <2>2. CaseCacheScope(call[c].config) \in Scopes
    BY <2>1, ScopeLemma
  <2> QED
    BY <2>1, <2>2 DEF LookupOf
<1>4. /\ [f \in Fetches |-> ListingOf(f)] \in [Fetches -> NoListing]
      /\ [c \in Callers |-> LookupOf(c)] \in [Callers -> NoLookup]
  BY <1>2, <1>3
<1>5. Known = {} /\ now = 0 /\ epoch = 0
  BY DEF Init, Known
<1> QED
  BY <1>4, <1>5, Zenon DEF Promised!Init

LEMMA StartMaps ==
    ASSUME NEW c \in Callers, NEW config \in Configs, NEW title \in Titles,
           NEW f \in Fetches, MapInv, StartListing(c, config, title, f), UNCHANGED epoch
    PROVE  /\ Promised!Ask(c, CaseCacheScope(config), title, f, "none", {})
           /\ Promised!Begin(c, CaseCacheScope(config), f)
<1> DEFINE new == [Unused EXCEPT !.stage = "listing", !.config = config, !.epoch = epoch]
<1>1. /\ Allocatable(f, c) /\ fetch' = [fetch EXCEPT ![f] = new]
      /\ AwaitListing(c, config, title, f, FALSE)
  BY DEF StartListing
<1>2. /\ new.stage = "listing" /\ new.config = config /\ new.epoch = epoch
      /\ new.byTitle = [t \in Titles |-> {}]
  BY DEF Unused
<1> HIDE DEF new
<1>3. fetch'[f] = new /\ \A g \in Fetches \ {f} : fetch'[g] = fetch[g]
  BY <1>1 DEF MapInv, Inv, TypeOK
<1>4. Promised!Ask(c, CaseCacheScope(config), title, f, "none", {})
  BY <1>1, AwaitMaps
<1>5. ListingOf(f)' = [scope |-> CaseCacheScope(config), running |-> TRUE, got |-> "none",
                       byTitle |-> [t \in Titles |-> {}], kept |-> {}, epoch |-> epoch]
  <2>1. /\ Scope(f)' = CaseCacheScope(config) /\ InProgress(f)' = TRUE
        /\ Got(f)' = "none" /\ Kept(f)' = {}
    BY <1>2, <1>3 DEF Scope, CaseCacheScope, InProgress, Got, Kept
  <2>2. fetch'[f].byTitle = [t \in Titles |-> {}] /\ fetch'[f].epoch = epoch
    BY <1>2, <1>3
  <2>3. ListingOf(f)' = [scope |-> Scope(f)', running |-> InProgress(f)', got |-> Got(f)',
                         byTitle |-> fetch'[f].byTitle, kept |-> Kept(f)',
                         epoch |-> fetch'[f].epoch]
    BY DEF ListingOf
  <2> QED
    BY <2>1, <2>2, <2>3, Zenon
<1>6. ~ListingOf(f).running
  <2>1. ~InProgress(f)
    BY <1>1 DEF Allocatable, InProgress
  <2> QED
    BY <2>1 DEF ListingOf
<1>7. \A d \in Callers \ {c} : LookupOf(d).bound # f
  BY <1>1, LookupAssumption DEF Allocatable, LookupOf
<1>8. [g \in Fetches |-> ListingOf(g)]' =
          [[g \in Fetches |-> ListingOf(g)] EXCEPT ![f] =
              [scope |-> CaseCacheScope(config), running |-> TRUE, got |-> "none",
               byTitle |-> [t \in Titles |-> {}], kept |-> {}, epoch |-> epoch]]
  BY <1>3, <1>5, OneListing
<1> QED
  BY <1>4, <1>6, <1>7, <1>8 DEF Promised!Begin

LEMMA JoinMaps ==
    ASSUME NEW c \in Callers, NEW config \in Configs, NEW title \in Titles, MapInv,
           JoinListing(c, config, title), UNCHANGED epoch
    PROVE  \E f \in Fetches :
              /\ Promised!Ask(c, CaseCacheScope(config), title, f, "none", {})
              /\ Promised!Share(CaseCacheScope(config), f)
<1> DEFINE f == frameworkListingInFlight[CaseCacheScope(config)]
<1>1. f # NoFetch /\ AwaitListing(c, config, title, f, FALSE) /\ UNCHANGED fetch
  BY DEF JoinListing
<1>2. /\ f \in Fetches /\ InProgress(f) /\ Scope(f) = CaseCacheScope(config)
      /\ fetch[f].epoch = epoch
  BY <1>1, ScopeLemma DEF MapInv, Inv, TypeOK, RegisteredIsCurrent
<1> HIDE DEF f
<1>3. Promised!Ask(c, CaseCacheScope(config), title, f, "none", {})
  BY <1>1, <1>2, AwaitMaps
<1>4. /\ ListingOf(f).scope = CaseCacheScope(config) /\ ListingOf(f).epoch = epoch
      /\ ListingOf(f).running
  BY <1>2 DEF ListingOf
<1>5. [g \in Fetches |-> ListingOf(g)]' = [g \in Fetches |-> ListingOf(g)]
  BY <1>1, SameListings
<1> QED
  BY <1>2, <1>3, <1>4, <1>5 DEF Promised!Share, Promised!Current

\* A snapshot is a listing kept since the last clear.
LEMMA SnapshotMaps ==
    ASSUME NEW c \in Callers, NEW config \in Configs, NEW title \in Titles, MapInv,
           UseSnapshot(c, config, title), UNCHANGED epoch
    PROVE  \E f \in Fetches :
              /\ Promised!Ask(c, CaseCacheScope(config), title, f, "none", {})
              /\ Promised!Reuse(CaseCacheScope(config), f)
<1> DEFINE e == frameworkListingCache[CaseCacheScope(config)]
           f == e.fetch
<1>1. /\ e # NoEntry /\ ~Expired(e, ListingTtl) /\ UNCHANGED fetch
      /\ AwaitListing(c, config, title, f, TRUE)
  BY DEF UseSnapshot, Fresh
<1>2. e \in Snapshots /\ GoodSnapshot(CaseCacheScope(config), e)
  BY <1>1, ScopeLemma, Typed DEF MapInv, Inv, SnapshotsAreGood
<1> HIDE DEF e
<1>3. /\ f \in Fetches /\ fetch[f].stage \in {"cached", "done"} /\ fetch[f].ok
      /\ Scope(f) = CaseCacheScope(config) /\ fetch[f].epoch = epoch
      /\ fetch[f].cachedAt = e.cachedAt
  BY <1>2 DEF Snapshots, GoodSnapshot, Frozen
<1>4. now - e.cachedAt < ListingTtl
  BY <1>1, <1>2, TtlAssumption, LookupBoundAssumption
     DEF Snapshots, Expired, MapInv, Inv, TypeOK
<1> HIDE DEF f
<1>5. Promised!Ask(c, CaseCacheScope(config), title, f, "none", {})
  BY <1>1, <1>3, AwaitMaps
<1>6. Kept(f) = {e.cachedAt}
  BY <1>3 DEF Kept
<1>7. /\ ListingOf(f).scope = CaseCacheScope(config) /\ ListingOf(f).epoch = epoch
      /\ ListingOf(f).kept = {e.cachedAt}
  BY <1>3, <1>6 DEF ListingOf
<1>8. [g \in Fetches |-> ListingOf(g)]' = [g \in Fetches |-> ListingOf(g)]
  BY <1>1, SameListings
<1> QED
  BY <1>3, <1>4, <1>5, <1>7, <1>8 DEF Promised!Reuse, Promised!Current

LEMMA TitleCacheMaps ==
    ASSUME NEW c \in Callers, NEW config \in Configs, NEW title \in Titles, MapInv,
           AnswerFromTitleCache(c, config, title), UNCHANGED epoch
    PROVE  Promised!Recall(c, CaseCacheScope(config), title)
<1> DEFINE scope == CaseCacheScope(config)
           e == frameworkPackageIdCache[<<scope, title>>]
           new == [NoCall EXCEPT !.pc = "answered", !.config = config, !.title = title,
                                 !.fetch = e.fetch, !.answer = "packageId",
                                 !.packageId = {e.packageId}, !.epoch = epoch]
           fact == Fact(scope, title, e)
<1>1. /\ e # NoEntry /\ ~Expired(e, TitleTtl) /\ UNCHANGED fetch
      /\ call' = [call EXCEPT ![c] = new]
  BY DEF AnswerFromTitleCache, Fresh
<1>2. scope \in Scopes
  BY ScopeLemma
<1>3. e \in Resolutions
  BY <1>1, <1>2, Typed DEF MapInv, Inv
<1>4. fact \in Known
  <2> DEFINE key == <<scope, title>>
  <2>1. key \in TitleKeys /\ key[1] = scope /\ key[2] = title
    BY <1>2 DEF TitleKeys
  <2>2. frameworkPackageIdCache[key] = e
    OBVIOUS
  <2> HIDE DEF key, e, scope
  <2> QED
    BY <1>1, <2>1, <2>2 DEF Known
<1> HIDE DEF e
<1>5. /\ fact.scope = scope /\ fact.title = title /\ fact.packageId = e.packageId
      /\ now - fact.at < TitleTtl
  BY <1>1, <1>3, TtlAssumption, LookupBoundAssumption
     DEF Resolutions, Expired, Fact, MapInv, Inv, TypeOK
<1>6. /\ new.pc = "answered" /\ new.config = config /\ new.title = title
      /\ new.answer = "packageId" /\ new.packageId = {e.packageId}
      /\ new.fromListing = FALSE
  BY DEF NoCall
<1> HIDE DEF new
<1>7. call'[c] = new /\ \A d \in Callers \ {c} : call'[d] = call[d]
  BY <1>1 DEF MapInv, Inv, TypeOK
<1>8. NoFetch = IF call'[c].pc = "waiting" \/ call'[c].fromListing
                THEN call'[c].fetch ELSE NoFetch
  BY <1>6, <1>7
<1>9. Promised!Ask(c, CaseCacheScope(config), title, NoFetch, "packageId", {e.packageId})
  BY <1>6, <1>7, <1>8, AskMaps
<1>10. [g \in Fetches |-> ListingOf(g)]' = [g \in Fetches |-> ListingOf(g)]
  BY <1>1, SameListings
<1> HIDE DEF fact
<1> QED
  BY <1>4, <1>5, <1>9, <1>10 DEF Promised!Recall

LEMMA LookupMaps ==
    ASSUME NEW c \in Callers, MapInv, ResolveFrameworkPackageId(c)
    PROVE  Promised!Lookup(c)
<1>1. /\ call[c].pc # "waiting"
      /\ UNCHANGED <<frameworkPackageIdCache, frameworkListingCache, now, epoch>>
  BY DEF ResolveFrameworkPackageId
<1>2. PICK config \in Configs, title \in Titles :
          \/ AnswerFromTitleCache(c, config, title)
          \/ UseSnapshot(c, config, title)
          \/ JoinListing(c, config, title)
          \/ \E f \in Fetches : StartListing(c, config, title, f)
  BY DEF ResolveFrameworkPackageId
<1> DEFINE scope == CaseCacheScope(config)
<1>3. scope \in Scopes
  BY ScopeLemma
<1>4. ~Promised!Waits(c)
  BY <1>1 DEF Promised!Waits, LookupOf, MapInv, ConsultedIsAnswered
<1>5. Known' = Known
  BY <1>1, SameKnown
<1>6. \/ Promised!Recall(c, scope, title)
      \/ \E l \in Fetches : /\ Promised!Ask(c, scope, title, l, "none", {})
                            /\ \/ Promised!Begin(c, scope, l)
                               \/ Promised!Share(scope, l)
                               \/ Promised!Reuse(scope, l)
  <2>1. CASE AnswerFromTitleCache(c, config, title)
    BY <1>1, <2>1, TitleCacheMaps
  <2>2. CASE UseSnapshot(c, config, title)
    BY <1>1, <2>2, SnapshotMaps
  <2>3. CASE JoinListing(c, config, title)
    BY <1>1, <2>3, JoinMaps
  <2>4. ASSUME NEW f \in Fetches, StartListing(c, config, title, f)
        PROVE  Promised!Ask(c, scope, title, f, "none", {}) /\ Promised!Begin(c, scope, f)
    BY <1>1, <2>4, StartMaps
  <2> QED
    BY <1>2, <2>1, <2>2, <2>3, <2>4
<1> HIDE DEF scope
<1> QED
  BY <1>1, <1>3, <1>4, <1>5, <1>6 DEF Promised!Lookup

\* A listing that arrives, or fails, settles what its lookups will be told.
LEMMA SettleMaps ==
    ASSUME NEW f \in Fetches, NEW ok \in BOOLEAN, NEW byTitle \in Listings, MapInv,
           Settle(f, ok, byTitle), ok \/ byTitle = [t \in Titles |-> {}]
    PROVE  Promised!Get(f)
<1> DEFINE got == IF ok THEN "listed" ELSE "failed"
<1>1. /\ fetch[f].stage = "listing"
      /\ fetch' = [fetch EXCEPT ![f].stage = "settled", ![f].ok = ok, ![f].byTitle = byTitle]
      /\ UNCHANGED <<frameworkPackageIdCache, call, now, epoch>>
  BY DEF Settle
<1>2. /\ fetch'[f].stage = "settled" /\ fetch'[f].config = fetch[f].config
      /\ fetch'[f].byTitle = byTitle /\ fetch'[f].epoch = fetch[f].epoch
      /\ \A g \in Fetches \ {f} : fetch'[g] = fetch[g]
  BY <1>1 DEF MapInv, Inv, TypeOK, FetchRecords
<1>3. fetch'[f].ok <=> ok
  BY <1>1 DEF MapInv, Inv, TypeOK, FetchRecords
<1>4. /\ ListingOf(f).running /\ ListingOf(f).got = "none"
      /\ ListingOf(f).scope = Scope(f) /\ ListingOf(f).epoch = fetch[f].epoch
      /\ ListingOf(f).byTitle = [t \in Titles |-> {}]
  <2>1. fetch[f].byTitle = [t \in Titles |-> {}]
    BY <1>1 DEF MapInv, EmptyUntilListed
  <2>2. InProgress(f) /\ Got(f) = "none"
    BY <1>1 DEF InProgress, Got
  <2> QED
    BY <2>1, <2>2 DEF ListingOf
<1>5. ListingOf(f)' = Promised!Becomes(f, TRUE, got, byTitle, {})
  <2>1. /\ Scope(f)' = Scope(f) /\ InProgress(f)' = TRUE
        /\ Got(f)' = got /\ Kept(f)' = {}
    BY <1>2, <1>3 DEF Scope, CaseCacheScope, InProgress, Got, Kept
  <2>2. ListingOf(f)' = [scope |-> Scope(f)', running |-> InProgress(f)', got |-> Got(f)',
                         byTitle |-> fetch'[f].byTitle, kept |-> Kept(f)',
                         epoch |-> fetch'[f].epoch]
    BY DEF ListingOf
  <2> HIDE DEF got
  <2> QED
    BY <1>2, <1>4, <2>1, <2>2, Zenon DEF Promised!Becomes
<1>6. /\ [g \in Fetches |-> ListingOf(g)]' =
             [[g \in Fetches |-> ListingOf(g)] EXCEPT ![f] =
                 Promised!Becomes(f, TRUE, got, byTitle, {})]
      /\ [d \in Callers |-> LookupOf(d)]' = [d \in Callers |-> LookupOf(d)]
      /\ Known' = Known
  BY <1>1, <1>2, <1>5, OneListing, SameLookups, SameKnown
<1>7. CASE ok
  <2>1. got = "listed" /\ byTitle \in [Titles -> SUBSET PackageIds]
    BY <1>7 DEF Listings
  <2> HIDE DEF got
  <2> QED
    BY <1>1, <1>4, <1>6, <2>1 DEF Promised!Get
<1>8. CASE ~ok
  <2>1. got = "failed" /\ byTitle = ListingOf(f).byTitle
    BY <1>4, <1>8
  <2> HIDE DEF got
  <2> QED
    BY <1>1, <1>4, <1>6, <2>1 DEF Promised!Get
<1> QED
  BY <1>7, <1>8

\* The .then callback keeps the listing exactly if it arrived and no clear came in
\* between, which the code asks of the registration instead.
LEMMA ThenMaps ==
    ASSUME NEW f \in Fetches, MapInv, ThenKeepSnapshot(f)
    PROVE  Promised!Keep(f) \/ UNCHANGED Promised!vars
<1> DEFINE keeps == KeepsSnapshot(f)
<1>1. /\ fetch[f].stage = "settled"
      /\ UNCHANGED <<frameworkPackageIdCache, call, now, epoch>>
      /\ fetch' = [fetch EXCEPT ![f].stage = "cached",
                                ![f].cachedAt = IF keeps THEN now ELSE 0]
  BY DEF ThenKeepSnapshot
<1>2. keeps <=> fetch[f].ok /\ fetch[f].epoch = epoch
  <2>1. InProgress(f) /\ Scope(f) \in Scopes
    BY <1>1, Typed DEF InProgress, MapInv, Inv
  <2>2. fetch[f].epoch = epoch => Registered(f)
    BY <2>1 DEF MapInv, Inv, CurrentIsRegistered
  <2>3. Registered(f) => fetch[f].epoch = epoch
    BY <2>1, LookupAssumption DEF Registered, MapInv, Inv, RegisteredIsCurrent
  <2> QED
    BY <2>2, <2>3 DEF KeepsSnapshot
<1>3. /\ fetch'[f].stage = "cached" /\ fetch'[f].config = fetch[f].config
      /\ fetch'[f].byTitle = fetch[f].byTitle /\ fetch'[f].epoch = fetch[f].epoch
      /\ fetch'[f].ok = fetch[f].ok
      /\ keeps => fetch'[f].cachedAt = now
      /\ \A g \in Fetches \ {f} : fetch'[g] = fetch[g]
  BY <1>1 DEF MapInv, Inv, TypeOK
<1> HIDE DEF keeps
<1>4. /\ Got(f) = (IF fetch[f].ok THEN "listed" ELSE "failed")
      /\ ListingOf(f) = [scope |-> Scope(f), running |-> TRUE, got |-> Got(f),
                         byTitle |-> fetch[f].byTitle, kept |-> {},
                         epoch |-> fetch[f].epoch]
  <2>1. InProgress(f) = TRUE /\ Kept(f) = {}
    BY <1>1 DEF InProgress, Kept
  <2>2. Got(f) = (IF fetch[f].ok THEN "listed" ELSE "failed")
    BY <1>1 DEF Got
  <2> QED
    BY <2>1, <2>2, Zenon DEF ListingOf
<1>5. ListingOf(f)' = [scope |-> Scope(f), running |-> TRUE, got |-> Got(f),
                       byTitle |-> fetch[f].byTitle,
                       kept |-> IF keeps THEN {now} ELSE {}, epoch |-> fetch[f].epoch]
  <2>1. /\ Scope(f)' = Scope(f) /\ InProgress(f)' = TRUE /\ Got(f)' = Got(f)
    BY <1>1, <1>3 DEF Scope, CaseCacheScope, InProgress, Got
  <2>2. Kept(f)' = IF keeps THEN {now} ELSE {}
    BY <1>1, <1>2, <1>3 DEF Kept
  <2>3. ListingOf(f)' = [scope |-> Scope(f)', running |-> InProgress(f)', got |-> Got(f)',
                         byTitle |-> fetch'[f].byTitle, kept |-> Kept(f)',
                         epoch |-> fetch'[f].epoch]
    BY DEF ListingOf
  <2> QED
    BY <1>3, <2>1, <2>2, <2>3, Zenon
<1>6. [d \in Callers |-> LookupOf(d)]' = [d \in Callers |-> LookupOf(d)] /\ Known' = Known
  BY <1>1, SameLookups, SameKnown
<1>7. CASE ~keeps
  <2>1. ListingOf(f)' = ListingOf(f)
    BY <1>4, <1>5, <1>7
  <2>2. \A g \in Fetches : ListingOf(g)' = ListingOf(g)
    BY <1>1, <1>3, <2>1, SameListing
  <2>3. [g \in Fetches |-> ListingOf(g)]' = [g \in Fetches |-> ListingOf(g)]
    BY <2>2
  <2> QED
    BY <1>1, <1>6, <2>3 DEF Promised!vars
<1>8. CASE keeps
  <2>1. Got(f) = "listed"
    BY <1>2, <1>4, <1>8
  <2>2. /\ ListingOf(f).running /\ ListingOf(f).got = "listed" /\ ListingOf(f).kept = {}
        /\ ListingOf(f).scope = Scope(f) /\ ListingOf(f).byTitle = fetch[f].byTitle
        /\ ListingOf(f).epoch = fetch[f].epoch
    BY <1>4, <2>1
  <2>3. ListingOf(f)' = Promised!Becomes(f, TRUE, "listed", ListingOf(f).byTitle, {now})
    BY <1>5, <1>8, <2>1, <2>2, Zenon DEF Promised!Becomes
  <2>4. [g \in Fetches |-> ListingOf(g)]' =
            [[g \in Fetches |-> ListingOf(g)] EXCEPT ![f] =
                Promised!Becomes(f, TRUE, "listed", ListingOf(f).byTitle, {now})]
    BY <1>1, <1>3, <2>3, OneListing
  <2> QED
    BY <1>1, <1>6, <2>2, <2>4 DEF Promised!Keep
<1> QED
  BY <1>7, <1>8

LEMMA FinallyMaps ==
    ASSUME NEW f \in Fetches, MapInv, FinallyUnregister(f)
    PROVE  Promised!Finish(f)
<1>1. /\ fetch[f].stage = "cached"
      /\ UNCHANGED <<frameworkPackageIdCache, call, now, epoch>>
      /\ fetch' = [fetch EXCEPT ![f].stage = "done"]
  BY DEF FinallyUnregister
<1>2. /\ fetch'[f].stage = "done" /\ fetch'[f].config = fetch[f].config
      /\ fetch'[f].byTitle = fetch[f].byTitle /\ fetch'[f].epoch = fetch[f].epoch
      /\ fetch'[f].ok = fetch[f].ok /\ fetch'[f].cachedAt = fetch[f].cachedAt
      /\ \A g \in Fetches \ {f} : fetch'[g] = fetch[g]
  BY <1>1 DEF MapInv, Inv, TypeOK
<1>3. /\ ListingOf(f).running /\ ListingOf(f).got # "none"
      /\ ListingOf(f).scope = Scope(f) /\ ListingOf(f).epoch = fetch[f].epoch
      /\ ListingOf(f).got = Got(f) /\ ListingOf(f).kept = Kept(f)
      /\ ListingOf(f).byTitle = fetch[f].byTitle
  <2>1. InProgress(f) /\ Got(f) # "none"
    BY <1>1 DEF InProgress, Got
  <2> QED
    BY <2>1 DEF ListingOf
<1>4. ListingOf(f)' = Promised!Becomes(f, FALSE, ListingOf(f).got, ListingOf(f).byTitle,
                                       ListingOf(f).kept)
  <2>1. InProgress(f)' = FALSE /\ Scope(f)' = Scope(f)
    BY <1>2 DEF InProgress, Scope, CaseCacheScope
  <2>2. Got(f)' = Got(f) /\ Kept(f)' = Kept(f)
    BY <1>1, <1>2 DEF Got, Kept
  <2>3. ListingOf(f)' = [scope |-> Scope(f)', running |-> InProgress(f)', got |-> Got(f)',
                         byTitle |-> fetch'[f].byTitle, kept |-> Kept(f)',
                         epoch |-> fetch'[f].epoch]
    BY DEF ListingOf
  <2> QED
    BY <1>2, <1>3, <2>1, <2>2, <2>3, Zenon DEF Promised!Becomes
<1>5. [g \in Fetches |-> ListingOf(g)]' =
          [[g \in Fetches |-> ListingOf(g)] EXCEPT ![f] =
              Promised!Becomes(f, FALSE, ListingOf(f).got, ListingOf(f).byTitle,
                               ListingOf(f).kept)]
  BY <1>1, <1>2, <1>4, OneListing
<1>6. [d \in Callers |-> LookupOf(d)]' = [d \in Callers |-> LookupOf(d)] /\ Known' = Known
  BY <1>1, SameLookups, SameKnown
<1> QED
  BY <1>1, <1>3, <1>5, <1>6 DEF Promised!Finish

\* One resolution is learnt, and others may be swept.
LEMMA LearntMaps ==
    ASSUME NEW scope \in Scopes, NEW title \in Titles, NEW entry, entry # NoEntry,
           frameworkPackageIdCache'[<<scope, title>>] = entry,
           \A k \in TitleKeys \ {<<scope, title>>} :
               frameworkPackageIdCache'[k] # NoEntry =>
                   frameworkPackageIdCache'[k] = frameworkPackageIdCache[k]
    PROVE  /\ Fact(scope, title, entry) \in Known'
           /\ Known' \subseteq Known \cup {Fact(scope, title, entry)}
<1> DEFINE key == <<scope, title>>
<1>1. key \in TitleKeys /\ key[1] = scope /\ key[2] = title
  BY DEF TitleKeys
<1>2. frameworkPackageIdCache'[key] = entry
  OBVIOUS
<1>3. Known' = {Fact(k[1], k[2], frameworkPackageIdCache'[k]) :
                    k \in {x \in TitleKeys : frameworkPackageIdCache'[x] # NoEntry}}
  BY DEF Known, Fact
<1> HIDE DEF key
<1>4. Fact(scope, title, entry) \in Known'
  BY <1>1, <1>2, <1>3
<1>5. ASSUME NEW x \in Known' PROVE x \in Known \cup {Fact(scope, title, entry)}
  <2>1. PICK k \in TitleKeys : /\ frameworkPackageIdCache'[k] # NoEntry
                              /\ x = Fact(k[1], k[2], frameworkPackageIdCache'[k])
    BY <1>3
  <2>2. CASE k = key
    BY <1>1, <1>2, <2>1, <2>2
  <2>3. CASE k # key
    <3>1. frameworkPackageIdCache'[k] = frameworkPackageIdCache[k]
      BY <2>1, <2>3 DEF key
    <3> QED
      BY <2>1, <3>1 DEF Known
  <2> QED
    BY <2>2, <2>3
<1> QED
  BY <1>4, <1>5

LEMMA ResumeMaps ==
    ASSUME NEW c \in Callers, MapInv, Resume(c)
    PROVE  Promised!Answer(c)
<1> DEFINE f == call[c].fetch
           title == call[c].title
           scope == CaseCacheScope(call[c].config)
           verdict == Promised!Verdict(f, title)
<1>1. /\ call[c].pc = "waiting" /\ (call[c].fresh \/ fetch[f].stage = "done")
      /\ UNCHANGED <<fetch, now, epoch>>
  BY DEF Resume, ListingIsThere
<1>2. GoodCall(c)
  BY DEF MapInv, Inv, CallsAreGood
<1>3. f \in Fetches /\ f # NoFetch /\ fetch[f].stage \in {"cached", "done"}
  BY <1>1, <1>2, LookupAssumption DEF GoodCall, Frozen
<1>4. call[c].answer = "none" /\ call[c].config \in Configs /\ title \in Titles
  BY <1>1, <1>2, Typed DEF GoodCall, MapInv, Inv
<1>5. scope \in Scopes
  BY <1>4, ScopeLemma
<1>6. Matches(c) = fetch[f].byTitle[title] /\ Matches(c) \in SUBSET PackageIds
  <2>1. fetch[f].byTitle \in Listings
    BY <1>3 DEF MapInv, Inv, TypeOK, FetchRecords
  <2> QED
    BY <1>4, <2>1 DEF Matches, Listings
<1>7. IsFiniteSet(Matches(c))
  BY <1>6, LookupAssumption, FS_Subset
<1>8. /\ LookupOf(c).scope = scope /\ LookupOf(c).title = title /\ LookupOf(c).bound = f
      /\ LookupOf(c).answer = "none"
  BY <1>1, <1>4 DEF LookupOf
<1>9. /\ ListingOf(f).got = Got(f) /\ ListingOf(f).byTitle[title] = Matches(c)
      /\ Got(f) = IF fetch[f].ok THEN "listed" ELSE "failed"
  BY <1>3, <1>6 DEF ListingOf, Got
<1>10. ListingOf(f).got # "none"
  BY <1>9
<1>11. verdict = IF ~fetch[f].ok THEN "failed"
                 ELSE IF Matches(c) = {} THEN "notFound"
                 ELSE IF \E id \in PackageIds : Matches(c) = {id} THEN "packageId"
                 ELSE "ambiguous"
  BY <1>3, <1>9 DEF Promised!Verdict
<1>12. ASSUME NEW answer \in {"packageId", "notFound", "ambiguous", "failed"},
              NEW ids \in SUBSET PackageIds, Answer(c, answer, ids)
       PROVE  Promised!Ask(c, scope, title, f, answer, ids)
  <2>1. /\ \A d \in Callers \ {c} : call'[d] = call[d]
        /\ call'[c].answer = answer /\ call'[c].packageId = ids /\ call'[c].fetch = f
        /\ call'[c].config = call[c].config /\ call'[c].title = title
        /\ call'[c].fromListing = TRUE
    BY <1>12, AnswerLemma DEF MapInv
  <2> HIDE DEF f, title
  <2>2. f = IF call'[c].pc = "waiting" \/ call'[c].fromListing
            THEN call'[c].fetch ELSE NoFetch
    BY <2>1
  <2> QED
    BY <2>1, <2>2, AskMaps
<1>13. [g \in Fetches |-> ListingOf(g)]' = [g \in Fetches |-> ListingOf(g)]
  BY <1>1, SameListings
<1> HIDE DEF f, title, scope, verdict
<1>14. ASSUME UNCHANGED frameworkPackageIdCache, verdict # "packageId",
              Promised!Ask(c, scope, title, f, verdict, {})
       PROVE  Promised!Answer(c)
  <2>1. Known' = Known
    BY <1>14, SameKnown
  <2> QED
    BY <1>1, <1>3, <1>8, <1>10, <1>13, <1>14, <2>1
       DEF Promised!Answer, Promised!Waits, verdict
<1>15. CASE FailLookup(c)
  <2>1. verdict = "failed" /\ UNCHANGED frameworkPackageIdCache
    BY <1>11, <1>15 DEF FailLookup, f
  <2>2. Promised!Ask(c, scope, title, f, "failed", {})
    BY <1>12, <1>15 DEF FailLookup
  <2> QED
    BY <1>14, <2>1, <2>2
<1>16. CASE NotFound(c)
  <2>1. verdict = "notFound" /\ UNCHANGED frameworkPackageIdCache
    BY <1>11, <1>16 DEF NotFound, f
  <2>2. Promised!Ask(c, scope, title, f, "notFound", {})
    BY <1>12, <1>16 DEF NotFound
  <2> QED
    BY <1>14, <2>1, <2>2
<1>17. CASE Ambiguous(c)
  <2>1. Matches(c) # {}
    BY <1>17, FS_EmptySet DEF Ambiguous
  <2>2. ASSUME NEW id \in PackageIds, Matches(c) = {id} PROVE FALSE
    <3>1. Cardinality(Matches(c)) = 1
      BY <2>2, FS_Singleton
    <3> QED
      BY <1>17, <3>1 DEF Ambiguous
  <2>3. verdict = "ambiguous" /\ UNCHANGED frameworkPackageIdCache
    BY <1>11, <1>17, <2>1, <2>2 DEF Ambiguous, f
  <2>4. Promised!Ask(c, scope, title, f, "ambiguous", {})
    BY <1>12, <1>17 DEF Ambiguous
  <2> QED
    BY <1>14, <2>3, <2>4
<1>18. CASE Resolved(c)
  <2> DEFINE entry == [packageId |-> CHOOSE id \in Matches(c) : TRUE, fetch |-> f,
                       cachedAt |-> now]
             key == <<scope, title>>
             pruned == PruneExpired(frameworkPackageIdCache, TitleTtl)
             learnt == [scope : {scope}, title : {title}, packageId : Matches(c),
                        at : {now}]
  <2>1. /\ fetch[f].ok /\ Cardinality(Matches(c)) = 1
        /\ Answer(c, "packageId", Matches(c))
        /\ frameworkPackageIdCache' = [pruned EXCEPT ![key] = entry]
    BY <1>18 DEF Resolved, f, scope, title
  <2>2. PICK id \in PackageIds : Matches(c) = {id}
    BY <1>6, <1>7, <2>1, FS_Singleton
  <2>3. /\ verdict = "packageId" /\ Matches(c) # {}
    BY <1>11, <2>1, <2>2
  <2>4. Promised!Ask(c, scope, title, f, "packageId", Matches(c))
    BY <1>6, <1>12, <2>1
  <2>5. /\ entry.packageId = id /\ entry.cachedAt = now /\ entry \in Resolutions
        /\ key \in TitleKeys
    <3>1. (CHOOSE x \in Matches(c) : TRUE) = id
      BY <2>2
    <3> QED
      BY <1>3, <1>4, <1>5, <3>1 DEF Resolutions, TitleKeys, MapInv, Inv, TypeOK, title
  <2>6. entry # NoEntry
    BY <2>5, LookupAssumption
  <2>7. /\ pruned \in [TitleKeys -> Resolutions \cup {NoEntry}]
        /\ \A k \in TitleKeys : pruned[k] # NoEntry => pruned[k] = frameworkPackageIdCache[k]
    <3>1. frameworkPackageIdCache \in [TitleKeys -> Resolutions \cup {NoEntry}]
      BY DEF MapInv, Inv, TypeOK
    <3> QED
      BY <3>1, PruneLemma
  <2> HIDE DEF entry, pruned
  <2>8. /\ frameworkPackageIdCache'[<<scope, title>>] = entry
        /\ \A k \in TitleKeys \ {<<scope, title>>} :
              frameworkPackageIdCache'[k] # NoEntry =>
                  frameworkPackageIdCache'[k] = frameworkPackageIdCache[k]
    BY <2>1, <2>5, <2>7
  <2>9. learnt = {Fact(scope, title, entry)}
    <3> DEFINE fact == [scope |-> scope, title |-> title, packageId |-> id, at |-> now]
    <3>1. Fact(scope, title, entry) = fact
      BY <2>5 DEF Fact
    <3>2. learnt = [scope : {scope}, title : {title}, packageId : {id}, at : {now}]
      BY <2>2
    <3>3. fact \in learnt
      BY <3>2
    <3>4. \A x \in learnt : x = fact
      BY <3>2
    <3> HIDE DEF fact, learnt
    <3> QED
      BY <3>1, <3>3, <3>4
  <2>10. learnt \subseteq Known' /\ Known' \subseteq Known \cup learnt
    <3>1. title \in Titles
      BY <1>4 DEF title
    <3>2. /\ Fact(scope, title, entry) \in Known'
          /\ Known' \subseteq Known \cup {Fact(scope, title, entry)}
      BY <1>5, <2>6, <2>8, <3>1, LearntMaps
    <3> QED
      BY <2>9, <3>2
  <2> HIDE DEF key
  <2> QED
    BY <1>1, <1>3, <1>8, <1>9, <1>10, <1>13, <2>3, <2>4, <2>10
       DEF Promised!Answer, Promised!Waits, verdict
<1> QED
  BY <1>15, <1>16, <1>17, <1>18 DEF Resume

\* No listing is of an epoch that has not begun, so that none is kept right after
\* a clear.
LEMMA ClearMaps ==
    ASSUME MapInv, ClearFrameworkPackageIdCache
    PROVE  Promised!Clear
<1>1. epoch' = epoch + 1 /\ UNCHANGED <<fetch, call, now>>
  BY DEF ClearFrameworkPackageIdCache
<1>2. ASSUME NEW f \in Fetches
      PROVE  ListingOf(f)' = Promised!Becomes(f, ListingOf(f).running, ListingOf(f).got,
                                              ListingOf(f).byTitle, {})
  <2>1. fetch[f].epoch # epoch'
    BY <1>1, Typed DEF MapInv, Inv, NoFutureFetch
  <2>2. Kept(f)' = {}
    BY <1>1, <2>1 DEF Kept
  <2>3. InProgress(f)' = InProgress(f) /\ Scope(f)' = Scope(f) /\ Got(f)' = Got(f)
    BY <1>1 DEF InProgress, Scope, CaseCacheScope, Got
  <2>4. ListingOf(f)' = [scope |-> Scope(f)', running |-> InProgress(f)', got |-> Got(f)',
                         byTitle |-> fetch'[f].byTitle, kept |-> Kept(f)',
                         epoch |-> fetch'[f].epoch]
    BY DEF ListingOf
  <2>5. /\ ListingOf(f).scope = Scope(f) /\ ListingOf(f).epoch = fetch[f].epoch
        /\ ListingOf(f).got = Got(f) /\ ListingOf(f).byTitle = fetch[f].byTitle
    BY DEF ListingOf
  <2>6. ListingOf(f).running = InProgress(f)
    BY DEF ListingOf
  <2> QED
    BY <1>1, <2>2, <2>3, <2>4, <2>5, <2>6, Zenon DEF Promised!Becomes
<1>3. [d \in Callers |-> LookupOf(d)]' = [d \in Callers |-> LookupOf(d)]
  BY <1>1, SameLookups
<1>4. Known' = {}
  BY DEF ClearFrameworkPackageIdCache, Known
<1> QED
  BY <1>1, <1>2, <1>3, <1>4 DEF Promised!Clear

LEMMA IdleStepMaps ==
    ASSUME MapInv, Tick \/ UNCHANGED vars
    PROVE  Promised!Advance \/ UNCHANGED Promised!vars
<1>1. /\ UNCHANGED <<frameworkPackageIdCache, fetch, call, epoch>>
      /\ now' = now + 1 \/ UNCHANGED now
  BY DEF Tick, vars
<1>2. /\ [f \in Fetches |-> ListingOf(f)]' = [f \in Fetches |-> ListingOf(f)]
      /\ [c \in Callers |-> LookupOf(c)]' = [c \in Callers |-> LookupOf(c)]
      /\ Known' = Known
  BY <1>1, SameListings, SameLookups, SameKnown
<1>3. now' > now \/ UNCHANGED now
  BY <1>1, Typed DEF MapInv, Inv
<1> QED
  BY <1>1, <1>2, <1>3 DEF Promised!Advance, Promised!vars

\* Every step is a step of FrameworkDirectory, or leaves its variables alone.
LEMMA NextMaps == MapInv /\ [Next]_vars => [Promised!Next]_(Promised!vars)
<1> SUFFICES ASSUME MapInv, [Next]_vars PROVE Promised!Next \/ UNCHANGED Promised!vars
  OBVIOUS
<1>1. ASSUME NEW c \in Callers, ResolveFrameworkPackageId(c) PROVE Promised!Next
  BY <1>1, LookupMaps DEF Promised!Next
<1>2. ASSUME NEW c \in Callers, Resume(c) PROVE Promised!Next
  BY <1>2, ResumeMaps DEF Promised!Next
<1>3. ASSUME NEW f \in Fetches, ListingArrives(f) \/ ListingFails(f) PROVE Promised!Next
  <2>1. [t \in Titles |-> {}] \in Listings
    BY DEF Listings
  <2>2. Promised!Get(f)
    <3>1. CASE ListingArrives(f)
      BY <3>1, SettleMaps DEF ListingArrives
    <3>2. CASE ListingFails(f)
      BY <2>1, <3>2, SettleMaps DEF ListingFails
    <3> QED
      BY <1>3, <3>1, <3>2
  <2> QED
    BY <2>2 DEF Promised!Next
<1>4. ASSUME NEW f \in Fetches, ThenKeepSnapshot(f)
      PROVE  Promised!Next \/ UNCHANGED Promised!vars
  BY <1>4, ThenMaps DEF Promised!Next
<1>5. ASSUME NEW f \in Fetches, FinallyUnregister(f) PROVE Promised!Next
  BY <1>5, FinallyMaps DEF Promised!Next
<1>6. CASE ClearFrameworkPackageIdCache
  BY <1>6, ClearMaps DEF Promised!Next
<1>7. CASE Tick \/ UNCHANGED vars
  BY <1>7, IdleStepMaps DEF Promised!Next
<1> QED
  BY <1>1, <1>2, <1>3, <1>4, <1>5, <1>6, <1>7 DEF Next

\* Resolving titles, with its three Maps, its registrations, its sweeping and the
\* callbacks that race a clear, does no more than FrameworkDirectory promises:
\* every lookup is answered by what has been known of its title for less than
\* TitleTtl, or by one listing of its own scope begun since the last clear when it
\* was made, one that was running or had been kept less than ListingTtl ago.
THEOREM ImplementsDirectory == Spec => AnswersAsPromised
<1>1. Init => MapInv
  BY InitMapInv
<1>2. MapInv /\ [Next]_vars => MapInv'
  BY NextMapInv
<1>3. Init => Promised!Init
  BY InitMaps
<1>4. MapInv /\ [Next]_vars => [Promised!Next]_(Promised!vars)
  BY NextMaps
<1> QED
  BY <1>1, <1>2, <1>3, <1>4, PTL DEF Spec, AnswersAsPromised, Promised!Spec
================================================================================
