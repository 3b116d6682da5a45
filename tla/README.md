# did-graphql, verified

TLA+ models of the two packages of this repository — `client/` (a GraphQL client that invokes a
delegated ZCAP capability) and `server/` (the gate that checks the invocation, and the CASE module
that reads competency frameworks from an upstream server) — with the TLC runs that check them and
the TLAPS proofs that hold for every value of their parameters.

## 1. Inventory

The system is JavaScript: one callback runs at a time, so state changes only between two points
where a callback may end (`await`, `.then`, `.finally`, a timer). Concurrency is the interleaving
of such callbacks; nothing is persisted, so there is no crash recovery to model.

| Component | State it keeps | Operations | What makes it correct |
|---|---|---|---|
| CASE package cache, `server/src/case/client.ts` | `packageCache` (LRU Map), `packageInFlight` (shared fetches), both process-wide | `getCFPackage`/`getCasePackage`, `getCFItemFromCachedPackage`, `clearCasePackageCache`; the callbacks of a fetch; the timer of `upstream` | one request per package; nothing crosses a clear or a credential; a hit is within the reader's TTL; LRU order; every caller is answered |
| CASE title lookup, `server/src/case/queries.ts:1-152` | `frameworkPackageIdCache`, `frameworkListingCache`, `frameworkListingInFlight` | `resolveFrameworkPackageId`, `clearFrameworkPackageIdCache`, the listing fetch and its pages | one listing at a time; no answer from before a clear; ambiguity is never resolved silently; caches stay bounded |
| CASE paging, `queries.ts:154-257` | none | `getCFItemTypeCounts`, `getCFItems`, `getCFAssociations` | a page is the right part of the matching rows; counts add up |
| CASE resolvers, `resolvers.ts` | none | authorize, then one of the above | no field without the gate |
| Client, `client/src/client.ts`, `validate.ts` | `capability`, `endpoint` (swapped together), options; the encoded header per capability object | constructor, `setCapability`, `query`, `checkAuth` | a capability goes only to its own, accepted endpoint; a proof matches its request; expiry; every request settles |
| Invocation gate, `server/src/zcap.ts`, `localVerify.ts`, `httpSignature.ts` | none (clock, configuration) | `checkAuthOnly`, `checkInvocation`, `requireAuthorizedQuery` | whatever is executed was granted and signed, in time; an honest request passes |
| Introspection guard, `introspection.ts` | none | `containsSchemaIntrospection`, `checkIntrospection` | no introspection outside the policy, wherever it hides in the document |
| Module composition, `modules.ts`, `auth.ts` | none after start-up | `mergeResolvers`, `composeModules`, `attachResolvers` | no resolver is shadowed, whatever the order |
| Invocation builder, `client/src/invocation.ts`, `httpSignature.ts` | none | the unsigned invocation, its hash, the finished proof; `signRequest` | what is signed is what is sent |
| Example host, `examples/case-manager/server.ts` | the request being served | decode, verify, guard, execute | the gate is asked before anything gated is disclosed |
| Canonical JSON, Ed25519, did:key, problem documents, entry points | none | — | cryptography, wording or wiring: not modelled |

Interactions: a host calls `decodeInvocationHeader` and runs the query with `zcapConfig`, `payload`
and `rawQuery` in the context; each CASE field calls `requireAuthorizedQuery` and then a query of
`queries.ts`, which awaits the title lookup and then the package cache; association endpoints peek
into the package cache and fall back to a single-item request. The client's `query()` calls an
injected signer, then `fetch`. Both caches are shared by all requests of the process and
partitioned by server and credential (`caseCacheScope`).

Hard behaviours: callers that share one promise; callbacks of fetches that outlived a clear; TTLs
that differ per reader of one shared Map; `finally` handlers that might undo somebody else's
registration; a server that stalls; values read before an `await` and used after it, above all
`setCapability()` during signing; a timer and a caller's own AbortSignal. `PROJECT.json` lists the
hazards line by line with the properties that watch them.

## 2. Modules

| Module | Models | Extended by |
|---|---|---|
| `PackageCache` | the package cache, `case/client.ts` | `MCPackageCache`, `PackageCacheProofs` |
| `ReadThrough` | no code: what a cache of upstream reads promises; instantiated in `PackageCache` | — |
| `FrameworkLookup` | the title lookup, `case/queries.ts` | `MCFrameworkLookup`, `FrameworkLookupProofs` |
| `FrameworkDirectory` | no code: what resolving titles promises; instantiated in `FrameworkLookup` | — |
| `ListingPager` | reading one listing page by page, `listAllFrameworks` over `getCFDocuments` | `MCListingPager`, `ListingPagerProofs` |
| `CaseQueries` | queries within a framework, `case/queries.ts`, and the endpoint resolver | `MCCaseQueries`, `CaseQueriesProofs` |
| `DidGraphQLClient` | the client, `client/src/client.ts` and `validate.ts` | `MCDidGraphQLClient`, `DidGraphQLClientProofs`, `EndToEnd` |
| `GraphQLDocuments` | external: documents as trees of selections, and what executing one selects | `AllowedAction` |
| `AllowedAction` | `matchesAllowedAction` and the walk under it, `zcap.ts` | `InvocationGate` |
| `InvocationGate` | `checkAuthOnly`, `checkInvocation`, header decoding, both proofs, freshness | `IntrospectionGuard`, `EndToEnd`, `InvocationGateProofs` |
| `IntrospectionGuard` | `introspection.ts` | `Host` |
| `ModuleComposition` | `mergeResolvers` and `attachResolvers`, `modules.ts` | `Host` |
| `Host` | a server: start-up, then a request through guard, gates and execution | `MCHost`, `HostProofs` |
| `EndToEnd` | composition: client, signer, network, and a gate at every endpoint | `MCEndToEnd`, `EndToEndProofs` |

Definitions keep the source's names; `PROJECT.json` maps each of them to its lines. Operators called
`Bug...` are deliberate mistakes, placed before the definition they replace: each property of a
passing run fails when one of them is put in. They are not part of any specification.

### PackageCache

`packageCache` is a sequence of entries, the Map's insertion order; `packageInFlight` maps a key to
the registered promise. `fetch` says what became of every promise: `sent` and `reading` (awaiting
headers, then the body, both under one timer), `settled` (the `.then` is due), `cached` (the
`.finally` is due), `done`. `call` holds every caller's latest call. The code between two suspension
points is one action:

- `FetchCFPackage`: `fetchCFPackage` up to its return — the touch, which an expired entry gets too,
  then `Hit`, `Join` or `Start`. `GetCFPackage` and `GetCFItemFromCachedPackage` are its callers; the
  latter reads the clock twice, as the code does, and the clock may advance in between.
- `ReceiveHeaders`, `ReceiveNotFound`, `ReadPackage`, `FailRequest`, `TimeOut`: `upstream` and
  `fetchJson`. A body may stall for ever.
- `ThenCache`, `FinallyUnregister`: the two callbacks, with their "still the registered fetch"
  guards. They are separate steps, since other callbacks may run between them.
- `Resume`: a caller's continuation; `Clear`; `Tick`.

A promise object is allocated again once nothing refers to it, so the model has no bound on how many
fetches happen. `epoch` (clears so far) and `recency` (keys in order of their last touch) are history
variables that only properties read. A package is represented by the fetch that brought it.

`ReadThrough` is the cache with no Map, LRU order, promise or timer: every call is bound to one read
of what it demands, begun since the last clear — a read begun for it, one still running, or one kept
less than the caller's TTL ago. `PackageCache!ReadsThrough` is its specification under a refinement
mapping: a fetch is a read, running until its `.finally`, and kept from its `.then` until the next
clear, whatever the Map does with the entry. `Hit` maps to `Reuse`, `Join` to `Share`, `Start` to
`Begin`, the ends of a request to `Get`, `ThenCache` to `Keep` or a stutter, `FinallyUnregister` to
`Finish`, `Resume` to `Answer`, `Clear` to `Clear`, `Tick` to `Advance`, and `ReceiveHeaders` to a
stutter.

### FrameworkLookup, ListingPager

The three Maps are functions to an entry or `NoEntry`. `resolveFrameworkPackageId` is split at its
one `await`: `ResolveFrameworkPackageId` (title hit, snapshot, join or start) and `Resume` (failed,
not found, ambiguous, resolved and cached). A snapshot that is already there is awaited as well, so
other callbacks may run before the lookup goes on; the model has that step. A listing arrives whole,
as any assignment of identifiers to titles, or fails; it may differ from the one before.

`FrameworkDirectory` is the lookup with no Map, promise or sweep: every lookup is answered by what is
known of its title for less than `TitleTtl`, or by one listing of its own scope begun since the last
clear when it was made — begun for it, still running, or kept less than `ListingTtl` ago. A clear
forgets everything, but a lookup under way may make its answer known afterwards, as in the code.
`FrameworkLookup!AnswersAsPromised` is its specification under a refinement mapping: a listing runs
until its `.finally` and is kept from its `.then` until the next clear, whatever the Map does with
the snapshot; what is known is what the title cache holds. `ResolveFrameworkPackageId` maps to
`Lookup` (`Recall`, `Reuse`, `Share` or `Begin`), `ListingArrives` and `ListingFails` to `Get`,
`ThenKeepSnapshot` to `Keep` or a stutter, `FinallyUnregister` to `Finish`, `Resume` to `Answer`,
`ClearFrameworkPackageIdCache` to `Clear` and `Tick` to `Advance`.

How a listing is put together is `ListingPager`: `ReceivePage` is one round of the loop, with its three ways
to stop — an empty page, a page with nothing new, the stated total — and the hard stop on pages. The
server may cap pages, ignore the offset, state no total, the true one or any number, and publish and
withdraw frameworks between pages, anywhere in its order (`Publish`, `Withdraw`); a page may never
come (`GiveUp` is the timer or an error). `shrunk` and `shifted` are history variables: whether one
was withdrawn since the listing began, and whether one was put in before the offset.

### CaseQueries

One client asks a query and pages through it (`Ask`, `NextPage`) while packages are republished and
age out of the cache; it then resolves an endpoint of an association it was given (`ResolveEndpoint`,
`AnswerLive`). Slices have JavaScript's signed arithmetic (`SliceIndex`). Reading a package is one
step here, and so is resolving a title: `PackageCache` and `FrameworkLookup` have their steps.

### DidGraphQLClient

`capability` and `endpoint` are the object's fields; `mode` and `expectedTarget` are options fixed by
the constructor. `Query` is `query()` up to the signer's `await`, `SignerAnswers` the rest up to
`fetch`: on the HTTP signature path it sends the header encoded before the `await`, on the embedded
path one built from the capability held then, and in both cases to the endpoint held then.
Validation is abstracted to what later steps depend on: fields that validate (`WellFormed`), the
canonical form of the target, the transport and host rules (`AllowedUrls`), the pin, and expiry.
Encoding is abstracted to header sizes. Cancellation and the timer only set a flag, and the fetch
rejects later: a `fetchImpl` may be slow to.

### The gate: GraphQLDocuments, AllowedAction, InvocationGate

A document is its text, its text without white space, and the tree of its selections as a set of
label paths; what an execution selects (`Selects`) is defined on such trees, with aliases, inline and
named fragments. `MatchesAllowedAction` is the code's walk over field names, `Covered` the reference:
some granted operation selects all that this one does. `SameTextSameTree` is the assumption under
which comparing texts is right; a string literal or a comment whose white space differs would break
it, and such documents are not considered.

The gate keeps no state, so `CheckInvocation` is an operator of the configuration, the payload, the
query, the HTTP request (or none) and the time. Each list of checks is in the code's order and yields
its first problem. Hashes and Ed25519 are perfect: a signature is the key that made it and what it
was made over. `checkAuthOnly` is in front of every invocation and also the introspection guard's
policy `"authorized"`.

### Host

`MergeNext` is one turn of the loop that merges the modules' resolver maps, in the order they are
listed, or fails; it runs to its end before anything else can happen in the program, and is a step
per turn here so that what is merged so far can be an invariant. `StartUp` wires the result onto the
schema. A request is then decoded, its capability's own proof verified as the example
host does (the *last* of a legacy chain, where the gate reads the first), the guard asked, and one
operation of the document executed, field by field in any order, the clock moving between fields. A
gated field calls `CheckInvocation` without the HTTP request, as `requireAuthorizedQuery` does.
`zcapConfig` is what the host handed to `configureZcap`: any of `Configs`, verifying or in
`unsafeMode`, and in `unsafeMode` with an expected target or, as in the example, with none.

### EndToEnd

`DidGraphQLClient` with the signer's clock, the wire and a gate per endpoint. `Ask` is `query()` with
a document; `Edit` is the caller reusing its request object while the signer is asked; `ReadClock`
dates the signature; `ReceiveSignature` builds the request and posts it; `Deliver` delivers any
request ever sent, late, again, or never, to a gate whose clock is `drift` ahead. A query is its text:
variables, which the embedded invocation does not sign, are not modelled. Responses and
cancellation are left to `DidGraphQLClient`: no request depends on them, and a call sends at most
one. Both ways of signing round `created` down to whole seconds. `checkAuth` sends nothing new and is
left out.

## 3. Runs

| Run | Instance | Shows |
|---|---|---|
| `package_cache_race` | 2 callers, 2 credentials, 2 packages, 3 promises, clock 0..1, 1 clear | `TypeOK`, `SingleFlight`, `ClearBarrier`, `OwnCredentialOnly`, `NoDeadRegistration`, `LruInclusion`, `StoredWithinCap` |
| `package_cache_live` | 2 callers, 2 TTLs over one credential, 1 package, 2 promises, clock 0..1, 1 clear, under fairness | `HitWithinTtl`, `EveryCallAnswered`, the refinement `ReadsThrough`; deadlock is checked |
| `framework_lookup_race` | 2 callers, 2 credentials, 1 title, 2 identifiers, 3 promises, clock 0..1, TTLs 1, 1 clear | `OneListingAtATime`, `ListingClearBarrier`, `OwnListingOnly`, `SnapshotWithinTtl`, `AnswerIsUnambiguous`, `SweptOnInsert`, the refinement `AnswersAsPromised` |
| `framework_lookup_clear` | 2 callers, 1 credential | violates `TitleClearBarrier` (section 6) |
| `listing_pager` | 3 frameworks, page size 2, 3 pages, 5 kinds of totals, under fairness | `TypeOK`, `ListingIsComplete`, `RequestsPayOff`, `ListingEnds` |
| `case_queries` | a package of 4 items and 3 associations that may lose one each, a crosswalk that may be withdrawn, 15 queries, limits up to 2, default 1 | `PagingIsExact`, `CountsAgree`, `EndpointItems`; deadlock is checked |
| `client_race` | 2 calls, 4 modes, 5 capabilities, 2 pins, clock 0..1, under fairness | `TypeOK`, `RequestIsConsistent`, `RequestsStayPinned`, `ExpiredNeverInvoked`, `SentRequestSettles`; deadlock is checked |
| `client_http_swap`, `client_embedded_swap` | 1 call, one signing mode | violate `CapabilityMeetsItsTarget`, `ProofVouchesForRequest` (section 6) |
| `host_requests` | documents of up to 3 of 12 pieces, 7 module orders, 3 configurations, 3 policies, 5 new and 3 old headers, clock 0..1 | `TypeOK`, `DisclosedWasGranted`, `IntrospectionWithinPolicy`, `CollisionIsOrderFree`, `NarrowerIsServed`, `UsableHeaderIsUsed` |
| `end_to_end` | 1 call, 3 modes, 5 capabilities, 2 endpoints, 3 spellings, 3 documents, 3 drifts, clock 0..3, 2 ticks to the second | `SystemTypeOK`, `ExecutedAsIntended`, `ExecutedInTime`, `ExecutedWasDelegated`, `HonestIsExecuted` |
| `end_to_end_http` | the same, HTTP signatures, hosts that do not pass the request on | violates `ServersAcceptBoth` (section 6) |

Bounds. Two callers are enough for every race between two calls, two promises for a fetch of before
a clear to meet one of after it; in the race runs a third backs a cached entry meanwhile. Two
credentials on one server make the partition matter; caps 2, 1 and a 0 that means the default make a
store evict one entry or several. A TTL of 1 lets an entry go from fresh to expired, and a TTL of 2
beside it in the package cache makes one expired for one config and fresh for another. The clock, `MaxTime`, and the number of clears,
`MaxClears`, are the only counters and are bounded in the guards; one clear separates before from
after. The client's five capabilities are one for each way validation and sending can go: accepted
for endpoint a, accepted for b in another spelling, too long once an invocation is added, excluded
host, malformed. In `EndToEnd` one call suffices, since calls share nothing but the held capability;
its capabilities are one for another endpoint and with an earlier deadline, one in another spelling,
and two whose own proof must be refused. Two ticks to the second make the rounding of `created` show,
and with a window of one second and drifts of −2, 0 and 1 a request falls before, into and after it.
Three frameworks in pages of two need a second page, and let one be withdrawn before and after it;
three pages are enough for the hard stop to end a listing that is not complete. The documents of
`host_requests` combine any two of the pieces (a second operation, a mutation, an alias, inline and
named fragments one and two steps deep, a fragment that spreads itself, a nested `__typename`), and
any one with the granted selection and a second operation. Its three configurations are the example's,
which expects no target, the same with a target, and one that verifies; of two delegated capabilities
that are alike otherwise, one names that target and one another, so that the last is served by the
first host and by no other. The counters are bounded by `MaxTime`, `MaxClears` and
`MaxPages`; the last is the code's own.

`CHECK_DEADLOCK FALSE` stands where the system may stop: the two race runs of the caches when clock
and clears are used up and every call is answered, the listing when it has ended and the server
changes no more, the host when the response is written, `EndToEnd` when the one call is over and
nothing was sent. Callers and promise objects are interchangeable and reduced by symmetry in the runs
without liveness; identifiers too in `framework_lookup_race`.

Fairness. `PackageCache!Fairness` is weak fairness of the timer and of callbacks that are ready: the
event loop serves its queues in order, and `setTimeout` fires. None is assumed of the CASE server.
`ListingPager!FairSpec` is weak fairness of `GiveUp`, since every page request has its own timer.
`DidGraphQLClient!Fairness` is weak fairness of the timer (set when `timeoutMs > 0`) and of `fetch`
rejecting once its signal is aborted, which the fetch standard requires; none of the signer or the
server, and so `SentRequestSettles` starts at the request, not at `query()`.

## 4. Proofs

The theorems hold for all sets of callers, configs, packages, promises, calls, capabilities, URLs and
documents, all TTLs, caps, windows and drifts, and every bound. They assume only the named `ASSUME`s
of the modules they extend, which TLC evaluates on each instance.

`PackageCacheProofs` proves type correctness, `SingleFlight`, `ClearBarrier`, `OwnCredentialOnly`,
`HitWithinTtl`, `NoDeadRegistration`, `StoredWithinCap` and `LruInclusion`. None of them is inductive alone. The
invariant `Inv` ties the three places where a fetch can be referred to together:

- `CurrentIsRegistered`: a fetch in progress that was started since the last clear is the registered
  one of its key, and `RegisteredIsCurrent`: a registered fetch is in progress, for that key, and of
  the current epoch. Together they give `SingleFlight`, and make the "still the registered fetch"
  guard mean "started since the last clear";
- `NoFutureFetch`: no fetch is newer than the number of clears;
- `EntriesAreGood`: an entry of the Map was brought by a finished fetch of its own key that began
  after the last clear, and carries the time at which that fetch stored it;
- `CallsAreMatched`: a call refers to a fetch of its own key that is not older than the call;
- `HitsAreFresh`: a hit was served within the reader's TTL of that storing time.

Preservation is proved action by action; the lemmas about `RemoveAt`, `Touch`, `Store` and eviction
(uniqueness of keys, where entries come from, lengths) are stated once on sequences. `LruInclusion` has
an invariant of its own, `LruInv`: the touched keys, each listed once, end with the keys of the Map.

Its last part proves `ImplementsReadThrough`: the safety of the abstract cache, step by step along
the mapping of section 2. It takes `Inv` and two facts about what a fetch has to show
for itself at each stage (`OutcomeByStage`) and about calls that wait for none (`IdleIsUnbound`).

`FrameworkLookupProofs` proves type correctness and all seven properties of its run along the same
lines: a listing in progress of the current epoch is the registered one of its partition; a snapshot
is of a settled listing of its own partition begun since the last clear; a lookup waits for, or was
given, a listing of its partition that is not older than the lookup. The seventh is the refinement,
`ImplementsDirectory`, with two more facts: a listing says nothing before it settles
(`EmptyUntilListed`), and a lookup that consulted one has an answer (`ConsultedIsAnswered`). That a
joined or reused listing is of the current epoch, which the directory demands and no guard of the
code tests, is `RegisteredIsCurrent` and `SnapshotsAreGood`.

`ListingPagerProofs` proves type correctness, `ListingIsComplete` and `RequestsPayOff`. While an
orderly server drops nothing, it keeps what it held at the beginning (`BeforeIsKept`), and whatever of
that precedes the offset has been seen (`PassedIsSeen`), since an addition moves frameworks behind the
offset and never before it: an empty page, or a total that is reached, comes only when nothing is left.
For a page with nothing new that is not enough. As long as nothing is put in before the offset, what
has been seen is exactly what precedes it (`SeenIsPrefix`), and no page there can repeat it; once
something is, the page may repeat known frameworks with unknown ones behind it.

`CaseQueriesProofs` proves type correctness and all three properties of its run, for packages of any
size. `Filter` is defined by rank (the n-th position kept), and `RankBijective` makes it the rows that
match, each once, in order (`FilterExact`). `PagingIsExact` follows from `Continues`: what a client of
an unchanged package has is the beginning of those rows, up to its offset, since a page at an offset
within them continues there and is empty only at their end (`PageContinues`, where a positive limit is
needed); `done` comes only at their end. `CountsAgree` is about data: a sum over a set is
whatever satisfies its recursion (`SumIsUnique`, by well-founded sets), and the number of items whose
type is in the set does. `EndpointItems` needs `AllHinted`: every endpoint a client was given names the
package it was resolved to. The assumptions are in `CaseQueries`: packages are sequences of items and
associations, and a query's limit is an integer or absent.

`InvocationGateProofs` proves `MatchedIsCovered`: for documents of any size, what
`matchesAllowedAction` lets through selects no more than a granted operation does. The walk reads
names below root fields and refuses named fragments; the proof shows that without them execution
reaches exactly what is below, which needs that trees are closed under prefixes (`Parsed`). Its other
lemmas say what each sequence of checks has established when it reports no problem.

`HostProofs` proves all six properties of its run. `StartInv`: what is merged so far is the union of
the maps merged so far, no two of which clash, and once the host serves, a field that some module
gates is wired to that gate. `RequestInv`: what the request carries was decoded from its headers, the
guard let it through before execution, a gated field was allowed at the time noted when it was
resolved, and a refusal had a time at which the gate said no. `DisclosedWasGranted` then follows from
`MatchedIsCovered`; `IntrospectionWithinPolicy` from a lemma that execution reaches nothing that the
guard's walk does not (`ExecutionIsTransitive`, fragments of fragments included), and from what the
gate establishes in either mode (`AuthorizedIsGood`), which says nothing of the target where the host
expects none; `NarrowerIsServed` from a lemma that a narrower document passes the subset test, for a
host in `unsafeMode` (verifying, it would also need an invocation). `UsableHeaderIsUsed` is a matter
of `DecodeInvocationHeader`. The assumptions are in `Host`: modules are composed from those that have
resolvers (`HostAssumption`), what a header decodes to is not the value that stands for nothing, and
an expiry that is a date is a number (`HeaderAssumption`), a configuration is in `unsafeMode` or not
(`ConfigAssumption`), documents come from a parser and are parsed alike if equal up to white space
(`DocumentAssumption`), and what they ask for is in the schema (`SchemaAssumption`).

`DidGraphQLClientProofs` proves type correctness, `RequestIsConsistent`, `RequestsStayPinned` and
`ExpiredNeverInvoked`. The strengthening says what is known while a call is being signed: what it
carries and what its signature covers were the held pair when it was made, that pair was pinned, and
the deadline of the capability held *now* is not before the call was made either — since whatever was
swapped in was accepted later. That last part is what makes expiry survive a swap.

`EndToEndProofs` proves type correctness, `ExecutedAsIntended`, `ExecutedInTime`,
`ExecutedWasDelegated` and `HonestIsExecuted` for the composition. The invariant `WireInv` adds to the client's: a call that
is being signed is for what was asked; every request on the wire carries a proof over the query, the
capability and the endpoint it was asked for (`GoodRequest`), though its body, capability and
destination may be others; and an answer is the gate's verdict on such a request (`GoodAnswer`). What
acceptance establishes is in lemmas about the gate (`ChainIsVerified`, `EmbeddedIsVerified`,
`HttpIsVerified`): that proof and request then agree is the argument, and it is why the swaps of
`client_http_swap` and `client_embedded_swap`, which do reach the wire, are never executed. The
assumptions are in `EndToEnd`: the servers verify (`unsafeMode` off) for a target that canonicalises
to where they stand, capabilities have distinct ids, documents are told apart by their text, and are
parsed alike if equal up to white space. `HonestIsExecuted` is the converse: for an honest request
every row of every list of checks passes (`ProofPasses`, `ChainPasses`, `EmbeddedPasses`, `HttpPasses`,
put together in `GateAccepts`). It needs what `Made` says of a signature, that it was made for the
capability and endpoint the caller meant, and two facts of the configuration: a capability whose own
proof is well formed (`Conforms`), and that what the client writes into a request is never one of the
values that stand for a missing or undecodable field (`PresenceAssumption`).

Only model-checked: the liveness properties (`EveryCallAnswered`, `ListingEnds`,
`SentRequestSettles`), which the prover does not do. Every invariant and every action property of the
passing runs is a theorem.

## 5. Not modelled

Canonical JSON, base58, SHA-256 and Ed25519 (taken as perfect), GraphQL parsing and schema text,
header encoding beyond its size and whether it decodes, the encoding cached per capability object,
the deprecated legacy encoding of the client, wording of problem documents and of
`describeInvocationHeader`, entry points, the GraphiQL page, CORS and the demo capability of the
example host. `cfDocument`, `cfPackage` and `cfItem` pass on one upstream answer and keep no state;
what is in front of them is in `Host`. `Date.now()` stepping backwards is excluded: the models' clock
only advances; clocks of client and server may differ by any constant. See `PROJECT.json` for each
part.

## 6. Where the code and its documentation disagree

With a run:

- `framework_lookup_clear`: `clearFrameworkPackageIdCache()` empties the title cache, but a lookup
  that is waiting at that moment stores its resolution afterwards (`queries.ts:129-131`); a later
  lookup is answered from before the clear for up to five minutes. `case/README.md:85` promises that
  nothing leaks, and the listing snapshot is guarded against the same race (`queries.ts:90-92`).
- `client_http_swap`: with `httpSignature`, `setCapability()` during signing sends the old capability
  to the new capability's endpoint (`client.ts:338`, `:294`), against `client.ts:118-119`.
- `client_embedded_swap`: with `invokeCapability`, a swap to a capability of another target while the
  invocation is signed posts to the new target an invocation signed for the URL of the old one
  (`client.ts:376-382`, `:294`), against the intention stated in `client.ts:370-375`.
- `end_to_end_http`: `requireAuthorizedQuery` (`zcap.ts:643`), which every CASE resolver calls, hands
  `checkInvocation` no HTTP request, so a request signed with RFC 9421 is judged by its missing
  embedded invocation and refused; `client/README.md:159` says "Servers accept both."

Noticed while translating, modelled as the code has it:

- A framework that is put in before the offset while a listing is read pushes known ones behind it.
  If the next page holds only those, the loop stops (`queries.ts:56-59`) and misses what follows: of
  [a, b], with [a] read and x put in front, the page at offset 1 of [x, a, b] may be [a]. The comment
  at `queries.ts:57` blames a server that ignores the offset, and `queries.ts:37` wants every page.
- `server/README.md:178` has introspection allowed to a chain "for this `invocationTarget`". In
  `unsafeMode` the target is optional (`zcap.ts:40`, `:527`), and the example host sets none
  (`server.ts:81-84`): there a capability for any endpoint reads the schema.
- `normalizeQuery` collapses line ends as well (`zcap.ts:309-311`), so a granted document with a `#`
  comment and one whose comment ends earlier have one text, and the exact match allows the second
  though it may select what the first comments out. `SameTextSameTree` excludes such documents
  (section 2).
- A root-level `__typename` counts as a root field in the subset test (`zcap.ts:387-398`), so a
  query with one is refused unless the grant has it too; `server/README.md:143` says it is ignored.
- A negative `limit` is not clamped (`queries.ts:197-199`): the slice counts from the end.
  `case/README.md:91` says the limit is clamped.
- The client signs the canonical URL (`client.ts:376`), the gate compares it with the capability's own
  spelling (`localVerify.ts:316`): a capability that spells its target otherwise is refused.
- Caveats are refused unless the server opts out (`localVerify.ts:188`), where `client/README.md:141`
  has them ignored; and `client/README.md:169` names `expires` as the only bound on reuse, where the
  server's freshness window is a tighter one.

## 7. Plan

Built: the package cache with its refinement of `ReadThrough`, the title lookup with its refinement
of `FrameworkDirectory`, the pager, the queries, the client, the gate, the host, and the composition
of client and gates, with the proofs of section 4. What could follow:

1. `ListingPager` behind the one step in which `FrameworkLookup` gets a listing.
2. A clock that steps back, with the TTLs then stated in elapsed time.
