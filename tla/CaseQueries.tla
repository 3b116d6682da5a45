----------------------------- MODULE CaseQueries -----------------------------
(***************************************************************************)
(* Queries within one framework: server/src/case/queries.ts over packages  *)
(* that are cached whole, and the resolver of an association's endpoints   *)
(* in resolvers.ts.                                                        *)
(*                                                                         *)
(* A client pages through items or associations by the totalCount it is    *)
(* told, then resolves the item of an endpoint it was given; meanwhile the *)
(* server republishes packages and cached ones age out.  Reading a package *)
(* is one step here (PackageCache has its steps), and so is resolving a    *)
(* title (FrameworkLookup has those).                                      *)
(***************************************************************************)
EXTENDS Integers, Sequences, FiniteSets, SequencesExt

CONSTANTS
    PackageIds,
    Identifiers,    \* of items and associations
    Types,          \* of items and associations
    Versions,       \* Versions[packageId]: the Packages, or Absent, that the server
                    \* may hold under the id
    Frameworks,     \* titles; Frameworks[title] is the package resolved for it
    DefaultPackage, \* CaseConfig.packageId, or Absent
    MaxLimit,       \* CF_ITEMS_MAX_LIMIT and CF_ASSOCIATIONS_MAX_LIMIT
    DefaultLimit,   \* CF_ITEMS_DEFAULT_LIMIT and CF_ASSOCIATIONS_DEFAULT_LIMIT
    Queries,        \* what clients ask: [field, packageId, framework, filter, limit]
    Absent          \* undefined or null

ASSUME LimitAssumption ==
    MaxLimit \in Nat \ {0} /\ DefaultLimit \in Nat \ {0} /\ DefaultLimit <= MaxLimit

CFItem == [identifier : Identifiers, CFItemType : Types]

CFAssociation == [identifier : Identifiers, origin : Identifiers, destination : Identifiers,
                  associationType : Types]

Packages == [CFItems : Seq(CFItem), CFAssociations : Seq(CFAssociation)]

ASSUME PackageAssumption ==
    /\ \A id \in PackageIds : Versions[id] \subseteq Packages \cup {Absent}
    /\ Absent \notin Packages \cup CFItem \cup Types \cup Identifiers \cup Int

VARIABLES
    published,      \* published[packageId]: what the server holds
    cached,         \* cached[packageId]: what was read, Absent if nothing fresh
    reader,         \* a client paging through a query
    lookup,         \* the item of an endpoint being resolved
    renewed         \* history: whether its package changed while a client paged

vars == <<published, cached, reader, lookup, renewed>>

-----------------------------------------------------------------------------
(***************************************************************************)
(* Slices, filters and counts.                                             *)
(***************************************************************************)

\* The index that Array.prototype.slice makes of an argument.
SliceIndex(n, len) ==
    IF n < 0 THEN (IF len + n < 0 THEN 0 ELSE len + n) ELSE (IF n < len THEN n ELSE len)

Slice(seq, start, end) ==
    SubSeq(seq, SliceIndex(start, Len(seq)) + 1, SliceIndex(end, Len(seq)))

Or(value, default) == IF value = Absent THEN default ELSE value

\* The limit that is used.
Limit(limit) == IF Or(limit, DefaultLimit) <= MaxLimit THEN Or(limit, DefaultLimit) ELSE MaxLimit

\* BUG: the second argument of slice taken for a length.
BugPage(matching, limit, offset) == Slice(matching, Or(offset, 0), Limit(limit))

Page(matching, limit, offset) ==
    Slice(matching, Or(offset, 0), Or(offset, 0) + Limit(limit))

\* Array.prototype.filter: the members of seq at the positions kept, in order.
Filter(seq, kept) ==
    [n \in 1..Cardinality(kept) |->
        seq[CHOOSE i \in kept : Cardinality({j \in kept : j <= i}) = n]]

Passes(filter, member, value) == filter[member] # Absent => filter[member] = value

MatchingItems(pkg, filter) ==
    Filter(pkg.CFItems, {i \in DOMAIN pkg.CFItems : Passes(filter, "itemType", pkg.CFItems[i].CFItemType)})

MatchingAssociations(pkg, filter) ==
    Filter(pkg.CFAssociations,
           {i \in DOMAIN pkg.CFAssociations :
                /\ Passes(filter, "originId", pkg.CFAssociations[i].origin)
                /\ Passes(filter, "destinationId", pkg.CFAssociations[i].destination)
                /\ Passes(filter, "associationType", pkg.CFAssociations[i].associationType)})

\* BUG: counts what there is, not what matches.
BugGetCFItems(pkg, filter, limit, offset) ==
    LET matching == MatchingItems(pkg, filter) IN
    [items |-> Page(matching, limit, offset), totalCount |-> Len(pkg.CFItems)]

\* getCFItems, once the package is there: filtered before it is sliced.
GetCFItems(pkg, filter, limit, offset) ==
    LET matching == MatchingItems(pkg, filter) IN
    [items |-> Page(matching, limit, offset), totalCount |-> Len(matching)]

\* getCFItemTypeCounts: the types in use, and how many items have each; in what
\* order they are listed is left out.
GetCFItemTypeCounts(pkg) ==
    [type \in {pkg.CFItems[i].CFItemType : i \in DOMAIN pkg.CFItems} |->
        Cardinality({i \in DOMAIN pkg.CFItems : pkg.CFItems[i].CFItemType = type})]

\* BUG: the hint is the packageId that was asked for, not the one resolved.
BugTag(association, packageId, query) ==
    [association EXCEPT !.origin = [identifier |-> @, package |-> query.packageId],
                        !.destination = [identifier |-> @, package |-> query.packageId]]

\* An association as it is returned: each endpoint with its _packageId hint.
Tag(association, packageId, query) ==
    [association EXCEPT !.origin = [identifier |-> @, package |-> packageId],
                        !.destination = [identifier |-> @, package |-> packageId]]

\* getCFAssociations, once the package is there.
GetCFAssociations(pkg, packageId, query, offset) ==
    LET matching == MatchingAssociations(pkg, query.filter)
        page == Page(matching, query.limit, offset)
    IN [items |-> [i \in DOMAIN page |-> Tag(page[i], packageId, query)],
        totalCount |-> Len(matching)]

\* resolvePackageId: the id wins over the title, the title over the default.
ResolvePackageId(query) ==
    IF query.packageId # Absent THEN query.packageId
    ELSE IF query.framework # Absent THEN Frameworks[query.framework]
    ELSE DefaultPackage

ASSUME QueryAssumption ==
    \A query \in Queries :
        /\ query.field \in {"cfItems", "cfAssociations"}
        /\ query.limit \in Int \cup {Absent}
        /\ ResolvePackageId(query) \in PackageIds \cup {Absent}

-----------------------------------------------------------------------------
NoReader == [pc |-> "idle", query |-> Absent, packageId |-> Absent, offset |-> 0,
             collected |-> <<>>, error |-> "none", pkg |-> Absent]

NoLookup == [pc |-> "idle", endpoint |-> Absent, item |-> Absent, live |-> FALSE]

Init ==
    /\ published \in {p \in [PackageIds -> UNION {Versions[id] : id \in PackageIds}] :
                         \A id \in PackageIds : p[id] \in Versions[id]}
    /\ cached = [id \in PackageIds |-> Absent]
    /\ reader = NoReader
    /\ lookup = NoLookup
    /\ renewed = FALSE

\* What getCFPackage answers with, and what it leaves in the cache: a package
\* that was not found is not kept.
Read(id) == IF cached[id] # Absent THEN cached[id] ELSE published[id]

CacheRead(id) == cached' = [cached EXCEPT ![id] = Read(id)]

Ask ==
    /\ reader.pc \in {"idle", "done", "failed"}
    /\ \E query \in Queries :
          LET id == ResolvePackageId(query) IN
          reader' = IF id = Absent
                    THEN [NoReader EXCEPT !.pc = "failed", !.error = "PACKAGE_ID_REQUIRED"]
                    ELSE [NoReader EXCEPT !.pc = "paging", !.query = query, !.packageId = id]
    /\ renewed' = FALSE
    /\ UNCHANGED <<published, cached, lookup>>

\* The next page, at the offset of all that has come so far; the client stops at
\* the total it is told, or on an empty page.
NextPage ==
    LET id == reader.packageId
        pkg == Read(id)
        query == reader.query
        page == IF query.field = "cfItems"
                THEN GetCFItems(pkg, query.filter, query.limit, reader.offset)
                ELSE GetCFAssociations(pkg, id, query, reader.offset)
        offset == reader.offset + Len(page.items)
    IN
    /\ reader.pc = "paging"
    /\ CacheRead(id)
    /\ reader' =
          IF pkg = Absent THEN [reader EXCEPT !.pc = "failed", !.error = "PACKAGE_NOT_FOUND"]
          ELSE [reader EXCEPT !.offset = offset, !.pkg = pkg,
                              !.collected = @ \o page.items,
                              !.pc = IF page.items = <<>> \/ offset >= page.totalCount
                                     THEN "done" ELSE "paging"]
    /\ renewed' = (renewed \/ (reader.pkg # Absent /\ pkg # reader.pkg))
    /\ UNCHANGED <<published, lookup>>

-----------------------------------------------------------------------------
(***************************************************************************)
(* CFAssociationEndpoint.item.                                             *)
(***************************************************************************)
ItemsOf(pkg) == IF pkg = Absent THEN {} ELSE ToSet(pkg.CFItems)

Named(items, identifier) == {item \in items : item.identifier = identifier}

Endpoints == UNION {{association.origin, association.destination} : association \in ToSet(reader.collected)}

\* The hinted package, if it is cached; otherwise one live request.
ResolveEndpoint ==
    /\ reader.pc # "idle" /\ lookup.pc \in {"idle", "answered"}
    /\ reader.query # Absent /\ reader.query.field = "cfAssociations"
    /\ \E endpoint \in Endpoints :
          LET here == IF endpoint.package = Absent THEN {}
                      ELSE Named(ItemsOf(cached[endpoint.package]), endpoint.identifier)
          IN lookup' = IF here # {}
                       THEN [NoLookup EXCEPT !.pc = "answered", !.endpoint = endpoint,
                                             !.item = CHOOSE item \in here : TRUE]
                       ELSE [NoLookup EXCEPT !.pc = "asking", !.endpoint = endpoint, !.live = TRUE]
    /\ UNCHANGED <<published, cached, reader, renewed>>

\* getCFItem: any package of the server may hold it.
AnswerLive ==
    LET there == Named(UNION {ItemsOf(published[id]) : id \in PackageIds}, lookup.endpoint.identifier) IN
    /\ lookup.pc = "asking"
    /\ IF there = {} THEN lookup' = [lookup EXCEPT !.pc = "answered"]
       ELSE \E item \in there : lookup' = [lookup EXCEPT !.pc = "answered", !.item = item]
    /\ UNCHANGED <<published, cached, reader, renewed>>

-----------------------------------------------------------------------------
Republish ==
    /\ \E id \in PackageIds : \E version \in Versions[id] :
          published' = [published EXCEPT ![id] = version]
    /\ UNCHANGED <<cached, reader, lookup, renewed>>

AgeOut ==
    /\ \E id \in PackageIds : cached' = [cached EXCEPT ![id] = Absent]
    /\ UNCHANGED <<published, reader, lookup, renewed>>

Next == Ask \/ NextPage \/ ResolveEndpoint \/ AnswerLive \/ Republish \/ AgeOut

Spec == Init /\ [][Next]_vars

-----------------------------------------------------------------------------
\* What the query of the reader is about, and which of it is asked for.
Rows == IF reader.query.field = "cfItems" THEN reader.pkg.CFItems ELSE reader.pkg.CFAssociations

Wanted ==
    LET filter == reader.query.filter IN
    IF reader.query.field = "cfItems"
    THEN {i \in DOMAIN Rows : Passes(filter, "itemType", Rows[i].CFItemType)}
    ELSE {i \in DOMAIN Rows : /\ Passes(filter, "originId", Rows[i].origin)
                              /\ Passes(filter, "destinationId", Rows[i].destination)
                              /\ Passes(filter, "associationType", Rows[i].associationType)}

\* A client that pages by what it was sent and by totalCount, with no limit, a
\* limit, or one beyond the maximum, is sent everything it asked for, once,
\* however the package ages out and is read again, as long as it is the same.
PagingIsExact ==
    /\ reader.pc = "done" /\ ~renewed
    /\ reader.query.limit = Absent \/ reader.query.limit > 0
    => /\ {reader.collected[i].identifier : i \in DOMAIN reader.collected} = {Rows[i].identifier : i \in Wanted}
       /\ Len(reader.collected) = Cardinality(Wanted)

\* What cfItemTypes counts of a type is the totalCount that cfItems has for it,
\* and all types together are the items there are.
CountsAgree ==
    \A id \in PackageIds : cached[id] # Absent =>
        LET counts == GetCFItemTypeCounts(cached[id])
            total(type) == GetCFItems(cached[id], [itemType |-> type], 1, 0).totalCount
        IN /\ \A type \in DOMAIN counts : total(type) = counts[type]
           /\ SumFunction(counts) = total(Absent)

\* An endpoint's item is the one that its identifier names, and null only if no
\* package of the server has it; and none of the package that the association
\* came from, by whatever name the client asked for it, costs a request while
\* that package is cached.
EndpointItems ==
    [][lookup' # lookup =>
          /\ lookup'.pc = "answered" =>
                IF lookup'.item = Absent
                THEN \A id \in PackageIds : Named(ItemsOf(published[id]), lookup'.endpoint.identifier) = {}
                ELSE lookup'.item.identifier = lookup'.endpoint.identifier
          /\ lookup'.pc = "asking" =>
                Named(ItemsOf(cached[reader.packageId]), lookup'.endpoint.identifier) = {}]_vars
=============================================================================
