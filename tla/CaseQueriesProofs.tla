------------------------- MODULE CaseQueriesProofs --------------------------
(***************************************************************************)
(* Proofs about CaseQueries for every set of packages, whatever they hold, *)
(* every set of queries and every limit.                                   *)
(***************************************************************************)
EXTENDS CaseQueries, FiniteSetTheorems, SequenceTheorems, TLAPS

-----------------------------------------------------------------------------
(***************************************************************************)
(* Filter lists the kept members, each once: the rank of a position is a   *)
(* bijection from the positions kept to 1..Cardinality(kept).              *)
(***************************************************************************)
Rank(kept, i) == Cardinality({j \in kept : j <= i})

LEMMA RankInRange ==
    ASSUME NEW kept, IsFiniteSet(kept), kept \subseteq Int, NEW i \in kept
    PROVE  Rank(kept, i) \in 1..Cardinality(kept)
<1> DEFINE below == {j \in kept : j <= i}
<1>1. below \in SUBSET kept /\ i \in below OBVIOUS
<1>2. IsFiniteSet(below) /\ Cardinality(below) <= Cardinality(kept) BY <1>1, FS_Subset
<1>3. Cardinality(below) \in Nat /\ Cardinality(kept) \in Nat BY <1>2, FS_CardinalityType
<1>4. Cardinality(below) # 0 BY <1>1, <1>2, FS_EmptySet
<1> QED BY <1>2, <1>3, <1>4 DEF Rank

LEMMA RankInjective ==
    ASSUME NEW kept, IsFiniteSet(kept), kept \subseteq Int, NEW i \in kept, NEW k \in kept,
           Rank(kept, i) = Rank(kept, k)
    PROVE  i = k
<1> DEFINE below(x) == {j \in kept : j <= x}
<1>1. \A x \in kept : below(x) \in SUBSET kept /\ x \in below(x) OBVIOUS
<1>2. \A x \in kept : IsFiniteSet(below(x)) BY <1>1, FS_Subset
<1>3. ASSUME NEW x \in kept, NEW y \in kept, x < y PROVE Rank(kept, x) # Rank(kept, y)
  <2>1. \A j \in kept : j <= x => j <= y BY <1>3
  <2>2. below(x) \in SUBSET below(y) BY <2>1, Zenon
  <2>3. y \in below(y) /\ y \notin below(x) BY <1>3
  <2> QED BY <2>2, <2>3, <1>2, FS_Subset DEF Rank
<1> QED BY <1>3

\* Each rank up to the number kept is the rank of a position, and only of one.
LEMMA RankBijective ==
    ASSUME NEW kept, IsFiniteSet(kept), kept \subseteq Int
    PROVE  \A n \in 1..Cardinality(kept) : \E i \in kept : Rank(kept, i) = n
<1> DEFINE rank == [i \in kept |-> Rank(kept, i)]
           upTo == 1..Cardinality(kept)
<1>1. Cardinality(kept) \in Nat BY FS_CardinalityType
<1>2. IsFiniteSet(upTo) /\ Cardinality(upTo) = Cardinality(kept) BY <1>1, FS_Interval
<1>3. rank \in [kept -> upTo] BY RankInRange
<1>4. IsInjective(rank) BY RankInjective DEF IsInjective
<1>5. rank \in Injection(kept, upTo) BY <1>3, <1>4 DEF Injection
<1>6. rank \in Surjection(kept, upTo) BY <1>2, <1>5, FS_Injection
<1> QED BY <1>6 DEF Surjection

LEMMA SameInterval ==
    ASSUME NEW m \in Nat, NEW n \in Nat, 1..m = 1..n
    PROVE  m = n
<1>1. m \in 1..n \/ m = 0 OBVIOUS
<1>2. n \in 1..m \/ n = 0 OBVIOUS
<1> QED BY <1>1, <1>2

\* What Array.prototype.filter returns.
LEMMA FilterExact ==
    ASSUME NEW S, NEW seq \in Seq(S), NEW kept \in SUBSET (DOMAIN seq)
    PROVE  /\ IsFiniteSet(kept)
           /\ Cardinality(kept) \in Nat
           /\ Filter(seq, kept) \in Seq(S)
           /\ Len(Filter(seq, kept)) = Cardinality(kept)
           /\ DOMAIN Filter(seq, kept) = 1..Cardinality(kept)
           /\ \A n \in DOMAIN Filter(seq, kept) : \E i \in kept : Filter(seq, kept)[n] = seq[i]
           /\ \A i \in kept : \E n \in DOMAIN Filter(seq, kept) : Filter(seq, kept)[n] = seq[i]
<1> DEFINE len == Cardinality(kept)
           at(n) == CHOOSE i \in kept : Rank(kept, i) = n
<1>1. Len(seq) \in Nat /\ DOMAIN seq = 1..Len(seq) BY LenProperties
<1>2. kept \subseteq Int BY <1>1
<1>3. IsFiniteSet(kept)
  <2>1. IsFiniteSet(1..Len(seq)) BY <1>1, FS_Interval
  <2> QED BY <2>1, <1>1, FS_Subset
<1>4. len \in Nat BY <1>3, FS_CardinalityType
<1>5. \A n \in 1..len : at(n) \in kept /\ Rank(kept, at(n)) = n
  BY <1>2, <1>3, RankBijective
<1>6. \A i \in kept : Rank(kept, i) \in 1..len /\ at(Rank(kept, i)) = i
  <2> SUFFICES ASSUME NEW i \in kept
               PROVE  Rank(kept, i) \in 1..len /\ at(Rank(kept, i)) = i
    OBVIOUS
  <2>1. Rank(kept, i) \in 1..len BY <1>2, <1>3, RankInRange
  <2>2. at(Rank(kept, i)) \in kept /\ Rank(kept, at(Rank(kept, i))) = Rank(kept, i)
    BY <2>1, <1>5
  <2> HIDE DEF at
  <2> QED BY <2>1, <2>2, <1>2, <1>3, RankInjective
<1>7. Filter(seq, kept) = [n \in 1..len |-> seq[at(n)]] BY DEF Filter, Rank
<1> HIDE DEF at, len
<1>8. \A n \in 1..len : seq[at(n)] \in S BY <1>1, <1>5, ElementOfSeq
<1>9. Filter(seq, kept) \in [1..len -> S] BY <1>7, <1>8
<1>10. Filter(seq, kept) \in Seq(S) BY <1>4, <1>9, SeqDef
<1>11. Len(Filter(seq, kept)) = len
  <2>1. Len(Filter(seq, kept)) \in Nat /\ DOMAIN Filter(seq, kept) = 1..Len(Filter(seq, kept))
    BY <1>10, LenProperties
  <2>2. 1..Len(Filter(seq, kept)) = 1..len BY <2>1, <1>7
  <2> QED BY <2>1, <2>2, <1>4, SameInterval
<1>12. \A n \in 1..len : Filter(seq, kept)[n] = seq[at(n)] BY <1>7
<1>13. DOMAIN Filter(seq, kept) = 1..len BY <1>7
<1> QED BY <1>3, <1>4, <1>5, <1>6, <1>10, <1>11, <1>12, <1>13 DEF len

-----------------------------------------------------------------------------
(***************************************************************************)
(* The sum of a function: whatever satisfies its recursion is the sum.     *)
(***************************************************************************)
LEMMA SumIsUnique ==
    ASSUME NEW fun, NEW total, IsFiniteSet(DOMAIN fun),
           total \in [SUBSET (DOMAIN fun) -> Int],
           total[{}] = 0,
           \A s \in SUBSET (DOMAIN fun) : \A x \in s : total[s] = fun[x] + total[s \ {x}]
    PROVE  SumFunction(fun) = total[DOMAIN fun]
<1> DEFINE D == DOMAIN fun
           pick(s) == CHOOSE x \in s : TRUE
           step(g) == [s \in SUBSET D |->
                          IF s = {} THEN 0 ELSE fun[pick(s)] + g[s \ {pick(s)}]]
           iter == CHOOSE g : g = step(g)
<1>1. SumFunction(fun) = iter[D]
  BY DEF SumFunction, SumFunctionOnSet, FoldFunctionOnSet, MapThenFoldSet
<1>2. \A s \in SUBSET D : s # {} => pick(s) \in s OBVIOUS
<1> HIDE DEF pick
<1>3. total = step(total)
  <2>1. \A s \in SUBSET D :
            total[s] = IF s = {} THEN 0 ELSE fun[pick(s)] + total[s \ {pick(s)}]
    BY <1>2
  <2> QED BY <2>1
<1>4. iter = step(iter)
  <2> HIDE DEF step
  <2> QED BY <1>3
<1> HIDE DEF iter
<1> DEFINE differ == {s \in SUBSET D : iter[s] # total[s]}
<1>5. differ = {}
  <2> SUFFICES ASSUME differ # {} PROVE FALSE OBVIOUS
  <2>1. IsWellFoundedOn(StrictSubsetOrdering(D), FiniteSubsetsOf(D))
    BY FS_StrictSubsetOrderingWellFounded
  <2>2. IsWellFoundedOn(StrictSubsetOrdering(D), SUBSET D)
    BY <2>1, FS_FiniteSubsetsOfFinite, Zenon
  <2>3. PICK s \in differ : \A t \in differ : <<t, s>> \notin StrictSubsetOrdering(D)
    <3> differ \subseteq SUBSET D OBVIOUS
    <3> HIDE DEF differ
    <3> QED BY <2>2, WFMin
  <2>4. s \in SUBSET D /\ iter[s] # total[s] BY <2>3
  <2>5. CASE s = {}
    BY <2>4, <2>5, <1>3, <1>4
  <2>6. CASE s # {}
    <3> DEFINE t == s \ {pick(s)}
    <3>1. t \in SUBSET D /\ t \subseteq s /\ t # s BY <2>4, <2>6, <1>2
    <3>2. <<t, s>> \in StrictSubsetOrdering(D)
      BY <3>1, <2>4 DEF StrictSubsetOrdering
    <3>3. t \notin differ BY <3>2, <2>3
    <3>4. iter[t] = total[t] BY <3>1, <3>3
    <3>5. iter[s] = fun[pick(s)] + iter[t] BY <1>4, <2>4, <2>6
    <3>6. total[s] = fun[pick(s)] + total[t] BY <2>4, <2>6, <1>2
    <3> QED BY <3>4, <3>5, <3>6, <2>4
  <2> QED BY <2>5, <2>6
<1> QED BY <1>1, <1>5

\* The counts of the types add up to the number of items.
LEMMA CountsAddUp ==
    ASSUME NEW pkg \in Packages
    PROVE  SumFunction(GetCFItemTypeCounts(pkg)) = Len(pkg.CFItems)
<1> DEFINE items == pkg.CFItems
           type(i) == items[i].CFItemType
           of(s) == {i \in DOMAIN items : type(i) \in s}
           D == {type(i) : i \in DOMAIN items}
           fun == GetCFItemTypeCounts(pkg)
           total == [s \in SUBSET D |-> Cardinality(of(s))]
<1>1. items \in Seq(CFItem) BY DEF Packages
<1>2. Len(items) \in Nat /\ DOMAIN items = 1..Len(items) BY <1>1, LenProperties
<1>3. IsFiniteSet(DOMAIN items) /\ Cardinality(DOMAIN items) = Len(items)
  BY <1>2, FS_Interval
<1>4. \A s : of(s) \in SUBSET DOMAIN items OBVIOUS
<1>5. \A s : IsFiniteSet(of(s)) /\ Cardinality(of(s)) \in Nat
  BY <1>3, <1>4, FS_Subset, FS_CardinalityType
<1>6. IsFiniteSet(D)
  <2> DEFINE image == [i \in DOMAIN items |-> type(i)]
  <2>1. image \in Surjection(DOMAIN items, D) BY DEF Surjection
  <2> HIDE DEF image, D
  <2> QED BY <2>1, <1>3, FS_Surjection
<1>7. fun = [t \in D |-> Cardinality(of({t}))]
  <2>1. \A t : of({t}) = {i \in DOMAIN items : type(i) = t} OBVIOUS
  <2> QED BY <2>1 DEF GetCFItemTypeCounts
<1>8. total \in [SUBSET D -> Int]
  <2> HIDE DEF of, D
  <2> QED BY <1>5
<1>9. total[{}] = 0
  <2>1. of({}) = {} OBVIOUS
  <2> QED BY <2>1, FS_EmptySet
<1>10. \A s \in SUBSET D : \A x \in s : total[s] = fun[x] + total[s \ {x}]
  <2> SUFFICES ASSUME NEW s \in SUBSET D, NEW x \in s
               PROVE  total[s] = fun[x] + total[s \ {x}]
    OBVIOUS
  <2>1. of(s) = of({x}) \cup of(s \ {x}) /\ of({x}) \cap of(s \ {x}) = {} OBVIOUS
  <2>2. Cardinality(of(s)) = Cardinality(of({x})) + Cardinality(of(s \ {x})) - 0
    <3> HIDE DEF of
    <3> QED BY <2>1, <1>5, FS_Union, FS_EmptySet
  <2>3. s \ {x} \in SUBSET D /\ x \in D OBVIOUS
  <2> HIDE DEF of, D
  <2> QED BY <2>2, <2>3, <1>5, <1>7
<1>11. total[D] = Len(items)
  <2>1. of(D) = DOMAIN items OBVIOUS
  <2> QED BY <2>1, <1>3
<1>12. DOMAIN fun = D BY <1>7
<1>13. SumFunction(fun) = total[D]
  <2> HIDE DEF fun, total, D
  <2>1. total \in [SUBSET (DOMAIN fun) -> Int] BY <1>8, <1>12
  <2>2. \A s \in SUBSET (DOMAIN fun) : \A x \in s : total[s] = fun[x] + total[s \ {x}]
    BY <1>10, <1>12
  <2>3. SumFunction(fun) = total[DOMAIN fun] BY <1>6, <1>9, <1>12, <2>1, <2>2, SumIsUnique, Zenon
  <2> QED BY <1>12, <2>3
<1> QED BY <1>11, <1>13
\* A type's count is the totalCount of the items of that type.
LEMMA CountIsTotal ==
    ASSUME NEW pkg \in Packages, NEW type \in DOMAIN GetCFItemTypeCounts(pkg)
    PROVE  GetCFItems(pkg, [itemType |-> type], 1, 0).totalCount = GetCFItemTypeCounts(pkg)[type]
<1> DEFINE items == pkg.CFItems
           kept == {i \in DOMAIN items : Passes([itemType |-> type], "itemType", items[i].CFItemType)}
<1>1. items \in Seq(CFItem) BY DEF Packages
<1>2. PICK k \in DOMAIN items : type = items[k].CFItemType BY DEF GetCFItemTypeCounts
<1>3. type # Absent
  <2>1. items[k] \in CFItem BY <1>1, <1>2, ElementOfSeq, LenProperties
  <2> QED BY <2>1, <1>2, PackageAssumption DEF CFItem
<1>4. kept = {i \in DOMAIN items : items[i].CFItemType = type} BY <1>3 DEF Passes
<1>5. Len(Filter(items, kept)) = Cardinality(kept) BY <1>1, FilterExact
<1>6. GetCFItems(pkg, [itemType |-> type], 1, 0).totalCount = Len(Filter(items, kept))
  BY DEF GetCFItems, MatchingItems
<1>7. GetCFItemTypeCounts(pkg)[type] = Cardinality({i \in DOMAIN items : items[i].CFItemType = type})
  BY DEF GetCFItemTypeCounts
<1> QED BY <1>4, <1>5, <1>6, <1>7

\* With no type asked for, the totalCount is the number of items.
LEMMA TotalOfAll ==
    ASSUME NEW pkg \in Packages
    PROVE  GetCFItems(pkg, [itemType |-> Absent], 1, 0).totalCount = Len(pkg.CFItems)
<1> DEFINE items == pkg.CFItems
           kept == {i \in DOMAIN items : Passes([itemType |-> Absent], "itemType", items[i].CFItemType)}
<1>1. items \in Seq(CFItem) BY DEF Packages
<1>2. kept = DOMAIN items BY DEF Passes
<1>3. Len(Filter(items, kept)) = Cardinality(kept) BY <1>1, FilterExact
<1>4. GetCFItems(pkg, [itemType |-> Absent], 1, 0).totalCount = Len(Filter(items, kept))
  BY DEF GetCFItems, MatchingItems
<1>5. Len(items) \in Nat /\ DOMAIN items = 1..Len(items) BY <1>1, LenProperties
<1>6. Cardinality(1..Len(items)) = Len(items) BY <1>5, FS_Interval
<1> QED BY <1>2, <1>3, <1>4, <1>5, <1>6

-----------------------------------------------------------------------------
(***************************************************************************)
(* What filtering a package leaves, and a page of it.                      *)
(***************************************************************************)

\* An association as a client gets it.
Endpoint == [identifier : Identifiers, package : PackageIds]

TaggedAssociation == [identifier : Identifiers, origin : Endpoint, destination : Endpoint,
                      associationType : Types]

Answered == CFItem \cup TaggedAssociation

\* All rows of a package that a query asks for, before they are cut into pages.
Matching(pkg, query) ==
    IF query.field = "cfItems" THEN MatchingItems(pkg, query.filter)
    ELSE MatchingAssociations(pkg, query.filter)

LEMMA MatchingType ==
    ASSUME NEW pkg \in Packages, NEW filter
    PROVE  /\ MatchingItems(pkg, filter) \in Seq(CFItem)
           /\ MatchingAssociations(pkg, filter) \in Seq(CFAssociation)
<1> DEFINE items == pkg.CFItems
           links == pkg.CFAssociations
           keptItems == {i \in DOMAIN items : Passes(filter, "itemType", items[i].CFItemType)}
           keptLinks == {i \in DOMAIN links :
                /\ Passes(filter, "originId", links[i].origin)
                /\ Passes(filter, "destinationId", links[i].destination)
                /\ Passes(filter, "associationType", links[i].associationType)}
<1>1. items \in Seq(CFItem) /\ links \in Seq(CFAssociation) BY DEF Packages
<1>2. keptItems \in SUBSET DOMAIN items /\ keptLinks \in SUBSET DOMAIN links OBVIOUS
<1>3. MatchingItems(pkg, filter) = Filter(items, keptItems) BY DEF MatchingItems
<1>4. MatchingAssociations(pkg, filter) = Filter(links, keptLinks) BY DEF MatchingAssociations
<1> HIDE DEF items, links, keptItems, keptLinks
<1>5. Filter(items, keptItems) \in Seq(CFItem) BY <1>1, <1>2, FilterExact
<1>6. Filter(links, keptLinks) \in Seq(CFAssociation) BY <1>1, <1>2, FilterExact
<1> QED BY <1>3, <1>4, <1>5, <1>6

\* Whatever the limit, a page is a sequence of the members it is taken from.
LEMMA PageType ==
    ASSUME NEW S, NEW seq \in Seq(S), NEW limit \in Int \cup {Absent}, NEW offset \in Nat
    PROVE  Page(seq, limit, offset) \in Seq(S)
<1> DEFINE start == SliceIndex(offset, Len(seq))
           end == SliceIndex(offset + Limit(limit), Len(seq))
<1>1. Len(seq) \in Nat BY LenProperties
<1>2. Limit(limit) \in Int BY LimitAssumption DEF Limit, Or
<1>3. Or(offset, 0) = offset BY PackageAssumption DEF Or
<1>4. start \in Nat /\ end \in Int /\ end <= Len(seq)
  BY <1>1, <1>2 DEF SliceIndex
<1>5. Page(seq, limit, offset) = SubSeq(seq, start + 1, end)
  BY <1>3 DEF Page, Slice
<1> HIDE DEF start, end
<1>6. \A i \in start + 1..end : seq[i] \in S BY <1>1, <1>4, ElementOfSeq
<1>7. start + 1 \in Int BY <1>4
<1> QED BY <1>4, <1>5, <1>6, <1>7, SubSeqProperties

\* A page at an offset within the rows continues there, and is empty only at
\* their end, if the limit is none or positive.
LEMMA PageContinues ==
    ASSUME NEW S, NEW seq \in Seq(S), NEW limit \in Int \cup {Absent}, NEW offset \in 0..Len(seq),
           limit = Absent \/ limit > 0
    PROVE  LET page == Page(seq, limit, offset) IN
           /\ Len(page) \in Nat /\ offset + Len(page) <= Len(seq)
           /\ Len(page) = 0 => offset = Len(seq)
           /\ \A i \in 1..Len(page) : page[i] = seq[offset + i]
<1> DEFINE n == Len(seq)
           end == SliceIndex(offset + Limit(limit), n)
<1>1. n \in Nat BY LenProperties
<1>2. Limit(limit) \in Nat /\ Limit(limit) > 0 BY LimitAssumption, PackageAssumption DEF Limit, Or
<1>3. Or(offset, 0) = offset BY <1>1, PackageAssumption DEF Or
<1>4. SliceIndex(offset, n) = offset BY <1>1 DEF SliceIndex
<1>5. end \in offset..n /\ (end = offset => offset = n) BY <1>1, <1>2 DEF SliceIndex
<1>6. Page(seq, limit, offset) = SubSeq(seq, offset + 1, end)
  BY <1>3, <1>4 DEF Page, Slice
<1> HIDE DEF end
<1>7. \A i \in offset + 1..end : seq[i] \in S BY <1>1, <1>5, ElementOfSeq
<1>8. offset + 1 \in Int /\ end \in Int BY <1>1, <1>5
<1>9. /\ Len(SubSeq(seq, offset + 1, end)) = IF offset + 1 <= end THEN end - (offset + 1) + 1 ELSE 0
      /\ \A i \in 1..end - (offset + 1) + 1 : SubSeq(seq, offset + 1, end)[i] = seq[offset + 1 + i - 1]
  BY <1>7, <1>8, SubSeqProperties
<1>10. Len(SubSeq(seq, offset + 1, end)) = end - offset BY <1>1, <1>5, <1>9
<1>11. \A i \in 1..end - offset : SubSeq(seq, offset + 1, end)[i] = seq[offset + i]
  BY <1>1, <1>5, <1>9
<1> QED BY <1>1, <1>5, <1>6, <1>10, <1>11
\* What a query is answered with, as NextPage computes it.
Answer(pkg, id, query, offset) ==
    IF query.field = "cfItems"
    THEN GetCFItems(pkg, query.filter, query.limit, offset)
    ELSE GetCFAssociations(pkg, id, query, offset)

\* Both endpoints of an association lead to the package it is from.
Hinted(row, id) ==
    row \in TaggedAssociation /\ row.origin.package = id /\ row.destination.package = id

LEMMA TagType ==
    ASSUME NEW row \in CFAssociation, NEW id \in PackageIds, NEW query
    PROVE  /\ Tag(row, id, query) \in TaggedAssociation
           /\ Tag(row, id, query).identifier = row.identifier
           /\ Hinted(Tag(row, id, query), id)
<1>1. Tag(row, id, query) =
        [identifier |-> row.identifier, origin |-> [identifier |-> row.origin, package |-> id],
         destination |-> [identifier |-> row.destination, package |-> id],
         associationType |-> row.associationType]
  <2>1. row = [identifier |-> row.identifier, origin |-> row.origin,
               destination |-> row.destination, associationType |-> row.associationType]
    BY DEF CFAssociation
  <2>2. Tag(row, id, query) =
          [row EXCEPT !.origin = [identifier |-> row.origin, package |-> id],
                      !.destination = [identifier |-> row.destination, package |-> id]]
    BY <2>1 DEF Tag
  <2> QED BY <2>1, <2>2
<1> QED BY <1>1 DEF CFAssociation, TaggedAssociation, Endpoint, Hinted

\* An answer holds rows, hinted if they are associations, and the number of rows
\* that match.
LEMMA AnswerType ==
    ASSUME NEW pkg \in Packages, NEW id \in PackageIds, NEW query \in Queries, NEW offset \in Nat
    PROVE  LET answer == Answer(pkg, id, query, offset) IN
           /\ answer.items \in Seq(Answered)
           /\ answer.totalCount = Len(Matching(pkg, query))
           /\ answer.totalCount \in Nat
           /\ query.field = "cfAssociations" => \A i \in DOMAIN answer.items : Hinted(answer.items[i], id)
<1> DEFINE answer == Answer(pkg, id, query, offset)
           items == MatchingItems(pkg, query.filter)
           links == MatchingAssociations(pkg, query.filter)
<1>1. query.limit \in Int \cup {Absent} /\ query.field \in {"cfItems", "cfAssociations"}
  BY QueryAssumption
<1>2. items \in Seq(CFItem) /\ links \in Seq(CFAssociation) BY MatchingType
<1>3. Len(items) \in Nat /\ Len(links) \in Nat BY <1>2, LenProperties
<1>4. CASE query.field = "cfItems"
  <2>1. answer = [items |-> Page(items, query.limit, offset), totalCount |-> Len(items)]
    BY <1>4 DEF Answer, GetCFItems
  <2>2. Matching(pkg, query) = items BY <1>4 DEF Matching
  <2> HIDE DEF items, links, answer
  <2>3. Page(items, query.limit, offset) \in Seq(CFItem) BY <1>1, <1>2, PageType
  <2>4. Page(items, query.limit, offset) \in Seq(Answered) BY <2>3, SeqMonotonic DEF Answered
  <2> QED BY <1>3, <1>4, <2>1, <2>2, <2>4 DEF answer
<1>5. CASE query.field = "cfAssociations"
  <2> DEFINE page == Page(links, query.limit, offset)
             tagged == [i \in DOMAIN page |-> Tag(page[i], id, query)]
  <2>1. answer = [items |-> tagged, totalCount |-> Len(links)]
    BY <1>5 DEF Answer, GetCFAssociations
  <2>2. Matching(pkg, query) = links BY <1>5 DEF Matching
  <2>3. page \in Seq(CFAssociation)
    <3> HIDE DEF links
    <3> QED BY <1>1, <1>2, PageType
  <2> HIDE DEF page
  <2>4. DOMAIN page = 1..Len(page) /\ Len(page) \in Nat BY <2>3, LenProperties
  <2>5. \A i \in DOMAIN page : page[i] \in CFAssociation BY <2>3, <2>4, ElementOfSeq
  <2>6. \A i \in DOMAIN page : tagged[i] \in Answered /\ Hinted(tagged[i], id)
    BY <2>5, TagType DEF Answered
  <2>7. tagged \in [1..Len(page) -> Answered] BY <2>4, <2>6
  <2>8. tagged \in Seq(Answered)
    <3> HIDE DEF tagged
    <3> QED BY <2>4, <2>7, SeqDef
  <2>9. DOMAIN tagged = DOMAIN page OBVIOUS
  <2> HIDE DEF tagged, links, answer
  <2> QED BY <1>3, <1>5, <2>1, <2>2, <2>6, <2>8, <2>9 DEF answer
<1> QED BY <1>1, <1>4, <1>5

\* An answer at an offset within the rows that match continues there, and is
\* empty only at their end, if the limit is none or positive.
LEMMA AnswerContinues ==
    ASSUME NEW pkg \in Packages, NEW id \in PackageIds, NEW query \in Queries,
           NEW offset \in 0..Len(Matching(pkg, query)), query.limit = Absent \/ query.limit > 0
    PROVE  LET items == Answer(pkg, id, query, offset).items
               rows == Matching(pkg, query)
           IN /\ Len(items) \in Nat /\ offset + Len(items) <= Len(rows)
              /\ Len(items) = 0 => offset = Len(rows)
              /\ \A i \in 1..Len(items) : items[i].identifier = rows[offset + i].identifier
<1> DEFINE items == MatchingItems(pkg, query.filter)
           links == MatchingAssociations(pkg, query.filter)
<1>1. query.limit \in Int \cup {Absent} /\ query.field \in {"cfItems", "cfAssociations"}
  BY QueryAssumption
<1>2. items \in Seq(CFItem) /\ links \in Seq(CFAssociation) BY MatchingType
<1>3. CASE query.field = "cfItems"
  <2>1. Answer(pkg, id, query, offset).items = Page(items, query.limit, offset)
    BY <1>3 DEF Answer, GetCFItems
  <2>2. Matching(pkg, query) = items BY <1>3 DEF Matching
  <2> HIDE DEF items, links
  <2>3. offset \in 0..Len(items) BY <2>2
  <2> DEFINE page == Page(items, query.limit, offset)
  <2>4. /\ Len(page) \in Nat /\ offset + Len(page) <= Len(items)
        /\ Len(page) = 0 => offset = Len(items)
        /\ \A i \in 1..Len(page) : page[i] = items[offset + i]
    BY <1>1, <1>2, <2>3, PageContinues
  <2>5. \A i \in 1..Len(page) : page[i].identifier = items[offset + i].identifier BY <2>4
  <2> HIDE DEF page
  <2> QED BY <2>1, <2>2, <2>4, <2>5 DEF page
<1>4. CASE query.field = "cfAssociations"
  <2> DEFINE page == Page(links, query.limit, offset)
             tagged == [i \in DOMAIN page |-> Tag(page[i], id, query)]
  <2>1. Answer(pkg, id, query, offset).items = tagged
    BY <1>4 DEF Answer, GetCFAssociations
  <2>2. Matching(pkg, query) = links BY <1>4 DEF Matching
  <2>3. links \in Seq(CFAssociation) /\ offset \in 0..Len(links) /\ offset \in Nat BY <1>2, <2>2, LenProperties
  <2> HIDE DEF links
  <2>4. page \in Seq(CFAssociation) BY <1>1, <2>3, PageType
  <2>5. /\ Len(page) \in Nat /\ offset + Len(page) <= Len(links)
        /\ Len(page) = 0 => offset = Len(links)
        /\ \A i \in 1..Len(page) : page[i] = links[offset + i]
    BY <1>1, <2>3, PageContinues
  <2> HIDE DEF page
  <2>6. DOMAIN page = 1..Len(page) BY <2>4, LenProperties
  <2>7. \A i \in 1..Len(page) : tagged[i].identifier = page[i].identifier
    BY <2>4, <2>6, ElementOfSeq, TagType
  <2>8. Len(tagged) = Len(page) BY <2>5, <2>6
  <2>9. \A i \in 1..Len(tagged) : tagged[i].identifier = links[offset + i].identifier
    <3> HIDE DEF tagged
    <3> QED BY <2>5, <2>7, <2>8
  <2> HIDE DEF tagged
  <2>10. /\ Len(tagged) \in Nat /\ offset + Len(tagged) <= Len(links)
         /\ Len(tagged) = 0 => offset = Len(links)
    BY <2>5, <2>8
  <2> HIDE DEF items
  <2> QED BY <2>1, <2>2, <2>9, <2>10
<1> QED BY <1>1, <1>3, <1>4
-----------------------------------------------------------------------------
(***************************************************************************)
(* The inductive invariant.  A client of an unchanged package has exactly  *)
(* the first of the rows that match, in their order, and all of them when  *)
(* it stops.                                                               *)
(***************************************************************************)
ReaderType ==
    [pc : {"idle", "paging", "done", "failed"}, query : Queries \cup {Absent},
     packageId : PackageIds \cup {Absent}, offset : Nat, collected : Seq(Answered),
     error : {"none", "PACKAGE_ID_REQUIRED", "PACKAGE_NOT_FOUND"}, pkg : Packages \cup {Absent}]

LookupType ==
    [pc : {"idle", "asking", "answered"}, endpoint : Endpoint \cup {Absent},
     item : CFItem \cup {Absent}, live : BOOLEAN]

\* The server and the cache hold versions of each package under its own id.
TypeOK ==
    /\ published \in [PackageIds -> Packages \cup {Absent}]
    /\ cached \in [PackageIds -> Packages \cup {Absent}]
    /\ \A id \in PackageIds : published[id] \in Versions[id] /\ cached[id] \in Versions[id] \cup {Absent}
    /\ reader \in ReaderType
    /\ lookup \in LookupType
    /\ renewed \in BOOLEAN

\* What is known of a query while it is paged through, and of what it returned.
Placed ==
    /\ reader.pc \in {"paging", "done"} => reader.query \in Queries
    /\ reader.pc \in {"paging", "done"} \/ reader.collected # <<>> =>
          reader.packageId \in PackageIds /\ reader.packageId # Absent
    /\ reader.offset = Len(reader.collected)
    /\ reader.pc = "paging" /\ reader.pkg = Absent => reader.offset = 0
    /\ reader.pc = "done" => reader.pkg # Absent

\* The rows that match are sent one after the other.
Continues ==
    LET rows == Matching(reader.pkg, reader.query) IN
    /\ reader.pc \in {"paging", "done"} /\ reader.pkg # Absent /\ ~renewed
    /\ reader.query.limit = Absent \/ reader.query.limit > 0
    => /\ reader.offset <= Len(rows)
       /\ \A i \in 1..reader.offset : reader.collected[i].identifier = rows[i].identifier
       /\ reader.pc = "done" => reader.offset = Len(rows)

AllHinted ==
    reader.collected # <<>> /\ reader.query.field = "cfAssociations" =>
        \A i \in DOMAIN reader.collected : Hinted(reader.collected[i], reader.packageId)

AskingIsOpen == lookup.pc = "asking" => lookup.item = Absent

Inv == TypeOK /\ Placed /\ Continues /\ AllHinted /\ AskingIsOpen
LEMMA InitInv == Init => Inv
<1> SUFFICES ASSUME Init PROVE Inv OBVIOUS
<1>1. published \in [PackageIds -> Packages \cup {Absent}] /\ \A id \in PackageIds : published[id] \in Versions[id]
  BY PackageAssumption DEF Init
<1>2. TypeOK
  <2>1. <<>> \in Seq(Answered) BY EmptySeq
  <2>2. reader \in ReaderType BY <2>1 DEF Init, NoReader, ReaderType
  <2>3. lookup \in LookupType BY DEF Init, NoLookup, LookupType
  <2> QED BY <1>1, <2>2, <2>3 DEF Init, TypeOK
<1>3. Placed BY DEF Init, NoReader, Placed
<1>4. Continues BY DEF Init, NoReader, Continues
<1>5. AllHinted BY DEF Init, NoReader, AllHinted
<1>6. AskingIsOpen BY DEF Init, NoLookup, AskingIsOpen
<1> QED BY <1>2, <1>3, <1>4, <1>5, <1>6 DEF Inv

\* Reading a package finds one of its versions, and caches nothing else.
LEMMA ReadType ==
    ASSUME TypeOK, NEW id \in PackageIds
    PROVE  /\ Read(id) \in Packages \cup {Absent}
           /\ Read(id) \in Versions[id] \cup {Absent}
BY DEF TypeOK, Read

LEMMA AskInv == Inv /\ Ask => Inv'
<1> SUFFICES ASSUME Inv, Ask PROVE Inv' OBVIOUS
<1>1. PICK query \in Queries :
        LET id == ResolvePackageId(query) IN
        reader' = IF id = Absent
                  THEN [NoReader EXCEPT !.pc = "failed", !.error = "PACKAGE_ID_REQUIRED"]
                  ELSE [NoReader EXCEPT !.pc = "paging", !.query = query, !.packageId = id]
  BY DEF Ask
<1> DEFINE id == ResolvePackageId(query)
<1>2. id \in PackageIds \cup {Absent} BY QueryAssumption
<1>3. UNCHANGED <<published, cached, lookup>> /\ renewed' = FALSE BY DEF Ask
<1>4. CASE id = Absent
  <2>1. reader' = [pc |-> "failed", query |-> Absent, packageId |-> Absent, offset |-> 0,
                   collected |-> <<>>, error |-> "PACKAGE_ID_REQUIRED", pkg |-> Absent]
    BY <1>1, <1>4 DEF NoReader
  <2>2. <<>> \in Seq(Answered) /\ Len(<<>>) = 0 BY EmptySeq
  <2>3. reader' \in ReaderType BY <2>1, <2>2 DEF ReaderType
  <2>4. TypeOK' BY <1>3, <2>3 DEF TypeOK, Inv
  <2>5. Placed' BY <2>1, <2>2 DEF Placed
  <2>6. Continues' BY <2>1 DEF Continues
  <2>7. AllHinted' BY <2>1 DEF AllHinted
  <2>8. AskingIsOpen' BY <1>3 DEF AskingIsOpen, Inv
  <2> QED BY <2>4, <2>5, <2>6, <2>7, <2>8 DEF Inv
<1>5. CASE id # Absent
  <2>1. reader' = [pc |-> "paging", query |-> query, packageId |-> id, offset |-> 0,
                   collected |-> <<>>, error |-> "none", pkg |-> Absent]
    BY <1>1, <1>5 DEF NoReader
  <2> HIDE DEF id
  <2>2. <<>> \in Seq(Answered) /\ Len(<<>>) = 0 BY EmptySeq
  <2>3. reader' \in ReaderType BY <1>2, <2>1, <2>2 DEF ReaderType
  <2>4. TypeOK' BY <1>3, <2>3 DEF TypeOK, Inv
  <2>5. Placed' BY <1>2, <1>5, <2>1, <2>2 DEF Placed
  <2>6. Continues' BY <2>1 DEF Continues
  <2>7. AllHinted' BY <2>1 DEF AllHinted
  <2>8. AskingIsOpen' BY <1>3 DEF AskingIsOpen, Inv
  <2> QED BY <2>4, <2>5, <2>6, <2>7, <2>8 DEF Inv
<1> QED BY <1>4, <1>5

LEMMA NextPageInv == Inv /\ NextPage => Inv'
<1> SUFFICES ASSUME Inv, NextPage PROVE Inv' OBVIOUS
<1> DEFINE id == reader.packageId
           query == reader.query
           pkg == Read(id)
           answer == Answer(pkg, id, query, reader.offset)
           offset == reader.offset + Len(answer.items)
<1>1. /\ reader.pc = "paging"
      /\ cached' = [cached EXCEPT ![id] = pkg]
      /\ UNCHANGED <<published, lookup>>
      /\ renewed' = (renewed \/ (reader.pkg # Absent /\ pkg # reader.pkg))
  BY DEF NextPage, CacheRead
<1>2. reader' = IF pkg = Absent THEN [reader EXCEPT !.pc = "failed", !.error = "PACKAGE_NOT_FOUND"]
                ELSE [reader EXCEPT !.offset = offset, !.pkg = pkg,
                                    !.collected = @ \o answer.items,
                                    !.pc = IF answer.items = <<>> \/ offset >= answer.totalCount
                                           THEN "done" ELSE "paging"]
  BY DEF NextPage, Answer
<1>3. /\ query \in Queries /\ id \in PackageIds /\ id # Absent
      /\ reader.offset = Len(reader.collected) /\ reader.offset \in Nat
      /\ reader.collected \in Seq(Answered)
  BY <1>1 DEF Inv, Placed, TypeOK, ReaderType
<1>4. pkg \in Packages \cup {Absent} /\ pkg \in Versions[id] \cup {Absent}
  BY <1>3, ReadType DEF Inv
<1>5. /\ cached' \in [PackageIds -> Packages \cup {Absent}]
      /\ \A i \in PackageIds : published'[i] \in Versions[i] /\ cached'[i] \in Versions[i] \cup {Absent}
  <2> HIDE DEF pkg, id
  <2> QED BY <1>1, <1>3, <1>4 DEF Inv, TypeOK
<1>6. AskingIsOpen' BY <1>1 DEF AskingIsOpen, Inv
<1>7. renewed' \in BOOLEAN
  <2> HIDE DEF pkg, id
  <2>1. renewed \in BOOLEAN BY DEF Inv, TypeOK
  <2> QED BY <1>1, <2>1, Zenon
<1>8. CASE pkg = Absent
  <2>1. reader' = [reader EXCEPT !.pc = "failed", !.error = "PACKAGE_NOT_FOUND"] BY <1>2, <1>8
  <2> HIDE DEF pkg
  <2>2. reader' \in ReaderType BY <2>1 DEF Inv, TypeOK, ReaderType
  <2>3. TypeOK' BY <1>1, <1>5, <1>7, <2>2 DEF TypeOK, Inv
  <2>4. /\ reader'.pc = "failed" /\ reader'.collected = reader.collected /\ reader'.query = query
        /\ reader'.packageId = id /\ reader'.offset = reader.offset
    BY <2>1 DEF Inv, TypeOK, ReaderType
  <2>5. Placed' BY <1>3, <2>4 DEF Placed
  <2>6. Continues' BY <2>4 DEF Continues
  <2>7. AllHinted' BY <2>4 DEF AllHinted, Inv
  <2> QED BY <1>6, <2>3, <2>5, <2>6, <2>7 DEF Inv
<1>9. CASE pkg # Absent
  <2> DEFINE pc == IF answer.items = <<>> \/ offset >= answer.totalCount THEN "done" ELSE "paging"
  <2>1. reader' = [reader EXCEPT !.offset = offset, !.pkg = pkg, !.collected = @ \o answer.items,
                                 !.pc = pc]
    BY <1>2, <1>9
  <2>2. pkg \in Packages BY <1>4, <1>9
  <2>3. /\ answer.items \in Seq(Answered)
        /\ answer.totalCount = Len(Matching(pkg, query))
        /\ answer.totalCount \in Nat
        /\ query.field = "cfAssociations" => \A i \in DOMAIN answer.items : Hinted(answer.items[i], id)
    <3> HIDE DEF pkg, id, query
    <3> QED BY <1>3, <2>2, AnswerType
  <2> HIDE DEF pkg, answer
  <2>4. Len(answer.items) \in Nat BY <2>3, LenProperties
  <2> DEFINE got == reader.collected
             start == reader.offset
  <2>14. got \in Seq(Answered) /\ start = Len(got) /\ start \in Nat BY <1>3
  <2>15. answer.items \in Seq(Answered) BY <2>3
  <2> HIDE DEF got, start
  <2>16. /\ got \o answer.items \in Seq(Answered)
         /\ Len(got \o answer.items) = start + Len(answer.items)
         /\ \A i \in 1..start + Len(answer.items) : (got \o answer.items)[i] =
               IF i <= start THEN got[i] ELSE answer.items[i - start]
    BY <2>14, <2>15, ConcatProperties
  <2>5. /\ reader.collected \o answer.items \in Seq(Answered)
        /\ Len(reader.collected \o answer.items) = offset
        /\ \A i \in 1..offset : (reader.collected \o answer.items)[i] =
               IF i <= reader.offset THEN reader.collected[i] ELSE answer.items[i - reader.offset]
    BY <2>16 DEF got, start
  <2>6. offset \in Nat /\ offset = start + Len(answer.items) BY <2>4, <2>14 DEF start
  <2>7. pc \in {"done", "paging"} OBVIOUS
  <2> HIDE DEF offset, pc
  <2>8. /\ reader'.pc = pc /\ reader'.query = query /\ reader'.packageId = id
        /\ reader'.offset = offset /\ reader'.collected = reader.collected \o answer.items
        /\ reader'.pkg = pkg
        /\ reader' \in ReaderType
    BY <2>1, <2>2, <2>5, <2>6, <2>7 DEF Inv, TypeOK, ReaderType
  <2>9. TypeOK' BY <1>1, <1>5, <1>7, <2>8 DEF TypeOK, Inv
  <2>10. Placed'
    <3>1. pc = "paging" => pkg # Absent BY <1>9
    <3> HIDE DEF id, query
    <3> QED BY <1>3, <1>9, <2>5, <2>8 DEF Placed
  <2>11. AllHinted'
    <3> SUFFICES ASSUME query.field = "cfAssociations", NEW i \in DOMAIN reader'.collected
                 PROVE  Hinted(reader'.collected[i], id)
      BY <2>8 DEF AllHinted
    <3>1. i \in 1..offset BY <2>5, <2>8, LenProperties
    <3>2. DOMAIN reader.collected = 1..reader.offset BY <1>3, LenProperties
    <3>3. DOMAIN answer.items = 1..Len(answer.items) BY <2>3, LenProperties
    <3>4. CASE i <= reader.offset
      <4>1. i \in DOMAIN reader.collected /\ reader.collected # <<>> BY <1>3, <3>1, <3>2, <3>4
      <4>2. Hinted(reader.collected[i], id) BY <4>1 DEF Inv, AllHinted
      <4> QED BY <2>5, <2>8, <3>1, <3>4, <4>2
    <3>5. CASE i > reader.offset
      <4>1. i - reader.offset \in DOMAIN answer.items
        <5>1. i > start /\ i \in 1..offset BY <3>1, <3>5 DEF start
        <5>2. i - start \in 1..Len(answer.items) BY <2>4, <2>6, <2>14, <5>1
        <5> QED BY <3>3, <5>2 DEF start
      <4>2. Hinted(answer.items[i - reader.offset], id) BY <2>3, <4>1
      <4>3. reader'.collected[i] = answer.items[i - reader.offset] BY <1>3, <2>5, <2>8, <3>1, <3>5
      <4> QED BY <4>2, <4>3
    <3> QED BY <1>3, <3>1, <3>4, <3>5
  <2>12. Continues'
    <3> DEFINE rows == Matching(pkg, query)
    <3> SUFFICES ASSUME ~renewed', query.limit = Absent \/ query.limit > 0
                 PROVE  /\ offset <= Len(rows)
                        /\ \A i \in 1..offset : reader'.collected[i].identifier = rows[i].identifier
                        /\ pc = "done" => offset = Len(rows)
      BY <2>8 DEF Continues
    <3>1. ~renewed /\ (reader.pkg # Absent => reader.pkg = pkg)
      <4> HIDE DEF id, query
      <4> QED BY <1>1, Zenon
    <3>2. Len(rows) \in Nat BY <2>3
    <3>3. /\ reader.offset <= Len(rows)
          /\ \A i \in 1..reader.offset : reader.collected[i].identifier = rows[i].identifier
      <4>1. CASE reader.pkg = Absent
        <5>1. reader.offset = 0 BY <1>1, <4>1 DEF Inv, Placed
        <5> QED BY <5>1, <3>2
      <4>2. CASE reader.pkg # Absent BY <1>1, <3>1, <4>2 DEF Inv, Continues
      <4> QED BY <4>1, <4>2
    <3>4. reader.offset \in 0..Len(rows) BY <1>3, <3>2, <3>3
    <3>5. /\ reader.offset + Len(answer.items) <= Len(rows)
          /\ Len(answer.items) = 0 => reader.offset = Len(rows)
          /\ \A i \in 1..Len(answer.items) :
                answer.items[i].identifier = rows[reader.offset + i].identifier
      <4> HIDE DEF id, query
      <4> QED BY <1>3, <2>2, <3>4, AnswerContinues DEF answer
    <3> HIDE DEF rows
    <3>6. offset <= Len(rows) BY <3>5 DEF offset
    <3>7. ASSUME NEW i \in 1..offset PROVE reader'.collected[i].identifier = rows[i].identifier
      <4>1. CASE i <= reader.offset
        <5>1. reader'.collected[i] = reader.collected[i]
          <6>1. i <= start BY <4>1 DEF start
          <6> QED BY <2>6, <2>8, <2>16, <6>1 DEF got
        <5>2. i \in 1..reader.offset BY <1>3, <4>1
        <5> QED BY <3>3, <5>1, <5>2
      <4>2. CASE i > reader.offset
        <5>0. i \in Int /\ i > start BY <2>6, <4>2 DEF start
        <5>1. i - start \in 1..Len(answer.items) BY <2>4, <2>6, <2>14, <5>0
        <5>2. start + (i - start) = i BY <2>14, <5>0
        <5>3. reader'.collected[i] = answer.items[i - start]
          <6>1. ~(i <= start) BY <2>14, <5>0
          <6> QED BY <2>6, <2>8, <2>16, <6>1 DEF got
        <5>4. answer.items[i - start].identifier = rows[start + (i - start)].identifier
          BY <3>5, <5>1 DEF start
        <5> QED BY <5>2, <5>3, <5>4
      <4>3. i <= reader.offset \/ i > reader.offset BY <2>6, <2>14 DEF start
      <4> QED BY <4>1, <4>2, <4>3
    <3>8. ASSUME pc = "done" PROVE offset = Len(rows)
      <4>1. answer.items = <<>> \/ offset >= answer.totalCount BY <3>8 DEF pc
      <4>2. CASE answer.items = <<>> BY <1>3, <3>2, <3>5, <4>2 DEF offset
      <4>3. CASE offset >= answer.totalCount BY <2>3, <2>6, <3>2, <3>6, <4>3 DEF rows
      <4> QED BY <4>1, <4>2, <4>3
    <3> QED BY <3>6, <3>7, <3>8
  <2> QED BY <1>6, <2>9, <2>10, <2>11, <2>12 DEF Inv
<1> QED BY <1>8, <1>9

\* An endpoint that a client may ask about is of the package it queried.
LEMMA EndpointsHinted ==
    ASSUME Inv, reader.query.field = "cfAssociations", NEW endpoint \in Endpoints
    PROVE  /\ endpoint \in Endpoint
           /\ endpoint.package = reader.packageId
           /\ reader.packageId \in PackageIds /\ reader.packageId # Absent
<1> DEFINE got == reader.collected
<1>1. got \in Seq(Answered) BY DEF Inv, TypeOK, ReaderType
<1>2. PICK i \in DOMAIN got : endpoint \in {got[i].origin, got[i].destination}
  BY DEF Endpoints, ToSet
<1>3. got # <<>> /\ got[i] \in Answered
  <2>1. DOMAIN got = 1..Len(got) BY <1>1, LenProperties
  <2>2. got # <<>> BY <1>2
  <2> QED BY <1>1, <1>2, <2>1, <2>2, ElementOfSeq
<1>4. Hinted(got[i], reader.packageId) BY <1>2, <1>3 DEF Inv, AllHinted
<1>5. reader.packageId \in PackageIds /\ reader.packageId # Absent BY <1>3 DEF Inv, Placed
<1>6. endpoint.package = reader.packageId BY <1>2, <1>4 DEF Hinted
<1>7. endpoint \in Endpoint BY <1>2, <1>4 DEF Hinted, TaggedAssociation
<1> QED BY <1>5, <1>6, <1>7
\* An item is found by its identifier, and an item that is found is there.
LEMMA NamedItems ==
    ASSUME NEW pkg \in Packages \cup {Absent}, NEW identifier, NEW item \in Named(ItemsOf(pkg), identifier)
    PROVE  item \in CFItem /\ item # Absent /\ item.identifier = identifier
<1>1. pkg # Absent /\ item \in ToSet(pkg.CFItems) /\ item.identifier = identifier
  BY DEF Named, ItemsOf
<1>2. pkg.CFItems \in Seq(CFItem) BY <1>1 DEF Packages
<1>3. PICK i \in DOMAIN pkg.CFItems : item = pkg.CFItems[i] BY <1>1 DEF ToSet
<1>4. DOMAIN pkg.CFItems = 1..Len(pkg.CFItems) BY <1>2, LenProperties
<1>5. item \in CFItem BY <1>2, <1>3, <1>4, ElementOfSeq
<1> QED BY <1>1, <1>5, PackageAssumption

\* What resolving an endpoint does: an item of the package that the association
\* came from, or a request only if that package is not cached or has no such item.
LEMMA ResolveEndpointStep ==
    ASSUME Inv, ResolveEndpoint
    PROVE  \E endpoint \in Endpoint :
              /\ lookup'.endpoint = endpoint
              /\ lookup' \in LookupType
              /\ \/ /\ lookup'.pc = "answered" /\ lookup'.item # Absent
                    /\ lookup'.item.identifier = endpoint.identifier
                 \/ /\ lookup'.pc = "asking" /\ lookup'.item = Absent
                    /\ Named(ItemsOf(cached[reader.packageId]), endpoint.identifier) = {}
<1>1. PICK endpoint \in Endpoints :
        LET here == IF endpoint.package = Absent THEN {}
                    ELSE Named(ItemsOf(cached[endpoint.package]), endpoint.identifier)
        IN lookup' = IF here # {}
                     THEN [NoLookup EXCEPT !.pc = "answered", !.endpoint = endpoint,
                                           !.item = CHOOSE item \in here : TRUE]
                     ELSE [NoLookup EXCEPT !.pc = "asking", !.endpoint = endpoint, !.live = TRUE]
  BY DEF ResolveEndpoint
<1> DEFINE pkg == cached[reader.packageId]
           here == Named(ItemsOf(pkg), endpoint.identifier)
           item == CHOOSE item \in here : TRUE
<1>2. /\ endpoint \in Endpoint
      /\ endpoint.package = reader.packageId
      /\ reader.packageId \in PackageIds /\ reader.packageId # Absent
  BY EndpointsHinted DEF ResolveEndpoint
<1>3. pkg \in Packages \cup {Absent} BY <1>2 DEF Inv, TypeOK
<1>4. CASE here # {}
  <2>1. lookup' = [pc |-> "answered", endpoint |-> endpoint, item |-> item, live |-> FALSE]
    BY <1>1, <1>2, <1>4 DEF NoLookup
  <2>2. item \in here BY <1>4
  <2> HIDE DEF item, pkg
  <2>3. item \in CFItem /\ item # Absent /\ item.identifier = endpoint.identifier
    BY <1>3, <2>2, NamedItems
  <2> HIDE DEF here
  <2>4. lookup' \in LookupType BY <1>2, <2>1, <2>3 DEF LookupType
  <2> QED BY <1>2, <2>1, <2>3, <2>4
<1>5. CASE here = {}
  <2>1. lookup' = [pc |-> "asking", endpoint |-> endpoint, item |-> Absent, live |-> TRUE]
    BY <1>1, <1>2, <1>5 DEF NoLookup
  <2>2. lookup' \in LookupType BY <1>2, <2>1 DEF LookupType
  <2> QED BY <1>2, <1>5, <2>1, <2>2
<1> QED BY <1>4, <1>5

\* What the live request answers: an item of that name, or none if no package of
\* the server has it.
LEMMA AnswerLiveStep ==
    ASSUME Inv, AnswerLive
    PROVE  /\ lookup' \in LookupType
           /\ lookup'.pc = "answered"
           /\ lookup'.endpoint = lookup.endpoint
           /\ IF lookup'.item = Absent
              THEN \A id \in PackageIds : Named(ItemsOf(published[id]), lookup.endpoint.identifier) = {}
              ELSE lookup'.item.identifier = lookup.endpoint.identifier
<1> DEFINE name == lookup.endpoint.identifier
           there == Named(UNION {ItemsOf(published[id]) : id \in PackageIds}, name)
<1>1. lookup.pc = "asking" /\ lookup.item = Absent /\ lookup \in LookupType
  BY DEF AnswerLive, Inv, AskingIsOpen, TypeOK
<1>2. CASE there = {}
  <2>1. lookup' = [lookup EXCEPT !.pc = "answered"] BY <1>2 DEF AnswerLive
  <2>2. lookup' \in LookupType /\ lookup'.item = Absent /\ lookup'.endpoint = lookup.endpoint
        /\ lookup'.pc = "answered"
    BY <1>1, <2>1 DEF LookupType
  <2>3. \A id \in PackageIds : Named(ItemsOf(published[id]), name) = {} BY <1>2 DEF Named
  <2> QED BY <2>2, <2>3
<1>3. CASE there # {}
  <2>1. PICK item \in there : lookup' = [lookup EXCEPT !.pc = "answered", !.item = item]
    BY <1>3 DEF AnswerLive
  <2>2. PICK id \in PackageIds : item \in Named(ItemsOf(published[id]), name) BY DEF Named
  <2>3. published[id] \in Packages \cup {Absent} BY DEF Inv, TypeOK
  <2>4. item \in CFItem /\ item # Absent /\ item.identifier = name BY <2>2, <2>3, NamedItems
  <2>5. lookup' \in LookupType /\ lookup'.item = item /\ lookup'.endpoint = lookup.endpoint
        /\ lookup'.pc = "answered"
    BY <1>1, <2>1, <2>4 DEF LookupType
  <2> QED BY <2>4, <2>5
<1> QED BY <1>2, <1>3

\* A step that leaves the reader alone.
LEMMA SameReader ==
    ASSUME Inv, UNCHANGED <<reader, renewed>>
    PROVE  Placed' /\ Continues' /\ AllHinted'
<1>1. Placed' BY DEF Inv, Placed
<1>2. Continues' BY DEF Inv, Continues
<1>3. AllHinted' BY DEF Inv, AllHinted
<1> QED BY <1>1, <1>2, <1>3

LEMMA NextInv == Inv /\ [Next]_vars => Inv'
<1> SUFFICES ASSUME Inv, [Next]_vars PROVE Inv' OBVIOUS
<1>1. CASE Ask BY <1>1, AskInv
<1>2. CASE NextPage BY <1>2, NextPageInv
<1>3. CASE ResolveEndpoint
  <2>1. UNCHANGED <<published, cached, reader, renewed>> BY <1>3 DEF ResolveEndpoint
  <2>2. lookup' \in LookupType /\ AskingIsOpen' BY <1>3, ResolveEndpointStep DEF AskingIsOpen
  <2>3. TypeOK' BY <2>1, <2>2 DEF Inv, TypeOK
  <2> QED BY <2>1, <2>2, <2>3, SameReader DEF Inv
<1>4. CASE AnswerLive
  <2>1. UNCHANGED <<published, cached, reader, renewed>> BY <1>4 DEF AnswerLive
  <2>2. lookup' \in LookupType /\ lookup'.pc = "answered" BY <1>4, AnswerLiveStep
  <2>3. TypeOK' BY <2>1, <2>2 DEF Inv, TypeOK
  <2>4. AskingIsOpen' BY <2>2 DEF AskingIsOpen
  <2> QED BY <2>1, <2>3, <2>4, SameReader DEF Inv
<1>5. CASE Republish
  <2>1. PICK id \in PackageIds : \E version \in Versions[id] :
            published' = [published EXCEPT ![id] = version]
    BY <1>5 DEF Republish
  <2>2. PICK version \in Versions[id] : published' = [published EXCEPT ![id] = version] BY <2>1
  <2>3. UNCHANGED <<cached, reader, lookup, renewed>> BY <1>5 DEF Republish
  <2>4. version \in Packages \cup {Absent} BY PackageAssumption
  <2>5. TypeOK' BY <2>2, <2>3, <2>4 DEF Inv, TypeOK
  <2>6. AskingIsOpen' BY <2>3 DEF Inv, AskingIsOpen
  <2> QED BY <2>3, <2>5, <2>6, SameReader DEF Inv
<1>6. CASE AgeOut
  <2>1. PICK id \in PackageIds : cached' = [cached EXCEPT ![id] = Absent] BY <1>6 DEF AgeOut
  <2>2. UNCHANGED <<published, reader, lookup, renewed>> BY <1>6 DEF AgeOut
  <2>3. TypeOK' BY <2>1, <2>2 DEF Inv, TypeOK
  <2>4. AskingIsOpen' BY <2>2 DEF Inv, AskingIsOpen
  <2> QED BY <2>2, <2>3, <2>4, SameReader DEF Inv
<1>7. CASE UNCHANGED vars
  <2>1. UNCHANGED <<published, cached, reader, lookup, renewed>> BY <1>7 DEF vars
  <2>2. TypeOK' BY <2>1 DEF Inv, TypeOK
  <2>3. AskingIsOpen' BY <2>1 DEF Inv, AskingIsOpen
  <2> QED BY <2>1, <2>2, <2>3, SameReader DEF Inv
<1> QED BY <1>1, <1>2, <1>3, <1>4, <1>5, <1>6, <1>7 DEF Next

LEMMA Invariance == Spec => []Inv
BY InitInv, NextInv, PTL DEF Spec

-----------------------------------------------------------------------------
(***************************************************************************)
(* The theorems.                                                           *)
(***************************************************************************)

\* Every variable has its type, and what the server and the cache hold under an
\* id are versions of that package (client.ts, packageCache).
THEOREM TypeCorrect == Spec => []TypeOK
<1>1. Inv => TypeOK BY DEF Inv
<1> QED BY <1>1, Invariance, PTL

\* The counts of cfItemTypes agree with the totals of cfItems, whatever the
\* package holds (getCFItemTypeCounts and getCFItems).
THEOREM CountsAgreeHolds == Spec => []CountsAgree
<1>1. Inv => CountsAgree
  <2> SUFFICES ASSUME Inv, NEW id \in PackageIds, cached[id] # Absent
               PROVE  LET counts == GetCFItemTypeCounts(cached[id])
                          total(type) == GetCFItems(cached[id], [itemType |-> type], 1, 0).totalCount
                      IN /\ \A type \in DOMAIN counts : total(type) = counts[type]
                         /\ SumFunction(counts) = total(Absent)
    BY DEF CountsAgree
  <2>1. cached[id] \in Packages BY DEF Inv, TypeOK
  <2> QED BY <2>1, CountIsTotal, TotalOfAll, CountsAddUp
<1> QED BY <1>1, Invariance, PTL

\* What a client of a query that is done was sent is what it asked for, once
\* (getCFItems and getCFAssociations, over their pages).
THEOREM PagingIsExactHolds == Spec => []PagingIsExact
<1>1. Inv => PagingIsExact
  <2> SUFFICES ASSUME Inv, reader.pc = "done", ~renewed,
                      reader.query.limit = Absent \/ reader.query.limit > 0
               PROVE  /\ {reader.collected[i].identifier : i \in DOMAIN reader.collected}
                            = {Rows[i].identifier : i \in Wanted}
                      /\ Len(reader.collected) = Cardinality(Wanted)
    BY DEF PagingIsExact
  <2> DEFINE pkg == reader.pkg
             query == reader.query
             rows == Matching(pkg, query)
             got == reader.collected
  <2>1. query \in Queries /\ pkg \in Packages /\ got \in Seq(Answered) /\ reader.offset = Len(got)
    BY DEF Inv, Placed, TypeOK, ReaderType
  <2>2. query.field \in {"cfItems", "cfAssociations"} BY <2>1, QueryAssumption
  <2>3. /\ Len(got) = Len(rows)
        /\ \A i \in 1..Len(got) : got[i].identifier = rows[i].identifier
    BY <2>1 DEF Inv, Continues, Placed
  <2>4. /\ Wanted \in SUBSET DOMAIN Rows
        /\ rows = Filter(Rows, Wanted)
        /\ Rows \in Seq(CFItem) \/ Rows \in Seq(CFAssociation)
    <3>1. CASE query.field = "cfItems"
      BY <2>1, <3>1 DEF Rows, Wanted, Matching, MatchingItems, Packages
    <3>2. CASE query.field = "cfAssociations"
      BY <2>1, <3>2 DEF Rows, Wanted, Matching, MatchingAssociations, Packages
    <3> QED BY <2>2, <3>1, <3>2
  <2> HIDE DEF rows
  <2>5. /\ Len(rows) = Cardinality(Wanted)
        /\ DOMAIN rows = 1..Cardinality(Wanted)
        /\ \A n \in DOMAIN rows : \E i \in Wanted : rows[n] = Rows[i]
        /\ \A i \in Wanted : \E n \in DOMAIN rows : rows[n] = Rows[i]
    BY <2>4, FilterExact
  <2>6. DOMAIN got = DOMAIN rows BY <2>1, <2>3, <2>5, LenProperties
  <2>7. \A i \in DOMAIN got : got[i].identifier = rows[i].identifier BY <2>3, <2>5, <2>6
  <2>8. {got[i].identifier : i \in DOMAIN got} = {Rows[i].identifier : i \in Wanted}
    <3>1. ASSUME NEW i \in DOMAIN got PROVE got[i].identifier \in {Rows[k].identifier : k \in Wanted}
      BY <2>5, <2>6, <2>7
    <3>2. ASSUME NEW k \in Wanted PROVE Rows[k].identifier \in {got[i].identifier : i \in DOMAIN got}
      BY <2>5, <2>6, <2>7
    <3> QED BY <3>1, <3>2
  <2> QED BY <2>3, <2>5, <2>8
<1> QED BY <1>1, Invariance, PTL

\* An endpoint's item is the one it names, null only if the server has none, and
\* needs no request while its own package is cached (resolvers.ts,
\* CFAssociationEndpoint.item).
THEOREM EndpointItemsHolds == Spec => EndpointItems
<1> DEFINE Found == lookup' # lookup =>
          /\ lookup'.pc = "answered" =>
                IF lookup'.item = Absent
                THEN \A id \in PackageIds : Named(ItemsOf(published[id]), lookup'.endpoint.identifier) = {}
                ELSE lookup'.item.identifier = lookup'.endpoint.identifier
          /\ lookup'.pc = "asking" =>
                Named(ItemsOf(cached[reader.packageId]), lookup'.endpoint.identifier) = {}
<1>1. Inv /\ [Next]_vars => [Found]_vars
  <2> SUFFICES ASSUME Inv, Next, lookup' # lookup PROVE Found OBVIOUS
  <2>1. ResolveEndpoint \/ AnswerLive BY DEF Next, Ask, NextPage, Republish, AgeOut
  <2>2. CASE ResolveEndpoint BY <2>2, ResolveEndpointStep
  <2>3. CASE AnswerLive BY <2>3, AnswerLiveStep
  <2> QED BY <2>1, <2>2, <2>3
<1> QED BY <1>1, Invariance, PTL DEF Spec, EndpointItems
=============================================================================
