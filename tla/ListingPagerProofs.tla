-------------------------- MODULE ListingPagerProofs --------------------------
(***************************************************************************)
(* Proofs about ListingPager for every set of frameworks, page size, bound *)
(* on pages, and whatever servers put into X-Total-Count.                  *)
(***************************************************************************)
EXTENDS ListingPager, TLAPS, SequenceTheorems, FiniteSetTheorems

-----------------------------------------------------------------------------
(***************************************************************************)
(* The inductive invariant.  While a server that honours the offset drops   *)
(* nothing, whatever it puts in where, all that it had at the beginning is *)
(* still there, and what precedes the offset has been seen: an insertion   *)
(* can only move a framework backwards, to where it is still to come or    *)
(* comes again.  If nothing came in before the offset, what has been seen  *)
(* is exactly what precedes it, so that no page repeats anything.          *)
(***************************************************************************)
States == {"start", "waiting", "listed", "failed"}

Endings == {"none", "empty", "repeated", "total", "pages"}

VariablesOK ==
    /\ held \in Listings /\ before \in Listings
    /\ honoursOffset \in BOOLEAN /\ states \in Totals
    /\ pc \in States
    /\ documents \subseteq Identifiers
    /\ offset \in Nat /\ pages \in 0..MaxPages
    /\ ending \in Endings
    /\ shrunk \in BOOLEAN /\ shifted \in BOOLEAN

Gaining == honoursOffset /\ ~shrunk

\* What begins a sequence, as a set.
FirstOf(seq, n) == {seq[i] : i \in 1..n}

BeforeIsKept == Gaining => Elements(before) \subseteq Elements(held)

PassedIsSeen ==
    Gaining => \A i \in 1..Len(held) : i <= offset /\ held[i] \in Elements(before) => held[i] \in documents

SeenIsPrefix == Gaining /\ ~shifted => offset <= Len(held) /\ documents = FirstOf(held, offset)

OffsetOK == BeforeIsKept /\ PassedIsSeen /\ SeenIsPrefix

Inv ==
    /\ VariablesOK
    /\ pc = "start" => pages = 0 /\ offset = 0 /\ documents = {}
    /\ pc = "waiting" => OffsetOK
    /\ ListingIsComplete
    /\ RequestsPayOff

-----------------------------------------------------------------------------
(***************************************************************************)
(* Listings and pages.                                                     *)
(***************************************************************************)
LEMMA ListingFacts ==
    ASSUME NEW seq \in Listings
    PROVE  /\ seq \in Seq(Identifiers)
           /\ Len(seq) \in Nat
           /\ DOMAIN seq = 1..Len(seq)
           /\ \A i \in 1..Len(seq) : seq[i] \in Identifiers
           /\ \A i, j \in 1..Len(seq) : seq[i] = seq[j] => i = j
<1>1. seq \in Seq(Identifiers) BY DEF Listings
<1>2. Len(seq) \in Nat /\ DOMAIN seq = 1..Len(seq) BY <1>1
<1>3. \A i \in 1..Len(seq) : seq[i] \in Identifiers BY <1>1, <1>2
<1>4. \A i, j \in 1..Len(seq) : seq[i] = seq[j] => i = j BY <1>2 DEF Listings
<1> QED BY <1>1, <1>2, <1>3, <1>4

\* A page is the part of the listing that follows its offset: empty only at the
\* end of it, and of the listing's own documents.
LEMMA PageFacts ==
    ASSUME held \in Listings, NEW from \in Nat, NEW count \in Nat \ {0}
    PROVE  /\ PageAt(from, count) \in Seq(Identifiers)
           /\ PageAt(from, count) = <<>> <=> from >= Len(held)
           /\ from < Len(held) => from + Len(PageAt(from, count)) <= Len(held)
           /\ \A i \in 1..Len(PageAt(from, count)) : PageAt(from, count)[i] = held[from + i]
<1> DEFINE to == IF from + count <= Len(held) THEN from + count ELSE Len(held)
           page == PageAt(from, count)
<1>1. /\ held \in Seq(Identifiers) /\ Len(held) \in Nat
      /\ \A i \in 1..Len(held) : held[i] \in Identifiers
  BY ListingFacts
<1>2. to \in Nat /\ to <= Len(held) /\ from + 1 \in Int BY <1>1
<1>3. \A i \in from + 1..to : held[i] \in Identifiers BY <1>1, <1>2
<1>4. page = SubSeq(held, from + 1, to) BY DEF PageAt
<1> HIDE DEF page
<1>5. /\ page \in Seq(Identifiers)
      /\ Len(page) = IF from + 1 <= to THEN to - (from + 1) + 1 ELSE 0
      /\ \A i \in 1..to - (from + 1) + 1 : page[i] = held[from + 1 + i - 1]
  BY <1>2, <1>3, <1>4, SubSeqProperties
<1>6. \A i \in 1..Len(page) : page[i] = held[from + i] BY <1>2, <1>5
<1>7. Len(page) = 0 <=> from >= Len(held)
  <2>1. CASE from < Len(held) BY <1>1, <1>5, <2>1
  <2>2. CASE from >= Len(held) BY <1>1, <1>2, <1>5, <2>2
  <2> QED BY <1>1, <2>1, <2>2
<1>8. page = <<>> <=> Len(page) = 0 BY <1>5, EmptySeq
<1>9. from < Len(held) => from + Len(page) <= Len(held) BY <1>1, <1>2, <1>5
<1> QED BY <1>5, <1>6, <1>7, <1>8, <1>9 DEF page

-----------------------------------------------------------------------------
(***************************************************************************)
(* The invariant holds initially and is kept by every step.                *)
(***************************************************************************)
LEMMA InitInv == Init => Inv
<1> SUFFICES ASSUME Init PROVE Inv OBVIOUS
<1>1. <<>> \in Listings
  <2>1. <<>> \in Seq(Identifiers) /\ DOMAIN <<>> = {} BY EmptySeq
  <2> QED BY <2>1 DEF Listings
<1>2. VariablesOK
  <2>1. pages \in 0..MaxPages /\ offset \in Nat BY PagerAssumption DEF Init
  <2>2. shrunk \in BOOLEAN /\ shifted \in BOOLEAN BY Zenon DEF Init
  <2>3. /\ held \in Listings /\ before \in Listings /\ honoursOffset \in BOOLEAN /\ states \in Totals
        /\ pc \in States /\ documents \subseteq Identifiers /\ ending \in Endings
    BY <1>1 DEF Init, States, Endings
  <2> QED BY <2>1, <2>2, <2>3 DEF VariablesOK
<1>3. Cardinality({}) = 0 /\ Cardinality(documents) = 0 BY FS_EmptySet DEF Init
<1> QED BY <1>2, <1>3 DEF Init, Inv, ListingIsComplete, RequestsPayOff

\* Only what the listing knows changes `pc`; a server alone leaves Inv to what
\* it says of the server.
LEMMA PublishKeepsInv ==
    ASSUME Inv, Publish
    PROVE  Inv'
<1>1. PICK id \in Identifiers \ Elements(held), k \in 1..Len(held) + 1 :
         /\ held' = [j \in 1..Len(held) + 1 |->
                       IF j < k THEN held[j] ELSE IF j = k THEN id ELSE held[j - 1]]
         /\ shifted' = (shifted \/ k <= offset)
  BY DEF Publish
<1>2. VariablesOK /\ held \in Listings /\ before \in Listings BY DEF Inv, VariablesOK
<1>3. /\ held \in Seq(Identifiers) /\ Len(held) \in Nat /\ DOMAIN held = 1..Len(held)
      /\ \A i \in 1..Len(held) : held[i] \in Identifiers
      /\ \A i, j \in 1..Len(held) : held[i] = held[j] => i = j
  BY <1>2, ListingFacts
<1>4. k \in Nat /\ k >= 1 /\ k <= Len(held) + 1 /\ Len(held) + 1 \in Nat BY <1>3
<1>5. \A i \in 1..Len(held) : held[i] # id BY <1>1, <1>3 DEF Elements
<1>6. \A j \in 1..Len(held) + 1 :
        /\ j < k => j \in 1..Len(held) /\ held'[j] = held[j]
        /\ j = k => held'[j] = id
        /\ j > k => j - 1 \in 1..Len(held) /\ held'[j] = held[j - 1]
  BY <1>1, <1>3, <1>4
<1>7. /\ held' \in Seq(Identifiers) /\ Len(held') = Len(held) + 1
      /\ DOMAIN held' = 1..Len(held) + 1
  <2>1. \A j \in 1..Len(held) + 1 :
           (IF j < k THEN held[j] ELSE IF j = k THEN id ELSE held[j - 1]) \in Identifiers
    BY <1>1, <1>3, <1>4
  <2>2. held' \in Seq(Identifiers) BY <1>1, <1>4, <2>1, IsASeq
  <2>3. DOMAIN held' = 1..Len(held) + 1 BY <1>1
  <2> QED BY <1>4, <2>2, <2>3, LenProperties
<1>8. held' \in Listings
  <2> SUFFICES ASSUME NEW i \in 1..Len(held) + 1, NEW j \in 1..Len(held) + 1, held'[i] = held'[j]
               PROVE  i = j
    BY <1>7 DEF Listings
  <2>1. i \in Int /\ j \in Int BY <1>4
  <2>2. CASE i = k BY <1>4, <1>5, <1>6, <2>1, <2>2
  <2>3. CASE j = k BY <1>4, <1>5, <1>6, <2>1, <2>3
  <2>4. CASE i < k /\ j < k BY <1>3, <1>6, <2>4
  <2>5. CASE i < k /\ j > k
    <3>1. i = j - 1 BY <1>3, <1>6, <2>5
    <3> QED BY <1>4, <2>1, <2>5, <3>1
  <2>6. CASE i > k /\ j < k
    <3>1. i - 1 = j BY <1>3, <1>6, <2>6
    <3> QED BY <1>4, <2>1, <2>6, <3>1
  <2>7. CASE i > k /\ j > k
    <3>1. i - 1 = j - 1 BY <1>3, <1>6, <2>7
    <3> QED BY <2>1, <3>1
  <2> QED BY <1>4, <2>1, <2>2, <2>3, <2>4, <2>5, <2>6, <2>7
<1>9. UNCHANGED <<honoursOffset, states, shrunk, pc, documents, offset, pages, ending, before>>
  BY DEF Publish, pager
<1>10. VariablesOK'
  <2>1. shifted' \in BOOLEAN BY <1>1, Zenon
  <2> QED BY <1>2, <1>8, <1>9, <2>1 DEF VariablesOK
<1>11. ~shifted' => ~shifted /\ ~(k <= offset) BY <1>1, Zenon
<1>12. pc = "waiting" => OffsetOK'
  <2> SUFFICES ASSUME pc = "waiting", Gaining PROVE OffsetOK'
    BY <1>9 DEF OffsetOK, BeforeIsKept, PassedIsSeen, SeenIsPrefix, Gaining
  <2>1. BeforeIsKept /\ PassedIsSeen /\ SeenIsPrefix BY DEF Inv, OffsetOK
  <2>2. offset \in Nat BY <1>2 DEF VariablesOK
  <2>3. Elements(before) \subseteq Elements(held) BY <2>1 DEF BeforeIsKept
  <2>4. \A i \in 1..Len(held) : i <= offset /\ held[i] \in Elements(before) => held[i] \in documents
    BY <2>1 DEF PassedIsSeen
  <2>5. Elements(held) \subseteq Elements(held')
    <3> SUFFICES ASSUME NEW i \in 1..Len(held) PROVE \E j \in 1..Len(held) + 1 : held'[j] = held[i]
      BY <1>3, <1>7 DEF Elements
    <3>1. CASE i < k
      <4>1. i \in 1..Len(held) + 1 /\ held'[i] = held[i] BY <1>3, <1>6, <3>1
      <4> QED BY <4>1
    <3>2. CASE ~(i < k)
      <4>1. i + 1 \in 1..Len(held) + 1 /\ i + 1 > k /\ (i + 1) - 1 = i BY <1>3, <1>4, <3>2
      <4>2. held'[i + 1] = held[i] BY <1>6, <4>1
      <4> QED BY <4>1, <4>2
    <3> QED BY <3>1, <3>2
  <2>6. BeforeIsKept' BY <1>9, <2>3, <2>5 DEF BeforeIsKept
  <2>7. PassedIsSeen'
    <3> SUFFICES ASSUME NEW i \in 1..Len(held) + 1, i <= offset, held'[i] \in Elements(before)
                 PROVE  held'[i] \in documents
      BY <1>7, <1>9 DEF PassedIsSeen
    <3>1. i \in Int BY <1>4
    <3>2. CASE i < k BY <1>6, <2>4, <3>2
    <3>3. CASE i = k
      <4>1. id \in Elements(held) BY <1>6, <2>3, <3>3
      <4> QED BY <1>1, <4>1
    <3>4. CASE i > k
      <4>1. i - 1 \in 1..Len(held) /\ held'[i] = held[i - 1] BY <1>6, <3>4
      <4>2. i - 1 <= offset BY <2>2, <3>1
      <4> QED BY <2>4, <4>1, <4>2
    <3> QED BY <1>4, <3>1, <3>2, <3>3, <3>4
  <2>8. SeenIsPrefix'
    <3> SUFFICES ASSUME ~shifted' PROVE offset <= Len(held') /\ documents = FirstOf(held', offset)
      BY <1>9 DEF SeenIsPrefix
    <3>1. offset < k BY <1>4, <1>11, <2>2
    <3>2. offset <= Len(held) /\ documents = FirstOf(held, offset) BY <1>11, <2>1 DEF SeenIsPrefix
    <3>3. \A i \in 1..offset : held'[i] = held[i] BY <1>3, <1>4, <1>6, <2>2, <3>1, <3>2
    <3>4. documents = FirstOf(held', offset) BY <3>2, <3>3 DEF FirstOf
    <3> QED BY <1>3, <1>7, <2>2, <3>2, <3>4
  <2> QED BY <2>6, <2>7, <2>8 DEF OffsetOK
<1>13. ListingIsComplete'
  <2>1. shifted => shifted' BY <1>11, Zenon
  <2> QED BY <1>9, <2>1 DEF Inv, ListingIsComplete
<1> QED BY <1>9, <1>10, <1>12, <1>13 DEF Inv, RequestsPayOff

LEMMA WithdrawKeepsInv ==
    ASSUME Inv, Withdraw
    PROVE  Inv'
<1>1. PICK i \in DOMAIN held :
         held' = [j \in 1..Len(held) - 1 |-> IF j < i THEN held[j] ELSE held[j + 1]]
  BY DEF Withdraw
<1>2. VariablesOK /\ held \in Listings BY DEF Inv, VariablesOK
<1>3. /\ held \in Seq(Identifiers) /\ Len(held) \in Nat /\ DOMAIN held = 1..Len(held)
      /\ \A k \in 1..Len(held) : held[k] \in Identifiers
      /\ \A k, l \in 1..Len(held) : held[k] = held[l] => k = l
  BY <1>2, ListingFacts
<1>4. held' \in Listings
  <2>1. i \in 1..Len(held) /\ Len(held) - 1 \in Nat BY <1>3
  <2>2. \A j \in 1..Len(held) - 1 : (IF j < i THEN held[j] ELSE held[j + 1]) \in Identifiers
    BY <1>3, <2>1
  <2>3. held' \in Seq(Identifiers) BY <1>1, <2>1, <2>2, IsASeq
  <2>4. DOMAIN held' = 1..Len(held) - 1 BY <1>1
  <2>5. \A k, l \in 1..Len(held) - 1 : held'[k] = held'[l] => k = l
    <3> SUFFICES ASSUME NEW k \in 1..Len(held) - 1, NEW l \in 1..Len(held) - 1, held'[k] = held'[l]
                 PROVE  k = l
      OBVIOUS
    <3>1. /\ held'[k] = IF k < i THEN held[k] ELSE held[k + 1]
          /\ held'[l] = IF l < i THEN held[l] ELSE held[l + 1]
      BY <1>1
    <3>2. k + 1 \in 1..Len(held) /\ l + 1 \in 1..Len(held) /\ k \in 1..Len(held) /\ l \in 1..Len(held)
      BY <2>1
    <3>3. CASE k < i /\ l < i BY <1>3, <3>1, <3>2, <3>3
    <3>4. CASE k < i /\ ~(l < i)
      <4>1. k = l + 1 BY <1>3, <3>1, <3>2, <3>4
      <4> QED BY <2>1, <3>4, <4>1
    <3>5. CASE ~(k < i) /\ l < i
      <4>1. k + 1 = l BY <1>3, <3>1, <3>2, <3>5
      <4> QED BY <2>1, <3>5, <4>1
    <3>6. CASE ~(k < i) /\ ~(l < i)
      <4>1. k + 1 = l + 1 BY <1>3, <3>1, <3>2, <3>6
      <4> QED BY <4>1
    <3> QED BY <3>3, <3>4, <3>5, <3>6
  <2> QED BY <2>3, <2>4, <2>5 DEF Listings
<1>5. /\ UNCHANGED <<honoursOffset, states, pc, documents, offset, pages, ending, before, shifted>>
      /\ shrunk' = TRUE
  BY DEF Withdraw, pager
<1>6. VariablesOK' BY <1>2, <1>4, <1>5 DEF VariablesOK
<1>7. OffsetOK' BY <1>5 DEF OffsetOK, BeforeIsKept, PassedIsSeen, SeenIsPrefix, Gaining
<1>8. ListingIsComplete' BY <1>5 DEF ListingIsComplete
<1> QED BY <1>5, <1>6, <1>7, <1>8 DEF Inv, RequestsPayOff

LEMMA StartKeepsInv ==
    ASSUME Inv, Start
    PROVE  Inv'
<1>1. VariablesOK /\ pages = 0 /\ offset = 0 /\ documents = {} BY DEF Inv, Start
<1>2. /\ pc' = "waiting" /\ pages' = 1 /\ before' = held /\ shrunk' = FALSE /\ shifted' = FALSE
      /\ UNCHANGED <<held, honoursOffset, states, documents, offset, ending>>
  BY DEF Start, server
<1>3. VariablesOK'
  <2>1. pages' \in 0..MaxPages /\ offset' \in Nat BY <1>1, <1>2, PagerAssumption
  <2>2. shrunk' \in BOOLEAN /\ shifted' \in BOOLEAN BY <1>2, Zenon
  <2> QED BY <1>1, <1>2, <2>1, <2>2 DEF VariablesOK, States
<1>4. Len(held) \in Nat BY <1>1, ListingFacts DEF VariablesOK
<1>5. FirstOf(held, 0) = {} BY DEF FirstOf
<1>6. OffsetOK'
  <2>1. \A i \in 1..Len(held) : ~(i <= 0) BY <1>4
  <2> QED BY <1>1, <1>2, <1>4, <1>5, <2>1 DEF OffsetOK, BeforeIsKept, PassedIsSeen, SeenIsPrefix
<1>7. RequestsPayOff'
  <2>1. Cardinality(documents') = 0 BY <1>1, <1>2, FS_EmptySet
  <2> QED BY <1>2, <2>1 DEF RequestsPayOff
<1> QED BY <1>2, <1>3, <1>6, <1>7 DEF Inv, ListingIsComplete

LEMMA GiveUpKeepsInv ==
    ASSUME Inv, GiveUp
    PROVE  Inv'
<1>1. pc' = "failed" /\ UNCHANGED <<held, honoursOffset, states, documents, offset, pages, ending, before, shrunk, shifted>>
  BY DEF GiveUp, server, history
<1> QED BY <1>1 DEF Inv, VariablesOK, States, ListingIsComplete, RequestsPayOff

\* What a page does, in the four ways a listing may go on.
LEMMA ReceivePageKeepsInv ==
    ASSUME Inv, ReceivePage
    PROVE  Inv'
<1> DEFINE from == IF honoursOffset THEN offset ELSE 0
<1>1. PICK count \in 1..PageSize : Take(GetCFDocuments(PageAt(from, count), TotalCountHeader))
  BY DEF ReceivePage
<1> DEFINE part == PageAt(from, count)
           page == GetCFDocuments(part, TotalCountHeader)
           n == Len(part)
<1>2. /\ pc = "waiting" /\ VariablesOK /\ BeforeIsKept /\ PassedIsSeen /\ SeenIsPrefix /\ RequestsPayOff
      /\ held \in Listings /\ before \in Listings
  BY DEF Inv, OffsetOK, ReceivePage, VariablesOK
<1>3. UNCHANGED <<held, honoursOffset, states, before, shrunk, shifted>> BY DEF ReceivePage, server, history
<1>4. from \in Nat /\ count \in Nat \ {0} BY <1>2, PagerAssumption DEF VariablesOK
<1>5. /\ part \in Seq(Identifiers)
      /\ part = <<>> <=> from >= Len(held)
      /\ from < Len(held) => from + n <= Len(held)
      /\ \A i \in 1..n : part[i] = held[from + i]
  BY <1>2, <1>4, PageFacts
<1>6. page.documents = part BY DEF GetCFDocuments
<1>7. Take(page) BY <1>1
<1> HIDE DEF part, page
<1>8. n \in Nat /\ DOMAIN part = 1..n /\ \A i \in 1..n : part[i] \in Identifiers BY <1>5
<1>9. part # <<>> => n \in Nat \ {0} BY <1>5, EmptySeq
<1>10. Elements(part) \subseteq Identifiers BY <1>8 DEF Elements
<1>11. /\ held \in Seq(Identifiers) /\ Len(held) \in Nat
       /\ \A i, j \in 1..Len(held) : held[i] = held[j] => i = j
  BY <1>2, ListingFacts
<1>12. Len(before) \in Nat /\ DOMAIN before = 1..Len(before) BY <1>2, ListingFacts
<1>13. /\ IsFiniteSet(documents) /\ Cardinality(documents) \in Nat
       /\ documents' \subseteq Identifiers => IsFiniteSet(documents') /\ Cardinality(documents') \in Nat
  BY <1>2, PagerAssumption, FS_Subset, FS_CardinalityType DEF VariablesOK
\* Once the offset is past the listing, all that there was is seen.
<1>14. ASSUME Gaining, NEW past \in Nat, past >= Len(held), NEW seen,
              \A i \in 1..Len(held) : i <= past /\ held[i] \in Elements(before) => held[i] \in seen
       PROVE  Elements(before) \subseteq seen
  <2>1. \A id \in Elements(before) : \E i \in 1..Len(held) : held[i] = id
    <3>1. Elements(before) \subseteq Elements(held) BY <1>2, <1>14 DEF BeforeIsKept
    <3>2. DOMAIN held = 1..Len(held) BY <1>11
    <3> QED BY <3>1, <3>2 DEF Elements
  <2>2. \A i \in 1..Len(held) : i <= past BY <1>11, <1>14
  <2> QED BY <1>14, <2>1, <2>2
<1>15. CASE part = <<>>
  <2>1. pc' = "listed" /\ ending' = "empty" /\ UNCHANGED <<documents, offset, pages>>
    BY <1>6, <1>7, <1>15 DEF Take, End
  <2>2. VariablesOK' BY <1>2, <1>3, <2>1 DEF VariablesOK, States, Endings
  <2>3. Gaining => Elements(before) \subseteq documents
    <3> SUFFICES ASSUME Gaining PROVE Elements(before) \subseteq documents OBVIOUS
    <3>1. offset \in Nat /\ offset >= Len(held) BY <1>2, <1>5, <1>15 DEF Gaining, VariablesOK
    <3> QED BY <1>2, <1>14, <3>1 DEF PassedIsSeen
  <2> QED BY <1>2, <1>3, <2>1, <2>2, <2>3 DEF Inv, ListingIsComplete, RequestsPayOff, Gaining
<1>16. CASE part # <<>> /\ NothingNew(page)
  <2>1. /\ documents' = documents \cup Elements(part) /\ Elements(part) \subseteq documents
        /\ pc' = "listed" /\ ending' = "repeated" /\ UNCHANGED <<offset, pages>>
    BY <1>6, <1>7, <1>16 DEF Take, End, NothingNew
  <2>2. documents' = documents BY <2>1
  <2>3. VariablesOK' BY <1>2, <1>3, <2>1, <2>2 DEF VariablesOK, States, Endings
  <2>4. ~(Gaining /\ ~shifted)
    <3> SUFFICES ASSUME Gaining, ~shifted PROVE FALSE OBVIOUS
    <3>1. offset < Len(held) /\ from = offset
      BY <1>2, <1>5, <1>11, <1>16 DEF Gaining, VariablesOK
    <3>2. 1 \in 1..n /\ part[1] = held[offset + 1] BY <1>5, <1>9, <1>16, <3>1
    <3>3. held[offset + 1] \in documents BY <1>8, <2>1, <3>2 DEF Elements
    <3>4. documents = FirstOf(held, offset) BY <1>2 DEF SeenIsPrefix
    <3>5. PICK j \in 1..offset : held[offset + 1] = held[j] BY <3>3, <3>4 DEF FirstOf
    <3> QED BY <1>2, <1>11, <3>1, <3>5 DEF VariablesOK
  <2> QED BY <1>2, <1>3, <2>1, <2>2, <2>3, <2>4 DEF Inv, ListingIsComplete, RequestsPayOff, Gaining
<1>17. CASE part # <<>> /\ ~NothingNew(page)
  <2>1. /\ documents' = documents \cup Elements(part) /\ ~(Elements(part) \subseteq documents)
        /\ offset' = offset + n
        /\ IF page.totalCountKnown /\ offset' >= page.totalCount THEN End("total") ELSE AskAgain
    BY <1>6, <1>7, <1>17 DEF Take, NothingNew, Advance
  <2>2. documents' \subseteq Identifiers BY <1>2, <1>10, <2>1 DEF VariablesOK
  <2>3. offset \in Nat /\ offset' \in Nat BY <1>2, <1>8, <2>1 DEF VariablesOK
  <2>4. Cardinality(documents) + 1 <= Cardinality(documents')
    <3>1. documents \in SUBSET documents' /\ documents # documents' BY <2>1
    <3>2. /\ Cardinality(documents) <= Cardinality(documents')
          /\ Cardinality(documents') # Cardinality(documents)
      BY <1>13, <2>2, <3>1, FS_Subset
    <3> QED BY <1>13, <2>2, <3>2
  <2>5. SeenIsPrefix'
    <3> SUFFICES ASSUME Gaining, ~shifted PROVE offset' <= Len(held) /\ documents' = FirstOf(held, offset')
      BY <1>3 DEF SeenIsPrefix, Gaining
    <3>1. offset < Len(held) /\ from = offset
      BY <1>2, <1>5, <1>11, <1>17, <2>3 DEF Gaining
    <3>2. offset' <= Len(held) BY <1>5, <2>1, <3>1
    <3>3. documents = FirstOf(held, offset) BY <1>2 DEF SeenIsPrefix
    <3>4. Elements(part) = {held[i] : i \in offset + 1..offset + n}
      <4>1. ASSUME NEW i \in 1..n PROVE part[i] \in {held[k] : k \in offset + 1..offset + n}
        <5>1. offset + i \in offset + 1..offset + n BY <1>8, <2>3
        <5> QED BY <1>5, <3>1, <5>1
      <4>2. ASSUME NEW k \in offset + 1..offset + n PROVE held[k] \in Elements(part)
        <5>1. k - offset \in 1..n /\ offset + (k - offset) = k BY <1>8, <2>3
        <5>2. part[k - offset] = held[k] BY <1>5, <3>1, <5>1
        <5> QED BY <1>8, <5>1, <5>2 DEF Elements
      <4> QED BY <1>8, <4>1, <4>2 DEF Elements
    <3>5. 1..offset + n = (1..offset) \cup (offset + 1..offset + n) BY <1>8, <2>3
    <3> QED BY <2>1, <3>2, <3>3, <3>4, <3>5 DEF FirstOf
  <2>6. BeforeIsKept' BY <1>2, <1>3 DEF BeforeIsKept, Gaining
  <2>11. PassedIsSeen'
    <3> SUFFICES ASSUME Gaining, NEW i \in 1..Len(held), i <= offset', held[i] \in Elements(before)
                 PROVE  held[i] \in documents'
      BY <1>3 DEF PassedIsSeen, Gaining
    <3>1. i \in Int BY <1>11
    <3>2. CASE i <= offset BY <1>2, <2>1, <3>2 DEF PassedIsSeen
    <3>3. CASE ~(i <= offset)
      <4>1. i - offset \in 1..n /\ from = offset /\ offset + (i - offset) = i
        BY <1>8, <2>1, <2>3, <3>1, <3>3 DEF Gaining
      <4>2. part[i - offset] = held[i] BY <1>5, <4>1
      <4>3. held[i] \in Elements(part) BY <1>8, <4>1, <4>2 DEF Elements
      <4> QED BY <2>1, <4>3
    <3> QED BY <3>2, <3>3
  <2>12. OffsetOK' BY <2>5, <2>6, <2>11 DEF OffsetOK
  <2>7. pages \in Nat /\ pages <= Cardinality(documents) + 1 BY <1>2 DEF VariablesOK, RequestsPayOff
  <2>8. CASE page.totalCountKnown /\ offset' >= page.totalCount
    <3>1. pc' = "listed" /\ ending' = "total" /\ pages' = pages BY <2>1, <2>8 DEF End
    <3>2. VariablesOK' BY <1>2, <1>3, <2>2, <2>3, <3>1 DEF VariablesOK, States, Endings
    <3>3. RequestsPayOff' BY <1>13, <2>2, <2>4, <2>7, <3>1 DEF RequestsPayOff
    <3>4. ListingIsComplete'
      <4> SUFFICES ASSUME Gaining, ~(states.kind = "number" /\ states.count >= 0)
                   PROVE  Elements(before) \subseteq documents'
        BY <1>3 DEF ListingIsComplete, Gaining
      <4>1. states.kind \in {"none", "exact", "number"} BY <1>2, PagerAssumption DEF VariablesOK
      <4>2. states.kind = "exact" /\ page.totalCount = Len(held)
        BY <2>8, <4>1 DEF page, GetCFDocuments, TotalCountHeader
      <4>3. offset' >= Len(held) BY <2>8, <4>2
      <4>4. \A i \in 1..Len(held) : i <= offset' /\ held[i] \in Elements(before) => held[i] \in documents'
        BY <1>3, <2>11 DEF PassedIsSeen, Gaining
      <4> QED BY <1>14, <2>3, <4>3, <4>4
    <3> QED BY <3>1, <3>2, <3>3, <3>4 DEF Inv
  <2>9. CASE ~(page.totalCountKnown /\ offset' >= page.totalCount) /\ pages < MaxPages
    <3>1. pages' = pages + 1 /\ UNCHANGED <<pc, ending>> BY <2>1, <2>9 DEF AskAgain
    <3>2. pages' \in 0..MaxPages BY <2>7, <2>9, <3>1, PagerAssumption
    <3>3. VariablesOK' BY <1>2, <1>3, <2>2, <2>3, <3>1, <3>2 DEF VariablesOK
    <3>4. RequestsPayOff' BY <1>13, <2>2, <2>4, <2>7, <3>1 DEF RequestsPayOff
    <3> QED BY <1>2, <2>12, <3>1, <3>3, <3>4 DEF Inv, ListingIsComplete
  <2>10. CASE ~(page.totalCountKnown /\ offset' >= page.totalCount) /\ ~(pages < MaxPages)
    <3>1. pc' = "listed" /\ ending' = "pages" /\ pages' = pages BY <2>1, <2>10 DEF AskAgain, End
    <3>2. VariablesOK' BY <1>2, <1>3, <2>2, <2>3, <3>1 DEF VariablesOK, States, Endings
    <3>3. RequestsPayOff' BY <1>13, <2>2, <2>4, <2>7, <3>1 DEF RequestsPayOff
    <3> QED BY <3>1, <3>2, <3>3 DEF Inv, ListingIsComplete
  <2> QED BY <2>8, <2>9, <2>10
<1> QED BY <1>15, <1>16, <1>17

LEMMA NextKeepsInv == Inv /\ [Next]_vars => Inv'
<1> SUFFICES ASSUME Inv, [Next]_vars PROVE Inv' OBVIOUS
<1>1. CASE UNCHANGED vars
  BY <1>1 DEF vars, server, pager, history, Inv, VariablesOK, OffsetOK, BeforeIsKept, PassedIsSeen,
              SeenIsPrefix, Gaining, ListingIsComplete, RequestsPayOff
<1> QED
  BY <1>1, PublishKeepsInv, WithdrawKeepsInv, StartKeepsInv, ReceivePageKeepsInv, GiveUpKeepsInv DEF Next

LEMMA Invariance == Spec => []Inv
BY InitInv, NextKeepsInv, PTL DEF Spec

-----------------------------------------------------------------------------
(***************************************************************************)
(* The theorems.                                                           *)
(***************************************************************************)

\* Every variable has its type, and the total of a page is a natural number
\* whatever the server's X-Total-Count says.
THEOREM TypeCorrect == Spec => []TypeOK
<1>1. Inv => TypeOK
  <2> SUFFICES ASSUME Inv PROVE TypeOK OBVIOUS
  <2>1. VariablesOK /\ states \in Totals /\ Len(held) \in Nat
    BY ListingFacts DEF Inv, VariablesOK
  <2>2. GetCFDocuments(held, TotalCountHeader).totalCount \in Nat
    BY <2>1, PagerAssumption DEF GetCFDocuments, TotalCountHeader
  <2> QED BY <2>1, <2>2 DEF TypeOK, VariablesOK, States, Endings
<1> QED BY <1>1, Invariance, PTL

\* A listing from a server that honours the offset, does not misstate its total
\* and drops nothing misses none that was there when it began, wherever in its
\* order the server puts in others meanwhile, if it ends on an empty page or on
\* the total; and if it ends on a page with nothing new, unless something was put
\* in before the offset, where the code does lose frameworks.
THEOREM ListingIsCompleteHolds == Spec => []ListingIsComplete
<1>1. Inv => ListingIsComplete BY DEF Inv
<1> QED BY <1>1, Invariance, PTL

\* Every request but the last brought something new.
THEOREM RequestsPayOffHolds == Spec => []RequestsPayOff
<1>1. Inv => RequestsPayOff BY DEF Inv
<1> QED BY <1>1, Invariance, PTL
=============================================================================
