----------------------------- MODULE ListingPager -----------------------------
(***************************************************************************)
(* Reading the listing of all frameworks of a CASE server, page by page:   *)
(* listAllFrameworks of server/src/case/queries.ts over getCFDocuments of  *)
(* client.ts.  FrameworkLookup has this loop as one step.                  *)
(*                                                                         *)
(* The server caps pages as it likes, may ignore the offset, states no     *)
(* total, a wrong one or rubbish, gains and loses frameworks anywhere in   *)
(* its order between two pages, and may never answer.  A document is its   *)
(* identifier; the Map by identifier is a set.                             *)
(***************************************************************************)
EXTENDS Integers, Sequences, FiniteSets

CONSTANTS
    Identifiers,    \* frameworks that the server may hold
    PageSize,       \* LISTING_PAGE_SIZE, the limit asked for
    MaxPages,       \* MAX_LISTING_PAGES
    Totals          \* what servers put into X-Total-Count: [kind, count], the
                    \* kind "exact", "number" for `count` whatever they hold,
                    \* or "none" for nothing, or nothing that is a number

ASSUME PagerAssumption ==
    /\ IsFiniteSet(Identifiers)
    /\ PageSize \in Nat \ {0} /\ MaxPages \in Nat \ {0}
    /\ Totals \subseteq [kind : {"none", "exact", "number"}, count : Int]

VARIABLES
    held,           \* the frameworks on the server, in its order
    honoursOffset,  \* whether the server looks at the offset
    states,         \* what it puts into X-Total-Count
    pc,             \* "start", "waiting", "listed" or "failed"
    documents,      \* identifiers seen so far
    offset,
    pages,          \* requests made
    ending,         \* how a listing ended
    before,         \* history: `held` when the listing began
    shrunk,         \* history: whether the server has dropped one since,
    shifted         \* and whether it has put one in before the offset

server == <<held, honoursOffset, states>>

pager == <<pc, documents, offset, pages, ending, before>>

history == <<shrunk, shifted>>

vars == <<server, pager, history>>

Elements(seq) == {seq[i] : i \in DOMAIN seq}

\* Documents are listed once each.
Listings == {seq \in Seq(Identifiers) : \A i, j \in DOMAIN seq : seq[i] = seq[j] => i = j}

Init ==
    /\ held = <<>>
    /\ honoursOffset \in BOOLEAN
    /\ states \in Totals
    /\ pc = "start"
    /\ documents = {} /\ offset = 0 /\ pages = 0 /\ ending = "none"
    /\ before = <<>>
    /\ shrunk = FALSE /\ shifted = FALSE

-----------------------------------------------------------------------------
(***************************************************************************)
(* The server.                                                             *)
(***************************************************************************)
\* A listing has an order, and what is new may come anywhere in it.
Publish ==
    /\ \E id \in Identifiers \ Elements(held), i \in 1..Len(held) + 1 :
          /\ held' = [j \in 1..Len(held) + 1 |->
                        IF j < i THEN held[j] ELSE IF j = i THEN id ELSE held[j - 1]]
          /\ shifted' = (shifted \/ i <= offset)
    /\ UNCHANGED <<honoursOffset, states, pager, shrunk>>

Withdraw ==
    /\ \E i \in DOMAIN held :
          held' = [j \in 1..Len(held) - 1 |-> IF j < i THEN held[j] ELSE held[j + 1]]
    /\ shrunk' = TRUE
    /\ UNCHANGED <<honoursOffset, states, pager, shifted>>

\* A page of `count` documents, or of all that are left.
PageAt(from, count) ==
    SubSeq(held, from + 1, IF from + count <= Len(held) THEN from + count ELSE Len(held))

TotalCountHeader ==
    [number |-> states.kind # "none", count |-> IF states.kind = "exact" THEN Len(held) ELSE states.count]

\* BUG: a total below zero is taken at its word.
BugGetCFDocuments(page, header) ==
    [documents |-> page, totalCountKnown |-> header.number,
     totalCount |-> IF header.number THEN header.count ELSE Len(page)]

\* getCFDocuments: a total is known if the header is a number of zero or more.
GetCFDocuments(page, header) ==
    LET known == header.number /\ header.count >= 0 IN
    [documents |-> page, totalCountKnown |-> known,
     totalCount |-> IF known THEN header.count ELSE Len(page)]

-----------------------------------------------------------------------------
(***************************************************************************)
(* listAllFrameworks.                                                      *)
(***************************************************************************)
Start ==
    /\ pc = "start"
    /\ pc' = "waiting"
    /\ pages' = 1
    /\ before' = held /\ shrunk' = FALSE /\ shifted' = FALSE
    /\ UNCHANGED <<server, documents, offset, ending>>

End(how) == pc' = "listed" /\ ending' = how /\ UNCHANGED pages

\* The next round of the loop, if there is one left.
AskAgain ==
    IF pages < MaxPages
    THEN pages' = pages + 1 /\ UNCHANGED <<pc, ending>>
    ELSE End("pages")

\* BUG: the next page is looked for a page size further on.
BugAdvance(page) == offset + PageSize

\* By as many as came, since servers cap the size of a page.
Advance(page) == offset + Len(page.documents)

\* BUG: a server that repeats a page is asked on.
BugNothingNew(page) == FALSE

NothingNew(page) == Elements(page.documents) \subseteq documents

\* What the loop does with a page.
Take(page) ==
    IF page.documents = <<>>
    THEN End("empty") /\ UNCHANGED <<documents, offset>>
    ELSE /\ documents' = documents \cup Elements(page.documents)
         /\ IF NothingNew(page) THEN End("repeated") /\ UNCHANGED offset
            ELSE /\ offset' = Advance(page)
                 /\ IF page.totalCountKnown /\ offset' >= page.totalCount
                    THEN End("total") ELSE AskAgain

\* A server that has something left sends at least one document.
ReceivePage ==
    /\ pc = "waiting"
    /\ \E count \in 1..PageSize :
          Take(GetCFDocuments(PageAt(IF honoursOffset THEN offset ELSE 0, count), TotalCountHeader))
    /\ UNCHANGED <<server, before, history>>

\* BUG: the deadline is that of the listing's first request.
BugGiveUp ==
    /\ pc = "waiting" /\ pages = 1
    /\ pc' = "failed"
    /\ UNCHANGED <<server, documents, offset, pages, ending, before, history>>

\* The request is refused, fails or exceeds fetchTimeoutMs; the listing with it.
GiveUp ==
    /\ pc = "waiting"
    /\ pc' = "failed"
    /\ UNCHANGED <<server, documents, offset, pages, ending, before, history>>

Next == Publish \/ Withdraw \/ Start \/ ReceivePage \/ GiveUp

Spec == Init /\ [][Next]_vars

\* Every request has its timer.  No server need ever answer.
FairSpec == Spec /\ WF_vars(GiveUp)

-----------------------------------------------------------------------------
\* Every variable has its type; a page that says how many there are says so
\* with a number.
TypeOK ==
    /\ held \in Listings /\ before \in Listings
    /\ honoursOffset \in BOOLEAN /\ states \in Totals
    /\ pc \in {"start", "waiting", "listed", "failed"}
    /\ documents \subseteq Identifiers
    /\ offset \in Nat /\ pages \in 0..MaxPages
    /\ ending \in {"none", "empty", "repeated", "total", "pages"}
    /\ shrunk \in BOOLEAN /\ shifted \in BOOLEAN
    /\ GetCFDocuments(held, TotalCountHeader).totalCount \in Nat

\* A server that honours the offset and states its total truly or not at all
\* drops nothing while it is listed, but puts in what it likes where it likes.
\* A listing that ends on an empty page or on the total has all that there was
\* when it began, however pages were capped.  One that ends on a page with
\* nothing new has it too unless something came in before the offset: that moves
\* known documents behind the offset, the loop takes them for a server that
\* ignores it, and what follows them is lost.  Nothing is promised of a listing
\* that ends on the hard stop.
ListingIsComplete ==
    /\ pc = "listed" /\ ending # "pages"
    /\ honoursOffset /\ ~shrunk
    /\ ~(states.kind = "number" /\ states.count >= 0)
    /\ ending = "repeated" => ~shifted
    => Elements(before) \subseteq documents

\* Each request but the last brought something new: a server that ignores the
\* offset costs one request too many, whatever it holds or says.
RequestsPayOff == pages <= Cardinality(documents) + 1

\* A listing ends, even with a server that stops answering half-way.
ListingEnds == pc = "waiting" ~> pc \in {"listed", "failed"}
=============================================================================
