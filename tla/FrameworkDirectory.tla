------------------------- MODULE FrameworkDirectory -------------------------
(***************************************************************************)
(* What resolving titles promises, with no word of Maps, promises or the   *)
(* sweeping of entries.  Every lookup is answered by what is known of its  *)
(* title for less than TitleTtl, or by one listing of its own scope, begun *)
(* since the last clear when the lookup was made: one begun for it, one    *)
(* that is running, or one kept less than ListingTtl ago.                  *)
(*                                                                         *)
(* A lookup that was under way when everything was cleared may still make  *)
(* its answer known afterwards.                                            *)
(***************************************************************************)
EXTENDS Naturals, FiniteSets

CONSTANTS
    Callers,
    Listings,       \* listings, reused once no other lookup is bound to them
    Scopes,         \* what can be listed: a server, as a credential sees it
    Titles,
    PackageIds,
    TitleTtl,
    ListingTtl,
    Nothing         \* no listing

VARIABLES
    listing,        \* [scope, running, got, byTitle, kept, epoch] of every listing:
                    \* kept is {} or the one moment it was kept at
    known,          \* the resolutions [scope, title, packageId, at] that are known
    caller,         \* [scope, title, bound, answer, packageId] of every latest lookup
    clock,
    epoch           \* how often everything was cleared

vars == <<listing, known, caller, clock, epoch>>

Init ==
    /\ listing \in [Listings -> [scope : Scopes, running : {FALSE}, got : {"none"},
                                 byTitle : {[title \in Titles |-> {}]}, kept : {{}}, epoch : {0}]]
    /\ known = {}
    /\ caller \in [Callers -> [scope : Scopes, title : Titles, bound : {Nothing},
                               answer : {"none"}, packageId : {{}}]]
    /\ clock = 0
    /\ epoch = 0

-----------------------------------------------------------------------------
Waits(c) == caller[c].bound # Nothing /\ caller[c].answer = "none"

Ask(c, scope, title, l, answer, ids) ==
    caller' = [caller EXCEPT ![c] = [scope |-> scope, title |-> title, bound |-> l,
                                     answer |-> answer, packageId |-> ids]]

\* The listing l, changed in what a step may change.
Becomes(l, running, got, byTitle, kept) ==
    [scope |-> listing[l].scope, running |-> running, got |-> got, byTitle |-> byTitle,
     kept |-> kept, epoch |-> listing[l].epoch]

Current(l, scope) == listing[l].scope = scope /\ listing[l].epoch = epoch

\* What a lookup of a title can be bound to, and what that does to the listing.
Begin(c, scope, l) ==
    /\ ~listing[l].running /\ \A d \in Callers \ {c} : caller[d].bound # l
    /\ listing' = [listing EXCEPT ![l] =
                      [scope |-> scope, running |-> TRUE, got |-> "none",
                       byTitle |-> [t \in Titles |-> {}], kept |-> {}, epoch |-> epoch]]

Share(scope, l) == Current(l, scope) /\ listing[l].running /\ UNCHANGED listing

Reuse(scope, l) ==
    /\ Current(l, scope)
    /\ \E moment \in listing[l].kept : clock - moment < ListingTtl
    /\ UNCHANGED listing

Recall(c, scope, title) ==
    \E fact \in known :
        /\ fact.scope = scope /\ fact.title = title /\ clock - fact.at < TitleTtl
        /\ Ask(c, scope, title, Nothing, "packageId", {fact.packageId})
        /\ UNCHANGED listing

Lookup(c) ==
    /\ UNCHANGED <<clock, epoch>>
    /\ ~Waits(c)
    /\ \E scope \in Scopes, title \in Titles :
          \/ Recall(c, scope, title)
          \/ \E l \in Listings : /\ Ask(c, scope, title, l, "none", {})
                                 /\ Begin(c, scope, l) \/ Share(scope, l) \/ Reuse(scope, l)
    /\ UNCHANGED known

Get(l) ==
    /\ listing[l].running /\ listing[l].got = "none"
    /\ \/ \E byTitle \in [Titles -> SUBSET PackageIds] :
             listing' = [listing EXCEPT ![l] = Becomes(l, TRUE, "listed", byTitle, {})]
       \/ listing' = [listing EXCEPT ![l] = Becomes(l, TRUE, "failed", listing[l].byTitle, {})]
    /\ UNCHANGED <<known, caller, clock, epoch>>

Keep(l) ==
    /\ listing[l].running /\ listing[l].got = "listed" /\ listing[l].kept = {}
    /\ listing' = [listing EXCEPT ![l] = Becomes(l, TRUE, "listed", listing[l].byTitle, {clock})]
    /\ UNCHANGED <<known, caller, clock, epoch>>

Finish(l) ==
    /\ listing[l].running /\ listing[l].got # "none"
    /\ listing' = [listing EXCEPT ![l] =
                      Becomes(l, FALSE, listing[l].got, listing[l].byTitle, listing[l].kept)]
    /\ UNCHANGED <<known, caller, clock, epoch>>

\* What a listing says of a title.
Verdict(l, title) ==
    IF listing[l].got = "failed" THEN "failed"
    ELSE IF listing[l].byTitle[title] = {} THEN "notFound"
    ELSE IF \E id \in PackageIds : listing[l].byTitle[title] = {id} THEN "packageId"
    ELSE "ambiguous"

\* Only what is resolved becomes known; other facts may be forgotten then.
Answer(c) ==
    LET scope == caller[c].scope
        title == caller[c].title
        l == caller[c].bound
        verdict == Verdict(l, title)
        ids == IF verdict = "packageId" THEN listing[l].byTitle[title] ELSE {}
        learnt == [scope : {scope}, title : {title}, packageId : ids, at : {clock}]
    IN
    /\ Waits(c) /\ listing[l].got # "none"
    /\ Ask(c, scope, title, l, verdict, ids)
    /\ IF ids = {} THEN known' = known
       ELSE learnt \subseteq known' /\ known' \subseteq known \cup learnt
    /\ UNCHANGED <<listing, clock, epoch>>

Clear ==
    /\ epoch' = epoch + 1
    /\ known' = {}
    /\ listing' = [l \in Listings |-> Becomes(l, listing[l].running, listing[l].got,
                                              listing[l].byTitle, {})]
    /\ UNCHANGED <<caller, clock>>

Advance == clock' > clock /\ UNCHANGED <<listing, known, caller, epoch>>

Next ==
    \/ \E c \in Callers : Lookup(c) \/ Answer(c)
    \/ \E l \in Listings : Get(l) \/ Keep(l) \/ Finish(l)
    \/ Clear
    \/ Advance

Spec == Init /\ [][Next]_vars
=============================================================================
