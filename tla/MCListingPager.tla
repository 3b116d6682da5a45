---------------------------- MODULE MCListingPager ----------------------------
(***************************************************************************)
(* An instance of ListingPager for TLC: no total, the true one, or a       *)
(* number, too small or no total at all.                                   *)
(***************************************************************************)
EXTENDS ListingPager

MCTotals ==
    {[kind |-> "none", count |-> 0], [kind |-> "exact", count |-> 0]}
        \cup {[kind |-> "number", count |-> n] : n \in {-1, 0, 2}}
=============================================================================
