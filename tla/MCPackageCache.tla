--------------------------- MODULE MCPackageCache ---------------------------
(***************************************************************************)
(* Instances of PackageCache for TLC.  alice and bob read one server with  *)
(* different credentials; carol shares alice's credential but accepts      *)
(* nothing older than one unit of time.  Bob's cap is a 0 that means the   *)
(* default.                                                                *)
(***************************************************************************)
EXTENDS PackageCache, FiniteSets, TLC

CONSTANTS alice, bob, carol

MCBaseUrl == [config \in Configs |-> "server"]
MCApiKey == [config \in Configs |-> IF config = bob THEN "key2" ELSE "key1"]
MCTtlMs == [config \in Configs |-> IF config = alice THEN 2 ELSE 1]
MCMaxCachedPackages ==
    [config \in Configs |-> CASE config = alice -> 2 [] config = bob -> 0 [] OTHER -> 1]

\* Callers are interchangeable, and so are promise objects.
Symmetry == Permutations(Callers) \cup Permutations(Fetches)
=============================================================================
