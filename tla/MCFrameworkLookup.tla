-------------------------- MODULE MCFrameworkLookup --------------------------
(***************************************************************************)
(* Instances of FrameworkLookup for TLC: alice and bob read one server     *)
(* with different credentials.                                             *)
(***************************************************************************)
EXTENDS FrameworkLookup, TLC

CONSTANTS alice, bob

MCBaseUrl == [config \in Configs |-> "server"]
MCApiKey == [config \in Configs |-> IF config = bob THEN "key2" ELSE "key1"]

\* Callers, promise objects and package identifiers are interchangeable.
Symmetry == Permutations(Callers) \cup Permutations(Fetches) \cup Permutations(PackageIds)
=============================================================================
