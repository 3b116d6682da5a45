------------------------- MODULE MCDidGraphQLClient -------------------------
(***************************************************************************)
(* Instances of DidGraphQLClient for TLC.  old and new name two endpoints, *)
(* new in a spelling of its own; rogue names one outside the host rules    *)
(* and broken does not validate; bulky is new's endpoint in too long a     *)
(* header once an invocation is added.                                     *)
(***************************************************************************)
EXTENDS DidGraphQLClient, TLC

CONSTANTS old, new, bulky, rogue, broken, a, b, bSpelled, c

MCInvocationTarget ==
    [cap \in Capabilities |-> CASE cap = old -> a [] cap = rogue -> c [] OTHER -> bSpelled]
MCCanonical == [url \in Urls |-> IF url = bSpelled THEN b ELSE url]
MCExpires == [cap \in Capabilities |-> IF cap = old THEN 0 ELSE 1]
MCCapabilityBytes == [cap \in Capabilities |-> IF cap = bulky THEN 2 ELSE 1]

Symmetry == Permutations(Calls)
=============================================================================
