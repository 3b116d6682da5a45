----------------------------- MODULE MCEndToEnd -----------------------------
(***************************************************************************)
(* An instance of EndToEnd for TLC.  One client, whose capabilities name   *)
(* endpoint a (old) and endpoint b (new, and spelled, which spells it in   *)
(* its own way); selfMade and assertion are for b too, the one signed with *)
(* the client's own key, the other by the root as an assertion.            *)
(***************************************************************************)
EXTENDS EndToEnd

CONSTANTS old, new, spelled, selfMade, assertion, a, b, bSpelled

MCInvocationTarget ==
    [cap \in Capabilities |-> CASE cap = old -> a [] cap = spelled -> bSpelled [] OTHER -> b]
MCCanonical == [url \in Urls |-> IF url = bSpelled THEN b ELSE url]
MCExpires == [cap \in Capabilities |-> IF cap = old THEN 2 ELSE 4]
MCBytes == [cap \in Capabilities |-> 1]
MCDrifts == {-2, 0, 1}
MCPathOf == [url \in Urls |-> "/graphql"]

Query1 == Label("query", "none", "none")
Path(fields) == <<Query1>> \o [i \in DOMAIN fields |-> Label("Field", fields[i], "none")]
Doc(name, spaces, fields) ==
    [raw |-> <<name, spaces>>, text |-> name, tree |-> {Path(SubSeq(fields, 1, n)) : n \in 0..Len(fields)}]

Titles == Doc("titles", "", <<"case", "title">>)
TitlesSpaced == Doc("titles", " ", <<"case", "title">>)
Codes == Doc("codes", "", <<"case", "code">>)
MCDocuments == {Titles, TitlesSpaced, Codes}

MCDelegation ==
    [cap \in Capabilities |->
        LET document ==
                [id |-> cap, controller |-> SignerDid, invocationTarget |-> MCInvocationTarget[cap],
                 parentCapability |-> "root", allowedAction |-> {Titles},
                 expires |-> [kind |-> "date", at |-> MCExpires[cap]], caveats |-> 0]
            key == IF cap = selfMade THEN SignerDid ELSE "did:key:owner"
            proof ==
                [type |-> "DataIntegrityProof", cryptosuite |-> "eddsa-jcs-2022",
                 proofPurpose |-> IF cap = assertion THEN "assertionMethod" ELSE "capabilityDelegation",
                 verificationMethod |-> key, capabilityChain |-> <<"root">>]
        IN [document |-> document, options |-> proof,
            signature |-> [key |-> key, over |-> <<proof, document>>]]]

MCServer ==
    [url \in {a, b} |->
        [unsafeMode |-> FALSE, trustedTarget |-> Absent,
         rootCapability |-> [id |-> "root", controller |-> "did:key:owner"],
         expectedInvocationTarget |-> url, allowUnsupportedCaveats |-> FALSE,
         maxAgeSeconds |-> 1, clockSkewSeconds |-> 0]]
=============================================================================
