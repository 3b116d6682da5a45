-------------------------------- MODULE MCHost --------------------------------
(***************************************************************************)
(* An instance of Host for TLC.  Clients combine pieces of documents: a    *)
(* plain selection, an aliased one, an inline fragment, a second           *)
(* operation, a mutation, fragments one and two steps away that hide more  *)
(* fields or the schema.  One module redeclares what `case` gates, one     *)
(* declares its scalar as a type.                                          *)
(***************************************************************************)
EXTENDS Host, TLC

Op(kind, name) == Label(kind, name, "none")
Field(name) == Label("Field", name, "none")
As(alias, name) == Label("Field", name, alias)
Dots(name) == Label("FragmentSpread", name, "none")
Inline == Label("InlineFragment", "none", "none")
Frag(name) == Label("FragmentDefinition", name, "none")

\* A path with all its prefixes.
Line(path) == {SubSeq(path, 1, n) : n \in 1..Len(path)}

A == Op("query", "A")
B == Op("query", "B")
M == Op("mutation", "M")
Items == <<Field("case"), Field("cfItems")>>

PlainPiece == Line(<<A>> \o Items \o <<Field("title")>>)
SecondPiece == Line(<<B>> \o Items \o <<Field("code")>>)
Pieces ==
    {PlainPiece,
     Line(<<A>> \o Items \o <<Field("code")>>),
     Line(<<A, As("k", "case"), Field("cfItems"), Field("code")>>),
     Line(<<A>> \o Items \o <<Inline, Field("code")>>),
     Line(<<A>> \o Items \o <<Dots("F")>>) \cup Line(<<Frag("F"), Field("code")>>),
     SecondPiece,
     Line(<<M>> \o Items \o <<Field("title")>>),
     Line(<<A, Field("__schema")>>),
     Line(<<A, Dots("G")>>) \cup Line(<<Frag("G"), Dots("H")>>) \cup Line(<<Frag("H"), Field("__schema")>>),
     Line(<<A, Dots("C")>>) \cup Line(<<Frag("C"), Dots("C")>>),
     Line(<<A, Field("auth"), Field("zcap")>>),
     Line(<<A>> \o Items \o <<Field("__typename")>>)}

Doc(pieces, spaces) ==
    LET tree == UNION pieces IN [raw |-> <<tree, spaces>>, text |-> tree, tree |-> tree]

MCDocuments ==
    {Doc({p, q}, " ") : p, q \in Pieces} \cup {Doc({PlainPiece, SecondPiece, p}, " ") : p \in Pieces}
        \cup {Doc({}, ""), Doc({PlainPiece}, "  ")}

Secured(allowed, expires, type) ==
    [document |-> [id |-> "urn:zcap:1", controller |-> "did:example:demo",
                   invocationTarget |-> "here", parentCapability |-> Absent,
                   allowedAction |-> allowed, expires |-> [kind |-> "date", at |-> expires],
                   caveats |-> 0],
     options |-> [type |-> type, cryptosuite |-> Absent, proofPurpose |-> Absent,
                  verificationMethod |-> "did:example:demo", capabilityChain |-> Absent],
     signature |-> Absent]

Wide ==
    Secured({Doc({Line(<<A>> \o Items \o <<Field("code")>>), PlainPiece}, " "),
             Doc({Line(<<A>> \o Items \o <<Dots("F")>>), Line(<<Frag("F"), Field("code")>>)}, " ")},
            1, "none")
Unsigned == Secured({Doc({PlainPiece}, " ")}, 1, "DataIntegrityProof")

\* A capability delegated by the root, and an invocation of it.
Sign(document, purpose, fields, key) ==
    LET options == fields @@ [type |-> "DataIntegrityProof", cryptosuite |-> "eddsa-jcs-2022",
                              proofPurpose |-> purpose, verificationMethod |-> key]
    IN [document |-> document, options |-> options,
        signature |-> [key |-> key, over |-> SignedContent(options, document)]]

Root == [id |-> "urn:zcap:root", controller |-> "did:key:root"]

Delegated(target) ==
    Sign([id |-> "urn:zcap:2", controller |-> "did:key:holder", invocationTarget |-> target,
          parentCapability |-> Root.id, allowedAction |-> {Doc({PlainPiece}, " ")},
          expires |-> [kind |-> "date", at |-> 0], caveats |-> 0],
         "capabilityDelegation", [capabilityChain |-> <<Root.id>>], "did:key:root")

Invocation(target) ==
    Sign("invocation", "capabilityInvocation",
         [capability |-> "urn:zcap:2", invocationTarget |-> target,
          capabilityAction |-> Doc({PlainPiece}, " ").raw, created |-> 0],
         "did:key:holder")

Zcap(cap) == [encoding |-> "zcap", capability |-> cap, invocation |-> Absent, chain |-> <<>>]
Invoked(target) == [Zcap(Delegated(target)) EXCEPT !.invocation = Invocation(target)]
Legacy(chain) == [encoding |-> "legacy", capability |-> Absent, invocation |-> Absent, chain |-> chain]

MCModernValues ==
    {Absent, Zcap(Absent), Zcap(Unsigned), Invoked("here"), Invoked("elsewhere")}
MCLegacyValues == {Absent, Legacy(<<Wide>>), Legacy(<<>>)}

\* The example's, one with a target, and one that verifies.
MCConfigs ==
    {[unsafeMode |-> TRUE, trustedTarget |-> Absent],
     [unsafeMode |-> TRUE, trustedTarget |-> "here"],
     [unsafeMode |-> FALSE, rootCapability |-> Root, expectedInvocationTarget |-> "here",
      allowUnsupportedCaveats |-> FALSE, maxAgeSeconds |-> 1, clockSkewSeconds |-> 1]}

Map(scalars, fields) == [scalars |-> scalars, fields |-> fields]
MCResolversOf ==
    [case |-> Map({"JSON"}, <<"Query", "case">> :> "open" @@ <<"CaseQueries", "cfItems">> :> "invocation"),
     auth |-> Map({}, <<"Query", "auth">> :> "open" @@ <<"AuthQueries", "zcap">> :> "auth"),
     shadow |-> Map({}, <<"CaseQueries", "cfItems">> :> "open"),
     retype |-> Map({}, <<"JSON", "value">> :> "open")]

MCOrders ==
    {<<"case", "auth">>, <<"auth", "case">>, <<"case", "shadow">>, <<"shadow", "case">>,
     <<"case", "retype">>, <<"retype", "case">>, <<"auth", "retype", "shadow">>}

MCSchema ==
    [case |-> [type |-> "Query", parent |-> "none"],
     auth |-> [type |-> "Query", parent |-> "none"],
     zcap |-> [type |-> "AuthQueries", parent |-> "auth"],
     cfItems |-> [type |-> "CaseQueries", parent |-> "case"],
     title |-> [type |-> "CFItem", parent |-> "cfItems"],
     code |-> [type |-> "CFItem", parent |-> "cfItems"]]
=============================================================================
