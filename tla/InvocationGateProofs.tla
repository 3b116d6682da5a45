------------------------- MODULE InvocationGateProofs -------------------------
(***************************************************************************)
(* Proofs about AllowedAction and InvocationGate: what is established for  *)
(* all documents, grants, capabilities and requests that are let through.  *)
(***************************************************************************)
EXTENDS InvocationGate, TLAPS, SequenceTheorems, WellFoundedInduction

-----------------------------------------------------------------------------
(***************************************************************************)
(* Paths, and what they reach.                                             *)
(***************************************************************************)
LEMMA StrictPrefix ==
    ASSUME NEW Labels, NEW s \in Seq(Labels), NEW t \in Seq(Labels)
    PROVE  IsStrictPrefix(s, t) <=> Len(s) < Len(t) /\ \A i \in 1..Len(s) : s[i] = t[i]
<1>1. Len(s) \in Nat /\ Len(t) \in Nat OBVIOUS
<1>2. ASSUME Len(s) <= Len(t)
      PROVE  SubSeq(s, 1, Len(s)) = SubSeq(t, 1, Len(s)) <=> \A i \in 1..Len(s) : s[i] = t[i]
  <2>1. /\ SubSeq(s, 1, Len(s)) \in Seq(Labels) /\ Len(SubSeq(s, 1, Len(s))) = Len(s)
        /\ \A i \in 1..Len(s) : SubSeq(s, 1, Len(s))[i] = s[i]
    <3>1. \A i \in 1..Len(s) : s[i] \in Labels OBVIOUS
    <3> QED BY <1>1, <3>1, SubSeqProperties
  <2>2. /\ SubSeq(t, 1, Len(s)) \in Seq(Labels) /\ Len(SubSeq(t, 1, Len(s))) = Len(s)
        /\ \A i \in 1..Len(s) : SubSeq(t, 1, Len(s))[i] = t[i]
    <3>1. \A i \in 1..Len(s) : t[i] \in Labels BY <1>1, <1>2
    <3> QED BY <1>1, <3>1, SubSeqProperties
  <2>3. ASSUME \A i \in 1..Len(s) : s[i] = t[i]
        PROVE  SubSeq(s, 1, Len(s)) = SubSeq(t, 1, Len(s))
    BY <2>1, <2>2, <2>3, SeqEqual
  <2>4. ASSUME SubSeq(s, 1, Len(s)) = SubSeq(t, 1, Len(s))
        PROVE  \A i \in 1..Len(s) : s[i] = t[i]
    BY <2>1, <2>2, <2>4
  <2> QED BY <2>3, <2>4
<1>3. ASSUME Len(s) = Len(t), \A i \in 1..Len(s) : s[i] = t[i]
      PROVE  s = t
  BY <1>3, SeqEqual
<1> QED BY <1>1, <1>2, <1>3 DEF IsStrictPrefix, IsPrefix

LEMMA OperationIsLabel ==
    ASSUME NEW Labels, NEW doc, Parsed(doc, Labels), NEW op \in Operations(doc)
    PROVE  <<op>> \in Seq(Labels) /\ Len(<<op>>) = 1
<1>1. PICK path \in doc.tree : op = Head(path) BY DEF Operations, Definitions
<1>2. path \in Seq(Labels) /\ Len(path) > 0 BY DEF Parsed
<1> QED BY <1>1, <1>2

\* What is nested under a nested selection is nested.
LEMMA BelowIsDeeper ==
    ASSUME NEW Labels, NEW doc, Parsed(doc, Labels), NEW at \in Seq(Labels),
           NEW root \in Below(doc, at), NEW path \in Below(doc, root)
    PROVE  path \in Below(doc, at)
<1>1. root \in Seq(Labels) /\ path \in Seq(Labels) /\ path \in doc.tree BY DEF Below, Parsed
<1>2. /\ Len(at) < Len(root) /\ \A i \in 1..Len(at) : at[i] = root[i]
      /\ Len(root) < Len(path) /\ \A i \in 1..Len(root) : root[i] = path[i]
  BY <1>1, StrictPrefix DEF Below
<1>3. Len(at) < Len(path) /\ \A i \in 1..Len(at) : at[i] = path[i] BY <1>1, <1>2
<1> QED BY <1>1, <1>3, StrictPrefix DEF Below

\* Paths without a spread reach no fragment.
LEMMA NothingInlined ==
    ASSUME NEW doc, NEW paths, NEW inside, \A path \in paths : ~IsSpread(path)
    PROVE  Inlined(doc, paths, inside) = paths
<1>1. SpreadBy(doc, paths) = {} BY DEF SpreadBy
<1>2. ASSUME NEW def \in Reached(doc, paths, inside) PROVE FALSE
  <2>1. \A closed \in SUBSET Fragments(doc) :
           /\ SpreadBy(doc, paths) \subseteq closed
           /\ \A other \in closed : SpreadBy(doc, inside[other]) \subseteq closed
           => def \in closed
    BY DEF Reached
  <2>2. {} \in SUBSET Fragments(doc) OBVIOUS
  <2> QED BY <1>1, <2>1, <2>2
<1>3. Reached(doc, paths, inside) = {} BY <1>2
<1> QED BY <1>3 DEF Inlined

\* The root fields of an operation that the walk understands are the selections
\* it finds on the root.
LEMMA RootsOfSupported ==
    ASSUME NEW Labels, NEW doc, Parsed(doc, Labels), NEW op \in Operations(doc), Supported(doc, op)
    PROVE  RootFields(doc, op) = SelectionSet(doc, <<op>>)
<1> DEFINE at == <<op>>
           outermost == Outermost(doc, at)
<1>1. at \in Seq(Labels) /\ Len(at) = 1 BY OperationIsLabel
<1> HIDE DEF at
<1>2. \A path \in outermost : ~IsSpread(path) BY DEF Outermost, Supported, at
<1>3. Inlined(doc, outermost, [def \in Fragments(doc) |-> Outermost(doc, <<def>>)]) = outermost
  BY <1>2, NothingInlined
<1>4. RootFields(doc, op) = {path \in outermost : IsField(path)}
  BY <1>3 DEF RootFields, at
<1>5. SelectionSet(doc, at) \subseteq outermost
  <2> SUFFICES ASSUME NEW path \in SelectionSet(doc, at) PROVE path \in outermost OBVIOUS
  <2>1. path \in Below(doc, at) /\ Len(path) = 2 BY <1>1 DEF SelectionSet
  <2>2. \A i \in Len(at) + 1..Len(path) - 1 : path[i].kind # "Field" BY <1>1, <2>1
  <2> QED BY <2>1, <2>2 DEF Outermost
<1>6. outermost \subseteq SelectionSet(doc, at)
  <2> SUFFICES ASSUME NEW path \in outermost PROVE path \in SelectionSet(doc, at) OBVIOUS
  <2>1. /\ path \in Below(doc, at) /\ path \in doc.tree /\ path \in Seq(Labels)
        /\ \A i \in 2..Len(path) - 1 : path[i].kind # "Field"
    BY <1>1 DEF Outermost, Below, Parsed
  <2>2. Len(path) > 1 /\ path[1] = at[1] BY <1>1, <2>1, StrictPrefix DEF Below
  <2> DEFINE first == SubSeq(path, 1, 2)
  <2>3. /\ first \in Seq(Labels) /\ Len(first) = 2
        /\ first[1] = path[1] /\ first[2] = path[2]
    <3>1. \A i \in 1..2 : path[i] \in Labels BY <2>1, <2>2
    <3>2. /\ first \in Seq(Labels) /\ Len(first) = IF 1 <= 2 THEN 2 - 1 + 1 ELSE 0
          /\ \A i \in 1..2 - 1 + 1 : first[i] = path[1 + i - 1]
      BY <3>1, SubSeqProperties
    <3> QED BY <3>2
  <2>4. first \in doc.tree BY <2>1, <2>2 DEF Parsed
  <2> HIDE DEF first
  <2>5. first \in SelectionSet(doc, at)
    <3>1. Len(at) < Len(first) /\ \A i \in 1..Len(at) : at[i] = first[i] BY <1>1, <2>2, <2>3
    <3>2. IsStrictPrefix(at, first) BY <1>1, <2>3, <3>1, StrictPrefix
    <3> QED BY <1>1, <2>3, <2>4, <3>2 DEF SelectionSet, Below
  <2>6. path[2].kind = "Field" BY <2>3, <2>5 DEF Supported, IsField, KindOf, Last, at
  <2>7. Len(path) = 2
    <3>1. Len(path) \in Nat BY <2>1
    <3>2. ~(2 \in 2..Len(path) - 1) BY <2>1, <2>6
    <3>3. \A n \in Nat : n > 1 /\ ~(2 \in 2..n - 1) => n = 2 OBVIOUS
    <3> QED BY <2>2, <3>1, <3>2, <3>3, Zenon
  <2> QED BY <1>1, <2>1, <2>7 DEF SelectionSet
<1>7. \A path \in SelectionSet(doc, at) : IsField(path) BY DEF Supported, at
<1> QED BY <1>4, <1>5, <1>6, <1>7 DEF at

\* What is executed under one of them is what is nested under it.
LEMMA ExecutedUnderSupported ==
    ASSUME NEW Labels, NEW doc, Parsed(doc, Labels), NEW op \in Operations(doc), Supported(doc, op),
           NEW root \in SelectionSet(doc, <<op>>)
    PROVE  ExecutedUnder(doc, root) = Below(doc, root)
<1>1. <<op>> \in Seq(Labels) BY OperationIsLabel
<1>2. root \in Below(doc, <<op>>) BY DEF SelectionSet
<1>3. \A path \in Below(doc, root) : path \in Below(doc, <<op>>) BY <1>1, <1>2, BelowIsDeeper
<1>4. \A path \in Below(doc, root) : ~IsSpread(path) BY <1>3 DEF Supported
<1> QED BY <1>4, NothingInlined DEF ExecutedUnder

\* Hence what such an operation selects, pair by pair.
LEMMA SelectsOfSupported ==
    ASSUME NEW Labels, NEW doc, Parsed(doc, Labels), NEW op \in Operations(doc), Supported(doc, op),
           NEW pair
    PROVE  pair \in Selects(doc, op) <=>
              \E root \in SelectionSet(doc, <<op>>) :
                 /\ IsDataField(root)
                 /\ \E path \in {root} \cup Below(doc, root) :
                       IsDataField(path) /\ pair = <<NameOf(root), NameOf(path)>>
<1> DEFINE roots == SelectionSet(doc, <<op>>)
<1>1. RootFields(doc, op) = roots BY RootsOfSupported
<1>2. \A root \in roots : ExecutedUnder(doc, root) = Below(doc, root) BY ExecutedUnderSupported
<1> HIDE DEF roots
<1>3. pair \in Selects(doc, op) <=>
        \E root \in {r \in roots : IsDataField(r)} :
           pair \in {<<NameOf(root), NameOf(path)>> :
                        path \in {p \in {root} \cup ExecutedUnder(doc, root) : IsDataField(p)}}
  BY <1>1, Zenon DEF Selects
<1> QED BY <1>2, <1>3, Zenon DEF roots

-----------------------------------------------------------------------------
(***************************************************************************)
(* The attenuation theorem.                                                *)
(***************************************************************************)

\* One operation that is a subset of another selects no more.
LEMMA SubsetSelectsNoMore ==
    ASSUME NEW Labels,
           NEW doc, Parsed(doc, Labels), NEW op \in Operations(doc), Supported(doc, op),
           NEW entry, Parsed(entry, Labels), NEW granted \in Operations(entry), Supported(entry, granted),
           IsFieldSubsetOfEntry(ParseOperation(doc, op), ParseOperation(entry, granted))
    PROVE  granted.kind = op.kind /\ Selects(doc, op) \subseteq Selects(entry, granted)
<1> DEFINE roots == SelectionSet(doc, <<op>>)
           grantedRoots == SelectionSet(entry, <<granted>>)
           names == {NameOf(path) : path \in roots}
           grantedNames == {NameOf(path) : path \in grantedRoots}
           fields(name) == UNION {CollectFieldNames(doc, path) : path \in {p \in roots : NameOf(p) = name}}
           grantedFields(name) ==
               UNION {CollectFieldNames(entry, path) : path \in {p \in grantedRoots : NameOf(p) = name}}
<1>1. ParseOperation(doc, op) = [operation |-> op.kind, fields |-> [name \in names |-> fields(name)]]
  BY Zenon DEF ParseOperation
<1>2. ParseOperation(entry, granted) =
        [operation |-> granted.kind, fields |-> [name \in grantedNames |-> grantedFields(name)]]
  BY Zenon DEF ParseOperation
<1> HIDE DEF names, grantedNames, fields, grantedFields
<1>3. /\ granted.kind = op.kind
      /\ \A name \in names : name \in grantedNames /\ fields(name) \subseteq grantedFields(name)
  BY <1>1, <1>2 DEF IsFieldSubsetOfEntry
<1>4. ASSUME NEW pair \in Selects(doc, op) PROVE pair \in Selects(entry, granted)
  <2>1. PICK root \in roots :
           /\ IsDataField(root)
           /\ \E path \in {root} \cup Below(doc, root) :
                 IsDataField(path) /\ pair = <<NameOf(root), NameOf(path)>>
    BY SelectsOfSupported
  <2>2. PICK path \in {root} \cup Below(doc, root) :
           IsDataField(path) /\ pair = <<NameOf(root), NameOf(path)>>
    BY <2>1
  <2>3. NameOf(root) \in names BY DEF names
  <2>4. NameOf(root) \in grantedNames /\ fields(NameOf(root)) \subseteq grantedFields(NameOf(root))
    BY <1>3, <2>3
  <2>5. \A other \in grantedRoots : IsField(other) BY DEF Supported
  <2>6. CASE path = root
    <3>1. PICK other \in grantedRoots : NameOf(other) = NameOf(root) BY <2>4 DEF grantedNames
    <3>2. IsDataField(other) BY <2>1, <2>5, <3>1 DEF IsDataField
    <3> QED BY <2>2, <2>6, <3>1, <3>2, SelectsOfSupported, Zenon
  <2>7. CASE path \in Below(doc, root)
    <3>1. NameOf(path) \in CollectFieldNames(doc, root) BY <2>2, <2>7, Zenon DEF CollectFieldNames
    <3>2. NameOf(path) \in fields(NameOf(root)) BY <3>1, Zenon DEF fields
    <3>3. NameOf(path) \in grantedFields(NameOf(root)) BY <2>4, <3>2
    <3>4. PICK other \in grantedRoots :
             NameOf(other) = NameOf(root) /\ NameOf(path) \in CollectFieldNames(entry, other)
      BY <3>3, Zenon DEF grantedFields
    <3>5. PICK below \in Below(entry, other) : IsDataField(below) /\ NameOf(below) = NameOf(path)
      BY <3>4, Zenon DEF CollectFieldNames
    <3>6. IsDataField(other) BY <2>1, <2>5, <3>4 DEF IsDataField
    <3> QED BY <2>2, <3>4, <3>5, <3>6, SelectsOfSupported, Zenon
  <2> QED BY <2>6, <2>7
<1> QED BY <1>3, <1>4

\* What an operation selects depends on the tree alone.
LEMMA SameTreeSelectsSame ==
    ASSUME NEW doc, NEW entry, entry.tree = doc.tree, NEW op
    PROVE  Selects(doc, op) = Selects(entry, op) /\ Operations(doc) = Operations(entry)
<1>1. Definitions(doc) = Definitions(entry) BY DEF Definitions
<1>2. Fragments(doc) = Fragments(entry) /\ Operations(doc) = Operations(entry)
  BY <1>1 DEF Fragments, Operations
<1>3. \A at : Below(doc, at) = Below(entry, at) BY DEF Below
<1>4. \A paths : SpreadBy(doc, paths) = SpreadBy(entry, paths) BY <1>2 DEF SpreadBy
<1>5. \A paths, inside : Reached(doc, paths, inside) = Reached(entry, paths, inside)
  <2> SUFFICES ASSUME NEW paths, NEW inside
               PROVE  Reached(doc, paths, inside) = Reached(entry, paths, inside)
    OBVIOUS
  <2> DEFINE Closed(d, closed) ==
                 /\ SpreadBy(d, paths) \subseteq closed
                 /\ \A other \in closed : SpreadBy(d, inside[other]) \subseteq closed
  <2>1. \A closed : Closed(doc, closed) <=> Closed(entry, closed) BY <1>4, Zenon
  <2>2. \A d : Reached(d, paths, inside) =
                 {def \in Fragments(d) : \A closed \in SUBSET Fragments(d) : Closed(d, closed) => def \in closed}
    BY Zenon DEF Reached
  <2> HIDE DEF Closed
  <2> QED BY <1>2, <2>1, <2>2
<1>6. \A paths, inside : Inlined(doc, paths, inside) = Inlined(entry, paths, inside)
  BY <1>5, Zenon DEF Inlined
<1>7. \A at : Outermost(doc, at) = Outermost(entry, at) BY <1>3, Zenon DEF Outermost
<1>8. Inside(doc) = Inside(entry) BY <1>2, <1>3, Zenon DEF Inside
<1>9. \A at : ExecutedUnder(doc, at) = ExecutedUnder(entry, at)
  BY <1>3, <1>6, <1>8, Zenon DEF ExecutedUnder
<1>10. RootFields(doc, op) = RootFields(entry, op)
  BY <1>2, <1>6, <1>7, Zenon DEF RootFields
<1>11. Selects(doc, op) = Selects(entry, op)
  <2> DEFINE From(d, root) == {<<NameOf(root), NameOf(path)>> :
                                  path \in {p \in {root} \cup ExecutedUnder(d, root) : IsDataField(p)}}
             Roots(d) == {r \in RootFields(d, op) : IsDataField(r)}
  <2>1. \A root : From(doc, root) = From(entry, root) BY <1>9
  <2>2. Roots(doc) = Roots(entry) BY <1>10
  <2>3. \A d : Selects(d, op) = UNION {From(d, root) : root \in Roots(d)} BY Zenon DEF Selects
  <2> HIDE DEF From, Roots
  <2> QED BY <2>1, <2>2, <2>3
<1> QED BY <1>2, <1>11

\* matchesAllowedAction lets no operation of a document select more than some
\* operation of one granted document does, wherever fragments, aliases and
\* __typename stand in either: for all documents a parser makes, of which those
\* with the same text have the same tree.
THEOREM MatchedIsCovered ==
    ASSUME NEW Labels, NEW allowedAction, NEW doc,
           \A entry \in allowedAction \cup {doc} : Parsed(entry, Labels),
           SameTextSameTree(allowedAction \cup {doc}),
           MatchesAllowedAction(allowedAction, doc),
           NEW op \in Operations(doc)
    PROVE  Covered(allowedAction, doc, op)
<1>1. CASE \E entry \in allowedAction : entry.text = doc.text
  <2>1. PICK entry \in allowedAction : entry.text = doc.text BY <1>1
  <2>2. entry.tree = doc.tree BY <2>1 DEF SameTextSameTree
  <2>3. op \in Operations(entry) /\ Selects(doc, op) \subseteq Selects(entry, op)
    BY <2>2, SameTreeSelectsSame
  <2> QED BY <2>1, <2>3 DEF Covered
<1>2. CASE /\ ParseOperations(doc) # {}
           /\ \A o \in ParseOperations(doc) :
                 \E g \in UNION {ParseOperations(entry) : entry \in allowedAction} :
                    IsFieldSubsetOfEntry(o, g)
  <2>1. /\ \A o \in Operations(doc) : Supported(doc, o)
        /\ ParseOperation(doc, op) \in ParseOperations(doc)
    BY <1>2, Zenon DEF ParseOperations
  <2>2. PICK entry \in allowedAction :
           \E g \in ParseOperations(entry) : IsFieldSubsetOfEntry(ParseOperation(doc, op), g)
    BY <1>2, <2>1, Zenon
  <2>3. PICK granted \in Operations(entry) :
           /\ Supported(entry, granted)
           /\ IsFieldSubsetOfEntry(ParseOperation(doc, op), ParseOperation(entry, granted))
    BY <2>2, Zenon DEF ParseOperations
  <2>4. granted.kind = op.kind /\ Selects(doc, op) \subseteq Selects(entry, granted)
    BY <2>1, <2>3, SubsetSelectsNoMore
  <2> QED BY <2>3, <2>4 DEF Covered
<1> QED BY <1>1, <1>2 DEF MatchesAllowedAction

-----------------------------------------------------------------------------
(***************************************************************************)
(* What the gate has established when it accepts.                          *)
(***************************************************************************)

LEMMA LeastExists ==
    ASSUME NEW T, T \subseteq Nat, T # {}
    PROVE  \E x \in T : \A y \in T : x <= y
<1> DEFINE less == {pair \in Nat \X Nat : pair[1] < pair[2]}
<1>1. IsWellFoundedOn(less, Nat) BY NatLessThanWellFounded, Zenon DEF OpToRel
<1> HIDE DEF less
<1>2. PICK x \in T : \A y \in T : ~(<<y, x>> \in less) BY <1>1, WFMin
<1>3. \A y \in T : ~(y < x) BY <1>2 DEF less
<1> QED BY <1>3

\* If the first problem is none, there is none.
LEMMA NoProblemAtAll ==
    ASSUME NEW checks, NEW n \in Nat, DOMAIN checks = 1..n,
           \A i \in 1..n : checks[i][2] # "none",
           FirstProblem(checks) = "none",
           NEW i \in 1..n
    PROVE  ~checks[i][1]
<1> SUFFICES ASSUME checks[i][1] PROVE FALSE OBVIOUS
<1> DEFINE failing == {k \in DOMAIN checks : checks[k][1]}
           first == CHOOSE k \in failing : \A j \in failing : k <= j
<1>1. failing # {} /\ failing \subseteq Nat /\ failing \subseteq 1..n OBVIOUS
<1>2. FirstProblem(checks) = checks[first][2] BY <1>1 DEF FirstProblem
<1> HIDE DEF failing
<1>3. first \in failing BY <1>1, LeastExists
<1> QED BY <1>1, <1>2, <1>3

\* If no row fails, there is none.
LEMMA NothingFails ==
    ASSUME NEW checks, NEW n \in Nat, DOMAIN checks = 1..n, \A i \in 1..n : ~checks[i][1]
    PROVE  FirstProblem(checks) = "none"
<1> DEFINE failing == {k \in DOMAIN checks : checks[k][1]}
<1>1. failing = {} OBVIOUS
<1> HIDE DEF failing
<1> QED BY <1>1, Zenon DEF FirstProblem, failing

\* A capability that passed VerifyChain.
ChainHolds(leaf, config, time) ==
    LET cap == leaf.document
        root == config.rootCapability
    IN
    /\ cap.invocationTarget = config.expectedInvocationTarget
    /\ cap.parentCapability = root.id
    /\ ~Expired(cap.expires, time)
    /\ leaf.options.proofPurpose = "capabilityDelegation"
    /\ leaf.signature = [key |-> root.controller, over |-> SignedContent(leaf.options, cap)]

LEMMA ChainIsVerified ==
    ASSUME NEW leaf, NEW config, NEW time, VerifyChain(leaf, config, time) = "none"
    PROVE  ChainHolds(leaf, config, time)
<1> DEFINE cap == leaf.document
           root == config.rootCapability
           signer == leaf.options.verificationMethod
           checks == <<
        <<StructuralProblem(leaf), "MALFORMED_CAPABILITY">>,
        <<root.controller \notin DidKeys, "UNSUPPORTED_CONTROLLER">>,
        <<cap.controller \notin DidKeys, "UNSUPPORTED_CONTROLLER">>,
        <<cap.invocationTarget # config.expectedInvocationTarget, "INVOCATION_TARGET_MISMATCH">>,
        <<cap.parentCapability # root.id, "PARENT_CAPABILITY_MISMATCH">>,
        <<cap.caveats > 0 /\ ~config.allowUnsupportedCaveats, "CAVEAT_UNSUPPORTED">>,
        <<CapabilityChainMismatch(leaf, root), "CAPABILITY_CHAIN_MISMATCH">>,
        <<cap.expires.kind # "date", "MALFORMED_CAPABILITY">>,
        <<Expired(cap.expires, time), "EXPIRED">>,
        <<signer = Absent, "MALFORMED_CAPABILITY">>,
        <<signer \notin DidKeys, "UNSUPPORTED_CONTROLLER">>,
        <<leaf.options.cryptosuite # "eddsa-jcs-2022", "UNSUPPORTED_CRYPTOSUITE">>,
        <<signer # SignerOfDelegation(leaf, root), "PROOF_INVALID">>,
        <<~VerifyEddsaJcs2022(leaf, "capabilityDelegation"), "PROOF_INVALID">> >>
<1>1. FirstProblem(checks) = "none" BY Zenon DEF VerifyChain
<1>2. DOMAIN checks = 1..14 OBVIOUS
<1>3. \A i \in 1..14 : checks[i][2] # "none" OBVIOUS
<1>4. /\ checks[4][1] = (cap.invocationTarget # config.expectedInvocationTarget)
      /\ checks[5][1] = (cap.parentCapability # root.id)
      /\ checks[9][1] = Expired(cap.expires, time)
      /\ checks[13][1] = (signer # SignerOfDelegation(leaf, root))
      /\ checks[14][1] = ~VerifyEddsaJcs2022(leaf, "capabilityDelegation")
  OBVIOUS
<1> HIDE DEF checks
<1>5. \A i \in 1..14 : ~checks[i][1] BY <1>1, <1>2, <1>3, NoProblemAtAll
<1>6. ~checks[4][1] /\ ~checks[5][1] /\ ~checks[9][1] /\ ~checks[13][1] /\ ~checks[14][1] BY <1>5
<1>7. signer = root.controller /\ VerifyEddsaJcs2022(leaf, "capabilityDelegation")
  BY <1>4, <1>6 DEF SignerOfDelegation
<1>8. /\ leaf.options.proofPurpose = "capabilityDelegation"
      /\ leaf.signature = [key |-> root.controller, over |-> SignedContent(leaf.options, cap)]
  BY <1>7, Zenon DEF VerifyEddsaJcs2022
<1> QED BY <1>4, <1>6, <1>8 DEF ChainHolds

\* An embedded invocation that was verified.
LEMMA EmbeddedIsVerified ==
    ASSUME NEW leaf, NEW invocation, NEW query, NEW config, NEW time,
           VerifyInvocationProof(leaf, invocation, query, config, time) = "none"
    PROVE  /\ invocation # Absent
           /\ invocation.options.verificationMethod = leaf.document.controller
           /\ invocation.options.capability = leaf.document.id
           /\ invocation.options.capabilityAction = query.raw
           /\ ~EmbeddedStale(invocation.options.created, config, time)
<1> DEFINE signed == invocation.options
           cap == leaf.document
           checks == <<
        <<signed.proofPurpose # "capabilityInvocation", "MALFORMED_CAPABILITY">>,
        <<signed.verificationMethod # cap.controller, "PROOF_INVALID">>,
        <<signed.capability # cap.id, "MALFORMED_CAPABILITY">>,
        <<signed.invocationTarget # cap.invocationTarget, "INVOCATION_TARGET_MISMATCH">>,
        <<~SignsQuery(signed, query), "MALFORMED_CAPABILITY">>,
        <<EmbeddedStale(signed.created, config, time), "INVOCATION_STALE">>,
        <<~VerifyEddsaJcs2022(invocation, "capabilityInvocation"), "PROOF_INVALID">> >>
<1>1. invocation # Absent /\ FirstProblem(checks) = "none"
  <2>1. invocation # Absent BY DEF VerifyInvocationProof
  <2> QED BY <2>1, Zenon DEF VerifyInvocationProof
<1>2. DOMAIN checks = 1..7 OBVIOUS
<1>3. \A i \in 1..7 : checks[i][2] # "none" OBVIOUS
<1>4. /\ checks[2][1] = (signed.verificationMethod # cap.controller)
      /\ checks[3][1] = (signed.capability # cap.id)
      /\ checks[5][1] = ~SignsQuery(signed, query)
      /\ checks[6][1] = EmbeddedStale(signed.created, config, time)
  OBVIOUS
<1> HIDE DEF checks
<1>5. \A i \in 1..7 : ~checks[i][1] BY <1>1, <1>2, <1>3, NoProblemAtAll
<1>6. ~checks[2][1] /\ ~checks[3][1] /\ ~checks[5][1] /\ ~checks[6][1] BY <1>5
<1> QED BY <1>1, <1>4, <1>6 DEF SignsQuery

\* An HTTP signature that was verified.
LEMMA HttpIsVerified ==
    ASSUME NEW request, NEW leaf, VerifyHttpSignature(request, leaf) = "none"
    PROVE  request.signatureInput.keyid = leaf.document.controller
<1> DEFINE input == request.signatureInput
           badInput == ~input.parses
           badAlg == input.alg \notin {Absent, "ed25519"}
           badDigest == ~DigestMatches(request.body, request.contentDigest)
           badSignature == request.signature # [key |-> input.keyid,
                               over |-> BuildSignatureBase(request, input.keyid, input.created)]
           checks == <<
        <<badInput, "Signature-Input is malformed">>,
        <<badAlg, "unsupported alg">>,
        <<input.keyid = Absent, "missing keyid">>,
        <<input.created = Absent, "missing created">>,
        <<input.keyid \notin DidKeys, "keyid is not a did:key">>,
        <<input.keyid # leaf.document.controller, "keyid of another controller">>,
        <<request.contentDigest = Absent, "missing Content-Digest">>,
        <<badDigest, "Content-Digest does not match">>,
        <<input.keyid \notin Ed25519Dids, "no Ed25519 key">>,
        <<badSignature, "failed verification">> >>
<1>1. FirstProblem(checks) = "none"
  <2>1. request.signature # Absent BY DEF VerifyHttpSignature
  <2> QED BY <2>1, Zenon DEF VerifyHttpSignature
<1> HIDE DEF badInput, badAlg, badDigest, badSignature
<1>2. DOMAIN checks = 1..10 OBVIOUS
<1>3. \A i \in 1..10 : checks[i][2] # "none"
  <2>1. /\ checks[1][2] # "none" /\ checks[2][2] # "none" /\ checks[3][2] # "none"
        /\ checks[4][2] # "none" /\ checks[5][2] # "none" /\ checks[6][2] # "none"
        /\ checks[7][2] # "none" /\ checks[8][2] # "none" /\ checks[9][2] # "none"
        /\ checks[10][2] # "none"
    OBVIOUS
  <2> HIDE DEF checks
  <2> QED BY <2>1
<1>4. checks[6][1] = (input.keyid # leaf.document.controller) OBVIOUS
<1> HIDE DEF checks
<1>5. \A i \in 1..10 : ~checks[i][1] BY <1>1, <1>2, <1>3, NoProblemAtAll
<1>6. ~checks[6][1] BY <1>5
<1> QED BY <1>4, <1>6

-----------------------------------------------------------------------------
(***************************************************************************)
(* Conversely, what suffices to pass.                                      *)
(***************************************************************************)

LEMMA ProofPasses ==
    ASSUME NEW secured, NEW purpose,
           secured.options.type = "DataIntegrityProof", secured.options.cryptosuite = "eddsa-jcs-2022",
           secured.options.proofPurpose = purpose,
           secured.options.verificationMethod \in Ed25519Dids,
           secured.signature = [key |-> secured.options.verificationMethod,
                                over |-> SignedContent(secured.options, secured.document)]
    PROVE  VerifyEddsaJcs2022(secured, purpose)
BY Zenon DEF VerifyEddsaJcs2022

\* A chain all of whose links fit.
LEMMA ChainPasses ==
    ASSUME NEW leaf, NEW config, NEW time, Absent \notin DidKeys,
           ~StructuralProblem(leaf),
           leaf.document.controller \in DidKeys,
           leaf.document.invocationTarget = config.expectedInvocationTarget,
           leaf.document.parentCapability = config.rootCapability.id,
           leaf.document.caveats = 0,
           ~CapabilityChainMismatch(leaf, config.rootCapability),
           leaf.document.expires.kind = "date",
           ~Expired(leaf.document.expires, time),
           leaf.options.cryptosuite = "eddsa-jcs-2022",
           leaf.options.verificationMethod = config.rootCapability.controller,
           config.rootCapability.controller \in DidKeys,
           VerifyEddsaJcs2022(leaf, "capabilityDelegation")
    PROVE  VerifyChain(leaf, config, time) = "none"
<1> DEFINE cap == leaf.document
           root == config.rootCapability
           signer == leaf.options.verificationMethod
           malformed == StructuralProblem(leaf)
           caveated == cap.caveats > 0 /\ ~config.allowUnsupportedCaveats
           detached == CapabilityChainMismatch(leaf, root)
           late == Expired(cap.expires, time)
           forged == ~VerifyEddsaJcs2022(leaf, "capabilityDelegation")
           checks == <<
        <<malformed, "MALFORMED_CAPABILITY">>,
        <<root.controller \notin DidKeys, "UNSUPPORTED_CONTROLLER">>,
        <<cap.controller \notin DidKeys, "UNSUPPORTED_CONTROLLER">>,
        <<cap.invocationTarget # config.expectedInvocationTarget, "INVOCATION_TARGET_MISMATCH">>,
        <<cap.parentCapability # root.id, "PARENT_CAPABILITY_MISMATCH">>,
        <<caveated, "CAVEAT_UNSUPPORTED">>,
        <<detached, "CAPABILITY_CHAIN_MISMATCH">>,
        <<cap.expires.kind # "date", "MALFORMED_CAPABILITY">>,
        <<late, "EXPIRED">>,
        <<signer = Absent, "MALFORMED_CAPABILITY">>,
        <<signer \notin DidKeys, "UNSUPPORTED_CONTROLLER">>,
        <<leaf.options.cryptosuite # "eddsa-jcs-2022", "UNSUPPORTED_CRYPTOSUITE">>,
        <<signer # SignerOfDelegation(leaf, root), "PROOF_INVALID">>,
        <<forged, "PROOF_INVALID">> >>
<1>1. VerifyChain(leaf, config, time) = FirstProblem(checks) BY Zenon DEF VerifyChain
<1>2. ~malformed /\ ~caveated /\ ~detached /\ ~late /\ ~forged
  <2>1. ~caveated OBVIOUS
  <2> QED BY <2>1, Zenon
<1>3. signer = SignerOfDelegation(leaf, root) BY DEF SignerOfDelegation
<1> HIDE DEF malformed, caveated, detached, late, forged
<1>4. DOMAIN checks = 1..14 OBVIOUS
<1>5. /\ ~checks[1][1] /\ ~checks[2][1] /\ ~checks[3][1] /\ ~checks[4][1] /\ ~checks[5][1]
      /\ ~checks[6][1] /\ ~checks[7][1] /\ ~checks[8][1] /\ ~checks[9][1] /\ ~checks[10][1]
      /\ ~checks[11][1] /\ ~checks[12][1] /\ ~checks[13][1] /\ ~checks[14][1]
  BY <1>2, <1>3
<1> HIDE DEF checks
<1>6. \A i \in 1..14 : ~checks[i][1] BY <1>5
<1> QED BY <1>1, <1>4, <1>6, NothingFails

\* An invocation that agrees with its capability and its query.
LEMMA EmbeddedPasses ==
    ASSUME NEW leaf, NEW invocation, NEW query, NEW config, NEW time,
           invocation # Absent,
           invocation.options.proofPurpose = "capabilityInvocation",
           invocation.options.verificationMethod = leaf.document.controller,
           invocation.options.capability = leaf.document.id,
           invocation.options.invocationTarget = leaf.document.invocationTarget,
           invocation.options.capabilityAction = query.raw,
           ~EmbeddedStale(invocation.options.created, config, time),
           VerifyEddsaJcs2022(invocation, "capabilityInvocation")
    PROVE  VerifyInvocationProof(leaf, invocation, query, config, time) = "none"
<1> DEFINE signed == invocation.options
           cap == leaf.document
           checks == <<
        <<signed.proofPurpose # "capabilityInvocation", "MALFORMED_CAPABILITY">>,
        <<signed.verificationMethod # cap.controller, "PROOF_INVALID">>,
        <<signed.capability # cap.id, "MALFORMED_CAPABILITY">>,
        <<signed.invocationTarget # cap.invocationTarget, "INVOCATION_TARGET_MISMATCH">>,
        <<~SignsQuery(signed, query), "MALFORMED_CAPABILITY">>,
        <<EmbeddedStale(signed.created, config, time), "INVOCATION_STALE">>,
        <<~VerifyEddsaJcs2022(invocation, "capabilityInvocation"), "PROOF_INVALID">> >>
<1>1. DOMAIN checks = 1..7 OBVIOUS
<1>2. /\ ~checks[1][1] /\ ~checks[2][1] /\ ~checks[3][1] /\ ~checks[4][1]
      /\ ~checks[5][1] /\ ~checks[6][1] /\ ~checks[7][1]
  BY DEF SignsQuery
<1>3. VerifyInvocationProof(leaf, invocation, query, config, time) = FirstProblem(checks)
  BY Zenon DEF VerifyInvocationProof
<1> HIDE DEF checks
<1>4. \A i \in 1..7 : ~checks[i][1] BY <1>2
<1> QED BY <1>1, <1>3, <1>4, NothingFails

\* A signature by the capability's controller over what the request holds.
LEMMA HttpPasses ==
    ASSUME NEW request, NEW leaf, Absent \notin DidKeys,
           request.signature # Absent, request.signatureInput.parses,
           request.signatureInput.alg = "ed25519",
           request.signatureInput.keyid = leaf.document.controller,
           leaf.document.controller \in Ed25519Dids,
           request.signatureInput.created # Absent,
           request.contentDigest # Absent, DigestMatches(request.body, request.contentDigest),
           request.signature = [key |-> request.signatureInput.keyid,
                                over |-> BuildSignatureBase(request, request.signatureInput.keyid,
                                                            request.signatureInput.created)]
    PROVE  VerifyHttpSignature(request, leaf) = "none"
<1> DEFINE input == request.signatureInput
           badInput == ~input.parses
           badAlg == input.alg \notin {Absent, "ed25519"}
           badDigest == ~DigestMatches(request.body, request.contentDigest)
           badSignature == request.signature # [key |-> input.keyid,
                               over |-> BuildSignatureBase(request, input.keyid, input.created)]
           checks == <<
        <<badInput, "Signature-Input is malformed">>,
        <<badAlg, "unsupported alg">>,
        <<input.keyid = Absent, "missing keyid">>,
        <<input.created = Absent, "missing created">>,
        <<input.keyid \notin DidKeys, "keyid is not a did:key">>,
        <<input.keyid # leaf.document.controller, "keyid of another controller">>,
        <<request.contentDigest = Absent, "missing Content-Digest">>,
        <<badDigest, "Content-Digest does not match">>,
        <<input.keyid \notin Ed25519Dids, "no Ed25519 key">>,
        <<badSignature, "failed verification">> >>
<1>1. VerifyHttpSignature(request, leaf) = FirstProblem(checks) BY Zenon DEF VerifyHttpSignature
<1>2. ~badInput /\ ~badAlg /\ ~badDigest /\ ~badSignature BY Zenon
<1>3. input.keyid \in DidKeys /\ input.keyid # Absent BY KeyAssumption
<1> HIDE DEF badInput, badAlg, badDigest, badSignature
<1>4. DOMAIN checks = 1..10 OBVIOUS
<1>5. /\ ~checks[1][1] /\ ~checks[2][1] /\ ~checks[3][1] /\ ~checks[4][1] /\ ~checks[5][1]
      /\ ~checks[6][1] /\ ~checks[7][1] /\ ~checks[8][1] /\ ~checks[9][1] /\ ~checks[10][1]
  BY <1>2, <1>3
<1> HIDE DEF checks
<1>6. \A i \in 1..10 : ~checks[i][1] BY <1>5
<1> QED BY <1>1, <1>4, <1>6, NothingFails
=============================================================================
