--------------------------- MODULE GraphQLDocuments ---------------------------
(***************************************************************************)
(* GraphQL documents, as far as the server package looks into them, and    *)
(* what executing one selects (graphql-js, external).                      *)
(*                                                                         *)
(* A document is [text, tree]: its text up to white space, and the set of  *)
(* paths to its selections.  A path starts with the label of a definition  *)
(* (an operation or a fragment) and goes on with one label per nested      *)
(* selection; labels are [kind, name, alias].  A text that does not parse  *)
(* has no path.  Argument values are not represented: nothing reads them.  *)
(***************************************************************************)
EXTENDS Naturals, Sequences, SequencesExt

OperationKinds == {"query", "mutation", "subscription"}

Label(kind, name, alias) == [kind |-> kind, name |-> name, alias |-> alias]

\* What the parser makes: with a path, all that lead to it.
Parsed(doc, Labels) ==
    /\ doc.tree \subseteq Seq(Labels)
    /\ \A path \in doc.tree : Len(path) > 0 /\ \A n \in 1..Len(path) : SubSeq(path, 1, n) \in doc.tree

LabelsOf(docs) == UNION {{path[i] : i \in DOMAIN path} : path \in UNION {doc.tree : doc \in docs}}

Definitions(doc) == {Head(path) : path \in doc.tree}

Operations(doc) == {def \in Definitions(doc) : def.kind \in OperationKinds}

Fragments(doc) == {def \in Definitions(doc) : def.kind = "FragmentDefinition"}

\* The selections nested under a path, at any depth.
Below(doc, at) == {path \in doc.tree : IsStrictPrefix(at, path)}

\* The selections of the selection set at a path.
SelectionSet(doc, at) == {path \in Below(doc, at) : Len(path) = Len(at) + 1}

KindOf(path) == Last(path).kind

NameOf(path) == Last(path).name

IsField(path) == KindOf(path) = "Field"

IsDataField(path) == IsField(path) /\ NameOf(path) # "__typename"

IsSpread(path) == KindOf(path) = "FragmentSpread"

-----------------------------------------------------------------------------
(***************************************************************************)
(* What executing an operation selects.                                    *)
(***************************************************************************)

\* The fragments that spreads among some paths name.
SpreadBy(doc, paths) ==
    {def \in Fragments(doc) : \E path \in paths : IsSpread(path) /\ NameOf(path) = def.name}

\* Fragments reached from some paths, through fragments of fragments: the least
\* set that holds those the paths name and is closed under `inside`, the paths
\* of each fragment that count.
Reached(doc, paths, inside) ==
    {def \in Fragments(doc) :
        \A closed \in SUBSET Fragments(doc) :
            /\ SpreadBy(doc, paths) \subseteq closed
            /\ \A other \in closed : SpreadBy(doc, inside[other]) \subseteq closed
            => def \in closed}

\* Some paths with those of all the fragments they reach.
Inlined(doc, paths, inside) ==
    paths \cup UNION {inside[def] : def \in Reached(doc, paths, inside)}

Inside(doc) == [def \in Fragments(doc) |-> Below(doc, <<def>>)]

\* Every selection executed under a path.
ExecutedUnder(doc, at) == Inlined(doc, Below(doc, at), Inside(doc))

\* The selections of the definition at a path that no field encloses.
Outermost(doc, at) ==
    {path \in Below(doc, at) : \A i \in Len(at) + 1..Len(path) - 1 : path[i].kind # "Field"}

\* The fields that an operation selects on its root type.
RootFields(doc, op) ==
    {path \in Inlined(doc, Outermost(doc, <<op>>),
                      [def \in Fragments(doc) |-> Outermost(doc, <<def>>)]) : IsField(path)}

\* Root field and field below it, itself included, wherever fragments and
\* aliases put them; __typename is metadata.
Selects(doc, op) ==
    UNION {{<<NameOf(root), NameOf(path)>> :
              path \in {p \in {root} \cup ExecutedUnder(doc, root) : IsDataField(p)}} :
           root \in {r \in RootFields(doc, op) : IsDataField(r)}}

\* Documents that graphql() executes: there is an operation, every spread is
\* defined, and no fragment reaches itself.
Executable(doc) ==
    /\ Operations(doc) # {}
    /\ \A path \in doc.tree : IsSpread(path) => SpreadBy(doc, {path}) # {}
    /\ \A def \in Fragments(doc) : def \notin Reached(doc, Inside(doc)[def], Inside(doc))
=============================================================================
