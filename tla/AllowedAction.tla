----------------------------- MODULE AllowedAction -----------------------------
(***************************************************************************)
(* allowedAction as a means of attenuation: server/src/zcap.ts lets a      *)
(* document through that equals a granted one up to white space, or whose  *)
(* every operation selects no more than one operation of a granted one.    *)
(***************************************************************************)
EXTENDS GraphQLDocuments

\* Operations that the walk understands: fields on the root, no named fragment
\* anywhere.
Supported(doc, op) ==
    /\ \A path \in SelectionSet(doc, <<op>>) : IsField(path)
    /\ \A path \in Below(doc, <<op>>) : ~IsSpread(path)

\* BUG: a nested __typename has to be granted like a field.
BugCollectFieldNames(doc, at) == {NameOf(path) : path \in {p \in Below(doc, at) : IsField(p)}}

\* Every field name under a path, at any depth and through inline fragments.
CollectFieldNames(doc, at) ==
    {NameOf(path) : path \in {p \in Below(doc, at) : IsDataField(p)}}

\* One entry per root field; several selections of it are united.  A root
\* __typename is a root field like any other here.
ParseOperation(doc, op) ==
    LET roots == SelectionSet(doc, <<op>>) IN
    [operation |-> op.kind,
     fields |-> [name \in {NameOf(path) : path \in roots} |->
                    UNION {CollectFieldNames(doc, path) :
                              path \in {p \in roots : NameOf(p) = name}}]]

\* All operations, or none if one of them is not understood, nothing parses, or
\* there is none.
ParseOperations(doc) ==
    IF \A op \in Operations(doc) : Supported(doc, op)
    THEN {ParseOperation(doc, op) : op \in Operations(doc)}
    ELSE {}

IsFieldSubsetOfEntry(query, entry) ==
    /\ query.operation = entry.operation
    /\ \A root \in DOMAIN query.fields :
          root \in DOMAIN entry.fields /\ query.fields[root] \subseteq entry.fields[root]

\* BUG: it is enough that one operation of the document is granted.
BugMatchesAllowedAction(allowedAction, doc) ==
    \/ \E entry \in allowedAction : entry.text = doc.text
    \/ \E op \in ParseOperations(doc) :
          \E granted \in UNION {ParseOperations(entry) : entry \in allowedAction} :
             IsFieldSubsetOfEntry(op, granted)

MatchesAllowedAction(allowedAction, doc) ==
    LET requested == ParseOperations(doc) IN
    \/ \E entry \in allowedAction : entry.text = doc.text
    \/ /\ requested # {}
       /\ \A op \in requested :
             \E granted \in UNION {ParseOperations(entry) : entry \in allowedAction} :
                IsFieldSubsetOfEntry(op, granted)

-----------------------------------------------------------------------------
(***************************************************************************)
(* What a grant promises, in terms of what executions select.              *)
(***************************************************************************)

\* Two texts that are equal up to white space are one document.  (A comment or a
\* string literal whose white space differs breaks this; documents with either
\* are not considered.)
SameTextSameTree(docs) == \A d, e \in docs : d.text = e.text => d.tree = e.tree

\* An operation is covered by a grant if some granted document has an operation
\* of the same type whose execution selects all that this one's selects.
Covered(allowedAction, doc, op) ==
    \E entry \in allowedAction : \E granted \in Operations(entry) :
        granted.kind = op.kind /\ Selects(doc, op) \subseteq Selects(entry, granted)
=============================================================================
