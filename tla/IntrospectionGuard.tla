-------------------------- MODULE IntrospectionGuard --------------------------
(***************************************************************************)
(* server/src/introspection.ts: schema introspection passes no resolver,   *)
(* hence no gate; a host asks checkIntrospection before it executes.       *)
(***************************************************************************)
EXTENDS InvocationGate

IntrospectionFields == {"__schema", "__type"}

\* The text check in front of the parse; "__typename" contains "__type".
Mentions(doc) ==
    \E path \in doc.tree : IsField(path) /\ NameOf(path) \in IntrospectionFields \cup {"__typename"}

\* BUG: fragments are followed one step from the operation only.
BugSelectsIntrospection(doc, op) ==
    \E path \in Below(doc, <<op>>) \cup
                UNION {Below(doc, <<def>>) : def \in SpreadBy(doc, Below(doc, <<op>>))} :
        IsField(path) /\ NameOf(path) \in IntrospectionFields

\* The walk visits every selection, nested or in a fragment, and each fragment
\* once: what it sees is what the operation reaches.
SelectsIntrospection(doc, op) ==
    \E path \in ExecutedUnder(doc, <<op>>) : IsField(path) /\ NameOf(path) \in IntrospectionFields

ContainsSchemaIntrospection(doc) ==
    Mentions(doc) /\ \E op \in Operations(doc) : SelectsIntrospection(doc, op)

CheckIntrospection(config, payload, doc, policy, now) ==
    \/ policy = "public"
    \/ ~ContainsSchemaIntrospection(doc)
    \/ policy = "authorized" /\ CheckAuthOnly(config, payload, now) = "none"
=============================================================================
