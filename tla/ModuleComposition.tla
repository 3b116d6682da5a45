-------------------------- MODULE ModuleComposition --------------------------
(***************************************************************************)
(* server/src/modules.ts: the resolver maps of the modules are merged in   *)
(* the order they are listed, any collision refused, and the result is     *)
(* wired onto the schema.                                                  *)
(*                                                                         *)
(* A resolver map is [scalars, fields]: the types it declares as custom    *)
(* scalars, and its field resolvers as a function from <<type, field>> to  *)
(* what the resolver does before it discloses anything: "invocation" asks  *)
(* the gate, "auth" reports checkAuthOnly, "open" does nothing.            *)
(***************************************************************************)
EXTENDS Naturals, Sequences, SequencesExt

\* A type that is given no field resolver at all has no place in such a map.
TypesOf(map) == {at[1] : at \in DOMAIN map.fields}

\* BUG: field resolvers on a type that is already a scalar are not noticed.
BugCollides(out, map) ==
    \/ map.scalars \cap (out.scalars \cup TypesOf(out)) # {}
    \/ DOMAIN map.fields \cap DOMAIN out.fields # {}

\* A scalar against anything on the type, or a field twice.
Collides(out, map) ==
    \/ map.scalars \cap (out.scalars \cup TypesOf(out)) # {}
    \/ TypesOf(map) \cap out.scalars # {}
    \/ DOMAIN map.fields \cap DOMAIN out.fields # {}

Empty == [scalars |-> {}, fields |-> [at \in {} |-> "open"]]

\* What a map adds to `out`; a field it names is its own from then on.
Spread(out, map) ==
    [scalars |-> out.scalars \cup map.scalars,
     fields |-> [at \in DOMAIN out.fields \cup DOMAIN map.fields |->
                    IF at \in DOMAIN map.fields THEN map.fields[at] ELSE out.fields[at]]]

\* BUG: resolvers for fields that the schema does not have are wired too.
BugAttachResolvers(schemaFields, out) ==
    [at \in schemaFields \cup DOMAIN out.fields |->
        IF at \in DOMAIN out.fields THEN out.fields[at] ELSE "property"]

\* attachResolvers: fields that the schema has get the resolver merged for them,
\* all others read a property of the parent object.
AttachResolvers(schemaFields, out) ==
    [at \in schemaFields |-> IF at \in DOMAIN out.fields THEN out.fields[at] ELSE "property"]
=============================================================================
