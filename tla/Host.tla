--------------------------------- MODULE Host ---------------------------------
(***************************************************************************)
(* A resource server: examples/case-manager/server.ts around the library.  *)
(* At start-up the modules' resolvers are merged and wired; from then on a *)
(* request is decoded, its capability verified, introspection checked, and *)
(* the document executed field by field, each gated field asking the gate  *)
(* on its own, with the clock of that moment.                              *)
(*                                                                         *)
(* Requests share nothing here but the clock; one is served.               *)
(***************************************************************************)
EXTENDS IntrospectionGuard, ModuleComposition

CONSTANTS
    Orders,         \* the sequences in which modules may be composed
    ResolversOf,    \* ResolversOf[module]: its resolver map
    Schema,         \* Schema[field] = [type, parent]: where it is selected
    Documents,      \* the documents that clients send
    ModernValues,   \* values of Capability-Invocation, Absent if there is none
    LegacyValues,   \* values of x-zcap-invocation, likewise
    Configs,        \* what hosts hand to configureZcap; in unsafeMode the
                    \* expected target is called trustedTarget, and is optional
    Policies,       \* the introspection policies to consider
    MaxTime         \* bound on the clock

ASSUME HostAssumption ==
    /\ MaxTime \in Nat
    /\ Orders \subseteq Seq(DOMAIN ResolversOf)
    /\ Absent \in (ModernValues \cap LegacyValues) \ Documents

\* The capabilities that requests can present.
Leaves ==
    {Leaf(DecodeInvocationHeader(modern, legacy)) : modern \in ModernValues, legacy \in LegacyValues}
        \ {Absent}

\* A header is there or it is not, and so is what it decodes to; a date is one.
ASSUME HeaderAssumption ==
    /\ \A value \in (ModernValues \cup LegacyValues) \ {Absent} :
          /\ value.encoding = "zcap" =>
                [chain |-> <<value.capability>>, invocation |-> value.invocation] # Absent
          /\ value.encoding = "legacy" =>
                [chain |-> value.chain, invocation |-> value.invocation] # Absent
    /\ \A leaf \in Leaves : leaf.document.expires.kind = "date" => leaf.document.expires.at \in Int

ASSUME ConfigAssumption == \A config \in Configs : config.unsafeMode \in BOOLEAN

AllDocuments == Documents \cup UNION {Grants(leaf) : leaf \in Leaves}

\* Documents come from the parser, alike for texts equal up to white space.
ASSUME DocumentAssumption ==
    SameTextSameTree(AllDocuments) /\ \A doc \in AllDocuments : Parsed(doc, LabelsOf(AllDocuments))

\* What a document asks for is in the schema: validation.
ASSUME SchemaAssumption ==
    \A doc \in Documents : \A path \in doc.tree :
        IsDataField(path) => NameOf(path) \in DOMAIN Schema \cup IntrospectionFields

VARIABLES
    order,          \* the modules given to composeModules
    position,       \* how many of them are merged
    out,            \* the resolver map merged from them
    zcapConfig,     \* the configuration of the host's gate
    policy,         \* its introspection policy
    server,         \* "starting", "serving", or "failed" for a collision
    wired,          \* what resolves every field of the schema
    request,        \* the request being served
    now             \* Date.now()

composition == <<order, position, out>>

settings == <<zcapConfig, policy>>

vars == <<composition, settings, server, wired, request, now>>

SchemaFields == {<<Schema[field].type, field>> : field \in DOMAIN Schema}

NoRequest ==
    [pc |-> "idle", modern |-> Absent, legacy |-> Absent, payload |-> Absent,
     doc |-> Absent, op |-> Absent, checkedAt |-> 0, resolved |-> {}, refused |-> {}]

Init ==
    /\ order \in Orders
    /\ position = 0
    /\ out = Empty
    /\ zcapConfig \in Configs /\ policy \in Policies
    /\ server = "starting"
    /\ wired = [at \in SchemaFields |-> "property"]
    /\ request = NoRequest
    /\ now = 0

\* One turn of the loop of mergeResolvers; a collision is thrown out of it.
MergeNext ==
    LET map == ResolversOf[order[position + 1]] IN
    /\ server = "starting" /\ position < Len(order)
    /\ IF Collides(out, map)
       THEN server' = "failed" /\ UNCHANGED composition
       ELSE /\ out' = Spread(out, map) /\ position' = position + 1
            /\ UNCHANGED <<order, server>>
    /\ UNCHANGED <<settings, wired, request, now>>

\* buildSchema, attachResolvers, and the server listens.
StartUp ==
    /\ server = "starting" /\ position = Len(order)
    /\ server' = "serving"
    /\ wired' = AttachResolvers(SchemaFields, out)
    /\ UNCHANGED <<composition, settings, request, now>>

-----------------------------------------------------------------------------
(***************************************************************************)
(* The handler of a POST whose body has arrived.                           *)
(***************************************************************************)
Serve(next) == request' = next /\ UNCHANGED <<composition, settings, server, wired, now>>

\* A body that is not JSON, or without a query, is answered with a 400.
ReceiveRequest ==
    /\ server = "serving" /\ request.pc = "idle"
    /\ \/ Serve([NoRequest EXCEPT !.pc = "answered"])
       \/ \E doc \in Documents, modern \in ModernValues, legacy \in LegacyValues :
             Serve([NoRequest EXCEPT
                       !.pc = "decoded", !.doc = doc, !.modern = modern, !.legacy = legacy,
                       !.payload = DecodeInvocationHeader(modern, legacy)])

\* The example checks the signature of the last capability of the chain, unless
\* that is the placeholder.
VerifyRequestCapability(payload) ==
    IF Leaf(payload) = Absent THEN FALSE
    ELSE LET leaf == Last(payload.chain) IN
         leaf.options.type = "none" \/ VerifyEddsaJcs2022(leaf, leaf.options.proofPurpose)

Verify ==
    /\ request.pc = "decoded"
    /\ Serve([request EXCEPT !.pc = IF VerifyRequestCapability(request.payload)
                                    THEN "verified" ELSE "answered"])

\* graphql() starts on one operation of the document; the example names none, a
\* host that forwards operationName lets the client choose.
StartExecution ==
    /\ request.pc = "verified"
    /\ IF /\ CheckIntrospection(zcapConfig, request.payload, request.doc, policy, now)
          /\ Executable(request.doc)
       THEN \E op \in Operations(request.doc) :
               Serve([request EXCEPT !.pc = "executing", !.op = op, !.checkedAt = now])
       ELSE Serve([request EXCEPT !.pc = "answered"])

-----------------------------------------------------------------------------
(***************************************************************************)
(* Execution.  A selected field is <<root field, field>>; it is resolved   *)
(* once its parent is.                                                     *)
(***************************************************************************)
Resolved == {done.selected : done \in request.resolved}

Pending ==
    {selected \in Selects(request.doc, request.op) :
        /\ selected \notin Resolved /\ selected \notin request.refused
        /\ selected[1] # selected[2] => <<selected[1], Schema[selected[2]].parent>> \in Resolved}

ResolverOf(field) ==
    IF field \in IntrospectionFields THEN "builtin" ELSE wired[<<Schema[field].type, field>>]

\* requireAuthorizedQuery comes first in each gated resolver.
Passes(field) ==
    ResolverOf(field) = "invocation" =>
        CheckInvocation(zcapConfig, request.payload, request.doc, Absent, now).ok

ResolveField ==
    /\ request.pc = "executing"
    /\ \E selected \in Pending :
          Serve(IF Passes(selected[2])
                THEN [request EXCEPT !.resolved = @ \cup {[selected |-> selected, at |-> now]}]
                ELSE [request EXCEPT !.refused = @ \cup {selected}])

Respond ==
    /\ request.pc = "executing" /\ Pending = {}
    /\ Serve([request EXCEPT !.pc = "answered"])

Tick ==
    /\ now < MaxTime
    /\ now' = now + 1
    /\ UNCHANGED <<composition, settings, server, wired, request>>

Next ==
    \/ MergeNext \/ StartUp
    \/ ReceiveRequest \/ Verify \/ StartExecution \/ ResolveField \/ Respond
    \/ Tick

Spec == Init /\ [][Next]_vars

-----------------------------------------------------------------------------
(***************************************************************************)
(* What a host of the library may rely on.                                 *)
(***************************************************************************)
Maps == {ResolversOf[order[i]] : i \in DOMAIN order}

\* Every variable has its type, and nothing is both resolved and refused.
TypeOK ==
    /\ order \in Orders /\ position \in 0..Len(order)
    /\ zcapConfig \in Configs /\ policy \in Policies
    /\ server \in {"starting", "serving", "failed"}
    /\ DOMAIN wired = SchemaFields
    /\ request.pc \in {"idle", "decoded", "verified", "executing", "answered"}
    /\ request.modern \in ModernValues /\ request.legacy \in LegacyValues
    /\ request.doc \in Documents \cup {Absent}
    /\ Resolved \cap request.refused = {}
    /\ now \in 0..MaxTime

\* A field that any module gates is disclosed only to a capability that is in
\* time when the field is resolved, and that grants everything the executed
\* operation selects, however aliases, fragments, several operations, the
\* order of modules or of fields, and the clock play together.
DisclosedWasGranted ==
    \A done \in request.resolved, map \in Maps :
        LET field == done.selected[2]
            leaf == Leaf(request.payload)
        IN
        /\ field \notin IntrospectionFields
        /\ <<Schema[field].type, field>> \in DOMAIN map.fields
        /\ map.fields[<<Schema[field].type, field>>] = "invocation"
        => /\ leaf # Absent
           /\ ~Expired(leaf.document.expires, done.at)
           /\ Covered(Grants(leaf), request.doc, request.op)

\* The target that the gate is told to expect, if any.
ExpectedTarget ==
    IF zcapConfig.unsafeMode THEN zcapConfig.trustedTarget ELSE zcapConfig.expectedInvocationTarget

MeantForHost(leaf) ==
    ExpectedTarget # Absent => leaf.document.invocationTarget = ExpectedTarget

\* The schema is read only as the policy allows: by anyone, by who holds a
\* capability that was in time when execution started and names the target that
\* the host expects, or not at all, however deeply fragments hide the request
\* for it.  A host in unsafeMode that expects no target, as the example does,
\* takes a capability for any endpoint.
IntrospectionWithinPolicy ==
    (\E done \in request.resolved : done.selected[2] \in IntrospectionFields) =>
        \/ policy = "public"
        \/ /\ policy = "authorized"
           /\ Leaf(request.payload) # Absent
           /\ ~Expired(Leaf(request.payload).document.expires, request.checkedAt)
           /\ MeantForHost(Leaf(request.payload))

\* Two maps that claim the same.
Clash(a, b) ==
    \/ DOMAIN a.fields \cap DOMAIN b.fields # {}
    \/ a.scalars \cap (b.scalars \cup TypesOf(b)) # {}

\* Start-up fails exactly if two of the modules claim the same field, the same
\* scalar, or one type in both ways: the order they are listed in does not matter.
CollisionIsOrderFree ==
    server # "starting" =>
        (server = "failed" <=>
            \E i, j \in DOMAIN order : i # j /\ Clash(ResolversOf[order[i]], ResolversOf[order[j]]))

\* Selections of an operation, whatever it is called and however it aliases; a
\* __typename below the root costs nothing.
Shape(doc, op) ==
    {[i \in 1..Len(path) - 1 |-> <<path[i + 1].kind, path[i + 1].name>>] :
        path \in {p \in Below(doc, <<op>>) : Len(p) = 2 \/ ~IsField(p) \/ IsDataField(p)}}

\* A document may narrow a granted one that uses no named fragment, by leaving
\* out fields.
Narrows(doc, entry) ==
    /\ \A granted \in Operations(entry) : Supported(entry, granted)
    /\ \A op \in Operations(doc) : \E granted \in Operations(entry) :
          op.kind = granted.kind /\ Shape(doc, op) \subseteq Shape(entry, granted)

\* A host in unsafeMode refuses no field to a well-formed capability, still in
\* time and for this host, whose document narrows a granted one.  A __typename
\* at the root is no narrowing: the subset test wants it in the grant as well
\* (zcap.ts:387-398, though the server's README has it ignored).
NarrowerIsServed ==
    request.refused # {} =>
        LET leaf == Leaf(request.payload) IN
        ~ /\ zcapConfig.unsafeMode
          /\ leaf # Absent
          /\ Required(leaf.document, {"id", "controller", "invocationTarget", "allowedAction"})
          /\ leaf.document.expires.kind = "date" /\ ~Expired(leaf.document.expires, now)
          /\ MeantForHost(leaf)
          /\ leaf.options.verificationMethod # Absent
          /\ \E entry \in Grants(leaf) : Narrows(request.doc, entry)

\* A capability in the old header is not lost because a new header came along
\* that a proxy has cut short.
UsableHeaderIsUsed ==
    request.pc \in {"decoded", "verified", "executing"} /\ request.legacy # Absent =>
        (request.legacy.encoding = "legacy" => request.payload # Absent)
=============================================================================
