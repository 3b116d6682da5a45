------------------------------ MODULE HostProofs ------------------------------
(***************************************************************************)
(* Proofs about Host for all modules and their order, schemas, documents,  *)
(* headers, policies and configurations of the gate.                       *)
(***************************************************************************)
EXTENDS Host, InvocationGateProofs

-----------------------------------------------------------------------------
(***************************************************************************)
(* Start-up.  What is merged so far is the union of the maps merged so     *)
(* far, no two of which clash.                                             *)
(***************************************************************************)
MapAt(i) == ResolversOf[order[i]]

Merged(map, n) ==
    /\ map.scalars = UNION {MapAt(i).scalars : i \in 1..n}
    /\ DOMAIN map.fields = UNION {DOMAIN MapAt(i).fields : i \in 1..n}
    /\ \A i \in 1..n : \A at \in DOMAIN MapAt(i).fields : map.fields[at] = MapAt(i).fields[at]
    /\ \A i, j \in 1..n : i # j => ~Clash(MapAt(i), MapAt(j))

StartInv ==
    /\ order \in Orders /\ order \in Seq(DOMAIN ResolversOf)
    /\ position \in 0..Len(order)
    /\ Merged(out, position)
    /\ server \in {"starting", "serving", "failed"}
    /\ DOMAIN wired = SchemaFields
    /\ server = "failed" => \E i, j \in DOMAIN order : i # j /\ Clash(MapAt(i), MapAt(j))
    /\ server = "serving" => position = Len(order) /\ wired = AttachResolvers(SchemaFields, out)
    /\ server # "serving" => request = NoRequest

\* A map collides with a merged one exactly if it clashes with one of its parts.
LEMMA CollidesIsClash ==
    ASSUME NEW map, NEW n \in Nat, Merged(map, n), NEW next
    PROVE  Collides(map, next) <=> \E i \in 1..n : Clash(MapAt(i), next) \/ Clash(next, MapAt(i))
<1> DEFINE types(m) == TypesOf(m)
<1>1. types(map) = UNION {types(MapAt(i)) : i \in 1..n}
  <2>1. ASSUME NEW type PROVE type \in types(map) <=> \E i \in 1..n : type \in types(MapAt(i))
    <3>1. type \in types(map) <=> \E at \in DOMAIN map.fields : type = at[1] BY DEF TypesOf
    <3>2. \A i \in 1..n : type \in types(MapAt(i)) <=> \E at \in DOMAIN MapAt(i).fields : type = at[1]
      BY DEF TypesOf
    <3>3. \A at : at \in DOMAIN map.fields <=> \E i \in 1..n : at \in DOMAIN MapAt(i).fields
      BY Zenon DEF Merged
    <3> HIDE DEF types
    <3> QED BY <3>1, <3>2, <3>3, Zenon
  <2> QED BY <2>1
<1>2. \A m : types(m) = TypesOf(m) OBVIOUS
<1> HIDE DEF types
<1>3. Collides(map, next) <=>
        \/ next.scalars \cap (map.scalars \cup types(map)) # {}
        \/ types(next) \cap map.scalars # {}
        \/ DOMAIN next.fields \cap DOMAIN map.fields # {}
  BY <1>2 DEF Collides
<1>4. \A a, b : Clash(a, b) <=>
        \/ DOMAIN a.fields \cap DOMAIN b.fields # {}
        \/ a.scalars \cap (b.scalars \cup types(b)) # {}
  BY <1>2 DEF Clash
<1>5. /\ \A x : x \in map.scalars <=> \E i \in 1..n : x \in MapAt(i).scalars
      /\ \A x : x \in types(map) <=> \E i \in 1..n : x \in types(MapAt(i))
      /\ \A x : x \in DOMAIN map.fields <=> \E i \in 1..n : x \in DOMAIN MapAt(i).fields
  BY <1>1, Zenon DEF Merged
<1>6. ASSUME Collides(map, next)
      PROVE  \E i \in 1..n : Clash(MapAt(i), next) \/ Clash(next, MapAt(i))
  <2>1. CASE \E x \in next.scalars : x \in map.scalars \/ x \in types(map) BY <1>4, <1>5, <2>1
  <2>2. CASE \E x \in types(next) : x \in map.scalars BY <1>4, <1>5, <2>2
  <2>3. CASE \E x \in DOMAIN next.fields : x \in DOMAIN map.fields BY <1>4, <1>5, <2>3
  <2> QED BY <1>3, <1>6, <2>1, <2>2, <2>3
<1>7. ASSUME NEW i \in 1..n, Clash(MapAt(i), next) \/ Clash(next, MapAt(i))
      PROVE  Collides(map, next)
  <2>1. /\ MapAt(i).scalars \subseteq map.scalars /\ types(MapAt(i)) \subseteq types(map)
        /\ DOMAIN MapAt(i).fields \subseteq DOMAIN map.fields
    BY <1>5
  <2> QED BY <1>3, <1>4, <1>7, <2>1
<1> QED BY <1>6, <1>7

\* Merging one more map that does not collide.
LEMMA SpreadMerges ==
    ASSUME NEW map, NEW n \in Nat, Merged(map, n), ~Collides(map, MapAt(n + 1))
    PROVE  Merged(Spread(map, MapAt(n + 1)), n + 1)
<1> DEFINE next == MapAt(n + 1)
           more == Spread(map, next)
<1>1. /\ more.scalars = map.scalars \cup next.scalars
      /\ more.fields = [at \in DOMAIN map.fields \cup DOMAIN next.fields |->
                           IF at \in DOMAIN next.fields THEN next.fields[at] ELSE map.fields[at]]
  BY DEF Spread
<1>2. \A i : i \in 1..n + 1 <=> i \in 1..n \/ i = n + 1 OBVIOUS
<1>3. \A i \in 1..n : ~Clash(MapAt(i), next) /\ ~Clash(next, MapAt(i)) BY CollidesIsClash
<1> HIDE DEF more, next
<1>4. more.scalars = UNION {MapAt(i).scalars : i \in 1..n + 1}
  <2>1. \A x : x \in map.scalars <=> \E i \in 1..n : x \in MapAt(i).scalars BY Zenon DEF Merged
  <2> QED BY <1>1, <1>2, <2>1 DEF next
<1>5. DOMAIN more.fields = UNION {DOMAIN MapAt(i).fields : i \in 1..n + 1}
  <2>1. \A x : x \in DOMAIN map.fields <=> \E i \in 1..n : x \in DOMAIN MapAt(i).fields
    BY Zenon DEF Merged
  <2>2. \A x : x \in DOMAIN more.fields <=> x \in DOMAIN map.fields \/ x \in DOMAIN next.fields
    BY <1>1
  <2> QED BY <1>2, <2>1, <2>2 DEF next
<1>6. ASSUME NEW i \in 1..n + 1, NEW at \in DOMAIN MapAt(i).fields
      PROVE  more.fields[at] = MapAt(i).fields[at]
  <2>1. CASE i = n + 1 BY <1>1, <1>6, <2>1 DEF next
  <2>2. CASE i \in 1..n
    <3>1. at \in DOMAIN map.fields /\ map.fields[at] = MapAt(i).fields[at]
      BY <1>6, <2>2, Zenon DEF Merged
    <3>2. at \notin DOMAIN next.fields BY <1>3, <1>6, <2>2 DEF Clash
    <3> QED BY <1>1, <3>1, <3>2
  <2> QED BY <1>2, <2>1, <2>2
<1>7. \A i, j \in 1..n + 1 : i # j => ~Clash(MapAt(i), MapAt(j))
  BY <1>2, <1>3, Zenon DEF Merged, next
<1> QED BY <1>4, <1>5, <1>6, <1>7, Zenon DEF Merged, more, next

LEMMA StartInit == Init => StartInv
<1> SUFFICES ASSUME Init PROVE StartInv OBVIOUS
<1>1. order \in Orders /\ order \in Seq(DOMAIN ResolversOf) BY HostAssumption DEF Init
<1>2. Merged(out, position)
  <2>1. out.scalars = {} /\ DOMAIN out.fields = {} BY DEF Init, Empty
  <2>2. 1..position = {} BY DEF Init
  <2> QED BY <2>1, <2>2, Zenon DEF Merged
<1>3. DOMAIN wired = SchemaFields BY DEF Init
<1>4. position \in 0..Len(order) BY <1>1 DEF Init
<1> QED BY <1>1, <1>2, <1>3, <1>4, Zenon DEF Init, StartInv

\* What is merged stays merged while the order is what it is.
LEMMA MergedStays ==
    ASSUME order' = order, NEW map, NEW n, Merged(map, n)
    PROVE  Merged(map, n)'
<1>1. \A i : MapAt(i)' = MapAt(i) BY DEF MapAt
<1> QED BY <1>1 DEF Merged

LEMMA MergeKeepsStart == StartInv /\ MergeNext => StartInv'
<1> SUFFICES ASSUME StartInv, MergeNext PROVE StartInv' OBVIOUS
<1>1. /\ order' = order /\ wired' = wired /\ request' = request
      /\ order \in Orders /\ order \in Seq(DOMAIN ResolversOf)
      /\ position \in 0..Len(order) /\ position < Len(order)
      /\ Merged(out, position) /\ server = "starting" /\ DOMAIN wired = SchemaFields
      /\ request = NoRequest
  BY DEF StartInv, MergeNext, composition
<1>2. \A i : MapAt(i)' = MapAt(i) BY <1>1 DEF MapAt
<1>3. position \in Nat /\ position + 1 \in 1..Len(order) /\ Len(order) \in Nat BY <1>1
<1>4. CASE Collides(out, MapAt(position + 1))
  <2>1. server' = "failed" /\ out' = out /\ position' = position
    BY <1>4, Zenon DEF MergeNext, MapAt, composition
  <2>2. PICK i \in 1..position : Clash(MapAt(i), MapAt(position + 1)) \/ Clash(MapAt(position + 1), MapAt(i))
    BY <1>1, <1>3, <1>4, CollidesIsClash
  <2>3. i # position + 1 /\ i \in DOMAIN order /\ position + 1 \in DOMAIN order BY <1>1, <1>3
  <2>4. \E j, k \in DOMAIN order : j # k /\ Clash(MapAt(j), MapAt(k)) BY <2>2, <2>3
  <2>5. (\E j, k \in DOMAIN order : j # k /\ Clash(MapAt(j), MapAt(k)))' BY <1>1, <1>2, <2>4
  <2>6. Merged(out, position)' BY <1>1, <2>1, MergedStays
  <2> QED BY <1>1, <2>1, <2>5, <2>6 DEF StartInv
<1>5. CASE ~Collides(out, MapAt(position + 1))
  <2>1. out' = Spread(out, MapAt(position + 1)) /\ position' = position + 1 /\ server' = server
    BY <1>5, Zenon DEF MergeNext, MapAt
  <2>2. Merged(Spread(out, MapAt(position + 1)), position + 1) BY <1>1, <1>3, <1>5, SpreadMerges
  <2>3. Merged(out', position') BY <2>1, <2>2
  <2>4. Merged(out, position)' BY <1>2, <2>3 DEF Merged
  <2>5. position' \in 0..Len(order') BY <1>1, <1>3, <2>1
  <2> QED BY <1>1, <2>1, <2>4, <2>5 DEF StartInv
<1> QED BY <1>4, <1>5

LEMMA StartUpKeepsStart == StartInv /\ StartUp => StartInv'
<1> SUFFICES ASSUME StartInv, StartUp PROVE StartInv' OBVIOUS
<1>1. /\ order' = order /\ position' = position /\ out' = out
      /\ position = Len(order) /\ server' = "serving"
      /\ wired' = AttachResolvers(SchemaFields, out)
  BY DEF StartUp, composition
<1>2. Merged(out, position)' BY <1>1, MergedStays DEF StartInv
<1>3. DOMAIN wired' = SchemaFields BY <1>1 DEF AttachResolvers
<1> QED BY <1>1, <1>2, <1>3 DEF StartInv

\* The steps of a request, and of the clock.
Serving == server = "serving" /\ UNCHANGED <<composition, settings, server, wired>>

LEMMA ServingKeepsStart ==
    ASSUME StartInv, UNCHANGED <<composition, server, wired>>,
           server = "serving" \/ request' = request
    PROVE  StartInv'
<1>1. order' = order /\ position' = position /\ out' = out /\ server' = server /\ wired' = wired
  BY DEF composition
<1>2. \A i : MapAt(i)' = MapAt(i) BY <1>1 DEF MapAt
<1>3. Merged(out, position)' BY <1>1, MergedStays DEF StartInv
<1> QED BY <1>1, <1>2, <1>3 DEF StartInv

LEMMA NextIsServing ==
    ASSUME StartInv, [Next]_vars
    PROVE  \/ MergeNext \/ StartUp
           \/ Serving /\ now' = now
                /\ (ReceiveRequest \/ Verify \/ StartExecution \/ ResolveField \/ Respond)
           \/ /\ UNCHANGED <<composition, settings, server, wired, request>>
              /\ now' = now \/ (now < MaxTime /\ now' = now + 1)
<1>1. NoRequest.pc = "idle" BY DEF NoRequest
<1>2. CASE ReceiveRequest BY <1>2 DEF ReceiveRequest, Serve, Serving
<1>3. CASE Verify BY <1>1, <1>3 DEF Verify, Serve, Serving, StartInv
<1>4. CASE StartExecution BY <1>1, <1>4 DEF StartExecution, Serve, Serving, StartInv
<1>5. CASE ResolveField BY <1>1, <1>5 DEF ResolveField, Serve, Serving, StartInv
<1>6. CASE Respond BY <1>1, <1>6 DEF Respond, Serve, Serving, StartInv
<1>7. CASE Tick BY <1>7 DEF Tick
<1>8. CASE UNCHANGED vars
  <2>1. UNCHANGED <<composition, settings, server, wired, request>> BY <1>8 DEF vars
  <2>2. now' = now BY <1>8 DEF vars
  <2> QED BY <2>1, <2>2
<1> QED BY <1>2, <1>3, <1>4, <1>5, <1>6, <1>7, <1>8 DEF Next

LEMMA StartStep == StartInv /\ [Next]_vars => StartInv'
<1> SUFFICES ASSUME StartInv, [Next]_vars PROVE StartInv' OBVIOUS
<1>1. \/ MergeNext \/ StartUp \/ Serving
      \/ UNCHANGED <<composition, settings, server, wired, request>>
  BY NextIsServing
<1>2. CASE Serving BY <1>2, ServingKeepsStart DEF Serving
<1>3. CASE UNCHANGED <<composition, settings, server, wired, request>> BY <1>3, ServingKeepsStart
<1> QED BY <1>1, <1>2, <1>3, MergeKeepsStart, StartUpKeepsStart

\* Start-up fails exactly if two of the modules claim the same field, the same
\* scalar, or one type in both ways, wherever in the list they are.
THEOREM CollisionIsOrderFreeHolds == Spec => []CollisionIsOrderFree
<1>1. StartInv => CollisionIsOrderFree
  <2> SUFFICES ASSUME StartInv, server # "starting"
               PROVE  server = "failed" <=>
                        \E i, j \in DOMAIN order : i # j /\ Clash(ResolversOf[order[i]], ResolversOf[order[j]])
    BY DEF CollisionIsOrderFree
  <2>1. CASE server = "failed" BY <2>1 DEF StartInv, MapAt
  <2>2. CASE server = "serving"
    <3>1. DOMAIN order = 1..position /\ Merged(out, position) BY <2>2 DEF StartInv
    <3> QED BY <2>2, <3>1, Zenon DEF Merged, MapAt
  <2> QED BY <2>1, <2>2 DEF StartInv
<1> QED BY <1>1, StartInit, StartStep, PTL DEF Spec

-----------------------------------------------------------------------------
(***************************************************************************)
(* A request.  What it carries was decoded from its headers; once fields   *)
(* are executed, the guard has let it through, and each gated field was    *)
(* asked about when it was resolved.                                       *)
(***************************************************************************)
Payloads ==
    {Absent} \cup
        {DecodeInvocationHeader(modern, legacy) : modern \in ModernValues, legacy \in LegacyValues}

AllOperations == UNION {Operations(doc) : doc \in Documents}

Selections == UNION {Selects(doc, op) : doc \in Documents, op \in AllOperations}

Requests ==
    [pc : {"idle", "decoded", "verified", "executing", "answered"},
     modern : ModernValues, legacy : LegacyValues, payload : Payloads,
     doc : Documents \cup {Absent}, op : AllOperations \cup {Absent}, checkedAt : 0..MaxTime,
     resolved : SUBSET [selected : Selections, at : 0..MaxTime], refused : SUBSET Selections]

\* Execution of the request has started.
Started(served) == served.pc = "executing" \/ served.resolved # {} \/ served.refused # {}

Allowed(gate, served, time) == CheckInvocation(gate, served.payload, served.doc, Absent, time).ok

\* A request, under the policy and the resolvers of the host, at a time.
GoodServed(served, gate, allowing, resolvers, time) ==
    /\ served \in Requests
    /\ served.pc \in {"decoded", "verified"} \/ Started(served) =>
          /\ served.doc \in Documents
          /\ served.payload = DecodeInvocationHeader(served.modern, served.legacy)
    /\ Started(served) =>
          /\ served.pc \in {"executing", "answered"}
          /\ served.op \in Operations(served.doc)
          /\ Executable(served.doc)
          /\ CheckIntrospection(gate, served.payload, served.doc, allowing, served.checkedAt)
    /\ \A done \in served.resolved :
          /\ done.selected \in Selects(served.doc, served.op)
          /\ resolvers[<<Schema[done.selected[2]].type, done.selected[2]>>] = "invocation"
             /\ done.selected[2] \notin IntrospectionFields
             => Allowed(gate, served, done.at)
    /\ served.refused # {} => \E at \in 0..time : ~Allowed(gate, served, at)
    /\ {done.selected : done \in served.resolved} \cap served.refused = {}

RequestInv ==
    /\ zcapConfig \in Configs /\ policy \in Policies
    /\ now \in 0..MaxTime
    /\ GoodServed(request, zcapConfig, policy, wired, now)

LEMMA NothingServed ==
    /\ NoRequest \in Requests
    /\ NoRequest.pc = "idle" /\ NoRequest.resolved = {} /\ NoRequest.refused = {}
<1>1. 0 \in 0..MaxTime BY HostAssumption
<1>2. Absent \in ModernValues /\ Absent \in LegacyValues BY HostAssumption
<1> QED BY <1>1, <1>2 DEF NoRequest, Requests, Payloads

LEMMA NothingServedIsGood ==
    ASSUME NEW gate, NEW allowing, NEW resolvers, NEW time
    PROVE  GoodServed(NoRequest, gate, allowing, resolvers, time)
BY NothingServed DEF GoodServed, Started

LEMMA ReceiveKeepsGood ==
    RequestInv /\ ReceiveRequest => GoodServed(request', zcapConfig, policy, wired, now)
<1> SUFFICES ASSUME RequestInv, ReceiveRequest
             PROVE  GoodServed(request', zcapConfig, policy, wired, now)
  OBVIOUS
<1>1. CASE request' = [NoRequest EXCEPT !.pc = "answered"]
  <2>1. /\ request' \in Requests /\ request'.pc = "answered"
        /\ request'.resolved = {} /\ request'.refused = {}
    BY <1>1, NothingServed DEF Requests
  <2> QED BY <2>1 DEF GoodServed, Started
<1>2. ASSUME NEW doc \in Documents, NEW modern \in ModernValues, NEW legacy \in LegacyValues,
             request' = [NoRequest EXCEPT
                            !.pc = "decoded", !.doc = doc, !.modern = modern, !.legacy = legacy,
                            !.payload = DecodeInvocationHeader(modern, legacy)]
      PROVE  GoodServed(request', zcapConfig, policy, wired, now)
  <2> DEFINE payload == DecodeInvocationHeader(modern, legacy)
  <2>1. payload \in Payloads BY DEF Payloads
  <2>2. request' = [NoRequest EXCEPT
                       !.pc = "decoded", !.doc = doc, !.modern = modern, !.legacy = legacy,
                       !.payload = payload]
    BY <1>2
  <2> HIDE DEF payload
  <2>3. /\ request' \in Requests /\ request'.pc = "decoded" /\ request'.doc = doc
        /\ request'.modern = modern /\ request'.legacy = legacy /\ request'.payload = payload
        /\ request'.resolved = {} /\ request'.refused = {}
    BY <2>1, <2>2, NothingServed DEF Requests
  <2> QED BY <2>3 DEF GoodServed, Started, payload
<1> QED BY <1>1, <1>2, Zenon DEF ReceiveRequest, Serve

LEMMA VerifyKeepsGood == RequestInv /\ Verify => GoodServed(request', zcapConfig, policy, wired, now)
<1> SUFFICES ASSUME RequestInv, Verify PROVE GoodServed(request', zcapConfig, policy, wired, now) OBVIOUS
<1>1. /\ request \in Requests /\ request.pc = "decoded"
      /\ GoodServed(request, zcapConfig, policy, wired, now)
  BY DEF RequestInv, GoodServed, Verify
<1>2. PICK pc \in {"verified", "answered"} : request' = [request EXCEPT !.pc = pc]
  BY Zenon DEF Verify, Serve
<1>3. /\ request' \in Requests /\ request'.pc = pc
      /\ request'.modern = request.modern /\ request'.legacy = request.legacy
      /\ request'.payload = request.payload /\ request'.doc = request.doc
      /\ request'.op = request.op /\ request'.checkedAt = request.checkedAt
      /\ request'.resolved = request.resolved /\ request'.refused = request.refused
  BY <1>1, <1>2 DEF Requests
<1> QED BY <1>1, <1>3 DEF GoodServed, Started, Allowed

LEMMA StartExecutionKeepsGood ==
    RequestInv /\ StartExecution => GoodServed(request', zcapConfig, policy, wired, now)
<1> SUFFICES ASSUME RequestInv, StartExecution
             PROVE  GoodServed(request', zcapConfig, policy, wired, now)
  OBVIOUS
<1>1. /\ request \in Requests /\ request.pc = "verified" /\ now \in 0..MaxTime
      /\ GoodServed(request, zcapConfig, policy, wired, now)
  BY DEF RequestInv, GoodServed, StartExecution
<1>2. /\ request.doc \in Documents
      /\ request.payload = DecodeInvocationHeader(request.modern, request.legacy)
  BY <1>1 DEF GoodServed
<1>3. CASE request' = [request EXCEPT !.pc = "answered"]
  <2>1. /\ request' \in Requests /\ request'.pc = "answered"
        /\ request'.modern = request.modern /\ request'.legacy = request.legacy
        /\ request'.payload = request.payload /\ request'.doc = request.doc
        /\ request'.op = request.op /\ request'.checkedAt = request.checkedAt
        /\ request'.resolved = request.resolved /\ request'.refused = request.refused
    BY <1>1, <1>3 DEF Requests
  <2> QED BY <1>1, <2>1 DEF GoodServed, Started, Allowed
<1>4. ASSUME CheckIntrospection(zcapConfig, request.payload, request.doc, policy, now),
             Executable(request.doc), ~Started(request),
             NEW op \in Operations(request.doc),
             request' = [request EXCEPT !.pc = "executing", !.op = op, !.checkedAt = now]
      PROVE  GoodServed(request', zcapConfig, policy, wired, now)
  <2>1. op \in AllOperations BY <1>2 DEF AllOperations
  <2>2. /\ request' \in Requests /\ request'.pc = "executing" /\ request'.op = op
        /\ request'.modern = request.modern /\ request'.legacy = request.legacy
        /\ request'.payload = request.payload /\ request'.doc = request.doc
        /\ request'.checkedAt = now
        /\ request'.resolved = request.resolved /\ request'.refused = request.refused
    BY <1>1, <1>4, <2>1 DEF Requests
  <2>3. request.resolved = {} /\ request.refused = {} BY <1>4 DEF Started
  <2> QED BY <1>2, <1>4, <2>2, <2>3 DEF GoodServed
<1>5. ~Started(request) BY <1>1 DEF GoodServed
<1> QED BY <1>3, <1>4, <1>5, Zenon DEF StartExecution, Serve

LEMMA ResolveKeepsGood ==
    RequestInv /\ ResolveField => GoodServed(request', zcapConfig, policy, wired, now)
<1> SUFFICES ASSUME RequestInv, ResolveField
             PROVE  GoodServed(request', zcapConfig, policy, wired, now)
  OBVIOUS
<1>1. /\ request \in Requests /\ request.pc = "executing" /\ now \in 0..MaxTime
      /\ GoodServed(request, zcapConfig, policy, wired, now)
  BY DEF RequestInv, GoodServed, ResolveField
<1>2. /\ request.doc \in Documents /\ request.op \in Operations(request.doc)
      /\ Executable(request.doc)
      /\ request.payload = DecodeInvocationHeader(request.modern, request.legacy)
      /\ CheckIntrospection(zcapConfig, request.payload, request.doc, policy, request.checkedAt)
  BY <1>1 DEF GoodServed, Started
<1>3. PICK selected \in Pending :
         request' = IF Passes(selected[2])
                    THEN [request EXCEPT !.resolved = @ \cup {[selected |-> selected, at |-> now]}]
                    ELSE [request EXCEPT !.refused = @ \cup {selected}]
  BY Zenon DEF ResolveField, Serve
<1>4. /\ selected \in Selects(request.doc, request.op)
      /\ selected \notin Resolved /\ selected \notin request.refused
  BY DEF Pending
<1>5. selected \in Selections
  <2>1. request.op \in AllOperations BY <1>2 DEF AllOperations
  <2> QED BY <1>2, <1>4, <2>1 DEF Selections
<1>6. CASE Passes(selected[2])
  <2> DEFINE done == [selected |-> selected, at |-> now]
  <2>1. done \in [selected : Selections, at : 0..MaxTime] BY <1>1, <1>5
  <2>2. done.selected = selected /\ done.at = now OBVIOUS
  <2>3. request' = [request EXCEPT !.resolved = @ \cup {done}] BY <1>3, <1>6
  <2> HIDE DEF done
  <2>4. /\ request' \in Requests /\ request'.pc = "executing" /\ request'.op = request.op
        /\ request'.modern = request.modern /\ request'.legacy = request.legacy
        /\ request'.payload = request.payload /\ request'.doc = request.doc
        /\ request'.checkedAt = request.checkedAt
        /\ request'.resolved = request.resolved \cup {done} /\ request'.refused = request.refused
    BY <1>1, <2>1, <2>3 DEF Requests
  <2>5. \A at : Allowed(zcapConfig, request', at) <=> Allowed(zcapConfig, request, at) BY <2>4, Zenon DEF Allowed
  <2>6. wired[<<Schema[selected[2]].type, selected[2]>>] = "invocation"
           /\ selected[2] \notin IntrospectionFields
        => Allowed(zcapConfig, request', now)
    <3>1. selected[2] \notin IntrospectionFields
            => ResolverOf(selected[2]) = wired[<<Schema[selected[2]].type, selected[2]>>]
      BY DEF ResolverOf
    <3> QED BY <1>6, <2>5, <3>1 DEF Passes, Allowed
  <2>7. {d.selected : d \in request'.resolved} \cap request'.refused = {}
    BY <1>1, <1>4, <2>2, <2>4 DEF GoodServed
  <2>8. \A d \in request'.resolved :
          /\ d.selected \in Selects(request'.doc, request'.op)
          /\ wired[<<Schema[d.selected[2]].type, d.selected[2]>>] = "invocation"
             /\ d.selected[2] \notin IntrospectionFields
             => Allowed(zcapConfig, request', d.at)
    <3>1. CASE TRUE
      <4>1. \A d \in request.resolved :
              /\ d.selected \in Selects(request.doc, request.op)
              /\ wired[<<Schema[d.selected[2]].type, d.selected[2]>>] = "invocation"
                 /\ d.selected[2] \notin IntrospectionFields
                 => Allowed(zcapConfig, request', d.at)
        BY <1>1, <2>5, Zenon DEF GoodServed
      <4> QED BY <1>4, <2>2, <2>4, <2>6, <4>1
    <3> QED BY <3>1
  <2>9. request'.refused # {} => \E at \in 0..now : ~Allowed(zcapConfig, request', at)
    BY <1>1, <2>4, <2>5, Zenon DEF GoodServed
  <2>10. Started(request') BY <2>4 DEF Started
  <2> QED BY <1>2, <2>4, <2>7, <2>8, <2>9, <2>10 DEF GoodServed
<1>7. CASE ~Passes(selected[2])
  <2>1. /\ request' \in Requests /\ request'.pc = "executing" /\ request'.op = request.op
        /\ request'.modern = request.modern /\ request'.legacy = request.legacy
        /\ request'.payload = request.payload /\ request'.doc = request.doc
        /\ request'.checkedAt = request.checkedAt
        /\ request'.resolved = request.resolved
        /\ request'.refused = request.refused \cup {selected}
    BY <1>1, <1>3, <1>5, <1>7 DEF Requests
  <2>2. \A at : Allowed(zcapConfig, request', at) <=> Allowed(zcapConfig, request, at) BY <2>1, Zenon DEF Allowed
  <2>3. ~Allowed(zcapConfig, request', now) BY <1>7, <2>2 DEF Passes, Allowed
  <2>4. now \in 0..now BY <1>1
  <2>5. {d.selected : d \in request'.resolved} \cap request'.refused = {}
    BY <1>1, <1>4, <2>1 DEF GoodServed, Resolved
  <2>6. \A d \in request'.resolved :
          /\ d.selected \in Selects(request'.doc, request'.op)
          /\ wired[<<Schema[d.selected[2]].type, d.selected[2]>>] = "invocation"
             /\ d.selected[2] \notin IntrospectionFields
             => Allowed(zcapConfig, request', d.at)
    BY <1>1, <2>1, <2>2, Zenon DEF GoodServed
  <2> QED BY <1>2, <2>1, <2>3, <2>4, <2>5, <2>6 DEF GoodServed, Started
<1> QED BY <1>6, <1>7

LEMMA RespondKeepsGood == RequestInv /\ Respond => GoodServed(request', zcapConfig, policy, wired, now)
<1> SUFFICES ASSUME RequestInv, Respond PROVE GoodServed(request', zcapConfig, policy, wired, now) OBVIOUS
<1>1. /\ request \in Requests /\ request.pc = "executing"
      /\ GoodServed(request, zcapConfig, policy, wired, now)
  BY DEF RequestInv, GoodServed, Respond
<1>2. request' = [request EXCEPT !.pc = "answered"] BY Zenon DEF Respond, Serve
<1>3. /\ request' \in Requests /\ request'.pc = "answered"
      /\ request'.modern = request.modern /\ request'.legacy = request.legacy
      /\ request'.payload = request.payload /\ request'.doc = request.doc
      /\ request'.op = request.op /\ request'.checkedAt = request.checkedAt
      /\ request'.resolved = request.resolved /\ request'.refused = request.refused
  BY <1>1, <1>2 DEF Requests
<1> QED BY <1>1, <1>3 DEF GoodServed, Started, Allowed

LEMMA RequestInit == Init => RequestInv
BY NothingServedIsGood, HostAssumption DEF Init, RequestInv

\* What was good stays good as time passes.
LEMMA GoodLater ==
    ASSUME NEW served, NEW gate, NEW allowing, NEW resolvers,
           NEW time \in Nat, NEW later \in Nat, time <= later,
           GoodServed(served, gate, allowing, resolvers, time)
    PROVE  GoodServed(served, gate, allowing, resolvers, later)
<1>1. 0..time \subseteq 0..later OBVIOUS
<1> QED BY <1>1, Zenon DEF GoodServed

LEMMA RequestStep == StartInv /\ RequestInv /\ [Next]_vars => RequestInv'
<1> SUFFICES ASSUME StartInv, RequestInv, [Next]_vars PROVE RequestInv' OBVIOUS
<1>1. CASE Serving /\ now' = now
             /\ (ReceiveRequest \/ Verify \/ StartExecution \/ ResolveField \/ Respond)
  <2>1. GoodServed(request', zcapConfig, policy, wired, now)
    BY <1>1, ReceiveKeepsGood, VerifyKeepsGood, StartExecutionKeepsGood, ResolveKeepsGood,
       RespondKeepsGood
  <2>2. zcapConfig' = zcapConfig /\ policy' = policy /\ wired' = wired /\ now' = now
    BY <1>1 DEF Serving, settings
  <2> QED BY <2>1, <2>2, Zenon DEF RequestInv
<1>2. CASE MergeNext \/ StartUp
  <2>1. request' = NoRequest /\ zcapConfig' = zcapConfig /\ policy' = policy /\ now' = now
    BY <1>2 DEF StartInv, MergeNext, StartUp, settings
  <2> QED BY <2>1, NothingServedIsGood DEF RequestInv
<1>3. CASE UNCHANGED <<composition, settings, server, wired, request>> /\ now' \in 0..MaxTime /\ now <= now'
  <2>1. now \in Nat /\ now' \in Nat BY <1>3, HostAssumption DEF RequestInv
  <2>2. GoodServed(request, zcapConfig, policy, wired, now') BY <1>3, <2>1, GoodLater DEF RequestInv
  <2>3. zcapConfig' = zcapConfig /\ policy' = policy BY <1>3 DEF settings
  <2> QED BY <1>3, <2>2, <2>3 DEF RequestInv
<1>4. now' = now \/ (now < MaxTime /\ now' = now + 1) => now' \in 0..MaxTime /\ now <= now'
  BY HostAssumption DEF RequestInv
<1> QED BY <1>1, <1>2, <1>3, <1>4, NextIsServing

Inv == StartInv /\ RequestInv

LEMMA Invariance == Spec => []Inv
<1>1. Init => Inv BY StartInit, RequestInit DEF Inv
<1>2. Inv /\ [Next]_vars => Inv' BY StartStep, RequestStep DEF Inv
<1> QED BY <1>1, <1>2, PTL DEF Spec

\* Every variable keeps its type, and nothing is both resolved and refused.
THEOREM TypeCorrect == Spec => []TypeOK
<1>1. Inv => TypeOK
  <2> SUFFICES ASSUME Inv PROVE TypeOK OBVIOUS
  <2>1. request \in Requests BY DEF Inv, RequestInv, GoodServed
  <2>2. /\ request.pc \in {"idle", "decoded", "verified", "executing", "answered"}
        /\ request.modern \in ModernValues /\ request.legacy \in LegacyValues
        /\ request.doc \in Documents \cup {Absent}
    BY <2>1 DEF Requests
  <2>3. Resolved \cap request.refused = {}
    BY Zenon DEF Inv, RequestInv, GoodServed, Resolved
  <2> QED BY <2>2, <2>3 DEF Inv, StartInv, RequestInv, TypeOK
<1> QED BY <1>1, Invariance, PTL

-----------------------------------------------------------------------------
(***************************************************************************)
(* What the gate has established when it says yes, in either mode.         *)
(***************************************************************************)

\* An accepted capability is there, in time, and names the target expected.
LEMMA AuthorizedIsGood ==
    ASSUME zcapConfig \in Configs, NEW payload, NEW time, CheckAuthOnly(zcapConfig, payload, time) = "none"
    PROVE  /\ Leaf(payload) # Absent
           /\ ~Expired(Leaf(payload).document.expires, time)
           /\ MeantForHost(Leaf(payload))
<1> DEFINE leaf == Leaf(payload)
<1>1. leaf # Absent BY Zenon DEF CheckAuthOnly
<1>2. CASE ~zcapConfig.unsafeMode
  <2>1. VerifyChain(leaf, zcapConfig, time) = "none" BY <1>1, <1>2, Zenon DEF CheckAuthOnly
  <2> QED BY <1>1, <1>2, <2>1, ChainIsVerified DEF ChainHolds, MeantForHost, ExpectedTarget
<1>3. CASE zcapConfig.unsafeMode
  <2> DEFINE cap == leaf.document
             checks == <<
        <<~Required(cap, {"id", "controller", "invocationTarget", "allowedAction"}), "structure">>,
        <<leaf.options.verificationMethod = Absent, "structure">>,
        <<cap.expires.kind # "date", "expires">>,
        <<Expired(cap.expires, time), "expired">>,
        <<zcapConfig.trustedTarget # Absent /\ cap.invocationTarget # zcapConfig.trustedTarget, "target">> >>
  <2>1. FirstProblem(checks) = "none"
    <3>1. StructuralCheckAuthOnly(leaf, zcapConfig, time) = "none" BY <1>1, <1>3, Zenon DEF CheckAuthOnly
    <3> QED BY <3>1, Zenon DEF StructuralCheckAuthOnly
  <2>2. DOMAIN checks = 1..5 OBVIOUS
  <2>3. \A i \in 1..5 : checks[i][2] # "none" OBVIOUS
  <2>4. /\ checks[4][1] = Expired(cap.expires, time)
        /\ checks[5][1] = (zcapConfig.trustedTarget # Absent /\ cap.invocationTarget # zcapConfig.trustedTarget)
    OBVIOUS
  <2> HIDE DEF checks
  <2>5. \A i \in 1..5 : ~checks[i][1] BY <2>1, <2>2, <2>3, NoProblemAtAll
  <2>6. ~checks[4][1] /\ ~checks[5][1] BY <2>5
  <2> QED BY <1>1, <1>3, <2>4, <2>6, ConfigAssumption DEF MeantForHost, ExpectedTarget
<1> QED BY <1>2, <1>3

LEMMA AllowedIsMatched ==
    ASSUME NEW served, NEW time, Allowed(zcapConfig, served, time)
    PROVE  /\ CheckAuthOnly(zcapConfig, served.payload, time) = "none"
           /\ MatchesAllowedAction(Grants(Leaf(served.payload)), served.doc)
<1> DEFINE verdict == CheckInvocation(zcapConfig, served.payload, served.doc, Absent, time)
<1>1. \A code, problem : Rejected(code, problem).ok = FALSE BY DEF Rejected
<1>2. verdict.ok BY DEF Allowed
<1>3. ASSUME CheckAuthOnly(zcapConfig, served.payload, time) # "none" PROVE FALSE
  <2>1. verdict = Rejected("CAPABILITY_INVALID", CheckAuthOnly(zcapConfig, served.payload, time))
    BY <1>3, Zenon DEF CheckInvocation
  <2> QED BY <1>1, <1>2, <2>1
<1>4. ASSUME ~MatchesAllowedAction(Grants(Leaf(served.payload)), served.doc) PROVE FALSE
  <2>1. verdict = Rejected("QUERY_NOT_ALLOWED", "ACTION_NOT_ALLOWED")
    BY <1>3, <1>4, Zenon DEF CheckInvocation
  <2> QED BY <1>1, <1>2, <2>1
<1> QED BY <1>3, <1>4

\* The capability of a request that was decoded is one that headers carry.
LEMMA LeafIsPresented ==
    ASSUME NEW served, served \in Requests, Leaf(served.payload) # Absent,
           served.payload = DecodeInvocationHeader(served.modern, served.legacy)
    PROVE  Leaf(served.payload) \in Leaves
<1>1. served.modern \in ModernValues /\ served.legacy \in LegacyValues BY DEF Requests
<1> QED BY <1>1 DEF Leaves

-----------------------------------------------------------------------------
(***************************************************************************)
(* What executing an operation selects is what the walk of the             *)
(* introspection guard visits.                                             *)
(***************************************************************************)

\* The more paths to start from and to go on with, the more fragments reached.
LEMMA ReachedGrows ==
    ASSUME NEW doc, NEW paths, NEW inside, NEW more, NEW wider,
           \A path \in paths : path \in more \/ \E def \in Reached(doc, more, wider) : path \in wider[def],
           \A def \in Fragments(doc) : inside[def] \subseteq wider[def]
    PROVE  Reached(doc, paths, inside) \subseteq Reached(doc, more, wider)
<1> SUFFICES ASSUME NEW def \in Reached(doc, paths, inside), NEW closed \in SUBSET Fragments(doc),
                    SpreadBy(doc, more) \subseteq closed,
                    \A other \in closed : SpreadBy(doc, wider[other]) \subseteq closed
             PROVE  def \in closed
  BY Zenon DEF Reached
<1>1. Reached(doc, more, wider) \subseteq closed BY Zenon DEF Reached
<1>2. SpreadBy(doc, paths) \subseteq closed
  <2> SUFFICES ASSUME NEW fragment \in Fragments(doc), NEW path \in paths,
                      IsSpread(path), NameOf(path) = fragment.name
               PROVE  fragment \in closed
    BY Zenon DEF SpreadBy
  <2>1. CASE path \in more
    <3>1. fragment \in SpreadBy(doc, more) BY <2>1, Zenon DEF SpreadBy
    <3> QED BY <3>1
  <2>2. ASSUME NEW other \in Reached(doc, more, wider), path \in wider[other]
        PROVE  fragment \in closed
    <3>1. fragment \in SpreadBy(doc, wider[other]) BY <2>2, Zenon DEF SpreadBy
    <3> QED BY <1>1, <3>1
  <2> QED BY <2>1, <2>2
<1>3. \A other \in closed : SpreadBy(doc, inside[other]) \subseteq closed
  <2> SUFFICES ASSUME NEW other \in closed, NEW fragment \in SpreadBy(doc, inside[other])
               PROVE  fragment \in closed
    OBVIOUS
  <2>1. PICK path \in inside[other] : IsSpread(path) /\ NameOf(path) = fragment.name
    BY Zenon DEF SpreadBy
  <2>2. fragment \in Fragments(doc) BY Zenon DEF SpreadBy
  <2>3. path \in wider[other] OBVIOUS
  <2>4. fragment \in SpreadBy(doc, wider[other]) BY <2>1, <2>2, <2>3, Zenon DEF SpreadBy
  <2> QED BY <2>4
<1> QED BY <1>2, <1>3, Zenon DEF Reached

LEMMA FragmentIsLabel ==
    ASSUME NEW Labels, NEW doc, Parsed(doc, Labels), NEW def \in Fragments(doc)
    PROVE  <<def>> \in Seq(Labels) /\ Len(<<def>>) = 1
<1>1. PICK path \in doc.tree : def = Head(path) BY DEF Fragments, Definitions
<1>2. path \in Seq(Labels) /\ Len(path) > 0 BY <1>1 DEF Parsed
<1> QED BY <1>1, <1>2

\* Root fields are among what the operation executes.
LEMMA RootIsExecuted ==
    ASSUME NEW doc, NEW op, NEW root \in RootFields(doc, op)
    PROVE  root \in ExecutedUnder(doc, <<op>>)
<1> DEFINE outer == Outermost(doc, <<op>>)
           inside == [def \in Fragments(doc) |-> Outermost(doc, <<def>>)]
           below == Below(doc, <<op>>)
           wider == Inside(doc)
<1>1. \A at : Outermost(doc, at) \subseteq Below(doc, at) BY DEF Outermost
<1>2. outer \subseteq below BY <1>1
<1>3. \A def \in Fragments(doc) : inside[def] \subseteq wider[def] BY <1>1 DEF Inside
<1>4. root \in Inlined(doc, outer, inside) BY DEF RootFields
<1> HIDE DEF outer, inside, below, wider
<1>5. Reached(doc, outer, inside) \subseteq Reached(doc, below, wider)
  BY <1>2, <1>3, ReachedGrows
<1>6. \A def \in Reached(doc, outer, inside) : def \in Fragments(doc) BY DEF Reached
<1>7. root \in outer \/ \E def \in Reached(doc, outer, inside) : root \in inside[def]
  BY <1>4 DEF Inlined
<1>8. root \in below \/ \E def \in Reached(doc, below, wider) : root \in wider[def]
  BY <1>2, <1>3, <1>5, <1>6, <1>7
<1> QED BY <1>8 DEF ExecutedUnder, Inlined, below, wider

\* And so is everything executed under them.
LEMMA ExecutionIsTransitive ==
    ASSUME NEW Labels, NEW doc, Parsed(doc, Labels), NEW op \in Operations(doc),
           NEW root \in ExecutedUnder(doc, <<op>>)
    PROVE  ExecutedUnder(doc, root) \subseteq ExecutedUnder(doc, <<op>>)
<1> DEFINE below == Below(doc, <<op>>)
           inside == Inside(doc)
           under == Below(doc, root)
<1>1. root \in below \/ \E def \in Reached(doc, below, inside) : root \in inside[def]
  BY DEF ExecutedUnder, Inlined
<1>2. <<op>> \in Seq(Labels) BY OperationIsLabel
<1>3. \A path \in under : path \in below \/ \E def \in Reached(doc, below, inside) : path \in inside[def]
  <2>1. CASE root \in below BY <1>2, <2>1, BelowIsDeeper
  <2>2. ASSUME NEW def \in Reached(doc, below, inside), root \in inside[def]
        PROVE  \A path \in under : path \in inside[def]
    <3>1. def \in Fragments(doc) BY DEF Reached
    <3>2. inside[def] = Below(doc, <<def>>) BY <3>1 DEF Inside
    <3>3. <<def>> \in Seq(Labels) BY <3>1, FragmentIsLabel
    <3>4. root \in Below(doc, <<def>>) BY <2>2, <3>2
    <3>5. \A path \in Below(doc, root) : path \in Below(doc, <<def>>) BY <3>3, <3>4, BelowIsDeeper
    <3> QED BY <3>2, <3>5
  <2> QED BY <1>1, <2>1, <2>2
<1> HIDE DEF below, inside, under
<1>4. Reached(doc, under, inside) \subseteq Reached(doc, below, inside) BY <1>3, ReachedGrows
<1>5. Inlined(doc, under, inside) \subseteq Inlined(doc, below, inside)
  BY <1>3, <1>4, Zenon DEF Inlined
<1> QED BY <1>5 DEF ExecutedUnder, below, inside, under

LEMMA ExecutedIsInTree ==
    ASSUME NEW doc, NEW at, NEW path \in ExecutedUnder(doc, at)
    PROVE  path \in doc.tree
<1>1. \A from : Below(doc, from) \subseteq doc.tree BY DEF Below
<1>2. \A def \in Fragments(doc) : Inside(doc)[def] \subseteq doc.tree BY <1>1 DEF Inside
<1>3. \A def \in Reached(doc, Below(doc, at), Inside(doc)) : def \in Fragments(doc) BY DEF Reached
<1> QED BY <1>1, <1>2, <1>3 DEF ExecutedUnder, Inlined

LEMMA SelectedIsExecuted ==
    ASSUME NEW Labels, NEW doc, Parsed(doc, Labels), NEW op \in Operations(doc),
           NEW selected \in Selects(doc, op)
    PROVE  \E path \in ExecutedUnder(doc, <<op>>) :
              path \in doc.tree /\ IsDataField(path) /\ NameOf(path) = selected[2]
<1>1. PICK root \in RootFields(doc, op) :
         \E path \in {root} \cup ExecutedUnder(doc, root) :
            IsDataField(path) /\ selected = <<NameOf(root), NameOf(path)>>
  BY Zenon DEF Selects
<1>2. PICK path \in {root} \cup ExecutedUnder(doc, root) :
         IsDataField(path) /\ selected = <<NameOf(root), NameOf(path)>>
  BY <1>1
<1>3. root \in ExecutedUnder(doc, <<op>>) BY RootIsExecuted
<1>4. path \in ExecutedUnder(doc, <<op>>) BY <1>3, ExecutionIsTransitive
<1>5. path \in doc.tree BY <1>4, ExecutedIsInTree
<1> QED BY <1>2, <1>4, <1>5

\* A field that any module gates is disclosed only to a capability that is in
\* time when the field is resolved, and that grants everything the executed
\* operation selects: for every way in which modules, their order, documents,
\* headers and the clock play together.
THEOREM DisclosedWasGrantedHolds == Spec => []DisclosedWasGranted
<1>1. Inv => DisclosedWasGranted
  <2> DEFINE leaf == Leaf(request.payload)
  <2> SUFFICES ASSUME Inv, NEW done \in request.resolved, NEW i \in DOMAIN order,
                      done.selected[2] \notin IntrospectionFields,
                      <<Schema[done.selected[2]].type, done.selected[2]>>
                          \in DOMAIN MapAt(i).fields,
                      MapAt(i).fields[<<Schema[done.selected[2]].type, done.selected[2]>>] = "invocation"
               PROVE  /\ leaf # Absent
                      /\ ~Expired(leaf.document.expires, done.at)
                      /\ Covered(Grants(leaf), request.doc, request.op)
    BY Zenon DEF DisclosedWasGranted, Maps, MapAt
  <2> DEFINE field == done.selected[2]
             at == <<Schema[field].type, field>>
  <2>1. GoodServed(request, zcapConfig, policy, wired, now) BY DEF Inv, RequestInv
  <2>2. /\ request \in Requests /\ request.doc \in Documents
        /\ request.payload = DecodeInvocationHeader(request.modern, request.legacy)
        /\ request.op \in Operations(request.doc)
        /\ done.selected \in Selects(request.doc, request.op)
    BY <2>1 DEF GoodServed, Started
  <2>3. at \in SchemaFields
    <3>1. field \in DOMAIN Schema
      <4>1. PICK path \in request.doc.tree : IsDataField(path) /\ NameOf(path) = field
        BY <2>2, DocumentAssumption, SelectedIsExecuted DEF AllDocuments
      <4> QED BY <2>2, <4>1, SchemaAssumption
    <3> QED BY <3>1 DEF SchemaFields
  <2>4. server = "serving"
    <3>1. request # NoRequest BY NothingServed
    <3> QED BY <3>1 DEF Inv, StartInv
  <2>5. wired[at] = "invocation"
    <3>1. /\ position = Len(order) /\ wired = AttachResolvers(SchemaFields, out)
          /\ Merged(out, position) /\ i \in 1..position
      BY <2>4 DEF Inv, StartInv
    <3>2. at \in DOMAIN out.fields /\ out.fields[at] = MapAt(i).fields[at]
      BY <3>1, Zenon DEF Merged
    <3> QED BY <2>3, <3>1, <3>2 DEF AttachResolvers
  <2>6. Allowed(zcapConfig, request, done.at) BY <2>1, <2>5, Zenon DEF GoodServed
  <2>7. /\ CheckAuthOnly(zcapConfig, request.payload, done.at) = "none"
        /\ MatchesAllowedAction(Grants(leaf), request.doc)
    BY <2>6, AllowedIsMatched
  <2>8. leaf # Absent /\ ~Expired(leaf.document.expires, done.at)
    <3>1. zcapConfig \in Configs BY DEF Inv, RequestInv
    <3> QED BY <2>7, <3>1, AuthorizedIsGood
  <2>9. leaf \in Leaves BY <2>2, <2>8, LeafIsPresented
  <2>10. Grants(leaf) \cup {request.doc} \subseteq AllDocuments BY <2>2, <2>9 DEF AllDocuments
  <2>11. /\ \A entry \in Grants(leaf) \cup {request.doc} : Parsed(entry, LabelsOf(AllDocuments))
         /\ SameTextSameTree(Grants(leaf) \cup {request.doc})
    BY <2>10, DocumentAssumption, Zenon DEF SameTextSameTree
  <2>12. Covered(Grants(leaf), request.doc, request.op)
    BY <2>2, <2>7, <2>11, MatchedIsCovered, Zenon
  <2> QED BY <2>8, <2>12
<1> QED BY <1>1, Invariance, PTL

\* The schema is read only as the policy allows, however deeply fragments hide
\* the request for it: what execution reaches, the guard has seen.  A capability
\* for another target than the host's reads it only where the host expects none.
THEOREM IntrospectionWithinPolicyHolds == Spec => []IntrospectionWithinPolicy
<1>1. Inv => IntrospectionWithinPolicy
  <2> DEFINE leaf == Leaf(request.payload)
  <2> SUFFICES ASSUME Inv, NEW done \in request.resolved, done.selected[2] \in IntrospectionFields,
                      policy # "public"
               PROVE  /\ policy = "authorized"
                      /\ leaf # Absent
                      /\ ~Expired(leaf.document.expires, request.checkedAt)
                      /\ MeantForHost(leaf)
    BY Zenon DEF IntrospectionWithinPolicy
  <2>1. GoodServed(request, zcapConfig, policy, wired, now) BY DEF Inv, RequestInv
  <2>2. /\ request.doc \in Documents /\ request.op \in Operations(request.doc)
        /\ done.selected \in Selects(request.doc, request.op)
        /\ CheckIntrospection(zcapConfig, request.payload, request.doc, policy, request.checkedAt)
    BY <2>1 DEF GoodServed, Started
  <2>3. PICK path \in ExecutedUnder(request.doc, <<request.op>>) :
           /\ path \in request.doc.tree /\ IsDataField(path)
           /\ NameOf(path) = done.selected[2]
    BY <2>2, DocumentAssumption, SelectedIsExecuted DEF AllDocuments
  <2>4. IsField(path) /\ NameOf(path) \in IntrospectionFields BY <2>3 DEF IsDataField
  <2>5. ContainsSchemaIntrospection(request.doc)
    BY <2>2, <2>3, <2>4, Zenon DEF ContainsSchemaIntrospection, Mentions, SelectsIntrospection
  <2>6. policy = "authorized" /\ CheckAuthOnly(zcapConfig, request.payload, request.checkedAt) = "none"
    BY <2>2, <2>5 DEF CheckIntrospection
  <2>7. zcapConfig \in Configs BY DEF Inv, RequestInv
  <2> QED BY <2>6, <2>7, AuthorizedIsGood
<1> QED BY <1>1, Invariance, PTL

\* A capability in the old header is not lost because a new header came along
\* that a proxy has cut short.
THEOREM UsableHeaderIsUsedHolds == Spec => []UsableHeaderIsUsed
<1>1. Inv => UsableHeaderIsUsed
  <2> SUFFICES ASSUME Inv, request.pc \in {"decoded", "verified", "executing"},
                      request.legacy # Absent, request.legacy.encoding = "legacy"
               PROVE  request.payload # Absent
    BY DEF UsableHeaderIsUsed
  <2>1. GoodServed(request, zcapConfig, policy, wired, now) BY DEF Inv, RequestInv
  <2>2. /\ request.modern \in ModernValues /\ request.legacy \in LegacyValues
        /\ request.payload = DecodeInvocationHeader(request.modern, request.legacy)
    BY <2>1 DEF GoodServed, Started, Requests
  <2>3. DecodeLegacyInvocationHeader(request.legacy) # Absent
    BY <2>2, HeaderAssumption, Zenon DEF DecodeLegacyInvocationHeader
  <2> QED BY <2>2, <2>3, Zenon DEF DecodeInvocationHeader
<1> QED BY <1>1, Invariance, PTL

-----------------------------------------------------------------------------
(***************************************************************************)
(* Narrowing.  A selection of a document that narrows a granted one has a  *)
(* twin in the grant, which has neither spreads nor a root that is not a   *)
(* field; hence the subset test passes.                                    *)
(***************************************************************************)

LEMMA BelowIsPrefix ==
    ASSUME NEW Labels, NEW doc, Parsed(doc, Labels), NEW at \in Seq(Labels), NEW path \in Below(doc, at)
    PROVE  /\ path \in doc.tree /\ path \in Seq(Labels)
           /\ Len(path) \in Nat /\ Len(at) \in Nat /\ Len(at) < Len(path)
           /\ \A i \in 1..Len(at) : at[i] = path[i]
<1>1. path \in doc.tree /\ path \in Seq(Labels) /\ IsStrictPrefix(at, path) BY DEF Below, Parsed
<1> QED BY <1>1, StrictPrefix

\* A path through an operation starts with one of its selections.
LEMMA FirstSelection ==
    ASSUME NEW Labels, NEW doc, Parsed(doc, Labels), NEW op \in Operations(doc),
           NEW path \in Below(doc, <<op>>)
    PROVE  \E first \in SelectionSet(doc, <<op>>) :
              /\ Len(first) = 2 /\ first[2] = path[2]
              /\ Len(path) > 2 => path \in Below(doc, first)
<1> DEFINE at == <<op>>
           first == SubSeq(path, 1, 2)
<1>1. at \in Seq(Labels) /\ Len(at) = 1 BY OperationIsLabel
<1> HIDE DEF at, first
<1>2. path \in doc.tree /\ path \in Seq(Labels) BY <1>1, BelowIsPrefix DEF at
<1>3. Len(path) > 1 /\ path[1] = at[1]
  <2>1. path \in Below(doc, at) BY DEF at
  <2>2. Len(at) < Len(path) BY <1>1, <2>1, BelowIsPrefix
  <2>3. \A i \in 1..Len(at) : at[i] = path[i]
    <3>1. at \in Seq(Labels) /\ IsStrictPrefix(at, path) BY <1>1, <2>1 DEF Below
    <3> QED BY <1>2, <3>1, StrictPrefix
  <2> QED BY <1>1, <1>2, <2>2, <2>3
<1>4. first \in Seq(Labels) /\ Len(first) = 2 /\ first[1] = path[1] /\ first[2] = path[2]
  <2>1. \A i \in 1..2 : path[i] \in Labels BY <1>2, <1>3
  <2>2. /\ first \in Seq(Labels) /\ Len(first) = IF 1 <= 2 THEN 2 - 1 + 1 ELSE 0
        /\ \A i \in 1..2 - 1 + 1 : first[i] = path[1 + i - 1]
    BY <2>1, SubSeqProperties DEF first
  <2> QED BY <2>2
<1>5. first \in doc.tree BY <1>2, <1>3 DEF Parsed, first
<1>6. first \in SelectionSet(doc, at)
  <2>1. Len(at) < Len(first) /\ \A i \in 1..Len(at) : at[i] = first[i] BY <1>1, <1>3, <1>4
  <2>2. IsStrictPrefix(at, first) BY <1>1, <1>4, <2>1, StrictPrefix
  <2> QED BY <1>1, <1>4, <1>5, <2>2 DEF SelectionSet, Below
<1>7. ASSUME Len(path) > 2 PROVE path \in Below(doc, first)
  <2>1. Len(first) < Len(path) /\ \A i \in 1..Len(first) : first[i] = path[i] BY <1>4, <1>7
  <2>2. IsStrictPrefix(first, path) BY <1>2, <1>4, <2>1, StrictPrefix
  <2> QED BY <1>2, <2>2 DEF Below
<1> QED BY <1>4, <1>6, <1>7 DEF at

\* Selections whose shape has to be granted.
Counts(path) == Len(path) = 2 \/ ~IsField(path) \/ IsDataField(path)

ShapeOf(path) == [i \in 1..Len(path) - 1 |-> <<path[i + 1].kind, path[i + 1].name>>]

LEMMA Twin ==
    ASSUME NEW Labels,
           NEW doc, Parsed(doc, Labels), NEW op \in Operations(doc),
           NEW entry, Parsed(entry, Labels), NEW granted \in Operations(entry),
           Shape(doc, op) \subseteq Shape(entry, granted),
           NEW path \in Below(doc, <<op>>), Counts(path)
    PROVE  \E twin \in Below(entry, <<granted>>) :
              /\ Len(twin) = Len(path) /\ Len(path) \in Nat /\ Len(path) > 1
              /\ \A i \in 2..Len(path) : twin[i].kind = path[i].kind /\ twin[i].name = path[i].name
<1>1. ShapeOf(path) \in Shape(doc, op) BY Zenon DEF Shape, ShapeOf, Counts
<1>2. ShapeOf(path) \in Shape(entry, granted) BY <1>1
<1>3. PICK twin \in Below(entry, <<granted>>) : ShapeOf(path) = ShapeOf(twin)
  BY <1>2, Zenon DEF Shape, ShapeOf
<1>4. /\ <<op>> \in Seq(Labels) /\ Len(<<op>>) = 1
      /\ <<granted>> \in Seq(Labels) /\ Len(<<granted>>) = 1
  BY OperationIsLabel
<1>6. Len(path) \in Nat /\ Len(twin) \in Nat /\ Len(path) > 1 /\ Len(twin) > 1
  <2> DEFINE at == <<op>>
             other == <<granted>>
  <2>1. /\ at \in Seq(Labels) /\ Len(at) = 1 /\ path \in Below(doc, at)
        /\ other \in Seq(Labels) /\ Len(other) = 1 /\ twin \in Below(entry, other)
    BY <1>4
  <2> HIDE DEF at, other
  <2> QED BY <2>1, BelowIsPrefix
<1>7. 1..Len(path) - 1 = 1..Len(twin) - 1
  <2>1. DOMAIN ShapeOf(path) = 1..Len(path) - 1 /\ DOMAIN ShapeOf(twin) = 1..Len(twin) - 1
    BY DEF ShapeOf
  <2> QED BY <1>3, <2>1
<1>8. Len(twin) = Len(path)
  <2>1. Len(path) - 1 \in 1..Len(twin) - 1 /\ Len(twin) - 1 \in 1..Len(path) - 1 BY <1>6, <1>7
  <2> QED BY <1>6, <2>1
<1>9. ASSUME NEW i \in 2..Len(path)
      PROVE  twin[i].kind = path[i].kind /\ twin[i].name = path[i].name
  <2>1. i - 1 \in 1..Len(path) - 1 /\ i - 1 + 1 = i BY <1>6, <1>9
  <2>2. ShapeOf(path)[i - 1] = <<path[i].kind, path[i].name>>
    BY <2>1 DEF ShapeOf
  <2>3. ShapeOf(twin)[i - 1] = <<twin[i].kind, twin[i].name>>
    BY <1>8, <2>1 DEF ShapeOf
  <2> QED BY <1>3, <2>2, <2>3
<1> QED BY <1>6, <1>8, <1>9

LEMMA NarrowIsSupported ==
    ASSUME NEW Labels,
           NEW doc, Parsed(doc, Labels), NEW op \in Operations(doc),
           NEW entry, Parsed(entry, Labels), NEW granted \in Operations(entry),
           Supported(entry, granted), Shape(doc, op) \subseteq Shape(entry, granted)
    PROVE  Supported(doc, op)
<1>1. <<op>> \in Seq(Labels) /\ Len(<<op>>) = 1 /\ Len(<<granted>>) = 1 BY OperationIsLabel
<1>2. ASSUME NEW path \in SelectionSet(doc, <<op>>) PROVE IsField(path)
  <2>1. path \in Below(doc, <<op>>) /\ Len(path) = 2 BY <1>1 DEF SelectionSet
  <2>2. PICK twin \in Below(entry, <<granted>>) :
           /\ Len(twin) = Len(path)
           /\ \A i \in 2..Len(path) : twin[i].kind = path[i].kind /\ twin[i].name = path[i].name
    BY <2>1, Twin DEF Counts
  <2>3. twin \in SelectionSet(entry, <<granted>>) BY <1>1, <2>1, <2>2 DEF SelectionSet
  <2>4. IsField(twin) BY <2>3 DEF Supported
  <2>5. twin[2].kind = path[2].kind BY <2>1, <2>2
  <2> QED BY <2>1, <2>2, <2>4, <2>5 DEF IsField, KindOf, Last
<1>3. ASSUME NEW path \in Below(doc, <<op>>), IsSpread(path) PROVE FALSE
  <2>1. ~IsField(path) BY <1>3 DEF IsField, IsSpread
  <2>2. PICK twin \in Below(entry, <<granted>>) :
           /\ Len(twin) = Len(path) /\ Len(path) \in Nat /\ Len(path) > 1
           /\ \A i \in 2..Len(path) : twin[i].kind = path[i].kind /\ twin[i].name = path[i].name
    BY <2>1, Twin DEF Counts
  <2>3. twin[Len(path)].kind = path[Len(path)].kind BY <2>2
  <2>4. IsSpread(twin) BY <1>3, <2>2, <2>3 DEF IsSpread, KindOf, Last
  <2> QED BY <2>4 DEF Supported
<1> QED BY <1>2, <1>3 DEF Supported

LEMMA NarrowIsSubset ==
    ASSUME NEW Labels,
           NEW doc, Parsed(doc, Labels), NEW op \in Operations(doc),
           NEW entry, Parsed(entry, Labels), NEW granted \in Operations(entry),
           op.kind = granted.kind, Shape(doc, op) \subseteq Shape(entry, granted)
    PROVE  IsFieldSubsetOfEntry(ParseOperation(doc, op), ParseOperation(entry, granted))
<1> DEFINE roots == SelectionSet(doc, <<op>>)
           grantedRoots == SelectionSet(entry, <<granted>>)
           names == {NameOf(path) : path \in roots}
           grantedNames == {NameOf(path) : path \in grantedRoots}
           fields(name) == UNION {CollectFieldNames(doc, path) : path \in {p \in roots : NameOf(p) = name}}
           grantedFields(name) ==
               UNION {CollectFieldNames(entry, path) : path \in {p \in grantedRoots : NameOf(p) = name}}
<1>1. ParseOperation(doc, op) = [operation |-> op.kind, fields |-> [name \in names |-> fields(name)]]
  BY Zenon DEF ParseOperation
<1>2. ParseOperation(entry, granted) =
        [operation |-> granted.kind, fields |-> [name \in grantedNames |-> grantedFields(name)]]
  BY Zenon DEF ParseOperation
<1>3. <<op>> \in Seq(Labels) /\ Len(<<op>>) = 1 /\ Len(<<granted>>) = 1 BY OperationIsLabel
<1>4. ASSUME NEW root \in roots PROVE NameOf(root) \in grantedNames
  <2>1. root \in Below(doc, <<op>>) /\ Len(root) = 2 BY <1>3 DEF SelectionSet
  <2>2. PICK twin \in Below(entry, <<granted>>) :
           /\ Len(twin) = Len(root)
           /\ \A i \in 2..Len(root) : twin[i].kind = root[i].kind /\ twin[i].name = root[i].name
    BY <2>1, Twin DEF Counts
  <2>3. twin \in grantedRoots BY <1>3, <2>1, <2>2 DEF SelectionSet
  <2>4. twin[2].name = root[2].name BY <2>1, <2>2
  <2>5. NameOf(twin) = NameOf(root) BY <2>1, <2>2, <2>4 DEF NameOf, Last
  <2> QED BY <2>3, <2>5
<1>5. ASSUME NEW root \in roots, NEW path \in Below(doc, root), IsDataField(path)
      PROVE  NameOf(path) \in grantedFields(NameOf(root))
  <2>1. root \in Below(doc, <<op>>) /\ Len(root) = 2 BY <1>3 DEF SelectionSet
  <2>2. path \in Below(doc, <<op>>) BY <1>3, <2>1, BelowIsDeeper
  <2>3. root \in Seq(Labels) BY <2>1 DEF Below, Parsed
  <2>4. Len(path) \in Nat /\ Len(path) > 2 /\ path[2] = root[2]
    BY <2>1, <2>3, BelowIsPrefix
  <2>5. PICK twin \in Below(entry, <<granted>>) :
           /\ Len(twin) = Len(path)
           /\ \A i \in 2..Len(path) : twin[i].kind = path[i].kind /\ twin[i].name = path[i].name
    BY <1>5, <2>2, Twin DEF Counts
  <2>6. PICK first \in grantedRoots :
           Len(first) = 2 /\ first[2] = twin[2] /\ twin \in Below(entry, first)
    BY <2>4, <2>5, FirstSelection
  <2>7. twin[2].name = path[2].name /\ twin[Len(path)].kind = path[Len(path)].kind
        /\ twin[Len(path)].name = path[Len(path)].name
    BY <2>4, <2>5
  <2>8. NameOf(first) = NameOf(root)
    BY <2>1, <2>4, <2>6, <2>7 DEF NameOf, Last
  <2>9. IsDataField(twin) /\ NameOf(twin) = NameOf(path)
    BY <1>5, <2>5, <2>7 DEF IsDataField, IsField, KindOf, NameOf, Last
  <2>10. NameOf(path) \in CollectFieldNames(entry, first) BY <2>6, <2>9, Zenon DEF CollectFieldNames
  <2> QED BY <2>6, <2>8, <2>10, Zenon
<1> HIDE DEF roots, grantedRoots
<1>6. \A name \in names : name \in grantedNames BY <1>4
<1>7. ASSUME NEW name \in names, NEW field \in fields(name) PROVE field \in grantedFields(name)
  <2>1. PICK root \in roots : NameOf(root) = name /\ field \in CollectFieldNames(doc, root)
    BY <1>7, Zenon
  <2>2. PICK path \in Below(doc, root) : IsDataField(path) /\ NameOf(path) = field
    BY <2>1, Zenon DEF CollectFieldNames
  <2>3. field \in grantedFields(NameOf(root)) BY <1>5, <2>2
  <2> QED BY <2>1, <2>3
<1> HIDE DEF names, grantedNames, fields, grantedFields
<1>8. \A name \in names : fields(name) \subseteq grantedFields(name) BY <1>7
<1> QED BY <1>1, <1>2, <1>6, <1>8 DEF IsFieldSubsetOfEntry

LEMMA NarrowerMatches ==
    ASSUME NEW Labels, NEW allowedAction, NEW doc, Parsed(doc, Labels), Operations(doc) # {},
           NEW entry \in allowedAction, Parsed(entry, Labels), Narrows(doc, entry)
    PROVE  MatchesAllowedAction(allowedAction, doc)
<1>1. \A granted \in Operations(entry) : Supported(entry, granted) BY DEF Narrows
<1>2. ASSUME NEW op \in Operations(doc)
      PROVE  /\ Supported(doc, op)
             /\ \E granted \in ParseOperations(entry) :
                   IsFieldSubsetOfEntry(ParseOperation(doc, op), granted)
  <2>1. PICK granted \in Operations(entry) :
           op.kind = granted.kind /\ Shape(doc, op) \subseteq Shape(entry, granted)
    BY Zenon DEF Narrows
  <2>2. Supported(doc, op) BY <1>1, <2>1, NarrowIsSupported
  <2>3. IsFieldSubsetOfEntry(ParseOperation(doc, op), ParseOperation(entry, granted))
    BY <2>1, NarrowIsSubset
  <2>4. ParseOperation(entry, granted) \in ParseOperations(entry) BY <1>1, Zenon DEF ParseOperations
  <2> QED BY <2>2, <2>3, <2>4
<1>3. ParseOperations(doc) = {ParseOperation(doc, op) : op \in Operations(doc)}
  BY <1>2, Zenon DEF ParseOperations
<1>4. ParseOperations(doc) # {} BY <1>3
<1>5. \A requested \in ParseOperations(doc) :
         \E granted \in UNION {ParseOperations(other) : other \in allowedAction} :
            IsFieldSubsetOfEntry(requested, granted)
  BY <1>2, <1>3, Zenon
<1> QED BY <1>4, <1>5, Zenon DEF MatchesAllowedAction

\* In unsafeMode, as the example host runs, no field is refused to a well-formed
\* capability, still in time and for this host, whose document narrows a granted
\* one (by more than a __typename at the root).
THEOREM NarrowerIsServedHolds == Spec => []NarrowerIsServed
<1>1. Inv => NarrowerIsServed
  <2> DEFINE leaf == Leaf(request.payload)
             cap == leaf.document
  <2> SUFFICES ASSUME Inv, request.refused # {}, zcapConfig.unsafeMode,
                      leaf # Absent,
                      Required(cap, {"id", "controller", "invocationTarget", "allowedAction"}),
                      cap.expires.kind = "date", ~Expired(cap.expires, now),
                      MeantForHost(leaf),
                      leaf.options.verificationMethod # Absent,
                      NEW entry \in Grants(leaf), Narrows(request.doc, entry)
               PROVE  FALSE
    BY Zenon DEF NarrowerIsServed
  <2>1. GoodServed(request, zcapConfig, policy, wired, now) /\ now \in 0..MaxTime BY DEF Inv, RequestInv
  <2>2. /\ request \in Requests /\ request.doc \in Documents /\ Executable(request.doc)
        /\ request.payload = DecodeInvocationHeader(request.modern, request.legacy)
    BY <2>1 DEF GoodServed, Started
  <2>3. PICK at \in 0..now : ~Allowed(zcapConfig, request, at) BY <2>1 DEF GoodServed
  <2>4. leaf \in Leaves BY <2>2, LeafIsPresented
  <2>5. ~Expired(cap.expires, at)
    <3>1. cap.expires.at \in Int BY <2>4, HeaderAssumption
    <3> QED BY <2>1, <2>3, <3>1, HostAssumption DEF Expired
  <2>6. CheckAuthOnly(zcapConfig, request.payload, at) = "none"
    <3> DEFINE checks == <<
          <<~Required(cap, {"id", "controller", "invocationTarget", "allowedAction"}), "structure">>,
          <<leaf.options.verificationMethod = Absent, "structure">>,
          <<cap.expires.kind # "date", "expires">>,
          <<Expired(cap.expires, at), "expired">>,
          <<zcapConfig.trustedTarget # Absent /\ cap.invocationTarget # zcapConfig.trustedTarget, "target">> >>
    <3>1. DOMAIN checks = 1..5 OBVIOUS
    <3>2. /\ checks[1][1] = ~Required(cap, {"id", "controller", "invocationTarget", "allowedAction"})
          /\ checks[2][1] = (leaf.options.verificationMethod = Absent)
          /\ checks[3][1] = (cap.expires.kind # "date")
          /\ checks[4][1] = Expired(cap.expires, at)
          /\ checks[5][1] = (zcapConfig.trustedTarget # Absent /\ cap.invocationTarget # zcapConfig.trustedTarget)
      OBVIOUS
    <3>3. StructuralCheckAuthOnly(leaf, zcapConfig, at) = FirstProblem(checks)
      BY Zenon DEF StructuralCheckAuthOnly
    <3>4. CheckAuthOnly(zcapConfig, request.payload, at) = StructuralCheckAuthOnly(leaf, zcapConfig, at)
      BY Zenon DEF CheckAuthOnly
    <3> HIDE DEF checks
    <3>5. /\ ~checks[1][1] /\ ~checks[2][1] /\ ~checks[3][1] /\ ~checks[4][1] /\ ~checks[5][1]
      BY <2>5, <3>2 DEF MeantForHost, ExpectedTarget
    <3>6. \A i \in DOMAIN checks : ~checks[i][1]
      <4>1. \A i \in 1..5 : i = 1 \/ i = 2 \/ i = 3 \/ i = 4 \/ i = 5 OBVIOUS
      <4> QED BY <3>1, <3>5, <4>1
    <3>7. FirstProblem(checks) = "none"
      <4>1. {i \in DOMAIN checks : checks[i][1]} = {} BY <3>6
      <4> QED BY <4>1, Zenon DEF FirstProblem
    <3> QED BY <3>3, <3>4, <3>7
  <2>7. MatchesAllowedAction(Grants(leaf), request.doc)
    <3>1. request.doc \in AllDocuments /\ entry \in AllDocuments BY <2>2, <2>4 DEF AllDocuments
    <3>2. Operations(request.doc) # {} BY <2>2 DEF Executable
    <3> QED BY <3>1, <3>2, NarrowerMatches, DocumentAssumption
  <2>8. CheckInvocation(zcapConfig, request.payload, request.doc, Absent, at) = Accepted
    BY <2>6, <2>7, Zenon DEF CheckInvocation
  <2> QED BY <2>3, <2>8 DEF Allowed, Accepted
<1> QED BY <1>1, Invariance, PTL
=============================================================================
