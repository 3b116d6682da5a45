---------------------------- MODULE EndToEndProofs ----------------------------
(***************************************************************************)
(* Proofs about EndToEnd for every set of calls, documents, capabilities   *)
(* and servers, every clock and drift.                                     *)
(***************************************************************************)
EXTENDS EndToEnd, InvocationGateProofs, DidGraphQLClientProofs

-----------------------------------------------------------------------------
(***************************************************************************)
(* Arithmetic.                                                             *)
(***************************************************************************)
\* A whole second is at or before the time it is taken from, by less than one.
LEMMA SecondsRoundDown ==
    ASSUME NEW time \in Nat
    PROVE  /\ Seconds(time) \in Nat
           /\ Seconds(time) * TicksPerSecond \in Nat
           /\ Seconds(time) * TicksPerSecond <= time
           /\ time < Seconds(time) * TicksPerSecond + TicksPerSecond
<1>1. TicksPerSecond \in Nat \ {0} BY TickAssumption
<1>2. Seconds(time) \in Nat BY <1>1 DEF Seconds
<1>3. Seconds(time) * TicksPerSecond \in Nat BY <1>1, <1>2
<1>4. Seconds(time) * TicksPerSecond <= time BY <1>1 DEF Seconds
<1>5. time < Seconds(time) * TicksPerSecond + TicksPerSecond BY <1>1 DEF Seconds
<1> QED BY <1>2, <1>3, <1>4, <1>5

-----------------------------------------------------------------------------
(***************************************************************************)
(* What the gate has established when it accepts.                          *)
(***************************************************************************)

\* What an accepted request has passed, before its proof is looked at.
LEMMA AcceptedPayload ==
    ASSUME NEW config, ~config.unsafeMode, NEW cap, NEW invocation, NEW query, NEW request, NEW time,
           CheckInvocation(config,
               DecodeInvocationHeader(EncodeCapabilityInvocation(cap, invocation), Absent),
               query, request, time).ok
    PROVE  /\ [chain |-> <<Delegation[cap]>>, invocation |-> invocation] # Absent
           /\ VerifyChain(Delegation[cap], config, time) = "none"
           /\ MatchesAllowedAction(Grants(Delegation[cap]), query)
           /\ CheckProof(config, [chain |-> <<Delegation[cap]>>, invocation |-> invocation],
                         query, request, time).ok
<1> DEFINE header == EncodeCapabilityInvocation(cap, invocation)
           payload == DecodeInvocationHeader(header, Absent)
           decoded == [chain |-> <<Delegation[cap]>>, invocation |-> invocation]
<1>1. /\ header.encoding = "zcap" /\ header.capability = Delegation[cap] /\ header.invocation = invocation
  BY DEF EncodeCapabilityInvocation
<1> HIDE DEF header
<1>2. payload \in {Absent, decoded}
  BY <1>1, Zenon DEF DecodeInvocationHeader, ParseCapabilityInvocation, DecodeLegacyInvocationHeader
<1>3. \A code, problem : Rejected(code, problem).ok = FALSE BY DEF Rejected
<1> HIDE DEF payload
<1>4. CheckAuthOnly(config, payload, time) = "none"
  <2> SUFFICES ASSUME CheckAuthOnly(config, payload, time) # "none" PROVE FALSE OBVIOUS
  <2>1. CheckInvocation(config, payload, query, request, time) =
           Rejected("CAPABILITY_INVALID", CheckAuthOnly(config, payload, time))
    BY Zenon DEF CheckInvocation
  <2> QED BY <1>3, <2>1 DEF payload, header
<1>5. Leaf(payload) # Absent
  BY <1>4, Zenon DEF CheckAuthOnly
<1>6. payload # Absent BY <1>5 DEF Leaf
<1>7. payload = decoded BY <1>2, <1>6
<1>8. Leaf(payload) = Delegation[cap]
  <2>1. decoded.chain # <<>> /\ Head(decoded.chain) = Delegation[cap] OBVIOUS
  <2> HIDE DEF decoded
  <2> QED BY <1>6, <1>7, <2>1 DEF Leaf
<1> HIDE DEF decoded
<1>9. VerifyChain(Delegation[cap], config, time) = "none"
  BY <1>4, <1>5, <1>8, Zenon DEF CheckAuthOnly
<1>10. MatchesAllowedAction(Grants(Delegation[cap]), query)
  <2> SUFFICES ASSUME ~MatchesAllowedAction(Grants(Delegation[cap]), query) PROVE FALSE OBVIOUS
  <2>1. CheckInvocation(config, payload, query, request, time) =
           Rejected("QUERY_NOT_ALLOWED", "ACTION_NOT_ALLOWED")
    BY <1>4, <1>8, Zenon DEF CheckInvocation
  <2> QED BY <1>3, <2>1 DEF payload, header
<1>11. CheckInvocation(config, payload, query, request, time) =
          CheckProof(config, payload, query, request, time)
  BY <1>4, <1>8, <1>10, Zenon DEF CheckInvocation
<1> QED BY <1>6, <1>7, <1>9, <1>10, <1>11 DEF payload, header, decoded

\* The proof it has passed: the HTTP signature if it carries one, and the
\* embedded invocation otherwise.
LEMMA AcceptedProof ==
    ASSUME NEW config, NEW leaf, NEW invocation, NEW query, NEW request, NEW time,
           [chain |-> <<leaf>>, invocation |-> invocation] # Absent,
           CheckProof(config, [chain |-> <<leaf>>, invocation |-> invocation], query, request, time).ok
    PROVE  IF CarriesHttpSignature(request)
           THEN /\ VerifyHttpSignature(request, leaf) = "none"
                /\ ~CheckHttpSignatureFreshness(request.signatureInput.created, config, time)
           ELSE VerifyInvocationProof(leaf, invocation, query, config, time) = "none"
<1> DEFINE payload == [chain |-> <<leaf>>, invocation |-> invocation]
<1>1. \A code, problem : Rejected(code, problem).ok = FALSE BY DEF Rejected
<1>2. Leaf(payload) = leaf
  <2>1. payload.chain # <<>> /\ Head(payload.chain) = leaf OBVIOUS
  <2> HIDE DEF payload
  <2>2. payload # Absent BY DEF payload
  <2> QED BY <2>1, <2>2 DEF Leaf
<1>3. payload.invocation = invocation OBVIOUS
<1> HIDE DEF payload
<1> DEFINE proof == CheckProof(config, payload, query, request, time)
           embedded == VerifyInvocationProof(leaf, invocation, query, config, time)
           http == VerifyHttpSignature(request, leaf)
           stale == CheckHttpSignatureFreshness(request.signatureInput.created, config, time)
<1>4. proof = IF ~CarriesHttpSignature(request)
              THEN IF embedded = "none" THEN Accepted ELSE Rejected("INVOCATION_INVALID", embedded)
              ELSE IF http # "none" THEN Rejected("INVOCATION_INVALID", http)
              ELSE IF stale THEN Rejected("INVOCATION_INVALID", "stale") ELSE Accepted
  BY <1>2, <1>3, Zenon DEF CheckProof
<1>5. proof.ok BY DEF payload
<1> HIDE DEF proof, embedded, http, stale
<1>6. IF ~CarriesHttpSignature(request) THEN embedded = "none" ELSE http = "none" /\ ~stale
  <2>1. CASE ~CarriesHttpSignature(request) /\ embedded # "none"
    <3>1. proof = Rejected("INVOCATION_INVALID", embedded) BY <1>4, <2>1, Zenon
    <3> QED BY <1>1, <1>5, <3>1
  <2>2. CASE CarriesHttpSignature(request) /\ http # "none"
    <3>1. proof = Rejected("INVOCATION_INVALID", http) BY <1>4, <2>2, Zenon
    <3> QED BY <1>1, <1>5, <3>1
  <2>3. CASE CarriesHttpSignature(request) /\ http = "none" /\ stale
    <3>1. proof = Rejected("INVOCATION_INVALID", "stale") BY <1>4, <2>3, Zenon
    <3> QED BY <1>1, <1>5, <3>1
  <2> QED BY <2>1, <2>2, <2>3
<1> QED BY <1>6 DEF embedded, http, stale

-----------------------------------------------------------------------------
(***************************************************************************)
(* Requests on the network, and what accepting one means.                  *)
(***************************************************************************)
SignedModes == {"httpSignature", "invokeCapability"}

\* A request, and what it was made from.  If it is signed, then for the
\* capability it was asked with and its endpoint, and it carries that capability
\* unless it was swapped on the embedded path.
Made(request, record, intent, body, at) ==
    /\ request = Request(record, intent, body, at)
    /\ mode \in SignedModes \cup {"unsafe"}
    /\ mode \in SignedModes =>
          /\ at \in 0..now
          /\ record.signedFor = [capability |-> intent.capability, endpoint |-> Target(intent.capability)]
    /\ mode = "httpSignature" => record.carries = intent.capability

GoodRequest(request) ==
    \E record \in CallRecords, intent \in Intents, body \in Documents, at \in 0..now \cup {Absent} :
        record.sentTo \in CanonicalUrls /\ Made(request, record, intent, body, at)

\* What holds of a request that the gate of its endpoint accepts at a time.
AcceptedFor(request, time) ==
    LET leaf == Delegation[request.carries]
        config == Server[request.to]
    IN
    /\ mode \in SignedModes
    /\ ChainHolds(leaf, config, time)
    /\ leaf.document.controller = SignerDid
    /\ MatchesAllowedAction(Grants(leaf), request.http.body)
    /\ request.carries = request.intent.capability
    /\ request.http.body = request.intent.query
    /\ config.maxAgeSeconds > 0 => ~Stale(time - Seconds(request.at) * TicksPerSecond, config)

LEMMA RequestFields ==
    ASSUME NEW record, NEW intent, NEW body, NEW at
    PROVE  LET request == Request(record, intent, body, at) IN
           /\ request.to = record.sentTo /\ request.carries = record.carries
           /\ request.intent = intent /\ request.at = at
BY DEF Request

\* On the HTTP signature path.
LEMMA AcceptedHttp ==
    ASSUME NEW record, NEW intent, NEW body, NEW at \in 0..now, NEW time,
           mode = "httpSignature",
           record.carries = intent.capability,
           ~Server[record.sentTo].unsafeMode,
           Gate(Request(record, intent, body, at), time).ok
    PROVE  AcceptedFor(Request(record, intent, body, at), time)
<1> DEFINE request == Request(record, intent, body, at)
           second == Seconds(at)
           leaf == Delegation[record.carries]
           config == Server[record.sentTo]
           seen == IF passes THEN request.http ELSE Absent
<1>1. request.http = SignRequest(record.sentTo, record.carries, record.signedFor.endpoint, intent.query, second)
  BY DEF Request
<1>2. /\ request.http.capabilityInvocation = EncodeCapabilityInvocation(record.carries, Absent)
      /\ request.http.body = intent.query
      /\ request.http.signatureInput = [parses |-> TRUE, alg |-> "ed25519", keyid |-> SignerDid, created |-> second]
  BY <1>1 DEF SignRequest, Bare
<1>3. request.to = record.sentTo /\ request.carries = record.carries
      /\ request.intent = intent /\ request.at = at
  BY RequestFields
<1> HIDE DEF request, second, leaf, config
<1>4. CheckInvocation(config,
          DecodeInvocationHeader(EncodeCapabilityInvocation(record.carries, Absent), Absent),
          intent.query, seen, time).ok
  BY <1>2, <1>3, Zenon DEF Gate, request, config
<1> HIDE DEF seen
<1>5. ~config.unsafeMode BY DEF config
<1>6. /\ [chain |-> <<leaf>>, invocation |-> Absent] # Absent
      /\ VerifyChain(leaf, config, time) = "none"
      /\ MatchesAllowedAction(Grants(leaf), intent.query)
      /\ CheckProof(config, [chain |-> <<leaf>>, invocation |-> Absent], intent.query, seen, time).ok
  BY <1>4, <1>5, AcceptedPayload, Zenon DEF leaf
<1>7. CarriesHttpSignature(seen)
  <2> SUFFICES ASSUME ~CarriesHttpSignature(seen) PROVE FALSE OBVIOUS
  <2>1. VerifyInvocationProof(leaf, Absent, intent.query, config, time) = "none"
    BY <1>6, AcceptedProof, Zenon
  <2> QED BY <2>1, EmbeddedIsVerified
<1>8. seen = request.http BY <1>7, Zenon DEF CarriesHttpSignature, seen
<1>9. /\ VerifyHttpSignature(seen, leaf) = "none"
      /\ ~CheckHttpSignatureFreshness(seen.signatureInput.created, config, time)
  BY <1>6, <1>7, AcceptedProof, Zenon
<1>10. leaf.document.controller = SignerDid
  <2>1. seen.signatureInput.keyid = leaf.document.controller BY <1>9, HttpIsVerified
  <2> QED BY <1>2, <1>8, <2>1
<1>11. ~Stale(time - second * TicksPerSecond, config)
  <2>1. seen.signatureInput.created = second BY <1>2, <1>8
  <2> QED BY <1>9, <2>1 DEF CheckHttpSignatureFreshness
<1>12. ChainHolds(leaf, config, time) BY <1>6, ChainIsVerified
<1> QED
  BY <1>2, <1>3, <1>6, <1>10, <1>11, <1>12, Zenon DEF AcceptedFor, SignedModes, leaf, config, second, request

\* On the embedded path.
LEMMA AcceptedEmbedded ==
    ASSUME NEW record, record.carries \in Capabilities, NEW intent \in Intents, NEW body \in Documents,
           NEW at \in 0..now, NEW time,
           mode = "invokeCapability",
           record.signedFor.capability = intent.capability,
           ~Server[record.sentTo].unsafeMode,
           Gate(Request(record, intent, body, at), time).ok
    PROVE  AcceptedFor(Request(record, intent, body, at), time)
<1> DEFINE request == Request(record, intent, body, at)
           second == Seconds(at)
           leaf == Delegation[record.carries]
           config == Server[record.sentTo]
           seen == IF passes THEN request.http ELSE Absent
           proof == CreateUnsignedCapabilityInvocation(record.signedFor.capability, intent.query,
                                                       record.signedFor.endpoint, second)
           invocation == FinalizeCapabilityInvocation("invocation", proof)
<1>1. request.http = PrepareInvokedRequest(record.sentTo, record.carries, invocation, body)
  BY DEF Request
<1>2. /\ request.http.capabilityInvocation = EncodeCapabilityInvocation(record.carries, invocation)
      /\ request.http.body = body
      /\ request.http.signatureInput = Absent
  <2> HIDE DEF invocation
  <2> QED BY <1>1 DEF PrepareInvokedRequest, Bare
<1>3. /\ invocation.options.verificationMethod = SignerDid
      /\ invocation.options.capability = Delegation[intent.capability].document.id
      /\ invocation.options.capabilityAction = intent.query.raw
      /\ invocation.options.created = second * TicksPerSecond
  <2>1. invocation.options = proof BY DEF FinalizeCapabilityInvocation
  <2> QED BY <2>1 DEF CreateUnsignedCapabilityInvocation
<1>4. request.to = record.sentTo /\ request.carries = record.carries
      /\ request.intent = intent /\ request.at = at
  BY RequestFields
<1> HIDE DEF request, second, leaf, config, invocation
<1>5. CheckInvocation(config,
          DecodeInvocationHeader(EncodeCapabilityInvocation(record.carries, invocation), Absent),
          body, seen, time).ok
  BY <1>2, <1>4, Zenon DEF Gate, request, config
<1>6. ~CarriesHttpSignature(seen) BY <1>2, Zenon DEF CarriesHttpSignature, seen
<1> HIDE DEF seen
<1>7. ~config.unsafeMode BY DEF config
<1>8. /\ [chain |-> <<leaf>>, invocation |-> invocation] # Absent
      /\ VerifyChain(leaf, config, time) = "none"
      /\ MatchesAllowedAction(Grants(leaf), body)
      /\ CheckProof(config, [chain |-> <<leaf>>, invocation |-> invocation], body, seen, time).ok
  BY <1>5, <1>7, AcceptedPayload, Zenon DEF leaf
<1>9. VerifyInvocationProof(leaf, invocation, body, config, time) = "none"
  BY <1>6, <1>8, AcceptedProof, Zenon
<1>10. /\ invocation.options.verificationMethod = leaf.document.controller
       /\ invocation.options.capability = leaf.document.id
       /\ invocation.options.capabilityAction = body.raw
       /\ ~EmbeddedStale(invocation.options.created, config, time)
  BY <1>9, EmbeddedIsVerified
<1>11. record.carries = intent.capability
  <2>1. Delegation[intent.capability].document.id = Delegation[record.carries].document.id
    BY <1>3, <1>10 DEF leaf
  <2>2. intent.capability \in Capabilities BY DEF Intents
  <2> QED BY <2>1, <2>2, DelegationAssumption
<1>12. body = intent.query
  <2>1. intent.query \in Documents /\ body.raw = intent.query.raw BY <1>3, <1>10 DEF Intents
  <2> QED BY <2>1, DocumentAssumption
<1>13. config.maxAgeSeconds > 0 => ~Stale(time - second * TicksPerSecond, config)
  <2> SUFFICES ASSUME config.maxAgeSeconds > 0 PROVE ~Stale(time - second * TicksPerSecond, config)
    OBVIOUS
  <2>1. ~(IF second * TicksPerSecond = Absent THEN TRUE ELSE Stale(time - second * TicksPerSecond, config))
    BY <1>3, <1>10, Zenon DEF EmbeddedStale
  <2> QED BY <2>1
<1>14. ChainHolds(leaf, config, time) BY <1>8, ChainIsVerified
<1>15. leaf.document.controller = SignerDid BY <1>3, <1>10
<1> QED
  BY <1>2, <1>4, <1>8, <1>11, <1>12, <1>13, <1>14, <1>15, Zenon
  DEF AcceptedFor, SignedModes, leaf, config, second, request

\* A request that shows no proof is never accepted.
LEMMA UnprovedIsRefused ==
    ASSUME NEW record, NEW intent, NEW body, NEW at, NEW time,
           mode = "unsafe",
           ~Server[record.sentTo].unsafeMode
    PROVE  ~Gate(Request(record, intent, body, at), time).ok
<1> DEFINE request == Request(record, intent, body, at)
           leaf == Delegation[record.carries]
           config == Server[record.sentTo]
           seen == IF passes THEN request.http ELSE Absent
<1> SUFFICES ASSUME Gate(request, time).ok PROVE FALSE OBVIOUS
<1>1. request.http = Bare(record.sentTo, record.carries, intent.query) BY DEF Request
<1>2. /\ request.http.capabilityInvocation = EncodeCapabilityInvocation(record.carries, Absent)
      /\ request.http.body = intent.query
      /\ request.http.signatureInput = Absent
  BY <1>1 DEF Bare
<1>3. request.to = record.sentTo BY RequestFields
<1> HIDE DEF request, leaf, config
<1>4. CheckInvocation(config,
          DecodeInvocationHeader(EncodeCapabilityInvocation(record.carries, Absent), Absent),
          intent.query, seen, time).ok
  BY <1>2, <1>3, Zenon DEF Gate, config
<1>5. ~CarriesHttpSignature(seen) BY <1>2, Zenon DEF CarriesHttpSignature, seen
<1> HIDE DEF seen
<1>6. ~config.unsafeMode BY DEF config
<1>7. /\ [chain |-> <<leaf>>, invocation |-> Absent] # Absent
      /\ CheckProof(config, [chain |-> <<leaf>>, invocation |-> Absent], intent.query, seen, time).ok
  BY <1>4, <1>6, AcceptedPayload, Zenon DEF leaf
<1>8. VerifyInvocationProof(leaf, Absent, intent.query, config, time) = "none"
  BY <1>5, <1>7, AcceptedProof, Zenon
<1> QED BY <1>8, EmbeddedIsVerified

-----------------------------------------------------------------------------
(***************************************************************************)
(* The inductive invariant: the client's own, what is being signed was     *)
(* asked for, and the network and the last answer hold only what they can  *)
(* have been made from.                                                    *)
(***************************************************************************)
WireTypeOK ==
    /\ asked \in [Calls -> Intents \cup {Absent}]
    /\ text \in [Calls -> Documents \cup {Absent}]
    /\ created \in [Calls -> 0..now \cup {Absent}]
    /\ passes \in HostsPassRequest /\ drift \in Drifts

SigningIsAsked ==
    \A q \in Calls : call[q].pc = "signing" =>
        /\ mode \in SignedModes
        /\ asked[q] \in Intents /\ text[q] \in Documents
        /\ call[q].signedFor.capability = asked[q].capability
        /\ call[q].carries = asked[q].capability

GoodAnswer ==
    answer # Absent =>
        /\ answer.request \in network
        /\ answer.at \in 0..now
        /\ answer.ok = Gate(answer.request, answer.at + drift).ok

WireInv ==
    /\ Inv
    /\ WireTypeOK
    /\ SigningIsAsked
    /\ \A request \in network : GoodRequest(request)
    /\ GoodAnswer

\* A request stays good as time passes.
LEMMA GoodRequestStays ==
    ASSUME now \in Nat, now' \in Nat, now <= now', UNCHANGED mode, NEW request, GoodRequest(request)
    PROVE  GoodRequest(request)'
<1>1. PICK record \in CallRecords, intent \in Intents, body \in Documents, at \in 0..now \cup {Absent} :
         record.sentTo \in CanonicalUrls /\ Made(request, record, intent, body, at)
  BY DEF GoodRequest
<1>2. at \in 0..now' \cup {Absent} BY <1>1
<1>3. Made(request, record, intent, body, at)'
  <2>1. Request(record, intent, body, at)' = Request(record, intent, body, at)
    BY Zenon DEF Request
  <2>2. at \in 0..now => at \in 0..now' OBVIOUS
  <2> QED BY <1>1, <2>1, <2>2 DEF Made
<1> QED BY <1>1, <1>2, <1>3 DEF GoodRequest

\* Calls are records of the client's type.
LEMMA ClientFacts ==
    ASSUME Inv
    PROVE  /\ call \in [Calls -> CallRecords] /\ capability \in Capabilities
           /\ endpoint \in CanonicalUrls /\ now \in Nat
           /\ \A q \in Calls : call[q].pc = "signing" =>
                 /\ call[q].sentTo = NoUrl
                 /\ call[q].signedFor = [capability |-> call[q].carries, endpoint |-> Target(call[q].carries)]
BY OptionAssumption DEF Inv, TypeOK, Sound, SigningIsSound

\* What query() makes of a call.
LEMMA QueryMakes ==
    ASSUME Inv, NEW q \in Calls, Query(q)
    PROVE  /\ \A other \in Calls \ {q} : call'[other] = call[other]
           /\ UNCHANGED <<mode, capability, endpoint, now>>
           /\ call'[q].pc = "sent" => mode = "unsafe" /\ call'[q].sentTo = endpoint
           /\ call'[q].pc = "signing" =>
                 /\ mode \in SignedModes
                 /\ call'[q].signedFor = [capability |-> capability, endpoint |-> endpoint]
                 /\ call'[q].carries = capability
<1>1. PICK hasSignal \in BOOLEAN : call' = [call EXCEPT ![q] = QueryStep(Asked("query", hasSignal))]
  BY DEF Query
<1> DEFINE record == Asked("query", hasSignal)
<1>2. UNCHANGED <<mode, capability, endpoint, now>> BY DEF Query, options
<1>3. call'[q] = QueryStep(record) /\ \A other \in Calls \ {q} : call'[other] = call[other]
  BY <1>1, ClientFacts
<1>4. TypeOK /\ record \in CallRecords BY AskedType DEF Inv
<1> HIDE DEF record
<1>5. \A result : Settled(record, result).pc = "settled" BY <1>4 DEF Settled, CallRecords
<1>6. CASE CheckExpiry /\ IsExpired(capability)
  <2>1. QueryStep(record) = Settled(record, "expired") BY <1>6, Zenon DEF QueryStep
  <2> QED BY <1>2, <1>3, <1>5, <2>1
<1>7. CASE ~(CheckExpiry /\ IsExpired(capability)) /\ mode = "unsafe"
  <2>1. QueryStep(record) = FetchJson(record, capability, FALSE) BY <1>7 DEF QueryStep
  <2>2. FetchJson(record, capability, FALSE).pc = "sent" =>
           FetchJson(record, capability, FALSE).sentTo = endpoint
    BY <1>4, <1>5 DEF FetchJson, CallRecords
  <2>3. FetchJson(record, capability, FALSE).pc # "signing"
    BY <1>4, <1>5 DEF FetchJson, CallRecords
  <2> QED BY <1>2, <1>3, <1>7, <2>1, <2>2, <2>3
<1>8. CASE ~(CheckExpiry /\ IsExpired(capability)) /\ mode = "none"
  <2>1. QueryStep(record) = Settled(record, "noSigner") BY <1>8 DEF QueryStep
  <2> QED BY <1>2, <1>3, <1>5, <2>1
<1>9. CASE ~(CheckExpiry /\ IsExpired(capability)) /\ mode \in SignedModes
  <2>1. QueryStep(record) = Sign(record) BY <1>9 DEF QueryStep, SignedModes
  <2>2. /\ Sign(record).pc = "signing" /\ Sign(record).carries = capability
        /\ Sign(record).signedFor = [capability |-> capability, endpoint |-> endpoint]
    BY <1>4 DEF Sign, CallRecords
  <2> QED BY <1>2, <1>3, <1>9, <2>1, <2>2
<1>10. mode \in SignedModes \cup {"unsafe", "none"} BY <1>4, OptionAssumption DEF TypeOK, SignedModes
<1> QED BY <1>6, <1>7, <1>8, <1>9, <1>10

\* What the signer's answer makes of it.
LEMMA SignerMakes ==
    ASSUME Inv, NEW q \in Calls, SignerAnswers(q)
    PROVE  /\ \A other \in Calls \ {q} : call'[other] = call[other]
           /\ UNCHANGED <<mode, capability, endpoint, now>>
           /\ call'[q].pc # "signing"
           /\ call'[q].pc = "sent" =>
                 /\ call'[q].sentTo = endpoint
                 /\ call'[q].signedFor = call[q].signedFor
                 /\ mode = "httpSignature" => call'[q].carries = call[q].carries
<1> DEFINE cap == IF mode = "httpSignature" THEN call[q].carries ELSE capability
           invocation == mode # "httpSignature"
<1>1. call[q] \in CallRecords /\ call \in [Calls -> CallRecords] BY ClientFacts
<1>2. /\ call' = [call EXCEPT ![q] = FetchJson(call[q], cap, invocation)]
      /\ UNCHANGED <<mode, capability, endpoint, now>>
  <2>1. CASE mode = "httpSignature" BY <2>1 DEF SignerAnswers, Proceed, options
  <2>2. CASE mode # "httpSignature" BY <2>2 DEF SignerAnswers, Proceed, options
  <2> QED BY <2>1, <2>2
<1>3. call'[q] = FetchJson(call[q], cap, invocation) /\ \A other \in Calls \ {q} : call'[other] = call[other]
  BY <1>1, <1>2
<1>4. mode = "httpSignature" => cap = call[q].carries OBVIOUS
<1> HIDE DEF cap, invocation
<1>5. CASE HeaderFits(cap, invocation)
  <2>1. call'[q] = [call[q] EXCEPT !.pc = "sent", !.carries = cap, !.sentTo = endpoint]
    BY <1>3, <1>5 DEF FetchJson
  <2> QED BY <1>1, <1>2, <1>3, <1>4, <2>1 DEF CallRecords
<1>6. CASE ~HeaderFits(cap, invocation)
  <2>1. call'[q] = Settled(call[q], "tooLarge") BY <1>3, <1>6 DEF FetchJson
  <2>2. call'[q].pc = "settled" BY <1>1, <2>1 DEF Settled, CallRecords
  <2> QED BY <1>2, <1>3, <2>2
<1> QED BY <1>5, <1>6

\* Whatever step the system takes, the client takes one of its own or none.
LEMMA ClientStep ==
    ASSUME Inv, [SystemNext]_systemVars
    PROVE  Inv' /\ UNCHANGED mode /\ now <= now' /\ now \in Nat /\ now' \in Nat
<1>1. [Next]_vars
  <2>1. CASE UNCHANGED systemVars BY <2>1 DEF systemVars
  <2>2. ASSUME NEW q \in Calls, Ask(q) PROVE Next BY <2>2 DEF Ask, Next
  <2>3. ASSUME NEW q \in Calls, Edit(q) PROVE UNCHANGED vars BY <2>3 DEF Edit
  <2>4. ASSUME NEW q \in Calls, ReadClock(q) PROVE UNCHANGED vars BY <2>4 DEF ReadClock
  <2>5. ASSUME NEW q \in Calls, ReceiveSignature(q) PROVE Next BY <2>5 DEF ReceiveSignature, Next
  <2>6. CASE ClientOnly BY <2>6 DEF ClientOnly, Next
  <2>7. CASE Deliver BY <2>7 DEF Deliver
  <2> QED BY <2>1, <2>2, <2>3, <2>4, <2>5, <2>6, <2>7 DEF SystemNext
<1>2. Inv' BY <1>1, InvStep
<1>3. now \in Nat /\ now' \in Nat BY <1>2, OptionAssumption DEF Inv, TypeOK
<1>4. UNCHANGED mode /\ now <= now'
  <2>1. CASE UNCHANGED vars BY <1>3, <2>1 DEF vars, options
  <2>2. CASE Tick BY <1>3, <2>2 DEF Tick, options
  <2>3. CASE SetCapability BY <1>3, <2>3 DEF SetCapability, options
  <2>4. ASSUME NEW q \in Calls,
               \/ Query(q) \/ CheckAuth(q) \/ SignerAnswers(q) \/ SignerFails(q) \/ CancelByCaller(q)
               \/ TimerFires(q) \/ HeadersArrive(q) \/ BodyArrives(q) \/ FetchAborts(q) \/ FetchFails(q)
        PROVE  UNCHANGED mode /\ now <= now'
    <3>1. \A record : Proceed(q, record) => UNCHANGED <<mode, now>> BY DEF Proceed, options
    <3>2. Query(q) \/ CheckAuth(q) => UNCHANGED <<mode, now>> BY DEF Query, CheckAuth, options
    <3>3. \A error : Rejects(q, error) => UNCHANGED <<mode, now>> BY <3>1, Zenon DEF Rejects
    <3>4. \/ SignerAnswers(q) \/ SignerFails(q) \/ CancelByCaller(q) \/ TimerFires(q)
          \/ HeadersArrive(q) \/ BodyArrives(q)
          => UNCHANGED <<mode, now>>
      BY <3>1, Zenon
      DEF SignerAnswers, SignerFails, CancelByCaller, TimerFires, HeadersArrive, BodyArrives
    <3>5. FetchAborts(q) \/ FetchFails(q) => UNCHANGED <<mode, now>>
      BY <3>3, Zenon DEF FetchAborts, FetchFails
    <3>6. UNCHANGED <<mode, now>> BY <2>4, <3>2, <3>4, <3>5, Zenon
    <3> QED BY <1>3, <3>6
  <2> QED BY <1>1, <2>1, <2>2, <2>3, <2>4 DEF Next
<1> QED BY <1>2, <1>3, <1>4

LEMMA WireInit == SystemInit => WireInv
<1> SUFFICES ASSUME SystemInit PROVE WireInv OBVIOUS
<1>1. Inv BY InvInit DEF SystemInit
<1>2. WireTypeOK BY DEF SystemInit, WireTypeOK
<1>3. \A q \in Calls : call[q].pc = "idle" BY DEF SystemInit, Init, NoCall
<1> QED BY <1>1, <1>2, <1>3 DEF SystemInit, WireInv, SigningIsAsked, GoodAnswer

\* Requests that were on the network stay good, and one that a step adds is good
\* if what it is made from is.
LEMMA NetworkStaysGood ==
    ASSUME WireInv, [SystemNext]_systemVars,
           NEW q \in Calls, Posts(q),
           call'[q].pc = "sent" /\ call[q].pc # "sent" =>
               /\ call'[q].sentTo \in CanonicalUrls
               /\ asked'[q] \in Intents /\ text'[q] \in Documents
               /\ created'[q] \in 0..now \cup {Absent}
               /\ mode \in SignedModes \cup {"unsafe"}
               /\ mode \in SignedModes =>
                  /\ created'[q] \in 0..now
                  /\ call'[q].signedFor = [capability |-> asked'[q].capability,
                                           endpoint |-> Target(asked'[q].capability)]
               /\ mode = "httpSignature" => call'[q].carries = asked'[q].capability
    PROVE  \A request \in network' : GoodRequest(request)'
<1> SUFFICES ASSUME NEW request \in network' PROVE GoodRequest(request)' OBVIOUS
<1>1. /\ UNCHANGED mode /\ now <= now' /\ now \in Nat /\ now' \in Nat /\ Inv'
      /\ \A r \in network : GoodRequest(r)
  BY ClientStep DEF WireInv
<1>2. GoodRequest(request)
  <2>1. CASE request \in network BY <1>1, <2>1
  <2>2. CASE request \notin network
    <3>1. /\ call'[q].pc = "sent" /\ call[q].pc # "sent"
          /\ request = Request(call'[q], asked'[q], text'[q], created'[q])
      BY <2>2 DEF Posts
    <3>2. call'[q] \in CallRecords BY <1>1 DEF Inv, TypeOK
    <3>3. Made(request, call'[q], asked'[q], text'[q], created'[q]) BY <3>1 DEF Made
    <3> QED BY <3>1, <3>2, <3>3 DEF GoodRequest
  <2> QED BY <2>1, <2>2
<1> QED BY <1>1, <1>2, GoodRequestStays

\* The last answer stays true of the request it was given to.
LEMMA AnswerStaysGood ==
    ASSUME GoodAnswer, UNCHANGED <<answer, passes, drift>>, network \subseteq network',
           now \in Nat, now' \in Nat, now <= now'
    PROVE  GoodAnswer'
<1>1. \A request, time : Gate(request, time)' = Gate(request, time) BY Zenon DEF Gate
<1> QED BY <1>1 DEF GoodAnswer

LEMMA AskKeepsInv ==
    ASSUME WireInv, NEW q \in Calls, Ask(q)
    PROVE  WireInv'
<1>1. Query(q) /\ Posts(q) /\ UNCHANGED <<answer, passes, drift>> /\ created' = [created EXCEPT ![q] = Absent]
  BY DEF Ask
<1>2. PICK query \in Documents :
         /\ asked' = [asked EXCEPT ![q] = [query |-> query, capability |-> capability]]
         /\ text' = [text EXCEPT ![q] = query]
  BY DEF Ask
<1>3. Inv /\ WireTypeOK /\ SigningIsAsked BY DEF WireInv
<1>4. /\ \A other \in Calls \ {q} : call'[other] = call[other]
      /\ UNCHANGED <<mode, capability, endpoint, now>>
      /\ call'[q].pc = "sent" => mode = "unsafe" /\ call'[q].sentTo = endpoint
      /\ call'[q].pc = "signing" =>
            /\ mode \in SignedModes
            /\ call'[q].signedFor = [capability |-> capability, endpoint |-> endpoint]
            /\ call'[q].carries = capability
  BY <1>1, <1>3, QueryMakes
<1>5. capability \in Capabilities /\ endpoint \in CanonicalUrls /\ now \in Nat BY <1>3, ClientFacts
<1>6. [SystemNext]_systemVars BY DEF SystemNext
<1>7. Inv' BY <1>3, <1>6, ClientStep
<1>8. /\ asked'[q] = [query |-> query, capability |-> capability] /\ asked'[q] \in Intents
      /\ text'[q] \in Documents /\ created'[q] = Absent
      /\ \A other \in Calls \ {q} : asked'[other] = asked[other] /\ text'[other] = text[other]
  BY <1>1, <1>2, <1>3, <1>5 DEF WireTypeOK, Intents
<1>9. WireTypeOK'
  <2>1. [query |-> query, capability |-> capability] \in Intents BY <1>5 DEF Intents
  <2> QED BY <1>1, <1>2, <1>3, <1>4, <2>1 DEF WireTypeOK
<1>10. SigningIsAsked'
  <2> SUFFICES ASSUME NEW p \in Calls, call'[p].pc = "signing"
               PROVE  /\ mode' \in SignedModes
                      /\ asked'[p] \in Intents /\ text'[p] \in Documents
                      /\ call'[p].signedFor.capability = asked'[p].capability
                      /\ call'[p].carries = asked'[p].capability
    BY DEF SigningIsAsked
  <2>1. CASE p = q BY <1>4, <1>8, <2>1
  <2>2. CASE p # q BY <1>3, <1>4, <1>8, <2>2 DEF SigningIsAsked
  <2> QED BY <2>1, <2>2
<1>11. \A request \in network' : GoodRequest(request)'
  <2>1. mode = "unsafe" => mode \notin SignedModes BY DEF SignedModes
  <2> QED BY <1>1, <1>4, <1>5, <1>6, <1>8, <2>1, NetworkStaysGood
<1>12. GoodAnswer'
  <2>1. network \subseteq network' BY <1>1 DEF Posts
  <2> QED BY <1>1, <1>4, <1>5, <2>1, AnswerStaysGood DEF WireInv
<1> QED BY <1>7, <1>9, <1>10, <1>11, <1>12 DEF WireInv

LEMMA ReceiveSignatureKeepsInv ==
    ASSUME WireInv, NEW q \in Calls, ReceiveSignature(q)
    PROVE  WireInv'
<1>1. /\ SignerAnswers(q) /\ Posts(q) /\ created[q] # Absent /\ call[q].pc = "signing"
      /\ UNCHANGED <<asked, text, created, answer, passes, drift>>
  BY DEF ReceiveSignature, SignerAnswers
<1>2. Inv /\ WireTypeOK /\ SigningIsAsked BY DEF WireInv
<1>3. /\ \A other \in Calls \ {q} : call'[other] = call[other]
      /\ UNCHANGED <<mode, capability, endpoint, now>>
      /\ call'[q].pc # "signing"
      /\ call'[q].pc = "sent" =>
            /\ call'[q].sentTo = endpoint
            /\ call'[q].signedFor = call[q].signedFor
            /\ mode = "httpSignature" => call'[q].carries = call[q].carries
  BY <1>1, <1>2, SignerMakes
<1>4. endpoint \in CanonicalUrls /\ now \in Nat BY <1>2, ClientFacts
<1>5. [SystemNext]_systemVars BY DEF SystemNext
<1>6. Inv' BY <1>2, <1>5, ClientStep
<1>7. WireTypeOK' BY <1>1, <1>2, <1>3 DEF WireTypeOK
<1>8. SigningIsAsked'
  <2> SUFFICES ASSUME NEW p \in Calls, call'[p].pc = "signing"
               PROVE  /\ mode' \in SignedModes
                      /\ asked'[p] \in Intents /\ text'[p] \in Documents
                      /\ call'[p].signedFor.capability = asked'[p].capability
                      /\ call'[p].carries = asked'[p].capability
    BY DEF SigningIsAsked
  <2>1. p # q /\ call'[p] = call[p] BY <1>3
  <2> QED BY <1>1, <1>2, <1>3, <2>1 DEF SigningIsAsked
<1>9. \A request \in network' : GoodRequest(request)'
  <2>1. /\ mode \in SignedModes /\ asked[q] \in Intents /\ text[q] \in Documents
        /\ call[q].carries = asked[q].capability
        /\ call[q].signedFor = [capability |-> asked[q].capability, endpoint |-> Target(asked[q].capability)]
    BY <1>1, <1>2, ClientFacts DEF SigningIsAsked
  <2>2. created[q] \in 0..now BY <1>1, <1>2 DEF WireTypeOK
  <2> QED BY <1>1, <1>3, <1>4, <1>5, <2>1, <2>2, NetworkStaysGood
<1>10. GoodAnswer'
  <2>1. network \subseteq network' BY <1>1 DEF Posts
  <2> QED BY <1>1, <1>3, <1>4, <2>1, AnswerStaysGood DEF WireInv
<1> QED BY <1>6, <1>7, <1>8, <1>9, <1>10 DEF WireInv

LEMMA EditKeepsInv ==
    ASSUME WireInv, NEW q \in Calls, Edit(q)
    PROVE  WireInv'
<1>1. /\ UNCHANGED <<vars, asked, created, network, answer, passes, drift>>
      /\ \E query \in Documents : text' = [text EXCEPT ![q] = query]
  BY DEF Edit
<1>2. Inv /\ WireTypeOK /\ SigningIsAsked /\ now \in Nat BY ClientFacts DEF WireInv
<1>3. [SystemNext]_systemVars BY DEF SystemNext
<1>4. Inv' BY <1>2, <1>3, ClientStep
<1>5. UNCHANGED <<mode, call, now>> BY <1>1 DEF vars, options
<1>6. WireTypeOK' BY <1>1, <1>2, <1>5 DEF WireTypeOK
<1>7. \A p \in Calls : text[p] \in Documents => text'[p] \in Documents BY <1>1, <1>2 DEF WireTypeOK
<1>8. SigningIsAsked' BY <1>1, <1>2, <1>5, <1>7 DEF SigningIsAsked
<1>9. \A request \in network' : GoodRequest(request)'
  BY <1>1, <1>2, <1>5, GoodRequestStays DEF WireInv
<1>10. GoodAnswer' BY <1>1, <1>2, <1>5, AnswerStaysGood DEF WireInv
<1> QED BY <1>4, <1>6, <1>8, <1>9, <1>10 DEF WireInv

LEMMA ReadClockKeepsInv ==
    ASSUME WireInv, NEW q \in Calls, ReadClock(q)
    PROVE  WireInv'
<1>1. /\ UNCHANGED <<vars, asked, text, network, answer, passes, drift>>
      /\ created' = [created EXCEPT ![q] = now]
  BY DEF ReadClock
<1>2. Inv /\ WireTypeOK /\ SigningIsAsked /\ now \in Nat BY ClientFacts DEF WireInv
<1>3. [SystemNext]_systemVars BY DEF SystemNext
<1>4. Inv' BY <1>2, <1>3, ClientStep
<1>5. UNCHANGED <<mode, call, now>> BY <1>1 DEF vars, options
<1>6. WireTypeOK' BY <1>1, <1>2, <1>5 DEF WireTypeOK
<1>7. SigningIsAsked' BY <1>1, <1>2, <1>5 DEF SigningIsAsked
<1>8. \A request \in network' : GoodRequest(request)'
  BY <1>1, <1>2, <1>5, GoodRequestStays DEF WireInv
<1>9. GoodAnswer' BY <1>1, <1>2, <1>5, AnswerStaysGood DEF WireInv
<1> QED BY <1>4, <1>6, <1>7, <1>8, <1>9 DEF WireInv

LEMMA ClientOnlyKeepsInv ==
    ASSUME WireInv, ClientOnly
    PROVE  WireInv'
<1>1. UNCHANGED <<asked, text, created, network, answer, passes, drift>> BY DEF ClientOnly, wire
<1>2. Inv /\ WireTypeOK /\ SigningIsAsked BY DEF WireInv
<1>3. [SystemNext]_systemVars BY DEF SystemNext
<1>4. Inv' /\ UNCHANGED mode /\ now <= now' /\ now \in Nat /\ now' \in Nat
  BY <1>2, <1>3, ClientStep
<1>5. 0..now \subseteq 0..now' BY <1>4
<1>6. WireTypeOK' BY <1>1, <1>2, <1>5 DEF WireTypeOK
<1>7. \A p \in Calls : call'[p] = call[p] \/ call'[p].pc = "settled"
  <2>1. CASE SetCapability \/ Tick BY <2>1 DEF SetCapability, Tick
  <2>2. ASSUME NEW q \in Calls, SignerFails(q)
        PROVE  \A p \in Calls : call'[p] = call[p] \/ call'[p].pc = "settled"
    <3>1. call' = [call EXCEPT ![q] = Settled(call[q], "signerFailed")]
      BY <2>2 DEF SignerFails, Proceed
    <3>2. call \in [Calls -> CallRecords] BY <1>2, ClientFacts
    <3>3. Settled(call[q], "signerFailed").pc = "settled" BY <3>2 DEF Settled, CallRecords
    <3> QED BY <3>1, <3>2, <3>3
  <2> QED BY <2>1, <2>2 DEF ClientOnly
<1>8. SigningIsAsked' BY <1>1, <1>2, <1>4, <1>7 DEF SigningIsAsked
<1>9. \A request \in network' : GoodRequest(request)'
  BY <1>1, <1>4, GoodRequestStays DEF WireInv
<1>10. GoodAnswer' BY <1>1, <1>4, AnswerStaysGood DEF WireInv
<1> QED BY <1>4, <1>6, <1>8, <1>9, <1>10 DEF WireInv

LEMMA DeliverKeepsInv ==
    ASSUME WireInv, Deliver
    PROVE  WireInv'
<1>1. UNCHANGED <<vars, asked, text, created, network, passes, drift>> BY DEF Deliver
<1>2. PICK request \in network :
         answer' = [request |-> request, at |-> now, ok |-> Gate(request, now + drift).ok]
  BY DEF Deliver
<1>3. Inv /\ WireTypeOK /\ SigningIsAsked /\ now \in Nat BY ClientFacts DEF WireInv
<1>4. [SystemNext]_systemVars BY DEF SystemNext
<1>5. Inv' BY <1>3, <1>4, ClientStep
<1>6. UNCHANGED <<mode, call, now>> BY <1>1 DEF vars, options
<1>7. WireTypeOK' BY <1>1, <1>3, <1>6 DEF WireTypeOK
<1>8. SigningIsAsked' BY <1>1, <1>3, <1>6 DEF SigningIsAsked
<1>9. \A r \in network' : GoodRequest(r)' BY <1>1, <1>3, <1>6, GoodRequestStays DEF WireInv
<1>10. GoodAnswer'
  <2>1. \A time : Gate(request, time)' = Gate(request, time) BY <1>1, Zenon DEF Gate
  <2>2. /\ answer'.request = request /\ answer'.at = now
        /\ answer'.ok = Gate(request, now + drift).ok
    BY <1>2
  <2> QED BY <1>1, <1>3, <1>6, <2>1, <2>2 DEF GoodAnswer
<1> QED BY <1>5, <1>7, <1>8, <1>9, <1>10 DEF WireInv

LEMMA WireStep == WireInv /\ [SystemNext]_systemVars => WireInv'
<1> SUFFICES ASSUME WireInv, [SystemNext]_systemVars PROVE WireInv' OBVIOUS
<1>1. CASE UNCHANGED systemVars
  <2>1. /\ UNCHANGED <<asked, text, created, network, answer, passes, drift>>
        /\ UNCHANGED <<mode, call, now>>
    BY <1>1 DEF systemVars, wire, vars, options
  <2>2. Inv' /\ now \in Nat BY ClientStep DEF WireInv
  <2>3. WireTypeOK' BY <2>1 DEF WireInv, WireTypeOK
  <2>4. SigningIsAsked' BY <2>1 DEF WireInv, SigningIsAsked
  <2>5. \A request \in network' : GoodRequest(request)' BY <2>1, <2>2, GoodRequestStays DEF WireInv
  <2>6. GoodAnswer' BY <2>1, <2>2, AnswerStaysGood DEF WireInv
  <2> QED BY <2>2, <2>3, <2>4, <2>5, <2>6 DEF WireInv
<1> QED
  BY <1>1, AskKeepsInv, EditKeepsInv, ReadClockKeepsInv, ReceiveSignatureKeepsInv,
     ClientOnlyKeepsInv, DeliverKeepsInv
  DEF SystemNext

LEMMA WireHolds == SystemSpec => []WireInv
BY WireInit, WireStep, PTL DEF SystemSpec

-----------------------------------------------------------------------------
(***************************************************************************)
(* The theorems.                                                           *)
(***************************************************************************)

\* What a signed document says of the capability it stands for.
LEMMA DelegationFacts ==
    ASSUME NEW cap \in Capabilities
    PROVE  /\ Delegation[cap].document.expires.at = Expires[cap]
           /\ Delegation[cap].document.invocationTarget = InvocationTarget[cap]
<1>1. /\ Delegation[cap].document.expires = [kind |-> "date", at |-> Expires[cap]]
      /\ Delegation[cap].document.invocationTarget = InvocationTarget[cap]
  BY DelegationAssumption, Zenon
<1> QED BY <1>1

\* An executed request is one the gate of its endpoint accepted, when it was
\* delivered, and it was made as the invariant says.
LEMMA ExecutedIsAccepted ==
    ASSUME WireInv, Executed
    PROVE  /\ AcceptedFor(answer.request, answer.at + drift)
           /\ answer.request.to \in CanonicalUrls /\ answer.request.carries \in Capabilities
           /\ answer.request.intent \in Intents
           /\ answer.request.at \in 0..now /\ answer.at \in 0..now /\ now \in Nat
<1> DEFINE request == answer.request
           time == answer.at + drift
<1>1. request \in network /\ answer.at \in 0..now /\ Gate(request, time).ok
  BY DEF WireInv, GoodAnswer, Executed
<1>2. GoodRequest(request) /\ now \in Nat BY <1>1, ClientFacts DEF WireInv
<1>3. PICK record \in CallRecords, intent \in Intents, body \in Documents, at \in 0..now \cup {Absent} :
         record.sentTo \in CanonicalUrls /\ Made(request, record, intent, body, at)
  BY <1>2 DEF GoodRequest
<1> HIDE DEF request, time
<1>4. /\ request = Request(record, intent, body, at)
      /\ record.carries \in Capabilities
      /\ ~Server[record.sentTo].unsafeMode
  BY <1>3, ServerAssumption DEF Made, CallRecords
<1>5. /\ request.to = record.sentTo /\ request.carries = record.carries
      /\ request.intent = intent /\ request.at = at
  BY <1>4, RequestFields
<1>6. CASE mode = "unsafe" BY <1>1, <1>4, <1>6, UnprovedIsRefused
<1>7. CASE mode = "httpSignature"
  <2>1. at \in 0..now /\ record.carries = intent.capability BY <1>3, <1>7 DEF Made, SignedModes
  <2>2. AcceptedFor(request, time) BY <1>1, <1>4, <1>7, <2>1, AcceptedHttp
  <2> QED BY <1>1, <1>2, <1>3, <1>4, <1>5, <2>1, <2>2 DEF request, time
<1>8. CASE mode = "invokeCapability"
  <2>1. at \in 0..now /\ record.signedFor.capability = intent.capability
    BY <1>3, <1>8 DEF Made, SignedModes
  <2>2. AcceptedFor(request, time) BY <1>1, <1>3, <1>4, <1>8, <2>1, AcceptedEmbedded
  <2> QED BY <1>1, <1>2, <1>3, <1>4, <1>5, <2>1, <2>2 DEF request, time
<1> QED BY <1>3, <1>6, <1>7, <1>8 DEF Made, SignedModes

\* What a request that was made as the invariant says is dated, by either proof.
LEMMA DatedNotAhead ==
    ASSUME now \in Nat, NEW record, NEW intent, NEW body, NEW at, NEW request,
           Made(request, record, intent, body, at)
    PROVE  Dated(request) \in 0..now
<1> DEFINE second == Seconds(at)
<1>1. request = Request(record, intent, body, at) BY DEF Made
<1>2. CASE mode = "unsafe" BY <1>2 DEF Dated
<1>3. ASSUME mode \in SignedModes PROVE second * TicksPerSecond \in 0..now
  <2>1. at \in 0..now /\ at \in Nat BY <1>3 DEF Made
  <2>2. /\ second * TicksPerSecond \in Nat /\ second * TicksPerSecond <= at BY <2>1, SecondsRoundDown
  <2> HIDE DEF second
  <2> DEFINE dated == second * TicksPerSecond
  <2>3. dated \in Nat /\ dated <= at BY <2>2
  <2> HIDE DEF dated
  <2>4. dated \in 0..now BY <2>1, <2>3
  <2> QED BY <2>4 DEF dated
<1>4. CASE mode = "httpSignature"
  <2>1. request.http =
           SignRequest(record.sentTo, record.carries, record.signedFor.endpoint, intent.query, second)
    BY <1>1, <1>4 DEF Request
  <2>2. request.http.signatureInput =
           [parses |-> TRUE, alg |-> "ed25519", keyid |-> SignerDid, created |-> second]
    BY <2>1 DEF SignRequest, Bare
  <2>3. request.http.signatureInput.created = second BY <2>2
  <2>4. Dated(request) = second * TicksPerSecond BY <1>4, <2>3 DEF Dated
  <2> QED BY <1>3, <1>4, <2>4 DEF SignedModes
<1>5. CASE mode = "invokeCapability"
  <2> DEFINE proof == CreateUnsignedCapabilityInvocation(record.signedFor.capability, intent.query,
                                                         record.signedFor.endpoint, second)
             invocation == FinalizeCapabilityInvocation("invocation", proof)
  <2>1. invocation.options.created = second * TicksPerSecond
    <3>1. invocation.options = proof BY DEF FinalizeCapabilityInvocation
    <3> QED BY <3>1 DEF CreateUnsignedCapabilityInvocation
  <2>2. request.http = PrepareInvokedRequest(record.sentTo, record.carries, invocation, body)
    BY <1>1, <1>5 DEF Request
  <2> HIDE DEF invocation
  <2>3. request.http.capabilityInvocation = EncodeCapabilityInvocation(record.carries, invocation)
    BY <2>2 DEF PrepareInvokedRequest, Bare
  <2>4. request.http.capabilityInvocation.invocation = invocation
    BY <2>3 DEF EncodeCapabilityInvocation
  <2>5. Dated(request) = second * TicksPerSecond BY <1>5, <2>1, <2>4 DEF Dated
  <2> QED BY <1>3, <1>5, <2>5 DEF SignedModes
<1> QED BY <1>2, <1>4, <1>5 DEF Made, SignedModes

\* Every variable has its type, and no proof on the network is dated ahead of
\* the client's clock.
THEOREM SystemTypeCorrect == SystemSpec => []SystemTypeOK
<1>1. WireInv => SystemTypeOK
  <2> SUFFICES ASSUME WireInv PROVE SystemTypeOK OBVIOUS
  <2>1. now \in Nat /\ WireTypeOK BY ClientFacts DEF WireInv
  <2>2. ASSUME NEW request \in network
        PROVE  /\ request.to \in CanonicalUrls /\ request.carries \in Capabilities
               /\ request.intent \in Intents
               /\ Dated(request) \in 0..now
    <3>1. PICK record \in CallRecords, intent \in Intents, body \in Documents, at \in 0..now \cup {Absent} :
             record.sentTo \in CanonicalUrls /\ Made(request, record, intent, body, at)
      BY <2>2 DEF WireInv, GoodRequest
    <3>2. /\ request.to = record.sentTo /\ request.carries = record.carries /\ request.intent = intent
      BY <3>1, RequestFields DEF Made
    <3>3. record.carries \in Capabilities BY DEF CallRecords
    <3>4. Dated(request) \in 0..now BY <2>1, <3>1, DatedNotAhead
    <3> QED BY <3>1, <3>2, <3>3, <3>4
  <2>3. answer # Absent => answer.request \in network /\ answer.at \in 0..now
    BY DEF WireInv, GoodAnswer
  <2> QED BY <2>1, <2>2, <2>3 DEF SystemTypeOK, WireTypeOK
<1> QED BY <1>1, WireHolds, PTL

\* However signing, setCapability(), the network and the clocks interleave, the
\* server executes what the application asked for, with the capability it asked
\* with, at that capability's endpoint.
THEOREM ExecutedAsIntendedHolds == SystemSpec => []ExecutedAsIntended
<1>1. WireInv => ExecutedAsIntended
  <2> SUFFICES ASSUME WireInv, Executed
               PROVE  LET request == answer.request IN
                      /\ request.carries = request.intent.capability
                      /\ request.http.body = request.intent.query
                      /\ request.to = Target(request.carries)
    BY Zenon DEF ExecutedAsIntended
  <2> DEFINE request == answer.request
  <2>1. AcceptedFor(request, answer.at + drift) /\ request.to \in CanonicalUrls /\ request.carries \in Capabilities
    BY ExecutedIsAccepted
  <2>2. /\ request.carries = request.intent.capability /\ request.http.body = request.intent.query
        /\ Delegation[request.carries].document.invocationTarget = Server[request.to].expectedInvocationTarget
    BY <2>1 DEF AcceptedFor, ChainHolds
  <2>3. request.to = Target(request.carries)
    <3>1. Server[request.to].expectedInvocationTarget = InvocationTarget[request.carries]
      BY <2>1, <2>2, DelegationFacts
    <3>2. Canonical[Server[request.to].expectedInvocationTarget] = request.to BY <2>1, ServerAssumption
    <3> QED BY <3>1, <3>2 DEF Target
  <2> QED BY <2>2, <2>3
<1> QED BY <1>1, WireHolds, PTL

\* A request is executed within the freshness window around the moment the
\* signer read the clock, however late or often it is delivered and however
\* the clocks differ, and never after the capability's deadline.
THEOREM ExecutedInTimeHolds == SystemSpec => []ExecutedInTime
<1>1. WireInv => ExecutedInTime
  <2> SUFFICES ASSUME WireInv, Executed
               PROVE  ExecutedInTime
    BY Zenon DEF ExecutedInTime
  <2> DEFINE request == answer.request
             config == Server[request.to]
             time == answer.at + drift
             age == answer.at + drift - request.at
             signed == Seconds(request.at) * TicksPerSecond
  <2>1. /\ AcceptedFor(request, time) /\ request.to \in CanonicalUrls /\ request.carries \in Capabilities
        /\ request.at \in 0..now /\ answer.at \in 0..now /\ now \in Nat
    BY ExecutedIsAccepted
  <2>2. time \in Int /\ request.at \in Nat BY <2>1, ClockAssumption DEF WireInv, WireTypeOK
  <2>3. config.maxAgeSeconds \in Int /\ config.clockSkewSeconds \in Int BY <2>1, ServerAssumption
  <2>4. /\ signed \in Nat /\ signed <= request.at /\ request.at < signed + TicksPerSecond
        /\ TicksPerSecond \in Nat \ {0}
    BY <2>2, SecondsRoundDown, TickAssumption
  <2>5. ~Expired(Delegation[request.carries].document.expires, time) BY <2>1 DEF AcceptedFor, ChainHolds
  <2>6. time <= Expires[request.carries]
    <3>1. Delegation[request.carries].document.expires.at = Expires[request.carries]
      BY <2>1, DelegationFacts
    <3>2. Expires[request.carries] \in Nat BY <2>1, CapabilityAssumption
    <3> QED BY <2>2, <2>5, <3>1, <3>2 DEF Expired
  <2>7. ASSUME config.maxAgeSeconds > 0
        PROVE  /\ age <= config.maxAgeSeconds * TicksPerSecond
               /\ -age < (config.clockSkewSeconds + 1) * TicksPerSecond
    <3> DEFINE window == config.maxAgeSeconds * TicksPerSecond
               skew == config.clockSkewSeconds * TicksPerSecond
    <3>1. ~Stale(time - signed, config) BY <2>1, <2>7 DEF AcceptedFor
    <3>2. window \in Int /\ skew \in Int BY <2>3, <2>4
    <3>3. (config.clockSkewSeconds + 1) * TicksPerSecond = skew + TicksPerSecond BY <2>3, <2>4
    <3>4. ~(time - signed > window) /\ ~(-(time - signed) > skew) BY <2>7, <3>1 DEF Stale
    <3>5. age = time - request.at BY <2>1, <2>2, ClockAssumption DEF WireInv, WireTypeOK
    <3> HIDE DEF window, skew, signed, time, age
    <3>6. age <= window /\ -age < skew + TicksPerSecond BY <2>2, <2>4, <3>2, <3>4, <3>5
    <3> QED BY <3>3, <3>6 DEF window
  <2>8. Executed =>
          /\ config.maxAgeSeconds > 0 =>
                /\ age <= config.maxAgeSeconds * TicksPerSecond
                /\ -age < (config.clockSkewSeconds + 1) * TicksPerSecond
          /\ time <= Expires[request.carries]
    <3> HIDE DEF age, time, config
    <3> QED BY <2>6, <2>7
  <2> QED BY <2>8, Zenon DEF ExecutedInTime
<1> QED BY <1>1, WireHolds, PTL

\* Only a delegation by the trusted root's controller to this client is
\* executed, and of a document only operations that select no more than one
\* it grants.
THEOREM ExecutedWasDelegatedHolds == SystemSpec => []ExecutedWasDelegated
<1>1. WireInv => ExecutedWasDelegated
  <2> SUFFICES ASSUME WireInv, Executed
               PROVE  LET request == answer.request IN
                      /\ Delegated(request.carries, Server[request.to].rootCapability)
                      /\ \A op \in Operations(request.http.body) :
                            Covered(Grants(Delegation[request.carries]), request.http.body, op)
    BY Zenon DEF ExecutedWasDelegated
  <2> DEFINE request == answer.request
             leaf == Delegation[request.carries]
             body == request.http.body
  <2>1. /\ AcceptedFor(request, answer.at + drift)
        /\ request.carries \in Capabilities /\ request.intent \in Intents
    BY ExecutedIsAccepted
  <2>2. Delegated(request.carries, Server[request.to].rootCapability)
    BY <2>1 DEF AcceptedFor, ChainHolds, Delegated, SignedContent, HashEddsaJcs2022
  <2>3. body \in Documents BY <2>1 DEF AcceptedFor, Intents
  <2>4. Grants(leaf) \cup {body} \subseteq AllDocuments BY <2>1, <2>3 DEF AllDocuments
  <2>5. MatchesAllowedAction(Grants(leaf), body) BY <2>1 DEF AcceptedFor
  <2>6. \A entry \in Grants(leaf) \cup {body} : Parsed(entry, LabelsOf(AllDocuments))
    BY <2>4, DocumentAssumption
  <2>7. SameTextSameTree(Grants(leaf) \cup {body})
    BY <2>4, DocumentAssumption DEF SameTextSameTree
  <2>8. \A op \in Operations(body) : Covered(Grants(leaf), body, op)
    BY <2>5, <2>6, <2>7, MatchedIsCovered, Zenon
  <2> QED BY <2>2, <2>8
<1> QED BY <1>1, WireHolds, PTL

-----------------------------------------------------------------------------
(***************************************************************************)
(* The converse: no check of the gate stops an honest request.             *)
(***************************************************************************)

\* A capability that conforms, by the root's controller for this client, with
\* its target spelled as the server spells it and its deadline not passed.
LEMMA HonestChain ==
    ASSUME NEW cap \in Capabilities, NEW config, NEW time \in Int,
           Conforms(Delegation[cap]), Delegated(cap, config.rootCapability),
           Delegation[cap].document.caveats = 0,
           Delegation[cap].document.invocationTarget = config.expectedInvocationTarget,
           time <= Expires[cap]
    PROVE  VerifyChain(Delegation[cap], config, time) = "none"
<1> DEFINE leaf == Delegation[cap]
           root == config.rootCapability
<1>1. /\ leaf.document.expires = [kind |-> "date", at |-> Expires[cap]]
      /\ leaf.document.invocationTarget \in Urls /\ Expires[cap] \in Nat
  BY DelegationAssumption, CapabilityAssumption
<1>2. ~Expired(leaf.document.expires, time) /\ leaf.document.expires.kind = "date"
  <2>1. leaf.document.expires.at = Expires[cap] /\ leaf.document.expires.kind = "date" BY <1>1
  <2> QED BY <1>1, <2>1 DEF Expired
<1> HIDE DEF leaf
<1>3. /\ leaf.document.id # Absent /\ leaf.document.controller \in Ed25519Dids
      /\ leaf.options.type = "DataIntegrityProof" /\ leaf.options.cryptosuite = "eddsa-jcs-2022"
      /\ leaf.options.verificationMethod = leaf.signature.key /\ leaf.signature.key \in Ed25519Dids
      /\ leaf.options.capabilityChain \in {Absent, <<leaf.document.parentCapability>>}
  BY Zenon DEF Conforms, leaf
<1>4. /\ leaf.document.parentCapability = root.id
      /\ leaf.options.proofPurpose = "capabilityDelegation"
      /\ leaf.signature = [key |-> root.controller, over |-> SignedContent(leaf.options, leaf.document)]
  BY Zenon DEF Delegated, HashEddsaJcs2022, SignedContent, leaf
<1>5. leaf.signature.key = root.controller BY <1>4
<1>6. VerifyEddsaJcs2022(leaf, "capabilityDelegation") BY <1>3, <1>4, <1>5, ProofPasses
<1>7. ~CapabilityChainMismatch(leaf, root) BY <1>3, <1>4 DEF CapabilityChainMismatch
<1>8. ~StructuralProblem(leaf)
  <2>1. leaf.document.controller # Absent /\ leaf.document.invocationTarget # Absent
    BY <1>1, <1>3, PresenceAssumption, KeyAssumption DEF leaf
  <2>2. \A field \in {"id", "controller", "invocationTarget"} : leaf.document[field] # Absent
    BY <1>3, <2>1
  <2> QED BY <2>2, Zenon DEF StructuralProblem, Required
<1>9. leaf.document.controller \in DidKeys /\ root.controller \in DidKeys
  BY <1>3, <1>5, KeyAssumption
<1>10. Absent \notin DidKeys BY PresenceAssumption
<1>11. leaf.document.caveats = 0 /\ leaf.document.invocationTarget = config.expectedInvocationTarget
  BY DEF leaf
<1> QED
  BY <1>2, <1>3, <1>4, <1>5, <1>6, <1>7, <1>8, <1>9, <1>10, <1>11, ChainPasses, Zenon DEF leaf

\* The gate accepts what passes each of its parts.
LEMMA GateAccepts ==
    ASSUME NEW config, ~config.unsafeMode, NEW cap, NEW invocation, NEW query, NEW request, NEW time,
           Delegation[cap] # Absent, invocation # Unusable,
           EncodeCapabilityInvocation(cap, invocation) # Absent,
           [chain |-> <<Delegation[cap]>>, invocation |-> invocation] # Absent,
           VerifyChain(Delegation[cap], config, time) = "none",
           query \in Grants(Delegation[cap]),
           IF CarriesHttpSignature(request)
           THEN /\ VerifyHttpSignature(request, Delegation[cap]) = "none"
                /\ ~CheckHttpSignatureFreshness(request.signatureInput.created, config, time)
           ELSE VerifyInvocationProof(Delegation[cap], invocation, query, config, time) = "none"
    PROVE  CheckInvocation(config,
               DecodeInvocationHeader(EncodeCapabilityInvocation(cap, invocation), Absent),
               query, request, time).ok
<1> DEFINE leaf == Delegation[cap]
           header == EncodeCapabilityInvocation(cap, invocation)
           payload == [chain |-> <<leaf>>, invocation |-> invocation]
<1>1. header.encoding = "zcap" /\ header.capability = leaf /\ header.invocation = invocation
  BY DEF EncodeCapabilityInvocation
<1>2. payload.chain # <<>> /\ Head(payload.chain) = leaf /\ payload.invocation = invocation OBVIOUS
<1>3. Accepted.ok BY DEF Accepted
<1>4. payload # Absent /\ leaf # Absent /\ header # Absent OBVIOUS
<1>5. ParseCapabilityInvocation(header) = payload
  <2> HIDE DEF header
  <2> QED BY <1>1, Zenon DEF ParseCapabilityInvocation
<1>6. DecodeInvocationHeader(header, Absent) = payload
  <2> HIDE DEF header, payload
  <2> QED BY <1>4, <1>5, Zenon DEF DecodeInvocationHeader
<1> HIDE DEF header, payload, leaf
<1>7. Leaf(payload) = leaf BY <1>2, <1>4, Zenon DEF Leaf
<1>8. CheckAuthOnly(config, payload, time) = "none"
  BY <1>4, <1>7, Zenon DEF CheckAuthOnly, leaf
<1>9. MatchesAllowedAction(Grants(leaf), query) BY Zenon DEF MatchesAllowedAction, leaf
<1>10. CheckInvocation(config, payload, query, request, time) =
          CheckProof(config, payload, query, request, time)
  BY <1>7, <1>8, <1>9, Zenon DEF CheckInvocation
<1>11. CheckProof(config, payload, query, request, time) = Accepted
  BY <1>2, <1>7, Zenon DEF CheckProof, leaf
<1> QED BY <1>3, <1>6, <1>10, <1>11 DEF header

\* Rounding to seconds takes less than the second that an honest request leaves.
LEMMA HonestIsFresh ==
    ASSUME NEW config, config.maxAgeSeconds \in Int, config.clockSkewSeconds \in Int,
           NEW at \in Nat, NEW time \in Int,
           time - at + TicksPerSecond <= config.maxAgeSeconds * TicksPerSecond + 1,
           -(time - at) <= config.clockSkewSeconds * TicksPerSecond
    PROVE  ~Stale(time - Seconds(at) * TicksPerSecond, config)
<1> DEFINE dated == Seconds(at) * TicksPerSecond
           window == config.maxAgeSeconds * TicksPerSecond
           skew == config.clockSkewSeconds * TicksPerSecond
<1>1. /\ dated \in Nat /\ dated <= at /\ at < dated + TicksPerSecond
      /\ TicksPerSecond \in Nat \ {0}
  BY SecondsRoundDown, TickAssumption
<1>2. window \in Int /\ skew \in Int BY <1>1
<1>3. time - at + TicksPerSecond <= window + 1 /\ -(time - at) <= skew OBVIOUS
<1> HIDE DEF dated, window, skew
<1>4. ~(time - dated > window) /\ ~(-(time - dated) > skew) BY <1>1, <1>2, <1>3
<1> QED BY <1>4 DEF Stale, dated, window, skew

\* What the client writes is there.
LEMMA WrittenIsPresent ==
    ASSUME NEW cap \in Capabilities, NEW query \in Documents, NEW target \in CanonicalUrls,
           NEW at \in 0..MaxTime
    PROVE  LET second == Seconds(at)
               request == SignRequest(target, cap, target, query, second)
               proof == CreateUnsignedCapabilityInvocation(cap, query, target, second)
               invocation == FinalizeCapabilityInvocation("invocation", proof)
               alone == [chain |-> <<Delegation[cap]>>, invocation |-> Absent]
               invoked == [chain |-> <<Delegation[cap]>>, invocation |-> invocation]
           IN /\ Delegation[cap] # Absent /\ request # Absent /\ request.contentDigest # Absent
              /\ request.signatureInput # Absent /\ request.signature # Absent
              /\ invocation # Absent /\ invocation # Unusable
              /\ second # Absent /\ proof.created # Absent
              /\ EncodeCapabilityInvocation(cap, Absent) # Absent
              /\ EncodeCapabilityInvocation(cap, invocation) # Absent
              /\ alone # Absent /\ invoked # Absent
<1> DEFINE second == Seconds(at)
           request == SignRequest(target, cap, target, query, second)
           proof == CreateUnsignedCapabilityInvocation(cap, query, target, second)
           invocation == FinalizeCapabilityInvocation("invocation", proof)
           digest == request.contentDigest
           input == request.signatureInput
           signature == request.signature
           dated == proof.created
           bare == EncodeCapabilityInvocation(cap, Absent)
           header == EncodeCapabilityInvocation(cap, invocation)
           alone == [chain |-> <<Delegation[cap]>>, invocation |-> Absent]
           invoked == [chain |-> <<Delegation[cap]>>, invocation |-> invocation]
           written == [delegation |-> Delegation[cap], request |-> request, digest |-> digest,
                       input |-> input, signature |-> signature, invocation |-> invocation,
                       second |-> second, created |-> dated, bareHeader |-> bare, header |-> header,
                       alone |-> alone, invoked |-> invoked]
<1>1. \A member \in DOMAIN written : written[member] # Absent /\ written[member] # Unusable
  <2>1. written = Written(cap, query, target, second) BY Zenon DEF Written
  <2> HIDE DEF written
  <2> QED BY <2>1, PresenceAssumption, Zenon
<1> HIDE DEF request, invocation, digest, input, signature, dated, bare, header, alone, invoked, second, proof
<1>2. /\ Delegation[cap] # Absent /\ request # Absent /\ digest # Absent
      /\ input # Absent /\ signature # Absent
      /\ invocation # Absent /\ invocation # Unusable
      /\ second # Absent /\ dated # Absent
      /\ bare # Absent /\ header # Absent /\ alone # Absent /\ invoked # Absent
  BY <1>1
<1> QED
  BY <1>2, Zenon DEF request, invocation, digest, input, signature, dated, bare, header, alone, invoked,
                     second, proof

\* What is known of a request that is honest, besides how it was made.
HonestFor(record, intent, at, time) ==
    LET leaf == Delegation[record.carries]
        config == Server[record.sentTo]
    IN
    /\ record.carries = intent.capability
    /\ Conforms(leaf) /\ Delegated(record.carries, config.rootCapability)
    /\ leaf.document.invocationTarget = record.sentTo
    /\ ~config.unsafeMode
    /\ VerifyChain(leaf, config, time) = "none"
    /\ intent.query \in Grants(leaf)
    /\ ~Stale(time - Seconds(at) * TicksPerSecond, config)

\* The endpoint that was signed for is where an honest request goes.
LEMMA HonestEndpoint ==
    ASSUME NEW cap \in Capabilities, NEW url \in CanonicalUrls,
           Delegation[cap].document.invocationTarget = url
    PROVE  Target(cap) = url /\ InvocationTarget[cap] = url
<1>1. InvocationTarget[cap] = url BY DelegationFacts
<1>2. Canonical[url] = url BY CapabilityAssumption DEF CanonicalUrls
<1> QED BY <1>1, <1>2 DEF Target

LEMMA HonestHttp ==
    ASSUME NEW record \in CallRecords, record.sentTo \in CanonicalUrls, NEW intent \in Intents,
           NEW body, NEW at \in 0..MaxTime, NEW time,
           mode = "httpSignature", passes,
           record.signedFor.endpoint = record.sentTo,
           HonestFor(record, intent, at, time)
    PROVE  Gate(Request(record, intent, body, at), time).ok
<1> DEFINE request == Request(record, intent, body, at)
           second == Seconds(at)
           cap == record.carries
           to == record.sentTo
           query == intent.query
           leaf == Delegation[cap]
           config == Server[to]
           http == SignRequest(to, cap, to, query, second)
           header == EncodeCapabilityInvocation(cap, Absent)
           digest == ClientContentDigest(query)
           base == ClientSignatureBase(PathOf[to], header, query, second)
<1>1. cap \in Capabilities /\ query \in Documents BY DEF CallRecords, Intents
<1>2. request.http = http /\ request.to = to BY RequestFields DEF Request
<1>3. /\ http.method = "POST" /\ http.path = PathOf[to] /\ http.capabilityInvocation = header
      /\ http.contentType = "application/json" /\ http.contentDigest = digest /\ http.body = query
      /\ http.signatureInput = [parses |-> TRUE, alg |-> "ed25519", keyid |-> SignerDid, created |-> second]
      /\ http.signature = [key |-> SignerDid, over |-> base]
  BY DEF SignRequest, Bare
<1>4. /\ leaf # Absent /\ http # Absent /\ http.contentDigest # Absent
      /\ http.signatureInput # Absent /\ http.signature # Absent
      /\ second # Absent /\ header # Absent
      /\ [chain |-> <<leaf>>, invocation |-> Absent] # Absent
  BY <1>1, WrittenIsPresent, Zenon
<1> HIDE DEF request, second, leaf, http, header, digest, base
<1>5. /\ Conforms(leaf) /\ Delegated(cap, config.rootCapability) /\ ~config.unsafeMode
      /\ VerifyChain(leaf, config, time) = "none" /\ query \in Grants(leaf)
      /\ ~Stale(time - second * TicksPerSecond, config)
  BY Zenon DEF HonestFor, leaf, second
<1>6. leaf.document.controller = SignerDid /\ leaf.document.controller \in Ed25519Dids
  BY <1>5, Zenon DEF Delegated, Conforms, leaf
<1> HIDE DEF cap, to, query, config
<1>7. base = BuildSignatureBase(http, SignerDid, second)
  BY <1>3 DEF base, digest, ClientSignatureBase, BuildSignatureBase
<1>8. DigestMatches(http.body, http.contentDigest)
  BY <1>3 DEF digest, DigestMatches, ContentDigest, ClientContentDigest
<1>9. /\ http.signatureInput.parses /\ http.signatureInput.alg = "ed25519"
      /\ http.signatureInput.keyid = SignerDid /\ http.signatureInput.created = second
  BY <1>3
<1>10. VerifyHttpSignature(http, leaf) = "none"
  <2>1. http.signature = [key |-> http.signatureInput.keyid,
                          over |-> BuildSignatureBase(http, http.signatureInput.keyid,
                                                      http.signatureInput.created)]
    BY <1>3, <1>7, <1>9
  <2>2. Absent \notin DidKeys BY PresenceAssumption
  <2> QED BY <1>4, <1>6, <1>8, <1>9, <2>1, <2>2, HttpPasses
<1>11. ~CheckHttpSignatureFreshness(http.signatureInput.created, config, time)
  BY <1>5, <1>9 DEF CheckHttpSignatureFreshness
<1>12. CarriesHttpSignature(http) BY <1>4 DEF CarriesHttpSignature
<1>13. Absent # Unusable BY PresenceAssumption
<1>14. CheckInvocation(config, DecodeInvocationHeader(EncodeCapabilityInvocation(cap, Absent), Absent),
                       query, http, time).ok
  BY <1>4, <1>5, <1>10, <1>11, <1>12, <1>13, GateAccepts, Zenon DEF leaf, header
<1> QED BY <1>2, <1>3, <1>14, Zenon DEF Gate, request, config, header

LEMMA HonestEmbedded ==
    ASSUME NEW record \in CallRecords, record.sentTo \in CanonicalUrls, NEW intent \in Intents,
           NEW at \in 0..MaxTime, NEW time,
           mode = "invokeCapability",
           record.signedFor = [capability |-> record.carries, endpoint |-> record.sentTo],
           HonestFor(record, intent, at, time)
    PROVE  Gate(Request(record, intent, intent.query, at), time).ok
<1> DEFINE request == Request(record, intent, intent.query, at)
           second == Seconds(at)
           cap == record.carries
           to == record.sentTo
           query == intent.query
           leaf == Delegation[cap]
           config == Server[to]
           proof == CreateUnsignedCapabilityInvocation(cap, query, to, second)
           invocation == FinalizeCapabilityInvocation("invocation", proof)
           http == PrepareInvokedRequest(to, cap, invocation, query)
           header == EncodeCapabilityInvocation(cap, invocation)
           seen == IF passes THEN request.http ELSE Absent
<1>1. cap \in Capabilities /\ query \in Documents BY DEF CallRecords, Intents
<1>2. request.http = http /\ request.to = to
  <2>1. record.signedFor.capability = cap /\ record.signedFor.endpoint = to OBVIOUS
  <2>2. request.to = to BY RequestFields
  <2>3. request.http =
          PrepareInvokedRequest(to, cap,
              FinalizeCapabilityInvocation("invocation",
                  CreateUnsignedCapabilityInvocation(record.signedFor.capability, query,
                                                     record.signedFor.endpoint, second)), query)
    BY DEF Request
  <2> QED BY <2>1, <2>2, <2>3, Zenon
<1>3. http.capabilityInvocation = header /\ http.body = query /\ http.signatureInput = Absent
  <2> HIDE DEF invocation
  <2> QED BY DEF PrepareInvokedRequest, Bare
<1>4. /\ leaf # Absent /\ invocation # Absent /\ invocation # Unusable
      /\ proof.created # Absent /\ header # Absent
      /\ [chain |-> <<leaf>>, invocation |-> invocation] # Absent
  BY <1>1, WrittenIsPresent, Zenon
<1>5. /\ Conforms(leaf) /\ Delegated(cap, config.rootCapability) /\ ~config.unsafeMode
      /\ VerifyChain(leaf, config, time) = "none" /\ query \in Grants(leaf)
      /\ leaf.document.invocationTarget = to
      /\ ~Stale(time - second * TicksPerSecond, config)
  BY Zenon DEF HonestFor
<1> HIDE DEF leaf, config
<1>6. leaf.document.controller = SignerDid /\ leaf.document.controller \in Ed25519Dids
  BY <1>5, Zenon DEF Delegated, Conforms, leaf
<1>7. /\ proof.type = "DataIntegrityProof" /\ proof.cryptosuite = "eddsa-jcs-2022"
      /\ proof.proofPurpose = "capabilityInvocation" /\ proof.verificationMethod = SignerDid
      /\ proof.created = second * TicksPerSecond /\ proof.capability = leaf.document.id
      /\ proof.capabilityAction = query.raw /\ proof.invocationTarget = to
  BY DEF CreateUnsignedCapabilityInvocation, leaf
<1> HIDE DEF proof
<1>8. /\ invocation.options = proof /\ invocation.document = "invocation"
      /\ invocation.signature = [key |-> SignerDid, over |-> SignedContent(proof, "invocation")]
  BY DEF FinalizeCapabilityInvocation, SignedContent, HashEddsaJcs2022
<1> HIDE DEF request, second, http, header, invocation, cap, to, query
<1>9. VerifyEddsaJcs2022(invocation, "capabilityInvocation")
  BY <1>6, <1>7, <1>8, ProofPasses
<1>10. ~EmbeddedStale(proof.created, config, time)
  BY <1>4, <1>5, <1>7, Zenon DEF EmbeddedStale
<1>11. VerifyInvocationProof(leaf, invocation, query, config, time) = "none"
  BY <1>4, <1>5, <1>6, <1>7, <1>8, <1>9, <1>10, EmbeddedPasses
<1>12. ~CarriesHttpSignature(seen) BY <1>2, <1>3, Zenon DEF CarriesHttpSignature, seen
<1> HIDE DEF seen
<1>13. CheckInvocation(config, DecodeInvocationHeader(EncodeCapabilityInvocation(cap, invocation), Absent),
                       query, seen, time).ok
  BY <1>4, <1>5, <1>11, <1>12, GateAccepts, Zenon DEF leaf, header
<1> QED BY <1>2, <1>3, <1>13, Zenon DEF Gate, request, config, header, seen

\* A request that is what the application asked for, under a capability that
\* allows it, is executed if it is delivered inside the window, by a server
\* whose resolvers pass the HTTP request to the gate: rounding, drift, the swaps
\* around it and the way of signing cannot make the gate refuse it.
THEOREM HonestIsExecutedHolds == SystemSpec => []HonestIsExecuted
<1>1. WireInv => HonestIsExecuted
  <2> SUFFICES ASSUME WireInv, answer # Absent, passes,
                      Honest(answer.request, answer.at + drift)
               PROVE  answer.ok
    BY Zenon DEF HonestIsExecuted
  <2> DEFINE request == answer.request
             time == answer.at + drift
             leaf == Delegation[request.carries]
             config == Server[request.to]
  <2>1. /\ request \in network /\ answer.at \in 0..now /\ answer.ok = Gate(request, time).ok
        /\ Inv /\ WireTypeOK /\ now \in Nat /\ now \in 0..MaxTime
    BY ClientFacts DEF WireInv, GoodAnswer, Inv, TypeOK
  <2>2. PICK record \in CallRecords, intent \in Intents, body \in Documents, at \in 0..now \cup {Absent} :
           record.sentTo \in CanonicalUrls /\ Made(request, record, intent, body, at)
    BY <2>1 DEF WireInv, GoodRequest
  <2>3. /\ request = Request(record, intent, body, at)
        /\ request.to = record.sentTo /\ request.carries = record.carries
        /\ request.intent = intent /\ request.at = at
        /\ record.carries \in Capabilities
    BY <2>2, RequestFields DEF Made, CallRecords
  <2>4. /\ mode # "unsafe"
        /\ intent = [query |-> request.http.body, capability |-> record.carries]
        /\ Conforms(leaf) /\ Delegated(record.carries, config.rootCapability)
        /\ leaf.document.caveats = 0
        /\ leaf.document.invocationTarget = record.sentTo
        /\ record.sentTo = config.expectedInvocationTarget
        /\ request.http.body \in Grants(leaf)
        /\ time <= Expires[record.carries]
        /\ time - at + TicksPerSecond <= config.maxAgeSeconds * TicksPerSecond + 1
        /\ -(time - at) <= config.clockSkewSeconds * TicksPerSecond
    BY <2>3, Zenon DEF Honest
  <2>5. /\ mode \in SignedModes /\ at \in 0..now /\ at \in Nat /\ at \in 0..MaxTime
        /\ record.signedFor = [capability |-> intent.capability, endpoint |-> Target(intent.capability)]
    BY <2>1, <2>2, <2>4, OptionAssumption DEF Made
  <2> HIDE DEF request
  <2>6. intent.capability = record.carries /\ intent.query = request.http.body BY <2>4
  <2>7. record.signedFor = [capability |-> record.carries, endpoint |-> record.sentTo]
    BY <2>2, <2>3, <2>4, <2>5, <2>6, HonestEndpoint
  <2>8. time \in Int BY <2>1, ClockAssumption DEF WireTypeOK
  <2>9. /\ ~config.unsafeMode
        /\ config.maxAgeSeconds \in Int /\ config.clockSkewSeconds \in Int
    BY <2>2, <2>3, ServerAssumption
  <2> HIDE DEF time, leaf, config
  <2>10. ~Stale(time - Seconds(at) * TicksPerSecond, config)
    BY <2>4, <2>5, <2>8, <2>9, HonestIsFresh
  <2>11. VerifyChain(leaf, config, time) = "none"
    BY <2>3, <2>4, <2>8, HonestChain DEF leaf
  <2>12. HonestFor(record, intent, at, time)
    BY <2>3, <2>4, <2>6, <2>9, <2>10, <2>11, Zenon DEF HonestFor, leaf, config
  <2>13. CASE mode = "httpSignature"
    <3>1. record.signedFor.endpoint = record.sentTo BY <2>7
    <3>2. Gate(request, time).ok BY <2>2, <2>3, <2>5, <2>12, <2>13, <3>1, HonestHttp
    <3> QED BY <2>1, <3>2
  <2>14. CASE mode = "invokeCapability"
    <3>1. request.http.body = body
      <4>1. request.http = PrepareInvokedRequest(record.sentTo, record.carries,
                FinalizeCapabilityInvocation("invocation",
                    CreateUnsignedCapabilityInvocation(record.signedFor.capability, intent.query,
                                                       record.signedFor.endpoint, Seconds(at))), body)
        BY <2>3, <2>14 DEF Request
      <4> QED BY <4>1 DEF PrepareInvokedRequest, Bare
    <3>2. request = Request(record, intent, intent.query, at) BY <2>3, <2>6, <3>1
    <3>3. Gate(request, time).ok BY <2>2, <2>5, <2>7, <2>12, <2>14, <3>2, HonestEmbedded
    <3> QED BY <2>1, <3>3
  <2> QED BY <2>5, <2>13, <2>14 DEF SignedModes
<1> QED BY <1>1, WireHolds, PTL
=============================================================================
