------------------------------- MODULE EndToEnd -------------------------------
(***************************************************************************)
(* One client, the network, and a resource server on each endpoint: what   *)
(* the application asks the client to sign, what the client sends, and     *)
(* what the gates make of it, under a signer that takes its time,          *)
(* setCapability() in between, a network that delays, repeats and loses    *)
(* requests, and clocks that differ.                                       *)
(*                                                                         *)
(* The client is DidGraphQLClient, the gate InvocationGate; a capability   *)
(* of the one stands for the signed document Delegation[capability] of the *)
(* other.                                                                  *)
(***************************************************************************)
EXTENDS DidGraphQLClient, InvocationGate

CONSTANTS
    Documents,      \* GraphQL documents
    Delegation,     \* Delegation[capability]: the secured document
    SignerDid,      \* the DID whose key the application signs with
    PathOf,         \* PathOf[url]
    Server,         \* Server[url]: the configuration of the gate at that URL
    HostsPassRequest, \* whether hosts hand the HTTP request to checkInvocation
    Drifts          \* server clock minus client clock

ASSUME DelegationAssumption ==
    \A cap \in Capabilities :
        /\ Delegation[cap].document.expires = [kind |-> "date", at |-> Expires[cap]]
        /\ Delegation[cap].document.invocationTarget = InvocationTarget[cap]
        /\ \A other \in Capabilities : Delegation[other].document.id = Delegation[cap].document.id => other = cap

ASSUME ClockAssumption == Drifts \subseteq Int

\* Every gate verifies, for the endpoint it stands at, in whatever spelling.
ASSUME ServerAssumption ==
    \A url \in CanonicalUrls :
        /\ ~Server[url].unsafeMode
        /\ Server[url].expectedInvocationTarget \in Urls
        /\ Canonical[Server[url].expectedInvocationTarget] = url
        /\ Server[url].maxAgeSeconds \in Int /\ Server[url].clockSkewSeconds \in Int

AllDocuments == Documents \cup UNION {Grants(Delegation[cap]) : cap \in Capabilities}

\* Documents are told apart by their text, white space included; those equal up
\* to white space are parsed alike.
ASSUME DocumentAssumption ==
    /\ \A doc, other \in Documents : doc.raw = other.raw => doc = other
    /\ \A doc \in AllDocuments : Parsed(doc, LabelsOf(AllDocuments))
    /\ SameTextSameTree(AllDocuments)

VARIABLES
    asked,          \* asked[call]: the query and the capability it was asked with
    text,           \* text[call]: the caller's request.query of this moment
    created,        \* created[call]: when the signer read the clock, or Absent
    network,        \* requests that were sent; they stay, to be delivered again
    answer,         \* the last delivery: [request, at, ok], or Absent
    passes,         \* whether the host passes the HTTP request on
    drift

wire == <<asked, text, created, network, answer, passes, drift>>

systemVars == <<vars, wire>>

-----------------------------------------------------------------------------
(***************************************************************************)
(* What the client puts on the wire.                                       *)
(***************************************************************************)

\* BUG: rounded to the next second.
BugSeconds(time) == (time + TicksPerSecond - 1) \div TicksPerSecond

\* Both ways of signing put whole seconds, and round down.
Seconds(time) == time \div TicksPerSecond

HashEddsaJcs2022(document, proofOptions) == <<proofOptions, document>>

\* The invokeCapability callback, as the README has it.
CreateUnsignedCapabilityInvocation(cap, query, target, second) ==
    [type |-> "DataIntegrityProof", cryptosuite |-> "eddsa-jcs-2022",
     proofPurpose |-> "capabilityInvocation", verificationMethod |-> SignerDid,
     created |-> second * TicksPerSecond, capability |-> Delegation[cap].document.id,
     capabilityAction |-> query.raw, invocationTarget |-> target]

FinalizeCapabilityInvocation(document, proofOptions) ==
    [document |-> document, options |-> proofOptions,
     signature |-> [key |-> SignerDid, over |-> HashEddsaJcs2022(document, proofOptions)]]

EncodeCapabilityInvocation(cap, invocation) ==
    [encoding |-> "zcap", capability |-> Delegation[cap], invocation |-> invocation, chain |-> <<>>]

ClientContentDigest(body) == <<"sha-256", body>>

ClientSignatureBase(path, header, body, second) ==
    <<"POST", path, header, ClientContentDigest(body), "application/json", SignerDid, second>>

\* Neither proof: the dev/test shape, and what the other two start from.
Bare(to, cap, body) ==
    [method |-> "POST", path |-> PathOf[to], capabilityInvocation |-> EncodeCapabilityInvocation(cap, Absent),
     contentType |-> "application/json", contentDigest |-> Absent, body |-> body,
     signatureInput |-> Absent, signature |-> Absent]

\* signRequest, for the endpoint and the capability held at the call; the body
\* was serialised before the signer was asked.
SignRequest(to, cap, target, body, second) ==
    [Bare(to, cap, body) EXCEPT
        !.contentDigest = ClientContentDigest(body),
        !.signatureInput = [parses |-> TRUE, alg |-> "ed25519", keyid |-> SignerDid, created |-> second],
        !.signature = [key |-> SignerDid,
                       over |-> ClientSignatureBase(PathOf[target], EncodeCapabilityInvocation(cap, Absent),
                                                    body, second)]]

\* prepareInvokedRequest: the capability and the body of the moment the signer
\* answers, with the invocation that was signed.
PrepareInvokedRequest(to, cap, invocation, body) ==
    [Bare(to, cap, body) EXCEPT !.capabilityInvocation = EncodeCapabilityInvocation(cap, invocation)]

\* What a call whose fetch has just started sends, its signature dated `at`.
\* `intent` is not on the wire: it is what the application asked for.
Request(record, intent, body, at) ==
    [to |-> record.sentTo, carries |-> record.carries, intent |-> intent, at |-> at,
     http |->
        CASE mode = "unsafe" -> Bare(record.sentTo, record.carries, intent.query)
          [] mode = "httpSignature" ->
               SignRequest(record.sentTo, record.carries, record.signedFor.endpoint, intent.query, Seconds(at))
          [] mode = "invokeCapability" ->
               PrepareInvokedRequest(record.sentTo, record.carries,
                   FinalizeCapabilityInvocation("invocation",
                       CreateUnsignedCapabilityInvocation(record.signedFor.capability, intent.query,
                                                          record.signedFor.endpoint, Seconds(at))),
                   body)]

\* Absent and Unusable are no values: nothing that the client writes is either.
Written(cap, query, target, second) ==
    LET request == SignRequest(target, cap, target, query, second)
        proof == CreateUnsignedCapabilityInvocation(cap, query, target, second)
        invocation == FinalizeCapabilityInvocation("invocation", proof)
    IN [delegation |-> Delegation[cap], request |-> request, digest |-> request.contentDigest,
        input |-> request.signatureInput, signature |-> request.signature,
        invocation |-> invocation, second |-> second, created |-> proof.created,
        bareHeader |-> EncodeCapabilityInvocation(cap, Absent),
        header |-> EncodeCapabilityInvocation(cap, invocation),
        alone |-> [chain |-> <<Delegation[cap]>>, invocation |-> Absent],
        invoked |-> [chain |-> <<Delegation[cap]>>, invocation |-> invocation]]

ASSUME PresenceAssumption ==
    /\ Absent # Unusable /\ Absent \notin Urls \cup DidKeys
    /\ \A cap \in Capabilities, query \in Documents, target \in CanonicalUrls, time \in 0..MaxTime :
          LET written == Written(cap, query, target, Seconds(time)) IN
          \A member \in DOMAIN written : written[member] # Absent /\ written[member] # Unusable

-----------------------------------------------------------------------------
SystemInit ==
    /\ Init
    /\ asked = [q \in Calls |-> Absent]
    /\ text = [q \in Calls |-> Absent]
    /\ created = [q \in Calls |-> Absent]
    /\ network = {}
    /\ answer = Absent
    /\ passes \in HostsPassRequest
    /\ drift \in Drifts

\* The request of a call goes out in the step that starts its fetch.
Posts(q) ==
    network' = network \cup
        (IF call'[q].pc = "sent" /\ call[q].pc # "sent"
         THEN {Request(call'[q], asked'[q], text'[q], created'[q])} ELSE {})

\* The application calls query().
Ask(q) ==
    /\ Query(q) /\ ~call'[q].hasSignal
    /\ \E query \in Documents :
          /\ asked' = [asked EXCEPT ![q] = [query |-> query, capability |-> capability]]
          /\ text' = [text EXCEPT ![q] = query]
    /\ created' = [created EXCEPT ![q] = Absent]
    /\ Posts(q)
    /\ UNCHANGED <<answer, passes, drift>>

\* It goes on to use its request object for something else.
Edit(q) ==
    /\ call[q].pc = "signing"
    /\ \E query \in Documents : text' = [text EXCEPT ![q] = query]
    /\ UNCHANGED <<vars, asked, created, network, answer, passes, drift>>

\* The signer reads the clock: createUnsignedCapabilityInvocation, or signRequest
\* once the keyid is known.
ReadClock(q) ==
    /\ call[q].pc = "signing" /\ created[q] = Absent
    /\ created' = [created EXCEPT ![q] = now]
    /\ UNCHANGED <<vars, asked, text, network, answer, passes, drift>>

ReceiveSignature(q) ==
    /\ created[q] # Absent
    /\ SignerAnswers(q)
    /\ UNCHANGED <<asked, text, created, answer, passes, drift>>
    /\ Posts(q)

\* What the client does besides.  Responses and cancellation, on which no request
\* depends, are left to DidGraphQLClient: a call sends at most one request.
ClientOnly ==
    /\ \/ SetCapability \/ Tick
       \/ \E q \in Calls : SignerFails(q)
    /\ UNCHANGED wire

\* A resolver of the server asks the gate.
Gate(request, time) ==
    CheckInvocation(Server[request.to], DecodeInvocationHeader(request.http.capabilityInvocation, Absent),
                    request.http.body,
                    IF passes THEN request.http ELSE Absent, time)

Deliver ==
    /\ \E request \in network :
          answer' = [request |-> request, at |-> now, ok |-> Gate(request, now + drift).ok]
    /\ UNCHANGED <<vars, asked, text, created, network, passes, drift>>

SystemNext ==
    \/ \E q \in Calls : Ask(q) \/ Edit(q) \/ ReadClock(q) \/ ReceiveSignature(q)
    \/ ClientOnly
    \/ Deliver

SystemSpec == SystemInit /\ [][SystemNext]_systemVars

-----------------------------------------------------------------------------
(***************************************************************************)
(* What client and server promise together.                                *)
(***************************************************************************)
Intents == [query : Documents, capability : Capabilities]

\* The created of a request, whichever proof it carries.
Dated(request) ==
    CASE mode = "httpSignature" -> request.http.signatureInput.created * TicksPerSecond
      [] mode = "invokeCapability" -> request.http.capabilityInvocation.invocation.options.created
      [] OTHER -> 0

\* Every variable has its type; no proof is dated ahead of the client's clock.
SystemTypeOK ==
    /\ asked \in [Calls -> Intents \cup {Absent}]
    /\ text \in [Calls -> Documents \cup {Absent}]
    /\ created \in [Calls -> 0..now \cup {Absent}]
    /\ passes \in HostsPassRequest /\ drift \in Drifts
    /\ \A request \in network :
          /\ request.to \in CanonicalUrls /\ request.carries \in Capabilities
          /\ request.intent \in Intents
          /\ Dated(request) \in 0..now
    /\ answer # Absent => answer.request \in network /\ answer.at \in 0..now

Executed == IF answer = Absent THEN FALSE ELSE answer.ok

\* Whatever setCapability() and the caller do while a request is being signed,
\* what is executed is the query that the application asked for, with the
\* capability it was asked with, and at the endpoint of that capability.
ExecutedAsIntended ==
    Executed =>
        LET request == answer.request IN
        /\ request.carries = request.intent.capability
        /\ request.http.body = request.intent.query
        /\ request.to = Target(request.carries)

\* However late or often the network delivers a request, and however the clocks
\* differ: it is executed at most maxAgeSeconds after the signer read the
\* client's clock, not more than the skew and the second rounded off before,
\* and not after the capability's deadline.
ExecutedInTime ==
    Executed =>
        LET request == answer.request
            config == Server[request.to]
            age == answer.at + drift - request.at
        IN
        /\ config.maxAgeSeconds > 0 =>
              /\ age <= config.maxAgeSeconds * TicksPerSecond
              /\ -age < (config.clockSkewSeconds + 1) * TicksPerSecond
        /\ answer.at + drift <= Expires[request.carries]

\* A capability is a delegation by the trusted root for this client, signed as
\* one by the root's controller.
Delegated(cap, root) ==
    LET secured == Delegation[cap] IN
    /\ secured.document.controller = SignerDid
    /\ secured.document.parentCapability = root.id
    /\ secured.options.proofPurpose = "capabilityDelegation"
    /\ secured.signature = [key |-> root.controller,
                            over |-> HashEddsaJcs2022(secured.document, secured.options)]

\* Only what the root's controller delegated is executed: neither a capability
\* that the client's own key signed nor one signed for another purpose, and
\* no operation of a document that goes beyond what it allows.
ExecutedWasDelegated ==
    Executed =>
        LET request == answer.request IN
        /\ Delegated(request.carries, Server[request.to].rootCapability)
        /\ \A op \in Operations(request.http.body) :
              Covered(Grants(Delegation[request.carries]), request.http.body, op)

\* A capability whose proof has the members that issuers write, by a key that
\* can be resolved, for a client whose key can be.
Conforms(leaf) ==
    LET proof == leaf.options IN
    /\ leaf.document.id # Absent /\ leaf.document.controller \in Ed25519Dids
    /\ proof.type = "DataIntegrityProof" /\ proof.cryptosuite = "eddsa-jcs-2022"
    /\ proof.verificationMethod = leaf.signature.key /\ leaf.signature.key \in Ed25519Dids
    /\ proof.capabilityChain \in {Absent, <<leaf.document.parentCapability>>}

\* A request that is what the application asked for, under a capability that
\* spells its target as the server does and allows exactly this document,
\* delivered inside the window.
Honest(request, time) ==
    LET config == Server[request.to]
        leaf == Delegation[request.carries]
        age == time - request.at
    IN
    /\ mode # "unsafe"
    /\ request.intent = [query |-> request.http.body, capability |-> request.carries]
    /\ Conforms(leaf) /\ Delegated(request.carries, config.rootCapability)
    /\ leaf.document.caveats = 0
    /\ leaf.document.invocationTarget = request.to
    /\ request.to = config.expectedInvocationTarget
    /\ request.http.body \in Grants(leaf)
    /\ time <= Expires[request.carries]
    /\ age + TicksPerSecond <= config.maxAgeSeconds * TicksPerSecond + 1
    /\ -age <= config.clockSkewSeconds * TicksPerSecond

\* Such a request is executed, by a server whose resolvers pass the HTTP request
\* to the gate.
HonestIsExecuted ==
    answer # Absent =>
        (passes /\ Honest(answer.request, answer.at + drift) => answer.ok)

\* client/README.md: "Servers accept both" ways of signing; hence also those
\* whose resolvers call requireAuthorizedQuery.
ServersAcceptBoth ==
    answer # Absent => (Honest(answer.request, answer.at + drift) => answer.ok)
=============================================================================
