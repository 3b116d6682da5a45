---------------------------- MODULE InvocationGate ----------------------------
(***************************************************************************)
(* The gate of server/src/zcap.ts and localVerify.ts: whether a request    *)
(* may run its query, given the capability and the proof it presents, the  *)
(* trusted root, and the time.                                             *)
(*                                                                         *)
(* Hashes and Ed25519 are perfect: a signature is [key, over], the key     *)
(* that made it and what it was made over.  A secured document is          *)
(* [document, options, signature]: its own members, its proof without the  *)
(* value, and the value.  A verification method is named by its DID.       *)
(* Times are ticks; the options of the gate, and an HTTP signature's       *)
(* `created`, are whole seconds.                                           *)
(***************************************************************************)
EXTENDS AllowedAction, Integers, FiniteSets

CONSTANTS
    DidKeys,            \* DIDs of the method did:key
    Ed25519Dids,        \* those that hold an Ed25519 key
    TicksPerSecond,
    Absent,             \* undefined: a missing member, header or payload
    Unusable            \* a parameter that is there and does not decode

ASSUME KeyAssumption == Ed25519Dids \subseteq DidKeys
ASSUME TickAssumption == TicksPerSecond \in Nat \ {0}

\* The problem of the first row that fails, in the order of the code's checks.
FirstProblem(checks) ==
    LET failing == {i \in DOMAIN checks : checks[i][1]} IN
    IF failing = {} THEN "none"
    ELSE checks[CHOOSE i \in failing : \A j \in failing : i <= j][2]

-----------------------------------------------------------------------------
(***************************************************************************)
(* Request headers.  A value is Absent, or [encoding, capability,          *)
(* invocation, chain] with the encoding "zcap", "legacy" or "other".       *)
(***************************************************************************)

\* null unless the capability decodes, and the invocation too if there is one.
ParseCapabilityInvocation(value) ==
    IF value.encoding = "zcap" /\ value.capability # Absent /\ value.invocation # Unusable
    THEN [chain |-> <<value.capability>>, invocation |-> value.invocation]
    ELSE Absent

DecodeLegacyInvocationHeader(value) ==
    IF value.encoding = "legacy"
    THEN [chain |-> value.chain, invocation |-> value.invocation]
    ELSE Absent

\* BUG: an undecodable new header hides the legacy one.
BugDecodeInvocationHeader(modern, legacy) ==
    IF modern # Absent THEN ParseCapabilityInvocation(modern)
    ELSE IF legacy # Absent THEN DecodeLegacyInvocationHeader(legacy)
    ELSE Absent

DecodeInvocationHeader(modern, legacy) ==
    IF modern # Absent /\ ParseCapabilityInvocation(modern) # Absent
    THEN ParseCapabilityInvocation(modern)
    ELSE IF modern # Absent /\ legacy = Absent THEN DecodeLegacyInvocationHeader(modern)
    ELSE IF legacy # Absent THEN DecodeLegacyInvocationHeader(legacy)
    ELSE Absent

Leaf(payload) ==
    IF payload = Absent THEN Absent
    ELSE IF payload.chain = <<>> THEN Absent ELSE Head(payload.chain)

-----------------------------------------------------------------------------
(***************************************************************************)
(* Data Integrity proofs.                                                  *)
(***************************************************************************)
SignedContent(options, document) == <<options, document>>

\* BUG: whichever purpose a proof was made for.
BugVerifyEddsaJcs2022(secured, purpose) ==
    LET options == secured.options IN
    /\ options.type = "DataIntegrityProof" /\ options.cryptosuite = "eddsa-jcs-2022"
    /\ options.verificationMethod \in Ed25519Dids
    /\ secured.signature = [key |-> options.verificationMethod,
                            over |-> SignedContent(options, secured.document)]

VerifyEddsaJcs2022(secured, purpose) ==
    LET options == secured.options IN
    /\ options.type = "DataIntegrityProof" /\ options.cryptosuite = "eddsa-jcs-2022"
    /\ options.proofPurpose = purpose
    /\ options.verificationMethod \in Ed25519Dids
    /\ secured.signature = [key |-> options.verificationMethod,
                            over |-> SignedContent(options, secured.document)]

-----------------------------------------------------------------------------
(***************************************************************************)
(* The capability: `expires` is [kind, at], the kind "date", "missing" or  *)
(* "unparseable"; `caveats` counts the caveats, none of which is evaluated.*)
(***************************************************************************)
Required(document, fields) == \A field \in fields : document[field] # Absent

Expired(expires, now) == now > expires.at

\* structuralProblem: what the verified path asks of a capability's shape.
StructuralProblem(leaf) ==
    ~Required(leaf.document, {"id", "controller", "invocationTarget"})

\* A chain that is there has one entry, the root.
CapabilityChainMismatch(leaf, root) ==
    leaf.options.capabilityChain # Absent /\ leaf.options.capabilityChain # <<root.id>>

\* A delegation is signed by the parent's controller.
SignerOfDelegation(leaf, root) == root.controller

VerifyChain(leaf, config, now) ==
    LET cap == leaf.document
        root == config.rootCapability
        signer == leaf.options.verificationMethod
    IN FirstProblem(<<
        <<StructuralProblem(leaf), "MALFORMED_CAPABILITY">>,
        <<root.controller \notin DidKeys, "UNSUPPORTED_CONTROLLER">>,
        <<cap.controller \notin DidKeys, "UNSUPPORTED_CONTROLLER">>,
        <<cap.invocationTarget # config.expectedInvocationTarget, "INVOCATION_TARGET_MISMATCH">>,
        <<cap.parentCapability # root.id, "PARENT_CAPABILITY_MISMATCH">>,
        <<cap.caveats > 0 /\ ~config.allowUnsupportedCaveats, "CAVEAT_UNSUPPORTED">>,
        <<CapabilityChainMismatch(leaf, root), "CAPABILITY_CHAIN_MISMATCH">>,
        <<cap.expires.kind # "date", "MALFORMED_CAPABILITY">>,
        <<Expired(cap.expires, now), "EXPIRED">>,
        <<signer = Absent, "MALFORMED_CAPABILITY">>,
        <<signer \notin DidKeys, "UNSUPPORTED_CONTROLLER">>,
        <<leaf.options.cryptosuite # "eddsa-jcs-2022", "UNSUPPORTED_CRYPTOSUITE">>,
        <<signer # SignerOfDelegation(leaf, root), "PROOF_INVALID">>,
        <<~VerifyEddsaJcs2022(leaf, "capabilityDelegation"), "PROOF_INVALID">> >>)

\* unsafeMode: shape, expiry, and the fixed target if one is configured.
StructuralCheckAuthOnly(leaf, config, now) ==
    LET cap == leaf.document IN FirstProblem(<<
        <<~Required(cap, {"id", "controller", "invocationTarget", "allowedAction"}), "structure">>,
        <<leaf.options.verificationMethod = Absent, "structure">>,
        <<cap.expires.kind # "date", "expires">>,
        <<Expired(cap.expires, now), "expired">>,
        <<config.trustedTarget # Absent /\ cap.invocationTarget # config.trustedTarget, "target">> >>)

\* checkAuthOnly: the capability alone, no invocation.
CheckAuthOnly(config, payload, now) ==
    LET leaf == Leaf(payload) IN
    IF leaf = Absent THEN "missing capability"
    ELSE IF config.unsafeMode THEN StructuralCheckAuthOnly(leaf, config, now)
    ELSE VerifyChain(leaf, config, now)

-----------------------------------------------------------------------------
(***************************************************************************)
(* Freshness.  Both proofs are held to one window; a maximal age of zero   *)
(* or less turns it off.                                                   *)
(***************************************************************************)

\* BUG: a created in the future counts as fresh, however far.
BugStale(age, config) == config.maxAgeSeconds > 0 /\ age > config.maxAgeSeconds * TicksPerSecond

Stale(age, config) ==
    /\ config.maxAgeSeconds > 0
    /\ \/ age > config.maxAgeSeconds * TicksPerSecond
       \/ -age > config.clockSkewSeconds * TicksPerSecond

\* Both paths refuse a missing created; the HTTP path even with the window off.
EmbeddedStale(created, config, now) ==
    /\ config.maxAgeSeconds > 0
    /\ IF created = Absent THEN TRUE ELSE Stale(now - created, config)

\* BUG: seconds taken for milliseconds.
BugCheckHttpSignatureFreshness(created, config, now) == Stale(now - created, config)

CheckHttpSignatureFreshness(created, config, now) == Stale(now - created * TicksPerSecond, config)

-----------------------------------------------------------------------------
(***************************************************************************)
(* The embedded invocation.                                                *)
(***************************************************************************)

\* BUG: any query of the capability may ride on a signed invocation.
BugSignsQuery(options, query) == options.capabilityAction # Absent

\* The text as it was sent, white space included.
SignsQuery(options, query) == options.capabilityAction = query.raw

VerifyInvocationProof(leaf, invocation, query, config, now) ==
    IF invocation = Absent THEN "INVOCATION_MISSING"
    ELSE LET options == invocation.options
             cap == leaf.document
         IN FirstProblem(<<
        <<options.proofPurpose # "capabilityInvocation", "MALFORMED_CAPABILITY">>,
        <<options.verificationMethod # cap.controller, "PROOF_INVALID">>,
        <<options.capability # cap.id, "MALFORMED_CAPABILITY">>,
        <<options.invocationTarget # cap.invocationTarget, "INVOCATION_TARGET_MISMATCH">>,
        <<~SignsQuery(options, query), "MALFORMED_CAPABILITY">>,
        <<EmbeddedStale(options.created, config, now), "INVOCATION_STALE">>,
        <<~VerifyEddsaJcs2022(invocation, "capabilityInvocation"), "PROOF_INVALID">> >>)

-----------------------------------------------------------------------------
(***************************************************************************)
(* RFC 9421.  A request is [method, path, capabilityInvocation,            *)
(* contentType, contentDigest, body, signatureInput, signature], its       *)
(* signature input Absent or [parses, alg, keyid, created].                *)
(***************************************************************************)

BuildSignatureBase(request, keyid, created) ==
    <<request.method, request.path, request.capabilityInvocation, request.contentDigest,
      request.contentType, keyid, created>>

ContentDigest(body) == <<"sha-256", body>>

DigestMatches(body, digest) == digest = ContentDigest(body)

\* A Signature header that is malformed is one that no key made.
VerifyHttpSignature(request, leaf) ==
    LET input == request.signatureInput IN
    IF request.signature = Absent THEN "no signature"
    ELSE FirstProblem(<<
        <<~input.parses, "Signature-Input is malformed">>,
        <<input.alg \notin {Absent, "ed25519"}, "unsupported alg">>,
        <<input.keyid = Absent, "missing keyid">>,
        <<input.created = Absent, "missing created">>,
        <<input.keyid \notin DidKeys, "keyid is not a did:key">>,
        <<input.keyid # leaf.document.controller, "keyid of another controller">>,
        <<request.contentDigest = Absent, "missing Content-Digest">>,
        <<~DigestMatches(request.body, request.contentDigest), "Content-Digest does not match">>,
        <<input.keyid \notin Ed25519Dids, "no Ed25519 key">>,
        <<request.signature # [key |-> input.keyid,
                               over |-> BuildSignatureBase(request, input.keyid, input.created)],
          "failed verification">> >>)

-----------------------------------------------------------------------------
(***************************************************************************)
(* checkInvocation.  `request` is Absent when the host does not pass it,   *)
(* as requireAuthorizedQuery does not.                                     *)
(***************************************************************************)
Rejected(code, problem) == [ok |-> FALSE, code |-> code, problem |-> problem]

Accepted == [ok |-> TRUE, code |-> "none", problem |-> "none"]

CarriesHttpSignature(request) ==
    IF request = Absent THEN FALSE ELSE request.signatureInput # Absent

\* A request with an HTTP signature stands or falls with it.
CheckProof(config, payload, query, request, now) ==
    LET leaf == Leaf(payload)
        http == VerifyHttpSignature(request, leaf)
        embedded == VerifyInvocationProof(leaf, payload.invocation, query, config, now)
    IN IF ~CarriesHttpSignature(request)
       THEN IF embedded = "none" THEN Accepted ELSE Rejected("INVOCATION_INVALID", embedded)
       ELSE IF http # "none" THEN Rejected("INVOCATION_INVALID", http)
       ELSE IF CheckHttpSignatureFreshness(request.signatureInput.created, config, now)
       THEN Rejected("INVOCATION_INVALID", "stale")
       ELSE Accepted

\* A capability without allowedAction grants nothing.
Grants(leaf) == IF leaf.document.allowedAction = Absent THEN {} ELSE leaf.document.allowedAction

CheckInvocation(config, payload, query, request, now) ==
    LET leaf == Leaf(payload)
        chain == CheckAuthOnly(config, payload, now)
    IN IF chain # "none" THEN Rejected("CAPABILITY_INVALID", chain)
       ELSE IF ~MatchesAllowedAction(Grants(leaf), query)
       THEN Rejected("QUERY_NOT_ALLOWED", "ACTION_NOT_ALLOWED")
       ELSE IF config.unsafeMode THEN Accepted
       ELSE CheckProof(config, payload, query, request, now)
=============================================================================
