SPECIFICATION SystemSpec
CONSTANTS
    old = old
    new = new
    spelled = spelled
    selfMade = selfMade
    assertion = assertion
    a = a
    b = b
    bSpelled = bSpelled
    Calls = {q1}
    Capabilities = {old, new, spelled, selfMade, assertion}
    WellFormed = {old, new, spelled, selfMade, assertion}
    Urls = {a, b, bSpelled}
    InvocationTarget <- MCInvocationTarget
    Canonical <- MCCanonical
    Expires <- MCExpires
    CapabilityBytes <- MCBytes
    InvocationBytes = 1
    Modes = {"httpSignature"}
    Endpoint = bSpelled
    ExpectedTargets = {NoUrl}
    AllowedUrls = {a, b}
    CheckExpiry = FALSE
    TimeoutMs = 0
    MaxHeaderBytes = 0
    NoUrl = NoUrl
    NoProof = NoProof
    MaxTime = 3
    DidKeys = {"did:key:owner", "did:key:client"}
    Ed25519Dids = {"did:key:owner", "did:key:client"}
    TicksPerSecond = 2
    Absent = Absent
    Unusable = Unusable
    Documents <- MCDocuments
    Delegation <- MCDelegation
    SignerDid = "did:key:client"
    PathOf <- MCPathOf
    Server <- MCServer
    HostsPassRequest = {FALSE}
    Drifts <- MCDrifts
INVARIANTS
    ServersAcceptBoth
CHECK_DEADLOCK FALSE
