SPECIFICATION Spec
CONSTANTS
    old = old
    new = new
    bulky = bulky
    rogue = rogue
    broken = broken
    a = a
    b = b
    bSpelled = bSpelled
    c = c
    Calls = {q1}
    Capabilities = {old, new, bulky, rogue, broken}
    WellFormed = {old, new, bulky, rogue}
    Urls = {a, b, bSpelled, c}
    InvocationTarget <- MCInvocationTarget
    Canonical <- MCCanonical
    Expires <- MCExpires
    CapabilityBytes <- MCCapabilityBytes
    InvocationBytes = 1
    Modes = {"invokeCapability"}
    Endpoint = bSpelled
    ExpectedTargets = {NoUrl, bSpelled}
    AllowedUrls = {a, b}
    CheckExpiry = TRUE
    TimeoutMs = 1
    MaxHeaderBytes = 2
    NoUrl = NoUrl
    NoProof = NoProof
    MaxTime = 1
SYMMETRY Symmetry
INVARIANTS
    ProofVouchesForRequest
