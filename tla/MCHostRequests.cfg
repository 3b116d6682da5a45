SPECIFICATION Spec
CONSTANTS
    DidKeys = {"did:key:root", "did:key:holder"}
    Ed25519Dids = {"did:key:root", "did:key:holder"}
    TicksPerSecond = 1
    Absent = Absent
    Unusable = Unusable
    Orders <- MCOrders
    ResolversOf <- MCResolversOf
    Schema <- MCSchema
    Documents <- MCDocuments
    ModernValues <- MCModernValues
    LegacyValues <- MCLegacyValues
    Configs <- MCConfigs
    Policies = {"authorized", "public", "off"}
    MaxTime = 1
INVARIANTS
    TypeOK
    DisclosedWasGranted
    IntrospectionWithinPolicy
    CollisionIsOrderFree
    NarrowerIsServed
    UsableHeaderIsUsed
CHECK_DEADLOCK FALSE
