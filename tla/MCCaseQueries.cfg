SPECIFICATION Spec
CONSTANTS
    PackageIds = {"p", "x"}
    Identifiers = {"i1", "i2", "i3", "i4", "a1", "a2", "a3", "b1", "gone"}
    Types = {"Skill", "Task", "isChildOf", "isRelatedTo", "exactMatchOf"}
    Versions <- MCVersions
    Frameworks <- MCFrameworks
    DefaultPackage = Absent
    MaxLimit = 2
    DefaultLimit = 1
    Queries <- MCQueries
    Absent = Absent
INVARIANTS
    PagingIsExact
    CountsAgree
PROPERTIES
    EndpointItems
