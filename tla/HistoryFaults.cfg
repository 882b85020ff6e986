SPECIFICATION FairSpec
CONSTANTS
    ann = ann
    bob = bob
    s1 = s1
    s2 = s2
    cA = cA
    cB = cB
    cC = cC
    Entities = {ann, bob}
    Sources = {s1, s2}
    Contents = {cA, cB}
    Versions = {1}
    LexRank <- SemverRank
    Digest <- MCDigest
    Requests <- TwoEntities
    Overlap = "any"
    Faults = {"endpoint", "conversion", "result", "database", "restart"}
    MaxHarvestings = 2
    MaxResults = 1
    MaxRestarts = 1
INVARIANTS
    TypeOK
    CompletedReportsItsVersions
    FalseDeletionsHaveAnError
    VerdictIsExplained
PROPERTIES
    LaunchedRunsEnd
CHECK_DEADLOCK FALSE
