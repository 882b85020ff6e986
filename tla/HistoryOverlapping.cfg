SPECIFICATION Spec
CONSTANTS
    ann = ann
    bob = bob
    s1 = s1
    s2 = s2
    cA = cA
    cB = cB
    cC = cC
    Entities = {ann, bob}
    Sources = {s1, s2}
    Contents = {cA, cB}
    Versions = {1, 2}
    LexRank <- SemverRank
    Digest <- MCDigest
    Requests <- TwoEntitiesTwoTypes
    Overlap = "any"
    Faults = {}
    MaxHarvestings = 2
    MaxResults = 2
    MaxRestarts = 0
SYMMETRY Symmetry
INVARIANTS
    VersionsContiguous
    CleanRunReportsExactly
CHECK_DEADLOCK FALSE
