SPECIFICATION Spec
CONSTANTS
    ann = ann
    bob = bob
    s1 = s1
    s2 = s2
    cA = cA
    cB = cB
    cC = cC
    Entities = {ann, bob}
    Sources = {s1}
    Contents = {cA, cB}
    Versions = {1}
    LexRank <- SemverRank
    Digest <- SameDigest
    Requests <- TwoEntities
    Overlap = "across_entities"
    Faults = {}
    MaxHarvestings = 2
    MaxResults = 1
    MaxRestarts = 0
INVARIANTS
    VersionsUnique
CHECK_DEADLOCK FALSE
