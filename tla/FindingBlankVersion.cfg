SPECIFICATION Spec
CONSTANTS
    ann = ann
    bob = bob
    s1 = s1
    s2 = s2
    cA = cA
    cB = cB
    cC = cC
    Entities = {ann, bob}
    Sources = {s1}
    Contents = {cA, cB}
    Versions = {1, 9}
    LexRank <- SemverRank
    Digest <- SameDigest
    Requests <- NoEnhancement
    Overlap = "none"
    Faults = {"restart"}
    MaxHarvestings = 2
    MaxResults = 1
    MaxRestarts = 1
INVARIANTS
    StoredReferencesAreConverted
CHECK_DEADLOCK FALSE
