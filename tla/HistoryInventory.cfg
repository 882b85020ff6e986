SPECIFICATION Spec
CONSTANTS
    ann = ann
    bob = bob
    s1 = s1
    s2 = s2
    cA = cA
    cB = cB
    cC = cC
    Entities = {ann, bob}
    Sources = {s1, s2}
    Contents = {cA, cB}
    Versions = {1}
    LexRank <- SemverRank
    Digest <- MCDigest
    Requests <- TwoEntities
    Overlap = "across_entities"
    Faults = {"conversion"}
    MaxHarvestings = 3
    MaxResults = 1
    MaxRestarts = 0
INVARIANTS
    NoContradictoryEvents
    DeletedWasAnnounced
PROPERTIES
    ImplementsInventory
CHECK_DEADLOCK FALSE
