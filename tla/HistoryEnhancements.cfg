SPECIFICATION Spec
CONSTANTS
    ann = ann
    bob = bob
    s1 = s1
    s2 = s2
    cA = cA
    cB = cB
    cC = cC
    Entities = {ann, bob}
    Sources = {s1}
    Contents = {cA, cB, cC}
    Versions = {1, 9, 10}
    LexRank <- DecimalRank
    Digest <- MCDigest
    Requests <- Enhancements
    Overlap = "none"
    Faults = {"conversion", "restart"}
    MaxHarvestings = 3
    MaxResults = 1
    MaxRestarts = 1
INVARIANTS
    VersionsUnique
    EventsMatchHistory
    BlankRowsAreUnrequestedEnhancements
CHECK_DEADLOCK FALSE
