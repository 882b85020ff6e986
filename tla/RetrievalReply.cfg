SPECIFICATION FairSpec
CONSTANTS
    h1 = h1
    h2 = h2
    None = None
    Harvesters = {h1, h2}
    Capacity = 1
    MaxSaid <- UpToThree
    Faults = {"launch", "harvester", "silence", "publication"}
INVARIANTS
    TypeOK
    EachMessageOnce
    NewsIsNotOlder
    DoneMeansEnded
PROPERTIES
    WorkerIsFreed
    HeardHarvestersEnd
CHECK_DEADLOCK FALSE
