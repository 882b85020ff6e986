SPECIFICATION FairSpec
CONSTANTS
    t1 = t1
    t2 = t2
    t3 = t3
    j1 = j1
    None = None
    Conversions = {t1, t2, t3}
    Jobs = {j1}
    Starts <- MCStarts
    JelProxy = TRUE
INVARIANTS
    RetryFinds
    DuplicatesWereRaced
    FailuresAreExplained
    NamesKeptApart
    FlaggedHasLabels
PROPERTIES
    ConversionsEnd
    JobsEnd
CHECK_DEADLOCK FALSE
