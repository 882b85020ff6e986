SPECIFICATION FairSpec
CONSTANTS
    m1 = m1
    m2 = m2
    m3 = m3
    m4 = m4
    w1 = w1
    w2 = w2
    None = None
    Messages = {m1, m2, m3, m4}
    Workers = {w1, w2}
    QueueLength = 1
    Faults = {"processing", "timeout", "connection", "crash"}
    MaxRestarts = 1
INVARIANTS
    TypeOK
    AtMostOnce
    ShutdownKeepsOwed
PROPERTIES
    QueuedIsHandled
    ShutdownEnds
CHECK_DEADLOCK FALSE
