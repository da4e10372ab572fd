SPECIFICATION FairSpec
CONSTANTS
    Callers = {c1, c2}
    Keys = {k1, k2}
    Keepers = {t1}
    Closers = {s1}
    MaxPartitions = 1
    NoEntry = NoEntry
    SweepsCancelled = TRUE
    TransfersCancelled = FALSE
PROPERTIES
    OpsAreReleased
