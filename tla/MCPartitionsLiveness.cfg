SPECIFICATION FairSpec
CONSTANTS
    Callers = {c1, c2, c3}
    Keys = {k1, k2, k3}
    Keepers = {t1}
    Closers = {s1}
    MaxPartitions = 1
    NoEntry = NoEntry
    SweepsCancelled = FALSE
    TransfersCancelled = FALSE
INVARIANTS
    ReleasedOnce
    ReturnedMeansDrained
PROPERTIES
    CallersSettle
    ShutdownCompletes
    OpsAreReleased
