SPECIFICATION Spec
CONSTANTS
    Callers = {c1, c2, c3, c4}
    Keys = {k1, k2, k3}
    Keepers = {t1}
    Closers = {s1}
    MaxPartitions = 2
    NoEntry = NoEntry
    SweepsCancelled = TRUE
    TransfersCancelled = TRUE
SYMMETRY PartitionSymmetry
INVARIANTS
    TypeOK
    WithinLimit
    OnePartitionPerKey
    LeaseAccounting
    LeasedIsUsable
    DrainExact
PROPERTIES
    IntervalIsSound
    ImplementsPool
