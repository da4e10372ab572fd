SPECIFICATION FairSpec
CONSTANTS
    Calls = {c1, c2, c3}
    Closers = {s1}
    Sizes = {1, 2}
    WaitingRoom = 2
INVARIANTS
    ReturnedMeansEmpty
PROPERTIES
    CallsSettle
    ShutdownCompletes
