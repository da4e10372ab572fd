SPECIFICATION FairSpec
CONSTANTS
    Calls = {c1, c2, c3}
    Closers = {s1}
    Costs = {1, 2}
    Capacities = {1, 2}
    WaitingRoom = 2
INVARIANTS
    DrainExact
PROPERTIES
    EverybodySettles
