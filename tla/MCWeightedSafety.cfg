SPECIFICATION Spec
CONSTANTS
    Calls = {c1, c2, c3, c4}
    Closers = {}
    Costs = {1, 2}
    Capacities = {1, 3}
    WaitingRoom = 2
SYMMETRY CallSymmetry
INVARIANTS
    TypeOK
    UnitAccounting
    WorkConserving
PROPERTIES
    NoOvertaking
    IntervalIsSound
    ImplementsBulkhead
