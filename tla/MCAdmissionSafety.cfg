SPECIFICATION Spec
CONSTANTS
    Calls = {c1, c2, c3, c4}
    Closers = {}
    Sizes = {1, 2, 3}
    WaitingRoom = 2
    MinDecisions = 2
    MinQueueHistory = 1
    LargeRoom = 2
    LargeRoomFactor = 2
SYMMETRY CallSymmetry
INVARIANTS
    TypeOK
    SlotAccounting
    WorkConserving
    OutcomesCounted
    OutcomeMatchesEntry
    DrainExact
    DiagnosisMatchesAdmission
PROPERTIES
    NoOvertaking
    IntervalIsSound
    ImplementsBulkhead
