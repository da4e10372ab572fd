SPECIFICATION BulkheadSpec
CONSTANTS
    Calls = {c1, c2, c3}
    Closers = {s1}
    Sizes = {1, 2}
    WaitingRoom = 1
    Contexts = {x1}
    Handlers = {h1, h2}
    None = None
SYMMETRY BulkheadSymmetry
VIEW WithoutHistory
INVARIANTS
    ContextOwnsItsSlot
    HandlersFollow
