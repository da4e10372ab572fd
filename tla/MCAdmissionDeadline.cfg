SPECIFICATION Spec
CONSTANTS
    Calls = {c1, c2}
    Closers = {s1}
    Sizes = {1}
    WaitingRoom = 1
PROPERTIES
    NeverStartsAfterDeadline
