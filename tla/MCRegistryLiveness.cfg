SPECIFICATION FairSpec
CONSTANTS
    Bulkheads = {b1, b2}
    Labels = {l1}
    Loops = {e1, e2}
    Users = {u1}
    Removers = {r1, r2}
    Collectors = {k1, k2}
    None = None
PROPERTIES
    OperationsEnd
