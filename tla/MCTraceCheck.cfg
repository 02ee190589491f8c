\* Two threads that start two children.
SPECIFICATION Spec
CONSTANTS
    c1 = c1
    c2 = c2
    Threads = 2
    Child <- TwoChildren
    None = None
    Rows = 2
    MaxEvents = 4
    MaxOdd = 1
SYMMETRY AlikeChildren
INVARIANTS
    ChildrenAreTheirOwn
    AcceptedIsConfined
    HonestIsAccepted
CHECK_DEADLOCK FALSE
