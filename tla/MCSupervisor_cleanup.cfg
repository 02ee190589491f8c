\* Is the group gone after every return?
SPECIFICATION Spec
CONSTANTS
    leader = leader
    child = child
    Proc <- TwoProcesses
    Leader = leader
    OutputLimit = 1
    ReadSize = 1
    PipeCapacity = 2
    MaxInterrupts = 1
INVARIANT
    OwnedCleanup
CHECK_DEADLOCK FALSE
