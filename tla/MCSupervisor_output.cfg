\* Is an output that is not truncated all that the command wrote?
SPECIFICATION Spec
CONSTANTS
    leader = leader
    child = child
    Proc <- TwoProcesses
    Leader = leader
    OutputLimit = 2
    ReadSize = 1
    PipeCapacity = 2
    MaxInterrupts = 0
INVARIANT
    OutputWhole
CHECK_DEADLOCK FALSE
