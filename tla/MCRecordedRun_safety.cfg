\* The command and a child write and send more than the limits.
SPECIFICATION RSpec
CONSTANTS
    leader = leader
    child = child
    Proc <- TwoProcesses
    Leader = leader
    OutputLimit = 1
    ReadSize = 1
    PipeCapacity = 2
    MaxInterrupts = 1
    ChannelCapacity = 1
    ChannelLimit = 1
INVARIANTS
    TailKept
    NothingSeenIsLost
    CleanedUp
    NoOrphanCommand
    AcceptedIsWhole
CHECK_DEADLOCK FALSE
