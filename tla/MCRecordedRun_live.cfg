\* A command that hangs, writes or sends for ever, and a child that does.
SPECIFICATION RLiveSpec
CONSTANTS
    leader = leader
    child = child
    Proc <- TwoProcesses
    Leader = leader
    OutputLimit = 1
    ReadSize = 1
    PipeCapacity = 1
    MaxInterrupts = 0
    ChannelCapacity = 1
    ChannelLimit = 1
CONSTRAINT
    SupervisorLives
PROPERTIES
    BackpressureEnds
    RunEnds
CHECK_DEADLOCK FALSE
