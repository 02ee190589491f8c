\* Two threads, two shared arguments, one signal, every shape of operation.
SPECIFICATION Spec
CONSTANTS
    t1 = t1
    t2 = t2
    packs = packs
    context = context
    Thread <- TwoThreads
    Main = t1
    NoThread = NoThread
    Container <- Containers
    Signal = {s1}
    Operation <- AllOperations
    Reads <- AllReads
    Detached <- AllDetached
    Decoders <- AllDecoders
    Hung <- None
    Fields = 2
    MaxChange = 1
INVARIANTS
    GilInv
    RequestIsSnapshot
    SignalsComeFirst
    PanicsAreContained
    AnswersAreWhole
PROPERTIES
    ImplementsAtomicCall
CHECK_DEADLOCK FALSE
