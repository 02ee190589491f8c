\* Core never answers t2; every call of t1 must return all the same.
SPECIFICATION LiveSpec
CONSTANTS
    t1 = t1
    t2 = t2
    packs = packs
    context = context
    Thread <- TwoThreads
    Main = t1
    NoThread = NoThread
    Container <- OneContainer
    Signal = {s1}
    Operation <- OneOperation
    Reads <- OneReads
    Detached <- OneOperation
    Decoders <- None
    Hung <- HungThread
    Fields = 1
    MaxChange = 1
PROPERTIES
    CallsReturn
CHECK_DEADLOCK FALSE
