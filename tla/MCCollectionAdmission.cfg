\* Up to two checks, pairs and configs, around every limit.
SPECIFICATION Spec
CONSTANTS
    Caps <- SmallCaps
    ID_BYTES = 2
    PATH_BYTES = 3
    TOTAL_BYTES = 8
    Requests <- SmallRequests
INVARIANTS
    AdmitsExactlyAdmissible
    RefusalsInOrder
    NothingCopiedEarly
    CopiedIsRequest
CHECK_DEADLOCK FALSE
