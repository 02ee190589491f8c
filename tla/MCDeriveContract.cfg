\* Limits that a pack, the context and the notes can pass alone or together.
SPECIFICATION Spec
CONSTANTS
    WordSize = 1024
    DOCUMENT_BYTES = 40
    CONFIG_BYTES = 8
    REQUEST_BYTES = 14
    NODES = 7
    DEPTH = 2
    AT_BYTES = 3
    MAX_PACKS = 2
    NOTES_BYTES = 5
    Requests <- AllRequests
INVARIANTS
    CombinedWithin
    CoreCallsInOrder
    AdmitsExactlyAdmissible
    RefusalsAreTruthful
CHECK_DEADLOCK FALSE
