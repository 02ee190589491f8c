\* Evidence at every limit, and every binding of up to three keywords.
SPECIFICATION ESpec
CONSTANTS
    Absent = Absent
    Object <- Objects
    Signatures <- AllSignatures
    Calls <- AllCalls
    AT_BYTES = 2
    MODE_BYTES = 3
    NOTES_BYTES = 4
    BATCH = 2
    PAIRS = 3
    THERMAL = 2
INVARIANTS
    BoundAsPassed
    BindsExactlyWellFormed
    AdmitsExactlyAdmissible
    WorkIsBounded
    CoreGetsRequest
CHECK_DEADLOCK FALSE
