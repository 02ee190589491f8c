\* Every dict-list-dict graph of three containers, and every kind of scalar
\* and key, with the byte and node limits of both domains; then the values they make.
SPECIFICATION VSpec
VIEW Loaded
CONSTANTS
    WordSize = 1024
    DOCUMENT_BYTES = 16
    CONFIG_BYTES = 11
    REQUEST_BYTES = 14
    NODES = 8
    DEPTH = 2
    a = a
    b = b
    c = c
    Addr <- GraphAddr
    Leaf <- AllLeaf
    Heaps <- AllHeaps
    Roots <- AllRoots
    Budgets0 <- AllBudgets
    Classes = {"Policy", "Artifact", "BatchReport"}
    MaxResults = 2
INVARIANTS
    AncestorsInv
    BudgetInv
    AcceptsExactlyAdmissible
    DoneIsUnfolding
    ErrorsAreTruthful
    ExportsAreCopies
CHECK_DEADLOCK FALSE
