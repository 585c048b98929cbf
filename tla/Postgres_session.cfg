SPECIFICATION FairSpec
CONSTANTS
    MaxSession = 3
    MaxWrite = 2
INVARIANTS
    TypeOK
PROPERTIES
    NothingLeft
    StatusTruthful
    ImplementsWriteOutcome
    OperationsReturn
