SPECIFICATION Spec
CONSTANTS
    MaxSubmission = 1
    MaxRecords = 1
INVARIANTS
    UnknownNotError
