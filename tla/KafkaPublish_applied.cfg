SPECIFICATION Spec
CONSTANTS
    MaxSubmission = 2
    MaxRecords = 1
INVARIANTS
    AppliedDelivered
