SPECIFICATION Spec
CONSTANTS
    Alias = {a}
    NoAlias = NoAlias
    MaxTask = 2
    MaxSession = 2
    MaxGeneration = 4
INVARIANTS
    OpeningFailureExplained
