SPECIFICATION Spec
CONSTANTS
    Alias = {a, b}
    NoAlias = NoAlias
    MaxTask = 5
    MaxSession = 5
    MaxGeneration = 6
SYMMETRY Symmetry
INVARIANTS
    TypeOK
    RequestsInOrder
    OneExecutor
    SingleFlight
PROPERTIES
    ImplementsForeground
    PagesFromOwnSession
    StopsForCause
