SPECIFICATION FairSpec
CONSTANTS
    Alias = {a}
    NoAlias = NoAlias
    MaxTask = 3
    MaxSession = 3
    MaxGeneration = 5
PROPERTIES
    RequestEnds
    SubscriptionReleased
    ClosingWorkerEnds
