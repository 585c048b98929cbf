SPECIFICATION ProvidersSpec
CONSTANTS
    MaxSession = 2
    MaxJob = 3
    MaxExpired = 1
    MaxSubmission = 2
    MaxRecords = 2
    MaxConnect = 2
    MaxPublish = 1
    MaxMessage = 2
    MaxEvents = 1
    MaxDown = 1
    MaxFollow = 1
    MaxBatch = 2
    QueueLimit = 1
    MaxWrite = 2
    MaxRetry = 1
    MaxAttempt = 2
    Calls = 2
INVARIANTS
    ProvidersTypeOK
    OneNativeOwner
    KafkaJobsApart
    LossIsTold
    NothingLeft
PROPERTIES
    ImplementsWriteOutcome
    OperationsReturn
