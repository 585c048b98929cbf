SPECIFICATION PagesSpec
CONSTANTS
    MaxId = 3
    CacheEntries = 2
    Workers = 2
    PageRows = 2
    MaxJob = 3
    MaxCommit = 2
    MaxSeq = 3
    PageSize = 2
    StreamChanges = 1
    Partitions = 2
    MaxOffset = 3
    MaxSequence = 4
    MaxItem = 5
    MaxRow = 4
    MaxChange = 2
    MaxNodes = 4
    MaxDepth = 2
    MaxNames = 2
    MaxBytes = 4
    MaxOutput = 2
INVARIANTS
    PagesTypeOK
    PagesComplete
    DecodedByOwnSchema
    DecodingIsBounded
