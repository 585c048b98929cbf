SPECIFICATION TerminalSpec
CONSTANTS
    PageRows = 3
    PageBytes = 4
    RowSize = {1, 2}
    CursorSize = {0, 1}
    MaxRecord = 5
    Query = {}
    id = id
    name = name
    NoQuery = NoQuery
    Shape <- OneOrTwo
    DescriptorColumns = 2
    BookmarkLimit = 1
    Followable = TRUE
    MaxOffset = 1
    MaxDepth = 2
    MaxRows = 1
    HistoryLimit = 2
    Process = {p1, p2}
    Alias = {a, b, c}
    MaxNames = 2
    MaxEdits = 1
    Asked = {a, b}
    Line = {x, y}
    Limit = 2
    MaxLog = 3
    QueryBytes = 5
    Fields = 2
    Providers = 2
    Columns = 3
    MaxWidth = 7
    MaxGraphemes = 5
    LineWidth = 3
    Chunk = 3
    Budget = 8
    TableRows = 7
    Height = 2
INVARIANTS
    TypeOK
    PartsTypeOK
    NewestRecords
    DisplayFitsRows
    HandlersFindTheirData
    SavedIsKept
    ShownAsPromised
    ScreenRestored
PROPERTIES
    WindowSlides
    LiveColumnsStable
    PopupsKeepRequest
    EditsAtCaret
