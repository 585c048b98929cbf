SPECIFICATION Spec
CONSTANTS
    id = id
    name = name
    Query = {}
    NoQuery = NoQuery
    Shape <- OneOrTwo
    DescriptorColumns = 2
    BookmarkLimit = 3
    Followable = FALSE
    MaxOffset = 2
    MaxDepth = 1
INVARIANTS
    ColumnsExist
