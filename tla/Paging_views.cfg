SPECIFICATION Spec
CONSTANTS
    id = id
    name = name
    Query = {q1, q2}
    NoQuery = NoQuery
    Shape <- OneColumn
    DescriptorColumns = 2
    BookmarkLimit = 3
    Followable = TRUE
    MaxOffset = 4
    MaxDepth = 2
INVARIANTS
    ViewsInOrder
    WaysBack
