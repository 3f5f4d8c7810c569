SPECIFICATION Spec
CONSTANTS
    None = None
    r1 = r1
    r2 = r2
    Requests = {r1, r2}
    Ids = {i1, i2}
    Refs = {k, empty}
    Vals = {v}
    Empty = empty
    MaxTasks <- MCMaxTasks
SYMMETRY Symmetry
INVARIANTS
    TypeOK
    DeletedMeansDeleted
    BulkIsAPrefix
PROPERTIES
    EditsMerge
    CascadeIsWhole
