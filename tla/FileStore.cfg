SPECIFICATION FairSpec
CONSTANTS
    None = None
    Guest = Guest
    Ids = {f1, f2}
    Users = {u1, op}
    AdminUsers = {op}
    Visitors = {v1}
    MaxBatch = 2
INVARIANTS
    TypeOK
    NothingHalfWritten
    RowHasObject
    NoLitter
PROPERTIES
    UploadsAreAtomic
    StagingDrains
    DeletedGoesDark
