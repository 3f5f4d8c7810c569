SPECIFICATION Spec
SYMMETRY Symmetry
CONSTANTS
    Ids = {i1, i2, i3}
    Ranks = {1, 2, 3, 4}
    Pages = {0, 2, 5}
    Sizes = {0, 9}
    defaultPageSize = 1
    maxPageSize = 2
    exportPageSize = 2
    Half = 4
    MaxChanges = 3
INVARIANTS
    TypeOK
    EachRemovalHidesOne
    EachArrivalRepeatsOne
    TotalCoversPage
PROPERTIES
    PageAskedIsPageServed
