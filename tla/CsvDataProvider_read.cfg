SPECIFICATION Spec
CONSTANTS
    Fields <- MCFields
    Empty = ""
    Stoull <- MCStoull
    Files <- ReadableFiles
    Tables <- MCTables
    ItemColumns = {1, 2}
    BatchSizes = {1, 2, 5}
INVARIANTS
    TypeOK
    RowsInOrder
    ReadsAll
    RoundTrip
    CsvInv
