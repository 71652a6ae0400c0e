CONSTANTS
    GoldenSize = 3
    Limits = {2, 3}
    MaxRuns = 3
    NoFile = NoFile
SPECIFICATION Spec
INVARIANTS
    TypeOK
    UnwarnedFilesBelongTogether
    RowsAreSaved
