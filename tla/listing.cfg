SPECIFICATION Spec
CONSTANTS
    None = None
    Keys <- MCKeys
    Code <- MCCode
    Fold <- MCFold
    Prefix <- MCPrefix
    Delimiter <- MCDelimiter
    MaxKeys = 1
    StartAfters <- MCStartAfters
    PartNumbers <- MCPartNumbers
    Kinds <- AllKinds
    MaxRows = 4
INVARIANTS TypeOK WalksAreExact FoldersComplete
PROPERTIES PagesAdvance
