CONSTANTS
    Args <- SomeArgs
    Pieces <- SomePieces
    Runes <- SomeRunes
    MaxArgs = 4
    MaxPieces = 5
    MaxRunes = 4
SPECIFICATION Spec
INVARIANTS
    TerminalLinesAreOurs
    MarkdownBlocksAreOurs
    ScanIsExact
    CommandIsVerbatim
    RawWhereverItStands
CHECK_DEADLOCK FALSE
