CONSTANTS
    HeadLimit = 3
    TailLimit = 3
    Context = 3
    MaxChunk = 8
    MaxReceived = 36
    Alphabet <- Letters
    MaxVaried = 7
    MaxVariedChunk = 2
SPECIFICATION StreamSpec
INVARIANTS
    SnapshotExact
    ContextExact
    SnapshotValidates
    RunesStayWhole
    ValidStaysValid
CHECK_DEADLOCK FALSE
