CONSTANTS
    HeadLimit = 3
    TailLimit = 3
    Context = 3
    MaxChunk = 2
    MaxReceived = 7
    Alphabet <- FewLetters
    MaxVaried = 7
    MaxVariedChunk = 2
SPECIFICATION StreamSpec
INVARIANTS
    OnlyProvenRunesMove
CHECK_DEADLOCK FALSE
