CONSTANTS
    k = k
    Kin <- OneKin
    Escaped <- OneKin
    Signals <- OneSignal
    ExitCodes <- OneCode
    Passthrough <- Stderr
    Stallable <- Stderr
    Leaving <- NoStreams
    Cancellable = FALSE
    PipeCap = 2
    MaxSignals = 1
    MaxBytes <- OneByte
SPECIFICATION RunLiveSpec
INVARIANTS
    StatusMatchesRecord
PROPERTIES
    InterruptedRunIsSaved
    CommandEndEndsRun
CHECK_DEADLOCK FALSE
