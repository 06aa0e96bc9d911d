CONSTANTS
    k = k
    Kin <- NoProcs
    Escaped <- NoProcs
    Signals <- OneSignal
    ExitCodes <- OneCode
    Passthrough <- Stderr
    Stallable <- Stderr
    Leaving <- Stderr
    Cancellable = FALSE
    PipeCap = 2
    MaxSignals = 1
    MaxBytes <- TwoBytes
SPECIFICATION Spec
INVARIANTS
    NoSilentDrop
CHECK_DEADLOCK FALSE
