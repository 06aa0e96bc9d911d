CONSTANTS
    k = k
    Kin <- OneKin
    Escaped <- NoProcs
    Signals <- OneSignal
    ExitCodes <- OneCode
    Passthrough <- Stderr
    Stallable <- Stderr
    Leaving <- Stderr
    Cancellable = TRUE
    PipeCap = 2
    MaxSignals = 3
    MaxBytes <- TwoBytes
SPECIFICATION Spec
CONSTRAINT
    QuietOrOneInterrupt
INVARIANTS
    LateSignalNeverInterrupts
    OnlyDecidedLateActs
    SecondSignalForces
    BoundedStop
    CompleteMeansAll
    NormalRunWaitsForDrains
    SilenceMeansForwarded
    UndisturbedRunIsComplete
PROPERTIES
    WarningIsFinal
CHECK_DEADLOCK FALSE
