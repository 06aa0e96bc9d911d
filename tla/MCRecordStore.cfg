CONSTANTS
    w1 = w1
    w2 = w2
    r1 = r1
    Writers <- TwoWriters
    Readers <- OneReader
    Size = 3
    DefaultPath = TRUE
    MaxMeddles = 1
SPECIFICATION Spec
INVARIANTS
    TypeOK
    AtomicReplace
    ReadersGetWholeRecords
    FailureLeavesRecord
    NoLitter
    LatestIsPrivate
PROPERTIES
    ImplementsRegister
CHECK_DEADLOCK FALSE
