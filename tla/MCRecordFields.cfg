CONSTANTS
    Null = Null
    Wrong = Wrong
    MaxSafeInteger = 9
    MaxCapturedBytes = 4
    Snapshots <- TheSnapshots
    ExitCodes <- TheExitCodes
    Counts <- TheCounts
    Texts <- TheTexts
    Raws <- TheRaws
    Signals <- TheSignals
    LegacyTexts <- TheLegacyTexts
    MaxEdits = 1
    CommandJSONBytes <- TheCommandJSONBytes
    Arguments <- TheArguments
    MaxCommandJSONBytes = 32
    MaxRecordBytes = 128
    OtherBytes = 2
SPECIFICATION Spec
INVARIANTS
    OnlySchemaFields
CHECK_DEADLOCK FALSE
