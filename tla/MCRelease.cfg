CONSTANTS
    t1 = t1
    t2 = t2
    b1 = b1
    b2 = b2
    Targets <- TwoTargets
    Binaries <- TwoBinaries
    Pinned = b1
    MaxFaults = 4
SPECIFICATION LiveSpec
INVARIANTS
    EndedJobLeavesNoDraft
PROPERTIES
    ImplementsAtomicRelease
    FoundReleaseIsLeftAlone
    EventuallyPublic
CHECK_DEADLOCK FALSE
