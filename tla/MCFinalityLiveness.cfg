CONSTANTS
    GENESIS_EPOCH = 0
    MaxEpoch = 9
    MaxStake = 3
SPECIFICATION LiveSpec
CHECK_DEADLOCK FALSE
INVARIANTS
    TypeOK
    BitsAligned
PROPERTIES
    ImplementsFinality
    FinalityProgresses
    DelayedFinalityProgresses
