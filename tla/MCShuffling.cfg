CONSTANTS
    SHUFFLE_ROUND_COUNT = 3
    SLOTS_PER_EPOCH = 2
    TARGET_COMMITTEE_SIZE = 1
    MAX_COMMITTEES_PER_SLOT = 2
    Seeds = {0, 1, 2, 3, 4, 5, 6, 7}
    MaxListSize = 10
SPECIFICATION Spec
CHECK_DEADLOCK FALSE
INVARIANTS
    TypeOK
    UnshuffleMatchesReference
    ShuffleInvertsUnshuffle
    CommitteesPartitionShuffling
