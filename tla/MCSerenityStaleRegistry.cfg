CONSTANTS
    EPOCH_LENGTH = 2
    SHARD_COUNT = 3
    COMMITTEES_PER_SLOT = 1
    LATEST_INDEX_ROOTS_LENGTH = 2
    LATEST_PENALIZED_EXIT_LENGTH = 2
    MAX_DEPOSIT_AMOUNT = 2
    V = {1, 2, 3, 4}
    Balance <- MCBalance
    ActivationSlot <- MCActivationSlot
    CommitteeAt <- MCCommitteeAt
    Roots = {r1, r2}
    ZERO_HASH = zero
    MaxSlot = 8
    MaxAttestations = 2
SPECIFICATION Spec
PROPERTIES
    RegistryChangeNeedsNewFinality
CHECK_DEADLOCK FALSE
