CONSTANTS
    N = 2
    GENESIS_EPOCH = 0
    FAR_FUTURE_EPOCH = 99
    SLOTS_PER_EPOCH = 2
    TARGET_COMMITTEE_SIZE = 1
    MAX_COMMITTEES_PER_SLOT = 2
    MAX_SEED_LOOKAHEAD = 1
    MIN_ATTESTATION_INCLUSION_DELAY = 1
    MIN_VALIDATOR_WITHDRAWABILITY_DELAY = 1
    EFFECTIVE_BALANCE_INCREMENT = 4
    MAX_EFFECTIVE_BALANCE = 8
    BASE_REWARD_FACTOR = 4
    BASE_REWARDS_PER_EPOCH = 4
    PROPOSER_REWARD_QUOTIENT = 2
    INACTIVITY_PENALTY_QUOTIENT = 4
    MIN_EPOCHS_TO_INACTIVITY_PENALTY = 1
    MIN_SLASHING_PENALTY_QUOTIENT = 4
    WHISTLEBLOWER_REWARD_QUOTIENT = 16
    EPOCHS_PER_SLASHINGS_VECTOR = 4
    HYSTERESIS_QUOTIENT = 4
    HYSTERESIS_DOWNWARD_MULTIPLIER = 1
    HYSTERESIS_UPWARD_MULTIPLIER = 5
    SlashedAtGenesis = {2}
    MaxAttestations = 1
    MaxEpoch = 4
SPECIFICATION Spec
CHECK_DEADLOCK FALSE
PROPERTIES
    JustificationBackedByStake
