CONSTANTS
    k1 = k1
    k2 = k2
    k3 = k3
    k4 = k4
    SLOTS_PER_EPOCH = 2
    GENESIS_EPOCH = 0
    FAR_FUTURE_EPOCH = 99
    MAX_SEED_LOOKAHEAD = 1
    MIN_PER_EPOCH_CHURN_LIMIT = 1
    CHURN_LIMIT_QUOTIENT = 16
    MIN_VALIDATOR_WITHDRAWABILITY_DELAY = 1
    EPOCHS_PER_SLASHINGS_VECTOR = 4
    SHARD_COMMITTEE_PERIOD = 1
    EFFECTIVE_BALANCE_INCREMENT = 2
    MAX_EFFECTIVE_BALANCE = 4
    EJECTION_BALANCE = 2
    EPOCHS_PER_ETH1_VOTING_PERIOD = 1
    MAX_DEPOSITS = 1
    GenesisDeposits = 2
    DepositContract <- MCDepositContract
    EffectiveBalances = {2, 4}
    MaxBalanceChanges = 1
    MaxAttesterSlashingSize = 2
    OperationKinds = {"proposer_slashing", "attester_slashing", "voluntary_exit"}
    MaxSlot = 6
    CallerCopiesContext = TRUE
    HonestEth1Votes = TRUE
CHECK_DEADLOCK FALSE
SPECIFICATION Spec
INVARIANTS
    SlotsAlwaysAdvance
