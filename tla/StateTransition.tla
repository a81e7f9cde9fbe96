--------------------------- MODULE StateTransition ---------------------------
(***************************************************************************)
(* The Medalla fast state transition (eth2fastspec.py) of one lineage: the *)
(* slot driver process_slots with the epoch pipeline and rotate_epochs at  *)
(* each boundary, and process_block with its header, eth1 vote and the     *)
(* operations that change the validator registry (proposer slashings,     *)
(* attester slashings, deposits, voluntary exits).                         *)
(*                                                                         *)
(* Composes JustificationFinalization (the justification step of the       *)
(* pipeline) and EpochsContext (the cache the transition reads and         *)
(* rotates).  Abstracted: balances, rewards, penalties and the slashings   *)
(* vector (the effective balance written by the hysteresis of             *)
(* process_final_updates is a free choice in EffectiveBalances);           *)
(* attestations (which validators' target votes were included is a free   *)
(* choice at each boundary); RANDAO, roots and signatures (a signature or  *)
(* proof check is a free boolean of the operation).  Gwei amounts are in   *)
(* units of EFFECTIVE_BALANCE_INCREMENT / 2.  eth1_data is abstracted to   *)
(* its deposit_count.                                                      *)
(***************************************************************************)
EXTENDS Integers, Sequences, FiniteSets, SequencesExt, FiniteSetsExt, TLC

CONSTANTS
    SLOTS_PER_EPOCH, GENESIS_EPOCH, FAR_FUTURE_EPOCH, MAX_SEED_LOOKAHEAD,
    MIN_PER_EPOCH_CHURN_LIMIT, CHURN_LIMIT_QUOTIENT,
    MIN_VALIDATOR_WITHDRAWABILITY_DELAY, EPOCHS_PER_SLASHINGS_VECTOR,
    SHARD_COMMITTEE_PERIOD, EFFECTIVE_BALANCE_INCREMENT,
    MAX_EFFECTIVE_BALANCE, EJECTION_BALANCE, EPOCHS_PER_ETH1_VOTING_PERIOD,
    MAX_DEPOSITS,
    GenesisDeposits,     \* number of deposits made before genesis
    DepositContract,     \* sequence of [pubkey, amount, signature_ok]
    EffectiveBalances,   \* values the hysteresis may write
    MaxBalanceChanges,   \* bound on the effective balances moved per epoch
    MaxAttesterSlashingSize, \* bound on the indices common to the two attestations
    OperationKinds,      \* the optional operations blocks may carry
    MaxSlot,             \* bound on the slot
    CallerCopiesContext, \* the caller hands process_block a copy() it drops on failure
    HonestEth1Votes      \* proposers never vote for a smaller deposit_count

VARIABLES
    slot, validators, eth1_data, eth1_data_votes, eth1_deposit_index,
    latest_block_slot,
    previous_justified_checkpoint, current_justified_checkpoint,
    finalized_checkpoint, justification_bits, justified,
    pubkey2index, index2pubkey, proposers,
    previous_shuffling, current_shuffling, next_shuffling

JF == INSTANCE JustificationFinalization
Ctx == INSTANCE EpochsContext

stateVars == <<slot, validators, eth1_data, eth1_data_votes,
               eth1_deposit_index, latest_block_slot>>
jfState == <<previous_justified_checkpoint, current_justified_checkpoint,
             finalized_checkpoint, justification_bits, justified>>
ctxState == <<pubkey2index, index2pubkey, proposers,
              previous_shuffling, current_shuffling, next_shuffling>>
vars == <<stateVars, jfState, ctxState>>

IsActive(v, epoch) == Ctx!IsActive(v, epoch)
ActiveIndices(vals, epoch) == {i \in DOMAIN vals : IsActive(vals[i], epoch)}
SumEffective(vals, S) == MapThenSumSet(LAMBDA i : vals[i].effective_balance, S)

\* Validator.create of process_deposit, and the genesis validators.
NewValidator(pubkey, effective_balance) ==
    [pubkey |-> pubkey, effective_balance |-> effective_balance, slashed |-> FALSE,
     activation_eligibility_epoch |-> FAR_FUTURE_EPOCH,
     activation_epoch |-> FAR_FUTURE_EPOCH,
     exit_epoch |-> FAR_FUTURE_EPOCH, withdrawable_epoch |-> FAR_FUTURE_EPOCH]

\* Fault: the effective balance of a deposit is not capped.
EffectiveOfUncapped(amount) == amount - (amount % EFFECTIVE_BALANCE_INCREMENT)

\* min(amount - amount % EFFECTIVE_BALANCE_INCREMENT, MAX_EFFECTIVE_BALANCE)
EffectiveOf(amount) ==
    Min({amount - (amount % EFFECTIVE_BALANCE_INCREMENT), MAX_EFFECTIVE_BALANCE})

GenesisValidator(d) ==
    [NewValidator(d.pubkey, EffectiveOf(d.amount)) EXCEPT
        !.activation_eligibility_epoch = GENESIS_EPOCH,
        !.activation_epoch = GENESIS_EPOCH]

-----------------------------------------------------------------------------
(* Helpers of the epoch pipeline and of the operations.                    *)

\* Fault: the exit/activation delay forgets the `+ 1`.
ComputeActivationExitEpochShort(epoch) == epoch + MAX_SEED_LOOKAHEAD

\* compute_activation_exit_epoch
ComputeActivationExitEpoch(epoch) == epoch + 1 + MAX_SEED_LOOKAHEAD

GetChurnLimit(active_validator_count) ==
    Max({MIN_PER_EPOCH_CHURN_LIMIT, active_validator_count \div CHURN_LIMIT_QUOTIENT})

\* Validator.is_slashable
IsSlashable(v, epoch) ==
    /\ ~v.slashed
    /\ v.activation_epoch <= epoch
    /\ epoch < v.withdrawable_epoch

ExitEpochsInUse(vals) ==
    {vals[i].exit_epoch : i \in DOMAIN vals} \ {FAR_FUTURE_EPOCH}

ExitChurnAt(vals, epoch) == Cardinality({i \in DOMAIN vals : vals[i].exit_epoch = epoch})

\* Fault: the queue epoch advances only when the churn is exceeded.
InitiateValidatorExitLate(vals, index, current_epoch, active_count) ==
    IF vals[index].exit_epoch # FAR_FUTURE_EPOCH THEN vals
    ELSE
      LET queue == Max(ExitEpochsInUse(vals) \cup {ComputeActivationExitEpoch(current_epoch)})
          exit_queue_epoch ==
              IF ExitChurnAt(vals, queue) > GetChurnLimit(active_count) THEN queue + 1 ELSE queue
      IN  [vals EXCEPT ![index].exit_epoch = exit_queue_epoch,
                       ![index].withdrawable_epoch =
                           exit_queue_epoch + MIN_VALIDATOR_WITHDRAWABILITY_DELAY]

\* initiate_validator_exit; active_count is len(current_shuffling.active_indices).
InitiateValidatorExit(vals, index, current_epoch, active_count) ==
    IF vals[index].exit_epoch # FAR_FUTURE_EPOCH THEN vals
    ELSE
      LET queue == Max(ExitEpochsInUse(vals) \cup {ComputeActivationExitEpoch(current_epoch)})
          exit_queue_epoch ==
              IF ExitChurnAt(vals, queue) >= GetChurnLimit(active_count) THEN queue + 1 ELSE queue
      IN  [vals EXCEPT ![index].exit_epoch = exit_queue_epoch,
                       ![index].withdrawable_epoch =
                           exit_queue_epoch + MIN_VALIDATOR_WITHDRAWABILITY_DELAY]

\* slash_validator, registry part (the slashings vector and balances are
\* not modelled).
SlashValidator(vals, index, epoch, active_count) ==
    LET exited == InitiateValidatorExit(vals, index, epoch, active_count)
    IN  [exited EXCEPT
            ![index].slashed = TRUE,
            ![index].withdrawable_epoch = Max({@, epoch + EPOCHS_PER_SLASHINGS_VECTOR})]

-----------------------------------------------------------------------------
(* prepare_epoch_process_state: the lists and sums the epoch steps use,    *)
(* computed from the validators as they are at the boundary.               *)

\* Fault: the ejection filter forgets `status.active`.
IndicesToEjectAny(vals, current_epoch) ==
    {i \in DOMAIN vals : /\ vals[i].effective_balance <= EJECTION_BALANCE
                         /\ vals[i].exit_epoch = FAR_FUTURE_EPOCH}

IndicesToEject(vals, current_epoch) ==
    {i \in DOMAIN vals : /\ IsActive(vals[i], current_epoch)
                         /\ vals[i].effective_balance <= EJECTION_BALANCE
                         /\ vals[i].exit_epoch = FAR_FUTURE_EPOCH}

IndicesToSetActivationEligibility(vals) ==
    {i \in DOMAIN vals : /\ vals[i].activation_eligibility_epoch = FAR_FUTURE_EPOCH
                         /\ vals[i].effective_balance = MAX_EFFECTIVE_BALANCE}

\* Fault: equal eligibility epochs are ordered by descending index.
IndicesToMaybeActivateTieReversed(vals, current_epoch) ==
    SetToSortSeq({i \in DOMAIN vals :
                    /\ vals[i].activation_epoch = FAR_FUTURE_EPOCH
                    /\ vals[i].activation_eligibility_epoch <= current_epoch},
                 LAMBDA a, b :
                    \/ vals[a].activation_eligibility_epoch < vals[b].activation_eligibility_epoch
                    \/ /\ vals[a].activation_eligibility_epoch = vals[b].activation_eligibility_epoch
                       /\ a > b)

\* indices_to_maybe_activate, sorted by (activation_eligibility_epoch, index).
IndicesToMaybeActivate(vals, current_epoch) ==
    SetToSortSeq({i \in DOMAIN vals :
                    /\ vals[i].activation_epoch = FAR_FUTURE_EPOCH
                    /\ vals[i].activation_eligibility_epoch <= current_epoch},
                 LAMBDA a, b :
                    \/ vals[a].activation_eligibility_epoch < vals[b].activation_eligibility_epoch
                    \/ /\ vals[a].activation_eligibility_epoch = vals[b].activation_eligibility_epoch
                       /\ a < b)

PrepareEpochProcessState(vals, current_epoch) ==
    LET active == ActiveIndices(vals, current_epoch)
        churn_limit == GetChurnLimit(Cardinality(active))
        end == Max(ExitEpochsInUse(vals) \cup {ComputeActivationExitEpoch(current_epoch)})
        end_churn == ExitChurnAt(vals, end)
    IN  [total_active_stake |-> Max({SumEffective(vals, active), EFFECTIVE_BALANCE_INCREMENT}),
         churn_limit |-> churn_limit,
         exit_queue_end |-> IF end_churn >= churn_limit THEN end + 1 ELSE end,
         exit_queue_end_churn |-> IF end_churn >= churn_limit THEN 0 ELSE end_churn,
         indices_to_eject |-> IndicesToEject(vals, current_epoch),
         indices_to_set_activation_eligibility |-> IndicesToSetActivationEligibility(vals),
         indices_to_maybe_activate |-> IndicesToMaybeActivate(vals, current_epoch)]

\* The unslashed target stake of a set of attesters, clamped as the code does.
TargetStake(vals, attesters) ==
    Max({SumEffective(vals, {i \in attesters : ~vals[i].slashed}), EFFECTIVE_BALANCE_INCREMENT})

(***************************************************************************)
(* process_registry_updates.  `process` was prepared from `snapshot`, the  *)
(* validators before the epoch; activation reads the eligibility epochs   *)
(* of the snapshot, as the code reads process.statuses.                    *)
(***************************************************************************)
EjectOne(acc, index) ==
    LET churned == acc.end_churn + 1 >= acc.churn_limit
    IN  [acc EXCEPT
            !.vals = [@ EXCEPT ![index].exit_epoch = acc.exit_end,
                               ![index].withdrawable_epoch =
                                   acc.exit_end + MIN_VALIDATOR_WITHDRAWABILITY_DELAY],
            !.end_churn = IF churned THEN 0 ELSE @ + 1,
            !.exit_end = IF churned THEN @ + 1 ELSE @]

\* The prefix of the churn-limited queue before the first eligibility that
\* is not finalized.
ActivatedIndices(snapshot, queue, finality_epoch) ==
    LET brk == SelectInSeq(queue, LAMBDA i :
                   snapshot[i].activation_eligibility_epoch > finality_epoch)
    IN  {queue[k] : k \in 1..(IF brk = 0 THEN Len(queue) ELSE brk - 1)}

ProcessRegistryUpdates(process, snapshot, current_epoch, finality_epoch) ==
    LET ejected == FoldLeft(EjectOne,
                       [vals |-> snapshot, exit_end |-> process.exit_queue_end,
                        end_churn |-> process.exit_queue_end_churn,
                        churn_limit |-> process.churn_limit],
                       SetToSortSeq(process.indices_to_eject, <)).vals
        queue == process.indices_to_maybe_activate
        limited == SubSeq(queue, 1, Min({Len(queue), process.churn_limit}))
        activated == ActivatedIndices(snapshot, limited, finality_epoch)
    IN  [i \in DOMAIN ejected |->
            [ejected[i] EXCEPT
                !.activation_eligibility_epoch =
                    IF i \in process.indices_to_set_activation_eligibility
                    THEN current_epoch + 1 ELSE @,
                !.activation_epoch =
                    IF i \in activated THEN ComputeActivationExitEpoch(current_epoch) ELSE @]]

\* process_final_updates, registry part: the effective balances the
\* hysteresis writes.  Balances are not modelled, so the validators whose
\* balance crossed a threshold (at most MaxBalanceChanges of them) and the
\* values written are a free choice, except at the GENESIS_EPOCH boundary:
\* process_rewards_and_penalties returns there (1096), so only the penalty of
\* slash_validator can have lowered a balance, and an unslashed validator's
\* effective balance does not fall.
CanFall(v, current_epoch) == current_epoch # GENESIS_EPOCH \/ v.slashed

FinalEffectiveBalances(vals, current_epoch) ==
    {[i \in DOMAIN vals |-> IF i \in DOMAIN eb
                            THEN [vals[i] EXCEPT !.effective_balance = eb[i]]
                            ELSE vals[i]] :
        eb \in {f \in UNION {[C -> EffectiveBalances] :
                               C \in UNION {kSubset(k, DOMAIN vals) :
                                                k \in 0..MaxBalanceChanges}} :
                 \A i \in DOMAIN f :
                    f[i] < vals[i].effective_balance => CanFall(vals[i], current_epoch)}}

-----------------------------------------------------------------------------
(***************************************************************************)
(* Block operations.  Each maps a result record                            *)
(*   [ok, vals, deposit_index, p2i, i2p]                                   *)
(* to the next: ok = FALSE is a raised error, after which the later        *)
(* operations do nothing.  p2i and i2p are the context's pubkey tables,    *)
(* which process_deposit mutates in place.                                 *)
(***************************************************************************)
Fail(st) == [st EXCEPT !.ok = FALSE]

\* process_proposer_slashing (headers and signatures are valid).
ProcessProposerSlashing(st, index, epoch, active_count) ==
    IF ~st.ok THEN st
    ELSE IF ~IsSlashable(st.vals[index], epoch) THEN Fail(st)
    ELSE [st EXCEPT !.vals = SlashValidator(@, index, epoch, active_count)]

\* process_attester_slashing: `indices` is the intersection of the two
\* attestations; slashability is read from the validators captured before
\* the loop.
ProcessAttesterSlashing(st, indices, epoch, active_count) ==
    IF ~st.ok THEN st
    ELSE
      LET snapshot == st.vals
          toSlash == {i \in indices : IsSlashable(snapshot[i], epoch)}
          step(vals, i) == IF i \in toSlash
                           THEN SlashValidator(vals, i, epoch, active_count) ELSE vals
      IN  IF toSlash = {} THEN Fail(st)
          ELSE [st EXCEPT !.vals = FoldLeft(step, @, SetToSortSeq(indices, <))]

(***************************************************************************)
(* process_deposit of DepositContract[deposit_index + 1] (its proof is     *)
(* valid).  A new pubkey with a bad signature only advances the index; a   *)
(* known pubkey is a top-up of the index the context maps it to, and an    *)
(* index past the registry raises IndexError in increase_balance.  Every  *)
(* path that returns normally ends in epochs_ctx.sync_pubkeys(state).      *)
(***************************************************************************)
ProcessDeposit(st) ==
    IF ~st.ok THEN st
    ELSE
      LET d == DepositContract[st.deposit_index + 1]
          vals == IF d.pubkey \notin DOMAIN st.p2i /\ d.signature_ok
                  THEN Append(st.vals, NewValidator(d.pubkey, EffectiveOf(d.amount)))
                  ELSE st.vals
          synced == Ctx!SyncPubkeys(st.p2i, st.i2p, vals)
      IN  IF d.pubkey \in DOMAIN st.p2i /\ st.p2i[d.pubkey] > Len(st.vals) THEN Fail(st)
          ELSE IF d.pubkey \notin DOMAIN st.p2i /\ ~d.signature_ok
          THEN [st EXCEPT !.deposit_index = @ + 1]
          ELSE IF ~synced.ok THEN Fail(st)
          ELSE [st EXCEPT !.deposit_index = @ + 1, !.vals = vals,
                          !.p2i = synced.pubkey2index, !.i2p = synced.index2pubkey]

\* process_voluntary_exit at exit epoch current_epoch (signature valid).
ProcessVoluntaryExit(st, index, current_epoch, active_count) ==
    IF ~st.ok THEN st
    ELSE
      LET v == st.vals[index]
      IN  IF \/ ~IsActive(v, current_epoch)
             \/ v.exit_epoch # FAR_FUTURE_EPOCH
             \/ current_epoch < v.activation_epoch + SHARD_COMMITTEE_PERIOD
          THEN Fail(st)
          ELSE [st EXCEPT !.vals = InitiateValidatorExit(@, index, current_epoch, active_count)]

\* Fault: the deposit count check ignores the eth1 deposit_count.
RequiredDepositsNoCount(deposit_count, deposit_index) == MAX_DEPOSITS

\* The number of deposits process_operations requires of a block.
RequiredDeposits(deposit_count, deposit_index) ==
    Min({MAX_DEPOSITS, deposit_count - deposit_index})

(***************************************************************************)
(* process_operations after the deposit count check.  A block carries at   *)
(* most one slashing (`slashing` is <<"none">>, <<"proposer", i>> or       *)
(* <<"attester", S>>) and at most one voluntary exit (0 for none).         *)
(***************************************************************************)
ProcessOperations(st, slashing, n_deposits, exit, epoch, active_count) ==
    LET s1 == CASE slashing[1] = "proposer" ->
                       ProcessProposerSlashing(st, slashing[2], epoch, active_count)
                [] slashing[1] = "attester" ->
                       ProcessAttesterSlashing(st, slashing[2], epoch, active_count)
                [] OTHER -> st
        s2 == FoldLeft(LAMBDA acc, k : ProcessDeposit(acc), s1,
                       [k \in 1..n_deposits |-> k])
    IN  IF exit = 0 THEN s2 ELSE ProcessVoluntaryExit(s2, exit, epoch, active_count)

-----------------------------------------------------------------------------
(* The state machine.                                                      *)

\* Genesis: the first GenesisDeposits deposits are active validators, the
\* context is load_state of the genesis state.
Init ==
    LET genesis == [i \in 1..GenesisDeposits |-> GenesisValidator(DepositContract[i])]
    IN
    /\ slot = GENESIS_EPOCH * SLOTS_PER_EPOCH
    /\ validators = genesis
    /\ eth1_data = GenesisDeposits
    /\ eth1_data_votes = <<>>
    /\ eth1_deposit_index = GenesisDeposits
    /\ latest_block_slot = slot
    /\ JF!Init
    /\ Ctx!LoadState(genesis, GENESIS_EPOCH * SLOTS_PER_EPOCH)

CurrentEpoch == current_shuffling.epoch

(***************************************************************************)
(* One iteration of the process_slots loop that is not the last slot of an *)
(* epoch: _process_slot caches roots (not modelled), then slot + 1.        *)
(***************************************************************************)
ProcessSlot ==
    /\ slot < MaxSlot
    /\ (slot + 1) % SLOTS_PER_EPOCH # 0
    /\ slot' = slot + 1
    /\ UNCHANGED <<validators, eth1_data, eth1_data_votes, eth1_deposit_index,
                   latest_block_slot, jfState, ctxState>>

(***************************************************************************)
(* The last slot of an epoch: process_epoch (prepare, justification and   *)
(* finalization, registry updates, final updates; rewards and slashings   *)
(* only move balances), then rotate_epochs on the state at the next slot, *)
(* then slot + 1.  The attesters whose target votes were included are a    *)
(* free choice among the validators of each shuffling.                     *)
(***************************************************************************)
ProcessEpochSlot ==
    /\ slot < MaxSlot
    /\ (slot + 1) % SLOTS_PER_EPOCH = 0
    /\ LET process == PrepareEpochProcessState(validators, CurrentEpoch)
       IN
       \E prev_stake \in {TargetStake(validators, A) :
                              A \in SUBSET previous_shuffling.active_indices},
          curr_stake \in {TargetStake(validators, A) :
                              A \in SUBSET current_shuffling.active_indices} :
          /\ JF!ProcessJustificationAndFinalization(
                 previous_shuffling.epoch, CurrentEpoch,
                 prev_stake, curr_stake, process.total_active_stake)
          /\ validators' \in FinalEffectiveBalances(
                 ProcessRegistryUpdates(process, validators, CurrentEpoch,
                                        finalized_checkpoint'),
                 CurrentEpoch)
          /\ eth1_data_votes' =
                 IF (CurrentEpoch + 1) % EPOCHS_PER_ETH1_VOTING_PERIOD = 0
                 THEN <<>> ELSE eth1_data_votes
          /\ Ctx!RotateEpochs(validators')
          /\ slot' = slot + 1
    /\ UNCHANGED <<eth1_data, eth1_deposit_index, latest_block_slot>>

\* The deposit counts an eth1 vote may carry.
Eth1Votes ==
    IF HonestEth1Votes THEN eth1_data..Len(DepositContract)
    ELSE 0..Len(DepositContract)

SlashingChoices ==
    {<<"none">>}
    \cup (IF "proposer_slashing" \in OperationKinds
          THEN {<<"proposer", i>> : i \in DOMAIN validators} ELSE {})
    \cup (IF "attester_slashing" \in OperationKinds
          THEN {<<"attester", S>> : S \in UNION {kSubset(k, DOMAIN validators) :
                                                   k \in 1..MaxAttesterSlashingSize}}
          ELSE {})

ExitChoices ==
    {0} \cup (IF "voluntary_exit" \in OperationKinds THEN DOMAIN validators ELSE {})

(***************************************************************************)
(* process_block at the current slot (process_slots has brought the state  *)
(* there).  The header needs a new slot and an unslashed proposer; the     *)
(* eth1 vote is appended and adopted on a majority of the voting period;   *)
(* then the deposit count check and the operations.  On an error the      *)
(* state is dropped, but the pubkey tables of the context keep what        *)
(* sync_pubkeys wrote unless the caller handed process_block a copy().     *)
(***************************************************************************)
ProcessBlock ==
    /\ slot > latest_block_slot
    /\ ~validators[Ctx!GetBeaconProposer(slot)].slashed
    /\ \E vote \in Eth1Votes, slashing \in SlashingChoices,
          exit \in ExitChoices :
       LET votes == Append(eth1_data_votes, vote)
           adopted ==
               /\ vote # eth1_data
               /\ Len(SelectSeq(votes, LAMBDA x : x = vote)) * 2
                      > EPOCHS_PER_ETH1_VOTING_PERIOD * SLOTS_PER_EPOCH
           deposit_count == IF adopted THEN vote ELSE eth1_data
           n == RequiredDeposits(deposit_count, eth1_deposit_index)
           r == ProcessOperations(
                    [ok |-> n >= 0, vals |-> validators,
                     deposit_index |-> eth1_deposit_index,
                     p2i |-> pubkey2index, i2p |-> index2pubkey],
                    slashing, n, exit, CurrentEpoch,
                    Cardinality(current_shuffling.active_indices))
       IN
       /\ eth1_deposit_index + n <= Len(DepositContract)
       /\ IF r.ok
          THEN /\ validators' = r.vals
               /\ eth1_data' = deposit_count
               /\ eth1_data_votes' = votes
               /\ eth1_deposit_index' = r.deposit_index
               /\ latest_block_slot' = slot
          ELSE UNCHANGED <<validators, eth1_data, eth1_data_votes,
                           eth1_deposit_index, latest_block_slot>>
       /\ pubkey2index' = IF r.ok \/ ~CallerCopiesContext THEN r.p2i ELSE pubkey2index
       /\ index2pubkey' = IF r.ok \/ ~CallerCopiesContext THEN r.i2p ELSE index2pubkey
    /\ UNCHANGED <<slot, jfState, proposers, previous_shuffling,
                   current_shuffling, next_shuffling>>

Next == ProcessSlot \/ ProcessEpochSlot \/ ProcessBlock

Spec == Init /\ [][Next]_vars

-----------------------------------------------------------------------------
(* Properties.                                                            *)

Epochs == 0..FAR_FUTURE_EPOCH

TypeOK ==
    /\ slot \in 0..MaxSlot
    /\ validators \in Seq([pubkey : {d.pubkey : d \in Range(DepositContract)},
                           effective_balance : 0..MAX_EFFECTIVE_BALANCE,
                           slashed : BOOLEAN,
                           activation_eligibility_epoch : Epochs,
                           activation_epoch : Epochs,
                           exit_epoch : Epochs,
                           withdrawable_epoch : Epochs])
    /\ eth1_deposit_index \in 0..Len(DepositContract)
    /\ JF!TypeOK
    /\ Ctx!TypeOK

(***************************************************************************)
(* The cached shufflings of the EpochsContext are those a fresh            *)
(* load_state would compute: rotate_epochs reuses the `next` shuffling it *)
(* built one epoch earlier, which is right only because every activation  *)
(* and exit written since lies beyond the next epoch                       *)
(* (compute_activation_exit_epoch).  The proposers are active validators.  *)
(***************************************************************************)
EpochsContextCoherent ==
    LET cur == Ctx!EpochAtSlot(slot)
        prev == IF cur = GENESIS_EPOCH THEN GENESIS_EPOCH ELSE cur - 1
    IN  /\ current_shuffling = Ctx!ShufflingEpoch(validators, cur)
        /\ previous_shuffling = Ctx!ShufflingEpoch(validators, prev)
        /\ next_shuffling = Ctx!ShufflingEpoch(validators, cur + 1)
        /\ \A s \in Ctx!EpochSlots : proposers[s] \in current_shuffling.active_indices

(***************************************************************************)
(* No epoch is the exit epoch, or (after genesis) the activation epoch, of *)
(* more validators than the churn limit: initiate_validator_exit (blocks)  *)
(* and the ejection loop of process_registry_updates (epochs) both fill    *)
(* the exit queue, from two different computations of its end.  With      *)
(* CHURN_LIMIT_QUOTIENT above the registry size the limit is               *)
(* MIN_PER_EPOCH_CHURN_LIMIT at every epoch.                               *)
(***************************************************************************)
ChurnBounded ==
    \A e \in Epochs \ {FAR_FUTURE_EPOCH} :
        /\ ExitChurnAt(validators, e) <= MIN_PER_EPOCH_CHURN_LIMIT
        /\ e > GENESIS_EPOCH =>
             Cardinality({i \in DOMAIN validators : validators[i].activation_epoch = e})
                 <= MIN_PER_EPOCH_CHURN_LIMIT

(***************************************************************************)
(* A validator's status epochs never go backwards:                        *)
(* eligibility <= activation <= exit <= withdrawable, and a slashed        *)
(* validator has initiated its exit.  Exits come from voluntary exits,     *)
(* slashings and ejections, each guarded in a different place.            *)
(***************************************************************************)
StatusEpochsOrdered ==
    \A i \in DOMAIN validators :
        LET v == validators[i]
        IN  /\ v.activation_eligibility_epoch <= v.activation_epoch
            /\ v.activation_epoch <= v.exit_epoch
            /\ v.exit_epoch <= v.withdrawable_epoch
            /\ v.slashed => v.exit_epoch # FAR_FUTURE_EPOCH

(***************************************************************************)
(* The activation queue: a validator activated after genesis was eligible  *)
(* at a finalized epoch, and no validator still waiting in the queue is    *)
(* ahead of it in (activation_eligibility_epoch, index) order.             *)
(***************************************************************************)
QueueKeyBefore(i, j) ==
    LET ei == validators[i].activation_eligibility_epoch
        ej == validators[j].activation_eligibility_epoch
    IN  ei < ej \/ (ei = ej /\ i < j)

ActivationQueueRespected ==
    \A a \in DOMAIN validators :
        LET activated == validators[a].activation_epoch \notin {GENESIS_EPOCH, FAR_FUTURE_EPOCH}
        IN  activated =>
              /\ validators[a].activation_eligibility_epoch <= finalized_checkpoint
              /\ \A w \in DOMAIN validators :
                    validators[w].activation_epoch = FAR_FUTURE_EPOCH
                    => QueueKeyBefore(a, w)

(***************************************************************************)
(* The pubkey tables of the context describe the registry: index i holds   *)
(* the pubkey of validator i and the pubkey maps back to i.  process_deposit *)
(* decides between a new validator and a top-up from pubkey2index, so a    *)
(* stale table sends a deposit to the wrong place.                         *)
(***************************************************************************)
PubkeyCacheMatchesRegistry ==
    /\ Len(index2pubkey) = Len(validators)
    /\ DOMAIN pubkey2index = {validators[i].pubkey : i \in DOMAIN validators}
    /\ \A i \in DOMAIN validators :
          /\ index2pubkey[i] = validators[i].pubkey
          /\ pubkey2index[validators[i].pubkey] = i

(***************************************************************************)
(* Every deposit the state has processed is one the adopted eth1 data      *)
(* counts (spec section 8, invariant 4): the deposit count check of        *)
(* process_operations never lets a block take deposits past                *)
(* eth1_data.deposit_count.                                                *)
(***************************************************************************)
Eth1DepositIndexBounded == eth1_deposit_index <= eth1_data

(***************************************************************************)
(* spec.md law 11: process_slots(S, S.slot + n) performs exactly n slot   *)
(* updates, so below MaxSlot the next slot update can always be taken.    *)
(* It cannot when the shuffling rotate_epochs moves into the current      *)
(* epoch has no active validator: _reset_proposers calls                  *)
(* compute_proposer_index, which raises on an empty index list (348), and *)
(* process_slots fails at that boundary for good.                         *)
(***************************************************************************)
SlotsAlwaysAdvance == slot < MaxSlot => ENABLED (ProcessSlot \/ ProcessEpochSlot)
=============================================================================
