# TLA+ models of the Medalla fast state transition

This directory holds TLA+ models of `src/eth2/beacon/state_machines/forks/medalla/eth2fastspec.py`, the optimised beacon-chain state transition of trinity-eth2, together with the TLC configurations that check them. `PROJECT.json` lists:

- the components,
- the runs,
- the mutants that each property must catch,
- the map from every definition to the source lines it translates,
- the hazards.

## The system

`eth2fastspec.py` has three layers.

1. **The slot driver.** `process_slots` (1728-1746) advances a state one slot at a time. At the last slot of an epoch it runs `process_epoch` (1749-1757). It then calls `EpochsContext.rotate_epochs` on the state of the next slot (1742). `process_block` (1760-1769) runs in this order:
   - the header check;
   - RANDAO;
   - eth1 voting;
   - `process_operations`, which covers proposer slashings, attester slashings, attestations, deposits and voluntary exits.
2. **The epoch transition.**
   - `prepare_epoch_process_state` (646-858) summarises the registry into an `EpochProcess`:
     - statuses;
     - the exit queue end and its churn;
     - the validators to eject, to mark eligible and to maybe activate (sorted by eligibility);
     - the stake sums.
   - Then the following functions run on that summary, in order:
     - `process_justification_and_finalization` (861-935);
     - rewards and penalties;
     - `process_registry_updates` (1130-1186);
     - `process_slashings`;
     - `process_final_updates` (1208-1273).
3. **The `EpochsContext` cache** (372-517) travels beside the state. It holds:
   - the pubkey tables `pubkey2index` and `index2pubkey`;
   - three cached `ShufflingEpoch`s (previous, current, next);
   - the proposers of the current epoch.

   `process_deposit` mutates the tables in place through `sync_pubkeys` (1698). `rotate_epochs` shifts the shufflings at each epoch boundary. A `ShufflingEpoch` shuffles its active indices with `unshuffle_list` (the swap-or-not shuffle, 101-255) and slices them into committees (318-336).

`src/.../serenity/epoch_processing.py` is the archived pre-Medalla, slot-based pipeline, and spec.md:289 calls it legacy. It has three steps:

- `process_crosslinks` (47-107): for each committee of the last epoch, the shard root voted by the most stake becomes the crosslink if it has 2/3 of the committee's stake.
- `process_validator_registry` (175-240): it copies the current shuffling inputs (calculation slot, start shard, seed) to the previous ones, and writes the next index root. Then one of two things happens:
  - a registry change, when finality and every committee shard's crosslink are newer than `validator_registry_update_slot`: the start shard moves on and a new seed is drawn;
  - otherwise, a reseed when the epochs since the last change are a power of two.
- `process_final_updates` (246-271): it carries the penalized balance forward and prunes old attestations.

Neither its helpers nor any caller are in the repository.

## Modules

| Module | Models | State ↔ code |
|---|---|---|
| `JustificationFinalization` | `process_justification_and_finalization` | The variables are the three checkpoints (each reduced to its epoch; on one chain the root is a function of the epoch) and `justification_bits`. The whole handler is one operator: the genesis early return, the shift, the two supermajority tests and the four finalization rules in code order, where the last rule that fires wins. `justified` is a history variable. |
| `Finality` | the abstract promise of finality | Epochs end one at a time. Any epoch may become justified. Finality only moves to a justified epoch that has a justified successor within two epochs. |
| `MCJustificationFinalization` | drives the handler with every stake outcome | Shows that the handler refines `Finality` (`INSTANCE Finality WITH finalized <- finalized_checkpoint`). |
| `MCFinalityLiveness` | the slot clock driving `process_epoch` (1749-1752) | Its `LiveSpec` is the specification of the run `jf_refinement`. It extends `MCJustificationFinalization` with a variable `participation`, which the environment sets once, while at least `BoundariesToFinality` epochs remain, to one of two modes. In `"full"`, every boundary has supermajority target stake in both epochs. In `"delayed"`, only the previous epoch's target has it: the votes for each epoch are included in the epoch after it, and the current target may fail every time. `LiveEndEpoch` is one epoch boundary, that is, one call of the handler. |
| `EpochsContext` | `EpochsContext` | The pubkey tables, the proposers, and three shufflings, each abstracted to `[epoch, active_indices]`. Operations: `load_state`, `sync_pubkeys` (including its length-mismatch error), `rotate_epochs` with `_reset_proposers`, and `get_beacon_proposer`. Proposer sampling is a choice over the active indices, because every active validator can be drawn. |
| `StateTransition` | the registry-level state transition | The registry, the eth1 data and votes, the deposit index and the last block slot, composed with an instance of each module above. Three actions, described below. |
| `MCStateTransition` | a concrete deposit contract | Three deposits, chosen so that all of these cases occur: a deposit over the maximum, a deposit below the maximum, a pending validator that can be ejected, and a late activation. |
| `EpochRewards` | the balance side of `process_epoch`, composed with `JustificationFinalization` | Integer balances, effective balances and the registry epochs of 2 validators, the slashings vector, and the previous and current `PendingAttestation` lists. The state also has the slot, the epoch, the block proposer, and the shufflings of the current and previous epochs. Each shuffling is any ordering of the active set, since the seed is a hash. `IncludeAttestation` is `process_attestation` (1561-1633), with `get_attesting_indices` (1636-1645) and the non-empty index check of `is_valid_indexed_attestation` (1534-1558), in a block of the current slot and proposer. The data slot lies in the inclusion window. The committee is looked up with `get_beacon_committee`. The participants are the committee members whose aggregation bit is set, and they must not be empty. The votes are target/head. The attestation goes to the current or previous list by the epoch of its data. `ProcessSlot` is `process_slots` within an epoch; it draws the next proposer. `ProcessEpoch` is `process_epoch` (1749-1757) without the registry step: `prepare_epoch_process_state` with the full attestation tally of `status_process_epoch`, then `JF!ProcessJustificationAndFinalization` on the tallied stakes, then rewards and penalties reading the new finalized checkpoint, then `process_slashings`, then the final updates (hysteresis, slashings reset, attestation rotation), and then `rotate_epochs`, which draws the next shuffling and proposer from the new registry. `integer_squareroot` is its Newton loop. |
| `Committees` | `compute_committee_count`, the committee slicing of `ShufflingEpoch`, `_get_slot_comms`, `get_beacon_committee` | Operators over a shuffling (a sequence of indices): the committee count, the slice of a committee, and the committees of a slot looked up through a map from epochs to shufflings. `Shuffling` and `EpochRewards` extend it. |
| `Shuffling` | `unshuffle_list` / `shuffle_list` / `_inner_shuffle_list` | One round per step. Each round runs both mirrored loops, with the code's byte and source caches (`j & 0x7 == 0x7`, `j & 0xFF == 0xFF`). The hash is a deterministic pseudo-hash of (seed, round, position). |
| `SerenityEpoch` | the legacy `serenity/epoch_processing.py` | The variables are the slot, the finalized slot, `validator_registry_update_slot`, the current and previous calculation slot, start shard and seed, `latest_crosslinks`, `latest_index_roots`, `latest_penalized_balances` and `latest_attestations`. One action per function. The imported helpers are absent from the repository and are abstracted at their call sites: a fixed committee per slot, seeds and index roots as injective values, and any root of greatest attesting stake as the winner. Because no caller exists, an epoch runs the steps in the order of the Phase 0 document the docstring links: attestations, the boundary (which may finalize an earlier boundary), then crosslinks, registry and final updates. `last_registry_change` is a history variable, and so is `start_shard_of`, the start shard in force in each epoch. So is `counted`: the attestations some `process_crosslinks` has read, kept only while they are still in `latest_attestations`. |

The three actions of `StateTransition` are:

- `ProcessSlot`: a slot that is not an epoch boundary.
- `ProcessEpochSlot`: an epoch boundary. In order, it runs:
  1. `prepare_epoch_process_state`;
  2. justification with `JF!ProcessJustificationAndFinalization`;
  3. `process_registry_updates`, using the new finalized checkpoint;
  4. the effective-balance hysteresis of `process_final_updates`;
  5. the eth1 vote reset;
  6. `Ctx!RotateEpochs`.
- `ProcessBlock`: the header guards, eth1 vote adoption, the deposit count check, then proposer slashing, attester slashing, deposits and voluntary exit, each with its error paths.

If any step of `ProcessBlock` raises, the state is unchanged. The pubkey tables are unchanged only if `CallerCopiesContext` is TRUE: the caller passes `epochs_ctx.copy()`. Otherwise the tables keep what `sync_pubkeys` wrote.

Definitions modelled from code outside `src/` (for example `compute_activation_exit_epoch`, `is_slashable`, `compute_shuffled_index` and genesis) are marked `spec_modelled` in the map.

### Abstractions

- In `StateTransition`, balances are not modelled. Effective balances change at the epoch boundary by a bounded free choice from `EffectiveBalances`, which stands for rewards, penalties and the hysteresis. At the genesis boundary only a slashed validator's effective balance may fall, because `process_rewards_and_penalties` returns there (1096) and only the `slash_validator` penalty can have lowered a balance (`CanFall`).
- In `StateTransition`, attestations are not modelled. The target stakes that `status_process_epoch` tallies are chosen as the effective-balance sum of any subset of the previous or current active set. `EpochRewards` models both balances and attestations.
- Signatures and roots are not modelled, except for a deposit's signature bit. An invalid deposit signature only advances the deposit index, as at 1663-1664.

## Runs

| Run | Config | Checks | Shows |
|---|---|---|---|
| `jf_refinement` | `MCFinalityLiveness.cfg` | `TypeOK`, `BitsAligned`, `ImplementsFinality`, `FinalityProgresses`, `DelayedFinalityProgresses` | Over 9 epochs with any target stakes: bit *i* always stands for epoch *e − i*, and finality only moves to a justified epoch with a justified successor (refinement of `Finality`). Under weak fairness of epoch boundaries, progress holds in both modes. Under full participation, finality eventually reaches the epoch two before the current one, through the fourth rule. Under delayed participation, it eventually comes within four epochs of it, through the first and second rules. Rule 3 fires only in mixed patterns, and no liveness property depends on it. |
| `registry_ops` | `MCStateTransition.cfg` | `TypeOK`, `EpochsContextCoherent`, `ChurnBounded`, `StatusEpochsOrdered`, `PubkeyCacheMatchesRegistry`, `Eth1DepositIndexBounded` | Slashings, deposits, exits, ejections, activations and balance changes are interleaved over 3 epochs. Throughout: the cached shufflings equal a recomputation from the registry; no epoch gets more exits, or post-genesis activations, than the churn limit; eligibility ≤ activation ≤ exit ≤ withdrawable; the pubkey tables match the registry. Eth1 votes may carry any deposit count, smaller ones included. Still, `eth1_deposit_index` never exceeds the adopted deposit count, because the block that adopts a smaller count fails its own deposit count check (1367). |
| `activation_queue` | `MCStateTransitionQueue.cfg` | `ActivationQueueRespected` | Over 5 epochs in which finality advances, two late deposits of the maximum contend for a churn limit of 1, entering in one block or in two. A validator is activated only if its eligibility epoch is finalized, and none is activated ahead of an earlier entry in the (eligibility epoch, index) queue. TLC reaches both orders of interest: both eligible at the same epoch, and one activated while the other, already eligible and finalized, waits. |
| `stale_context` (violation) | `MCStaleContext.cfg` | `PubkeyCacheMatchesRegistry` | Without `copy()`, a block that processes a deposit and then fails leaves the pubkey in the context tables. See the finding below. |
| `epoch_rewards` | `MCEpochRewards.cfg` | `TypeOK`, `LeakNeutralForOptimalAttester`, `EffectiveBalanceHysteresis` | Over 4 epochs of attestations, misses, a genesis slashing and an inactivity leak: in a leak, a validator that attested source, target and head with delay 1 never loses balance. After each boundary, every effective balance is within the hysteresis band of its balance, or at the cap. |
| `inclusion_ties` | `MCEpochRewardsTies.cfg` | `InclusionCreditGoesToEarliest`, `IntegerSquarerootCorrect` | With 2 attestations per epoch, included in any slot of their window: the inclusion reward of each attester goes to the proposer of its earliest inclusion, and a later, slower inclusion never replaces it. A tie in delay cannot change the credit, because a validator's attestations of one epoch come from its one committee and so share a data slot. `integer_squareroot` agrees with its definition on 0..300 and on every reached total stake. |
| `zero_stake_justification` (violation) | `MCZeroStakeJustification.cfg` | `JustificationBackedByStake` | Justification is not backed by attesting stake once the active stake is at most 1.5 increments. See the second finding. |
| `zero_active_halt` (violation) | `MCZeroActiveHalt.cfg` | `SlotsAlwaysAdvance` | Below `MaxSlot` the next slot update can not always be taken. See the third finding. |
| `serenity_epoch` | `MCSerenityEpoch.cfg` | `TypeOK`, `AttestationsMatchEpochShuffling`, `RegistryChangeNeedsFreshCrosslinks` | Over 4 epochs of legacy processing, with any finality and attestations: every attestation kept in `latest_attestations` names a shard of its slot's committees under the start shard that was in force in its own epoch. This holds across registry changes, because the previous-epoch fields are copied before the current ones are overwritten (174-178). The start shard moves only when every shard that `process_crosslinks` walked has a crosslink newer than `validator_registry_update_slot`. |
| `serenity_late_votes` (violation) | `MCSerenityLateVotes.cfg` | `VotesCountedBeforePruning` | An attestation is pruned from `latest_attestations` before any `process_crosslinks` has counted it. See the fifth finding. |
| `serenity_stale_registry` (violation) | `MCSerenityStaleRegistry.cfg` | `RegistryChangeNeedsNewFinality` | A second registry change happens without finality newer than the first. See the fourth finding. |
| `shuffle` | `MCShuffling.cfg` | `TypeOK`, `UnshuffleMatchesReference`, `ShuffleInvertsUnshuffle`, `CommitteesPartitionShuffling` | For lists of 0-10 indices and 8 seeds, the fast unshuffle agrees with `compute_shuffled_index` position by position, `shuffle_list` inverts it, and the committees partition the shuffling in order. |

Each property of a passing run has a mutant in `PROJECT.json`: a plausible bug in the mapped definition that TLC must catch. Examples:

- the byte cache reloaded at `j % 8 = 0`;
- an exit-queue test with `>` instead of `>=`;
- the activation queue sorted with its index tie-break reversed;
- the previous-epoch shuffling fields of the legacy registry step copied after the update;
- `sync_pubkeys` starting one index late.

### Findings

`process_deposit` calls `epochs_ctx.sync_pubkeys(state)`, which mutates the caller's context in place. If a later operation of the same block raises, the block is rejected, but the context keeps the new pubkey. This contradicts two parts of spec.md:

- §4.3 says `sync_pubkeys` extends the tables for newly appended validators, and the memory discipline (spec.md line 223) says `pubkey2index` grows with `validators`, so the tables follow the registry;
- law 8 requires `process_block` to be free of side effects, the context included.

The run `stale_context` reaches the violation at depth 6. After that, two things go wrong:

- Re-including the same deposit looks up an index the registry does not have (1658, 1695), so every block that must carry it fails.
- A different new pubkey is appended to the registry but never to the tables.

Callers must `copy()` the context before each block attempt. `registry_ops` shows that with copying the tables stay consistent.

The second finding is a gap in spec.md. `prepare_epoch_process_state` clamps `total_active_stake` (712) and each target stake (845-856) to at least one increment, as spec.md §4.4.1 also states. The glossary, however, says a checkpoint is justified when at least 2/3 of the active stake attests. The two disagree whenever the active stake is positive but at most 1.5 increments: `3 * INC >= 2 * total` then holds with nobody attesting. The run `zero_stake_justification` reaches this in 3 boundaries, with neither validator slashed:

1. Both validators start with effective balance 8, two increments. One attestation is included in epoch 0. At the genesis boundary, rewards return early (1096) and nothing is justified.
2. Nobody attests in epoch 1. At its boundary the penalties bring the balances to 6 and 3, and the hysteresis lowers the effective balances to 4 and 0. Both validators are still active.
3. Nobody attests in epoch 2 either. At its boundary the active stake is 4, one increment, and the clamped target stakes of both epochs are 4 too. `3 * 4 >= 2 * 4` holds, so epochs 1 and 2 are justified with zero attesting stake.

In the real chain, ejection below `EJECTION_BALANCE` only queues an exit, so such validators stay active for at least `1 + MAX_SEED_LOOKAHEAD` epochs.

The third finding is also a gap in spec.md. Law 11 says `process_slots(S, S.slot + n)` performs exactly *n* slot updates. However, `rotate_epochs` (1742) calls `compute_proposer_index` for the epoch being entered, and that function raises on an empty index list (348). The run `zero_active_halt` reaches this in 7 states:

1. The block at slot 1 carries an attester slashing of validators 1 and 2. `initiate_validator_exit` gives them exit epochs 2 and 3, because the churn limit is 1.
2. At the boundary of epoch 1, `rotate_epochs` computes the next shuffling, that of epoch 3, and it is empty.
3. At slot 5, the last slot of epoch 2, the rotation into epoch 3 would compute the proposers of an empty index list, so the slot can never be processed.

At the genesis boundary the effective balances of unslashed validators cannot fall, since rewards and penalties return early there (1096). The model's free choice of effective balances respects this, so the trace does not depend on it.

The official specification asserts the same condition, so the chain halts rather than diverging from it. Nothing in the code refuses the last exit.

The fourth finding is a bug in the legacy serenity code. `update_validator_registry` (137-139) is a TODO stub that returns the state unchanged, so `validator_registry_update_slot` stays at genesis. The guard at 115 is meant to demand finality newer than the last registry change, but it now compares against genesis. The run `serenity_stale_registry` reaches this in 16 steps:

1. A registry change happens at slot 4, with finality at slot 2.
2. Another happens at slot 6, with finality still at slot 4.

The power-of-two reseeding (214-217) also counts epochs from genesis, not from the last change. spec.md treats the file as archived, so this does not affect the Medalla chain.

The fifth finding is a disagreement inside the same legacy file. The docstring of `process_crosslinks` (52-54) says it counts the attestations of the past two epochs. The loop at 62 walks only the slots of the last epoch, and `process_final_updates` (260-266) then drops every attestation whose data slot is older than that epoch. An attestation included late, for a slot of the epoch before, is therefore pruned without ever being counted toward a crosslink. The run `serenity_late_votes` reaches this in 10 steps (11 states). A vote for slot 0, in epoch 0, is included by a block of epoch 1 (slots 2 and 3). At the boundary at slot 4, `process_crosslinks` reads only slots 2 and 3, and `process_final_updates` then drops the vote.

## Bounds

**`MCStateTransition`:**

| Bound | Value |
|---|---|
| Slots per epoch | 2 |
| `MaxSlot` (main runs) | 6, i.e. three epoch boundaries |
| `MaxSlot` (`activation_queue`) | 10, i.e. five boundaries |
| Validators | 2 genesis + 1 late deposit below the maximum (main runs); 2 genesis + 2 late deposits of the maximum (`activation_queue`) |
| `MAX_DEPOSITS` | 1 (main runs), 2 (`activation_queue`) |
| `MIN_PER_EPOCH_CHURN_LIMIT` | 1 |
| `MAX_SEED_LOOKAHEAD` | 1 |
| Effective balances | {2, 4}, with one change per boundary |
| Attester slashings | up to 2 indices |

Why these bounds are enough:

- With a churn limit of 1, two exits in one block or epoch already contend for the queue.
- Three epochs are enough for the following sequence: deposit → eligibility → finality → activation.
- A lookahead of 1 makes the next shuffling stale after any status change that was not delayed.
- The `activation_queue` run disables operations, so that it can reach finality-gated activation within 5 epochs. Its two late deposits are needed for the queue order and the churn cut to matter. With `MAX_DEPOSITS` = 2 they may share an eligibility epoch, which leaves the index tie-break to decide.

**`Shuffling`:** 3 rounds and lists up to 10 long. That crosses the 8-bit byte boundary of the cache, but not the 256-position source boundary. Committees use 2 slots with up to 2 committees per slot.

**`EpochRewards`:**

| Bound | Value |
|---|---|
| Validators | 2; validator 2 may start slashed |
| `EFFECTIVE_BALANCE_INCREMENT`, `MAX_EFFECTIVE_BALANCE` | 4, 8 |
| `BASE_REWARD_FACTOR`, `BASE_REWARDS_PER_EPOCH`, `PROPOSER_REWARD_QUOTIENT` | 4, 4, 2 |
| `MIN_EPOCHS_TO_INACTIVITY_PENALTY` | 1 |
| `MaxAttestations` per epoch | 1 (`epoch_rewards`), 2 (`inclusion_ties`) |
| `MaxEpoch` | 4 (`epoch_rewards`), 2 (`inclusion_ties`) |

The constants are scaled so that base rewards are a few units: every division in the reward formulas truncates, the proposer reward is non-zero, and a leak begins at epoch 3. The hysteresis quotient 4 gives a threshold of one unit down and five up, so both directions of the band are reached. Four epochs cover every combination of the following:

- a genesis slashing whose penalty lands at `withdrawable − EPOCHS_PER_SLASHINGS_VECTOR/2`;
- a leak with and without target votes;
- a validator drained to one increment.

Both runs use 2 slots per epoch, `TARGET_COMMITTEE_SIZE` 1 and up to 2 committees per slot. With 2 active validators this gives one committee of one validator per slot, so each validator attests in its own slot, and the proposer of every slot is any active validator. Two attestations in one epoch are needed for a double inclusion; with them the state space allows 2 epochs.

**`SerenityEpoch`:**

| Bound | Value |
|---|---|
| `EPOCH_LENGTH` | 2 |
| `SHARD_COUNT` | 3 |
| Committees per slot | 1, of validators {1,2} and {3,4} |
| `MAX_DEPOSIT_AMOUNT` | 2; validator 1 has balance 3, so the cap applies |
| Validator 4 activation | slot 4, so index roots change |
| Roots | 2 |
| Attestations kept | 2 |
| `MaxSlot` | 8, i.e. 4 epoch boundaries |

Two committee shards per epoch against three shards make the start shard wrap (0, 2, 1) and leave a shard uncrosslinked in each epoch. Four boundaries reach epoch distances 1, 2 and 4 (reseeds) and 3 (no reseed), and two registry changes.

**`jf_refinement`:** 9 epochs and stakes 0..3, which covers every combination of the four bits.

The liveness property of `jf_refinement` uses the same 9 epochs and stakes. Participation may start at any epoch up to 5, so that `BoundariesToFinality` = 4 boundaries remain. Under full participation the minimum is 2. Two boundaries with both epochs justified set bits 0 and 1, and the fourth rule finalizes the epoch two back. With a single boundary, TLC finds `FinalityProgresses` violated. Delayed participation needs 3 boundaries, because bits 1 to 3 must all be set; with 2, TLC finds `DelayedFinalityProgresses` violated. The margin lets participation start from every reachable bit pattern.

## Fairness

The safety runs have no fairness. This follows the code: nothing schedules blocks, so a proposer may skip any slot. The models stop at `MaxSlot` or `MaxEpoch`, and the chain really can stop in one case: the zero-active halt, which `zero_active_halt` reaches. That is why the runs check no deadlock.

The liveness property of `jf_refinement` assumes weak fairness of `LiveEndEpoch`, one epoch boundary. `process_slots` is driven by the wall-clock slot: the next slot is processed whether or not a block arrives. So an enabled boundary is eventually taken. The model assumes no fairness for participation. `participation` is a premise of the leads-to properties, set by an action the environment may take or never take. Within one epoch the model has no other steps, so weak fairness on the boundary is all the fairness the property needs.

## Not modelled, and plans for later sittings

- **Registry updates inside `EpochRewards`.** `EpochRewards` leaves out `process_registry_updates`, so drained validators are not ejected there. `StateTransition` models ejection, but with free effective balances. The two are not yet composed into one model.
- **Attestation signatures and roots.** `EpochRewards` models `get_attesting_indices` and the non-empty check of `is_valid_indexed_attestation`. The sorted-and-unique check always holds there, because `get_indexed_attestation` sorts a set. It drops the BLS signature check and the source/target/head roots, which are hashes. Votes are bits. `StateTransition` still chooses its target stakes freely.
- **Legacy helpers.** `get_winning_root`, `generate_seed`, `get_crosslink_committees_at_slot` and `get_current_epoch_attestations`, which `serenity/epoch_processing.py` imports, are not in the repository. Their abstraction is described under `SerenityEpoch`. The penalized-balance ring is carried forward faithfully. No property is stated on it: which epoch a penalty is recorded under depends on when the absent caller runs the step.
- **`xor`.** It only feeds RANDAO mixing.
- **Liveness of the full transition.** `jf_refinement` checks finality progress on the justification handler. On `StateTransition`, `SlotsAlwaysAdvance` states the halt as a state property: below `MaxSlot`, a slot update is enabled. The equivalent temporal property, `<>(slot = MaxSlot)` under weak fairness of the slot updates, says the same thing. TLC checks it more than 100 times slower on that model, so it is not run.
- **Hash and data only.** RANDAO mixing (`process_randao`, the randao-mix copy at 1250-1256), historical roots (1258-1267), block roots and header hashing. They only hash data that no checked property reads. The slashings vector is modelled in `EpochRewards`.
- **Class boilerplate.** The constructors and `copy` of `EpochsContext` (372-388, 445-449), the `AttesterStatus`, `FlatValidator` and `EpochProcess` classes (532-632), and `Deltas` (938-958). These only declare fields; their content is the state of the modules above.
- **`process_block` itself** (1760-1769). It only sequences the handlers that `StateTransition.ProcessBlock` and `EpochRewards.IncludeAttestation` model.
