--------------------------- MODULE SerenityEpoch ---------------------------
(***************************************************************************)
(* The legacy slot-based per-epoch processing of                          *)
(* src/eth2/beacon/state_machines/forks/serenity/epoch_processing.py:     *)
(* process_crosslinks, process_validator_registry (with                   *)
(* _check_if_update_validator_registry, the update_validator_registry     *)
(* stub and _update_latest_index_roots) and process_final_updates.        *)
(*                                                                         *)
(* The helpers the file imports (get_crosslink_committees_at_slot,        *)
(* get_winning_root, generate_seed, is_power_of_two,                      *)
(* get_effective_balance, get_active_validator_indices) are not part of   *)
(* the repository.  Each one is abstracted here to what its call site     *)
(* needs: committees by a fixed assignment, hashes by injective values,   *)
(* the winning root by any root of greatest attesting stake.              *)
(*                                                                         *)
(* The repository has no caller of these functions either.  One epoch     *)
(* transition runs them once each, in the order of the Phase 0 document   *)
(* the docstring of process_crosslinks links: crosslinks, registry, final *)
(* updates.  Finality and attestations come from processing outside    *)
(* the file and are chosen by the environment.                           *)
(***************************************************************************)
EXTENDS Integers, Sequences, FiniteSets, FiniteSetsExt, SequencesExt

CONSTANTS
    EPOCH_LENGTH,
    SHARD_COUNT,
    COMMITTEES_PER_SLOT,          \* get_current_epoch_committee_count_per_slot
    LATEST_INDEX_ROOTS_LENGTH,
    LATEST_PENALIZED_EXIT_LENGTH,
    MAX_DEPOSIT_AMOUNT,
    V,                            \* validator indices
    Balance,                      \* validator_balances, [V -> Nat]
    ActivationSlot,               \* registry activation slots, [V -> Nat]
    CommitteeAt,                  \* members of the j-th committee of the k-th slot
    Roots,                        \* shard block roots
    ZERO_HASH,
    MaxSlot,                      \* last epoch boundary explored
    MaxAttestations               \* bound on latest_attestations

VARIABLES
    slot,
    phase,                        \* next step of the epoch transition
    finalized_slot,
    validator_registry_update_slot,
    current_epoch_calculation_slot, previous_epoch_calculation_slot,
    current_epoch_start_shard, previous_epoch_start_shard,
    current_epoch_seed, previous_epoch_seed,
    latest_crosslinks,
    latest_index_roots,
    latest_penalized_balances,
    latest_attestations,
    last_registry_change,         \* history: slot of the last registry update
    counted,                      \* history: attestations some process_crosslinks read
    start_shard_of                \* history: the current_epoch_start_shard of each epoch

registryState == <<validator_registry_update_slot,
                   current_epoch_calculation_slot, previous_epoch_calculation_slot,
                   current_epoch_start_shard, previous_epoch_start_shard,
                   current_epoch_seed, previous_epoch_seed>>
vars == <<slot, phase, finalized_slot, registryState, latest_crosslinks,
          latest_index_roots, latest_penalized_balances, latest_attestations,
          last_registry_change, counted, start_shard_of>>

Shards == 0..(SHARD_COUNT - 1)
Phases == {"attest", "crosslinks", "registry", "final", "done"}

(* generate_seed: a hash of the randao mix and index root of a slot,     *)
(* abstracted to an injective value of that slot.                         *)
GenerateSeed(s) == <<"seed", s>>

(* hash_eth2 of the active indices: an injective value of the set.        *)
IndexRoot(active) == <<"index_root", active>>

(* get_active_validator_indices(registry, slot).                          *)
ActiveAt(s) == {i \in V : ActivationSlot[i] <= s}

(* get_effective_balance(balances, i, MAX_DEPOSIT_AMOUNT).                *)
EffectiveBalance(i) == Min({Balance[i], MAX_DEPOSIT_AMOUNT})

StakeOf(S) == MapThenSumSet(EffectiveBalance, S)

IsPowerOfTwo(n) == n > 0 /\ \E k \in 0..n : 2^k = n

(* get_crosslink_committees_at_slot for a slot of the epoch that starts  *)
(* at current_epoch_start_shard: committee j of slot k covers shard      *)
(* start + k * COMMITTEES_PER_SLOT + j.                                   *)
CrosslinkCommitteesAt(s, start_shard) ==
    {<<CommitteeAt[s % EPOCH_LENGTH][j],
       (start_shard + (s % EPOCH_LENGTH) * COMMITTEES_PER_SLOT + j) % SHARD_COUNT>> :
         j \in 0..(COMMITTEES_PER_SLOT - 1)}

(* Fault: only the shards of the first slot's committees are examined.    *)
CommitteeShardsFirstSlot(start_shard) ==
    {(start_shard + i) % SHARD_COUNT : i \in 0..(COMMITTEES_PER_SLOT - 1)}

(* The shards of the committees of the epoch that starts at start_shard   *)
(* (the set of _check_if_update_validator_registry).                      *)
CommitteeShards(start_shard) ==
    {(start_shard + i) % SHARD_COUNT : i \in 0..(COMMITTEES_PER_SLOT * EPOCH_LENGTH - 1)}

(* get_current_epoch_attestations: the attestations of the epoch ending   *)
(* at the current slot.                                                    *)
CurrentEpochAttestations ==
    {a \in ToSet(latest_attestations) : slot - EPOCH_LENGTH <= a.slot /\ a.slot < slot}

(* get_winning_root over the attestations of one shard: the roots they    *)
(* vote for, and the validators voting for each.                          *)
ShardAttestations(atts, shard) == {a \in atts : a.shard = shard}
CandidateRoots(atts, shard) == {a.shard_block_root : a \in ShardAttestations(atts, shard)}
AttestingIndices(atts, shard, root) ==
    UNION {a.participants : a \in {b \in ShardAttestations(atts, shard) : b.shard_block_root = root}}
WinningRoots(atts, shard) ==
    {r \in CandidateRoots(atts, shard) :
        \A r2 \in CandidateRoots(atts, shard) :
            StakeOf(AttestingIndices(atts, shard, r2)) <= StakeOf(AttestingIndices(atts, shard, r))}

(* The committees of the slots state.slot - EPOCH_LENGTH .. state.slot-1, *)
(* slot by slot and, within a slot, in committee order.                   *)
CrosslinkCommitteesInOrder ==
    [n \in 1..(EPOCH_LENGTH * COMMITTEES_PER_SLOT) |->
        LET s == slot - EPOCH_LENGTH + (n - 1) \div COMMITTEES_PER_SLOT
            j == (n - 1) % COMMITTEES_PER_SLOT
        IN  <<CommitteeAt[s % EPOCH_LENGTH][j],
              (current_epoch_start_shard + (s % EPOCH_LENGTH) * COMMITTEES_PER_SLOT + j) % SHARD_COUNT>>]

(* One committee of the loop of process_crosslinks: no update when no     *)
(* root won, else a new record when 2/3 of the committee's stake voted    *)
(* for the winning root.                                                  *)
CrosslinkStep(atts, winner, links, cs) ==
    LET committee == cs[1]
        shard     == cs[2]
    IN  IF CandidateRoots(atts, shard) = {} THEN links
        ELSE IF 3 * StakeOf(AttestingIndices(atts, shard, winner[shard])) >= 2 * StakeOf(committee)
             THEN [links EXCEPT ![shard] = [slot |-> slot, shard_block_root |-> winner[shard]]]
             ELSE links

ProcessCrosslinks ==
    /\ phase = "crosslinks"
    /\ LET atts == CurrentEpochAttestations IN
       \E winner \in [Shards -> Roots] :
          /\ \A sh \in Shards : CandidateRoots(atts, sh) # {} => winner[sh] \in WinningRoots(atts, sh)
          /\ latest_crosslinks' = FoldLeft(LAMBDA links, cs : CrosslinkStep(atts, winner, links, cs),
                                           latest_crosslinks, CrosslinkCommitteesInOrder)
    /\ counted' = counted \cup CurrentEpochAttestations
    /\ phase' = "registry"
    /\ UNCHANGED <<slot, finalized_slot, registryState, latest_index_roots,
                   latest_penalized_balances, latest_attestations, last_registry_change,
                   start_shard_of>>

(* _check_if_update_validator_registry: finality newer than the last      *)
(* registry update, and every shard of the current committees crosslinked *)
(* since then.                                                             *)
NeedToUpdate ==
    /\ finalized_slot > validator_registry_update_slot
    /\ \A sh \in CommitteeShards(current_epoch_start_shard) :
          latest_crosslinks[sh].slot > validator_registry_update_slot

(* _update_latest_index_roots.                                            *)
UpdateLatestIndexRoots ==
    [latest_index_roots EXCEPT ![(slot \div EPOCH_LENGTH + 1) % LATEST_INDEX_ROOTS_LENGTH] =
        IndexRoot(ActiveAt(slot))]

(* Fault: the previous-epoch fields are copied after the current ones    *)
(* have been updated.                                                     *)
CopyToPreviousAfterUpdate ==
    /\ previous_epoch_calculation_slot' = current_epoch_calculation_slot'
    /\ previous_epoch_start_shard' = current_epoch_start_shard'
    /\ previous_epoch_seed' = current_epoch_seed'

(* The first state.copy of process_validator_registry: the shuffling      *)
(* inputs of the epoch that ended become the previous-epoch ones.         *)
CopyToPrevious ==
    /\ previous_epoch_calculation_slot' = current_epoch_calculation_slot
    /\ previous_epoch_start_shard' = current_epoch_start_shard
    /\ previous_epoch_seed' = current_epoch_seed

(* generate_seed(state, slot=state.current_epoch_calculation_slot), read   *)
(* after the calculation slot has been updated.                           *)
NewEpochSeed(calculation_slot) == GenerateSeed(calculation_slot)

(* Fault: the start shard is advanced without wrapping at SHARD_COUNT.   *)
NextStartShardNoModulo == current_epoch_start_shard + COMMITTEES_PER_SLOT * EPOCH_LENGTH

(* The start shard after a registry change.                               *)
NextStartShard ==
    (current_epoch_start_shard + COMMITTEES_PER_SLOT * EPOCH_LENGTH) % SHARD_COUNT

(* process_validator_registry.  update_validator_registry is a stub that  *)
(* returns the state unchanged, so validator_registry_update_slot keeps    *)
(* its value.                                                              *)
ProcessValidatorRegistry ==
    /\ phase = "registry"
    /\ latest_index_roots' = UpdateLatestIndexRoots
    /\ IF NeedToUpdate
       THEN /\ current_epoch_calculation_slot' = slot
            /\ current_epoch_start_shard' = NextStartShard
            /\ current_epoch_seed' = NewEpochSeed(slot)
            /\ last_registry_change' = slot
       ELSE /\ IF IsPowerOfTwo((slot - validator_registry_update_slot) \div EPOCH_LENGTH)
               THEN /\ current_epoch_calculation_slot' = slot
                    /\ current_epoch_seed' = NewEpochSeed(slot)
               ELSE UNCHANGED <<current_epoch_calculation_slot, current_epoch_seed>>
            /\ UNCHANGED <<current_epoch_start_shard, last_registry_change>>
    /\ CopyToPrevious                \* reads the fields before the update
    /\ start_shard_of' = [start_shard_of EXCEPT ![slot \div EPOCH_LENGTH] = current_epoch_start_shard']
    /\ phase' = "final"
    /\ UNCHANGED <<slot, finalized_slot, validator_registry_update_slot,
                   latest_crosslinks, latest_penalized_balances, latest_attestations, counted>>

(* process_final_updates: carry the penalized balance of this epoch to    *)
(* the next one, and drop attestations older than one epoch.              *)
ProcessFinalUpdates ==
    /\ phase = "final"
    /\ LET epoch == slot \div EPOCH_LENGTH IN
       latest_penalized_balances' =
          [latest_penalized_balances EXCEPT ![(epoch + 1) % LATEST_PENALIZED_EXIT_LENGTH] =
              latest_penalized_balances[epoch % LATEST_PENALIZED_EXIT_LENGTH]]
    /\ latest_attestations' = SelectSeq(latest_attestations, LAMBDA a : a.slot >= slot - EPOCH_LENGTH)
    /\ counted' = counted \cap ToSet(latest_attestations')
    /\ phase' = "done"
    /\ UNCHANGED <<slot, finalized_slot, registryState, latest_crosslinks,
                   latest_index_roots, last_registry_change, start_shard_of>>

-----------------------------------------------------------------------------
(* The environment: blocks include attestations of the last two epochs,   *)
(* signed by members of the committee of their slot and shard.            *)
Attest ==
    /\ phase = "attest"
    /\ Len(latest_attestations) < MaxAttestations
    /\ \E ds \in {s \in 0..(slot - 1) : s >= slot - 2 * EPOCH_LENGTH} :
         LET start == IF ds >= slot - EPOCH_LENGTH THEN current_epoch_start_shard
                                                   ELSE previous_epoch_start_shard
         IN  \E cs \in CrosslinkCommitteesAt(ds, start), r \in Roots :
             \E p \in SUBSET cs[1] \ {{}} :
               latest_attestations' = Append(latest_attestations,
                   [slot |-> ds, shard |-> cs[2], shard_block_root |-> r, participants |-> p])
    /\ UNCHANGED <<slot, phase, finalized_slot, registryState, latest_crosslinks,
                   latest_index_roots, latest_penalized_balances, last_registry_change, counted, start_shard_of>>

(* The epoch boundary: justification, outside this file, may finalize an  *)
(* earlier epoch boundary before the processing of this file starts.      *)
EpochBoundary ==
    /\ phase = "attest"
    /\ \E f \in {finalized_slot} \cup
               {k * EPOCH_LENGTH : k \in (finalized_slot \div EPOCH_LENGTH + 1)..(slot \div EPOCH_LENGTH - 1)} :
         finalized_slot' = f
    /\ phase' = "crosslinks"
    /\ UNCHANGED <<slot, registryState, latest_crosslinks, latest_index_roots,
                   latest_penalized_balances, latest_attestations, last_registry_change, counted, start_shard_of>>

(* The slots of the next epoch pass.                                      *)
NextEpoch ==
    /\ phase = "done"
    /\ slot + EPOCH_LENGTH <= MaxSlot
    /\ slot' = slot + EPOCH_LENGTH
    /\ phase' = "attest"
    /\ UNCHANGED <<finalized_slot, registryState, latest_crosslinks, latest_index_roots,
                   latest_penalized_balances, latest_attestations, last_registry_change, counted, start_shard_of>>

Init ==
    /\ slot = EPOCH_LENGTH
    /\ phase = "attest"
    /\ finalized_slot = 0
    /\ validator_registry_update_slot = 0
    /\ current_epoch_calculation_slot = 0
    /\ previous_epoch_calculation_slot = 0
    /\ current_epoch_start_shard = 0
    /\ previous_epoch_start_shard = 0
    /\ current_epoch_seed = GenerateSeed(0)
    /\ previous_epoch_seed = GenerateSeed(0)
    /\ latest_crosslinks = [sh \in Shards |-> [slot |-> 0, shard_block_root |-> ZERO_HASH]]
    /\ latest_index_roots = [k \in 0..(LATEST_INDEX_ROOTS_LENGTH - 1) |-> IndexRoot(ActiveAt(0))]
    /\ latest_penalized_balances = [k \in 0..(LATEST_PENALIZED_EXIT_LENGTH - 1) |-> 0]
    /\ latest_attestations = <<>>
    /\ last_registry_change = 0
    /\ counted = {}
    /\ start_shard_of = [e \in 0..(MaxSlot \div EPOCH_LENGTH) |-> 0]

Next ==
    \/ Attest
    \/ EpochBoundary
    \/ ProcessCrosslinks
    \/ ProcessValidatorRegistry
    \/ ProcessFinalUpdates
    \/ NextEpoch

Spec == Init /\ [][Next]_vars

-----------------------------------------------------------------------------
TypeOK ==
    /\ slot \in {k * EPOCH_LENGTH : k \in 1..(MaxSlot \div EPOCH_LENGTH)}
    /\ phase \in Phases
    /\ finalized_slot \in 0..slot
    /\ {current_epoch_calculation_slot, previous_epoch_calculation_slot,
        validator_registry_update_slot, last_registry_change} \subseteq 0..slot
    /\ {current_epoch_start_shard, previous_epoch_start_shard} \subseteq Shards
    /\ latest_crosslinks \in [Shards -> [slot : 0..slot, shard_block_root : Roots \cup {ZERO_HASH}]]
    /\ DOMAIN latest_index_roots = 0..(LATEST_INDEX_ROOTS_LENGTH - 1)
    /\ latest_penalized_balances \in [0..(LATEST_PENALIZED_EXIT_LENGTH - 1) -> Nat]
    /\ Len(latest_attestations) <= MaxAttestations

(* Every attestation a block includes and latest_attestations keeps      *)
(* names a shard that a committee of its slot covered under the start     *)
(* shard in force during its epoch.  Blocks build the votes of the epoch  *)
(* before from previous_epoch_start_shard, so process_validator_registry  *)
(* must copy the current fields to the previous ones (lines 174-178)      *)
(* before a registry change or reseed overwrites them (187-236).          *)
AttestationsMatchEpochShuffling ==
    \A a \in ToSet(latest_attestations) :
        a.shard \in {cs[2] : cs \in CrosslinkCommitteesAt(a.slot, start_shard_of[a.slot \div EPOCH_LENGTH])}

(* A registry change (the start shard moving on) happens only when every  *)
(* shard that process_crosslinks walked in the epoch just ended has a     *)
(* crosslink newer than validator_registry_update_slot: the shard set     *)
(* _check_if_update_validator_registry computes from the committee count  *)
(* must cover every committee of the epoch.                               *)
RegistryChangeNeedsFreshCrosslinks ==
    [][last_registry_change' # last_registry_change =>
         \A n \in DOMAIN CrosslinkCommitteesInOrder :
            latest_crosslinks[CrosslinkCommitteesInOrder[n][2]].slot > validator_registry_update_slot]_vars

(* A registry change needs a finalized slot newer than the previous       *)
(* registry change: the guard at line 115 compares finalized_slot with    *)
(* validator_registry_update_slot, which update_validator_registry is     *)
(* meant to set to the slot of the change.                                *)
RegistryChangeNeedsNewFinality ==
    [][last_registry_change' # last_registry_change =>
         finalized_slot > last_registry_change]_vars

(* No attestation is pruned before some process_crosslinks has counted    *)
(* it: the docstring of process_crosslinks (lines 52-54) promises that    *)
(* the shards of the past two epochs are crosslinked from their votes,    *)
(* and process_final_updates (260-266) keeps the attestations of one      *)
(* epoch only.                                                             *)
VotesCountedBeforePruning ==
    [][\A a \in ToSet(latest_attestations) \ ToSet(latest_attestations') : a \in counted]_vars
====
