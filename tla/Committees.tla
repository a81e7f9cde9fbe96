------------------------------ MODULE Committees ------------------------------
(***************************************************************************)
(* The committees of eth2fastspec.py: compute_committee_count, the         *)
(* slice_committee of ShufflingEpoch, and the lookup of a committee by     *)
(* slot and index through the shufflings cached in EpochsContext.          *)
(*                                                                         *)
(* A shuffling is a function on 0..n-1, as the Python list is indexed; a   *)
(* committee is a sequence of validator indices.                           *)
(***************************************************************************)
EXTENDS Integers, Sequences, FiniteSets

CONSTANTS
    SLOTS_PER_EPOCH,
    TARGET_COMMITTEE_SIZE,
    MAX_COMMITTEES_PER_SLOT


\* compute_committee_count
ComputeCommitteeCount(active_validators_count) ==
    LET committees_per_slot ==
            (active_validators_count \div SLOTS_PER_EPOCH) \div TARGET_COMMITTEE_SIZE
        capped == IF MAX_COMMITTEES_PER_SLOT < committees_per_slot
                  THEN MAX_COMMITTEES_PER_SLOT ELSE committees_per_slot
    IN  IF capped = 0 THEN 1 ELSE capped

\* Fault: every committee has active_validator_count // committee_count members.
SliceCommitteeFixed(sh, slot, comm_index) ==
    LET count == Cardinality(DOMAIN sh)
        per_slot == ComputeCommitteeCount(count)
        committee_count == per_slot * SLOTS_PER_EPOCH
        index == slot * per_slot + comm_index
        size == count \div committee_count
    IN  [k \in 1..size |-> sh[index * size + k - 1]]

\* slice_committee: shuffling[start_offset:end_offset] as a sequence.
SliceCommittee(sh, slot, comm_index) ==
    LET count == Cardinality(DOMAIN sh)
        per_slot == ComputeCommitteeCount(count)
        committee_count == per_slot * SLOTS_PER_EPOCH
        index == slot * per_slot + comm_index
        start_offset == (count * index) \div committee_count
        end_offset == (count * (index + 1)) \div committee_count
    IN  [k \in 1..(end_offset - start_offset) |-> sh[start_offset + k - 1]]

\* ShufflingEpoch.committees[slot]: the committees of one slot of the epoch.
SlotCommitteesOf(sh, epoch_slot) ==
    [comm_index \in 0..(ComputeCommitteeCount(Cardinality(DOMAIN sh)) - 1) |->
        SliceCommittee(sh, epoch_slot, comm_index)]

(***************************************************************************)
(* EpochsContext._get_slot_comms and get_beacon_committee.  `shufflings`   *)
(* maps the epochs of the cached previous, current and next shufflings to  *)
(* their shuffling; a slot of any other epoch raises, as does a committee  *)
(* index past the committees of the slot.  The callers only ask for slots  *)
(* and indices inside these domains (CommitteeSlots, CommitteeIndices).    *)
(***************************************************************************)
GetSlotComms(shufflings, slot) ==
    SlotCommitteesOf(shufflings[slot \div SLOTS_PER_EPOCH], slot % SLOTS_PER_EPOCH)

CommitteeSlots(shufflings) ==
    {e * SLOTS_PER_EPOCH + k : e \in DOMAIN shufflings, k \in 0..(SLOTS_PER_EPOCH - 1)}

CommitteeIndices(shufflings, slot) == DOMAIN GetSlotComms(shufflings, slot)

GetBeaconCommittee(shufflings, slot, index) == GetSlotComms(shufflings, slot)[index]
=============================================================================
