--------------------------- MODULE EpochsContext ---------------------------
(***************************************************************************)
(* EpochsContext of eth2fastspec.py: the pubkey tables and the three       *)
(* cached ShufflingEpochs (previous, current, next) with the proposers of  *)
(* the current epoch.                                                      *)
(*                                                                         *)
(* A ShufflingEpoch keeps its epoch and its set of active indices; the     *)
(* order the swap-or-not shuffle puts them in is the subject of the        *)
(* Shuffling module.  compute_proposer_index samples a candidate with a    *)
(* hash, accepting it with a probability that grows with its effective     *)
(* balance (every candidate can be accepted); here any active index may be *)
(* drawn.  Validators are a sequence: validator index i is position i + 1. *)
(***************************************************************************)
EXTENDS Integers, Sequences, FiniteSets, TLC

CONSTANTS
    SLOTS_PER_EPOCH,
    GENESIS_EPOCH

VARIABLES
    pubkey2index,        \* function from the known pubkeys to indices
    index2pubkey,        \* sequence of pubkeys
    proposers,           \* [0..SLOTS_PER_EPOCH-1 -> validator position]
    previous_shuffling,  \* [epoch, active_indices]
    current_shuffling,
    next_shuffling

ctxVars == <<pubkey2index, index2pubkey, proposers,
             previous_shuffling, current_shuffling, next_shuffling>>

EpochSlots == 0..(SLOTS_PER_EPOCH - 1)

\* compute_epoch_at_slot
EpochAtSlot(slot) == slot \div SLOTS_PER_EPOCH

\* is_active_flat_validator / the filter of ShufflingEpoch.__init__
IsActive(v, epoch) == v.activation_epoch <= epoch /\ epoch < v.exit_epoch

\* ShufflingEpoch(state, indices_bounded, epoch): the active set at `epoch`.
ShufflingEpoch(validators, epoch) ==
    [epoch |-> epoch,
     active_indices |-> {i \in DOMAIN validators : IsActive(validators[i], epoch)}]

\* _reset_proposers: one compute_proposer_index draw per slot of the
\* current epoch; compute_proposer_index raises when no index is active.
ProposerChoices(shuffling) == [EpochSlots -> shuffling.active_indices]

(***************************************************************************)
(* sync_pubkeys as a function of the tables it mutates: the new tables, or *)
(* ok = FALSE for the ValidationError raised when the two tables have      *)
(* different lengths.  Appends the pubkeys of validators at positions      *)
(* current_count + 1 .. Len(validators).                                   *)
(***************************************************************************)
SyncPubkeysFrom(p2i, i2p, validators, first) ==
    LET current_count == Cardinality(DOMAIN p2i)
        new == {i \in DOMAIN validators : i >= first}
        newKeys == {validators[i].pubkey : i \in new}
        \* a later position overwrites an earlier one, as in the dict update
        indexOf(pk) == CHOOSE i \in new :
                         /\ validators[i].pubkey = pk
                         /\ \A j \in new : validators[j].pubkey = pk => j <= i
    IN  [ok |-> current_count = Len(i2p),
         pubkey2index |-> [pk \in DOMAIN p2i \cup newKeys |->
                              IF pk \in newKeys THEN indexOf(pk) ELSE p2i[pk]],
         index2pubkey |-> i2p \o [k \in 1..Cardinality(new) |->
                                     validators[first + k - 1].pubkey]]

\* Fault: the loop starts one past the current count.
SyncPubkeysSkipOne(p2i, i2p, validators) ==
    SyncPubkeysFrom(p2i, i2p, validators, Cardinality(DOMAIN p2i) + 2)

SyncPubkeys(p2i, i2p, validators) ==
    SyncPubkeysFrom(p2i, i2p, validators, Cardinality(DOMAIN p2i) + 1)

(***************************************************************************)
(* load_state: sync the pubkeys and build the three shufflings around the  *)
(* epoch of `slot`; at genesis previous and current are one object.        *)
(***************************************************************************)
LoadState(validators, slot) ==
    LET current_epoch == EpochAtSlot(slot)
        previous_epoch == IF current_epoch = GENESIS_EPOCH
                          THEN GENESIS_EPOCH ELSE current_epoch - 1
        synced == SyncPubkeys(<<>>, <<>>, validators)
    IN
    /\ pubkey2index = synced.pubkey2index
    /\ index2pubkey = synced.index2pubkey
    /\ current_shuffling = ShufflingEpoch(validators, current_epoch)
    /\ previous_shuffling = ShufflingEpoch(validators, previous_epoch)
    /\ next_shuffling = ShufflingEpoch(validators, current_epoch + 1)
    /\ proposers \in ProposerChoices(current_shuffling)

(***************************************************************************)
(* rotate_epochs(state): previous <- current, current <- next, a fresh     *)
(* next one epoch later, and new proposers for the new current epoch.      *)
(* No successor when the new current epoch has no active validator        *)
(* (compute_proposer_index raises and process_slots fails).                *)
(***************************************************************************)
RotateEpochs(validators) ==
    /\ previous_shuffling' = current_shuffling
    /\ current_shuffling' = next_shuffling
    /\ next_shuffling' = ShufflingEpoch(validators, next_shuffling.epoch + 1)
    /\ proposers' \in ProposerChoices(next_shuffling)
    /\ UNCHANGED <<pubkey2index, index2pubkey>>

\* get_beacon_proposer(slot): defined only for slots of the current epoch.
GetBeaconProposer(slot) ==
    IF EpochAtSlot(slot) = current_shuffling.epoch
    THEN proposers[slot % SLOTS_PER_EPOCH]
    ELSE Assert(FALSE, "slot's epoch does not match current epoch")

TypeOK ==
    /\ index2pubkey \in Seq(DOMAIN pubkey2index)
    /\ proposers \in [EpochSlots -> Nat]
    /\ \A s \in {previous_shuffling, current_shuffling, next_shuffling} :
          s.epoch \in Nat /\ s.active_indices \in SUBSET Nat
=============================================================================
