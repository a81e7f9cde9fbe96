----------------------------- MODULE EpochRewards -----------------------------
(***************************************************************************)
(* The balance side of the Medalla epoch transition (eth2fastspec.py):    *)
(* process_attestation appending PendingAttestations to the state, the    *)
(* attestation tally of prepare_epoch_process_state (status_process_epoch *)
(* and the unslashed stake sums), get_attestation_rewards_and_penalties,  *)
(* process_rewards_and_penalties, process_slashings and the effective-     *)
(* balance hysteresis, slashings reset and attestation rotation of        *)
(* process_final_updates.                                                  *)
(*                                                                         *)
(* Validators are 1..N (index i of the code is position i - 1).  The      *)
(* registry epochs are fixed here (StateTransition models their updates); *)
(* justification is the JustificationFinalization module, driven by the  *)
(* stakes this tally computes, and the rewards read the checkpoint it      *)
(* finalizes, as process_epoch orders them.                               *)
(* Time runs slot by slot.  The shufflings of the previous and current    *)
(* epoch that EpochsContext caches are any permutation of the active      *)
(* indices (the seed comes from RANDAO), and an attestation's participants *)
(* are a subset of one committee of its slot, sliced from them.           *)
(* A PendingAttestation keeps what status_process_epoch reads: the         *)
(* attesting indices, whether its target and head roots are the canonical *)
(* ones, its inclusion_delay and its proposer.  The flag bits of an       *)
(* AttesterStatus are a set of flag names; has_markers is set inclusion.  *)
(***************************************************************************)
EXTENDS Integers, Sequences, FiniteSets, SequencesExt, FiniteSetsExt, Committees

CONSTANTS
    N,                                 \* number of validators
    GENESIS_EPOCH, FAR_FUTURE_EPOCH, MAX_SEED_LOOKAHEAD,
    MIN_ATTESTATION_INCLUSION_DELAY, MIN_VALIDATOR_WITHDRAWABILITY_DELAY,
    EFFECTIVE_BALANCE_INCREMENT, MAX_EFFECTIVE_BALANCE,
    BASE_REWARD_FACTOR, BASE_REWARDS_PER_EPOCH, PROPOSER_REWARD_QUOTIENT,
    INACTIVITY_PENALTY_QUOTIENT, MIN_EPOCHS_TO_INACTIVITY_PENALTY,
    MIN_SLASHING_PENALTY_QUOTIENT, WHISTLEBLOWER_REWARD_QUOTIENT,
    EPOCHS_PER_SLASHINGS_VECTOR,
    HYSTERESIS_QUOTIENT, HYSTERESIS_DOWNWARD_MULTIPLIER, HYSTERESIS_UPWARD_MULTIPLIER,
    SlashedAtGenesis,   \* validators a block of the genesis epoch may slash
    MaxAttestations,    \* bound on the pending attestations held at once
    MaxEpoch            \* bound on the epoch

\* The epoch transition runs at the last slot of an epoch, so state.slot > 0
\* and the epoch's start slot < state.slot: both tallies always run.  The
\* whistleblower reward of a genesis slashing rounds to zero.
ASSUME SLOTS_PER_EPOCH >= 2 /\ MAX_EFFECTIVE_BALANCE < WHISTLEBLOWER_REWARD_QUOTIENT

VARIABLES
    slot,                \* state.slot
    epoch,               \* current_shuffling.epoch
    proposer,            \* get_beacon_proposer(slot)
    shufflings,          \* epoch -> shuffling, for previous_ and current_shuffling
    previous_justified_checkpoint, current_justified_checkpoint,
    finalized_checkpoint, justification_bits, justified,
    validators,          \* [1..N -> registry record]
    balances,            \* [1..N -> Gwei]
    slashings,           \* [0..EPOCHS_PER_SLASHINGS_VECTOR-1 -> Gwei]
    previous_epoch_attestations,
    current_epoch_attestations

JF == INSTANCE JustificationFinalization

jfState == <<previous_justified_checkpoint, current_justified_checkpoint,
             finalized_checkpoint, justification_bits, justified>>
ctxState == <<slot, epoch, proposer, shufflings>>
vars == <<ctxState, jfState, validators, balances, slashings,
          previous_epoch_attestations, current_epoch_attestations>>

V == 1..N

-----------------------------------------------------------------------------
(* Arithmetic helpers.                                                     *)

\* Fault: the loop returns its last estimate y instead of x.
RECURSIVE IsqrtLoopReturnsY(_, _, _)
IsqrtLoopReturnsY(n, x, y) ==
    IF y < x THEN IsqrtLoopReturnsY(n, y, (y + n \div y) \div 2) ELSE y

IntegerSquarerootReturnsY(n) == IsqrtLoopReturnsY(n, n, (n + 1) \div 2)

\* The Newton iteration `while y < x: x = y; y = (x + n // x) // 2`.
RECURSIVE IsqrtLoop(_, _, _)
IsqrtLoop(n, x, y) ==
    IF y < x THEN IsqrtLoop(n, y, (y + n \div y) \div 2) ELSE x

IntegerSquareroot(n) == IsqrtLoop(n, n, (n + 1) \div 2)

\* decrease_balance: saturates at zero.
DecreaseBalance(bal, i, delta) ==
    [bal EXCEPT ![i] = IF delta > @ THEN 0 ELSE @ - delta]

MaxOf(a, b) == IF a >= b THEN a ELSE b
MinOf(a, b) == IF a <= b THEN a ELSE b

\* compute_activation_exit_epoch
ComputeActivationExitEpoch(e) == e + 1 + MAX_SEED_LOOKAHEAD

IsActive(v, e) == v.activation_epoch <= e /\ e < v.exit_epoch

PreviousEpoch == IF epoch = GENESIS_EPOCH THEN GENESIS_EPOCH ELSE epoch - 1

ActiveIndices(vals, e) == {i \in V : IsActive(vals[i], e)}

\* ShufflingEpoch.shuffling: unshuffle_list of the active indices under an
\* unknown seed, so any ordering of them.
Shufflings(vals, e) ==
    Injection(0..(Cardinality(ActiveIndices(vals, e)) - 1), ActiveIndices(vals, e))

-----------------------------------------------------------------------------
(***************************************************************************)
(* Genesis, after a block of the genesis epoch slashed the validators of  *)
(* S (slash_validator: exit initiated, withdrawable_epoch pushed to one   *)
(* slashings vector ahead, the effective balance added to the slashings   *)
(* vector and the minimum penalty taken).                                  *)
(***************************************************************************)
Init ==
    \E S \in SUBSET SlashedAtGenesis :
       LET exit == ComputeActivationExitEpoch(GENESIS_EPOCH)
       IN
       /\ slot = GENESIS_EPOCH * SLOTS_PER_EPOCH
       /\ epoch = GENESIS_EPOCH
       /\ JF!Init
       /\ validators = [i \in V |->
             [effective_balance |-> MAX_EFFECTIVE_BALANCE, slashed |-> i \in S,
              activation_epoch |-> GENESIS_EPOCH,
              exit_epoch |-> IF i \in S THEN exit ELSE FAR_FUTURE_EPOCH,
              withdrawable_epoch |->
                  IF i \in S
                  THEN MaxOf(exit + MIN_VALIDATOR_WITHDRAWABILITY_DELAY,
                             GENESIS_EPOCH + EPOCHS_PER_SLASHINGS_VECTOR)
                  ELSE FAR_FUTURE_EPOCH]]
       /\ balances = [i \in V |->
             MAX_EFFECTIVE_BALANCE
               - (IF i \in S THEN MAX_EFFECTIVE_BALANCE \div MIN_SLASHING_PENALTY_QUOTIENT
                  ELSE 0)]
       /\ slashings = [k \in 0..(EPOCHS_PER_SLASHINGS_VECTOR - 1) |->
             IF k = GENESIS_EPOCH % EPOCHS_PER_SLASHINGS_VECTOR
             THEN Cardinality(S) * MAX_EFFECTIVE_BALANCE ELSE 0]
       /\ previous_epoch_attestations = <<>>
       /\ current_epoch_attestations = <<>>
       /\ shufflings \in [{GENESIS_EPOCH} -> Shufflings(validators, GENESIS_EPOCH)]
       /\ proposer \in ActiveIndices(validators, GENESIS_EPOCH)

-----------------------------------------------------------------------------
(***************************************************************************)
(* prepare_epoch_process_state, balance side.                              *)
(***************************************************************************)

\* The flags a tally of the previous or the current epoch sets.
TallyFlags(kind) ==
    IF kind = "prev" THEN [source |-> "prev_source", target |-> "prev_target", head |-> "prev_head"]
    ELSE [source |-> "curr_source", target |-> "curr_target", head |-> "curr_head"]

\* The AttesterStatus of validator v before the tallies.
InitialStatus(v, prev_epoch, current_epoch) ==
    [flags |-> (IF v.slashed THEN {} ELSE {"unslashed"})
               \cup (IF \/ IsActive(v, prev_epoch)
                        \/ v.slashed /\ prev_epoch + 1 < v.withdrawable_epoch
                     THEN {"eligible_attester"} ELSE {}),
     proposer_index |-> -1, inclusion_delay |-> 0,
     effective_balance |-> v.effective_balance,
     active |-> IsActive(v, current_epoch)]

\* Fault: the inclusion of every later attestation replaces the recorded one.
ApplyAttestationLatest(statuses, att, ep, prev_epoch, kind) ==
    [i \in DOMAIN statuses |->
        IF i \notin att.participants THEN statuses[i]
        ELSE LET s == statuses[i]
                 earliest == ep = prev_epoch
             IN  [s EXCEPT
                    !.proposer_index = IF earliest THEN att.proposer_index ELSE @,
                    !.inclusion_delay = IF earliest THEN att.inclusion_delay ELSE @,
                    !.flags = @ \cup {TallyFlags(kind).source}
                                \cup (IF att.target THEN {TallyFlags(kind).target} ELSE {})
                                \cup (IF att.target /\ att.head THEN {TallyFlags(kind).head} ELSE {})]]

(***************************************************************************)
(* One attestation of status_process_epoch: for the previous epoch the    *)
(* earliest inclusion (smallest delay, first on a tie) is recorded; every *)
(* participant gets the source flag, the target flag if the target root   *)
(* is the canonical one, and the head flag only with the target flag.     *)
(***************************************************************************)
ApplyAttestation(statuses, att, ep, prev_epoch, kind) ==
    [i \in DOMAIN statuses |->
        IF i \notin att.participants THEN statuses[i]
        ELSE LET s == statuses[i]
                 earliest == /\ ep = prev_epoch
                             /\ s.proposer_index = -1 \/ s.inclusion_delay > att.inclusion_delay
             IN  [s EXCEPT
                    !.proposer_index = IF earliest THEN att.proposer_index ELSE @,
                    !.inclusion_delay = IF earliest THEN att.inclusion_delay ELSE @,
                    !.flags = @ \cup {TallyFlags(kind).source}
                                \cup (IF att.target THEN {TallyFlags(kind).target} ELSE {})
                                \cup (IF att.target /\ att.head THEN {TallyFlags(kind).head} ELSE {})]]

StatusProcessEpoch(statuses, atts, ep, prev_epoch, kind) ==
    FoldLeft(LAMBDA st, a : ApplyAttestation(st, a, ep, prev_epoch, kind), statuses, atts)

\* Sum of the effective balances of the validators whose flags include F.
StakeWith(vals, statuses, F) ==
    MapThenSumSet(LAMBDA i : vals[i].effective_balance,
                  {i \in V : F \subseteq statuses[i].flags})

Clamp(x) == MaxOf(x, EFFECTIVE_BALANCE_INCREMENT)

PrepareEpochProcess(vals, prev_epoch, current_epoch, prev_atts, curr_atts) ==
    LET s0 == [i \in V |-> InitialStatus(vals[i], prev_epoch, current_epoch)]
        s1 == StatusProcessEpoch(s0, prev_atts, prev_epoch, prev_epoch, "prev")
        st == StatusProcessEpoch(s1, curr_atts, current_epoch, prev_epoch, "curr")
    IN  [prev_epoch |-> prev_epoch, current_epoch |-> current_epoch,
         statuses |-> st,
         total_active_stake |->
             Clamp(MapThenSumSet(LAMBDA i : vals[i].effective_balance,
                                 {i \in V : st[i].active})),
         source_stake |-> Clamp(StakeWith(vals, st, {"prev_source", "unslashed"})),
         target_stake |-> Clamp(StakeWith(vals, st, {"prev_source", "prev_target", "unslashed"})),
         head_stake |-> Clamp(StakeWith(vals, st, {"prev_source", "prev_target", "prev_head", "unslashed"})),
         curr_target_stake |-> Clamp(StakeWith(vals, st, {"curr_target", "unslashed"})),
         indices_to_slash |->
             {i \in V : vals[i].slashed /\
                        current_epoch + EPOCHS_PER_SLASHINGS_VECTOR \div 2
                            = vals[i].withdrawable_epoch}]

-----------------------------------------------------------------------------
(***************************************************************************)
(* get_attestation_rewards_and_penalties, summed over its five Deltas.    *)
(* process_rewards_and_penalties adds all rewards and then subtracts each *)
(* penalty saturating at zero, which equals subtracting their sum once.   *)
(***************************************************************************)
Has(status, F) == F \subseteq status.flags

BaseReward(process, i, balance_sq_root) ==
    ((process.statuses[i].effective_balance * BASE_REWARD_FACTOR)
        \div balance_sq_root) \div BASE_REWARDS_PER_EPOCH

\* Fault: the leak's inclusion_delay penalty does not give back the proposer reward.
OwnDeltasNoProposerOffset(process, i, base, leak, finality_delay, stakes) ==
    LET s == process.statuses[i]
        proposer_reward == base \div PROPOSER_REWARD_QUOTIENT
        dims == {"source", "target", "head"}
        flag == [source |-> "prev_source", target |-> "prev_target", head |-> "prev_head"]
        eligible == "eligible_attester" \in s.flags
        hit(d) == Has(s, {flag[d], "unslashed"})
    IN  [reward |->
            (IF Has(s, {"prev_source", "unslashed"})
             THEN (base - proposer_reward) \div s.inclusion_delay ELSE 0)
            + (IF eligible
               THEN MapThenSumSet(LAMBDA d : IF ~hit(d) THEN 0
                                             ELSE IF leak THEN base
                                             ELSE (base * stakes[d]) \div stakes.total, dims)
               ELSE 0),
         penalty |->
            IF ~eligible THEN 0
            ELSE MapThenSumSet(LAMBDA d : IF hit(d) THEN 0 ELSE base, dims)
                 + (IF leak THEN base * BASE_REWARDS_PER_EPOCH
                                 + (IF hit("target") THEN 0
                                    ELSE (s.effective_balance * finality_delay)
                                             \div INACTIVITY_PENALTY_QUOTIENT)
                    ELSE 0)]

(***************************************************************************)
(* The deltas of validator i from its own status: the attester part of    *)
(* the inclusion reward, the source/target/head rewards (the full base    *)
(* reward in a leak, else scaled by the matching stake) or penalties, and *)
(* in a leak the cancelling inclusion_delay penalty and, without a target *)
(* vote, the inactivity penalty growing with the finality delay.          *)
(***************************************************************************)
OwnDeltas(process, i, base, leak, finality_delay, stakes) ==
    LET s == process.statuses[i]
        proposer_reward == base \div PROPOSER_REWARD_QUOTIENT
        dims == {"source", "target", "head"}
        flag == [source |-> "prev_source", target |-> "prev_target", head |-> "prev_head"]
        eligible == "eligible_attester" \in s.flags
        hit(d) == Has(s, {flag[d], "unslashed"})
    IN  [reward |->
            (IF Has(s, {"prev_source", "unslashed"})
             THEN (base - proposer_reward) \div s.inclusion_delay ELSE 0)
            + (IF eligible
               THEN MapThenSumSet(LAMBDA d : IF ~hit(d) THEN 0
                                             ELSE IF leak THEN base
                                             ELSE (base * stakes[d]) \div stakes.total, dims)
               ELSE 0),
         penalty |->
            IF ~eligible THEN 0
            ELSE MapThenSumSet(LAMBDA d : IF hit(d) THEN 0 ELSE base, dims)
                 + (IF leak THEN base * BASE_REWARDS_PER_EPOCH - proposer_reward
                                 + (IF hit("target") THEN 0
                                    ELSE (s.effective_balance * finality_delay)
                                             \div INACTIVITY_PENALTY_QUOTIENT)
                    ELSE 0)]

GetAttestationRewardsAndPenalties(process, finalized) ==
    LET total_balance == Clamp(process.total_active_stake)
        balance_sq_root == IntegerSquareroot(total_balance)
        finality_delay == process.prev_epoch - finalized
        leak == finality_delay > MIN_EPOCHS_TO_INACTIVITY_PENALTY
        inc == EFFECTIVE_BALANCE_INCREMENT
        stakes == [total |-> total_balance \div inc,
                   source |-> Clamp(process.source_stake) \div inc,
                   target |-> Clamp(process.target_stake) \div inc,
                   head |-> Clamp(process.head_stake) \div inc]
        base(i) == BaseReward(process, i, balance_sq_root)
        own(i) == OwnDeltas(process, i, base(i), leak, finality_delay, stakes)
        \* proposer rewards credited to p for the attesters it included first
        credit(p) == MapThenSumSet(LAMBDA i : base(i) \div PROPOSER_REWARD_QUOTIENT,
                        {i \in V : /\ Has(process.statuses[i], {"prev_source", "unslashed"})
                                   /\ process.statuses[i].proposer_index = p})
    IN  [rewards |-> [i \in V |-> own(i).reward + credit(i)],
         penalties |-> [i \in V |-> own(i).penalty]]

ProcessRewardsAndPenalties(process, bal, finalized) ==
    IF process.current_epoch = GENESIS_EPOCH THEN bal
    ELSE LET res == GetAttestationRewardsAndPenalties(process, finalized)
         IN  [i \in V |-> MaxOf(bal[i] + res.rewards[i] - res.penalties[i], 0)]

\* process_slashings: the slashed validators whose withdrawal is half a
\* slashings vector away pay in proportion to the total slashed recently.
ProcessSlashings(process, bal) ==
    LET total_balance == process.total_active_stake
        slashings_scale == MinOf(FoldFunction(+, 0, slashings) * 3, total_balance)
        penalty(i) == (((process.statuses[i].effective_balance \div EFFECTIVE_BALANCE_INCREMENT)
                           * slashings_scale) \div total_balance) * EFFECTIVE_BALANCE_INCREMENT
    IN  FoldSet(LAMBDA i, b : DecreaseBalance(b, i, penalty(i)), bal,
                process.indices_to_slash)

\* Fault: the new effective balance is not capped at MAX_EFFECTIVE_BALANCE.
HysteresisUpdateUncapped(vals, bal) ==
    LET h == EFFECTIVE_BALANCE_INCREMENT \div HYSTERESIS_QUOTIENT
        moved(i) == \/ bal[i] + h * HYSTERESIS_DOWNWARD_MULTIPLIER < vals[i].effective_balance
                    \/ vals[i].effective_balance + h * HYSTERESIS_UPWARD_MULTIPLIER < bal[i]
    IN  [i \in V |->
            IF moved(i)
            THEN [vals[i] EXCEPT !.effective_balance = bal[i] - (bal[i] % EFFECTIVE_BALANCE_INCREMENT)]
            ELSE vals[i]]

\* process_final_updates: effective balances follow the balances with hysteresis.
HysteresisUpdate(vals, bal) ==
    LET hysteresis_increment == EFFECTIVE_BALANCE_INCREMENT \div HYSTERESIS_QUOTIENT
        downward_threshold == hysteresis_increment * HYSTERESIS_DOWNWARD_MULTIPLIER
        upward_threshold == hysteresis_increment * HYSTERESIS_UPWARD_MULTIPLIER
        moved(i) == \/ bal[i] + downward_threshold < vals[i].effective_balance
                    \/ vals[i].effective_balance + upward_threshold < bal[i]
    IN  [i \in V |->
            IF moved(i)
            THEN [vals[i] EXCEPT !.effective_balance =
                     MinOf(bal[i] - (bal[i] % EFFECTIVE_BALANCE_INCREMENT),
                           MAX_EFFECTIVE_BALANCE)]
            ELSE vals[i]]

-----------------------------------------------------------------------------
\* get_attesting_indices: the members of the committee whose aggregation
\* bit is set.
GetAttestingIndices(committee, bits) == {committee[k] : k \in {j \in DOMAIN committee : bits[j]}}

\* is_valid_indexed_attestation on the sorted, deduplicated indices that
\* get_indexed_attestation builds: they must not be empty.  The aggregate
\* signature of honest attesters verifies.
IsValidIndexedAttestation(indices) == indices # {}

(***************************************************************************)
(* A block at this slot, from an unslashed proposer (process_block_header),*)
(* carrying one attestation through process_attestation: its committee    *)
(* index is below the committee count of its slot, its slot lies in a     *)
(* cached epoch (the current or previous target epoch) with               *)
(* data.slot + MIN_ATTESTATION_INCLUSION_DELAY <= slot <= data.slot +    *)
(* SLOTS_PER_EPOCH, and its aggregation bits select a non-empty subset    *)
(* of that committee (is_valid_indexed_attestation).  The source check    *)
(* and the signature stand for honest attesters.  The PendingAttestation  *)
(* with inclusion_delay = slot - data.slot and the block's proposer is    *)
(* appended to the list of its target epoch.                              *)
(***************************************************************************)
IncludeAttestation ==
    /\ Len(previous_epoch_attestations) + Len(current_epoch_attestations) < MaxAttestations
    /\ ~validators[proposer].slashed
    /\ \E data_slot \in CommitteeSlots(shufflings) :
       \E index \in CommitteeIndices(shufflings, data_slot) :
       LET committee == GetBeaconCommittee(shufflings, data_slot, index) IN
       \E bits \in [DOMAIN committee -> BOOLEAN] :
          \* a head vote without the target vote tallies as neither
       \E votes \in {<<FALSE, FALSE>>, <<TRUE, FALSE>>, <<TRUE, TRUE>>} :
         LET participants == GetAttestingIndices(committee, bits)
             att == [participants |-> participants, target |-> votes[1], head |-> votes[2],
                     inclusion_delay |-> slot - data_slot, proposer_index |-> proposer]
         IN  /\ data_slot + MIN_ATTESTATION_INCLUSION_DELAY <= slot
             /\ slot <= data_slot + SLOTS_PER_EPOCH
             /\ IsValidIndexedAttestation(participants)
             /\ IF data_slot \div SLOTS_PER_EPOCH = epoch
                THEN /\ current_epoch_attestations' = Append(current_epoch_attestations, att)
                     /\ UNCHANGED previous_epoch_attestations
                ELSE /\ previous_epoch_attestations' = Append(previous_epoch_attestations, att)
                     /\ UNCHANGED current_epoch_attestations
    /\ UNCHANGED <<ctxState, jfState, validators, balances, slashings>>

\* process_slots at a slot that is not the last of its epoch: slot + 1.
ProcessSlot ==
    /\ slot % SLOTS_PER_EPOCH # SLOTS_PER_EPOCH - 1
    /\ slot' = slot + 1
    /\ proposer' \in ActiveIndices(validators, epoch)
    /\ UNCHANGED <<epoch, shufflings, jfState, validators, balances, slashings,
                   previous_epoch_attestations, current_epoch_attestations>>

(***************************************************************************)
(* rotate_epochs after process_epoch: the current shuffling becomes the   *)
(* previous one, the next epoch's shuffling the current one, and the      *)
(* proposers are those of the new epoch.                                   *)
(***************************************************************************)
RotateEpochs(vals) ==
    /\ \E sh \in Shufflings(vals, epoch + 1) :
          shufflings' = [e \in {epoch, epoch + 1} |->
                           IF e = epoch THEN shufflings[epoch] ELSE sh]
    /\ proposer' \in ActiveIndices(vals, epoch + 1)
    /\ slot' = slot + 1
    /\ epoch' = epoch + 1

(***************************************************************************)
(* The rest of process_final_updates: the slashings slot of the next      *)
(* epoch is cleared and the attestation lists rotate.  The randao mix and *)
(* the historical roots it also writes are hashes no property reads.      *)
(***************************************************************************)
FinalUpdatesRotate ==
    /\ slashings' = [slashings EXCEPT ![(epoch + 1) % EPOCHS_PER_SLASHINGS_VECTOR] = 0]
    /\ previous_epoch_attestations' = current_epoch_attestations
    /\ current_epoch_attestations' = <<>>

\* Fault: the hysteresis of process_final_updates runs before the rewards.
ProcessEpochHysteresisFirst ==
    /\ epoch < MaxEpoch
    /\ slot % SLOTS_PER_EPOCH = SLOTS_PER_EPOCH - 1
    /\ LET process == PrepareEpochProcess(validators, PreviousEpoch, epoch,
                           previous_epoch_attestations, current_epoch_attestations)
       IN  /\ JF!ProcessJustificationAndFinalization(PreviousEpoch, epoch, process.target_stake, process.curr_target_stake, process.total_active_stake)
           /\ balances' = ProcessSlashings(process,
                             ProcessRewardsAndPenalties(process, balances, finalized_checkpoint'))
           /\ validators' = HysteresisUpdate(validators, balances)
    /\ FinalUpdatesRotate
    /\ RotateEpochs(validators')

(***************************************************************************)
(* process_epoch at the last slot of `epoch`, balance side, in the code's *)
(* order: prepare; justification and finalization on the tallied stakes  *)
(* (the rewards read its finalized checkpoint); rewards and penalties;    *)
(* slashings; final updates (hysteresis                                    *)
(* on the balances so far, the slashings slot of the next epoch cleared,  *)
(* the attestations rotated); then rotate_epochs moves to the next epoch. *)
(***************************************************************************)
ProcessEpoch ==
    /\ epoch < MaxEpoch
    /\ slot % SLOTS_PER_EPOCH = SLOTS_PER_EPOCH - 1
    /\ LET process == PrepareEpochProcess(validators, PreviousEpoch, epoch,
                           previous_epoch_attestations, current_epoch_attestations)
           rewarded == ProcessRewardsAndPenalties(process, balances, finalized_checkpoint')
           slashed == ProcessSlashings(process, rewarded)
       IN  /\ JF!ProcessJustificationAndFinalization(PreviousEpoch, epoch, process.target_stake, process.curr_target_stake, process.total_active_stake)
           /\ balances' = slashed
           /\ validators' = HysteresisUpdate(validators, slashed)
    /\ FinalUpdatesRotate
    /\ RotateEpochs(validators')

Next == IncludeAttestation \/ ProcessSlot \/ ProcessEpoch

Spec == Init /\ [][Next]_vars

-----------------------------------------------------------------------------
(* Properties.                                                            *)

Attestation == [participants : SUBSET V, target : BOOLEAN, head : BOOLEAN,
                inclusion_delay : MIN_ATTESTATION_INCLUSION_DELAY..SLOTS_PER_EPOCH,
                proposer_index : V]

TypeOK ==
    /\ epoch \in GENESIS_EPOCH..MaxEpoch
    /\ slot \div SLOTS_PER_EPOCH = epoch
    /\ proposer \in V
    /\ JF!TypeOK
    /\ balances \in [V -> Nat]
    /\ \A i \in V : validators[i].effective_balance \in 0..MAX_EFFECTIVE_BALANCE
    /\ slashings \in [0..(EPOCHS_PER_SLASHINGS_VECTOR - 1) -> Nat]
    /\ previous_epoch_attestations \in Seq(Attestation)
    /\ current_epoch_attestations \in Seq(Attestation)

(* integer_squareroot returns the largest x with x * x <= n, for every n   *)
(* up to SqrtInputBound (well past any total stake of the configurations): *)
(* the Newton loop stops neither early nor late, also at perfect squares   *)
(* and their neighbours; and, in every state, for the total active stake *)
(* whose root the base rewards of the next boundary take.  The range does *)
(* not depend on the state and is checked in the states of genesis epoch. *)
SqrtInputBound == 300

IsqrtReference(n) == CHOOSE x \in 0..n : x * x <= n /\ (x + 1) * (x + 1) > n

IntegerSquarerootCorrect ==
    LET total == Clamp(MapThenSumSet(LAMBDA i : validators[i].effective_balance,
                                     {i \in V : IsActive(validators[i], epoch)}))
        inputs == IF epoch = GENESIS_EPOCH THEN (0..SqrtInputBound) \cup {total} ELSE {total}
    IN  \A n \in inputs : IntegerSquareroot(n) = IsqrtReference(n)

(***************************************************************************)
(* The inclusion reward of each attester is credited to the proposer of   *)
(* the attestation the official specification picks: among the matching   *)
(* source attestations that include it, the first one with the smallest   *)
(* inclusion_delay (Python's min).  status_process_epoch gets there        *)
(* incrementally, one attestation at a time, in inclusion order.  A       *)
(* validator sits in one committee per epoch, so its attestations share a *)
(* data slot and equal delays come from one block: the tie rule cannot    *)
(* change the credited proposer, but a later, slower inclusion must not   *)
(* replace an earlier one.                                                 *)
(***************************************************************************)
InclusionCreditGoesToEarliest ==
    LET atts == IF epoch = GENESIS_EPOCH THEN current_epoch_attestations
                ELSE previous_epoch_attestations
        st == PrepareEpochProcess(validators, PreviousEpoch, epoch,
                  previous_epoch_attestations, current_epoch_attestations).statuses
    IN  \A i \in V :
          LET mine == {k \in DOMAIN atts : i \in atts[k].participants}
              best == Min({atts[k].inclusion_delay : k \in mine})
              first == Min({k \in mine : atts[k].inclusion_delay = best})
          IN  mine # {} =>
                /\ st[i].proposer_index = atts[first].proposer_index
                /\ st[i].inclusion_delay = best

(***************************************************************************)
(* During an inactivity leak, a validator that attested optimally in the  *)
(* previous epoch (unslashed, correct source, target and head, included   *)
(* with the minimum delay) does not lose balance across the epoch         *)
(* transition: the leak's inclusion_delay penalty cancels exactly what    *)
(* the full base rewards pay it, as the comment of                        *)
(* get_attestation_rewards_and_penalties promises.                         *)
(***************************************************************************)
OptimalAttester(i) ==
    /\ ~validators[i].slashed
    /\ IsActive(validators[i], PreviousEpoch)
    /\ \E k \in DOMAIN previous_epoch_attestations :
          LET a == previous_epoch_attestations[k]
          IN  i \in a.participants /\ a.target /\ a.head
              /\ a.inclusion_delay = MIN_ATTESTATION_INCLUSION_DELAY

LeakNeutralForOptimalAttester ==
    [][ /\ epoch' = epoch + 1
        /\ epoch # GENESIS_EPOCH
        /\ PreviousEpoch - finalized_checkpoint' > MIN_EPOCHS_TO_INACTIVITY_PENALTY
        => \A i \in V : OptimalAttester(i) => balances'[i] >= balances[i] ]_vars

(***************************************************************************)
(* After every epoch transition each effective balance is within the      *)
(* hysteresis band of the balance: not more than the downward threshold   *)
(* above it, and not more than the upward threshold below it unless       *)
(* capped at MAX_EFFECTIVE_BALANCE.  This holds only because             *)
(* process_final_updates runs after the rewards and the slashings have    *)
(* moved the balances.                                                     *)
(***************************************************************************)
WithinHysteresis(eff, bal) ==
    LET h == EFFECTIVE_BALANCE_INCREMENT \div HYSTERESIS_QUOTIENT
    IN  /\ eff <= bal + h * HYSTERESIS_DOWNWARD_MULTIPLIER
        /\ bal <= eff + h * HYSTERESIS_UPWARD_MULTIPLIER \/ eff = MAX_EFFECTIVE_BALANCE

EffectiveBalanceHysteresis ==
    [][ epoch' = epoch + 1 =>
          \A i \in V : WithinHysteresis(validators'[i].effective_balance, balances'[i]) ]_vars

(***************************************************************************)
(* The glossary of the specification: a checkpoint becomes justified when *)
(* at least 2/3 of the active stake attests to it.  Stated on the stakes  *)
(* before prepare_epoch_process_state clamps them to one increment (712,  *)
(* 845-856): an epoch newly justified at a boundary had unslashed target  *)
(* stake of at least 2/3 of the active stake of the current epoch.        *)
(***************************************************************************)
TallyAtBoundary ==
    LET p == PrepareEpochProcess(validators, PreviousEpoch, epoch,
                                 previous_epoch_attestations, current_epoch_attestations)
    IN  [active |-> MapThenSumSet(LAMBDA i : validators[i].effective_balance,
                                  {i \in V : p.statuses[i].active}),
         target |-> [e \in {PreviousEpoch, epoch} |->
                       IF e = epoch
                       THEN StakeWith(validators, p.statuses, {"curr_target", "unslashed"})
                       ELSE StakeWith(validators, p.statuses,
                                      {"prev_source", "prev_target", "unslashed"})]]

JustificationBackedByStake ==
    [][ epoch' = epoch + 1 =>
          \A e \in justified' \ justified :
              3 * TallyAtBoundary.target[e] >= 2 * TallyAtBoundary.active ]_vars
=============================================================================
