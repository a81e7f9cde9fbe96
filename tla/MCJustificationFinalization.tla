-------------------- MODULE MCJustificationFinalization --------------------
(***************************************************************************)
(* Drives ProcessJustificationAndFinalization on its own, once per epoch,  *)
(* as process_slots does at each epoch boundary.  The EpochProcess stakes  *)
(* are free inputs in 1..MaxStake (prepare_epoch_process_state clamps them *)
(* to at least one increment): every outcome of attestation inclusion is  *)
(* explored.  StateTransition computes them from the validators instead.   *)
(***************************************************************************)
EXTENDS JustificationFinalization

CONSTANTS MaxEpoch, MaxStake

VARIABLE epoch      \* the epoch the next boundary ends

vars == <<jfVars, epoch>>

MCInit == Init /\ epoch = GENESIS_EPOCH

\* previous_shuffling.epoch: equal to the current epoch at genesis.
PreviousEpoch == IF epoch = GENESIS_EPOCH THEN GENESIS_EPOCH ELSE epoch - 1

EndEpoch ==
    /\ epoch < MaxEpoch
    /\ \E prev, curr, total \in 1..MaxStake :
          ProcessJustificationAndFinalization(PreviousEpoch, epoch, prev, curr, total)
    /\ epoch' = epoch + 1

MCSpec == MCInit /\ [][EndEpoch]_vars

(* Each bit of justification_bits stands for a justified epoch counted     *)
(* back from the epoch the last boundary ended (bit 0 = epoch - 1).        *)
BitsAligned == BitsRecordJustified(epoch - 1)

Abstract == INSTANCE Finality WITH finalized <- finalized_checkpoint

(* The bits-based handler implements the abstract promise: justification   *)
(* only of the two epochs under review, finalization only forward, to a    *)
(* justified checkpoint at most three epochs old with a justified          *)
(* successor.                                                              *)
ImplementsFinality == Abstract!Spec
=============================================================================
