---------------------- MODULE JustificationFinalization ----------------------
(***************************************************************************)
(* process_justification_and_finalization of the Medalla fast state        *)
(* transition (eth2fastspec.py).  Run once per epoch boundary by the slot  *)
(* driver, after prepare_epoch_process_state has summed the target stakes. *)
(*                                                                         *)
(* A checkpoint (epoch, root) is abstracted to its epoch: on one chain the *)
(* root is get_block_root(state, epoch), a function of the epoch.          *)
(* `justified` is a history variable (no counterpart in the code): the     *)
(* set of epochs ever written to current_justified_checkpoint.             *)
(***************************************************************************)
EXTENDS Integers, SequencesExt

CONSTANT GENESIS_EPOCH

VARIABLES
    previous_justified_checkpoint,
    current_justified_checkpoint,
    finalized_checkpoint,
    justification_bits,      \* [0..3 -> BOOLEAN]; index 0 is the newest epoch
    justified

jfVars == <<previous_justified_checkpoint, current_justified_checkpoint,
            finalized_checkpoint, justification_bits, justified>>

BitIndex == 0..3

Init ==
    /\ previous_justified_checkpoint = GENESIS_EPOCH
    /\ current_justified_checkpoint = GENESIS_EPOCH
    /\ finalized_checkpoint = GENESIS_EPOCH
    /\ justification_bits = [i \in BitIndex |-> FALSE]
    /\ justified = {GENESIS_EPOCH}

TypeOK ==
    /\ previous_justified_checkpoint \in Nat
    /\ current_justified_checkpoint \in Nat
    /\ finalized_checkpoint \in Nat
    /\ justification_bits \in [BitIndex -> BOOLEAN]
    /\ justified \in SUBSET Nat

-----------------------------------------------------------------------------

\* The threshold test `stake * 3 >= total_active_stake * 2`.
IsSupermajority(stake, total_active_stake) == stake * 3 >= total_active_stake * 2

\* Fault: the new bit space is cleared but the old bits are not moved.
ShiftedBitsNoShift(bits) == [i \in BitIndex |-> IF i = 0 THEN FALSE ELSE bits[i]]

\* Fault: `bits[1:] = bits` grows the list to five bits.
ShiftedBitsGrow(bits) == [i \in 0..4 |-> IF i = 0 THEN FALSE ELSE bits[i - 1]]

\* bits[1:] = bits[:-1]; bits[0] = False
ShiftedBits(bits) == [i \in BitIndex |-> IF i = 0 THEN FALSE ELSE bits[i - 1]]

\* Python's all(bits[lo:hi]).
AllSet(bits, lo, hi) == \A i \in lo..(hi - 1) : bits[i]

\* Fault: the 2nd/3rd-epoch rule slices bits[2:3] and so skips the 2nd bit.
FinalizationRulesSkipBit(bits, old_prev, old_curr, current_epoch) ==
    << [fires |-> AllSet(bits, 1, 4) /\ old_prev + 3 = current_epoch, checkpoint |-> old_prev],
       [fires |-> AllSet(bits, 2, 3) /\ old_prev + 2 = current_epoch, checkpoint |-> old_prev],
       [fires |-> AllSet(bits, 0, 3) /\ old_curr + 2 = current_epoch, checkpoint |-> old_curr],
       [fires |-> AllSet(bits, 0, 2) /\ old_curr + 1 = current_epoch, checkpoint |-> old_curr] >>

\* Fault: the first rule expects the old previous justified checkpoint four
\* epochs back instead of three.
FinalizationRulesFirstTooFar(bits, old_prev, old_curr, current_epoch) ==
    << [fires |-> AllSet(bits, 1, 4) /\ old_prev + 4 = current_epoch, checkpoint |-> old_prev],
       [fires |-> AllSet(bits, 1, 3) /\ old_prev + 2 = current_epoch, checkpoint |-> old_prev],
       [fires |-> AllSet(bits, 0, 3) /\ old_curr + 2 = current_epoch, checkpoint |-> old_curr],
       [fires |-> AllSet(bits, 0, 2) /\ old_curr + 1 = current_epoch, checkpoint |-> old_curr] >>

\* Fault: the fourth rule tests the old previous justified checkpoint.
FinalizationRulesFourthOnPrevious(bits, old_prev, old_curr, current_epoch) ==
    << [fires |-> AllSet(bits, 1, 4) /\ old_prev + 3 = current_epoch, checkpoint |-> old_prev],
       [fires |-> AllSet(bits, 1, 3) /\ old_prev + 2 = current_epoch, checkpoint |-> old_prev],
       [fires |-> AllSet(bits, 0, 3) /\ old_curr + 2 = current_epoch, checkpoint |-> old_curr],
       [fires |-> AllSet(bits, 0, 2) /\ old_prev + 1 = current_epoch, checkpoint |-> old_prev] >>

\* The four finalization rules, in the order the code tests them.
FinalizationRules(bits, old_prev, old_curr, current_epoch) ==
    << [fires |-> AllSet(bits, 1, 4) /\ old_prev + 3 = current_epoch, checkpoint |-> old_prev],
       [fires |-> AllSet(bits, 1, 3) /\ old_prev + 2 = current_epoch, checkpoint |-> old_prev],
       [fires |-> AllSet(bits, 0, 3) /\ old_curr + 2 = current_epoch, checkpoint |-> old_curr],
       [fires |-> AllSet(bits, 0, 2) /\ old_curr + 1 = current_epoch, checkpoint |-> old_curr] >>

\* Each rule that fires overwrites finalized_checkpoint, so the last one wins.
NewFinalized(rules, finalized) ==
    LET k == SelectLastInSeq(rules, LAMBDA r : r.fires)
    IN  IF k = 0 THEN finalized ELSE rules[k].checkpoint

(***************************************************************************)
(* The whole handler.  previous_epoch and current_epoch are the epochs of  *)
(* the context's previous and current shufflings; the stakes are those of *)
(* the EpochProcess, already clamped to EFFECTIVE_BALANCE_INCREMENT.       *)
(***************************************************************************)
ProcessJustificationAndFinalization(previous_epoch, current_epoch, prev_target_stake, curr_target_stake, total_active_stake) ==
    IF current_epoch <= GENESIS_EPOCH + 1
    THEN UNCHANGED jfVars
    ELSE
      LET prevOK == IsSupermajority(prev_target_stake, total_active_stake)
          currOK == IsSupermajority(curr_target_stake, total_active_stake)
          shifted == ShiftedBits(justification_bits)
          bits == [shifted EXCEPT ![1] = @ \/ prevOK, ![0] = currOK]
          newJustified == {e \in {previous_epoch, current_epoch} :
                             \/ e = previous_epoch /\ prevOK
                             \/ e = current_epoch /\ currOK}
      IN
      /\ previous_justified_checkpoint' = current_justified_checkpoint
      /\ current_justified_checkpoint' =
            IF currOK THEN current_epoch
            ELSE IF prevOK THEN previous_epoch
            ELSE current_justified_checkpoint
      /\ justification_bits' = bits
      /\ finalized_checkpoint' =
            NewFinalized(FinalizationRules(bits, previous_justified_checkpoint,
                                           current_justified_checkpoint, current_epoch),
                         finalized_checkpoint)
      /\ justified' = justified \cup newJustified

-----------------------------------------------------------------------------
(* Properties.                                                            *)

(* Bit i of justification_bits, after the epoch `processed` ran, says that *)
(* epoch processed - i was justified: the shift keeps bits aligned with    *)
(* the epochs they stand for.                                              *)
BitsRecordJustified(processed) ==
    \A i \in BitIndex :
        justification_bits[i] => processed - i \in justified
=============================================================================
