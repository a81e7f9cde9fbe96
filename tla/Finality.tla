------------------------------ MODULE Finality ------------------------------
(***************************************************************************)
(* What justification and finalization promise, independent of the        *)
(* justification bits: at the boundary that ends epoch `epoch`, the chain  *)
(* may justify that epoch and the one before it, and may finalize a        *)
(* justified checkpoint at most three epochs old, not older than the one   *)
(* already finalized, whose successor epoch is justified.                  *)
(***************************************************************************)
EXTENDS Integers

VARIABLES epoch, justified, finalized

vars == <<epoch, justified, finalized>>

Init ==
    /\ epoch = 0
    /\ justified = {0}
    /\ finalized = 0

EndEpoch ==
    /\ epoch' = epoch + 1
    /\ \E new \in SUBSET ({epoch - 1, epoch} \cap Nat) :
          justified' = justified \cup new
    /\ \/ finalized' = finalized
       \/ \E f \in justified :
             /\ finalized < f
             /\ epoch <= f + 3
             /\ f + 1 \in justified'
             /\ finalized' = f

Spec == Init /\ [][EndEpoch]_vars
=============================================================================
