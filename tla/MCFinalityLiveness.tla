------------------------ MODULE MCFinalityLiveness ------------------------
(***************************************************************************)
(* Progress of process_justification_and_finalization.  The environment    *)
(* may, at one boundary, start a period of participation and keep it up:  *)
(* "full", in which every boundary's previous and current targets gather  *)
(* 2/3 of the active stake, or "delayed", in which only the previous      *)
(* target does, so each epoch is justified by the votes included in the   *)
(* epoch after it, and the current target is any stake.                   *)
(* Epoch boundaries are weakly fair: process_slots is driven by the slot   *)
(* clock, so the boundary that ends an epoch always comes.  Nothing        *)
(* guarantees participation, so it is a premise, not a fairness condition.*)
(***************************************************************************)
EXTENDS MCJustificationFinalization

VARIABLE participation   \* "none", "full" or "delayed"

liveVars == <<jfVars, epoch, participation>>

(* Two boundaries pass at genesis without justification (the early return *)
(* of the handler), and two more are needed to justify and then finalize: *)
(* participation starts early enough for the bounded run to see all four. *)
BoundariesToFinality == 4

LiveInit == MCInit /\ participation = "none"

StartParticipation ==
    /\ participation = "none"
    /\ epoch + BoundariesToFinality <= MaxEpoch
    /\ participation' \in {"full", "delayed"}
    /\ UNCHANGED <<jfVars, epoch>>

(* process_epoch at a boundary, with the stakes of a participating period  *)
(* or any stakes otherwise.                                                *)
LiveEndEpoch ==
    /\ epoch < MaxEpoch
    /\ \E prev, curr, total \in 1..MaxStake :
          /\ participation # "none" => IsSupermajority(prev, total)
          /\ participation = "full" => IsSupermajority(curr, total)
          /\ ProcessJustificationAndFinalization(PreviousEpoch, epoch, prev, curr, total)
    /\ epoch' = epoch + 1
    /\ UNCHANGED participation

LiveNext == StartParticipation \/ LiveEndEpoch

LiveSpec == LiveInit /\ [][LiveNext]_liveVars /\ WF_liveVars(LiveEndEpoch)

(* Under full participation finality catches up with the chain:          *)
(* finalized_checkpoint reaches the epoch before the last one processed,  *)
(* through the fourth rule (bits 0 and 1 with the old current justified   *)
(* checkpoint one epoch back).  Leads-to only: it says the state is       *)
(* reached, not that it is kept.                                          *)
FinalityCaughtUp == finalized_checkpoint = epoch - 2

FinalityProgresses == participation = "full" ~> FinalityCaughtUp

(* Under delayed participation the current target may always fail, and    *)
(* finality must come from the rules that read bits 1 to 3 and the old    *)
(* previous justified checkpoint (the first and second rules, 921-927):   *)
(* finalized_checkpoint comes within three epochs of the last one         *)
(* processed.                                                              *)
DelayedFinalityProgresses ==
    participation = "delayed" ~> finalized_checkpoint >= epoch - 4
====
