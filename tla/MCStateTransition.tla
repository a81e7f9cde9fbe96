-------------------------- MODULE MCStateTransition --------------------------
(***************************************************************************)
(* A small chain for TLC: two genesis validators (the second deposited    *)
(* more than MAX_EFFECTIVE_BALANCE) and one deposit in the contract after  *)
(* genesis, below the maximum (so it waits for its effective balance to    *)
(* rise before it is eligible, and is ejectable while pending); two slots  *)
(* per epoch, one epoch per eth1 voting period, a seed lookahead of one    *)
(* epoch.  The activation queue uses a contract with two late deposits.   *)
(***************************************************************************)
EXTENDS StateTransition

CONSTANTS k1, k2, k3, k4

MCDepositContract ==
    << [pubkey |-> k1, amount |-> 4, signature_ok |-> TRUE],
       [pubkey |-> k2, amount |-> 6, signature_ok |-> TRUE],
       [pubkey |-> k3, amount |-> 3, signature_ok |-> TRUE] >>

\* For the activation queue: two deposits after genesis, both of the
\* maximum, so that both become eligible and contend for a churn of one.
MCQueueDepositContract ==
    << [pubkey |-> k1, amount |-> 4, signature_ok |-> TRUE],
       [pubkey |-> k2, amount |-> 6, signature_ok |-> TRUE],
       [pubkey |-> k3, amount |-> 4, signature_ok |-> TRUE],
       [pubkey |-> k4, amount |-> 4, signature_ok |-> TRUE] >>
====
