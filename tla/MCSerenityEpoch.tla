------------------------- MODULE MCSerenityEpoch -------------------------
EXTENDS SerenityEpoch

(* Four validators, the two of slot 0 of each epoch in one committee and  *)
(* the two of slot 1 in another, with one balance above the deposit cap.  *)
MCBalance == [i \in V |-> IF i = 1 THEN 3 ELSE 1]
MCActivationSlot == [i \in V |-> IF i = 4 THEN 4 ELSE 0]
MCCommitteeAt == [k \in 0..1 |-> [j \in 0..0 |-> IF k = 0 THEN {1, 2} ELSE {3, 4}]]
====
