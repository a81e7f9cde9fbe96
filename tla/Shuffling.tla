------------------------------ MODULE Shuffling ------------------------------
(***************************************************************************)
(* The swap-or-not shuffle of eth2fastspec.py (_inner_shuffle_list, run by *)
(* unshuffle_list in ShufflingEpoch and by shuffle_list) and the committee *)
(* slicing of ShufflingEpoch, checked against the per-index reference      *)
(* compute_shuffled_index of the Phase 0 specification.                    *)
(*                                                                         *)
(* The list is a function on 0..n-1, as the Python list is indexed.        *)
(* hash_eth2 is abstracted to a deterministic pseudo-hash over a small set *)
(* of seeds: HashBit gives bit `position` of the swap-or-not source of a   *)
(* round, PivotHash the first eight bytes of hash(seed + round).  The fast *)
(* loop reads those bits the way the code does, through a 32-byte source   *)
(* per 256 positions and a cached byte per 8 positions; the reference      *)
(* reads them directly.                                                    *)
(*                                                                         *)
(* The state machine runs the outer `while True` loop of                   *)
(* _inner_shuffle_list one round per step: first unshuffle_list on the    *)
(* identity list (what ShufflingEpoch does with the active indices), then  *)
(* shuffle_list on the result.                                             *)
(***************************************************************************)
EXTENDS Integers, Sequences, SequencesExt, Committees

CONSTANTS
    SHUFFLE_ROUND_COUNT,
    Seeds,          \* a small set of naturals standing for 32-byte seeds
    MaxListSize     \* bound on the number of active indices

VARIABLES
    input,          \* the list given to unshuffle_list
    seed,
    list,           \* the list being (un)shuffled in place
    r,              \* the round counter of the loop
    shuffling,      \* the result of unshuffle_list (ShufflingEpoch.shuffling)
    phase           \* "unshuffle", "shuffle" or "done"

vars == <<input, seed, list, r, shuffling, phase>>

ListSize == Cardinality(DOMAIN list)

\* Pseudo-hash: bit `position` of hash(seed + round + position // 256).
HashBit(s, round, position) ==
    (((s * 7 + round * 3) * (position + 5) + position * position + s * round) % 3) % 2

\* Pseudo-hash: bytes_to_int(hash(seed + round)[0:8]).
PivotHash(s, round) == s * 53 + round * 29 + s * round * 7 + 3

\* Byte k of source = hash(seed + round + block): bit t of the byte is
\* position block * 256 + k * 8 + t.
SourceByte(s, round, block, k) ==
    LET bit[t \in 0..8] ==
            IF t = 8 THEN 0
            ELSE HashBit(s, round, block * 256 + k * 8 + t) + 2 * bit[t + 1]
    IN  bit[0]

Swap(l, i, j) == [l EXCEPT ![i] = l[j], ![j] = l[i]]

(***************************************************************************)
(* One of the two `while i < mirror` loops: the pair (i, j) is swapped     *)
(* when bit j of the source is set; a new source is hashed when j & 0xFF   *)
(* is 0xFF and a new byte read when j & 0x7 is 0x7 (j walks downwards).    *)
(***************************************************************************)
RECURSIVE SwapPairsByteOffByOne(_, _, _, _, _, _, _, _)
\* Fault: the byte is reloaded when j & 0x7 is 0, one position late.
SwapPairsByteOffByOne(l, i, j, mirror, block, byteV, s, round) ==
    IF i >= mirror THEN l
    ELSE
      LET block2 == IF j % 256 = 255 THEN j \div 256 ELSE block
          byte2 == IF j % 8 = 0 THEN SourceByte(s, round, block2, (j % 256) \div 8) ELSE byteV
          bitV == (byte2 \div (2 ^ (j % 8))) % 2
      IN  SwapPairsByteOffByOne(IF bitV = 1 THEN Swap(l, i, j) ELSE l,
                                i + 1, j - 1, mirror, block2, byte2, s, round)

RECURSIVE SwapPairs(_, _, _, _, _, _, _, _)
SwapPairs(l, i, j, mirror, block, byteV, s, round) ==
    IF i >= mirror THEN l
    ELSE
      LET block2 == IF j % 256 = 255 THEN j \div 256 ELSE block
          byte2 == IF j % 8 = 7 THEN SourceByte(s, round, block2, (j % 256) \div 8) ELSE byteV
          bitV == (byte2 \div (2 ^ (j % 8))) % 2
      IN  SwapPairs(IF bitV = 1 THEN Swap(l, i, j) ELSE l,
                    i + 1, j - 1, mirror, block2, byte2, s, round)

\* One round of _inner_shuffle_list: the pairs mirrored around pivot / 2,
\* then those mirrored around (pivot + listSize) / 2.
ShuffleRound(l, s, round) ==
    LET listSize == Cardinality(DOMAIN l)
        pivot == PivotHash(s, round) % listSize
        end == listSize - 1
        firstHalf == SwapPairs(l, 0, pivot, (pivot + 1) \div 2, pivot \div 256,
                               SourceByte(s, round, pivot \div 256, (pivot % 256) \div 8),
                               s, round)
    IN  SwapPairs(firstHalf, pivot + 1, end, (pivot + listSize + 1) \div 2, end \div 256,
                  SourceByte(s, round, end \div 256, (end % 256) \div 8), s, round)

(***************************************************************************)
(* The reference: compute_shuffled_index(index, index_count, seed), the    *)
(* rounds applied to one index.                                            *)
(***************************************************************************)
RECURSIVE ShuffledIndexFrom(_, _, _, _)
ShuffledIndexFrom(index, index_count, s, round) ==
    IF round = SHUFFLE_ROUND_COUNT THEN index
    ELSE
      LET pivot == PivotHash(s, round) % index_count
          flip == (pivot + index_count - index) % index_count
          position == IF index > flip THEN index ELSE flip
          next == IF HashBit(s, round, position) = 1 THEN flip ELSE index
      IN  ShuffledIndexFrom(next, index_count, s, round + 1)

ComputeShuffledIndex(index, index_count, s) == ShuffledIndexFrom(index, index_count, s, 0)

-----------------------------------------------------------------------------
(* Committees of a ShufflingEpoch (slicing in module Committees).        *)

\* ShufflingEpoch.committees flattened in (slot, committee index) order.
CommitteesInOrder(sh) ==
    LET per_slot == ComputeCommitteeCount(Cardinality(DOMAIN sh))
    IN  FlattenSeq([c \in 1..(per_slot * SLOTS_PER_EPOCH) |->
                      SliceCommittee(sh, (c - 1) \div per_slot, (c - 1) % per_slot)])

-----------------------------------------------------------------------------
(* The state machine.                                                      *)

Init ==
    \E n \in 0..MaxListSize, s \in Seeds :
        /\ input = [k \in 0..(n - 1) |-> k]
        /\ seed = s
        /\ list = input
        /\ r = SHUFFLE_ROUND_COUNT - 1
        /\ shuffling = <<>>
        /\ phase = "unshuffle"

(***************************************************************************)
(* unshuffle_list: lists of at most one element return at once; otherwise  *)
(* one round per step from the last round down to round 0.                 *)
(***************************************************************************)
\* Fault: the round counter is decremented past round 0 before the loop exits.
UnshuffleStepPastZero ==
    /\ phase = "unshuffle"
    /\ LET done == ListSize <= 1 \/ r = 0
           l2 == IF ListSize <= 1 THEN list ELSE ShuffleRound(list, seed, r)
       IN  /\ list' = l2
           /\ r' = r - 1
           /\ shuffling' = IF done THEN l2 ELSE shuffling
           /\ phase' = IF done THEN "shuffle" ELSE phase
    /\ UNCHANGED <<input, seed>>

UnshuffleStep ==
    /\ phase = "unshuffle"
    /\ LET done == ListSize <= 1 \/ r = 0
           l2 == IF ListSize <= 1 THEN list ELSE ShuffleRound(list, seed, r)
       IN  /\ list' = l2
           /\ r' = IF done THEN 0 ELSE r - 1
           /\ shuffling' = IF done THEN l2 ELSE shuffling
           /\ phase' = IF done THEN "shuffle" ELSE phase
    /\ UNCHANGED <<input, seed>>

\* Fault: the shuffle stops one round early.
ShuffleStepShort ==
    /\ phase = "shuffle"
    /\ LET done == ListSize <= 1 \/ r + 2 >= SHUFFLE_ROUND_COUNT
       IN  /\ list' = IF ListSize <= 1 THEN list ELSE ShuffleRound(list, seed, r)
           /\ r' = IF done THEN r ELSE r + 1
           /\ phase' = IF done THEN "done" ELSE phase
    /\ UNCHANGED <<input, seed, shuffling>>

\* shuffle_list: round 0 up to the last round.
ShuffleStep ==
    /\ phase = "shuffle"
    /\ LET done == ListSize <= 1 \/ r + 1 = SHUFFLE_ROUND_COUNT
       IN  /\ list' = IF ListSize <= 1 THEN list ELSE ShuffleRound(list, seed, r)
           /\ r' = IF done THEN r ELSE r + 1
           /\ phase' = IF done THEN "done" ELSE phase
    /\ UNCHANGED <<input, seed, shuffling>>

Next == UnshuffleStep \/ ShuffleStep

Spec == Init /\ [][Next]_vars

-----------------------------------------------------------------------------
(* Properties.                                                            *)

TypeOK ==
    /\ phase \in {"unshuffle", "shuffle", "done"}
    /\ r \in 0..(SHUFFLE_ROUND_COUNT - 1)
    /\ DOMAIN list = DOMAIN input

(***************************************************************************)
(* The fast unshuffle agrees with the reference: position k of the         *)
(* shuffling holds input[compute_shuffled_index(k)], which is what the     *)
(* committees of the Phase 0 specification are made of.  This exercises   *)
(* the pivot mirroring of both loops and the byte and source caching.     *)
(***************************************************************************)
UnshuffleMatchesReference ==
    phase # "unshuffle" =>
        shuffling = [k \in DOMAIN input |->
                        input[ComputeShuffledIndex(k, Cardinality(DOMAIN input), seed)]]

(***************************************************************************)
(* shuffle_list undoes unshuffle_list with the same seed: running the      *)
(* rounds in the other order restores the input (spec section 8, law 6).   *)
(***************************************************************************)
ShuffleInvertsUnshuffle == phase = "done" => list = input

(***************************************************************************)
(* The committees of the unshuffled list, concatenated in (slot, index)    *)
(* order, are the shuffling itself: every active index sits in exactly one *)
(* committee (spec section 8, law 7), for committee counts clamped both    *)
(* to 1 and to MAX_COMMITTEES_PER_SLOT.                                    *)
(***************************************************************************)
CommitteesPartitionShuffling ==
    phase # "unshuffle" =>
        CommitteesInOrder(shuffling) =
            [k \in 1..Cardinality(DOMAIN shuffling) |-> shuffling[k - 1]]
====
