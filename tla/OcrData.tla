------------------------------- MODULE OcrData -------------------------------
(***************************************************************************)
(* The sizes and delays of the OCR accelerator that its two state machines *)
(* share (data_pack.vhd, mem_pack.vhd).                                    *)
(***************************************************************************)
EXTENDS Naturals

CONSTANTS
  N,               \* classes, "none" among them (11)
  k,               \* pairs of filters: total_filters / 2 (32)
  T_RAM,           \* cycles a column takes to arrive (1)
  T_find_winner    \* cycles from the last score to the winner (2)

\* There is a bias for every class (mem_pack.vhd: BFC_depth).
ASSUME OcrDataAssumption ==
  /\ N \in Nat \ {0} /\ k \in Nat /\ k >= 3 /\ N <= k + 1

\* data_pack.vhd fixes the delays, and the machines are written for them: with others
\* either the two of them or the columns get out of step.
ASSUME DelayAssumption == T_RAM = 1 /\ T_find_winner = 2
=============================================================================
