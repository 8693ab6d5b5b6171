------------------------- MODULE MCFrequencyScaling -------------------------
(* FrequencyScaling for TLC: the kernel lists frequencies from the highest   *)
(* to the lowest, with a space behind each and a line's end behind all.      *)
EXTENDS FrequencyScaling

TwoLevels == <<2400, Space, 1200, Space, Newline>>

\* The hypothesis of the theorem on ranks holds of this text.
ASSUME TextIsTheKernels == HighestFirst
=============================================================================
