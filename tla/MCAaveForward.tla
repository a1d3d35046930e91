---------------------------- MODULE MCAaveForward -----------------------------
(* AaveForward for TLC: three blocks, at most two of them in one run.        *)
EXTENDS AaveForward, TLC

================================================================================
