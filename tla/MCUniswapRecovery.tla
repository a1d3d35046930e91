--------------------------- MODULE MCUniswapRecovery ---------------------------
(* UniswapRecovery for TLC: three blocks, one of them with a malformed log    *)
(* and one that the streaming writer may land in live Bronze, at most two in  *)
(* one run, one lease holder and two source contracts.                        *)
EXTENDS UniswapRecovery, TLC

================================================================================
