----------------------------- MODULE MCWatermarks -----------------------------
(* Watermarks for TLC: two clients, one feed cursor and the global block.   *)
EXTENDS Watermarks, TLC

CONSTANTS c1, c2

MCClients == {c1, c2}

================================================================================
