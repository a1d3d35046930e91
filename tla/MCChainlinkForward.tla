-------------------------- MODULE MCChainlinkForward --------------------------
(* ChainlinkForward for TLC: two feeds, one of them with a round Silver rejects. *)
EXTENDS ChainlinkForward, TLC

CONSTANTS f1, f2
MCFeeds == {f1, f2}
MCMalformed == {<<f2, 2, 1>>}
MCOutOfRange == {<<f1, 1, 3>>}
===============================================================================
