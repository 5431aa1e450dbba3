--------------------------- MODULE MCEPollPoller ---------------------------
(* EPollPoller on three addresses and fewer descriptor numbers.            *)
EXTENDS EPollPoller, TLC

CONSTANTS c1, c2, c3, d1, d2

ChannelFdSymmetry == Permutations({c1, c2, c3}) \cup Permutations({d1, d2})
=============================================================================
