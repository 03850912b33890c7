-------------------------- MODULE MCPeerCandidates --------------------------
(* Three addresses, one of them a seed, in an array of three.              *)
EXTENDS PeerCandidates

CONSTANTS ip1, ip2, ip3

MCSeeds == <<ip1>>

=============================================================================
