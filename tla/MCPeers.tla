------------------------------ MODULE MCPeers ------------------------------
(* Peers with four Peers in memory and three addresses.                    *)
EXTENDS Peers, TLC

CONSTANTS c1, c2, c3, p1, p2, p3, p4

(* No definition tells one id from another, or one candidate from another  *)
(* but the first: a new Peer takes any free id.                            *)
Symmetry == Permutations({p1, p2, p3, p4}) \cup Permutations({c2, c3})

=============================================================================
