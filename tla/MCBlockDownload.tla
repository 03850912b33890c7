-------------------------- MODULE MCBlockDownload --------------------------
(* A chain of two after genesis, whose second block becomes the header tip *)
(* if it arrives without its parent, and a fork with more work that is not *)
(* part of the chain of the peers.                                         *)
EXTENDS BlockDownload, MCDoubles

CONSTANTS g, a1, a2, b1, none

MCBlocks == {g, a1, a2, b1}

MCPrev == [b \in MCBlocks |->
    CASE b = g -> none [] b \in {a1, b1} -> g [] b = a2 -> a1]

MCWork == [b \in MCBlocks |-> IF b = b1 THEN 4 ELSE IF b = a2 THEN 2 ELSE 1]

MCSoundAt == [b \in MCBlocks |-> IF b = a2 THEN {2} ELSE 0 .. 2]

MCOutpoints == {}

MCTxs == [b \in MCBlocks |-> << >>]

MCPeerChain == <<a1, a2>>

=============================================================================
