--------------------------- MODULE MCChainRestart ---------------------------
(* A ledger of four blocks for ChainRestart.                               *)
EXTENDS ChainRestart, MCDoubles

CONSTANTS g, a1, a2, b2, none, og, oa1, oc, oa2, ob2

MCBlocks == {g, a1, a2, b2}

(* Two branches after a1, the first of which adds no work.                 *)
MCPrev ==
    [b \in MCBlocks |-> CASE b = g -> none
                          [] b = a1 -> g
                          [] b \in {a2, b2} -> a1]

(* a1 is written between its children, one of them behind genesis.         *)
MCBucketOrder == <<a2, a1, g, b2>>

MCWork ==
    [b \in MCBlocks |-> CASE b \in {g, a1} -> 4
                          [] b = a2 -> 1
                          [] b = b2 -> 2]

MCSoundAt == [b \in MCBlocks |-> {0, 1, 2}]

Coinbase(outpoint) == [outs |-> {outpoint}, ins |-> {}]
Payment(out, ins) == [outs |-> {out}, ins |-> ins]

(* a2 and b2 have the same coinbase.  Both spend the output of a1, a2 that *)
(* of genesis and b2 the coinbase too.                                     *)
MCTxs ==
    [b \in MCBlocks |->
        CASE b = g  -> <<Coinbase(og)>>
          [] b = a1 -> <<Coinbase(oa1)>>
          [] b = a2 -> <<Coinbase(oc), Payment(oa2, {oa1, og})>>
          [] b = b2 -> <<Coinbase(oc), Payment(ob2, {oa1, oc})>>]

=============================================================================
