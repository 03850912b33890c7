---------------------------- MODULE MCBlockStore ----------------------------
(* A ledger of six blocks for BlockStore.                                  *)
EXTENDS BlockStore, MCDoubles

CONSTANTS g, a1, a2, a3, b2, c3, none,
          og, oa1, oc, oa3, oa3x, ob2, oc3

(* A chain of three, the work of whose second block is absorbed, and a     *)
(* fork from each of its first two blocks, the first with more work.       *)
MCBlocks == {g, a1, a2, a3, b2, c3}

MCPrev ==
    [b \in MCBlocks |->
        CASE b = g -> none
          [] b = a1 -> g
          [] b \in {a2, b2} -> a1
          [] b \in {a3, c3} -> a2]

MCWork ==
    [b \in MCBlocks |->
        CASE b \in {g, a1} -> 4
          [] b = a2 -> 1
          [] b \in {a3, c3} -> 2
          [] b = b2 -> 6]

(* c3 conflicts with the checkpoint at height 3, which does not apply when *)
(* c3 or its parent was entered without a parent.                          *)
MCSoundAt == [b \in MCBlocks |-> IF b = c3 THEN {0, 1} ELSE 0 .. 3]

MCOutpoints == {og, oa1, oc, oa3, oa3x, ob2, oc3}

Coinbase(outpoint) == [outs |-> {outpoint}, ins |-> {}]
Payment(out, ins) == [outs |-> {out}, ins |-> ins]

(* a2 and b2 have the same coinbase, which b2 itself spends.  a3 spends it *)
(* too, and the coinbase of a1, and an output of its own block, and the    *)
(* coinbase of a1 once more in another transaction; c3 spends the coinbase *)
(* of a1 as well.                                                          *)
MCTxs ==
    [b \in MCBlocks |->
        CASE b = g  -> <<Coinbase(og)>>
          [] b = a1 -> <<Coinbase(oa1)>>
          [] b = a2 -> <<Coinbase(oc)>>
          [] b = a3 -> <<Payment(oa3, {oa1, oc}), Payment(oa3x, {oa1, oa3})>>
          [] b = b2 -> <<Coinbase(oc), Payment(ob2, {oc})>>
          [] b = c3 -> <<Payment(oc3, {oa1})>>]

=============================================================================
