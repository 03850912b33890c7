----------------------------- MODULE BlockFile -----------------------------
(***************************************************************************)
(* The file of a block (persistent.c, save_block and load_block): a legal  *)
(* block is written when it has arrived, any number of times, and read     *)
(* when it is validated.  The node may be killed while it writes.          *)
(***************************************************************************)
EXTENDS Transaction

CONSTANT BlocksReceived   \* blocks peers send, as parsed

(* A message says in four bytes how long it is, so a block is not longer.  *)
ASSUME BlockFileAssumption ==
    \A b \in BlocksReceived :
        /\ b = [header |-> b.header, txs |-> b.txs]
        /\ b.header = [prev_block |-> b.header.prev_block, merkle_root |-> b.header.merkle_root,
                       timestamp |-> b.header.timestamp, nonce |-> b.header.nonce]
        /\ b.txs \in Seq(TxType)
        /\ \A k \in DOMAIN b.txs : WitnessesFit(b.txs[k])
        /\ Len(SerializeBlock(b)) < Place[4]

VARIABLES
    block,     \* the block whose file this is
    file,      \* no file, or one with its cells
    loaded     \* what load_block returned for this file, and read

fileVars == <<block, file, loaded>>

NothingLoaded == [status |-> "none", block |-> [txs |-> << >>]]

BlockFileInit ==
    /\ block \in BlocksReceived
    /\ file = {}
    /\ loaded = NothingLoaded

(* process_incoming_block saves legal blocks only; fopen empties the file. *)
SaveBlock ==
    /\ IsBlockLegal(block)
    /\ file' = {SerializeBlock(block)}
    /\ loaded' = NothingLoaded
    /\ UNCHANGED block

(* The node is killed while the file is written, or its disk is full: some *)
(* of it is there.  (fwrite's result is not looked at.)                    *)
SaveBlockTorn(n) ==
    /\ IsBlockLegal(block)
    /\ n < Len(SerializeBlock(block))
    /\ file' = {SubSeq(SerializeBlock(block), 1, n)}
    /\ loaded' = NothingLoaded
    /\ UNCHANGED block

(* Mutant of LoadStatus: the block that was read is taken for legal.       *)
LoadStatusUnchecked(found) ==
    IF found.header # block.header THEN {"ERROR_BAD_DATA"} ELSE {"OK"}

(* The hash of the header, then the block.  Of a block without             *)
(* transactions is_block_legal follows a pointer that is not there.        *)
LoadStatus(found) ==
    CASE found.header # block.header -> {"ERROR_BAD_DATA"}
      [] found.header = block.header /\ found.txs = << >> -> {"ERROR_BAD_DATA", "crashed"}
      [] found.header = block.header /\ found.txs # << >> ->
            {IF IsBlockLegal(found) THEN "OK" ELSE "ERROR_BAD_DATA"}

LoadBlock ==
    /\ \E cells \in file : \E status \in LoadStatus(ParseBlock(cells)) :
          loaded' = [status |-> status, block |-> ParseBlock(cells)]
    /\ UNCHANGED <<block, file>>

BlockFileNext ==
    \/ SaveBlock
    \/ \E n \in 0 .. Len(SerializeBlock(block)) : SaveBlockTorn(n)
    \/ LoadBlock

BlockFileSpec == BlockFileInit /\ [][BlockFileNext]_fileVars

-----------------------------------------------------------------------------
(* Properties.                                                             *)

(* The merkle tree by its definition: node k of a level joins nodes 2k and *)
(* 2k + 1 of the level below, or 2k twice if it is the last there.         *)
LevelAbove(below) ==
    [width |-> (below.width + 1) \div 2,
     node  |-> [k \in Nat |->
                  <<below.node[2 * k],
                    below.node[IF 2 * k + 1 < below.width THEN 2 * k + 1 ELSE 2 * k]>>]]

TreeRoot(leaves) ==
    LET level[d \in Nat] ==
            IF d = 0 THEN [width |-> Len(leaves), node |-> [k \in Nat |-> leaves[k + 1]]]
            ELSE LevelAbove(level[d - 1])
        height == CHOOSE d \in 0 .. Len(leaves) :
                      level[d].width = 1 /\ \A c \in 0 .. d - 1 : level[c].width > 1
    IN  level[height].node[0]

(* What is on disk under the hash of a header is what that header stands   *)
(* for: its merkle root is the root of the tree over the transactions, and *)
(* exactly one input of all is a coinbase, the first of the first          *)
(* transaction (tx.c:190-246, block.c:136-200).                            *)
SavedIsCommitted ==
    file # {} =>
        /\ block.header.merkle_root = TreeRoot([k \in DOMAIN block.txs |-> HashTx(block.txs[k])])
        /\ \A k \in DOMAIN block.txs : \A i \in DOMAIN block.txs[k].txInputs :
              block.txs[k].txInputs[i].previous_output = <<0, NoIndex>> <=> <<k, i>> = <<1, 1>>

(* A file that was written to its end reads as the block it was written    *)
(* from, witnesses included, and as legal; one that was cut short anywhere *)
(* never reads as another legal block, so that a kill during save_block    *)
(* cannot change a block (persistent.c:274-333).                           *)
LoadedIsSaved ==
    /\ loaded.status = "OK" => loaded.block = block
    /\ file = {SerializeBlock(block)} => loaded.status \in {"none", "OK"}

=============================================================================
