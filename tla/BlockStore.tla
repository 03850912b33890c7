----------------------------- MODULE BlockStore -----------------------------
(***************************************************************************)
(* Full blocks: what process_incoming_block and validate_block do with     *)
(* them once their header is in the index - validation against the UTXO    *)
(* database, registration of their outputs, the validated tip, and the     *)
(* block files - and what the download side reads back from it             *)
(* (max_full_block_height_from_genesis, should_catchup).                   *)
(*                                                                         *)
(* A block is legal or not whatever the state is (is_block_legal).  Once   *)
(* every output it spends is found, its validity depends on the state only *)
(* through the height in its index, which the subsidy and the checkpoints  *)
(* are looked up by: SoundAt is the set of heights at which it passes.     *)
(* The three booleans of an index are three sets of hashes.                *)
(***************************************************************************)
EXTENDS HeaderChain, SequencesExt

CONSTANTS
    LegalBlocks,      \* blocks is_block_legal accepts
    SoundAt,          \* heights at which a block with all its sources is valid
    Outpoints,        \* all the transaction outputs there are
    Txs,              \* the transactions of each block, in order
    UintModulus,      \* 2^32, scaled down
    CatchupThreshold  \* config.catchupThreshold

TxType == [outs : SUBSET Outpoints, ins : SUBSET Outpoints]

OutsOf(b) == UNION {Txs[b][k].outs : k \in DOMAIN Txs[b]}
InsOf(b)  == UNION {Txs[b][k].ins : k \in DOMAIN Txs[b]}

(* Genesis has a coinbase only.  Nothing is assumed of the other blocks'   *)
(* transactions, as nothing is checked: the same one may be in several     *)
(* blocks, on one branch or on two, or more than once in a block, and      *)
(* several inputs may name the same output.                                *)
ASSUME BlockAssumption ==
    /\ LegalBlocks \subseteq Blocks
    /\ Genesis \in LegalBlocks
    /\ SoundAt \in [LegalBlocks -> SUBSET Nat]
    /\ 0 \in SoundAt[Genesis]
    /\ Txs \in [Blocks -> Seq(TxType)]
    /\ InsOf(Genesis) = {}

ASSUME CatchupAssumption ==
    /\ UintModulus \in Nat
    /\ UintModulus > 2 * Cardinality(Blocks)
    /\ CatchupThreshold \in Nat

VARIABLES
    fullBlockAvailable,  \* meta.fullBlockAvailable of each index
    fullBlockValidated,  \* meta.fullBlockValidated
    outputsRegistered,   \* meta.outputsRegistered
    mainValidatedTip,    \* global.mainValidatedTip, a copy
    utxo,                \* keys of the UTXO database
    blockFiles,          \* blocks with a file under archive/blocks
    mode,                \* global.mode, of the two the event loop runs in
    validating           \* blockHash within the loop of validate_blocks;
                         \* NoHash when the event loop is not in it

metaVars  == <<fullBlockAvailable, fullBlockValidated, outputsRegistered>>
chainVars == <<mainValidatedTip, utxo>>
storeVars == <<metaVars, chainVars, blockFiles, mode, validating>>
vars      == <<headerVars, storeVars>>

NORMAL  == "NORMAL"
CATCHUP == "CATCHUP"

(* No other callback runs before validate_blocks returns.                  *)
Idle == validating = NoHash

-----------------------------------------------------------------------------
(* Validation and registration.                                            *)

(* The context of b once process_incoming_block_header has returned.       *)
ContextAfterHeader(b) ==
    IF b \in Indexed THEN blockIndices[b] ELSE NewContext(b)

(* search_utxo: in the database, or among the earlier transactions of the  *)
(* same block.                                                             *)
SourceFound(b, k, outpoint) ==
    \/ outpoint \in utxo
    \/ \E j \in 1 .. k - 1 : outpoint \in Txs[b][j].outs

(* Mutant of IsBlockValid: the search of the sources is left out.          *)
IsBlockValidUnsourced(b) ==
    b \in LegalBlocks /\ ContextAfterHeader(b).height \in SoundAt[b]

(* is_block_valid: legal, compatible with the checkpoint at its height,    *)
(* and every transaction valid.                                            *)
IsBlockValid(b) ==
    /\ b \in LegalBlocks
    /\ ContextAfterHeader(b).height \in SoundAt[b]
    /\ \A k \in DOMAIN Txs[b] : \A outpoint \in Txs[b][k].ins :
          SourceFound(b, k, outpoint)

(* register_validated_block: transaction by transaction, outputs are saved *)
(* and then inputs are spent.                                              *)
RegisterTx(coins, tx) == (coins \cup tx.outs) \ tx.ins

(* Mutant of Register: the inputs of a transaction are spent before the    *)
(* outputs of the block are saved.                                         *)
RegisterSpendFirst(coins, b) == (coins \ InsOf(b)) \cup OutsOf(b)

Register(coins, b) == FoldLeft(RegisterTx, coins, Txs[b])

TipAt(b, context) ==
    [hash |-> b, height |-> context.height, chainPOW |-> context.chainPOW]

-----------------------------------------------------------------------------
(* process_incoming_block.                                                 *)

(* Mutant of MovesValidatedTip: the chain status is not looked at.         *)
MovesValidatedTipAnyChain(context) ==
    context.chainPOW > mainValidatedTip.chainPOW

MovesValidatedTip(context) ==
    /\ context.chainStatus = MAINCHAIN
    /\ context.chainPOW > mainValidatedTip.chainPOW

RegisterIncoming(b) ==
    IF b \in outputsRegistered
    THEN UNCHANGED <<utxo, outputsRegistered>>
    ELSE /\ utxo' = Register(utxo, b)
         /\ outputsRegistered' = outputsRegistered \cup {b}

ValidateIncoming(b) ==
    LET context == ContextAfterHeader(b)
    IN  \/ /\ IsBlockValid(b)
           /\ fullBlockValidated' = fullBlockValidated \cup {b}
           /\ mainValidatedTip' = IF MovesValidatedTip(context)
                                  THEN TipAt(b, context) ELSE mainValidatedTip
           /\ RegisterIncoming(b)
        \/ /\ ~ IsBlockValid(b)
           /\ fullBlockValidated' = fullBlockValidated \ {b}
           /\ UNCHANGED <<mainValidatedTip, utxo, outputsRegistered>>

(* save_block and the flag after it; when the file cannot be opened (-5)   *)
(* the validation above stands and the block stays as it was.              *)
SaveBlock(b, saved) ==
    IF saved
    THEN /\ blockFiles' = blockFiles \cup {b}
         /\ fullBlockAvailable' = fullBlockAvailable \cup {b}
    ELSE UNCHANGED <<blockFiles, fullBlockAvailable>>

(* Blocks are validated as they arrive in MODE_NORMAL only; in catchup     *)
(* they are only stored.  The header may be new or old.  (A block that is  *)
(* not legal returns -1 before anything is changed.)                       *)
ReceiveBlock(b, saved) ==
    /\ Idle
    /\ b \in LegalBlocks
    /\ AcceptHeader(b) \/ (b \in Indexed /\ UNCHANGED headerVars)
    /\ IF mode = NORMAL THEN ValidateIncoming(b)
       ELSE UNCHANGED <<fullBlockValidated, outputsRegistered, chainVars>>
    /\ SaveBlock(b, saved)
    /\ UNCHANGED <<mode, validating>>

ReceiveHeaders(b, legal) ==
    /\ Idle
    /\ ReceiveHeader(b, legal)
    /\ UNCHANGED storeVars

-----------------------------------------------------------------------------
(* validate_blocks.                                                        *)

(* The block validate_blocks takes up: the first child of the validated    *)
(* tip.  Later rounds of its loop take the first child of the block just   *)
(* validated, which has become the tip if its work counts.                 *)
NextToValidate ==
    IF Idle THEN FirstChild(mainValidatedTip.hash) ELSE validating

(* One round: validate_block(hash, saveValidation = true).  It registers   *)
(* without looking at outputsRegistered and moves the tip without looking  *)
(* at the chain status.                                                    *)
ValidateStored(b) ==
    /\ b \in fullBlockAvailable
    /\ IsBlockValid(b)
    /\ fullBlockValidated' = fullBlockValidated \cup {b}
    /\ outputsRegistered' = outputsRegistered \cup {b}
    /\ utxo' = Register(utxo, b)
    /\ mainValidatedTip' =
          IF blockIndices[b].chainPOW > mainValidatedTip.chainPOW
          THEN TipAt(b, blockIndices[b]) ELSE mainValidatedTip
    /\ validating' = FirstChild(b)
    /\ UNCHANGED <<headerVars, fullBlockAvailable, blockFiles, mode>>

ValidateNext ==
    /\ NextToValidate # NoHash
    /\ ValidateStored(NextToValidate)

(* The loop ends: the time is up, or the next block is not available or    *)
(* not valid.                                                              *)
EndValidation ==
    /\ ~ Idle
    /\ validating' = NoHash
    /\ UNCHANGED <<headerVars, metaVars, chainVars, blockFiles, mode>>

MarkBlockAsUnavailable(b) ==
    /\ fullBlockAvailable' = fullBlockAvailable \ {b}
    /\ fullBlockValidated' = fullBlockValidated \ {b}

(* load_block finds another block or an illegal one in the file, and the   *)
(* loop ends.                                                              *)
LoadBadBlock ==
    /\ NextToValidate \in fullBlockAvailable
    /\ MarkBlockAsUnavailable(NextToValidate)
    /\ validating' = NoHash
    /\ UNCHANGED <<headerVars, outputsRegistered, chainVars, blockFiles, mode>>

-----------------------------------------------------------------------------
(* Catchup.                                                                *)

(* The steps of the walk of max_full_block_height_from_genesis before it   *)
(* comes to a block that is missing, or to none.                           *)
FullSteps ==
    LET walk == FirstChildWalk(Genesis)
    IN  {n \in DOMAIN walk : \A k \in 0 .. n : walk[k] \in fullBlockAvailable}

(* Mutant of MaxFullBlockHeight: the height of the first missing block is  *)
(* returned, not the one below it.                                         *)
MaxFullBlockHeightUncorrected ==
    LET steps == Cardinality(FullSteps)
    IN  IF FirstChildWalk(Genesis)[steps] = NoHash THEN steps - 1 ELSE steps

(* In unsigned arithmetic: the height before the first missing block, or   *)
(* that of the last block of the walk.                                     *)
MaxFullBlockHeight == (Cardinality(FullSteps) - 1) % UintModulus

MissingBlocks == (mainHeaderTip.height - MaxFullBlockHeight) % UintModulus

ShouldCatchup == MissingBlocks > CatchupThreshold

(* reset_ibd_mode, on its timer.                                           *)
ResetIbdMode ==
    /\ Idle
    /\ mode' = IF ShouldCatchup THEN CATCHUP ELSE NORMAL
    /\ UNCHANGED <<headerVars, metaVars, chainVars, blockFiles, validating>>

-----------------------------------------------------------------------------
(* load_genesis of a first run, in MODE_NORMAL, has processed genesis as a *)
(* block: validated, registered and stored.                                *)
InitStore ==
    /\ fullBlockAvailable = {Genesis}
    /\ fullBlockValidated = {Genesis}
    /\ outputsRegistered = {Genesis}
    /\ mainValidatedTip = [hash |-> Genesis, height |-> 0,
                           chainPOW |-> Work[Genesis]]
    /\ utxo = OutsOf(Genesis)
    /\ blockFiles = {Genesis}
    /\ mode = NORMAL
    /\ validating = NoHash

StoreInit == Init /\ InitStore

StoreNext ==
    \/ \E b \in Blocks, legal \in BOOLEAN : ReceiveHeaders(b, legal)
    \/ \E b \in Blocks, saved \in BOOLEAN : ReceiveBlock(b, saved)
    \/ ValidateNext
    \/ EndValidation
    \/ LoadBadBlock
    \/ ResetIbdMode

StoreSpec == StoreInit /\ [][StoreNext]_vars

-----------------------------------------------------------------------------
(* Properties.                                                             *)

StoreTypeOK ==
    /\ TypeOK
    /\ mainValidatedTip \in Tip
    /\ utxo \subseteq Outpoints
    /\ blockFiles \subseteq Blocks
    /\ mode \in {NORMAL, CATCHUP}
    /\ validating \in Blocks \cup {NoHash}

Created == UNION {OutsOf(b) : b \in outputsRegistered}
Spent   == UNION {InsOf(b) : b \in outputsRegistered}

(* The work of b is lost in the rounded sum.                               *)
Absorbed(b) ==
    IsLinked(b) /\ blockIndices[b].chainPOW = blockIndices[Prev[b]].chainPOW

(* No two transactions of registered blocks create the output, and the     *)
(* block that does moves the validated tip when its turn comes, so that    *)
(* validate_blocks does not come back to it.                               *)
IssuedOnce(outpoint) ==
    \A b, c \in outputsRegistered : \A j \in DOMAIN Txs[b], k \in DOMAIN Txs[c] :
        outpoint \in Txs[b][j].outs \cap Txs[c][k].outs
            => b = c /\ j = k /\ ~ Absorbed(b)

(* The UTXO database loses no coin and holds none that was not created, in *)
(* whatever order blocks arrive, are sent again or are validated later     *)
(* (register_validated_block and its two callers); one that was spent is   *)
(* in it only if a second transaction, or a second registration, brought   *)
(* it back.  The flags say no more than that: a validated block is         *)
(* registered, a registered one indexed, and an available one has its      *)
(* file, although writing it may fail after the rest is done.              *)
UtxoExact ==
    /\ StoreTypeOK
    /\ Created \ Spent \subseteq utxo
    /\ utxo \subseteq Created
    /\ \A outpoint \in utxo \cap Spent : ~ IssuedOnce(outpoint)
    /\ fullBlockValidated \subseteq outputsRegistered
    /\ outputsRegistered \subseteq Indexed
    /\ fullBlockAvailable \subseteq Indexed \cap blockFiles

(* Nothing is spent that no registered block created, and two registered   *)
(* blocks, of one branch or of two, spend the same output only if it was   *)
(* brought back in between.                                                *)
NoDoubleSpend ==
    /\ Spent \subseteq Created
    /\ \A b, c \in outputsRegistered :
          b # c => \A outpoint \in InsOf(b) \cap InsOf(c) : ~ IssuedOnce(outpoint)

(* The validated tip is a registered main chain block, copied as it is in  *)
(* the index, and no registered main chain block has more work, although   *)
(* validate_block looks neither at the chain status nor at                 *)
(* outputsRegistered: of the blocks after the tip only absorbed ones may   *)
(* have been registered.                                                   *)
ValidatedTipIsBest ==
    LET tip == mainValidatedTip
    IN  /\ tip.hash \in outputsRegistered
        /\ OnMainchain(tip.hash)
        /\ tip = TipAt(tip.hash, blockIndices[tip.hash])
        /\ \A b \in outputsRegistered :
              OnMainchain(b) => blockIndices[b].chainPOW <= tip.chainPOW

(* As long as genesis is the only block without a parent, the unsigned     *)
(* difference in should_catchup wraps only if the work of a full block     *)
(* above the header tip was absorbed (communication.c:214): the last full  *)
(* block of the walk is at or below the header tip, or has no more work    *)
(* than it.  (An orphan with more work than the chain becomes header tip   *)
(* at height 0 and wraps it too.)                                          *)
CatchupWrapsOnAbsorbed ==
    Unlinked = {Genesis} /\ MaxFullBlockHeight > mainHeaderTip.height =>
        \E b \in fullBlockAvailable :
            /\ blockIndices[b].height = MaxFullBlockHeight
            /\ Absorbed(b)
            /\ blockIndices[b].chainPOW = mainHeaderTip.chainPOW

=============================================================================
