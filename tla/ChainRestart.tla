---------------------------- MODULE ChainRestart ----------------------------
(***************************************************************************)
(* What survives a restart.  Block files and the UTXO database are written *)
(* as blocks are processed; the index, its flags and the two tips are kept *)
(* in memory and written to block_indices.dat every five minutes and at    *)
(* termination (save_block_indices).  A process that is killed loses what  *)
(* happened to the index since the last save but nothing of the rest, and  *)
(* it may be killed between two writes of register_validated_block, or of  *)
(* save_block_indices.                                                     *)
(***************************************************************************)
EXTENDS BlockStore

CONSTANTS
    BucketOrder,  \* blocks in the order of their hash map buckets
    MaxCrashes    \* bound: how often the process is killed, or its UTXO
                  \* database reset

ASSUME CrashAssumption ==
    /\ BucketOrder \in [1 .. Cardinality(Blocks) -> Blocks]
    /\ IsInjective(BucketOrder)
    /\ MaxCrashes \in Nat

VARIABLES
    savedIndex,  \* block_indices.dat: what loading it makes of an index
    crashes,     \* how often the process was killed, or the database reset
    applied      \* history: blocks whose registration was ever begun

diskVars == <<savedIndex, crashes, applied>>
restartVars == <<vars, diskVars>>

-----------------------------------------------------------------------------
(* save_block_indices writes the two tips and every index.                 *)
Snapshot ==
    [indices      |-> blockIndices,
     headerTip    |-> mainHeaderTip,
     validatedTip |-> mainValidatedTip,
     available    |-> fullBlockAvailable,
     validated    |-> fullBlockValidated,
     registered   |-> outputsRegistered]

Save ==
    /\ Idle
    /\ crashes < MaxCrashes
    /\ savedIndex' = Snapshot
    /\ UNCHANGED <<vars, crashes, applied>>

(* The index load_genesis makes before the file is read.                   *)
Fresh ==
    [indices      |-> [h \in {Genesis} |-> [chainStatus |-> MAINCHAIN,
                                           height      |-> 0,
                                           chainPOW    |-> Work[Genesis],
                                           children    |-> << >>]],
     headerTip    |-> [hash |-> Genesis, height |-> 0, chainPOW |-> Work[Genesis]],
     validatedTip |-> [hash |-> Genesis, height |-> 0, chainPOW |-> Work[Genesis]],
     available    |-> {Genesis},
     validated    |-> {Genesis},
     registered   |-> {Genesis}]

(* The indices in the file when it is cut short: they are written bucket   *)
(* by bucket (hashmap_getkeys).                                            *)
WrittenSoFar ==
    LET keys == SelectSeq(BucketOrder, LAMBDA h : h \in Indexed)
    IN  {ToSet(written) : written \in Prefixes(keys) \ {keys}}

(* The file emptied and then cut short, between any two of its records:    *)
(* without tips, with the first, or with both and some of the indices.     *)
(* load_block_indices leaves what it does not find as load_genesis made    *)
(* it.  (The indices it counts and does not find it enters as one of       *)
(* zeroes, under the zero hash.  Only find_missing_blocks looks that hash  *)
(* up, as the child of a leaf without a file, and takes it for one being   *)
(* requested, as the requesting of every peer is zero; it ends there as it *)
(* would without the entry.)                                               *)
TornSnapshots ==
    {Fresh, [Fresh EXCEPT !.headerTip = mainHeaderTip]}
      \cup {[indices      |-> [h \in written \cup {Genesis} |->
                                 IF h \in written THEN blockIndices[h] ELSE Fresh.indices[h]],
             headerTip    |-> mainHeaderTip,
             validatedTip |-> mainValidatedTip,
             available    |-> (fullBlockAvailable \cap written) \cup ({Genesis} \ written),
             validated    |-> (fullBlockValidated \cap written) \cup ({Genesis} \ written),
             registered   |-> (outputsRegistered \cap written) \cup ({Genesis} \ written)]
            : written \in WrittenSoFar}

(* Mutant of Load: genesis is processed after the file was read, as a      *)
(* block of an empty index.                                                *)
LoadBeforeGenesis(saved) ==
    /\ blockIndices' = [saved.indices EXCEPT ![Genesis].children = << >>]
    /\ mainHeaderTip' = saved.headerTip
    /\ mainValidatedTip' = saved.validatedTip
    /\ fullBlockAvailable' = saved.available
    /\ fullBlockValidated' = saved.validated
    /\ outputsRegistered' = saved.registered

(* load_block_indices replaces the tips and the index of genesis that      *)
(* load_genesis made.  There is no file before the first save: what is     *)
(* left then is the state of a first run, the initial value of savedIndex. *)
Load(saved) ==
    /\ blockIndices' = saved.indices
    /\ mainHeaderTip' = saved.headerTip
    /\ mainValidatedTip' = saved.validatedTip
    /\ fullBlockAvailable' = saved.available
    /\ fullBlockValidated' = saved.validated
    /\ outputsRegistered' = saved.registered

(* The orphanage is not saved, and scan_block_indices refills it with the  *)
(* indices whose status is ORPHAN, of which there are none; genesis alone  *)
(* went in again.                                                          *)
OrphanageOfGenesis ==
    /\ orphans' = [s \in Slots |-> IF s = 0 THEN Genesis ELSE NoHash]
    /\ orphanCount' = 1

(* Mutant of Restart: the UTXO database is made anew at every start.       *)
RestartOnEmptyUtxo(saved, coins) ==
    /\ Load(saved)
    /\ utxo' = OutsOf(Genesis)
    /\ blockFiles' = blockFiles \cup {Genesis}
    /\ OrphanageOfGenesis
    /\ validating' = NoHash
    /\ mode' = IF ShouldCatchup' THEN CATCHUP ELSE NORMAL

(* init of the next run, on a UTXO database that holds coins: load_genesis *)
(* validates and registers genesis on an empty index and stores it, the    *)
(* index is loaded over it, and the mode is chosen.                        *)
Restart(saved, coins) ==
    /\ Load(saved)
    /\ utxo' = Register(coins, Genesis)
    /\ blockFiles' = blockFiles \cup {Genesis}
    /\ OrphanageOfGenesis
    /\ validating' = NoHash
    /\ mode' = IF ShouldCatchup' THEN CATCHUP ELSE NORMAL

(* terminate_execution saves before it closes anything.                    *)
StopAndRestart ==
    /\ Idle
    /\ savedIndex' = Snapshot
    /\ Restart(Snapshot, utxo)
    /\ UNCHANGED <<crashes, applied>>

(* A stop, a run with --reset-utxo, and a start.  reset_validation clears  *)
(* the flags of all indices; the database that reset_utxo destroys is one  *)
(* beside archive/, where there is none, so that the node's own stays.     *)
StopAndReset ==
    LET cleared == [Snapshot EXCEPT !.validatedTip = TipAt(Genesis, blockIndices[Genesis]),
                                    !.validated    = {},
                                    !.registered   = {}]
    IN  /\ Idle
        /\ crashes < MaxCrashes
        /\ crashes' = crashes + 1
        /\ savedIndex' = cleared
        /\ Restart(cleared, utxo)
        /\ UNCHANGED applied

(* The process is killed between two callbacks, or between two rounds of   *)
(* validate_blocks.                                                        *)
Kill ==
    /\ crashes < MaxCrashes
    /\ crashes' = crashes + 1
    /\ Restart(savedIndex, utxo)
    /\ UNCHANGED <<savedIndex, applied>>

(* The process is killed while it saves.                                   *)
KillInSave ==
    /\ Idle
    /\ crashes < MaxCrashes
    /\ crashes' = crashes + 1
    /\ \E torn \in TornSnapshots :
          /\ savedIndex' = torn
          /\ Restart(torn, utxo)
    /\ UNCHANGED applied

(* The states the UTXO database passes through while b is registered.      *)
PartlyRegistered(coins, b) ==
    UNION {LET before == FoldLeft(RegisterTx, coins, SubSeq(Txs[b], 1, k - 1))
           IN  {before \cup some : some \in SUBSET Txs[b][k].outs}
                 \cup {(before \cup Txs[b][k].outs) \ some :
                          some \in SUBSET Txs[b][k].ins}
           : k \in DOMAIN Txs[b]}

(* A call that registers b: from process_incoming_block, or from           *)
(* validate_block.                                                         *)
MayRegister(b) ==
    /\ IsBlockValid(b)
    /\ \/ Idle /\ mode = NORMAL /\ b \notin outputsRegistered
       \/ b = NextToValidate /\ b \in fullBlockAvailable

KillInRegister(b) ==
    /\ crashes < MaxCrashes
    /\ MayRegister(b)
    /\ crashes' = crashes + 1
    /\ \E coins \in PartlyRegistered(utxo, b) : Restart(savedIndex, coins)
    /\ applied' = applied \cup {b}
    /\ UNCHANGED savedIndex

(* A step of the running process.                                          *)
Run ==
    /\ StoreNext
    /\ applied' = applied \cup outputsRegistered'
    /\ UNCHANGED <<savedIndex, crashes>>

RestartInit ==
    /\ StoreInit
    /\ savedIndex = Fresh
    /\ crashes = 0
    /\ applied = {Genesis}

RestartNext ==
    \/ Run
    \/ Save
    \/ StopAndRestart
    \/ StopAndReset
    \/ Kill
    \/ KillInSave
    \/ \E b \in Blocks : KillInRegister(b)

RestartSpec == RestartInit /\ [][RestartNext]_restartVars

-----------------------------------------------------------------------------
(* Properties.                                                             *)

(* A clean stop and the start after it leave the index, the flags, the     *)
(* tips, the UTXO database and the files as they were: processing genesis  *)
(* again in load_genesis has no lasting effect, but that it brings the     *)
(* output of genesis back if a block has spent it.                         *)
CleanRestartKeepsAll ==
    [][StopAndRestart =>
         /\ UNCHANGED <<blockIndices, mainHeaderTip, metaVars, mainValidatedTip,
                        blockFiles>>
         /\ utxo' = utxo \cup OutsOf(Genesis)]_vars

(* Neither the index in memory nor the saved one runs ahead of what is on  *)
(* disk, across kills between any two writes and files cut short: a block  *)
(* it calls available has its file, and no output of a block it calls      *)
(* registered is lost without a block that was applied and spends it.      *)
IndexBehindDisk ==
    LET lost == (UNION {OutsOf(b) : b \in outputsRegistered \cup savedIndex.registered})
                   \ utxo
    IN  /\ fullBlockAvailable \cup savedIndex.available \subseteq blockFiles
        /\ lost \subseteq UNION {InsOf(b) : b \in applied}

(* Every output a block spends was created by a block found valid before,  *)
(* and the database holds nothing else: a kill may make the node apply a   *)
(* block twice but never lets one spend out of thin air.                   *)
SpendsSourcedAcrossKills ==
    LET created == UNION {OutsOf(b) : b \in applied}
    IN  /\ outputsRegistered \cup savedIndex.registered \subseteq applied
        /\ utxo \subseteq created
        /\ \A b \in applied : InsOf(b) \subseteq created

(* What --reset-utxo prints that it does, "Reseting utxo" and "Done        *)
(* destructing." (blockchain.c:733, persistent.c:416): until a block is    *)
(* registered again the database holds nothing but the output of genesis.  *)
ResetEmptiesUtxo == outputsRegistered = {} => utxo = OutsOf(Genesis)

=============================================================================
