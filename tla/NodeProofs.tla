---------------------------- MODULE NodeProofs ----------------------------
(***************************************************************************)
(* Proofs about BlockStore and the two modules that build on it.           *)
(*                                                                         *)
(* BlockStore, for every tree of blocks, every order of delivery and every *)
(* ledger: the walk of validate_blocks stays on the main chain because the *)
(* first child of a main chain block is one (ChildLinks), and does not     *)
(* come down, because a rounded sum is not below its first term; so the    *)
(* inductive invariant is that of HeaderChain and the property itself,     *)
(* with registered blocks being indexed and the block validate_blocks      *)
(* holds being next to one with the work of the validated tip.  What that  *)
(* says of the ledger: a block registered for the second time is Absorbed. *)
(*                                                                         *)
(* BlockDownload takes steps of the store and no other, so what is proved  *)
(* of the store holds of it; what find_missing_blocks finds follows from   *)
(* the walk of HeaderChainProofs, gap by gap.                              *)
(*                                                                         *)
(* ChainRestart does not: after a kill the index is that of the last save, *)
(* so nothing that is proved of BlockStore's index holds of the index a    *)
(* start finds.  What those proofs rest on is what the disk keeps:         *)
(* registering a block, all of it or some of it, takes away no more than   *)
(* what it spends and adds no more than what it creates, and a start adds  *)
(* no more than the output of genesis.                                     *)
(***************************************************************************)
EXTENDS BlockDownload, ChainRestart, HeaderChainProofs

RegisterFold == INSTANCE Folding WITH Op <- RegisterTx

(* Only what is indexed is registered.                                     *)
RegisteredIndexed == outputsRegistered \subseteq Indexed

(* h continues the main chain on a block of so much work.                  *)
Continues(h, work) ==
    /\ h \in Indexed
    /\ OnMainchain(h)
    /\ IsLinked(h)
    /\ blockIndices[Prev[h]].chainPOW = work

(* The block that validate_blocks holds between two rounds.                *)
Cursor == validating # NoHash => Continues(validating, mainValidatedTip.chainPOW)

SInv ==
    /\ IInv
    /\ mainValidatedTip \in Tip
    /\ RegisteredIndexed
    /\ ValidatedTipIsBest
    /\ Cursor

(* What the index says of h does not change in a step.                     *)
SameContext(h) ==
    /\ h \in Indexed'
    /\ blockIndices'[h].chainStatus = blockIndices[h].chainStatus
    /\ blockIndices'[h].height = blockIndices[h].height
    /\ blockIndices'[h].chainPOW = blockIndices[h].chainPOW

-----------------------------------------------------------------------------
(* The header part of a step.                                              *)

(* A header that is accepted, or none, keeps the header invariant and what *)
(* the index says of the blocks it had.                                    *)
LEMMA HeaderPart ==
    ASSUME IInv, NEW b \in Blocks, AcceptHeader(b) \/ UNCHANGED headerVars
    PROVE  /\ IInv'
           /\ \A h \in Indexed : SameContext(h) /\ (Absorbed(h)' <=> Absorbed(h))
<1>1. [Next]_headerVars
  BY DEF Next, ReceiveHeader
<1>2. IInv'
  BY <1>1, StepInv
<1>3. CASE AcceptHeader(b)
  <2>1. \A h \in Indexed : SameContext(h) /\ (IsLinked(h)' <=> IsLinked(h))
    BY <1>3, AcceptFacts, AcceptKeepsLinks DEF IInv, SameContext
  <2>2. ASSUME NEW h \in Indexed PROVE Absorbed(h)' <=> Absorbed(h)
    <3>1. IsLinked(h) => Prev[h] \in Indexed
      BY DEF IsLinked
    <3>. QED
      BY <2>1, <3>1 DEF Absorbed, SameContext
  <2>. QED
    BY <1>2, <2>1, <2>2
<1>4. CASE UNCHANGED headerVars
  BY <1>2, <1>4 DEF headerVars, SameContext, Absorbed, IsLinked, Indexed
<1>. QED
  BY <1>3, <1>4

(* Once process_incoming_block_header has returned, the context it left is *)
(* the one process_incoming_block goes on with.                            *)
LEMMA ContextIsIndexed ==
    ASSUME IInv, NEW b \in Blocks,
           AcceptHeader(b) \/ (b \in Indexed /\ UNCHANGED headerVars)
    PROVE  b \in Indexed' /\ ContextAfterHeader(b) = blockIndices'[b]
<1>1. CASE AcceptHeader(b)
  BY <1>1, AcceptFacts DEF IInv, ContextAfterHeader
<1>2. CASE b \in Indexed /\ UNCHANGED headerVars
  BY <1>2 DEF headerVars, ContextAfterHeader, Indexed
<1>. QED
  BY <1>1, <1>2

-----------------------------------------------------------------------------
(* The block part of a step.                                               *)

(* A step that registers nothing and leaves the validated tip alone.       *)
LEMMA NothingRegistered ==
    ASSUME SInv, IInv', Cursor', \A h \in Indexed : SameContext(h),
           UNCHANGED <<outputsRegistered, mainValidatedTip>>
    PROVE  SInv'
<1>1. mainValidatedTip' \in Tip
  BY DEF SInv
<1>2. RegisteredIndexed'
  BY DEF SInv, RegisteredIndexed, SameContext
<1>3. ValidatedTipIsBest'
  <2>1. \A b \in outputsRegistered : b \in Indexed /\ SameContext(b)
    BY DEF SInv, RegisteredIndexed
  <2>. QED
    BY <2>1 DEF SInv, ValidatedTipIsBest, OnMainchain, TipAt, SameContext
<1>. QED
  BY <1>1, <1>2, <1>3 DEF SInv

(* A step that registers b, and makes it the validated tip if it is a main *)
(* chain block with more work.                                             *)
LEMMA OneRegistered ==
    ASSUME SInv, IInv', Cursor', \A h \in Indexed : SameContext(h),
           NEW b \in Blocks, b \in Indexed',
           outputsRegistered' = outputsRegistered \cup {b},
           mainValidatedTip' =
              IF /\ blockIndices'[b].chainStatus = MAINCHAIN
                 /\ blockIndices'[b].chainPOW > mainValidatedTip.chainPOW
              THEN TipAt(b, blockIndices'[b]) ELSE mainValidatedTip
    PROVE  SInv'
<1>1. /\ blockIndices'[b].height \in Nat
      /\ \A h \in Indexed' : /\ blockIndices'[h].chainPOW \in PowValues
                             /\ blockIndices'[h].chainPOW \in Nat
  <2>1. /\ blockIndices'[b].height \in Nat
        /\ \A h \in Indexed' : blockIndices'[h].chainPOW \in PowValues
    BY DEF IInv, TypeOK, Context
  <2>. QED
    BY <2>1, PowAssumption
<1>2. mainValidatedTip' \in Tip
  BY <1>1 DEF SInv, TipAt, Tip
<1>3. RegisteredIndexed'
  BY DEF SInv, RegisteredIndexed, SameContext
<1>4. \A h \in outputsRegistered : h \in Indexed /\ SameContext(h)
  BY DEF SInv, RegisteredIndexed
<1>5. /\ mainValidatedTip.hash \in outputsRegistered
      /\ mainValidatedTip.chainPOW \in Nat
      /\ \A h \in outputsRegistered :
            OnMainchain(h)' =>
               blockIndices'[h].chainPOW <= mainValidatedTip.chainPOW
  <2>1. mainValidatedTip.chainPOW \in PowValues
    BY DEF SInv, Tip
  <2>. QED
    BY <1>4, <2>1, PowAssumption DEF SInv, ValidatedTipIsBest, OnMainchain, SameContext
<1>6. CASE /\ blockIndices'[b].chainStatus = MAINCHAIN
           /\ blockIndices'[b].chainPOW > mainValidatedTip.chainPOW
  <2>1. mainValidatedTip' = TipAt(b, blockIndices'[b])
    BY <1>6
  <2>2. /\ mainValidatedTip'.hash = b
        /\ mainValidatedTip'.chainPOW = blockIndices'[b].chainPOW
    BY <2>1 DEF TipAt
  <2>3. ASSUME NEW h \in outputsRegistered', OnMainchain(h)'
        PROVE  blockIndices'[h].chainPOW <= mainValidatedTip'.chainPOW
    <3>1. CASE h = b
      BY <1>1, <2>2, <3>1
    <3>2. CASE h \in outputsRegistered
      <4>1. blockIndices'[h].chainPOW <= mainValidatedTip.chainPOW
        BY <1>5, <2>3, <3>2
      <4>. QED
        BY <1>1, <1>3, <1>5, <1>6, <2>2, <4>1 DEF RegisteredIndexed
    <3>. QED
      BY <3>1, <3>2
  <2>. QED
    BY <1>2, <1>3, <1>6, <2>1, <2>2, <2>3
       DEF SInv, ValidatedTipIsBest, OnMainchain, TipAt
<1>7. CASE ~ (/\ blockIndices'[b].chainStatus = MAINCHAIN
              /\ blockIndices'[b].chainPOW > mainValidatedTip.chainPOW)
  <2>1. mainValidatedTip' = mainValidatedTip
    BY <1>7
  <2>2. OnMainchain(b)' => blockIndices'[b].chainPOW <= mainValidatedTip.chainPOW
    BY <1>1, <1>5, <1>7 DEF OnMainchain
  <2>3. /\ mainValidatedTip.hash \in outputsRegistered'
        /\ OnMainchain(mainValidatedTip.hash)'
        /\ mainValidatedTip
              = TipAt(mainValidatedTip.hash, blockIndices'[mainValidatedTip.hash])
    BY <1>4, <1>5 DEF SInv, ValidatedTipIsBest, OnMainchain, TipAt, SameContext
  <2>. QED
    BY <1>2, <1>3, <1>5, <2>1, <2>2, <2>3
       DEF SInv, ValidatedTipIsBest, OnMainchain, TipAt
<1>. QED
  BY <1>6, <1>7

-----------------------------------------------------------------------------
(* Init and the actions.                                                   *)

(* Genesis is registered, and no other block is indexed.                   *)
LEMMA StoreInitInv == StoreInit => SInv
<1>. SUFFICES ASSUME StoreInit PROVE SInv
  OBVIOUS
<1>1. IInv
  BY InitInv DEF StoreInit
<1>2. /\ Indexed = {Genesis} /\ Genesis \in Blocks
      /\ Work[Genesis] \in PowValues /\ Work[Genesis] \in Nat
  <2>1. Work[Genesis] \in PowValues
    BY HeaderAssumption, PowAssumption
  <2>. QED
    BY <2>1, HeaderAssumption, PowAssumption DEF StoreInit, Init, Indexed
<1>3. mainValidatedTip \in Tip
  BY <1>2 DEF StoreInit, InitStore, Tip
<1>4. RegisteredIndexed
  BY <1>2 DEF StoreInit, InitStore, RegisteredIndexed
<1>5. ValidatedTipIsBest
  BY <1>2 DEF StoreInit, Init, InitStore, ValidatedTipIsBest, OnMainchain, TipAt
<1>6. Cursor
  BY DEF StoreInit, InitStore, Cursor
<1>. QED
  BY <1>1, <1>3, <1>4, <1>5, <1>6 DEF SInv

(* A full block: its header part, then validation in MODE_NORMAL.          *)
LEMMA ReceiveBlockInv ==
    ASSUME SInv, NEW b \in Blocks, NEW saved \in BOOLEAN, ReceiveBlock(b, saved)
    PROVE  SInv'
<1>1. AcceptHeader(b) \/ (b \in Indexed /\ UNCHANGED headerVars)
  BY DEF ReceiveBlock
<1>2. IInv' /\ \A h \in Indexed : SameContext(h)
  BY <1>1, HeaderPart DEF SInv
<1>3. b \in Indexed' /\ ContextAfterHeader(b) = blockIndices'[b]
  BY <1>1, ContextIsIndexed DEF SInv
<1>4. Cursor'
  BY DEF ReceiveBlock, Idle, Cursor
<1>5. CASE UNCHANGED <<outputsRegistered, mainValidatedTip>>
  BY <1>2, <1>5, <1>4, NothingRegistered
<1>6. CASE mode = NORMAL /\ IsBlockValid(b)
  <2>1. outputsRegistered' = outputsRegistered \cup {b}
    BY <1>6 DEF ReceiveBlock, ValidateIncoming, RegisterIncoming
  <2>2. mainValidatedTip' =
           IF /\ blockIndices'[b].chainStatus = MAINCHAIN
              /\ blockIndices'[b].chainPOW > mainValidatedTip.chainPOW
           THEN TipAt(b, blockIndices'[b]) ELSE mainValidatedTip
    BY <1>3, <1>6 DEF ReceiveBlock, ValidateIncoming, MovesValidatedTip
  <2>. QED
    BY <1>2, <1>3, <1>4, <2>1, <2>2, OneRegistered
<1>7. CASE mode # NORMAL \/ ~ IsBlockValid(b)
  BY <1>5, <1>7 DEF ReceiveBlock, ValidateIncoming, chainVars
<1>. QED
  BY <1>6, <1>7

(* The first child of a main chain block continues it.                     *)
LEMMA FirstContinues ==
    ASSUME IInv, NEW p \in Indexed, OnMainchain(p), FirstChild(p) # NoHash
    PROVE  Continues(FirstChild(p), blockIndices[p].chainPOW)
<1>. DEFINE s == blockIndices[p].children
<1>1. s \in Seq(Blocks) /\ s # << >> /\ FirstChild(p) = s[1]
  BY DEF IInv, TypeOK, Context, FirstChild
<1>2. 1 \in DOMAIN s
  BY <1>1
<1>3. /\ FirstChild(p) \in Indexed
      /\ OnMainchain(FirstChild(p))
      /\ Prev[FirstChild(p)] = p
  BY FirstChildIs
<1>. QED
  BY <1>1, <1>2, <1>3 DEF Continues, IsLinked

(* What continues a block has no less work than it, and if it has no more  *)
(* its own is absorbed.                                                    *)
LEMMA ContinuesIs ==
    ASSUME IInv, NEW h, NEW work, Continues(h, work)
    PROVE  /\ h \in Indexed /\ h \in Blocks /\ Prev[h] \in Blocks
           /\ work \in Nat
           /\ blockIndices[h].chainPOW \in Nat
           /\ blockIndices[h].chainPOW >= work
           /\ blockIndices[h].chainPOW = work => Absorbed(h)
<1>1. PICK i \in DOMAIN blockIndices[Prev[h]].children :
         blockIndices[Prev[h]].children[i] = h
  BY DEF Continues, IsLinked
<1>2. Prev[h] \in Indexed /\ h \in Indexed /\ Indexed \subseteq Blocks
  BY DEF Continues, IsLinked, IInv, TypeOK
<1>3. blockIndices[h].chainPOW = AddPow(work, Work[h])
  BY <1>1, <1>2 DEF Continues, IInv, ChildLinks
<1>4. work \in PowValues /\ Work[h] \in PowValues /\ blockIndices[h].chainPOW \in PowValues
  BY <1>2, PowAssumption DEF Continues, IInv, TypeOK, Context
<1>5. work \in Nat /\ blockIndices[h].chainPOW \in Nat
  BY <1>4, PowAssumption
<1>6. AddPow(work, Work[h]) >= work
  BY <1>4, SumNotBelow
<1>. QED
  BY <1>2, <1>3, <1>5, <1>6 DEF Continues, Absorbed

(* The block validate_blocks takes up continues the main chain on the      *)
(* validated tip, or on one with its work.                                 *)
LEMMA NextContinues ==
    ASSUME SInv, NextToValidate # NoHash
    PROVE  Continues(NextToValidate, mainValidatedTip.chainPOW)
<1>1. CASE Idle
  <2>. DEFINE p == mainValidatedTip.hash
  <2>1. /\ p \in Indexed
        /\ OnMainchain(p)
        /\ blockIndices[p].chainPOW = mainValidatedTip.chainPOW
    BY DEF SInv, RegisteredIndexed, ValidatedTipIsBest, TipAt
  <2>2. NextToValidate = FirstChild(p)
    BY <1>1 DEF NextToValidate
  <2>. HIDE DEF p
  <2>3. Continues(FirstChild(p), blockIndices[p].chainPOW)
    BY <2>1, <2>2, FirstContinues DEF SInv
  <2>. QED
    BY <2>1, <2>2, <2>3
<1>2. CASE ~ Idle
  BY <1>2 DEF SInv, Cursor, NextToValidate, Idle
<1>. QED
  BY <1>1, <1>2

(* One round of validate_blocks: moving the tip without a look at the      *)
(* chain status is right.                                                  *)
LEMMA ValidateNextInv ==
    ASSUME SInv, ValidateNext
    PROVE  SInv'
<1>. DEFINE b == NextToValidate
            work == mainValidatedTip.chainPOW
<1>1. b # NoHash /\ ValidateStored(b)
  BY DEF ValidateNext
<1>2. Continues(b, work)
  BY <1>1, NextContinues
<1>. HIDE DEF b
<1>3. /\ b \in Indexed /\ b \in Blocks
      /\ OnMainchain(b)
      /\ work \in Nat /\ blockIndices[b].chainPOW \in Nat
      /\ blockIndices[b].chainPOW >= work
  BY <1>2, ContinuesIs DEF SInv, Continues
<1>4. UNCHANGED headerVars
  BY <1>1 DEF ValidateStored
<1>5. IInv' /\ \A h \in Indexed : SameContext(h)
  BY <1>3, <1>4, HeaderPart DEF SInv
<1>6. blockIndices' = blockIndices /\ b \in Indexed'
  BY <1>3, <1>4 DEF headerVars, Indexed
<1>7. /\ outputsRegistered' = outputsRegistered \cup {b}
      /\ mainValidatedTip' =
            IF /\ blockIndices'[b].chainStatus = MAINCHAIN
               /\ blockIndices'[b].chainPOW > mainValidatedTip.chainPOW
            THEN TipAt(b, blockIndices'[b]) ELSE mainValidatedTip
  BY <1>1, <1>3, <1>6 DEF ValidateStored, OnMainchain
<1>8. mainValidatedTip'.chainPOW = blockIndices[b].chainPOW
  <2>1. CASE blockIndices[b].chainPOW > work
    <3>1. mainValidatedTip' = TipAt(b, blockIndices[b])
      BY <1>1, <2>1 DEF ValidateStored
    <3>. QED
      BY <3>1 DEF TipAt
  <2>2. CASE ~ (blockIndices[b].chainPOW > work)
    <3>1. mainValidatedTip' = mainValidatedTip
      BY <1>1, <2>2 DEF ValidateStored
    <3>. QED
      BY <1>3, <2>2, <3>1
  <2>. QED
    BY <2>1, <2>2
<1>9. Cursor'
  <2>1. validating' = FirstChild(b)
    BY <1>1 DEF ValidateStored
  <2>2. FirstChild(b) # NoHash => Continues(FirstChild(b), blockIndices[b].chainPOW)
    BY <1>3, FirstContinues DEF SInv
  <2>. QED
    BY <1>6, <1>8, <2>1, <2>2 DEF Cursor, Continues, OnMainchain, IsLinked, Indexed
<1>. QED
  BY <1>3, <1>5, <1>6, <1>7, <1>9, OneRegistered

(* Every step keeps the invariant.                                         *)
LEMMA StoreStepInv == SInv /\ [StoreNext]_vars => SInv'
<1>. SUFFICES ASSUME SInv, [StoreNext]_vars PROVE SInv'
  OBVIOUS
<1>1. ASSUME [Next]_headerVars, UNCHANGED <<outputsRegistered, mainValidatedTip>>, Cursor'
      PROVE  SInv'
  <2>1. PICK b \in Blocks : AcceptHeader(b) \/ UNCHANGED headerVars
    BY <1>1, HeaderAssumption DEF Next, ReceiveHeader, RejectHeader
  <2>2. IInv' /\ \A h \in Indexed : SameContext(h)
    BY <2>1, HeaderPart DEF SInv
  <2>. QED
    BY <1>1, <2>2, NothingRegistered
<1>2. ASSUME NEW b \in Blocks, NEW legal \in BOOLEAN, ReceiveHeaders(b, legal)
      PROVE  SInv'
  BY <1>1, <1>2 DEF ReceiveHeaders, Next, storeVars, metaVars, chainVars, Idle, Cursor
<1>3. ASSUME NEW b \in Blocks, NEW saved \in BOOLEAN, ReceiveBlock(b, saved)
      PROVE  SInv'
  BY <1>3, ReceiveBlockInv
<1>4. CASE ValidateNext
  BY <1>4, ValidateNextInv
<1>5. CASE EndValidation
  BY <1>1, <1>5 DEF EndValidation, metaVars, chainVars, Cursor
<1>6. CASE LoadBadBlock
  BY <1>1, <1>6 DEF LoadBadBlock, chainVars, Cursor
<1>7. CASE ResetIbdMode
  BY <1>1, <1>7 DEF ResetIbdMode, metaVars, chainVars, Idle, Cursor
<1>8. CASE UNCHANGED vars
  <2>1. UNCHANGED <<headerVars, outputsRegistered, mainValidatedTip, validating, blockIndices>>
    BY <1>8 DEF vars, storeVars, metaVars, chainVars, headerVars
  <2>2. Cursor'
    BY <2>1 DEF SInv, Cursor, Continues, OnMainchain, IsLinked, Indexed
  <2>. QED
    BY <1>1, <2>1, <2>2
<1>. QED
  BY <1>2, <1>3, <1>4, <1>5, <1>6, <1>7, <1>8 DEF StoreNext

(* The invariant holds in every reachable state.                           *)
THEOREM SInvCorrect == StoreSpec => []SInv
<1>. QED
  BY StoreInitInv, StoreStepInv, PTL DEF StoreSpec

(* The validated tip is a registered main chain block, as it is in the     *)
(* index, and no registered main chain block has more work, whichever way  *)
(* blocks arrive: with or after their header, in either mode, twice, or    *)
(* behind a bad file (process_incoming_block and validate_blocks, which    *)
(* moves the tip without a look at the chain status).                      *)
THEOREM ValidatedTipCorrect == StoreSpec => []ValidatedTipIsBest
<1>1. SInv => ValidatedTipIsBest
  BY DEF SInv
<1>. QED
  BY <1>1, SInvCorrect, PTL

(* The header chain with blocks is a header chain: every step of the store *)
(* is a header that arrives, or none, so that what is proved of HeaderChain *)
(* holds of the whole.                                                     *)
THEOREM StoreImplementsHeaderChain == StoreSpec => Spec
<1>1. StoreInit => Init
  BY DEF StoreInit
<1>2. [StoreNext]_vars => [Next]_headerVars
  <2>. SUFFICES ASSUME [StoreNext]_vars PROVE [Next]_headerVars
    OBVIOUS
  <2>1. ASSUME NEW b \in Blocks, NEW legal \in BOOLEAN, ReceiveHeaders(b, legal)
        PROVE  [Next]_headerVars
    BY <2>1 DEF ReceiveHeaders, Next
  <2>2. ASSUME NEW b \in Blocks, NEW saved \in BOOLEAN, ReceiveBlock(b, saved)
        PROVE  [Next]_headerVars
    BY <2>2 DEF ReceiveBlock, Next, ReceiveHeader
  <2>3. CASE ValidateNext
    BY <2>3 DEF ValidateNext, ValidateStored
  <2>4. CASE LoadBadBlock \/ EndValidation
    BY <2>4 DEF LoadBadBlock, EndValidation
  <2>5. CASE ResetIbdMode
    BY <2>5 DEF ResetIbdMode
  <2>6. CASE UNCHANGED vars
    BY <2>6 DEF vars
  <2>. QED
    BY <2>1, <2>2, <2>3, <2>4, <2>5, <2>6 DEF StoreNext
<1>. QED
  BY <1>1, <1>2, PTL DEF StoreSpec, Spec

-----------------------------------------------------------------------------
(* The UTXO set.                                                           *)

(* FoldLeft over a sequence of transactions is the FoldLeft of Folding.    *)
LEMMA SameFold ==
    \A coins, txs : FoldLeft(RegisterTx, coins, txs)
                       = RegisterFold!FoldLeft(RegisterTx, coins, txs)
  BY DEF FoldLeft, MapThenFoldSet, Max, RegisterFold!FoldLeft,
         RegisterFold!MapThenFoldSet, RegisterFold!Max

(* Registering a block, transaction by transaction, adds only what it      *)
(* creates, takes away only what it spends, and leaves nothing of what it  *)
(* spends but what a later transaction of its own creates.                 *)
LEMMA RegisterIs ==
    ASSUME NEW coins, NEW b \in Blocks
    PROVE  LET after == Register(coins, b)
           IN  /\ after \subseteq coins \cup OutsOf(b)
               /\ (coins \cup OutsOf(b)) \ InsOf(b) \subseteq after
               /\ \A i \in DOMAIN Txs[b] : \A o \in Txs[b][i].ins \cap after :
                     \E j \in DOMAIN Txs[b] : j > i /\ o \in Txs[b][j].outs
<1>. DEFINE txs == Txs[b]
            n == Len(txs)
            Outs(k) == UNION {txs[j].outs : j \in 1 .. k}
            Ins(k) == UNION {txs[j].ins : j \in 1 .. k}
            Restored(k, x) == \A i \in 1 .. k : \A o \in txs[i].ins \cap x :
                                 \E j \in 1 .. k : j > i /\ o \in txs[j].outs
            After(k) == {x \in SUBSET (coins \cup Outs(k)) :
                            /\ (coins \cup Outs(k)) \ Ins(k) \subseteq x
                            /\ Restored(k, x)}
            I == [k \in 0 .. n |-> After(k)]
            after == Register(coins, b)
<1>1. txs \in Seq(TxType) /\ n \in Nat /\ DOMAIN txs = 1 .. n
  BY BlockAssumption
<1>2. coins \in I[0]
  BY <1>1
<1>3. ASSUME NEW k \in 1 .. n, NEW x \in I[k - 1]
      PROVE  RegisterTx(x, txs[k]) \in I[k]
  <2>. DEFINE y == RegisterTx(x, txs[k])
  <2>1. x \in After(k - 1) /\ I[k] = After(k)
    BY <1>1
  <2>2. \A j : j \in 1 .. k <=> j \in 1 .. k - 1 \/ j = k
    BY <1>1
  <2>3. /\ Outs(k) = Outs(k - 1) \cup txs[k].outs
        /\ Ins(k) = Ins(k - 1) \cup txs[k].ins
    <3>. HIDE DEF txs, n
    <3>. QED
      BY <2>2
  <2>4. y = (x \cup txs[k].outs) \ txs[k].ins
    BY DEF RegisterTx
  <2>. HIDE DEF y, txs, n
  <2>5. /\ y \subseteq coins \cup Outs(k)
        /\ (coins \cup Outs(k)) \ Ins(k) \subseteq y
    <3>1. /\ x \subseteq coins \cup Outs(k - 1)
          /\ (coins \cup Outs(k - 1)) \ Ins(k - 1) \subseteq x
      BY <2>1
    <3>. HIDE DEF Outs, Ins, After, I
    <3>. QED
      BY <2>3, <2>4, <3>1
  <2>6. Restored(k, y)
    <3>. SUFFICES ASSUME NEW i \in 1 .. k, NEW o \in txs[i].ins \cap y
                  PROVE  \E j \in 1 .. k : j > i /\ o \in txs[j].outs
      OBVIOUS
    <3>1. i \in 1 .. k - 1
      BY <2>2, <2>4
    <3>2. CASE o \in txs[k].outs
      BY <1>1, <3>1, <3>2
    <3>3. CASE o \in x
      <4>1. Restored(k - 1, x)
        BY <2>1
      <4>2. PICK j \in 1 .. k - 1 : j > i /\ o \in txs[j].outs
        BY <3>1, <3>3, <4>1
      <4>. QED
        BY <2>2, <4>2
    <3>. QED
      BY <2>4, <3>2, <3>3
  <2>7. y \in After(k)
    BY <2>5, <2>6
  <2>. QED
    BY <2>1, <2>7 DEF y
<1>4. after \in I[n]
  <2>. HIDE DEF I, n
  <2>1. \A k \in 1 .. n : \A x \in I[k - 1] : RegisterTx(x, txs[k]) \in I[k]
    BY <1>3
  <2>2. RegisterFold!FoldLeft(RegisterTx, coins, txs) \in I[n]
    <3>. HIDE DEF txs
    <3>. QED
      BY <1>1, <1>2, <2>1, RegisterFold!FoldLeftInduction
  <2>. QED
    BY <2>2, SameFold DEF Register
<1>5. OutsOf(b) = Outs(n) /\ InsOf(b) = Ins(n)
  BY <1>1 DEF OutsOf, InsOf
<1>6. after \in After(n)
  BY <1>1, <1>4
<1>. HIDE DEF after, txs, n, Outs, Ins
<1>. QED
  BY <1>1, <1>5, <1>6 DEF after, txs

(* The UTXO set and the registered blocks agree.                           *)
LedgerAgrees ==
    /\ Created \ Spent \subseteq utxo
    /\ utxo \subseteq Created
    /\ \A o \in utxo \cap Spent : ~ IssuedOnce(o)
    /\ NoDoubleSpend

(* The flags say no more than what was done.                               *)
FlagsAgree ==
    /\ fullBlockValidated \subseteq outputsRegistered
    /\ fullBlockAvailable \subseteq Indexed \cap blockFiles
    /\ blockFiles \subseteq Blocks
    /\ mode \in {NORMAL, CATCHUP}

LInv == SInv /\ LedgerAgrees /\ FlagsAgree

(* The invariant says what the properties say.                             *)
LEMMA LedgerProperties == LInv => UtxoExact /\ NoDoubleSpend
<1>. SUFFICES ASSUME LInv PROVE UtxoExact /\ NoDoubleSpend
  OBVIOUS
<1>1. \A b \in outputsRegistered : OutsOf(b) \subseteq Outpoints
  <2>1. outputsRegistered \subseteq Blocks
    BY DEF LInv, SInv, IInv, RegisteredIndexed, TypeOK
  <2>. SUFFICES ASSUME NEW b \in Blocks PROVE OutsOf(b) \subseteq Outpoints
    BY <2>1
  <2>2. Txs[b] \in Seq(TxType)
    BY BlockAssumption
  <2>3. \A k \in DOMAIN Txs[b] : Txs[b][k] \in TxType
    BY <2>2
  <2>4. \A tx \in TxType : tx.outs \subseteq Outpoints
    BY DEF TxType
  <2>. QED
    BY <2>3, <2>4 DEF OutsOf
<1>2. utxo \subseteq Outpoints
  BY <1>1 DEF LInv, LedgerAgrees, Created
<1>3. validating \in Blocks \cup {NoHash}
  BY DEF LInv, SInv, IInv, TypeOK, Cursor, Continues
<1>4. StoreTypeOK
  BY <1>2, <1>3 DEF LInv, SInv, IInv, FlagsAgree, StoreTypeOK
<1>. QED
  BY <1>4 DEF LInv, SInv, LedgerAgrees, FlagsAgree, RegisteredIndexed, UtxoExact,
              Created, Spent

(* What is issued once was so before.                                      *)
LEMMA StillIssuedOnce ==
    ASSUME NEW o, IssuedOnce(o)',
           outputsRegistered \subseteq outputsRegistered',
           \A c \in outputsRegistered : Absorbed(c) => Absorbed(c)'
    PROVE  IssuedOnce(o)
BY DEF IssuedOnce

(* Registering a valid block, for the first time or again: what it spends  *)
(* is in the database or its own, and what it creates is either new or not *)
(* issued once.                                                            *)
LEMMA LedgerGrows ==
    ASSUME LInv, NEW b \in Blocks, IsBlockValid(b),
           b \in outputsRegistered => Absorbed(b),
           \A c \in outputsRegistered : Absorbed(c) => Absorbed(c)',
           outputsRegistered' = outputsRegistered \cup {b},
           utxo' = Register(utxo, b)
    PROVE  LedgerAgrees'
<1>1. Created' = Created \cup OutsOf(b) /\ Spent' = Spent \cup InsOf(b)
  BY DEF Created, Spent
<1>2. /\ Created \ Spent \subseteq utxo
      /\ utxo \subseteq Created
      /\ \A o \in utxo \cap Spent : ~ IssuedOnce(o)
      /\ Spent \subseteq Created
      /\ \A c, d \in outputsRegistered :
            c # d => \A o \in InsOf(c) \cap InsOf(d) : ~ IssuedOnce(o)
  BY DEF LInv, LedgerAgrees, NoDoubleSpend
<1>3. /\ utxo' \subseteq utxo \cup OutsOf(b)
      /\ (utxo \cup OutsOf(b)) \ InsOf(b) \subseteq utxo'
      /\ \A i \in DOMAIN Txs[b] : \A o \in Txs[b][i].ins \cap utxo' :
            \E j \in DOMAIN Txs[b] : j > i /\ o \in Txs[b][j].outs
  BY RegisterIs
<1>4. DOMAIN Txs[b] = 1 .. Len(Txs[b]) /\ Len(Txs[b]) \in Nat
  BY BlockAssumption
<1>5. \A i \in DOMAIN Txs[b] : \A o \in Txs[b][i].ins :
         \/ o \in utxo
         \/ \E j \in DOMAIN Txs[b] : j < i /\ o \in Txs[b][j].outs
  <2>. SUFFICES ASSUME NEW i \in DOMAIN Txs[b], NEW o \in Txs[b][i].ins, o \notin utxo
                PROVE  \E j \in DOMAIN Txs[b] : j < i /\ o \in Txs[b][j].outs
    OBVIOUS
  <2>1. PICK j \in 1 .. i - 1 : o \in Txs[b][j].outs
    BY DEF IsBlockValid, SourceFound
  <2>. QED
    BY <1>4, <2>1
<1>6. InsOf(b) \subseteq utxo \cup OutsOf(b)
  BY <1>5 DEF InsOf, OutsOf
<1>7. \A o : IssuedOnce(o)' => IssuedOnce(o)
  BY StillIssuedOnce
<1>8. ASSUME NEW o, IssuedOnce(o)', o \in OutsOf(b)
      PROVE  o \notin Created
  <2>1. PICK j \in DOMAIN Txs[b] : o \in Txs[b][j].outs
    BY <1>8 DEF OutsOf
  <2>2. ASSUME NEW c \in outputsRegistered, NEW k \in DOMAIN Txs[c], o \in Txs[c][k].outs
        PROVE  FALSE
    <3>1. b = c /\ ~ Absorbed(b)'
      BY <1>8, <2>1, <2>2 DEF IssuedOnce
    <3>. QED
      BY <3>1
  <2>. QED
    BY <2>2 DEF Created, OutsOf
<1>9. ASSUME NEW o, IssuedOnce(o)', NEW i \in DOMAIN Txs[b], NEW j \in DOMAIN Txs[b],
             o \in Txs[b][i].outs, o \in Txs[b][j].outs
      PROVE  i = j
  BY <1>9 DEF IssuedOnce
<1>10. Created' \ Spent' \subseteq utxo' /\ utxo' \subseteq Created'
  BY <1>1, <1>2, <1>3
<1>11. ASSUME NEW o \in utxo', o \in Spent', IssuedOnce(o)'
       PROVE  FALSE
  <2>1. ~ (o \in utxo /\ o \in Spent)
    BY <1>2, <1>7, <1>11
  <2>2. CASE o \in Spent
    <3>1. o \in OutsOf(b) /\ o \in Created
      BY <1>2, <1>3, <2>1, <2>2
    <3>. QED
      BY <1>8, <1>11, <3>1
  <2>3. CASE o \in InsOf(b)
    <3>1. PICK i \in DOMAIN Txs[b] : o \in Txs[b][i].ins
      BY <2>3 DEF InsOf
    <3>2. PICK j \in DOMAIN Txs[b] : j > i /\ o \in Txs[b][j].outs
      BY <1>3, <1>11, <3>1
    <3>3. o \notin utxo
      <4>1. o \in OutsOf(b)
        BY <3>2 DEF OutsOf
      <4>. QED
        BY <1>2, <1>8, <1>11, <4>1
    <3>4. PICK k \in DOMAIN Txs[b] : k < i /\ o \in Txs[b][k].outs
      BY <1>5, <3>1, <3>3
    <3>5. j = k
      BY <1>9, <1>11, <3>2, <3>4
    <3>. QED
      BY <1>4, <3>2, <3>4, <3>5
  <2>. QED
    BY <1>1, <1>11, <2>2, <2>3
<1>12. Spent' \subseteq Created'
  BY <1>1, <1>2, <1>6
<1>13. ASSUME NEW c \in outputsRegistered, NEW o \in InsOf(b) \cap InsOf(c), IssuedOnce(o)'
       PROVE  b = c \/ o \notin InsOf(b)
  <2>1. o \in Spent
    BY DEF Spent
  <2>2. o \notin utxo
    BY <1>2, <1>7, <1>13, <2>1
  <2>3. o \in OutsOf(b) /\ o \in Created
    BY <1>2, <1>6, <2>1, <2>2
  <2>. QED
    BY <1>8, <1>13, <2>3
<1>14. \A c, d \in outputsRegistered' :
          c # d => \A o \in InsOf(c) \cap InsOf(d) : ~ IssuedOnce(o)'
  BY <1>2, <1>7, <1>13
<1>15. NoDoubleSpend'
  BY <1>12, <1>14 DEF NoDoubleSpend
<1>. QED
  BY <1>10, <1>11, <1>15 DEF LedgerAgrees

(* Nothing registered, nothing changed.                                    *)
LEMMA LedgerSame ==
    ASSUME LInv, UNCHANGED <<utxo, outputsRegistered>>,
           \A c \in outputsRegistered : Absorbed(c) => Absorbed(c)'
    PROVE  LedgerAgrees'
<1>1. \A o : IssuedOnce(o)' => IssuedOnce(o)
  BY StillIssuedOnce
<1>2. Created' = Created /\ Spent' = Spent
  BY DEF Created, Spent
<1>3. NoDoubleSpend'
  BY <1>1, <1>2 DEF LInv, LedgerAgrees, NoDoubleSpend
<1>. QED
  BY <1>1, <1>2, <1>3 DEF LInv, LedgerAgrees

(* Genesis spends nothing and nobody else is registered.                   *)
LEMMA StoreInitLedger == StoreInit => LInv
<1>. SUFFICES ASSUME StoreInit PROVE LInv
  OBVIOUS
<1>1. SInv /\ Genesis \in Blocks /\ Genesis \in Indexed
  BY StoreInitInv, HeaderAssumption DEF StoreInit, Init, Indexed
<1>2. Created = OutsOf(Genesis) /\ Spent = {}
  BY BlockAssumption DEF StoreInit, InitStore, Created, Spent
<1>3. LedgerAgrees
  BY <1>2 DEF StoreInit, InitStore, LedgerAgrees, NoDoubleSpend
<1>4. FlagsAgree
  BY <1>1 DEF StoreInit, InitStore, FlagsAgree
<1>. QED
  BY <1>1, <1>3, <1>4 DEF LInv

(* A full block, in either mode, registered before or not, saved or not.   *)
LEMMA ReceiveBlockLedger ==
    ASSUME LInv, NEW b \in Blocks, NEW saved \in BOOLEAN, ReceiveBlock(b, saved)
    PROVE  LInv'
<1>1. SInv'
  BY ReceiveBlockInv DEF LInv
<1>2. LedgerAgrees'
  <2>3. \A c \in outputsRegistered : Absorbed(c) => Absorbed(c)'
    BY HeaderPart DEF ReceiveBlock, LInv, SInv, RegisteredIndexed
  <2>1. CASE mode = NORMAL /\ IsBlockValid(b) /\ b \notin outputsRegistered
    BY <2>1, <2>3, LedgerGrows DEF ReceiveBlock, ValidateIncoming, RegisterIncoming
  <2>2. CASE ~ (mode = NORMAL /\ IsBlockValid(b) /\ b \notin outputsRegistered)
    <3>1. UNCHANGED <<utxo, outputsRegistered>>
      BY <2>2 DEF ReceiveBlock, ValidateIncoming, RegisterIncoming, chainVars
    <3>. QED
      BY <2>3, <3>1, LedgerSame
  <2>. QED
    BY <2>1, <2>2
<1>3. FlagsAgree'
  <2>1. AcceptHeader(b) \/ (b \in Indexed /\ UNCHANGED headerVars)
    BY DEF ReceiveBlock
  <2>2. b \in Indexed'
    BY <2>1, ContextIsIndexed DEF LInv, SInv
  <2>3. Indexed \subseteq Indexed'
    BY <2>1, HeaderPart DEF LInv, SInv, SameContext
  <2>4. fullBlockAvailable' \subseteq Indexed' \cap blockFiles' /\ blockFiles' \subseteq Blocks
    BY <2>2, <2>3 DEF LInv, FlagsAgree, ReceiveBlock, SaveBlock
  <2>5. fullBlockValidated' \subseteq outputsRegistered'
    BY DEF LInv, FlagsAgree, ReceiveBlock, ValidateIncoming, RegisterIncoming
  <2>6. mode' \in {NORMAL, CATCHUP}
    BY DEF LInv, FlagsAgree, ReceiveBlock
  <2>. QED
    BY <2>4, <2>5, <2>6 DEF FlagsAgree
<1>. QED
  BY <1>1, <1>2, <1>3 DEF LInv

(* validate_block registers without looking at the flag: the block it      *)
(* takes up has no less work than any registered one of the main chain, so *)
(* that it was registered before only if its own work is absorbed.         *)
LEMMA ValidateNextLedger ==
    ASSUME LInv, ValidateNext
    PROVE  LInv'
<1>. DEFINE b == NextToValidate
            work == mainValidatedTip.chainPOW
<1>1. b # NoHash /\ ValidateStored(b)
  BY DEF ValidateNext
<1>2. Continues(b, work)
  BY <1>1, NextContinues DEF LInv
<1>. HIDE DEF b
<1>3. /\ b \in Blocks
      /\ work \in Nat /\ blockIndices[b].chainPOW \in Nat
      /\ blockIndices[b].chainPOW >= work
      /\ blockIndices[b].chainPOW = work => Absorbed(b)
  BY <1>2, ContinuesIs DEF LInv, SInv
<1>4. b \in outputsRegistered => Absorbed(b)
  <2>1. b \in outputsRegistered => blockIndices[b].chainPOW <= work
    BY <1>2 DEF LInv, SInv, ValidatedTipIsBest, Continues
  <2>. QED
    BY <1>3, <2>1
<1>5. SInv'
  BY ValidateNextInv DEF LInv
<1>6. UNCHANGED headerVars
  BY <1>1 DEF ValidateStored
<1>7. \A c \in outputsRegistered : Absorbed(c) => Absorbed(c)'
  BY <1>6 DEF headerVars, Absorbed, IsLinked, Indexed
<1>8. LedgerAgrees'
  BY <1>1, <1>3, <1>4, <1>7, LedgerGrows DEF ValidateStored
<1>9. FlagsAgree'
  BY <1>1 DEF LInv, FlagsAgree, ValidateStored, headerVars, Indexed
<1>. QED
  BY <1>5, <1>8, <1>9 DEF LInv

(* Every step keeps the ledger.                                            *)
LEMMA StoreStepLedger == LInv /\ [StoreNext]_vars => LInv'
<1>. SUFFICES ASSUME LInv, [StoreNext]_vars PROVE LInv'
  OBVIOUS
<1>1. SInv'
  BY StoreStepInv DEF LInv
<1>2. ASSUME NEW b \in Blocks, NEW legal \in BOOLEAN, ReceiveHeaders(b, legal)
      PROVE  LInv'
  <2>1. AcceptHeader(b) \/ UNCHANGED headerVars
    BY <1>2 DEF ReceiveHeaders, ReceiveHeader, RejectHeader
  <2>2. /\ Indexed \subseteq Indexed'
        /\ \A c \in outputsRegistered : Absorbed(c) => Absorbed(c)'
    BY <2>1, HeaderPart DEF LInv, SInv, SameContext, RegisteredIndexed
  <2>3. UNCHANGED <<utxo, outputsRegistered, fullBlockValidated, fullBlockAvailable,
                    blockFiles, mode>>
    BY <1>2 DEF ReceiveHeaders, storeVars, metaVars, chainVars
  <2>4. FlagsAgree'
    BY <2>2, <2>3 DEF LInv, FlagsAgree
  <2>. QED
    BY <1>1, <2>2, <2>3, <2>4, LedgerSame DEF LInv
<1>3. ASSUME NEW b \in Blocks, NEW saved \in BOOLEAN, ReceiveBlock(b, saved)
      PROVE  LInv'
  BY <1>3, ReceiveBlockLedger
<1>4. CASE ValidateNext
  BY <1>4, ValidateNextLedger
<1>5. CASE EndValidation \/ LoadBadBlock \/ ResetIbdMode \/ UNCHANGED vars
  <2>1. /\ UNCHANGED <<utxo, outputsRegistered, blockFiles, headerVars>>
        /\ fullBlockAvailable' \subseteq fullBlockAvailable
        /\ fullBlockValidated' \subseteq fullBlockValidated
        /\ mode' \in {mode, NORMAL, CATCHUP}
    BY <1>5 DEF EndValidation, LoadBadBlock, MarkBlockAsUnavailable, ResetIbdMode, vars,
                storeVars, metaVars, chainVars
  <2>2. FlagsAgree'
    BY <2>1 DEF LInv, FlagsAgree, headerVars, Indexed
  <2>3. \A c \in outputsRegistered : Absorbed(c) => Absorbed(c)'
    BY <2>1 DEF headerVars, Absorbed, IsLinked, Indexed
  <2>. QED
    BY <1>1, <2>1, <2>2, <2>3, LedgerSame DEF LInv
<1>. QED
  BY <1>2, <1>3, <1>4, <1>5 DEF StoreNext

(* The ledger invariant holds in every reachable state.                    *)
THEOREM LInvCorrect == StoreSpec => []LInv
<1>. QED
  BY StoreInitLedger, StoreStepLedger, PTL DEF StoreSpec

(* The UTXO database holds what the registered blocks created and did not  *)
(* spend, and nothing they did not create, on every ledger, in whatever    *)
(* order blocks arrive, are sent again or are validated later; what was    *)
(* spent is there only if it was issued more than once.  The flags of the  *)
(* indices say no more than what was done (register_validated_block and    *)
(* its two callers).                                                       *)
THEOREM UtxoExactCorrect == StoreSpec => []UtxoExact
<1>. QED
  BY LInvCorrect, LedgerProperties, PTL

(* No output that no registered block created is spent, and none by two    *)
(* registered blocks that was issued once, although nothing keeps a        *)
(* transaction from being in two blocks (search_utxo in is_tx_valid and    *)
(* the two callers of register_validated_block).                           *)
THEOREM NoDoubleSpendCorrect == StoreSpec => []NoDoubleSpend
<1>. QED
  BY LInvCorrect, LedgerProperties, PTL

-----------------------------------------------------------------------------
(* The walk over full blocks.                                              *)

(* A block with a file is legal, and genesis always has one: a bad file    *)
(* costs only the block after the validated tip its flag.                  *)
AvailableLegal ==
    /\ Genesis \in fullBlockAvailable
    /\ fullBlockAvailable \subseteq LegalBlocks

AInv == LInv /\ AvailableLegal

(* The block validate_blocks takes up has an indexed parent, so it is not  *)
(* genesis.                                                                *)
LEMMA NextIsNotGenesis ==
    ASSUME LInv, NextToValidate # NoHash
    PROVE  NextToValidate # Genesis
<1>1. Continues(NextToValidate, mainValidatedTip.chainPOW)
  BY NextContinues DEF LInv
<1>2. Prev[NextToValidate] \in Blocks
  BY <1>1, ContinuesIs DEF LInv, SInv
<1>. QED
  BY <1>2, HeaderAssumption

LEMMA StoreStepAvailable == AInv /\ [StoreNext]_vars => AInv'
<1>. SUFFICES ASSUME AInv, [StoreNext]_vars PROVE AInv'
  OBVIOUS
<1>1. LInv'
  BY StoreStepLedger DEF AInv
<1>2. ASSUME NEW b \in Blocks, NEW legal \in BOOLEAN, ReceiveHeaders(b, legal)
      PROVE  AvailableLegal'
  BY <1>2 DEF ReceiveHeaders, storeVars, metaVars, AInv, AvailableLegal
<1>3. ASSUME NEW b \in Blocks, NEW saved \in BOOLEAN, ReceiveBlock(b, saved)
      PROVE  AvailableLegal'
  BY <1>3 DEF ReceiveBlock, SaveBlock, AInv, AvailableLegal
<1>4. ASSUME ValidateNext PROVE AvailableLegal'
  BY <1>4 DEF ValidateNext, ValidateStored, AInv, AvailableLegal
<1>5. ASSUME LoadBadBlock PROVE AvailableLegal'
  <2>1. NextToValidate # NoHash
    BY <1>5, HeaderAssumption, BlockAssumption DEF LoadBadBlock, AInv, AvailableLegal
  <2>2. NextToValidate # Genesis
    BY <2>1, NextIsNotGenesis DEF AInv
  <2>. QED
    BY <1>5, <2>2 DEF LoadBadBlock, MarkBlockAsUnavailable, AInv, AvailableLegal
<1>6. ASSUME EndValidation \/ ResetIbdMode \/ UNCHANGED vars PROVE AvailableLegal'
  BY <1>6 DEF EndValidation, ResetIbdMode, vars, storeVars, metaVars, AInv, AvailableLegal
<1>7. AvailableLegal'
  BY <1>2, <1>3, <1>4, <1>5, <1>6 DEF StoreNext
<1>. QED
  BY <1>1, <1>7 DEF AInv

(* The invariant with the files holds in every reachable state: a file was *)
(* only written for a legal block (process_incoming_block).                *)
THEOREM AInvCorrect == StoreSpec => []AInv
<1>1. StoreInit => AInv
  BY StoreInitLedger, BlockAssumption DEF StoreInit, InitStore, AInv, AvailableLegal
<1>. QED
  BY <1>1, StoreStepAvailable, PTL DEF StoreSpec

(* Above the header tip the walk from genesis only meets blocks whose work *)
(* is absorbed: none has less than the tip, as a rounded sum is not below  *)
(* its first term, and none has more.                                      *)
LEMMA AbsorbedAboveTip ==
    ASSUME IInv, Unlinked = {Genesis}, NEW last \in 0 .. Cardinality(Blocks),
           FirstChildWalk(Genesis)[last] # NoHash,
           last > mainHeaderTip.height
    PROVE  /\ blockIndices[FirstChildWalk(Genesis)[last]].height = last
           /\ Absorbed(FirstChildWalk(Genesis)[last])
           /\ blockIndices[FirstChildWalk(Genesis)[last]].chainPOW
                 = mainHeaderTip.chainPOW
<1>. DEFINE w == FirstChildWalk(Genesis)
            m == Cardinality(Blocks)
            tip == mainHeaderTip
            t == tip.height
            Pow(n) == blockIndices[w[n]].chainPOW
            T == {n \in 0 .. last : n >= t => Pow(n) = tip.chainPOW}
<1>1. m \in Nat /\ Genesis \in Unlinked /\ NoHash \notin Indexed
  BY HeaderAssumption, FS_CardinalityType DEF IInv, TypeOK
<1>2. /\ tip.hash \in Main
      /\ t \in Nat
      /\ t = blockIndices[tip.hash].height
      /\ tip.chainPOW = blockIndices[tip.hash].chainPOW
      /\ \A b \in Main : blockIndices[b].chainPOW <= tip.chainPOW
  BY DEF IInv, TypeOK, Tip, TipIsBest, Main
<1>3. PICK at \in 0 .. m : w[at] = tip.hash
  BY <1>1, <1>2, MainIsReached
<1>4. \A n \in 0 .. last : w[n] \in Main /\ blockIndices[w[n]].height = n
  BY <1>1, WalkClimbs
<1>5. at = t
  <2>1. blockIndices[w[at]].height = at
    BY <1>1, <1>2, <1>3, WalkClimbs DEF Main
  <2>. QED
    BY <1>2, <1>3, <2>1
<1>6. \A n \in 0 .. last - 1 : w[n + 1] = FirstChild(w[n])
  BY <1>1, FirstChildWalkIs
<1>. HIDE DEF w, m
<1>7. ASSUME NEW n \in 0 .. last - 1
      PROVE  /\ Pow(n) \in Nat /\ Pow(n + 1) \in Nat
             /\ Pow(n + 1) >= Pow(n)
             /\ Pow(n + 1) = Pow(n) => Absorbed(w[n + 1])
  <2>1. w[n] \in Main /\ w[n + 1] \in Main /\ w[n + 1] = FirstChild(w[n])
    BY <1>4, <1>6
  <2>2. Continues(w[n + 1], Pow(n))
    BY <1>1, <2>1, FirstContinues DEF Main
  <2>. QED
    BY <2>2, ContinuesIs
<1>8. t \in 0 .. last /\ Pow(t) = tip.chainPOW
  BY <1>2, <1>3, <1>5
<1>9. 0 \in T
  BY <1>2, <1>8
<1>10. ASSUME NEW n \in 0 .. last - 1, n \in T
       PROVE  n + 1 \in T
  <2>1. CASE n + 1 = t
    BY <1>8, <2>1
  <2>2. CASE n >= t
    <3>1. Pow(n) = tip.chainPOW
      BY <1>10, <2>2
    <3>2. Pow(n + 1) <= tip.chainPOW
      BY <1>2, <1>4
    <3>3. Pow(n + 1) >= Pow(n) /\ Pow(n) \in Nat /\ Pow(n + 1) \in Nat
      BY <1>7
    <3>. HIDE DEF Pow, tip, t
    <3>4. Pow(n + 1) = tip.chainPOW
      BY <3>1, <3>2, <3>3
    <3>. QED
      BY <3>4
  <2>3. CASE n + 1 < t
    BY <1>2, <2>3
  <2>. QED
    BY <1>2, <2>1, <2>2, <2>3
<1>11. \A n \in 0 .. last : n \in T
  <2>. HIDE DEF T
  <2>. QED
    BY <1>9, <1>10, ChildWalk!UpTo
<1>12. last - 1 \in 0 .. last - 1 /\ (last - 1) + 1 = last /\ last >= t /\ last - 1 >= t
  BY <1>2
<1>13. Pow(last) = tip.chainPOW /\ Pow(last - 1) = tip.chainPOW
  <2>1. last \in T /\ last - 1 \in T
    <3>1. last \in 0 .. last /\ last - 1 \in 0 .. last
      BY <1>12
    <3>. HIDE DEF T
    <3>. QED
      BY <1>11, <3>1
  <2>. HIDE DEF Pow, tip, t
  <2>. QED
    BY <1>12, <2>1
<1>14. Absorbed(w[last])
  BY <1>7, <1>12, <1>13
<1>. QED
  BY <1>4, <1>13, <1>14 DEF w

(* The full blocks in a row from genesis end at the step that              *)
(* max_full_block_height_from_genesis returns.                             *)
LEMMA MaxFullIsLast ==
    ASSUME AInv
    PROVE  MaxFullBlockHeight \in FullSteps /\ MaxFullBlockHeight \in 0 .. Cardinality(Blocks)
<1>. DEFINE w == FirstChildWalk(Genesis)
            m == Cardinality(Blocks)
            steps == Cardinality(FullSteps)
<1>1. w[0] = Genesis /\ DOMAIN w = 0 .. m /\ m \in Nat
  BY FirstChildWalkIs, HeaderAssumption, FS_CardinalityType
<1>2. FullSteps = {n \in 0 .. m : \A k \in 0 .. n : w[k] \in fullBlockAvailable}
  BY <1>1 DEF FullSteps
<1>. HIDE DEF w, m
<1>3. 0 \in FullSteps
  BY <1>1, <1>2 DEF AInv, AvailableLegal
<1>4. \A n \in FullSteps : \A k \in 0 .. n : k \in FullSteps
  BY <1>1, <1>2
<1>5. \A n \in Nat : IsFiniteSet(0 .. n) /\ Cardinality(0 .. n) = n + 1
  BY FS_Interval
<1>6. IsFiniteSet(FullSteps) /\ steps \in Nat /\ steps <= m + 1
  <2>1. FullSteps \subseteq 0 .. m
    BY <1>2
  <2>2. IsFiniteSet(FullSteps) /\ Cardinality(FullSteps) <= Cardinality(0 .. m)
    BY <1>1, <1>5, <2>1, FS_Subset
  <2>. QED
    BY <1>1, <1>5, <2>2, FS_CardinalityType
<1>7. steps # 0
  BY <1>3, <1>6, FS_EmptySet
<1>. HIDE DEF steps
<1>8. steps - 1 \in FullSteps
  <2>. SUFFICES ASSUME steps - 1 \notin FullSteps PROVE FALSE
    OBVIOUS
  <2>1. steps - 1 # 0 /\ steps - 2 \in Nat
    BY <1>3, <1>6, <1>7
  <2>2. FullSteps \subseteq 0 .. steps - 2
    <3>. SUFFICES ASSUME NEW n \in FullSteps PROVE n \in 0 .. steps - 2
      OBVIOUS
    <3>1. n \in Nat
      BY <1>1, <1>2
    <3>2. steps - 1 \notin 0 .. n
      BY <1>4
    <3>. QED
      BY <1>6, <2>1, <3>1, <3>2
  <2>3. Cardinality(FullSteps) <= Cardinality(0 .. steps - 2)
    BY <1>5, <2>1, <2>2, FS_Subset
  <2>. QED
    BY <1>5, <1>6, <2>1, <2>3 DEF steps
<1>9. (steps - 1) % UintModulus = steps - 1
  <2>1. m > 0
    BY <1>1, HeaderAssumption, FS_EmptySet DEF m
  <2>2. UintModulus \in Nat /\ UintModulus > 2 * m
    BY CatchupAssumption DEF m
  <2>3. steps - 1 \in 0 .. UintModulus - 1
    BY <1>1, <1>6, <1>7, <2>1, <2>2
  <2>4. \A n \in Nat : \A k \in 0 .. n - 1 : k % n = k
    OBVIOUS
  <2>. QED
    BY <2>2, <2>3, <2>4
<1>. QED
  BY <1>1, <1>2, <1>8, <1>9 DEF MaxFullBlockHeight, steps, m

(* While genesis is the only block without a parent the unsigned           *)
(* difference of should_catchup wraps only on absorbed work: the last full *)
(* block of the walk is not above the header tip, or it has no more work   *)
(* than it, because its own was lost in the sum, whichever files were      *)
(* written, were bad or could not be opened                                *)
(* (max_full_block_height_from_genesis).                                   *)
THEOREM CatchupCorrect == StoreSpec => []CatchupWrapsOnAbsorbed
<1>1. AInv => CatchupWrapsOnAbsorbed
  <2>. SUFFICES ASSUME AInv, Unlinked = {Genesis},
                       MaxFullBlockHeight > mainHeaderTip.height
                PROVE  \E b \in fullBlockAvailable :
                          /\ blockIndices[b].height = MaxFullBlockHeight
                          /\ Absorbed(b)
                          /\ blockIndices[b].chainPOW = mainHeaderTip.chainPOW
    BY DEF CatchupWrapsOnAbsorbed
  <2>. DEFINE last == MaxFullBlockHeight
              b == FirstChildWalk(Genesis)[last]
  <2>1. last \in 0 .. Cardinality(Blocks) /\ last \in FullSteps
    BY MaxFullIsLast
  <2>. HIDE DEF last
  <2>2. last \in Nat
    BY <2>1, HeaderAssumption, FS_CardinalityType
  <2>3. b \in fullBlockAvailable
    BY <2>1, <2>2 DEF FullSteps
  <2>4. b # NoHash /\ IInv
    BY <2>3, HeaderAssumption, BlockAssumption
       DEF AInv, AvailableLegal, LInv, SInv
  <2>5. last > mainHeaderTip.height
    BY DEF last
  <2>6. /\ blockIndices[b].height = last
        /\ Absorbed(b)
        /\ blockIndices[b].chainPOW = mainHeaderTip.chainPOW
    BY <2>1, <2>4, <2>5, AbsorbedAboveTip
  <2>. QED
    BY <2>3, <2>6 DEF last
<1>. QED
  BY <1>1, AInvCorrect, PTL

-----------------------------------------------------------------------------
(* Download: the missing blocks.                                           *)

MissingFold == INSTANCE Folding WITH Op <- AddMissing

LEMMA MissingFoldIs ==
    \A base, seq : FoldLeft(AddMissing, base, seq) = MissingFold!FoldLeft(AddMissing, base, seq)
  BY DEF FoldLeft, MapThenFoldSet, Max, MissingFold!FoldLeft, MissingFold!MapThenFoldSet,
         MissingFold!Max

Gaps == Indexed \ fullBlockAvailable

HeightOf(b) == blockIndices[b].height

(* What is found in the first k blocks of a walk: its gaps, from below.    *)
Finds(w, k, found) ==
    /\ found \in Seq(Blocks)
    /\ \A i \in 1 .. Len(found) :
          /\ found[i] \in Gaps
          /\ HeightOf(found[i]) < k
          /\ \E j \in 0 .. k - 1 : found[i] = w[j]
    /\ \A j \in 0 .. k - 1 :
          w[j] \in Gaps => \E i \in 1 .. Len(found) : found[i] = w[j]
    /\ \A i, j \in 1 .. Len(found) : i < j => HeightOf(found[i]) < HeightOf(found[j])

(* One more block of the walk.                                             *)
LEMMA FindsOneMore ==
    ASSUME Indexed \subseteq Blocks, NEW w, NEW k \in Nat, NEW found, Finds(w, k, found),
           w[k] \in Indexed => HeightOf(w[k]) = k,
           \A b \in Indexed : HeightOf(b) \in Nat
    PROVE  Finds(w, k + 1, AddMissing(found, w[k]))
<1>1. CASE w[k] \notin Gaps
  <2>1. AddMissing(found, w[k]) = found
    BY <1>1 DEF AddMissing, Gaps
  <2>. QED
    BY <1>1, <2>1 DEF Finds, Gaps
<1>2. CASE w[k] \in Gaps
  <2>. DEFINE h == w[k]
              n == Len(found)
              longer == Append(found, h)
  <2>1. AddMissing(found, h) = longer
    BY <1>2 DEF AddMissing, Gaps
  <2>2. h \in Blocks /\ HeightOf(h) = k
    BY <1>2 DEF Gaps
  <2>3. found \in Seq(Blocks) /\ n \in Nat
    BY DEF Finds
  <2>4. /\ longer \in Seq(Blocks)
        /\ Len(longer) = n + 1
        /\ longer[n + 1] = h
        /\ \A i \in 1 .. n : longer[i] = found[i]
    BY <2>2, <2>3
  <2>. HIDE DEF h, longer
  <2>5. \A i \in 1 .. n + 1 : /\ longer[i] \in Gaps
                              /\ HeightOf(longer[i]) < k + 1
                              /\ \E j \in 0 .. k : longer[i] = w[j]
    <3>. SUFFICES ASSUME NEW i \in 1 .. n + 1
                  PROVE  /\ longer[i] \in Gaps
                         /\ HeightOf(longer[i]) < k + 1
                         /\ \E j \in 0 .. k : longer[i] = w[j]
      OBVIOUS
    <3>1. CASE i = n + 1
      BY <1>2, <2>2, <2>4, <3>1 DEF h
    <3>2. CASE i \in 1 .. n
      <4>1. longer[i] = found[i] /\ found[i] \in Gaps /\ HeightOf(found[i]) < k
        BY <2>4, <3>2 DEF Finds
      <4>2. \E j \in 0 .. k - 1 : found[i] = w[j]
        BY <3>2 DEF Finds
      <4>3. HeightOf(found[i]) \in Nat
        BY <4>1 DEF Gaps
      <4>. QED
        BY <4>1, <4>2, <4>3
    <3>. QED
      BY <2>3, <3>1, <3>2
  <2>6. \A j \in 0 .. k : w[j] \in Gaps => \E i \in 1 .. n + 1 : longer[i] = w[j]
    <3>. SUFFICES ASSUME NEW j \in 0 .. k, w[j] \in Gaps
                  PROVE  \E i \in 1 .. n + 1 : longer[i] = w[j]
      OBVIOUS
    <3>1. CASE j = k
      BY <2>3, <2>4, <3>1 DEF h
    <3>2. CASE j \in 0 .. k - 1
      <4>1. PICK i \in 1 .. n : found[i] = w[j]
        BY <3>2 DEF Finds
      <4>. QED
        BY <2>3, <2>4, <4>1
    <3>. QED
      BY <3>1, <3>2
  <2>7. \A i, j \in 1 .. n + 1 : i < j => HeightOf(longer[i]) < HeightOf(longer[j])
    <3>. SUFFICES ASSUME NEW i \in 1 .. n + 1, NEW j \in 1 .. n + 1, i < j
                  PROVE  HeightOf(longer[i]) < HeightOf(longer[j])
      OBVIOUS
    <3>1. CASE j = n + 1
      <4>1. i \in 1 .. n
        BY <2>3, <3>1
      <4>2. longer[i] = found[i] /\ longer[j] = h /\ HeightOf(found[i]) < k
        BY <2>4, <3>1, <4>1 DEF Finds
      <4>. QED
        BY <2>2, <4>2
    <3>2. CASE j \in 1 .. n
      <4>1. i \in 1 .. n
        BY <2>3, <3>2
      <4>2. longer[i] = found[i] /\ longer[j] = found[j]
        BY <2>4, <3>2, <4>1
      <4>. QED
        BY <3>2, <4>1, <4>2 DEF Finds
    <3>. QED
      BY <2>3, <3>1, <3>2
  <2>8. Len(longer) = n + 1 /\ longer \in Seq(Blocks)
    BY <2>4
  <2>9. (k + 1) - 1 = k
    OBVIOUS
  <2>10. Finds(w, k + 1, longer)
    BY <2>5, <2>6, <2>7, <2>8, <2>9 DEF Finds
  <2>. QED
    BY <2>1, <2>10 DEF h
<1>. QED
  BY <1>1, <1>2

(* Genesis has no parent that could name it as a child.                    *)
LEMMA GenesisUnlinked ==
    ASSUME IInv
    PROVE  Genesis \in Unlinked
<1>. SUFFICES ASSUME IsLinked(Genesis) PROVE FALSE
  BY DEF Unlinked, IInv, TypeOK
<1>. QED
  BY HeaderAssumption DEF IsLinked, IInv, TypeOK

(* find_missing_blocks before it counts: the gaps of the walk, from below. *)
LEMMA MissingIs ==
    ASSUME IInv
    PROVE  LET missing == MissingFrom(Genesis)
               gaps == FirstChildPath(Genesis) \ fullBlockAvailable
           IN  /\ missing \in Seq(Blocks)
               /\ \A i \in 1 .. Len(missing) : missing[i] \in gaps
               /\ \A b \in gaps : \E i \in 1 .. Len(missing) : missing[i] = b
               /\ \A i, j \in 1 .. Len(missing) :
                     i < j => HeightOf(missing[i]) < HeightOf(missing[j])
               /\ \A b \in gaps : HeightOf(b) \in Nat
<1>. DEFINE w == FirstChildWalk(Genesis)
            m == Cardinality(Blocks)
            seq == [i \in 1 .. m |-> w[i - 1]]
            I == [k \in 0 .. m |-> {found \in Seq(Blocks) : Finds(w, k, found)}]
            missing == MissingFrom(Genesis)
            gaps == FirstChildPath(Genesis) \ fullBlockAvailable
<1>1. /\ m \in Nat
      /\ DOMAIN w = 0 .. m
      /\ Genesis \in Unlinked
      /\ Indexed \subseteq Blocks
      /\ NoHash \notin Indexed
  BY GenesisUnlinked, FirstChildWalkIs, HeaderAssumption, FS_CardinalityType
     DEF IInv, TypeOK
<1>2. \A b \in Indexed : HeightOf(b) \in Nat
  BY DEF IInv, TypeOK, Context, HeightOf
<1>3. \A n \in 0 .. m : w[n] # NoHash => w[n] \in Indexed /\ HeightOf(w[n]) = n
  BY <1>1, WalkClimbs DEF Main, HeightOf
<1>4. w[m] = NoHash
  BY <1>1, WalkIsShort
<1>5. missing = FoldLeft(AddMissing, << >>, seq)
  BY DEF MissingFrom
<1>. HIDE DEF w, missing
<1>6. << >> \in I[0]
  BY <1>1 DEF Finds
<1>7. \A k \in 1 .. m : \A x \in I[k - 1] : AddMissing(x, seq[k]) \in I[k]
  <2>. SUFFICES ASSUME NEW k \in 1 .. m, NEW x \in I[k - 1]
                PROVE  AddMissing(x, seq[k]) \in I[k]
    OBVIOUS
  <2>1. k - 1 \in Nat /\ k - 1 \in 0 .. m /\ seq[k] = w[k - 1] /\ (k - 1) + 1 = k
    BY <1>1
  <2>2. Finds(w, k - 1, x)
    BY <2>1
  <2>3. w[k - 1] \in Indexed => HeightOf(w[k - 1]) = k - 1
    BY <1>1, <1>3, <2>1
  <2>4. Finds(w, (k - 1) + 1, AddMissing(x, w[k - 1]))
    BY <1>1, <1>2, <2>1, <2>2, <2>3, FindsOneMore
  <2>5. Finds(w, k, AddMissing(x, seq[k]))
    BY <2>1, <2>4
  <2>6. AddMissing(x, seq[k]) \in Seq(Blocks)
    BY <2>5 DEF Finds
  <2>. QED
    BY <1>1, <2>5, <2>6
<1>8. missing \in I[m]
  <2>1. DOMAIN seq = 1 .. m
    OBVIOUS
  <2>. HIDE DEF I, seq
  <2>2. MissingFold!FoldLeft(AddMissing, << >>, seq) \in I[m]
    BY <1>1, <1>6, <1>7, <2>1, MissingFold!FoldLeftInduction
  <2>. QED
    BY <1>5, <2>2, MissingFoldIs
<1>9. Finds(w, m, missing)
  BY <1>1, <1>8
<1>10. \A b : b \in gaps <=> b \in Gaps /\ \E j \in 0 .. m - 1 : b = w[j]
  <2>1. FirstChildPath(Genesis) = {w[n] : n \in 0 .. m} \ {NoHash}
    BY <1>1 DEF FirstChildPath, w
  <2>2. FirstChildPath(Genesis) = {w[n] : n \in 0 .. m - 1} \cap Indexed
    BY <1>1, <1>3, <1>4, <2>1
  <2>. QED
    BY <2>2 DEF Gaps
<1>. HIDE DEF gaps, m
<1>11. \A b \in gaps : HeightOf(b) \in Nat
  BY <1>2, <1>10 DEF Gaps
<1>12. /\ missing \in Seq(Blocks)
       /\ \A i \in 1 .. Len(missing) : missing[i] \in gaps
       /\ \A b \in gaps : \E i \in 1 .. Len(missing) : missing[i] = b
       /\ \A i, j \in 1 .. Len(missing) :
             i < j => HeightOf(missing[i]) < HeightOf(missing[j])
  BY <1>9, <1>10 DEF Finds
<1>. QED
  BY <1>11, <1>12 DEF missing, gaps

(* The first n of what is missing.                                         *)
LEMMA LowestGaps == IInv => RequestsLowestGaps
<1>. SUFFICES ASSUME IInv, NEW n \in 1 .. MaxIdle
              PROVE  LET found == ToSet(FindMissingBlocks(n))
                         gaps  == FirstChildPath(Genesis) \ fullBlockAvailable
                     IN  /\ found \subseteq gaps
                         /\ Len(FindMissingBlocks(n)) = Cardinality(found)
                         /\ Cardinality(found) = n \/ found = gaps
                         /\ \A b \in found, c \in gaps \ found :
                               blockIndices[b].height < blockIndices[c].height
  BY DEF RequestsLowestGaps
<1>. DEFINE missing == MissingFrom(Genesis)
            gaps == FirstChildPath(Genesis) \ fullBlockAvailable
            k == IF Len(missing) < n THEN Len(missing) ELSE n
            asked == FindMissingBlocks(n)
            found == ToSet(asked)
<1>1. /\ missing \in Seq(Blocks)
      /\ \A i \in 1 .. Len(missing) : missing[i] \in gaps
      /\ \A b \in gaps : \E i \in 1 .. Len(missing) : missing[i] = b
      /\ \A i, j \in 1 .. Len(missing) :
            i < j => HeightOf(missing[i]) < HeightOf(missing[j])
      /\ \A b \in gaps : HeightOf(b) \in Nat
  BY MissingIs
<1>2. n \in Nat /\ n >= 1
  BY DownloadAssumption
<1>3. asked = SubSeq(missing, 1, k)
  BY DEF FindMissingBlocks, UpToCount
<1>. HIDE DEF missing, gaps, asked
<1>4. k \in 0 .. Len(missing) /\ k \in Nat /\ (k = n \/ k = Len(missing))
  BY <1>1, <1>2
<1>. HIDE DEF k
<1>5. asked \in Seq(Blocks) /\ Len(asked) = k /\ \A i \in 1 .. k : asked[i] = missing[i]
  BY <1>1, <1>3, <1>4
<1>6. found = {missing[i] : i \in 1 .. k}
  BY <1>4, <1>5 DEF ToSet
<1>7. \A i, j \in 1 .. Len(missing) : missing[i] = missing[j] => i = j
  <2>. SUFFICES ASSUME NEW i \in 1 .. Len(missing), NEW j \in 1 .. Len(missing),
                       missing[i] = missing[j], i # j
                PROVE  FALSE
    OBVIOUS
  <2>1. HeightOf(missing[i]) < HeightOf(missing[j]) \/ HeightOf(missing[j]) < HeightOf(missing[i])
    BY <1>1
  <2>2. HeightOf(missing[i]) \in Nat
    BY <1>1
  <2>. QED
    BY <2>1, <2>2
<1>. HIDE DEF found
<1>8. Cardinality(found) = k
  <2>. DEFINE f == [i \in 1 .. k |-> missing[i]]
  <2>1. f \in Bijection(1 .. k, found)
    <3>1. \A i \in 1 .. k : f[i] \in found
      BY <1>6
    <3>2. \A i, j \in 1 .. k : f[i] = f[j] => i = j
      BY <1>1, <1>4, <1>7
    <3>3. \A b \in found : \E i \in 1 .. k : f[i] = b
      BY <1>6
    <3>4. f \in [1 .. k -> found]
      BY <3>1
    <3>. HIDE DEF f
    <3>. QED
      BY <3>2, <3>3, <3>4 DEF Bijection, Injection, Surjection, IsInjective
  <2>2. IsFiniteSet(1 .. k) /\ Cardinality(1 .. k) = k
    BY <1>4, FS_Interval
  <2>. HIDE DEF f
  <2>. QED
    BY <2>1, <2>2, FS_Bijection DEF ExistsBijection
<1>9. found \subseteq gaps
  BY <1>1, <1>4, <1>6
<1>10. k = Len(missing) => found = gaps
  BY <1>1, <1>6, <1>9
<1>11. ASSUME NEW b \in found, NEW c \in gaps \ found
       PROVE  blockIndices[b].height < blockIndices[c].height
  <2>1. PICK i \in 1 .. k : b = missing[i]
    BY <1>6
  <2>2. PICK j \in 1 .. Len(missing) : c = missing[j]
    BY <1>1
  <2>3. i \in 1 .. Len(missing) /\ i < j
    BY <1>1, <1>4, <1>6, <2>1, <2>2
  <2>. QED
    BY <1>1, <2>1, <2>2, <2>3 DEF HeightOf
<1>. QED
  BY <1>4, <1>5, <1>8, <1>9, <1>10, <1>11 DEF found, asked, gaps

-----------------------------------------------------------------------------
(* Headers on their way are those of the peers' chain.                     *)
Arriving == incoming \in Seq(Blocks)

(* What is sent for any locator is a part of that chain.                   *)
LEMMA HeadersAfterType ==
    ASSUME NEW locator
    PROVE  HeadersAfter(locator) \in Seq(Blocks)
<1>. DEFINE known == {i \in DOMAIN PeerChain : PeerChain[i] = locator}
            start == IF known = {} THEN 0 ELSE CHOOSE i \in known : TRUE
            after == SubSeq(PeerChain, start + 1, Len(PeerChain))
            k == IF Len(after) < MaxHeaders THEN Len(after) ELSE MaxHeaders
<1>1. PeerChain \in Seq(Blocks) /\ MaxHeaders \in Nat
  BY DownloadAssumption
<1>2. start \in 0 .. Len(PeerChain)
  BY <1>1
<1>. HIDE DEF start
<1>3. after \in Seq(Blocks)
  BY <1>1, <1>2
<1>4. HeadersAfter(locator) = SubSeq(after, 1, k)
  BY DEF HeadersAfter, UpToCount, start
<1>. HIDE DEF after
<1>5. SubSeq(after, 1, k) \in Seq(Blocks)
  BY <1>1, <1>3
<1>. QED
  BY <1>4, <1>5

LEMMA ArrivingStep == Arriving /\ [DownloadNext]_allVars => Arriving'
<1>. SUFFICES ASSUME Arriving, [DownloadNext]_allVars PROVE Arriving'
  OBVIOUS
<1>1. \A h : HeadersAfter(h) \in Seq(Blocks)
  BY HeadersAfterType
<1>2. ASSUME HandleHeader PROVE Arriving'
  BY <1>2 DEF HandleHeader, Arriving
<1>3. ASSUME SendHeaders PROVE Arriving'
  BY <1>1, <1>3 DEF SendHeaders, Arriving
<1>4. ASSUME \/ \E n \in 1 .. MaxIdle : ExchangeDataWithPeers(n)
             \/ \E b \in Blocks : AnswerBlock(b)
             \/ Lose
             \/ LoseFile
             \/ Unasked
             \/ UNCHANGED allVars
      PROVE  UNCHANGED incoming
  BY <1>4 DEF ExchangeDataWithPeers, AnswerBlock, Lose, LoseFile, Unasked, downloadVars,
              allVars
<1>. QED
  BY <1>2, <1>3, <1>4 DEF DownloadNext, Arriving

(* The download is a block store that is told what to do: no step does     *)
(* anything to it but what a step of the store may do                      *)
(* (exchange_data_with_peers only sends).                                  *)
THEOREM DownloadImplementsStore == DownloadSpec => StoreSpec
<1>1. DownloadInit => StoreInit /\ Arriving
  BY DEF DownloadInit, Arriving
<1>2. Arriving /\ [DownloadNext]_allVars => [StoreNext]_vars
  <2>. SUFFICES ASSUME Arriving, [DownloadNext]_allVars
                PROVE  StoreNext \/ UNCHANGED vars
    OBVIOUS
  <2>1. ASSUME NEW n \in 1 .. MaxIdle, ExchangeDataWithPeers(n)
        PROVE  UNCHANGED vars
    BY <2>1 DEF ExchangeDataWithPeers
  <2>2. ASSUME SendHeaders PROVE UNCHANGED vars
    BY <2>2 DEF SendHeaders
  <2>3. ASSUME HandleHeader PROVE StoreNext
    <3>1. Head(incoming) \in Blocks
      BY <2>3 DEF HandleHeader, Arriving
    <3>. QED
      BY <2>3, <3>1 DEF HandleHeader, StoreNext
  <2>4. ASSUME NEW b \in Blocks, AnswerBlock(b) PROVE StoreNext
    BY <2>4 DEF AnswerBlock, StoreNext
  <2>5. ASSUME Lose PROVE UNCHANGED vars
    BY <2>5 DEF Lose
  <2>6. ASSUME LoseFile \/ Unasked PROVE StoreNext
    BY <2>6 DEF LoseFile, Unasked, StoreNext
  <2>7. ASSUME UNCHANGED allVars PROVE UNCHANGED vars
    BY <2>7 DEF allVars
  <2>. QED
    BY <2>1, <2>2, <2>3, <2>4, <2>5, <2>6, <2>7 DEF DownloadNext
<1>. QED
  BY <1>1, <1>2, ArrivingStep, PTL DEF DownloadSpec, StoreSpec

(* What is asked for is the lowest gaps of the walk, each once, as many as *)
(* there are idle peers, on every tree and whatever blocks are lost again  *)
(* (find_missing_blocks).                                                  *)
THEOREM RequestsCorrect == DownloadSpec => []RequestsLowestGaps
<1>1. SInv => RequestsLowestGaps
  BY LowestGaps DEF SInv
<1>. QED
  BY <1>1, DownloadImplementsStore, SInvCorrect, PTL

-----------------------------------------------------------------------------
(* Restart.                                                                *)

(* The inductive invariant: besides the properties, what every start finds *)
(* of genesis.                                                             *)
DInv ==
    /\ Genesis \in applied
    /\ Genesis \in blockFiles
    /\ IndexBehindDisk
    /\ SpendsSourcedAcrossKills

(* What registering some of b may make of the coins, and a start after it. *)
Between(before, b, after) ==
    /\ before \ InsOf(b) \subseteq after
    /\ after \subseteq before \cup OutsOf(b)

BetweenStarts(before, b, after) ==
    /\ before \ InsOf(b) \subseteq after
    /\ after \subseteq before \cup OutsOf(b) \cup OutsOf(Genesis)

-----------------------------------------------------------------------------
(* Registration.                                                           *)

(* A block that is valid spends what is in the database or its own.        *)
LEMMA ValidIsSourced ==
    ASSUME NEW b, IsBlockValid(b)
    PROVE  b \in Blocks /\ InsOf(b) \subseteq utxo \cup OutsOf(b)
<1>1. b \in Blocks /\ Txs[b] \in Seq(TxType)
  BY BlockAssumption DEF IsBlockValid
<1>2. ASSUME NEW k \in DOMAIN Txs[b], NEW o \in Txs[b][k].ins
      PROVE  o \in utxo \cup OutsOf(b)
  <2>1. CASE o \in utxo
    BY <2>1
  <2>2. ASSUME NEW j \in 1 .. k - 1, o \in Txs[b][j].outs
        PROVE  o \in OutsOf(b)
    <3>1. j \in DOMAIN Txs[b]
      BY <1>1
    <3>. QED
      BY <2>2, <3>1 DEF OutsOf
  <2>. QED
    BY <2>1, <2>2 DEF IsBlockValid, SourceFound
<1>. QED
  BY <1>1, <1>2 DEF InsOf

(* Genesis spends nothing, so registering it adds what it creates.         *)
LEMMA GenesisIsAdded ==
    ASSUME NEW coins
    PROVE  Register(coins, Genesis) = coins \cup OutsOf(Genesis)
<1>1. Genesis \in Blocks /\ InsOf(Genesis) = {}
  BY HeaderAssumption, BlockAssumption
<1>. QED
  BY <1>1, RegisterIs

(* All of a block registered.                                              *)
LEMMA RegisterBetween ==
    ASSUME NEW coins, NEW b \in Blocks
    PROVE  /\ Between(coins, b, Register(coins, b))
           /\ OutsOf(b) \ InsOf(b) \subseteq Register(coins, b)
<1>. DEFINE after == Register(coins, b)
<1>1. /\ after \subseteq coins \cup OutsOf(b)
      /\ (coins \cup OutsOf(b)) \ InsOf(b) \subseteq after
  BY RegisterIs
<1>. HIDE DEF after
<1>2. Between(coins, b, after) /\ OutsOf(b) \ InsOf(b) \subseteq after
  BY <1>1 DEF Between
<1>. QED
  BY <1>2 DEF after

(* The first transactions of a block registered.                           *)
LEMMA PrefixBetween ==
    ASSUME NEW coins, NEW b \in Blocks, NEW k \in DOMAIN Txs[b]
    PROVE  Between(coins, b, FoldLeft(RegisterTx, coins, SubSeq(Txs[b], 1, k - 1)))
<1>. DEFINE txs == SubSeq(Txs[b], 1, k - 1)
            n == k - 1
            Goods == {after \in SUBSET (coins \cup OutsOf(b)) : coins \ InsOf(b) \subseteq after}
            I == [j \in 0 .. n |-> Goods]
<1>1. Txs[b] \in Seq(TxType) /\ k \in 1 .. Len(Txs[b])
  BY BlockAssumption
<1>2. n \in Nat /\ DOMAIN txs = 1 .. n /\ \A j \in 1 .. n : txs[j] = Txs[b][j] /\ j \in DOMAIN Txs[b]
  BY <1>1
<1>3. coins \in I[0]
  BY <1>2
<1>4. ASSUME NEW j \in 1 .. n, NEW x \in I[j - 1]
      PROVE  RegisterTx(x, txs[j]) \in I[j]
  <2>1. x \in Goods /\ I[j] = Goods
    BY <1>2
  <2>2. txs[j].outs \subseteq OutsOf(b) /\ txs[j].ins \subseteq InsOf(b)
    BY <1>2 DEF OutsOf, InsOf
  <2>3. RegisterTx(x, txs[j]) \in Goods
    <3>. HIDE DEF txs
    <3>. QED
      BY <2>1, <2>2 DEF RegisterTx
  <2>. QED
    BY <2>1, <2>3
<1>5. I[n] = Goods
  BY <1>2
<1>. HIDE DEF I, txs, n
<1>6. \A j \in 1 .. n : \A x \in I[j - 1] : RegisterTx(x, txs[j]) \in I[j]
  BY <1>4
<1>7. RegisterFold!FoldLeft(RegisterTx, coins, txs) \in I[n]
  BY <1>2, <1>3, <1>6, RegisterFold!FoldLeftInduction
<1>8. FoldLeft(RegisterTx, coins, txs) \in Goods
  BY <1>5, <1>7, SameFold
<1>. QED
  BY <1>8 DEF Between, txs

(* A registration cut short between any two writes.                        *)
LEMMA PartlyBetween ==
    ASSUME NEW coins, NEW b \in Blocks, NEW after \in PartlyRegistered(coins, b)
    PROVE  Between(coins, b, after)
<1>. DEFINE Before(k) == FoldLeft(RegisterTx, coins, SubSeq(Txs[b], 1, k - 1))
<1>. DEFINE Cut(k) == {Before(k) \cup some : some \in SUBSET Txs[b][k].outs}
                        \cup {(Before(k) \cup Txs[b][k].outs) \ some :
                                 some \in SUBSET Txs[b][k].ins}
<1>. HIDE DEF Before
<1>1. PICK k \in DOMAIN Txs[b] :
         \/ \E some \in SUBSET Txs[b][k].outs : after = Before(k) \cup some
         \/ \E some \in SUBSET Txs[b][k].ins :
               after = (Before(k) \cup Txs[b][k].outs) \ some
  <2>1. PartlyRegistered(coins, b) = UNION {Cut(k) : k \in DOMAIN Txs[b]}
    BY DEF PartlyRegistered, Before
  <2>2. PICK k \in DOMAIN Txs[b] : after \in Cut(k)
    <3>. HIDE DEF Cut
    <3>. QED
      BY <2>1
  <2>. QED
    BY <2>2
<1>2. Between(coins, b, Before(k))
  BY PrefixBetween DEF Before
<1>3. Txs[b][k].outs \subseteq OutsOf(b) /\ Txs[b][k].ins \subseteq InsOf(b)
  BY DEF OutsOf, InsOf
<1>. QED
  BY <1>1, <1>2, <1>3 DEF Between

-----------------------------------------------------------------------------
(* Steps.                                                                  *)

(* The database after all or some of b was registered, with an index that  *)
(* calls nothing registered that was not, b excepted.                      *)
LEMMA DiskKeeps ==
    ASSUME DInv, NEW b \in Blocks, InsOf(b) \subseteq utxo \cup OutsOf(b),
           BetweenStarts(utxo, b, utxo'),
           applied' = applied \cup {b},
           outputsRegistered' \cup savedIndex'.registered
              \subseteq outputsRegistered \cup savedIndex.registered
                           \cup {c \in {b, Genesis} : OutsOf(c) \ InsOf(b) \subseteq utxo'},
           fullBlockAvailable' \cup savedIndex'.available \subseteq blockFiles',
           blockFiles \subseteq blockFiles'
    PROVE  DInv'
<1>3. UNION {OutsOf(c) : c \in applied'} = (UNION {OutsOf(c) : c \in applied}) \cup OutsOf(b)
  OBVIOUS
<1>4. UNION {InsOf(c) : c \in applied'} = (UNION {InsOf(c) : c \in applied}) \cup InsOf(b)
  OBVIOUS
<1>5. SpendsSourcedAcrossKills'
  <2>1. outputsRegistered' \cup savedIndex'.registered \subseteq applied'
    BY DEF DInv, SpendsSourcedAcrossKills
  <2>2. utxo' \subseteq UNION {OutsOf(c) : c \in applied'}
    BY <1>3 DEF DInv, SpendsSourcedAcrossKills, BetweenStarts
  <2>3. \A c \in applied' : InsOf(c) \subseteq UNION {OutsOf(d) : d \in applied'}
    BY <1>3 DEF DInv, SpendsSourcedAcrossKills
  <2>. QED
    BY <2>1, <2>2, <2>3 DEF SpendsSourcedAcrossKills
<1>6. ASSUME NEW c \in outputsRegistered' \cup savedIndex'.registered,
             NEW o \in OutsOf(c) \ utxo'
      PROVE  o \in UNION {InsOf(d) : d \in applied'}
  <2>1. CASE c \in outputsRegistered \cup savedIndex.registered
    <3>1. o \in utxo => o \in InsOf(b)
      BY <1>6 DEF BetweenStarts
    <3>2. o \notin utxo => o \in UNION {InsOf(d) : d \in applied}
      BY <1>6, <2>1 DEF DInv, IndexBehindDisk
    <3>. QED
      BY <1>4, <3>1, <3>2
  <2>2. CASE OutsOf(c) \ InsOf(b) \subseteq utxo'
    BY <1>4, <1>6, <2>2
  <2>. QED
    BY <2>1, <2>2
<1>7. IndexBehindDisk'
  BY <1>6 DEF IndexBehindDisk
<1>. QED
  BY <1>5, <1>7 DEF DInv

(* A start from a saved index whose flags say no more than the running     *)
(* one's or the last saved one's, on what a registration of b left.        *)
LEMMA RestartKeeps ==
    ASSUME DInv, NEW b \in Blocks, InsOf(b) \subseteq utxo \cup OutsOf(b),
           NEW saved, NEW coins, Restart(saved, coins), Between(utxo, b, coins),
           applied' = applied \cup {b},
           savedIndex' = saved,
           saved.available \subseteq blockFiles,
           saved.registered \subseteq outputsRegistered \cup savedIndex.registered \cup {Genesis}
    PROVE  DInv'
<1>1. /\ fullBlockAvailable' = saved.available
      /\ outputsRegistered' = saved.registered
      /\ blockFiles' = blockFiles \cup {Genesis}
      /\ utxo' = Register(coins, Genesis)
  BY DEF Restart, Load
<1>2. utxo' = coins \cup OutsOf(Genesis)
  BY <1>1, GenesisIsAdded
<1>3. BetweenStarts(utxo, b, utxo') /\ OutsOf(Genesis) \subseteq utxo'
  BY <1>2 DEF Between, BetweenStarts
<1>. QED
  BY <1>1, <1>3, DiskKeeps

(* The same when nothing was being registered.                             *)
LEMMA PlainRestartKeeps ==
    ASSUME DInv, NEW saved, Restart(saved, utxo), UNCHANGED applied,
           savedIndex' = saved,
           saved.available \subseteq blockFiles,
           saved.registered \subseteq outputsRegistered \cup savedIndex.registered \cup {Genesis}
    PROVE  DInv'
<1>1. Genesis \in Blocks /\ InsOf(Genesis) = {}
  BY HeaderAssumption, BlockAssumption
<1>2. Between(utxo, Genesis, utxo) /\ applied' = applied \cup {Genesis}
  BY DEF Between, DInv
<1>. QED
  BY <1>1, <1>2, RestartKeeps

(* What is left of a file cut short says no more than the running index.   *)
LEMMA TornIs ==
    ASSUME NEW torn \in TornSnapshots
    PROVE  /\ torn.available \subseteq fullBlockAvailable \cup {Genesis}
           /\ torn.registered \subseteq outputsRegistered \cup {Genesis}
<1>1. Fresh.available = {Genesis} /\ Fresh.registered = {Genesis}
  BY DEF Fresh
<1>2. /\ [Fresh EXCEPT !.headerTip = mainHeaderTip].available = {Genesis}
      /\ [Fresh EXCEPT !.headerTip = mainHeaderTip].registered = {Genesis}
  BY DEF Fresh
<1>. DEFINE Cut(written) ==
       [indices      |-> [h \in written \cup {Genesis} |->
                            IF h \in written THEN blockIndices[h] ELSE Fresh.indices[h]],
        headerTip    |-> mainHeaderTip,
        validatedTip |-> mainValidatedTip,
        available    |-> (fullBlockAvailable \cap written) \cup ({Genesis} \ written),
        validated    |-> (fullBlockValidated \cap written) \cup ({Genesis} \ written),
        registered   |-> (outputsRegistered \cap written) \cup ({Genesis} \ written)]
<1>3. \A written :
         /\ Cut(written).available = (fullBlockAvailable \cap written) \cup ({Genesis} \ written)
         /\ Cut(written).registered = (outputsRegistered \cap written) \cup ({Genesis} \ written)
  OBVIOUS
<1>4. \/ torn = Fresh
      \/ torn = [Fresh EXCEPT !.headerTip = mainHeaderTip]
      \/ \E written \in WrittenSoFar : torn = Cut(written)
  BY DEF TornSnapshots
<1>. HIDE DEF Cut
<1>5. CASE torn = Fresh
  BY <1>1, <1>5
<1>6. CASE torn = [Fresh EXCEPT !.headerTip = mainHeaderTip]
  BY <1>2, <1>6, Zenon
<1>7. ASSUME NEW written \in WrittenSoFar, torn = Cut(written)
      PROVE  /\ torn.available \subseteq fullBlockAvailable \cup {Genesis}
             /\ torn.registered \subseteq outputsRegistered \cup {Genesis}
  BY <1>3, <1>7
<1>. QED
  BY <1>4, <1>5, <1>6, <1>7

(* Every step of the process, and every end of it, keeps the disk ahead.   *)
LEMMA RunKeeps ==
    ASSUME DInv, Run
    PROVE  DInv'
<1>1. UNCHANGED savedIndex /\ applied' = applied \cup outputsRegistered'
  BY DEF Run
<1>2. DInv => /\ outputsRegistered \cup savedIndex.registered \subseteq applied
              /\ fullBlockAvailable \cup savedIndex.available \subseteq blockFiles
              /\ Genesis \in Blocks /\ InsOf(Genesis) = {} /\ Genesis \in applied
  BY HeaderAssumption, BlockAssumption DEF DInv, IndexBehindDisk, SpendsSourcedAcrossKills
<1>3. ASSUME UNCHANGED <<utxo, outputsRegistered>>,
             fullBlockAvailable' \cup savedIndex.available \subseteq blockFiles',
             blockFiles \subseteq blockFiles'
      PROVE  DInv'
  <2>1. BetweenStarts(utxo, Genesis, utxo') /\ applied' = applied \cup {Genesis}
    BY <1>1, <1>2, <1>3 DEF BetweenStarts
  <2>. QED
    BY <1>1, <1>2, <1>3, <2>1, DiskKeeps
<1>4. ASSUME NEW b, IsBlockValid(b),
             utxo' = Register(utxo, b),
             outputsRegistered' = outputsRegistered \cup {b},
             fullBlockAvailable' \cup savedIndex.available \subseteq blockFiles',
             blockFiles \subseteq blockFiles'
      PROVE  DInv'
  <2>1. b \in Blocks /\ InsOf(b) \subseteq utxo \cup OutsOf(b)
    BY <1>4, ValidIsSourced
  <2>2. BetweenStarts(utxo, b, utxo')
    BY <1>4, <2>1, RegisterBetween DEF Between, BetweenStarts
  <2>3. applied' = applied \cup {b}
    BY <1>1, <1>2, <1>4
  <2>4. OutsOf(b) \ InsOf(b) \subseteq utxo'
    BY <1>4, <2>1, RegisterBetween
  <2>. QED
    BY <1>1, <1>4, <2>1, <2>2, <2>3, <2>4, DiskKeeps
<1>5. ASSUME NEW b \in Blocks, NEW legal \in BOOLEAN, ReceiveHeaders(b, legal)
      PROVE  DInv'
  BY <1>2, <1>3, <1>5 DEF ReceiveHeaders, storeVars, metaVars, chainVars
<1>6. ASSUME NEW b \in Blocks, NEW saved \in BOOLEAN, ReceiveBlock(b, saved)
      PROVE  DInv'
  <2>1. /\ fullBlockAvailable' \cup savedIndex.available \subseteq blockFiles'
        /\ blockFiles \subseteq blockFiles'
    BY <1>2, <1>6 DEF ReceiveBlock, SaveBlock
  <2>2. CASE UNCHANGED <<utxo, outputsRegistered>>
    BY <1>3, <2>1, <2>2
  <2>3. CASE ~ UNCHANGED <<utxo, outputsRegistered>>
    <3>1. mode = NORMAL /\ IsBlockValid(b) /\ RegisterIncoming(b)
      BY <1>6, <2>3 DEF ReceiveBlock, ValidateIncoming, chainVars
    <3>2. utxo' = Register(utxo, b) /\ outputsRegistered' = outputsRegistered \cup {b}
      BY <2>3, <3>1 DEF RegisterIncoming
    <3>. QED
      BY <1>4, <2>1, <3>1, <3>2
  <2>. QED
    BY <2>2, <2>3
<1>7. ASSUME ValidateNext
      PROVE  DInv'
  BY <1>2, <1>4, <1>7 DEF ValidateNext, ValidateStored
<1>8. ASSUME EndValidation \/ LoadBadBlock \/ ResetIbdMode
      PROVE  DInv'
  BY <1>2, <1>3, <1>8 DEF EndValidation, LoadBadBlock, MarkBlockAsUnavailable, ResetIbdMode,
                          metaVars, chainVars
<1>. QED
  BY <1>5, <1>6, <1>7, <1>8 DEF Run, StoreNext

LEMMA RestartStepInv == DInv /\ [RestartNext]_restartVars => DInv'
<1>. SUFFICES ASSUME DInv, [RestartNext]_restartVars PROVE DInv'
  OBVIOUS
<1>1. /\ fullBlockAvailable \cup savedIndex.available \subseteq blockFiles
      /\ Genesis \in blockFiles
  BY DEF DInv, IndexBehindDisk
<1>2. Snapshot.available = fullBlockAvailable /\ Snapshot.registered = outputsRegistered
  BY DEF Snapshot
<1>3. CASE Run
  BY <1>3, RunKeeps
<1>4. CASE Save
  <2>1. /\ UNCHANGED <<blockIndices, utxo, outputsRegistered, fullBlockAvailable, blockFiles,
                       applied>>
        /\ savedIndex' = Snapshot
    BY <1>4 DEF Save, vars, headerVars, storeVars, metaVars, chainVars
  <2>2. IndexBehindDisk'
    BY <1>1, <1>2, <2>1 DEF DInv, IndexBehindDisk
  <2>3. SpendsSourcedAcrossKills'
    BY <1>2, <2>1 DEF DInv, SpendsSourcedAcrossKills
  <2>. QED
    BY <2>1, <2>2, <2>3 DEF DInv
<1>5. CASE StopAndRestart
  <2>1. savedIndex' = Snapshot /\ Restart(Snapshot, utxo) /\ UNCHANGED applied
    BY <1>5 DEF StopAndRestart
  <2>. QED
    BY <1>1, <1>2, <2>1, PlainRestartKeeps
<1>6. CASE StopAndReset
  <2>. DEFINE cleared == [Snapshot EXCEPT
                             !.validatedTip = TipAt(Genesis, blockIndices[Genesis]),
                             !.validated    = {},
                             !.registered   = {}]
  <2>1. savedIndex' = cleared /\ Restart(cleared, utxo) /\ UNCHANGED applied
    BY <1>6 DEF StopAndReset
  <2>2. cleared.available = fullBlockAvailable /\ cleared.registered = {}
    BY DEF Snapshot
  <2>. HIDE DEF cleared
  <2>. QED
    BY <1>1, <2>1, <2>2, PlainRestartKeeps
<1>7. CASE Kill
  <2>1. Restart(savedIndex, utxo) /\ UNCHANGED <<savedIndex, applied>>
    BY <1>7 DEF Kill
  <2>. QED
    BY <1>1, <2>1, PlainRestartKeeps
<1>8. CASE KillInSave
  <2>1. PICK torn \in TornSnapshots : savedIndex' = torn /\ Restart(torn, utxo)
    BY <1>8 DEF KillInSave
  <2>2. UNCHANGED applied
    BY <1>8 DEF KillInSave
  <2>. QED
    BY <1>1, <2>1, <2>2, TornIs, PlainRestartKeeps
<1>9. ASSUME NEW b \in Blocks, KillInRegister(b)
      PROVE  DInv'
  <2>1. PICK coins \in PartlyRegistered(utxo, b) : Restart(savedIndex, coins)
    BY <1>9 DEF KillInRegister
  <2>2. applied' = applied \cup {b} /\ UNCHANGED savedIndex /\ IsBlockValid(b)
    BY <1>9 DEF KillInRegister, MayRegister
  <2>3. Between(utxo, b, coins) /\ InsOf(b) \subseteq utxo \cup OutsOf(b)
    BY <2>1, <2>2, PartlyBetween, ValidIsSourced
  <2>. QED
    BY <1>1, <2>1, <2>2, <2>3, RestartKeeps
<1>10. CASE UNCHANGED restartVars
  BY <1>10 DEF restartVars, vars, diskVars, headerVars, storeVars, metaVars, chainVars,
               DInv, IndexBehindDisk, SpendsSourcedAcrossKills
<1>. QED
  BY <1>3, <1>4, <1>5, <1>6, <1>7, <1>8, <1>9, <1>10 DEF RestartNext

(* The inductive invariant about memory and disk holds in every reachable  *)
(* state, kills in the middle of a registration or a save included.        *)
THEOREM DInvCorrect == RestartSpec => []DInv
<1>1. RestartInit => DInv
  <2>. SUFFICES ASSUME RestartInit PROVE DInv
    OBVIOUS
  <2>1. InsOf(Genesis) = {}
    BY BlockAssumption
  <2>2. /\ fullBlockAvailable = {Genesis} /\ outputsRegistered = {Genesis}
        /\ utxo = OutsOf(Genesis) /\ blockFiles = {Genesis} /\ applied = {Genesis}
        /\ savedIndex.available = {Genesis} /\ savedIndex.registered = {Genesis}
    BY DEF RestartInit, StoreInit, InitStore, Fresh
  <2>3. IndexBehindDisk /\ SpendsSourcedAcrossKills
    BY <2>1, <2>2 DEF IndexBehindDisk, SpendsSourcedAcrossKills
  <2>. QED
    BY <2>2, <2>3 DEF DInv
<1>. QED
  BY <1>1, RestartStepInv, PTL DEF RestartSpec

(* However often the process is killed, between any two writes of a        *)
(* registration or of a save, no index calls a block available that has no *)
(* file, and no output of a block it calls registered is lost unless a     *)
(* block that was applied spends it (save_block_indices,                   *)
(* register_validated_block, load_block_indices).                          *)
THEOREM IndexBehindDiskCorrect == RestartSpec => []IndexBehindDisk
<1>1. DInv => IndexBehindDisk
  BY DEF DInv
<1>. QED
  BY <1>1, DInvCorrect, PTL

(* No block ever spends an output that no applied block created, although  *)
(* a kill may make the node apply a block twice (search_utxo).             *)
THEOREM SpendsSourcedCorrect == RestartSpec => []SpendsSourcedAcrossKills
<1>1. DInv => SpendsSourcedAcrossKills
  BY DEF DInv
<1>. QED
  BY <1>1, DInvCorrect, PTL

(* A stop and a start leave everything but the orphanage and the mode as   *)
(* it was: registering genesis again adds its own output and nothing else  *)
(* (terminate_execution, load_genesis, load_block_indices).                *)
THEOREM CleanRestartCorrect == RestartSpec => CleanRestartKeepsAll
<1>. DEFINE Kept == /\ UNCHANGED <<blockIndices, mainHeaderTip, metaVars, mainValidatedTip,
                                   blockFiles>>
                    /\ utxo' = utxo \cup OutsOf(Genesis)
<1>1. ASSUME DInv, StopAndRestart
      PROVE  Kept
  <2>1. /\ blockIndices' = blockIndices
        /\ mainHeaderTip' = mainHeaderTip
        /\ mainValidatedTip' = mainValidatedTip
        /\ fullBlockAvailable' = fullBlockAvailable
        /\ fullBlockValidated' = fullBlockValidated
        /\ outputsRegistered' = outputsRegistered
    BY <1>1 DEF StopAndRestart, Restart, Load, Snapshot
  <2>2. blockFiles' = blockFiles
    BY <1>1 DEF StopAndRestart, Restart, DInv
  <2>3. utxo' = utxo \cup OutsOf(Genesis)
    BY <1>1, GenesisIsAdded DEF StopAndRestart, Restart
  <2>. QED
    BY <2>1, <2>2, <2>3 DEF metaVars
<1>2. DInv => [StopAndRestart => Kept]_vars
  BY <1>1
<1>. QED
  BY <1>2, DInvCorrect, PTL DEF CleanRestartKeepsAll

=============================================================================
