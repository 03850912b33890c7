------------------------------- MODULE Ledger -------------------------------
(***************************************************************************)
(* The amounts of a chain of blocks (blockchain.c, is_normal_tx_valid,     *)
(* is_initial_tx_valid, register_validated_block): what a transaction      *)
(* takes in and gives out, the fees, the subsidy.                          *)
(*                                                                         *)
(* A transaction has an id (its hash, never used again), the outpoints it  *)
(* spends and the values it pays; the coinbase input is left out of ins,   *)
(* as the code skips it.  Scripts are module Script.                       *)
(***************************************************************************)
EXTENDS Integers, Sequences, SequencesExt, Functions, FiniteSetsExt

CONSTANTS
    Uint64,           \* values of a uint64_t
    InitialSubsidy,   \* COIN(50)
    HalvingPeriod,    \* 210000
    Payments,         \* values a transaction may pay
    MaxTxs            \* bound: transactions of all blocks

ASSUME LedgerAssumption ==
    /\ Uint64 \in Nat \ {0}
    /\ InitialSubsidy \in Nat
    /\ HalvingPeriod \in Nat \ {0}
    /\ MaxTxs \in Nat

VARIABLES
    coins,      \* the UTXO database: outpoint |-> value
    height,     \* of the last block
    lastId,     \* of the last transaction
    issued,     \* history: the subsidies so far
    respent,    \* history: value counted for more than one input of a block
    wrapped     \* history: value that sums of outputs lost beyond 64 bits

ledgerVars == <<coins, height, lastId, issued, respent, wrapped>>

-----------------------------------------------------------------------------
(* Sums, in a uint64_t; SumFunction is exact.                              *)

AddUint64(sum, value) == (sum + value) % Uint64
SumOf(values)         == FoldLeft(AddUint64, 0, values)

(* search_utxo: the database first, then the transactions before the       *)
(* limit.  None or one value.                                              *)
SearchUtxo(outpoint, txs, limit) ==
    IF outpoint \in DOMAIN coins THEN {coins[outpoint]}
    ELSE {txs[j].outs[outpoint[2]] :
            j \in {j \in 1 .. limit : txs[j].id = outpoint[1] /\ outpoint[2] \in DOMAIN txs[j].outs}}

SumOutputs(tx) == SumOf(tx.outs)

(* An input whose source is not found adds nothing.                        *)
ValueFound(found) == IF found = {} THEN 0 ELSE CHOOSE value \in found : TRUE

SumInputs(tx, txs, limit) ==
    SumOf([i \in DOMAIN tx.ins |-> ValueFound(SearchUtxo(tx.ins[i], txs, limit))])

ComputeTxResidue(txs, k) == (SumInputs(txs[k], txs, k - 1) - SumOutputs(txs[k])) % Uint64

(* Everything but the coinbase leaves its residue.                         *)
AggregateResidues(txs) ==
    SumOf([k \in 1 .. Len(txs) - 1 |-> ComputeTxResidue(txs, k + 1)])

CoinbaseSubsidy(h) == InitialSubsidy \div 2 ^ (h \div HalvingPeriod)

(* Mutant of IsNormalTxValid: only the total of the block is compared.     *)
IsNormalTxValidUnsummed(txs, k) ==
    \A i \in DOMAIN txs[k].ins : SearchUtxo(txs[k].ins[i], txs, k - 1) # {}

IsNormalTxValid(txs, k) ==
    /\ k = 1 \/ SumInputs(txs[k], txs, k - 1) >= SumOutputs(txs[k])
    /\ \A i \in DOMAIN txs[k].ins : SearchUtxo(txs[k].ins[i], txs, k - 1) # {}

IsInitialTxValid(txs, h) ==
    /\ IsNormalTxValid(txs, 1)
    /\ (SumInputs(txs[1], txs, 0) + CoinbaseSubsidy(h) + AggregateResidues(txs)) % Uint64
          >= SumOutputs(txs[1])

AllTxValid(txs, h) ==
    /\ IsInitialTxValid(txs, h)
    /\ \A k \in 2 .. Len(txs) : IsNormalTxValid(txs, k)

-----------------------------------------------------------------------------
(* Blocks.                                                                 *)

OutpointsOf(tx) == {tx.id} \X DOMAIN tx.outs

RegisterCoins(db, tx) ==
    LET saved == [o \in DOMAIN db \cup OutpointsOf(tx) |->
                    IF o \in OutpointsOf(tx) THEN tx.outs[o[2]] ELSE db[o]]
    IN  Restrict(saved, DOMAIN saved \ ToSet(tx.ins))

(* What the inputs of a block name more than once, as often as it is named *)
(* again.                                                                  *)
NamedBefore(txs, k, i) ==
    \/ \E j \in 1 .. k - 1 : txs[k].ins[i] \in ToSet(txs[j].ins)
    \/ \E m \in 1 .. i - 1 : txs[k].ins[i] = txs[k].ins[m]

AgainBy(txs, k) ==
    SumFunction([i \in DOMAIN txs[k].ins |->
             IF NamedBefore(txs, k, i)
             THEN ValueFound(SearchUtxo(txs[k].ins[i], txs, Len(txs))) ELSE 0])

NamedAgain(txs) == SumFunction([k \in DOMAIN txs |-> AgainBy(txs, k)])

WrappedOutputs(txs) ==
    SumFunction([k \in DOMAIN txs |-> SumFunction(txs[k].outs) - SumOutputs(txs[k])])

(* is_block_valid and register_validated_block.                            *)
ConnectBlock(txs) ==
    /\ AllTxValid(txs, height + 1)
    /\ coins' = FoldLeft(RegisterCoins, coins, txs)
    /\ height' = height + 1
    /\ lastId' = lastId + Len(txs)
    /\ issued' = issued + CoinbaseSubsidy(height + 1)
    /\ respent' = respent + NamedAgain(txs)
    /\ wrapped' = wrapped + WrappedOutputs(txs)

Id(k) == lastId + k

LedgerInit ==
    /\ coins = [o \in {<<1, 1>>} |-> CoinbaseSubsidy(0)]
    /\ height = 0
    /\ lastId = 1
    /\ issued = CoinbaseSubsidy(0)
    /\ respent = 0
    /\ wrapped = 0

(* Blocks peers send: any transactions that are legal, among them all that *)
(* pay values an int64_t holds and that are not negative, with ids of      *)
(* their own.                                                              *)
Values    == 0 .. Uint64 \div 2 - 1
Outpoints == Nat \X Nat

ASSUME PaymentsAssumption == Payments \subseteq Seq(Values)

Blocks ==
    {txs \in Seq([id : Nat, ins : Seq(Outpoints), outs : Seq(Values)]) :
        txs # << >> /\ \A k \in DOMAIN txs : txs[k].id = Id(k)}

LedgerNext == \E txs \in Blocks : ConnectBlock(txs)

LedgerSpec == LedgerInit /\ [][LedgerNext]_ledgerVars

-----------------------------------------------------------------------------
(* Blocks of a run.                                                        *)

(* What the next transaction of a block may name: anything in the          *)
(* database, what the transactions before it pay, and its own output,      *)
(* which no search finds.                                                  *)
Spendable(txs) ==
    DOMAIN coins \cup (UNION {OutpointsOf(txs[j]) : j \in DOMAIN txs})
      \cup {<<Id(Len(txs) + 1), 1>>}

(* Inputs are summed, so that their order is irrelevant.                   *)
Rank(outpoint) == 10 * outpoint[1] + outpoint[2]

InputLists(txs) ==
    {<<o>> : o \in Spendable(txs)}
      \cup {pair \in Spendable(txs) \X Spendable(txs) : Rank(pair[1]) <= Rank(pair[2])}

Extended(txs) ==
    IF Id(Len(txs) + 1) > MaxTxs THEN {} ELSE
    {Append(txs, [id |-> Id(Len(txs) + 1), outs |-> outs, ins |-> ins]) :
        outs \in Payments, ins \in IF txs = << >> THEN {<< >>} ELSE InputLists(txs)}

(* Up to two payments.                                                     *)
ReceiveBlock ==
    \E one \in Extended(<< >>) :
        \/ ConnectBlock(one)
        \/ \E two \in Extended(one) :
              \/ ConnectBlock(two)
              \/ \E three \in Extended(two) : ConnectBlock(three)

-----------------------------------------------------------------------------
(* Properties.                                                             *)

Worth(db) == SumFunction(db)

(* No money from nothing: what is unspent is never worth more than the     *)
(* subsidies so far, whatever fees flow through coinbases and whatever is  *)
(* spent in the block that creates it - unless two inputs of one block     *)
(* name the same output, which nothing in the code compares, or outputs of *)
(* a transaction add up to more than 64 bits, which nothing in it bounds   *)
(* (blockchain.c:104-222).                                                 *)
MoneyConserved == Worth(coins) <= issued + respent + wrapped

=============================================================================
