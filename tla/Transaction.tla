---------------------------- MODULE Transaction ----------------------------
(***************************************************************************)
(* Transactions and blocks as bytes and as structures (messages/tx.c,      *)
(* messages/block.c, messages/shared.c): serializing, parsing, the merkle  *)
(* root, and what makes them legal.                                        *)
(*                                                                         *)
(* A buffer is a sequence of cells.  A field of fixed width is one cell;   *)
(* a varint is a cell per byte, which is what the peek at the witness      *)
(* marker looks at.  Hashes are symbolic: the hash of something is that    *)
(* something.                                                              *)
(***************************************************************************)
EXTENDS Integers, Sequences, SequencesExt

CONSTANTS
    Radix,            \* values of a byte
    NoIndex,          \* UINT32_MAX, as the index of an outpoint
    ScriptSigSizes,   \* lengths of the script of a coinbase
    Now,              \* time(NULL)
    MaxForward        \* mainnet.blockMaxForwardTimestamp

ASSUME TransactionAssumption ==
    /\ Radix \in Nat /\ Radix >= 4 /\ Radix % 2 = 0
    /\ NoIndex \in Nat \ {0}
    /\ ScriptSigSizes \subseteq Nat \ {0}
    /\ Now \in Nat /\ MaxForward \in Nat

-----------------------------------------------------------------------------
(* Variable length integers (shared.c, integers.c).                        *)

Prefix16 == Radix - 3
Prefix32 == Radix - 2
Prefix64 == Radix - 1

(* What one counts that has k bytes below it.                              *)
Place[k \in Nat] == IF k = 0 THEN 1 ELSE Radix * Place[k - 1]

LittleEndian(n, width) == [k \in 1 .. width |-> (n \div Place[k - 1]) % Radix]

SerializeToVarint(n) ==
    CASE n < Prefix16                        -> <<n>>
      [] n >= Prefix16 /\ n < Place[2]       -> <<Prefix16>> \o LittleEndian(n, 2)
      [] n >= Place[2] /\ n < Place[4]       -> <<Prefix32>> \o LittleEndian(n, 4)
      [] OTHER                               -> <<Prefix64>> \o LittleEndian(n, 8)

(* What is left of a buffer; behind its end there are zeros (load_block    *)
(* reads into a cleared buffer).                                           *)
Cells(p, n) == [k \in 1 .. n |-> IF k <= Len(p) THEN p[k] ELSE 0]
Cell(p)     == Cells(p, 1)[1]
Rest(p, n)  == SubSeq(p, n + 1, Len(p))

Combine(bytes) ==
    FoldLeft(LAMBDA sum, part : sum + part, 0, [k \in DOMAIN bytes |-> bytes[k] * Place[k - 1]])

(* combine_uint64 shifts its fourth byte as an int: with its top bit set   *)
(* the sum is short by 2^32.                                               *)
Combine64(bytes) ==
    (Combine(bytes) - (IF bytes[4] >= Radix \div 2 THEN Place[4] ELSE 0)) % Place[8]

VarintWidth(first) ==
    CASE first = Prefix16 -> 2
      [] first = Prefix32 -> 4
      [] first = Prefix64 -> 8
      [] OTHER            -> 0

ParseVarint(p) ==
    LET width == VarintWidth(Cell(p))
        bytes == Cells(Rest(p, 1), width)
    IN  [item |-> CASE width = 0 -> Cell(p)
                    [] width = 8 -> Combine64(bytes)
                    [] OTHER     -> Combine(bytes),
         rest |-> Rest(p, 1 + width)]

(* A list of n items, one behind the other.                                *)
ParseItems(Parse(_), p, n) ==
    FoldLeft(LAMBDA list, k : LET next == Parse(list.rest)
                              IN  [item |-> Append(list.item, next.item), rest |-> next.rest],
             [item |-> << >>, rest |-> p],
             [k \in 1 .. n |-> k])

ParseList(Parse(_), p) ==
    LET count == ParseVarint(p) IN ParseItems(Parse, count.rest, count.item)

SerializeList(Serialize(_), items) ==
    SerializeToVarint(Len(items)) \o FlattenSeq([k \in DOMAIN items |-> Serialize(items[k])])

-----------------------------------------------------------------------------
(* Transactions (tx.c).  previous_output is <<txHash, index>>; marker is   *)
(* always 0, so flag alone says whether there are witnesses, one for each  *)
(* input.                                                                  *)

SerializeScript(script) == SerializeToVarint(Len(script)) \o script

ParseScript(p) ==
    LET length == ParseVarint(p)
    IN  [item |-> Cells(length.rest, length.item), rest |-> Rest(length.rest, length.item)]

SerializeTxIn(in) ==
    in.previous_output \o SerializeScript(in.signature_script) \o <<in.sequence>>

ParseTxIn(p) ==
    LET script == ParseScript(Rest(p, 2))
    IN  [item |-> [previous_output  |-> Cells(p, 2),
                   signature_script |-> script.item,
                   sequence         |-> Cell(script.rest)],
         rest |-> Rest(script.rest, 1)]

SerializeTxOut(out) == <<out.value>> \o SerializeScript(out.public_key_script)

ParseTxOut(p) ==
    LET script == ParseScript(Rest(p, 1))
    IN  [item |-> [value |-> Cell(p), public_key_script |-> script.item],
         rest |-> script.rest]

TxType ==
    [version     : Nat,
     flag        : {0, 1},
     txInputs    : Seq([previous_output : Nat \X Nat, signature_script : Seq(Nat), sequence : Nat]),
     txOutputs   : Seq([value : Int, public_key_script : Seq(Nat)]),
     txWitnesses : Seq(Seq(Nat)),
     lockTime    : Nat]

HasWitness(tx) == tx.flag = 1

WitnessesFit(tx) == Len(tx.txWitnesses) = IF HasWitness(tx) THEN Len(tx.txInputs) ELSE 0

SerializeTx(tx) ==
    <<tx.version>>
      \o (IF HasWitness(tx) THEN <<0, 1>> ELSE << >>)
      \o SerializeList(SerializeTxIn, tx.txInputs)
      \o SerializeList(SerializeTxOut, tx.txOutputs)
      \o (IF HasWitness(tx)
          THEN FlattenSeq([k \in DOMAIN tx.txInputs |-> SerializeScript(tx.txWitnesses[k])])
          ELSE << >>)
      \o <<tx.lockTime>>

(* The two bytes behind the version are the bits, or the first of the      *)
(* count of inputs and whatever follows.                                   *)
ParseTx(p) ==
    LET segwit  == Cells(Rest(p, 1), 2) = <<0, 1>>
        ins     == ParseList(ParseTxIn, Rest(p, IF segwit THEN 3 ELSE 1))
        outs    == ParseList(ParseTxOut, ins.rest)
        witness == ParseItems(ParseScript, outs.rest, IF segwit THEN Len(ins.item) ELSE 0)
    IN  [item |-> [version     |-> Cell(p),
                   flag        |-> IF segwit THEN 1 ELSE 0,
                   txInputs    |-> ins.item,
                   txOutputs   |-> outs.item,
                   txWitnesses |-> witness.item,
                   lockTime    |-> Cell(witness.rest)],
         rest |-> Rest(witness.rest, 1)]

IsOutpointEmpty(outpoint) == outpoint = <<0, NoIndex>>

IsCoinbase(in) == IsOutpointEmpty(in.previous_output)

IsTxLegal(tx) ==
    /\ tx.txInputs # << >>
    /\ tx.txOutputs # << >>
    /\ \A k \in DOMAIN tx.txOutputs : tx.txOutputs[k].value >= 0
    /\ \A k \in DOMAIN tx.txInputs :
          IsCoinbase(tx.txInputs[k]) => Len(tx.txInputs[k].signature_script) \in ScriptSigSizes

-----------------------------------------------------------------------------
(* The merkle root.                                                        *)

(* hash_tx: over everything, witnesses included.                           *)
HashTx(tx) == SerializeTx(tx)

(* Mutant of HashPairs: the last of an odd number goes up as it is.        *)
HashPairsOddUp(hashes) ==
    [k \in 1 .. (Len(hashes) + 1) \div 2 |->
        IF 2 * k <= Len(hashes) THEN <<hashes[2 * k - 1], hashes[2 * k]>>
        ELSE hashes[2 * k - 1]]

(* One pass over the list of hashes: each node takes in the one behind it, *)
(* which leaves the list; the last of an odd number is taken twice.        *)
HashPairs(hashes) ==
    [k \in 1 .. (Len(hashes) + 1) \div 2 |->
        <<hashes[2 * k - 1], hashes[IF 2 * k <= Len(hashes) THEN 2 * k ELSE 2 * k - 1]>>]

EmptyHash == << >>

(* Passes until one hash remains; without any the result stays zero.       *)
ComputeMerkleRoot(txs) ==
    LET pass[n \in Nat] ==
            IF n = 0 THEN [k \in DOMAIN txs |-> HashTx(txs[k])]
            ELSE LET hashes == pass[n - 1]
                 IN  IF Len(hashes) <= 1 THEN hashes ELSE HashPairs(hashes)
        last == pass[Len(txs)]
    IN  IF last = << >> THEN EmptyHash ELSE last[1]

-----------------------------------------------------------------------------
(* Blocks (block.c).  A header is legal work if its nonce is 1.            *)

SerializeHeader(header) ==
    <<header.prev_block, header.merkle_root, header.timestamp, header.nonce>>

SerializeBlock(block) ==
    SerializeHeader(block.header) \o SerializeList(SerializeTx, block.txs)

ParseHeader(p) ==
    [prev_block  |-> Cell(p),
     merkle_root |-> IF Len(p) >= 2 THEN p[2] ELSE EmptyHash,
     timestamp   |-> Cell(Rest(p, 2)),
     nonce       |-> Cell(Rest(p, 3))]

ParseBlock(p) ==
    [header |-> ParseHeader(p), txs |-> ParseList(ParseTx, Rest(p, 4)).item]

HashSatisfiesTarget(header) == header.nonce = 1

OnlyOneCoinbase(txs) ==
    \A k \in DOMAIN txs : \A i \in DOMAIN txs[k].txInputs :
        <<k, i>> # <<1, 1>> => ~ IsCoinbase(txs[k].txInputs[i])

(* Of a first transaction without inputs the code reads what lies behind   *)
(* them; the block is not legal whatever that is.                          *)
IsBlockLegal(block) ==
    /\ block.txs # << >>
    /\ block.header.timestamp - Now < MaxForward
    /\ block.txs[1].txInputs # << >> /\ IsCoinbase(block.txs[1].txInputs[1])
    /\ OnlyOneCoinbase(block.txs)
    /\ \A k \in DOMAIN block.txs : IsTxLegal(block.txs[k])
    /\ HashSatisfiesTarget(block.header)
    /\ ComputeMerkleRoot(block.txs) = block.header.merkle_root

=============================================================================
