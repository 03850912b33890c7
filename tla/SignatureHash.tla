--------------------------- MODULE SignatureHash ---------------------------
(***************************************************************************)
(* What a signature signs (script.c, form_subscript, make_tx_copy,         *)
(* polish_tx_copy, hash_tx_with_hashtype): a transaction is copied and     *)
(* polished as the type of the signature says, serialized and hashed.      *)
(*                                                                         *)
(* A signature is made, and then the transaction is changed, by those who  *)
(* add to it or by anybody it passes through.                              *)
(***************************************************************************)
EXTENDS Transaction

CONSTANTS
    TxsSigned,        \* transactions, with a program for each input
    Hashtypes,        \* types of signatures: the last byte of each
    MaxAlterations    \* bound: changes after the signature

VARIABLES
    currentTx,
    program,       \* frames of the script that is run for our input
    checksig,      \* in it, the frame of the op that checks
    useAllScript,  \* OP_CHECKSIG, and not OP_CHECKMULTISIG
    inputIndex,    \* our input
    hashtype,
    signed,        \* history: what was hashed when the signature was made
    committed,     \* history: what the signature was meant to fix
    alterations    \* changes since then

signatureVars ==
    <<currentTx, program, checksig, useAllScript, inputIndex, hashtype, signed, committed, alterations>>

(* The least five bits say which outputs are signed; 128 says that other   *)
(* inputs are not.                                                         *)
SIGHASH_NONE   == 2
SIGHASH_SINGLE == 3
MaskHashtype(type) == type % 32
AnyoneCanPay(type) == type >= 128

-----------------------------------------------------------------------------
(* A frame is the bytes it was loaded from.  find_op_frame stops before    *)
(* frame 0, here 1.                                                        *)
Separator == << >>

(* The script from behind the last separator before the op, to the end of  *)
(* the program or to the op itself.                                        *)
FormSubscript(frames, op, all) ==
    LET separators == {k \in 2 .. op : frames[k] = Separator}
        start == CHOOSE k \in separators : \A j \in separators : j <= k
    IN  IF separators = {} THEN << >>
        ELSE FlattenSeq(SubSeq(frames, start + 1, IF all THEN Len(frames) ELSE op))

(* Scripts are cleared, except that our input has the subscript.           *)
MakeTxCopy(original, i, subscript) ==
    [original EXCEPT !.txInputs =
        [k \in DOMAIN original.txInputs |->
            [original.txInputs[k] EXCEPT !.signature_script =
                IF k = i THEN subscript ELSE << >>]]]

OthersUnsequenced(ins, i) ==
    [k \in DOMAIN ins |-> IF k = i THEN ins[k] ELSE [ins[k] EXCEPT !.sequence = 0]]

(* Mutant of PolishOutputs: the sequences of other inputs are left alone.  *)
PolishOutputsSequenced(copy, type, i) ==
    CASE MaskHashtype(type) = SIGHASH_NONE -> [copy EXCEPT !.txOutputs = << >>]
      [] MaskHashtype(type) = SIGHASH_SINGLE ->
            [copy EXCEPT !.txOutputs =
                [k \in 1 .. i |-> IF k = i THEN copy.txOutputs[k]
                                  ELSE [value |-> -1, public_key_script |-> << >>]]]
      [] OTHER -> copy

PolishOutputs(copy, type, i) ==
    CASE MaskHashtype(type) = SIGHASH_NONE ->
            [copy EXCEPT !.txOutputs = << >>,
                         !.txInputs = OthersUnsequenced(copy.txInputs, i)]
      [] MaskHashtype(type) = SIGHASH_SINGLE ->
            [copy EXCEPT !.txOutputs =
                [k \in 1 .. i |-> IF k = i THEN copy.txOutputs[k]
                                  ELSE [value |-> -1, public_key_script |-> << >>]],
                         !.txInputs = OthersUnsequenced(copy.txInputs, i)]
      [] OTHER -> copy

(* The witnesses stay: the first of them goes with our input, whichever    *)
(* input that was.                                                         *)
PolishTxCopy(copy, type, i) ==
    LET polished == PolishOutputs(copy, type, i)
    IN  IF AnyoneCanPay(type)
        THEN [polished EXCEPT !.txInputs = <<polished.txInputs[i]>>]
        ELSE polished

(* The hash of a SINGLE without its output is the number 1.                *)
One == <<1>>

HashTxWithHashtype(copy, type, i) ==
    IF MaskHashtype(type) = SIGHASH_SINGLE
         /\ Len(copy.txInputs) > Len(copy.txOutputs) /\ i > Len(copy.txOutputs)
    THEN One
    ELSE Append(SerializeTx(PolishTxCopy(copy, type, i)), type)

(* What check_signature compares the signature with.                       *)
HashToCheck(t, i) ==
    HashTxWithHashtype(
        MakeTxCopy(t, i, FormSubscript(program, checksig, useAllScript)), hashtype, i)

-----------------------------------------------------------------------------
(* What a type of signature is there to fix, and nothing else.             *)
Commitment(t, i) ==
    LET all    == MaskHashtype(hashtype) \notin {SIGHASH_NONE, SIGHASH_SINGLE}
        single == MaskHashtype(hashtype) = SIGHASH_SINGLE
        alone  == AnyoneCanPay(hashtype)
    IN  IF single /\ i > Len(t.txOutputs) THEN [kind |-> "one"]
        ELSE [kind      |-> "parts",
              fixed     |-> <<t.version, t.lockTime, t.flag>>,
              own       |-> <<t.txInputs[i].previous_output, t.txInputs[i].sequence>>,
              inputs    |-> IF alone THEN << >>
                            ELSE [k \in DOMAIN t.txInputs |-> t.txInputs[k].previous_output],
              position  |-> IF alone /\ ~ single THEN 0 ELSE i,
              sequences |-> IF alone \/ ~ all THEN << >>
                            ELSE [k \in DOMAIN t.txInputs |-> t.txInputs[k].sequence],
              outputs   |-> CASE all    -> t.txOutputs
                              [] single -> <<t.txOutputs[i]>>
                              [] OTHER  -> << >>,
              witnesses |-> IF alone /\ t.flag = 1 THEN <<t.txWitnesses[1]>>
                            ELSE t.txWitnesses]

-----------------------------------------------------------------------------
SignatureInit ==
    /\ \E s \in TxsSigned :
          /\ currentTx = s.tx
          /\ program = s.program
          /\ checksig = s.checksig
          /\ useAllScript = s.useAllScript
    /\ inputIndex \in DOMAIN currentTx.txInputs
    /\ hashtype \in Hashtypes
    /\ signed = HashToCheck(currentTx, inputIndex)
    /\ committed = Commitment(currentTx, inputIndex)
    /\ alterations = 0

Alter(t, i) ==
    /\ alterations < MaxAlterations
    /\ alterations' = alterations + 1
    /\ currentTx' = t
    /\ inputIndex' = i
    /\ UNCHANGED <<program, checksig, useAllScript, hashtype, signed, committed>>

AlterInput ==
    \E k \in DOMAIN currentTx.txInputs :
        \/ Alter([currentTx EXCEPT !.txInputs[k].sequence = 1 - @], inputIndex)
        \/ Alter([currentTx EXCEPT !.txInputs[k].signature_script = Append(@, 2)], inputIndex)
        \/ Alter([currentTx EXCEPT !.txInputs[k].previous_output[2] = 1 - @], inputIndex)

AlterOutput ==
    \E k \in DOMAIN currentTx.txOutputs :
        \/ Alter([currentTx EXCEPT !.txOutputs[k].value = @ + 1], inputIndex)
        \/ Alter([currentTx EXCEPT !.txOutputs[k].public_key_script = Append(@, 0)], inputIndex)

AlterRest ==
    \/ Alter([currentTx EXCEPT !.version = @ + 1], inputIndex)
    \/ Alter([currentTx EXCEPT !.lockTime = @ + 1], inputIndex)
    \/ \E k \in DOMAIN currentTx.txWitnesses :
          Alter([currentTx EXCEPT !.txWitnesses[k] = Append(@, 0)], inputIndex)

(* An input or output is taken out, or doubled, at any place.              *)
AlterInputs ==
    /\ currentTx.flag = 0
    /\ \E k \in DOMAIN currentTx.txInputs :
        \/ /\ k # inputIndex
           /\ Alter([currentTx EXCEPT !.txInputs = RemoveAt(@, k)],
                    IF k < inputIndex THEN inputIndex - 1 ELSE inputIndex)
        \/ Alter([currentTx EXCEPT !.txInputs = InsertAt(@, k, currentTx.txInputs[k])],
                 IF k <= inputIndex THEN inputIndex + 1 ELSE inputIndex)

AlterOutputs ==
    \E k \in DOMAIN currentTx.txOutputs :
        \/ Alter([currentTx EXCEPT !.txOutputs = RemoveAt(@, k)], inputIndex)
        \/ Alter([currentTx EXCEPT !.txOutputs = InsertAt(@, k, currentTx.txOutputs[k])], inputIndex)

-----------------------------------------------------------------------------
(* Properties.                                                             *)

(* After any changes a signature still fits exactly if what its type is    *)
(* there to fix is as it was: neither more is signed nor less, over the    *)
(* clearing of scripts, the cutting of outputs, the place of the input and *)
(* the ambiguities of a serialization without its parts                    *)
(* (script.c:59-80, 380-395, 506-538, 755-775).                            *)
SignsWhatItCommitsTo ==
    HashToCheck(currentTx, inputIndex) = signed <=> Commitment(currentTx, inputIndex) = committed

=============================================================================
