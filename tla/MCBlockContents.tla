-------------------------- MODULE MCBlockContents --------------------------
(* What blocks hold: the file of a block, what is signed, amounts,         *)
(* targets, scripts that compute, scripts that branch, and signatures      *)
(* paired with keys.  One of them is chosen at the start, with its inputs. *)
EXTENDS BlockFile, SignatureHash, Ledger, Retarget, Script, Multisig

-----------------------------------------------------------------------------
(* Transactions of every shape the parsers branch on: scripts whose length *)
(* takes one, three and five bytes, witnesses, nothing but zeros at the    *)
(* end, no inputs, no outputs, a negative value.                           *)
Zeros(n) == [k \in 1 .. n |-> 0]

In(prev, script) == [previous_output |-> prev, signature_script |-> script, sequence |-> 1]
Out(value, script) == [value |-> value, public_key_script |-> script]

CoinbaseIn == In(<<0, NoIndex>>, <<1, 2>>)
FirstIn    == In(<<3, 0>>, <<4>>)
SecondIn   == In(<<3, 1>>, Zeros(Prefix16))

Tx(ins, outs) ==
    [version |-> 1, flag |-> 0, txInputs |-> ins, txOutputs |-> outs,
     txWitnesses |-> << >>, lockTime |-> 0]

Witnessed(tx, items) == [tx EXCEPT !.flag = 1, !.txWitnesses = items]

CoinbaseTx == Tx(<<CoinbaseIn>>, <<Out(5, <<2>>)>>)

FirstTxs ==
    {CoinbaseTx,
     Witnessed(CoinbaseTx, <<Zeros(1)>>),
     Tx(<<CoinbaseIn, FirstIn>>, <<Out(5, << >>), Out(0, << >>)>>),
     Tx(<<In(<<0, NoIndex>>, <<1>>)>>, <<Out(5, << >>)>>),
     Tx(<<FirstIn>>, <<Out(1, << >>)>>)}

OtherTxs ==
    {Tx(<<FirstIn>>, <<Out(1, <<2>>), Out(0, << >>)>>),
     Tx(<<FirstIn, SecondIn>>, <<Out(0, Zeros(1))>>),
     Witnessed(Tx(<<FirstIn, SecondIn>>, <<Out(1, << >>)>>), <<Zeros(2), <<7>>>>),
     Tx(<<FirstIn>>, <<Out(1, Zeros(Radix ^ 2))>>),
     Tx(<<FirstIn, CoinbaseIn>>, <<Out(1, << >>)>>),
     Tx(<< >>, <<Out(1, << >>)>>),
     Tx(<<FirstIn>>, << >>),
     Tx(<<FirstIn>>, <<Out(-1, << >>)>>)}

(* Up to three of them, or a longer list that differs in its lock times.   *)
TxLists ==
    {<<tx>> : tx \in FirstTxs}
      \cup FirstTxs \X OtherTxs
      \cup {CoinbaseTx} \X OtherTxs \X OtherTxs
      \cup {<<CoinbaseTx>> \o [k \in 1 .. n |->
                [Tx(<<FirstIn>>, <<Out(1, << >>)>>) EXCEPT !.lockTime = k]] : n \in 3 .. 6}

MCBlocksReceived ==
    {[header |-> [prev_block |-> 8, merkle_root |-> ComputeMerkleRoot(txs),
                  timestamp |-> Now, nonce |-> 1],
      txs |-> txs] : txs \in TxLists}
      \cup {[header |-> [prev_block |-> 8, merkle_root |-> root,
                         timestamp |-> time, nonce |-> nonce],
             txs |-> <<CoinbaseTx>>] :
             root \in {EmptyHash, ComputeMerkleRoot(<<CoinbaseTx>>)},
             time \in {0, Now + MaxForward}, nonce \in {0, 1}}

-----------------------------------------------------------------------------
(* Every number of inputs with every number of outputs, up to a third      *)
(* output that only a single input lacks, with and without witnesses.      *)
OwnIn(k)  == In(<<k, 0>>, <<1>>)
OwnOut(k) == Out(k, <<2>>)

TxsToSign ==
    {Tx([k \in 1 .. ins |-> OwnIn(k)], [k \in 1 .. outs |-> OwnOut(k)]) :
        ins \in 1 .. 3, outs \in 0 .. 2}
      \cup {Witnessed(Tx(<<OwnIn(1), OwnIn(2)>>, <<OwnOut(1)>>), <<<<1>>, <<1, 1>>>>)}

(* A signature, the separator, and a script that checks with OP_CHECKSIG,  *)
(* or that has a frame behind its OP_CHECKMULTISIG, or a separator of its  *)
(* own.                                                                    *)
MCTxsSigned ==
    {[tx |-> t, program |-> s.program, checksig |-> s.checksig, useAllScript |-> s.all] :
        t \in TxsToSign,
        s \in {[program |-> <<<<6>>, Separator, <<7>>, <<3>>>>, checksig |-> 4, all |-> TRUE],
               [program |-> <<<<6>>, Separator, <<7>>, <<4>>, <<5>>>>, checksig |-> 4,
                all |-> FALSE],
               [program |-> <<<<6>>, Separator, <<7>>, Separator, <<3>>, <<5>>>>, checksig |-> 5,
                all |-> TRUE]}}

-----------------------------------------------------------------------------
(* Values of outputs: among them more than most inputs have, and a sum     *)
(* that wraps to one.                                                      *)
MCPayments == {<<2>>, <<4>>, <<1, 3>>, <<7>>, <<7, 7, 3>>}

-----------------------------------------------------------------------------
(* Targets from the smallest with three bytes to the ceiling, and shorter  *)
(* ones.                                                                   *)
MCGenesisTarget == [size |-> 5, mantissa |-> 15]

MCTargets ==
    {[size |-> size, mantissa |-> mantissa] :
        size \in 3 .. 4, mantissa \in {2, 3, 7, 8, 15, 16, 21, 31}}
      \cup {[size |-> 5, mantissa |-> mantissa] : mantissa \in {2, 3, 7, 8, 15}}
      \cup {[size |-> size, mantissa |-> mantissa] : size \in 0 .. 2, mantissa \in {0, 4, 20, 28}}

MCTimes == {0, 1, 3, 7, 8, 9, 31, 33, 34, 60, 128, 200, 224, 231, 240, 247, 250, 254, 255}

-----------------------------------------------------------------------------
(* Frames of programs that compute, and of programs that branch.           *)

(* 120 + 120 needs a byte of zeros for its sign.                           *)
NumberFrames ==
    {Data(<<120>>), Number(2)}
      \cup {Op(name) : name \in
              {"OP_1NEGATE", "OP_DEPTH", "OP_1ADD", "OP_1SUB", "OP_NEGATE", "OP_ABS",
               "OP_ADD", "OP_SUB", "OP_BOOLAND", "OP_BOOLOR", "OP_NUMEQUAL",
               "OP_LESSTHAN", "OP_GREATERTHAN", "OP_WITHIN", "OP_NOT",
               "OP_DUP", "OP_2DUP", "OP_SWAP", "OP_ROT", "OP_TUCK", "OP_NIP",
               "OP_DROP", "OP_PICK", "OP_ROLL", "OP_TOALTSTACK", "OP_FROMALTSTACK"}}

BranchFrames ==
    {Data(<< >>), Number(1)}
      \cup {Op(name) : name \in
              {"OP_NOP", "OP_IF", "OP_NOTIF", "OP_ELSE", "OP_ENDIF", "OP_VERIFY",
               "OP_EQUALVERIFY", "OP_HASH160", "OP_CHECKSIG", "OP_CHECKSIGVERIFY",
               "OP_CHECKMULTISIG", "OP_RETURN", "OP_EQUAL", "OP_SIZE", "OP_MIN"}}

AllFrames == NumberFrames \cup BranchFrames

CONSTANT MaxNumberLength   \* bound: frames of a program that computes

(* A hash, cut short.                                                      *)
MCDigest == <<1, 2>>

-----------------------------------------------------------------------------
VARIABLE question

SomeBlock  == CHOOSE b \in BlocksReceived : TRUE
SomeTarget == CHOOSE t \in Targets : TRUE

NoFile ==
    /\ block = SomeBlock
    /\ file = {}
    /\ loaded = NothingLoaded

NoSignature ==
    /\ currentTx = CoinbaseTx
    /\ program = <<<<6>>, Separator, <<3>>>>
    /\ checksig = 3
    /\ useAllScript = TRUE
    /\ inputIndex = 1
    /\ hashtype = 1
    /\ signed = HashToCheck(currentTx, inputIndex)
    /\ committed = Commitment(currentTx, inputIndex)
    /\ alterations = 0

NoRetarget ==
    /\ target = SomeTarget
    /\ startTime = 0
    /\ endTime = 0
    /\ maximalTarget = {}

NoPairing ==
    /\ publicKeyCount = 0
    /\ signatureCount = 0
    /\ valid = {}
    /\ pki = 0
    /\ si = 0
    /\ result = "true"

MCInit ==
    /\ question \in {"file", "signature", "ledger", "target", "computing", "branching", "pairing"}
    /\ IF question = "file" THEN BlockFileInit ELSE NoFile
    /\ IF question = "signature" THEN SignatureInit ELSE NoSignature
    /\ LedgerInit
    /\ IF question = "target" THEN RetargetInit ELSE NoRetarget
    /\ Init
    /\ IF question = "pairing" THEN PairingInit ELSE NoPairing

Files ==
    /\ question = "file"
    /\ BlockFileNext
    /\ UNCHANGED <<question, signatureVars, ledgerVars, retargetVars, vars, pairingVars>>

SignedTransactions ==
    /\ question = "signature"
    /\ \/ AlterInput
       \/ AlterOutput
       \/ AlterRest
       \/ AlterInputs
       \/ AlterOutputs
    /\ UNCHANGED <<question, fileVars, ledgerVars, retargetVars, vars, pairingVars>>

Amounts ==
    /\ question = "ledger"
    /\ ReceiveBlock
    /\ UNCHANGED <<question, fileVars, signatureVars, retargetVars, vars, pairingVars>>

Retargeting ==
    /\ question = "target"
    /\ GetMaximalTarget
    /\ UNCHANGED <<question, fileVars, signatureVars, ledgerVars, vars, pairingVars>>

(* Once NumbersExact has nothing to say of it a program that computes is   *)
(* not followed any more.                                                  *)
Programs ==
    /\ \/ /\ question = "computing"
          /\ numbers.ok
          /\ length < MaxNumberLength
          /\ \E f \in NumberFrames : Step(f)
       \/ /\ question = "branching"
          /\ \E f \in BranchFrames : Step(f)
       \/ /\ question \in {"computing", "branching"}
          /\ End
    /\ UNCHANGED <<question, fileVars, signatureVars, ledgerVars, retargetVars, pairingVars>>

PairedKeys ==
    /\ question = "pairing"
    /\ PairingNext
    /\ UNCHANGED <<question, fileVars, signatureVars, ledgerVars, retargetVars, vars>>

MCNext ==
    \/ Files
    \/ SignedTransactions
    \/ Amounts
    \/ Retargeting
    \/ Programs
    \/ PairedKeys

MCSpec ==
    MCInit /\ [][MCNext]_<<question, fileVars, signatureVars, ledgerVars, retargetVars,
                           vars, pairingVars>>

=============================================================================
