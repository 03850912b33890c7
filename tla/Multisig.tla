------------------------------ MODULE Multisig ------------------------------
(***************************************************************************)
(* The loop of OP_CHECKMULTISIG (script.c) that pairs signatures with      *)
(* public keys: one pass over the keys, in which each signature takes the  *)
(* first key that verifies it.                                             *)
(*                                                                         *)
(* Keys and signatures are numbered from 1 in the order in which they are  *)
(* popped; pki and si are those already behind the loop.  Verification is  *)
(* any relation: only whether check_signature returns 1 matters, an error  *)
(* counts as invalid.                                                      *)
(***************************************************************************)
EXTENDS Integers

CONSTANTS MaxKeys, MaxSignatures

(* pki and si are int8_t, so a count of more than 127 is never reached.    *)
ASSUME CountsAssumption == MaxKeys \in 0 .. 127 /\ MaxSignatures \in 0 .. 127

VARIABLES
    publicKeyCount,
    signatureCount,
    valid,   \* <<signature, key>>: the key verifies the signature
    pki,
    si,
    result   \* "none" until the loop is left

pairingVars == <<publicKeyCount, signatureCount, valid, pki, si, result>>

Keys       == 1 .. publicKeyCount
Signatures == 1 .. signatureCount

-----------------------------------------------------------------------------
(* Popped off the stack; without a signature the result is true.           *)
PairingInit ==
    /\ publicKeyCount \in 0 .. MaxKeys
    /\ signatureCount \in 0 .. MaxSignatures
    /\ valid \in SUBSET (Signatures \X Keys)
    /\ pki = 0
    /\ si = 0
    /\ result = IF signatureCount = 0 THEN "true" ELSE "none"

Checked == <<si + 1, pki + 1>>

Looping == result = "none" /\ pki < publicKeyCount /\ si < signatureCount

(* Keys or signatures are used up.                                         *)
GiveUp ==
    /\ result = "none"
    /\ pki >= publicKeyCount \/ si >= signatureCount
    /\ result' = "false"
    /\ UNCHANGED <<publicKeyCount, signatureCount, valid, pki, si>>

PairLast ==
    /\ Looping
    /\ Checked \in valid
    /\ si + 1 = signatureCount
    /\ result' = "true"
    /\ UNCHANGED <<publicKeyCount, signatureCount, valid, pki, si>>

(* Mutant of Pair: the key stays, for the next signature.                  *)
PairWithoutKey ==
    /\ Looping
    /\ Checked \in valid
    /\ si + 1 # signatureCount
    /\ si' = si + 1
    /\ UNCHANGED <<publicKeyCount, signatureCount, valid, pki, result>>

Pair ==
    /\ Looping
    /\ Checked \in valid
    /\ si + 1 # signatureCount
    /\ pki' = pki + 1
    /\ si' = si + 1
    /\ UNCHANGED <<publicKeyCount, signatureCount, valid, result>>

SkipKey ==
    /\ Looping
    /\ Checked \notin valid
    /\ pki' = pki + 1
    /\ UNCHANGED <<publicKeyCount, signatureCount, valid, si, result>>

PairingNext == GiveUp \/ PairLast \/ Pair \/ SkipKey

PairingSpec == PairingInit /\ [][PairingNext]_pairingVars

-----------------------------------------------------------------------------
(* Properties.                                                             *)

PairingTypeOK ==
    /\ publicKeyCount \in 0 .. MaxKeys
    /\ signatureCount \in 0 .. MaxSignatures
    /\ valid \subseteq Signatures \X Keys
    /\ pki \in 0 .. publicKeyCount
    /\ si \in 0 .. signatureCount
    /\ result \in {"none", "true", "false"}

(* f pairs the first n signatures with keys that verify them, in order,    *)
(* among the first m.                                                      *)
IsPairing(f, n, m) ==
    /\ f \in [1 .. n -> 1 .. m]
    /\ \A i \in 1 .. n : <<i, f[i]>> \in valid
    /\ \A i, j \in 1 .. n : i < j => f[i] < f[j]

Pairings == {f \in [Signatures -> Keys] : IsPairing(f, signatureCount, publicKeyCount)}

(* Taking the first key that verifies is never wrong: the loop says true   *)
(* exactly if there is some way to pair all signatures with keys in order, *)
(* no signature included (script.c:1036-1067).                             *)
ResultIsPairing ==
    /\ result = "true" => Pairings # {}
    /\ result = "false" => Pairings = {}

(* What makes it so: the signatures paired so far have their keys, and in  *)
(* every pairing of all, the others have keys the loop has not passed.     *)
GreedyInv ==
    /\ PairingTypeOK
    /\ result = "none" =>
          /\ si < signatureCount
          /\ \E f \in [1 .. si -> 1 .. pki] : IsPairing(f, si, pki)
          /\ \A g \in Pairings : \A i \in Signatures : i > si => g[i] > pki
    /\ ResultIsPairing

=============================================================================
