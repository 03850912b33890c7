------------------------------ MODULE Retarget ------------------------------
(***************************************************************************)
(* The target of the first block of a retarget period (blockchain.c,       *)
(* get_maximal_target from line 399, and the conversions of targets).      *)
(*                                                                         *)
(* A compact target is a size and the three leading bytes of a number of   *)
(* that size.  The doubles of the code are exact here, or infinite.        *)
(***************************************************************************)
EXTENDS Integers

CONSTANTS
    Base,            \* values of a byte
    Uint32,          \* values of a uint32_t
    DesiredPeriod,   \* mainnet.desiredRetargetPeriod
    RetargetBound,   \* mainnet.retargetBound
    GenesisTarget,   \* of the genesis block, the ceiling
    Targets,         \* of the last block of the period
    Times            \* timestamps

VARIABLES
    target,            \* of the last block of the period
    startTime, endTime,
    maximalTarget      \* what get_maximal_target returns; none before

retargetVars == <<target, startTime, endTime, maximalTarget>>

-----------------------------------------------------------------------------
(* Conversions.                                                            *)

(* What the buffers of the conversions hold: 64 bytes, four of them taken. *)
Sizes == 0 .. 60

(* The values of as many bytes.                                            *)
Power[bytes \in Nat] == IF bytes = 0 THEN 1 ELSE Base * Power[bytes - 1]

(* The number a compact target without a sign stands for.                  *)
TargetValue(compact) ==
    IF compact.size >= 3 THEN compact.mantissa * Power[compact.size - 3]
    ELSE compact.mantissa \div Power[3 - compact.size]

(* Mantissas without the top bit, which is a sign.                         *)
Unsigned == 0 .. Power[3] \div 2 - 1

(* target_compact_to_bignum.                                               *)
TargetCompactToBignum(compact) ==
    IF compact.mantissa \in Unsigned THEN TargetValue(compact)
    ELSE -(compact.mantissa - Power[3] \div 2) * Power[compact.size - 3]

(* Mutant of TargetBignumToCompact: the byte for the sign is forgotten.    *)
TargetBignumToCompactUnsigned(n) ==
    LET size == CHOOSE s \in Sizes : n < Power[s] /\ \A t \in 0 .. s - 1 : n >= Power[t]
    IN  [size |-> size,
         mantissa |-> IF size >= 3 THEN n \div Power[size - 3] ELSE n * Power[3 - size]]

(* target_bignum_to_compact, of a number that is not negative: the fewest  *)
(* bytes that leave the top bit free, or none at all for 0.                *)
TargetBignumToCompact(n) ==
    LET size == IF n = 0 THEN 0
                ELSE CHOOSE s \in Sizes :
                        /\ 2 * n < Power[s]
                        /\ \A t \in 0 .. s - 1 : 2 * n >= Power[t]
    IN  [size |-> size,
         mantissa |-> IF size >= 3 THEN n \div Power[size - 3] ELSE n * Power[3 - size]]

(* The targets a chain has whose blocks follow the rule: without a sign,   *)
(* and at most the ceiling.                                                *)
LegalTarget(compact) ==
    /\ compact.size \in Sizes
    /\ compact.mantissa \in Unsigned
    /\ TargetValue(compact) <= TargetValue(GenesisTarget)

ASSUME RetargetAssumption ==
    /\ Base \in Nat /\ Base > 1 /\ Base % 2 = 0
    /\ RetargetBound \in Nat \ {0}
    /\ DesiredPeriod \in Nat \ {0} /\ DesiredPeriod % RetargetBound = 0
    /\ Uint32 \in Nat /\ DesiredPeriod * RetargetBound * RetargetBound < Uint32
    /\ Times \subseteq 0 .. Uint32 - 1
    /\ LegalTarget(GenesisTarget) /\ GenesisTarget.size >= 3
    /\ \A compact \in Targets : LegalTarget(compact)

-----------------------------------------------------------------------------
(* A difference of unsigned numbers.                                       *)
ActualPeriod == (endTime - startTime) % Uint32

(* In floats.  The exponent of target_compact_to_float is unsigned: of a   *)
(* target of fewer than three bytes it wraps, and the target is infinite.  *)
IsAboveCeiling(period) ==
    IF target.size >= 3
    THEN TargetValue(target) * period > TargetValue(GenesisTarget) * DesiredPeriod
    ELSE target.mantissa > 0 /\ period > 0

(* The product of unsigned numbers is below DesiredPeriod * RetargetBound  *)
(* where it is used.                                                       *)
NextTarget(period) ==
    LET current == TargetCompactToBignum(target)
    IN  IF IsAboveCeiling(period)
        THEN GenesisTarget
        ELSE TargetBignumToCompact(
                CASE period > DesiredPeriod * RetargetBound -> current * RetargetBound
                  [] period <= DesiredPeriod * RetargetBound
                       /\ (period * RetargetBound) % Uint32 < DesiredPeriod ->
                          current \div RetargetBound
                  [] OTHER -> (current * period) \div DesiredPeriod)

RetargetInit ==
    /\ target \in Targets
    /\ startTime \in Times
    /\ endTime \in Times
    /\ maximalTarget = {}

GetMaximalTarget ==
    /\ maximalTarget = {}
    /\ maximalTarget' = {NextTarget(ActualPeriod)}
    /\ UNCHANGED <<target, startTime, endTime>>

RetargetSpec == RetargetInit /\ [][GetMaximalTarget]_retargetVars

-----------------------------------------------------------------------------
(* Properties.                                                             *)

Smaller(a, b) == IF a < b THEN a ELSE b
Larger(a, b)  == IF a > b THEN a ELSE b

(* The rule the code computes in floats and bignums, wherever timestamps   *)
(* lie: the target is scaled by the time the period took, taken between a  *)
(* quarter of the desired time and four times that, stays below the        *)
(* ceiling, and is rounded down to the nearest compact target, which never *)
(* has the sign bit set.  Time that runs backwards counts as the longest   *)
(* period.  Two things are not that rule, and known: the ceiling is        *)
(* compared with the unclamped product, so that a period of more than four *)
(* times the desired one may end at the ceiling at once; and so does any   *)
(* period that starts with a target of fewer than three bytes              *)
(* (blockchain.c:21-31, 399-436).                                          *)
TargetIsScaled ==
    \A next \in maximalTarget :
        LET current == TargetValue(target)
            ceiling == TargetValue(GenesisTarget)
            elapsed == IF endTime < startTime THEN endTime - startTime + Uint32
                       ELSE endTime - startTime
            clamped == Larger(DesiredPeriod \div RetargetBound,
                              Smaller(DesiredPeriod * RetargetBound, elapsed))
            rule    == Smaller((current * clamped) \div DesiredPeriod, ceiling)
        IN  \/ /\ next.mantissa \in Unsigned
               /\ TargetValue(next) <= rule
               /\ \A size \in 3 .. GenesisTarget.size, mantissa \in Unsigned :
                     LET other == TargetValue([size |-> size, mantissa |-> mantissa])
                     IN  other <= rule => other <= TargetValue(next)
            \/ /\ elapsed > DesiredPeriod * RetargetBound
               /\ current * elapsed > ceiling * DesiredPeriod
               /\ next = GenesisTarget
            \/ /\ target.size < 3 /\ target.mantissa > 0 /\ elapsed > 0
               /\ next = GenesisTarget

=============================================================================
