------------------------------- MODULE Script -------------------------------
(***************************************************************************)
(* The script interpreter (script.c, evaluate): one loop over the frames   *)
(* of a program with a stack, a second stack and a stack of branches.      *)
(*                                                                         *)
(* A program is not a constant: each step takes any of Frames, or ends the *)
(* program.  The one look-ahead of the code, whether an OP_ENDIF follows,  *)
(* is a choice the rest of the program has to keep.                        *)
(*                                                                         *)
(* Left out: what hashing and checking signatures compute (an external     *)
(* digest, any answer; the pairing of signatures and keys is module        *)
(* Multisig), and the width of a frame, 1024 bytes.                        *)
(***************************************************************************)
EXTENDS Integers, Sequences, SequencesExt, FiniteSets

CONSTANTS
    Frames,     \* frames programs are made of
    Digest,     \* bytes of every hash
    MaxLength   \* bound: frames of a program

(* Fewer branches than branchStack.states has room for, which the code     *)
(* does not check.                                                         *)
ASSUME ScriptAssumption == Digest \in Seq(0 .. 255) /\ MaxLength \in 0 .. 64

VARIABLES
    length,           \* frames so far
    runtimeStack, altRuntimeStack,
    branchStack,      \* "executing" or "skipping", innermost last
    endifDue,         \* an OP_ENDIF was seen ahead and has not come yet
    outcome,          \* "running", "true", "false"; "undefined" after a read
                      \* behind the stack
    structure,        \* history: the branch ops met, and what they decided
    numbers           \* history: the same program on integers

vars == <<length, runtimeStack, altRuntimeStack, branchStack, endifDue,
          outcome, structure, numbers>>

(* A frame is data, or an op, which in OP_1 to OP_16 carries its number.   *)
(* What pop and top return of an empty stack has the type of an op.        *)
Data(bytes) == [op |-> "", data |-> bytes]
Op(name)    == [op |-> name, data |-> << >>]
Number(n)   == [op |-> "OP_1", data |-> <<n>>]
EmptyFrame  == Op("empty")

ASSUME FramesAssumption ==
    \A f \in Frames :
        /\ f \in [op : STRING, data : Seq(0 .. 255)]
        /\ f.op = "OP_1" => f.data \in {<<n>> : n \in 1 .. 16}

-----------------------------------------------------------------------------
(* Bytes and numbers (utils/bignum.c).                                     *)

Abs(n) == IF n < 0 THEN -n ELSE n

(* Big-endian.                                                             *)
Bytes[m \in Nat] == IF m < 256 THEN <<m>> ELSE Append(Bytes[m \div 256], (m % 256))

ShiftIn(m, byte) == 256 * m + byte

(* BN_bn2mpi without its length: the top bit is the sign.                  *)
Mpi(n) ==
    LET bytes     == Bytes[Abs(n)]
        magnitude == IF Head(bytes) < 128 THEN bytes ELSE <<0>> \o bytes
    IN  IF n < 0 THEN [magnitude EXCEPT ![1] = @ + 128] ELSE magnitude

(* Mutant of BignumToBytes: the length is cut off, as the FIXME tries.     *)
BignumToBytesBare(n) == IF n = 0 THEN << >> ELSE Reverse(Mpi(n))

(* bignum_to_bytes reverses the number together with the last byte of its  *)
(* length.                                                                 *)
BignumToBytes(n) == IF n = 0 THEN << >> ELSE Reverse(<<Len(Mpi(n))>> \o Mpi(n))

(* bytes_to_bignum: a single byte has no sign; the last of several is a    *)
(* length, and if it is not theirs the number stays 0.                     *)
BytesToBignum(bytes) ==
    CASE bytes = << >>   -> 0
      [] Len(bytes) = 1  -> bytes[1]
      [] Len(bytes) > 1 /\ Last(bytes) # Len(bytes) - 1 -> 0
      [] OTHER ->
            LET mpi  == Reverse(Front(bytes))
                size == FoldLeft(ShiftIn, (mpi[1] % 128), Tail(mpi))
            IN  IF mpi[1] < 128 THEN size ELSE -size

(* What is pushed as a number: a byte, or what bignum_to_bytes leaves, and *)
(* narrow enough for no program to make a number of it that outgrows the   *)
(* byte of its length.                                                     *)
IsNumber(bytes) ==
    \/ Len(bytes) <= 1
    \/ Len(bytes) <= 128 /\ bytes = BignumToBytes(BytesToBignum(bytes))

NumericalFrame(n) == Data(BignumToBytes(n))

Bit(b) == IF b THEN 1 ELSE 0

IsTruthy(frame) == \E k \in DOMAIN frame.data : frame.data[k] # 0

(* Byte 0 of the array behind a frame.                                     *)
FirstByte(frame) == IF frame.data = << >> THEN 0 ELSE frame.data[1]

-----------------------------------------------------------------------------
(* Stacks, of frames or of integers.                                       *)

(* The k-th frame that is popped; an empty stack goes on giving them.      *)
Popped(stack, k, empty) ==
    IF k <= Len(stack) THEN stack[Len(stack) - k + 1] ELSE empty

Pop(stack, n) == SubSeq(stack, 1, Len(stack) - n)

(* How many frames an op pops, and which of them it pushes again.          *)
Moves == {"OP_DROP", "OP_NIP", "OP_SWAP", "OP_TUCK", "OP_ROT", "OP_DUP", "OP_2DUP",
          "OP_NOP"}

Move(op) ==
    CASE op = "OP_NOP"  -> [pops |-> 0, pushes |-> << >>]
      [] op = "OP_DROP" -> [pops |-> 1, pushes |-> << >>]
      [] op = "OP_DUP"  -> [pops |-> 1, pushes |-> <<1, 1>>]
      [] op = "OP_NIP"  -> [pops |-> 2, pushes |-> <<1>>]
      [] op = "OP_SWAP" -> [pops |-> 2, pushes |-> <<1, 2>>]
      [] op = "OP_TUCK" -> [pops |-> 2, pushes |-> <<1, 2, 1>>]
      [] op = "OP_2DUP" -> [pops |-> 2, pushes |-> <<2, 1, 2, 1>>]
      [] op = "OP_ROT"  -> [pops |-> 3, pushes |-> <<2, 1, 3>>]

Moved(stack, op, empty) ==
    Pop(stack, Move(op).pops)
      \o [k \in DOMAIN Move(op).pushes |-> Popped(stack, Move(op).pushes[k], empty)]

(* Frames without which an op fails; the other ops take empty ones.        *)
Needed(op) ==
    CASE op \in {"OP_DUP", "OP_VERIFY"} -> 1
      [] op \in {"OP_2DUP", "OP_EQUAL", "OP_EQUALVERIFY", "OP_CHECKSIG",
                 "OP_CHECKSIGVERIFY"} -> 2
      [] OTHER -> 0

(* OP_ROLL moves the frame at the index to the top.  Its loop ends at      *)
(* size - index + 1 instead of size - 1, so of the frames behind an index  *)
(* of 3 or more not all close up.                                          *)
Rolled(stack, index) ==
    LET n == Len(stack)
    IN  Append([k \in 1 .. n - 1 |-> IF k > index /\ k - 1 < n - index + 1
                                     THEN stack[k + 1] ELSE stack[k]],
               stack[index + 1])

Unaries  == {"OP_1ADD", "OP_1SUB", "OP_NEGATE", "OP_ABS"}
Binaries == {"OP_ADD", "OP_SUB", "OP_BOOLAND", "OP_BOOLOR", "OP_NUMEQUAL",
             "OP_LESSTHAN", "OP_GREATERTHAN"}

Unary(op, n) ==
    CASE op = "OP_1ADD"   -> n + 1
      [] op = "OP_1SUB"   -> n - 1
      [] op = "OP_NEGATE" -> -n
      [] op = "OP_ABS"    -> Abs(n)

(* Of the top of the stack, n, and the number below it.                    *)
Binary(op, m, n) ==
    CASE op = "OP_ADD"         -> m + n
      [] op = "OP_SUB"         -> m - n
      [] op = "OP_BOOLAND"     -> Bit(m # 0 /\ n # 0)
      [] op = "OP_BOOLOR"      -> Bit(m # 0 \/ n # 0)
      [] op = "OP_NUMEQUAL"    -> Bit(m = n)
      [] op = "OP_LESSTHAN"    -> Bit(m < n)
      [] op = "OP_GREATERTHAN" -> Bit(m > n)

(* OP_WITHIN includes the maximum.                                         *)
Within(n, min, max) == Bit(min <= n /\ n <= max)

(* OP_MIN compares bytes: the narrower frame, or by the highest byte.      *)
MinFrame(top, below) ==
    LET a == top.data  b == below.data
    IN  IF \/ Len(b) < Len(a)
           \/ Len(b) = Len(a) /\ \E k \in DOMAIN a :
                 b[k] < a[k] /\ \A j \in k + 1 .. Len(a) : a[j] = b[j]
        THEN below ELSE top

-----------------------------------------------------------------------------
(* The same on integers, for NumbersExact: what a program of pushes,       *)
(* arithmetic and moves means.  It is out of scope (not ok) when an op     *)
(* lacks frames, speaks of bytes (OP_EQUAL, OP_SIZE, OP_MIN) or of digests *)
(* and signatures, or rolls a frame above the third, or when bytes are     *)
(* pushed that are no number.                                              *)
NumberStep(s, f) ==
    LET x(k)  == Popped(s.stack, k, 0)
        has(n) == Len(s.stack) >= n
        to(n, pushed) == [s EXCEPT !.stack = Pop(@, n) \o pushed]
        index == Len(s.stack) - 1 - x(1)
    IN  IF ~ s.ok THEN s ELSE
        CASE f.op = "" /\ IsNumber(f.data) -> to(0, <<BytesToBignum(f.data)>>)
          [] f.op = "OP_1"        -> to(0, f.data)
          [] f.op = "OP_1NEGATE"  -> to(0, <<-1>>)
          [] f.op = "OP_DEPTH"    -> to(0, <<Len(s.stack)>>)
          [] f.op \in Moves /\ has(Move(f.op).pops) ->
                [s EXCEPT !.stack = Moved(@, f.op, 0)]
          [] f.op \in Unaries /\ has(1)  -> to(1, <<Unary(f.op, x(1))>>)
          [] f.op \in Binaries /\ has(2) -> to(2, <<Binary(f.op, x(2), x(1))>>)
          [] f.op = "OP_WITHIN" /\ has(3) -> to(3, <<Within(x(3), x(2), x(1))>>)
          [] f.op = "OP_NOT" /\ has(1)   -> to(0, <<Bit(x(1) = 0)>>)
          [] f.op = "OP_VERIFY" /\ has(1) -> to(1, << >>)
          [] f.op = "OP_TOALTSTACK" /\ has(1) ->
                [to(1, << >>) EXCEPT !.alt = Append(@, x(1))]
          [] f.op = "OP_FROMALTSTACK" /\ s.alt # << >> ->
                [to(0, <<Last(s.alt)>>) EXCEPT !.alt = Front(@)]
          [] f.op = "OP_PICK" /\ has(1) /\ index \in 1 .. Len(s.stack) - 1 ->
                to(1, <<s.stack[index]>>)
          [] f.op = "OP_ROLL" /\ has(1) /\ index \in 1 .. Len(s.stack) - 1 /\ index <= 3 ->
                [s EXCEPT !.stack = Append(RemoveAt(Front(@), index), @[index])]
          [] OTHER -> [s EXCEPT !.ok = FALSE]

-----------------------------------------------------------------------------
(* The loop.                                                               *)

ShouldSkipBranch == branchStack # << >> /\ Last(branchStack) = "skipping"

BranchOps == {"OP_IF", "OP_NOTIF", "OP_ELSE", "OP_ENDIF"}

(* A frame that is executed.                                               *)
Executes(f) ==
    /\ outcome = "running"
    /\ length < MaxLength
    /\ length' = length + 1
    /\ ~ ShouldSkipBranch \/ f.op \in BranchOps

(* Of a frame whose op does not fail, and touches no branches.             *)
Works(f) ==
    /\ Executes(f)
    /\ Len(runtimeStack) >= Needed(f.op)
    /\ numbers' = NumberStep(numbers, f)
    /\ UNCHANGED <<branchStack, endifDue, outcome, structure>>

SkipFrame(f) ==
    /\ outcome = "running"
    /\ length < MaxLength
    /\ length' = length + 1
    /\ ShouldSkipBranch
    /\ f.op \notin BranchOps
    /\ UNCHANGED <<runtimeStack, altRuntimeStack, branchStack, endifDue,
                   outcome, structure, numbers>>

Top(k) == Popped(runtimeStack, k, EmptyFrame)
Num(k) == BytesToBignum(Top(k).data)

(* Pop n frames and push one.                                              *)
Replace(n, frame) ==
    /\ runtimeStack' = Append(Pop(runtimeStack, n), frame)
    /\ UNCHANGED altRuntimeStack

PushFrame(f) ==
    /\ Works(f)
    /\ \/ f.op = "" /\ Replace(0, f)
       \/ f.op = "OP_1" /\ Replace(0, NumericalFrame(f.data[1]))
       \/ f.op = "OP_1NEGATE" /\ Replace(0, NumericalFrame(-1))
       \/ f.op = "OP_DEPTH" /\ Replace(0, NumericalFrame(Len(runtimeStack) % 256))
       \/ f.op = "OP_SIZE" /\ Replace(0, NumericalFrame(Len(Top(1).data)))

MoveFrames(f) ==
    /\ Works(f)
    /\ f.op \in Moves
    /\ runtimeStack' = Moved(runtimeStack, f.op, EmptyFrame)
    /\ UNCHANGED altRuntimeStack

Alternate(f) ==
    /\ Works(f)
    /\ \/ /\ f.op = "OP_TOALTSTACK"
          /\ runtimeStack' = Pop(runtimeStack, 1)
          /\ altRuntimeStack' = Append(altRuntimeStack, Top(1))
       \/ /\ f.op = "OP_FROMALTSTACK"
          /\ runtimeStack' = Append(runtimeStack, Popped(altRuntimeStack, 1, EmptyFrame))
          /\ altRuntimeStack' = Pop(altRuntimeStack, 1)

Compute(f) ==
    /\ Works(f)
    /\ \/ f.op \in Unaries /\ Replace(1, NumericalFrame(Unary(f.op, Num(1))))
       \/ f.op \in Binaries /\ Replace(2, NumericalFrame(Binary(f.op, Num(2), Num(1))))
       \/ f.op = "OP_WITHIN" /\ Replace(3, NumericalFrame(Within(Num(3), Num(2), Num(1))))
       \/ f.op = "OP_MIN" /\ Replace(2, MinFrame(Top(1), Top(2)))
       \/ f.op = "OP_EQUAL" /\ Replace(2, NumericalFrame(Bit(Top(1) = Top(2))))
       \/ /\ f.op = "OP_NOT"    \* the operand stays
          /\ Replace(0, NumericalFrame(Bit(Top(1).op = "" /\ Num(1) = 0)))

(* The index counts from the bottom.  An operand that is too large makes   *)
(* it wrap, so it is never below 0, as the code expects.                   *)
PickOrRoll(f) ==
    LET index == Len(runtimeStack) - 2 - FirstByte(Top(1))
        rest  == Pop(runtimeStack, 1)
    IN  /\ f.op \in {"OP_PICK", "OP_ROLL"}
        /\ Executes(f)
        /\ numbers' = NumberStep(numbers, f)
        /\ IF index >= 0
           THEN /\ runtimeStack' = IF f.op = "OP_PICK" THEN Append(rest, rest[index + 1])
                                   ELSE Rolled(rest, index)
                /\ UNCHANGED outcome
           ELSE outcome' = "undefined" /\ UNCHANGED runtimeStack
        /\ UNCHANGED <<altRuntimeStack, branchStack, endifDue, structure>>

Verify(f) ==
    /\ Works(f)
    /\ \/ f.op = "OP_VERIFY" /\ IsTruthy(Top(1))
       \/ f.op = "OP_EQUALVERIFY" /\ Top(1) = Top(2)
    /\ runtimeStack' = Pop(runtimeStack, Needed(f.op))
    /\ UNCHANGED altRuntimeStack

(* hash_top_frame leaves an empty stack alone.                             *)
Hash(f) ==
    /\ Works(f)
    /\ f.op = "OP_HASH160"
    /\ IF runtimeStack = << >> THEN UNCHANGED <<runtimeStack, altRuntimeStack>>
       ELSE Replace(1, Data(Digest))

(* The number of keys, the keys, the number of signatures, those, and one  *)
(* frame more.  Without a signature the answer is true.  The counts of     *)
(* programs are taken to fit the code's int8_t.                            *)
CheckSignatures(f) ==
    /\ Works(f)
    /\ \E answer \in BOOLEAN :
          \/ f.op = "OP_CHECKSIG" /\ Replace(2, NumericalFrame(Bit(answer)))
          \/ /\ f.op = "OP_CHECKSIGVERIFY"
             /\ answer
             /\ runtimeStack' = Pop(runtimeStack, 2)
             /\ UNCHANGED altRuntimeStack
          \/ LET publicKeyCount == FirstByte(Top(1))
                 signatureCount == FirstByte(Top(publicKeyCount + 2))
             IN  /\ f.op = "OP_CHECKMULTISIG"
                 /\ publicKeyCount < 128 /\ signatureCount < 128
                 /\ signatureCount = 0 => answer
                 /\ Replace(publicKeyCount + signatureCount + 3,
                            NumericalFrame(Bit(answer)))

-----------------------------------------------------------------------------
(* Branches.                                                               *)

(* OP_IF and OP_NOTIF are executed in a skipped branch as well: they pop   *)
(* their condition and open a branch of their own.                         *)
If(f) ==
    LET taken == IsTruthy(Top(1)) <=> (f.op = "OP_IF")
    IN  /\ f.op \in {"OP_IF", "OP_NOTIF"}
        /\ Executes(f)
        /\ endifDue' = TRUE
        /\ branchStack' = Append(branchStack, IF taken THEN "executing" ELSE "skipping")
        /\ structure' = Append(structure, IF taken THEN "taken" ELSE "not taken")
        /\ runtimeStack' = Pop(runtimeStack, 1)
        /\ numbers' = [numbers EXCEPT !.ok = FALSE]
        /\ UNCHANGED <<altRuntimeStack, outcome>>

(* Mutant of Else: the first branch was executed, so no other is.          *)
ElseOnce(f) ==
    /\ f.op = "OP_ELSE"
    /\ Executes(f)
    /\ branchStack # << >>
    /\ branchStack' = [branchStack EXCEPT ![Len(branchStack)] = "skipping"]
    /\ structure' = Append(structure, "else")
    /\ UNCHANGED <<runtimeStack, altRuntimeStack, endifDue, outcome, numbers>>

Else(f) ==
    /\ f.op = "OP_ELSE"
    /\ Executes(f)
    /\ branchStack # << >>
    /\ branchStack' = [branchStack EXCEPT ![Len(branchStack)] =
                          IF @ = "executing" THEN "skipping" ELSE "executing"]
    /\ structure' = Append(structure, "else")
    /\ UNCHANGED <<runtimeStack, altRuntimeStack, endifDue, outcome, numbers>>

(* It may be the last of the program.                                      *)
EndIf(f) ==
    /\ f.op = "OP_ENDIF"
    /\ Executes(f)
    /\ branchStack # << >>
    /\ branchStack' = Front(branchStack)
    /\ structure' = Append(structure, "endif")
    /\ endifDue' \in BOOLEAN
    /\ endifDue' => endifDue
    /\ UNCHANGED <<runtimeStack, altRuntimeStack, outcome, numbers>>

-----------------------------------------------------------------------------
(* The ends.                                                               *)

(* immediate_fail: reserved and unknown ops, missing frames, what is not   *)
(* verified, and branch ops out of place (no OP_ENDIF ahead, or no branch  *)
(* open).                                                                  *)
Fail(f) ==
    /\ Executes(f)
    /\ \/ f.op = "OP_RETURN"
       \/ Len(runtimeStack) < Needed(f.op)
       \/ f.op = "OP_VERIFY" /\ ~ IsTruthy(Top(1))
       \/ f.op = "OP_EQUALVERIFY" /\ Top(1) # Top(2)
       \/ f.op = "OP_CHECKSIGVERIFY"
       \/ f.op \in {"OP_IF", "OP_NOTIF"} /\ ~ endifDue
       \/ f.op \in {"OP_ELSE", "OP_ENDIF"} /\ branchStack = << >>
    /\ outcome' = "false"
    /\ UNCHANGED <<runtimeStack, altRuntimeStack, branchStack, endifDue,
                   structure, numbers>>

(* The program ends; branches may be open.                                 *)
End ==
    /\ outcome = "running"
    /\ ~ endifDue
    /\ outcome' = IF IsTruthy(Top(1)) THEN "true" ELSE "false"
    /\ UNCHANGED <<length, runtimeStack, altRuntimeStack, branchStack,
                   endifDue, structure, numbers>>

Init ==
    /\ length = 0
    /\ runtimeStack = << >>
    /\ altRuntimeStack = << >>
    /\ branchStack = << >>
    /\ endifDue = FALSE
    /\ outcome = "running"
    /\ structure = << >>
    /\ numbers = [ok |-> TRUE, stack |-> << >>, alt |-> << >>]

Step(f) ==
    \/ SkipFrame(f)
    \/ PushFrame(f)
    \/ MoveFrames(f)
    \/ Alternate(f)
    \/ Compute(f)
    \/ PickOrRoll(f)
    \/ Verify(f)
    \/ Hash(f)
    \/ CheckSignatures(f)
    \/ If(f)
    \/ Else(f)
    \/ EndIf(f)
    \/ Fail(f)

Next == (\E f \in Frames : Step(f)) \/ End

Spec == Init /\ [][Next]_vars

-----------------------------------------------------------------------------
(* Properties.                                                             *)

(* Arithmetic on frames is arithmetic on numbers: whatever ops are put     *)
(* together, the frames on the stack read as the integers they should be,  *)
(* negative ones and ones of several bytes included.  That needs the       *)
(* length that bignum_to_bytes leaves behind a number, and that            *)
(* bytes_to_bignum expects there (utils/bignum.c, script.c:1179-1260).     *)
NumbersExact ==
    (numbers.ok /\ outcome = "running") =>
        /\ Len(runtimeStack) = Len(numbers.stack)
        /\ \A k \in DOMAIN runtimeStack :
              BytesToBignum(runtimeStack[k].data) = numbers.stack[k]

(* The branches around the next frame: those opened and not closed.        *)
IsOpening(k) == structure[k] \in {"taken", "not taken"}

Depth(j, k) ==
    Cardinality({m \in j .. k : IsOpening(m)})
      - Cardinality({m \in j .. k : structure[m] = "endif"})

Around(k) == {j \in 1 .. k : IsOpening(j) /\ \A m \in j .. k : Depth(j, m) > 0}

(* A branch is taken as its condition said, the other way round after each *)
(* OP_ELSE of its own.                                                     *)
TakenAt(j, k) ==
    LET elses == {m \in j + 1 .. k : structure[m] = "else" /\ Depth(j, m) = 1}
    IN  (structure[j] = "taken") <=> (Cardinality(elses) % 2 = 0)

(* A frame is executed exactly if every branch around it is taken, however *)
(* branches are nested and alternate - in programs that open none within a *)
(* skipped one, where the interpreter asks for its condition all the same  *)
(* and looks at the innermost branch only (script.c:866-880, 1125-1174).   *)
BranchesTaken ==
    (\A k \in DOMAIN structure : IsOpening(k) => \A j \in Around(k - 1) : TakenAt(j, k - 1))
      => /\ Len(branchStack) = Cardinality(Around(Len(structure)))
         /\ ShouldSkipBranch <=>
               \E j \in Around(Len(structure)) : ~ TakenAt(j, Len(structure))

=============================================================================
