------------------------------- MODULE IntAlu -------------------------------
(***************************************************************************)
(* The integer instructions of R5900VCPU (tick, exec_special and           *)
(* exec_regimm in src/src/r5900_vcpu.cpp, src/src/core/intrinsics.h).  The *)
(* low 64 bits of a register are bits, from the lowest; a number enters a  *)
(* register through Bits, which keeps as many as there are.  Additions of  *)
(* int32_t that overflow are undefined and wrap in the build; shifts by    *)
(* the width or more are undefined, and take the outcomes of the           *)
(* processors the build is for.  SYSCALL, BREAK, SYNC, the traps and the   *)
(* branches of REGIMM are stubs without an effect.                         *)
(***************************************************************************)
EXTENDS Integers

CONSTANTS WordBits,   \* the width of a word (32)
          ImmBits,    \* the width of an immediate (16)
          FuncBits,   \* the width of the field func (6)
          LaneBits,   \* the bits of the number of a byte of a register (4)
          ByteShift,  \* the bits of the number of a bit of a byte (3)
          Fallback,   \* whether the compiler is neither MSVC nor clang
          Regs,       \* the general-purpose registers
          Values      \* what the other handlers may leave in a register

DoubleBits == 2 * WordBits
Double == [0 .. (DoubleBits - 1) -> {0, 1}]

ASSUME IntAluAssumption ==
    /\ WordBits \in Nat /\ ImmBits \in Nat /\ LaneBits \in 1 .. ImmBits
    /\ FuncBits \in 0 .. ImmBits
    /\ ByteShift \in Nat /\ ImmBits + ByteShift + 1 < WordBits
    /\ Fallback \in BOOLEAN
    /\ Values \subseteq Double

VARIABLES
    gpr,
    reg_sa,
    words    \* history: no 64-bit handler, and no other one, has run so far

vars == <<gpr, reg_sa, words>>

-----------------------------------------------------------------------------
(* Bits and numbers.                                                       *)

Power[n \in Nat] == IF n = 0 THEN 1 ELSE 2 * Power[n - 1]

\* The powers that are needed.
Pow2 == [n \in 0 .. (DoubleBits + 1) |-> Power[n]]

\* The bits of a number as it enters 64 bits.
Bits(i) == [k \in 0 .. (DoubleBits - 1) |-> (i \div Pow2[k]) % 2]

\* The unsigned and the signed number in the low n bits.
Unsigned(b, n) ==
    LET below[k \in 0 .. n] ==
            IF k = 0 THEN 0 ELSE below[k - 1] + Pow2[k - 1] * b[k - 1]
    IN  below[n]

Signed(b, n) == Unsigned(b, n) - b[n - 1] * Pow2[n]
u32(r) == Unsigned(gpr[r], WordBits)
i32(r) == Signed(gpr[r], WordBits)
u64(r) == Unsigned(gpr[r], DoubleBits)
i64(r) == Signed(gpr[r], DoubleBits)

\* The signed number with the low n bits of i.
Wrapped(i, n) == LET low == i % Pow2[n] IN IF low < Pow2[n - 1] THEN low ELSE low - Pow2[n]
FitsIn(i, n) == i \in -Pow2[n - 1] .. (Pow2[n - 1] - 1)

\* Only sums of negative numbers are looked at.
NegativeOnly(a, b, n) == a < 0 /\ b < 0 /\ Wrapped(a + b, n) >= 0

\* What intrinsics.h computes for other compilers, from the wrapped result.
AddFallback(a, b, n) ==
    ~ (((a < 0) # (b < 0)) \/ ((a < 0) = (Wrapped(a + b, n) < 0)))

SubFallback(a, b, n) ==
    ((a < 0) = (b < 0)) /\ ((a < 0) # (Wrapped(a - b, n) < 0))

\* The intrinsics of MSVC and the builtins of clang are exact.
AddOverflow(a, b, n) ==
    IF Fallback THEN AddFallback(a, b, n) ELSE ~ FitsIn(a + b, n)

SubOverflow(a, b, n) ==
    IF Fallback THEN SubFallback(a, b, n) ELSE ~ FitsIn(a - b, n)

\* Only a word is written.
WordOnly(b) == [k \in 0 .. (WordBits - 1) |-> b[k]]

\* (int64_t)(int32_t)
SignExtended(b) ==
    [k \in 0 .. (DoubleBits - 1) |-> b[IF k < WordBits THEN k ELSE WordBits - 1]]

Not(b) == [k \in DOMAIN b |-> 1 - b[k]]
And(b, c) == [k \in DOMAIN b |-> b[k] * c[k]]
Or(b, c) == Not(And(Not(b), Not(c)))
Xor(b, c) == [k \in DOMAIN b |-> (b[k] + c[k]) % 2]

\* Shifts of the low n bits; what is shifted in on the right is fill.
Left(b, s, n) ==
    [k \in 0 .. (DoubleBits - 1) |-> IF k \in s .. (n - 1) THEN b[k - s] ELSE 0]

Right(b, s, n, fill) ==
    [k \in 0 .. (DoubleBits - 1) |-> IF k + s < n THEN b[k + s] ELSE fill]

Logical(b, s, n) == Right(b, s, n, 0)
Arithmetic(b, s, n) == Right(b, s, n, b[n - 1])

\* A uint32_t assigned to a u64.
SRLUncast(b, s) == Logical(b, s, WordBits)

\* (int64_t)(int32_t)(gpr[rt].u32 >> s)
SRLResult(b, s) == SignExtended(Logical(b, s, WordBits))

\* The amounts a shift by a register may come to.  A shift instruction of the
\* host masks them; the helper for 64 bits on a 32-bit host looks at the low
\* byte (four times the width) and shifts everything out from 64 on.
Amounts32(rs) == {u32(rs) % WordBits}
Amounts64(rs) == {u64(rs) % DoubleBits, u64(rs) % (4 * DoubleBits)}
-----------------------------------------------------------------------------
(* Writes.                                                                 *)

Put(r, b) == gpr' = [gpr EXCEPT ![r] = b] /\ UNCHANGED reg_sa

\* The results of word handlers, and of those that only 64-bit programs need.
Set(r, b) == Put(r, b) /\ UNCHANGED words
SetWide(r, b) == Put(r, b) /\ words' = FALSE

Nothing == UNCHANGED vars

\* The sum in an int32_t.
WordResult(i) == Bits(Wrapped(i, WordBits))

\* A comparison.
Flag(p) == Bits(IF p THEN 1 ELSE 0)
-----------------------------------------------------------------------------
(* Handlers with an immediate, signed or not.                              *)

ADDI(rs, rt, imm) ==
    IF AddOverflow(i32(rs), imm, WordBits) THEN Nothing
    ELSE Set(rt, WordResult(i32(rs) + imm))

ADDIU(rs, rt, imm) == Set(rt, WordResult(i32(rs) + imm))
SLTI(rs, rt, imm) == Set(rt, Flag(i64(rs) < imm))

SLTIU(rs, rt, imm) ==
    Set(rt, Flag(u64(rs) < Unsigned(Bits(imm), DoubleBits)))

ANDI(rs, rt, imm) == Set(rt, And(gpr[rs], Bits(imm)))
ORI(rs, rt, imm) == Set(rt, Or(gpr[rs], Bits(imm)))
XORI(rs, rt, imm) == Set(rt, Xor(gpr[rs], Bits(imm)))

LUI(rs, rt, imm) ==
    Set(rt, SignExtended(Left(Bits(imm), WordBits - ImmBits, WordBits)))

\* Reads rt and writes rs, unlike DADDIU.
DADDI(rs, rt, imm) ==
    IF AddOverflow(i64(rt), imm, DoubleBits) THEN Nothing
    ELSE SetWide(rs, Bits(i64(rt) + imm))

DADDIU(rs, rt, imm) == SetWide(rt, Bits(i64(rs) + imm))
-----------------------------------------------------------------------------
(* Handlers of two registers.                                              *)

\* The result is written before the overflow is looked at.
ADDWritingFirst(rs, rt, rd) == Set(rd, WordResult(i32(rs) + i32(rt)))

ADD(rs, rt, rd) ==
    IF AddOverflow(i32(rs), i32(rt), WordBits) THEN Nothing
    ELSE Set(rd, WordResult(i32(rs) + i32(rt)))

ADDU(rs, rt, rd) == Set(rd, WordResult(i32(rs) + i32(rt)))

SUB(rs, rt, rd) ==
    IF SubOverflow(i32(rs), i32(rt), WordBits) THEN Nothing
    ELSE Set(rd, WordResult(i32(rs) - i32(rt)))

SUBU(rs, rt, rd) == Set(rd, WordResult(i32(rs) - i32(rt)))
AND(rs, rt, rd) == Set(rd, And(gpr[rs], gpr[rt]))
OR(rs, rt, rd) == Set(rd, Or(gpr[rs], gpr[rt]))
XOR(rs, rt, rd) == Set(rd, Xor(gpr[rs], gpr[rt]))
NOR(rs, rt, rd) == Set(rd, Not(Or(gpr[rs], gpr[rt])))
SLT(rs, rt, rd) == Set(rd, Flag(i64(rs) < i64(rt)))
SLTU(rs, rt, rd) == Set(rd, Flag(u64(rs) < u64(rt)))
MOVZ(rs, rt, rd) == IF u64(rs) = 0 THEN Set(rd, gpr[rt]) ELSE Nothing
MOVN(rs, rt, rd) == IF u64(rs) # 0 THEN Set(rd, gpr[rt]) ELSE Nothing

DADD(rs, rt, rd) ==
    IF AddOverflow(i64(rs), i64(rt), DoubleBits) THEN Nothing
    ELSE SetWide(rd, Bits(i64(rs) + i64(rt)))

DADDU(rs, rt, rd) == SetWide(rd, Bits(i64(rs) + i64(rt)))

DSUB(rs, rt, rd) ==
    IF SubOverflow(i64(rs), i64(rt), DoubleBits) THEN Nothing
    ELSE SetWide(rd, Bits(i64(rs) - i64(rt)))

DSUBU(rs, rt, rd) == SetWide(rd, Bits(i64(rs) - i64(rt)))
-----------------------------------------------------------------------------
(* Shifts, by the field sa or by a register.                               *)

SLL(rt, rd, s) == Set(rd, SignExtended(Left(gpr[rt], s, WordBits)))
SRL(rt, rd, s) == Set(rd, SRLResult(gpr[rt], s))
SRA(rt, rd, s) == Set(rd, Arithmetic(gpr[rt], s, WordBits))

SLLV(rs, rt, rd) == \E s \in Amounts32(rs) : SLL(rt, rd, s)
SRLV(rs, rt, rd) == \E s \in Amounts32(rs) : SRL(rt, rd, s)
SRAV(rs, rt, rd) == \E s \in Amounts32(rs) : SRA(rt, rd, s)

\* DSLL and DSLL32, DSRL and DSRL32, DSRA and DSRA32: s is sa or sa + 32.
DSLL(rt, rd, s) == SetWide(rd, Left(gpr[rt], s, DoubleBits))
DSRL(rt, rd, s) == SetWide(rd, Logical(gpr[rt], s, DoubleBits))
DSRA(rt, rd, s) == SetWide(rd, Arithmetic(gpr[rt], s, DoubleBits))

DSLLV(rs, rt, rd) == \E s \in Amounts64(rs) : DSLL(rt, rd, s)
DSRLV(rs, rt, rd) == \E s \in Amounts64(rs) : DSRL(rt, rd, s)
DSRAV(rs, rt, rd) == \E s \in Amounts64(rs) : DSRA(rt, rd, s)
-----------------------------------------------------------------------------
(* The shift amount register.                                              *)

MFSA(rd) == Set(rd, reg_sa)
MTSA(rs) == reg_sa' = gpr[rs] /\ UNCHANGED <<gpr, words>>

\* MTSAB (16 lanes of 8 bits) and MTSAH (8 of 16).  The immediate is not masked.
MoveLanes(rs, imm, bits, shift) ==
    LET mask == Bits(Pow2[bits] - 1)
    IN  /\ reg_sa' = Left(Xor(And(gpr[rs], mask), Xor(Bits(imm), mask)),
                          shift, DoubleBits)
        /\ UNCHANGED <<gpr, words>>

\* exec_regimm takes its function from func, which is the end of the immediate.
Selects(imm, func) == imm % Pow2[FuncBits] = func % Pow2[FuncBits]

MTSAB(rs, imm) == Selects(imm, 24) /\ MoveLanes(rs, imm, LaneBits, ByteShift)
MTSAH(rs, imm) == Selects(imm, 25) /\ MoveLanes(rs, imm, LaneBits - 1, ByteShift + 1)

\* A handler that is not in this module.
Other(r, d) == SetWide(r, d)
-----------------------------------------------------------------------------
Init ==
    /\ gpr = [r \in Regs |-> Bits(0)]
    /\ reg_sa = Bits(0)
    /\ words = TRUE

\* decode_imm_i16, decode_imm_u16 and decode_sa
SignedImm == -Pow2[ImmBits - 1] .. (Pow2[ImmBits - 1] - 1)
UnsignedImm == 0 .. (Pow2[ImmBits] - 1)
ShiftField == 0 .. (WordBits - 1)

Next ==
    \/ \E rs, rt \in Regs, imm \in SignedImm :
         \/ ADDI(rs, rt, imm) \/ ADDIU(rs, rt, imm)
         \/ SLTI(rs, rt, imm) \/ SLTIU(rs, rt, imm)
         \/ DADDI(rs, rt, imm) \/ DADDIU(rs, rt, imm)
    \/ \E rs, rt \in Regs, imm \in UnsignedImm :
         \/ ANDI(rs, rt, imm) \/ ORI(rs, rt, imm)
         \/ XORI(rs, rt, imm) \/ LUI(rs, rt, imm)
    \/ \E rs, rt, rd \in Regs :
         \/ ADD(rs, rt, rd) \/ ADDU(rs, rt, rd)
         \/ SUB(rs, rt, rd) \/ SUBU(rs, rt, rd)
         \/ AND(rs, rt, rd) \/ OR(rs, rt, rd)
         \/ XOR(rs, rt, rd) \/ NOR(rs, rt, rd)
         \/ SLT(rs, rt, rd) \/ SLTU(rs, rt, rd)
         \/ MOVZ(rs, rt, rd) \/ MOVN(rs, rt, rd)
         \/ DADD(rs, rt, rd) \/ DADDU(rs, rt, rd)
         \/ DSUB(rs, rt, rd) \/ DSUBU(rs, rt, rd)
         \/ SLLV(rs, rt, rd) \/ SRLV(rs, rt, rd)
         \/ SRAV(rs, rt, rd) \/ DSLLV(rs, rt, rd)
         \/ DSRLV(rs, rt, rd) \/ DSRAV(rs, rt, rd)
    \/ \E rt, rd \in Regs, sa \in ShiftField :
         \/ SLL(rt, rd, sa) \/ SRL(rt, rd, sa) \/ SRA(rt, rd, sa)
         \/ \E s \in {sa, sa + WordBits} :
              DSLL(rt, rd, s) \/ DSRL(rt, rd, s) \/ DSRA(rt, rd, s)
    \/ \E r \in Regs : MFSA(r) \/ MTSA(r)
    \/ \E rs \in Regs, imm \in UnsignedImm : MTSAB(rs, imm) \/ MTSAH(rs, imm)
    \/ \E r \in Regs, d \in Values : Other(r, d)

Spec == Init /\ [][Next]_vars
-----------------------------------------------------------------------------
(* Properties.                                                             *)

\* Whatever overflows or is shifted out, registers keep 64 bits.
TypeOK ==
    /\ gpr \in [Regs -> Double]
    /\ reg_sa \in Double
    /\ words \in BOOLEAN

Canonical(b) == b = SignExtended(b)

\* A program of word instructions, logic, comparisons and conditional moves
\* leaves only sign-extended words in registers, so that the 64-bit comparisons
\* and tests compare the words.
CanonicalWords ==
    words => Canonical(reg_sa) /\ \A r \in Regs : Canonical(gpr[r])

\* The values that an addition may meet, in both widths.
Operands(n) == {Signed(gpr[r], n) : r \in Regs}

\* The formula of add_overflow for other compilers finds exactly the sums that
\* do not fit, so that ADD, ADDI, DADD and DADDI do the same in every build.
FallbackAddsExactly ==
    \A n \in {WordBits, DoubleBits} :
        \A a, b \in Operands(n) : AddFallback(a, b, n) <=> ~ FitsIn(a + b, n)

\* The difference of two numbers that are not negative always fits, and is
\* stored: src/test/epcs2_r5900_isa_ialu_test.cpp requires 100 - 200 = -100 of
\* SUB.  The formula of sub_overflow for other compilers calls it an overflow.
DifferenceStored ==
    \A n \in {WordBits, DoubleBits} :
        \A a, b \in Operands(n) : a >= 0 /\ b >= 0 => ~ SubOverflow(a, b, n)

\* r takes the number i, or no register changes because i does not fit.
TakesIfFits(r, i, n) ==
    IF FitsIn(i, n) THEN Signed(gpr'[r], DoubleBits) = i ELSE UNCHANGED gpr

\* ADD, ADDI, DADD, DADDI, SUB and DSUB never store a wrapped result: what is
\* in the register afterwards is the exact sum or difference, extended to 64
\* bits, and at an overflow all registers are as they were, those that are both
\* an operand and the destination too.  The exception, that of SUB and DSUB with
\* the formula for other compilers, is DifferenceStored.
NothingWraps ==
    [][ /\ \A rs, rt, rd \in Regs :
             /\ ADD(rs, rt, rd) => TakesIfFits(rd, i32(rs) + i32(rt), WordBits)
             /\ DADD(rs, rt, rd) => TakesIfFits(rd, i64(rs) + i64(rt), DoubleBits)
             /\ ~ Fallback /\ SUB(rs, rt, rd) =>
                   TakesIfFits(rd, i32(rs) - i32(rt), WordBits)
             /\ ~ Fallback /\ DSUB(rs, rt, rd) =>
                   TakesIfFits(rd, i64(rs) - i64(rt), DoubleBits)
        /\ \A rs, rt \in Regs, imm \in SignedImm :
             /\ ADDI(rs, rt, imm) => TakesIfFits(rt, i32(rs) + imm, WordBits)
             /\ DADDI(rs, rt, imm) => TakesIfFits(rs, i64(rt) + imm, DoubleBits)
      ]_vars

=============================================================================
