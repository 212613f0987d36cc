-------------------------------- MODULE HiLo --------------------------------
(***************************************************************************)
(* The multiply-divide unit and the multimedia handlers of R5900VCPU       *)
(* (exec_special and exec_mmi in src/src/r5900_vcpu.cpp): the 128-bit      *)
(* registers HI and LO, of which pipeline 0 uses the lower and pipeline 1  *)
(* the upper 64 bits, the multiplications, multiply-adds, divisions and    *)
(* moves on them, and the handlers that work on all 128 bits of a          *)
(* general-purpose register.  A register is a function like HI and LO:     *)
(* element 0 is its low and element 1 its upper doubleword.  A handler of  *)
(* pipeline 1 also writes gpr[rd]; of those of pipeline 0 only MADD and    *)
(* MADDU do; both write the low doubleword.  PLZCW, PMTHL and the groups   *)
(* MMI0 to MMI3 are stubs without an effect.                               *)
(***************************************************************************)
EXTENDS Words

CONSTANTS Regs,     \* the general-purpose registers
          Values,   \* what the other handlers may leave in a register
          LaneSize, \* the number of values of a 16-bit lane
          Factors   \* the powers 2^sa, of which shifts by sa are made

ASSUME ValuesAssumption == Values \subseteq Double

\* A word is two lanes, and lanes have a sign.
ASSUME LaneAssumption ==
    /\ LaneSize \in Nat /\ LaneSize % 2 = 0
    /\ LaneSize * LaneSize = WordSize
    /\ Factors \subseteq Nat \ {0}

VARIABLES lo, hi, gpr

vars == <<lo, hi, gpr>>

\* The elements of u64_2: pipeline 0 and pipeline 1.
Pipelines == {0, 1}

\* R5900Register, as u64_2.
Quad == [Pipelines -> Double]

ZeroQuad == [p \in Pipelines |-> ZeroDouble]

-----------------------------------------------------------------------------
(* 64-bit results.                                                         *)

\* The number of 64-bit values.
WideSize == WordSize * WordSize

\* A sum or a product in a uint64_t.
ToWide(i) == i % WideSize

i32(r) == Signed(gpr[r][0].lo)

u32(r) == gpr[r][0].lo

\* The cast to int32_t is missing.
LowHalfNotCut(result) == SignExtend(result)

\* lo = (int64_t)(int32_t)(result)
LowHalf(result) == SignExtend(result % WordSize)

\* hi = (int64_t)(int32_t)(result >> 32)
HighHalf(result) == SignExtend(result \div WordSize)

\* Division in C truncates towards zero.
Magnitude(x) == IF x < 0 THEN -x ELSE x

Quotient(a, b) ==
    LET q == Magnitude(a) \div Magnitude(b)
    IN  IF (a < 0) = (b < 0) THEN q ELSE -q

Remainder(a, b) == a - b * Quotient(a, b)

\* Bitwise OR of two words, by the weights of their bits.
Weights == { w \in Word \ {0} : \A d \in 1 .. w : w % d = 0 => d = 1 \/ d % 2 = 0 }

Bit(w, weight) == (w \div weight) % 2 = 1

OrWords(v, w) ==
    CHOOSE u \in Word :
        \A b \in Weights : Bit(u, b) = (Bit(v, b) \/ Bit(w, b))

\* Words are binary: any two have a bitwise OR.
ASSUME BinaryAssumption ==
    \A v, w \in Word : \E u \in Word :
        \A b \in Weights : Bit(u, b) = (Bit(v, b) \/ Bit(w, b))

\* lo.u64 | (hi.u64 << 32): the upper half of LO stays in.
Unmasked(p) == lo[p].lo + WordSize * OrWords(lo[p].hi, hi[p].lo)

\* The same with both halves masked by 0xFFFFFFFF.
Masked(p) == lo[p].lo + WordSize * hi[p].lo

Accumulated(p) == IF p = 0 THEN Unmasked(0) ELSE Masked(1)
-----------------------------------------------------------------------------
(* Lanes of 16 bits.                                                       *)

LowLane(w) == w % LaneSize

HighLane(w) == w \div LaneSize

\* Two results, each truncated to a lane.
Pack(l, h) == (l % LaneSize) + LaneSize * (h % LaneSize)

SignedLane(v) == IF 2 * v >= LaneSize THEN v - LaneSize ELSE v

\* The saturation of an unsigned word.
ClampUnsigned(w) == IF w >= LaneSize \div 2 THEN LaneSize \div 2 - 1 ELSE w

\* std::max(std::min(w, 32767), -32768) of an int32_t
Clamp(w) ==
    LET max == LaneSize \div 2 - 1
        min == -(LaneSize \div 2)
    IN  IF Signed(w) > max THEN max ELSE IF Signed(w) < min THEN min ELSE Signed(w)

\* Words 0 and 1 of LO and HI are taken instead of 0 and 2.
FirstTwoWords(p) ==
    IF p = 0 THEN [lo |-> lo[0].lo, hi |-> hi[0].lo]
             ELSE [lo |-> lo[0].hi, hi |-> hi[0].hi]

\* The doublewords that the formats of PMFHL make of pipeline p.  In LH the
\* lanes of HI are overwritten by those of LO.
LW(p) == [lo |-> lo[p].lo, hi |-> hi[p].lo]

UW(p) == [lo |-> lo[p].hi, hi |-> hi[p].hi]

LH(p) ==
    LET lanes == Pack(LowLane(lo[p].lo), LowLane(lo[p].hi))
    IN  [lo |-> lanes, hi |-> lanes]

SH(p) ==
    [lo |-> Pack(Clamp(lo[p].lo), Clamp(lo[p].hi)),
     hi |-> Pack(Clamp(hi[p].lo), Clamp(hi[p].hi))]

\* The shifts of a word by sa, where f = 2^sa, and of its two lanes.
Left(w, f) == (w * f) % WordSize

Logical(w, f) == w \div f

Arithmetic(w, f) == ToWord(Signed(w) \div f)

LeftLanes(w, f) == Pack(LowLane(w) * f, HighLane(w) * f)

LogicalLanes(w, f) == Pack(LowLane(w) \div f, HighLane(w) \div f)

ArithmeticLanes(w, f) ==
    Pack(SignedLane(LowLane(w)) \div f, SignedLane(HighLane(w)) \div f)
-----------------------------------------------------------------------------
(* Writes.                                                                 *)

\* A half of HI and of LO; gpr[rd].i64 = lo in the handlers that have an rd.
SetHiLo(p, h, l) ==
    /\ hi' = [hi EXCEPT ![p] = h]
    /\ lo' = [lo EXCEPT ![p] = l]

NoDestination == UNCHANGED gpr

ToDestination(p, rd) == gpr' = [gpr EXCEPT ![rd][0] = lo'[p]]

SetProduct(p, result) == SetHiLo(p, HighHalf(result), LowHalf(result))

SetQuotient(p, rs, rt) ==
    LET a == i32(rs)
        b == i32(rt)
    IN  CASE b = 0 ->
               SetHiLo(p, SignExtend(u32(rs)),
                       ZeroExtend(IF a >= 0 THEN WordSize - 1 ELSE 1))
          [] b = -1 /\ a = -Half ->
               SetHiLo(p, ZeroDouble, ZeroExtend(Half))
          [] OTHER ->
               SetHiLo(p, SignExtend(ToWord(Remainder(a, b))),
                       SignExtend(ToWord(Quotient(a, b))))

SetQuotientUnsigned(p, rs, rt) ==
    LET a == u32(rs)
        b == u32(rt)
    IN  IF b = 0
        THEN SetHiLo(p, ZeroExtend(a), ZeroExtend(WordSize - 1))
        ELSE SetHiLo(p, ZeroExtend(a % b), ZeroExtend(a \div b))
-----------------------------------------------------------------------------
(* The handlers of pipeline 0.                                             *)

MULT(rs, rt) ==
    SetProduct(0, ToWide(i32(rs) * i32(rt))) /\ NoDestination

MULTU(rs, rt) ==
    SetProduct(0, ToWide(u32(rs) * u32(rt))) /\ NoDestination

DIV(rs, rt) == SetQuotient(0, rs, rt) /\ NoDestination

DIVU(rs, rt) == SetQuotientUnsigned(0, rs, rt) /\ NoDestination

MADD(rs, rt, rd) ==
    /\ SetProduct(0, ToWide(Accumulated(0) + i32(rs) * i32(rt)))
    /\ ToDestination(0, rd)

MADDU(rs, rt, rd) ==
    /\ SetProduct(0, ToWide(Accumulated(0) + u32(rs) * u32(rt)))
    /\ ToDestination(0, rd)

(* The handlers of pipeline 1.                                             *)

MULT1(rs, rt, rd) ==
    SetProduct(1, ToWide(i32(rs) * i32(rt))) /\ ToDestination(1, rd)

MULTU1(rs, rt, rd) ==
    SetProduct(1, ToWide(u32(rs) * u32(rt))) /\ ToDestination(1, rd)

DIV1(rs, rt, rd) == SetQuotient(1, rs, rt) /\ ToDestination(1, rd)

DIVU1(rs, rt, rd) == SetQuotientUnsigned(1, rs, rt) /\ ToDestination(1, rd)

MADD1(rs, rt, rd) ==
    /\ SetProduct(1, ToWide(Accumulated(1) + i32(rs) * i32(rt)))
    /\ ToDestination(1, rd)

MADDU1(rs, rt, rd) ==
    /\ SetProduct(1, ToWide(Accumulated(1) + u32(rs) * u32(rt)))
    /\ ToDestination(1, rd)

(* The moves take all 64 bits.                                             *)

Take(half, rd) == gpr' = [gpr EXCEPT ![rd][0] = half] /\ UNCHANGED <<lo, hi>>

MFHI(rd) == Take(hi[0], rd)

MFHI1(rd) == Take(hi[1], rd)

MFLO(rd) == Take(lo[0], rd)

MFLO1(rd) == Take(lo[1], rd)

MTHI(rs) == SetHiLo(0, gpr[rs][0], lo[0]) /\ NoDestination

MTHI1(rs) == SetHiLo(1, gpr[rs][0], lo[1]) /\ NoDestination

MTLO(rs) == SetHiLo(0, hi[0], gpr[rs][0]) /\ NoDestination

MTLO1(rs) == SetHiLo(1, hi[1], gpr[rs][0]) /\ NoDestination

-----------------------------------------------------------------------------
(* The handlers of 128 bits.                                               *)

SetQuad(rd, q) == gpr' = [gpr EXCEPT ![rd] = q] /\ UNCHANGED <<lo, hi>>

\* PMFHL by its field fmt, which is that of sa.  Format 2 (SLW) is a stub, and
\* the others do not exist.
PMFHL(rd, fmt) ==
    CASE fmt = 0 -> SetQuad(rd, [p \in Pipelines |-> LW(p)])
      [] fmt = 1 -> SetQuad(rd, [p \in Pipelines |-> UW(p)])
      [] fmt = 3 -> SetQuad(rd, [p \in Pipelines |-> LH(p)])
      [] fmt = 4 -> SetQuad(rd, [p \in Pipelines |-> SH(p)])
      [] OTHER   -> UNCHANGED vars

EachWord(q, Shift(_, _), f) ==
    [p \in Pipelines |-> [lo |-> Shift(q[p].lo, f), hi |-> Shift(q[p].hi, f)]]

\* The parallel shifts read gpr[rd], the register they write, and not gpr[rt].
PSLLH(rt, rd, f) == SetQuad(rd, EachWord(gpr[rd], LeftLanes, f))

PSRLH(rt, rd, f) == SetQuad(rd, EachWord(gpr[rd], LogicalLanes, f))

PSRAH(rt, rd, f) == SetQuad(rd, EachWord(gpr[rd], ArithmeticLanes, f))

PSLLW(rt, rd, f) == SetQuad(rd, EachWord(gpr[rd], Left, f))

PSRLW(rt, rd, f) == SetQuad(rd, EachWord(gpr[rd], Logical, f))

PSRAW(rt, rd, f) == SetQuad(rd, EachWord(gpr[rd], Arithmetic, f))

\* Any other handler: HI and LO are not touched.
Other(rd, d) == Take(d, rd)
-----------------------------------------------------------------------------
\* R5900Register hi {}, lo {}, gpr[32] {}
Init ==
    /\ lo = ZeroQuad
    /\ hi = ZeroQuad
    /\ gpr = [r \in Regs |-> ZeroQuad]

\* decode_sa
Formats == 0 .. 31

Next ==
    \/ \E rs, rt \in Regs :
         \/ MULT(rs, rt)
         \/ MULTU(rs, rt)
         \/ DIV(rs, rt)
         \/ DIVU(rs, rt)
    \/ \E rs, rt, rd \in Regs :
         \/ MADD(rs, rt, rd)
         \/ MADDU(rs, rt, rd)
         \/ MULT1(rs, rt, rd)
         \/ MULTU1(rs, rt, rd)
         \/ DIV1(rs, rt, rd)
         \/ DIVU1(rs, rt, rd)
         \/ MADD1(rs, rt, rd)
         \/ MADDU1(rs, rt, rd)
    \/ \E r \in Regs :
         \/ MFHI(r)
         \/ MFHI1(r)
         \/ MFLO(r)
         \/ MFLO1(r)
         \/ MTHI(r)
         \/ MTHI1(r)
         \/ MTLO(r)
         \/ MTLO1(r)
    \/ \E rd \in Regs, fmt \in Formats : PMFHL(rd, fmt)
    \/ \E rt, rd \in Regs, f \in Factors :
         \/ PSLLH(rt, rd, f)
         \/ PSRLH(rt, rd, f)
         \/ PSRAH(rt, rd, f)
         \/ PSLLW(rt, rd, f)
         \/ PSRLW(rt, rd, f)
         \/ PSRAW(rt, rd, f)
    \/ \E rd \in Regs, d \in Values : Other(rd, d)

Spec == Init /\ [][Next]_vars
-----------------------------------------------------------------------------
(* Properties.                                                             *)

\* HI and LO hold two 64-bit values, whatever overflows.
TypeOK ==
    /\ lo \in Quad
    /\ hi \in Quad
    /\ gpr \in [Regs -> Quad]

\* HI:LO as a 64-bit accumulator.
Value(p) == hi[p].lo * WordSize + lo[p].lo

Promise == INSTANCE Accumulator
           WITH acc <- [p \in Pipelines |-> Value(p)],
                stray <- [p \in Pipelines |-> lo[p].hi],
                reg <- [r \in Regs |-> gpr[r][0]]

\* The two pipelines are independent 64-bit accumulators.  Multiplications and
\* divisions, the special cases of DIV included, are exact; so is a
\* multiply-add, except that in pipeline 0, where the code does not mask LO,
\* the upper half is unspecified when LO carries a sign extension.
ImplementsAccumulator == Promise!ASpec

\* PMFHL.LH truncates and PMFHL.SH saturates.  Of LO they make the same lanes
\* when both words of it fit in a lane, and SH keeps the order of the words of
\* HI and LO: whoever compares lanes gets no other answer than before.
FormatsAgree ==
    \A p \in Pipelines :
        LET fits(w) == -LaneSize <= 2 * Signed(w) /\ 2 * Signed(w) < LaneSize
            first(w) == SignedLane(LowLane(w))
            second(w) == SignedLane(HighLane(w))
        IN  /\ fits(lo[p].lo) /\ fits(lo[p].hi) => SH(p).lo = LH(p).lo
            /\ Signed(lo[p].lo) <= Signed(hi[p].lo) => first(SH(p).lo) <= first(SH(p).hi)
            /\ Signed(lo[p].hi) <= Signed(hi[p].hi) => second(SH(p).lo) <= second(SH(p).hi)

\* A program that leaves pipeline 1 alone computes with 64 bits: as long as
\* LO, HI and the registers have nothing in their upper doublewords, no handler
\* brings anything there, of those that index words and lanes of 128 bits either
\* (PMFHL in four formats, the parallel shifts), whatever pipeline 0 holds.
UpperFromUpper ==
    [][\A r \in Regs : gpr'[r][1] # ZeroDouble =>
         \/ lo[1] # ZeroDouble \/ hi[1] # ZeroDouble
         \/ \E s \in Regs : gpr[s][1] # ZeroDouble]_vars

=============================================================================
