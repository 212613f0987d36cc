----------------------------- MODULE HiLoProofs -----------------------------
(***************************************************************************)
(* Theorems about the multiply-divide unit and the multimedia handlers,    *)
(* for words and lanes of any size that the assumptions of HiLo allow.     *)
(***************************************************************************)
EXTENDS HiLo, TLAPS, WellFoundedInduction

-----------------------------------------------------------------------------
(* Results are words.                                                      *)

LEMMA Sizes ==
    /\ WordSize \in Nat /\ WordSize >= 4 /\ Half \in Nat /\ Half < WordSize
    /\ LaneSize \in Nat /\ LaneSize >= 2 /\ LaneSize <= WordSize
    /\ LaneSize * LaneSize = WordSize
<1>1. LaneSize \in Nat /\ LaneSize * LaneSize = WordSize /\ LaneSize % 2 = 0
  BY LaneAssumption
<1>2. LaneSize # 0
  BY <1>1, WordSizeAssumption
<1>3. LaneSize >= 2
  BY <1>1, <1>2
<1>4. LaneSize * LaneSize >= LaneSize * 1
  BY <1>1, <1>3
<1> QED
  BY <1>1, <1>3, <1>4, WordSizeAssumption DEF Half

LEMMA SmallWords == 0 \in Word /\ 1 \in Word /\ Half \in Word /\ (WordSize - 1) \in Word
BY Sizes DEF Word

LEMMA ToWordType == \A i \in Int : ToWord(i) \in Word
BY Sizes DEF ToWord, Word

LEMMA SignedType == \A w \in Word : Signed(w) \in Int /\ w \in Int
BY Sizes DEF Signed, Negative, Word

LEMMA ExtendType == \A w \in Word : SignExtend(w) \in Double /\ ZeroExtend(w) \in Double
BY SmallWords DEF SignExtend, ZeroExtend, Double

LEMMA ZeroType == ZeroDouble \in Double
BY SmallWords DEF ZeroDouble, Double

\* Division by a positive number brings a natural number nearer to zero.
LEMMA DivisionType ==
    ASSUME NEW n \in Nat, NEW d \in Nat \ {0}
    PROVE  n \div d \in 0 .. n
<1> DEFINE q == n \div d
<1>1. q \in Int /\ n = d * q + (n % d) /\ n % d \in 0 .. (d - 1)
  OBVIOUS
<1> HIDE DEF q
<1>2. q >= 0
  <2>1. CASE q <= -1
    <3>1. d * q <= d * (-1)
      BY <1>1, <2>1
    <3> QED
      BY <3>1, <1>1
  <2> QED
    BY <2>1, <1>1
<1>3. d * q >= q
  <2>1. (d - 1) * q >= 0
    BY <1>1, <1>2
  <2>2. (d - 1) * q = d * q - q
    BY <1>1
  <2> QED
    BY <2>1, <2>2, <1>1
<1>4. q <= n
  BY <1>1, <1>3
<1> QED
  BY <1>1, <1>2, <1>4 DEF q

\* The two halves of a 64-bit result.
LEMMA HalvesType ==
    ASSUME NEW i \in Int
    PROVE  LowHalf(ToWide(i)) \in Double /\ HighHalf(ToWide(i)) \in Double
<1> DEFINE r == ToWide(i)
           h == r \div WordSize
<1>1. WideSize \in Nat \ {0} /\ WideSize = WordSize * WordSize
  BY Sizes DEF WideSize
<1>2. r \in 0 .. (WideSize - 1)
  BY <1>1 DEF ToWide
<1> HIDE DEF r
<1>3. h \in Int /\ r = WordSize * h + (r % WordSize) /\ r % WordSize \in Word
  BY <1>1, <1>2, Sizes DEF Word
<1> HIDE DEF h
<1>4. h >= 0
  <2>1. CASE h <= -1
    <3>1. WordSize * h <= WordSize * (-1)
      BY <2>1, <1>3, Sizes
    <3> QED
      BY <3>1, <1>2, <1>3, Sizes DEF Word
  <2> QED
    BY <2>1, <1>3
<1>5. h < WordSize
  <2>1. CASE h >= WordSize
    <3>1. WordSize * h >= WordSize * WordSize
      BY <2>1, <1>3, Sizes
    <3> QED
      BY <3>1, <1>1, <1>2, <1>3, Sizes DEF Word
  <2> QED
    BY <2>1, <1>3, Sizes
<1>6. h \in Word
  BY <1>3, <1>4, <1>5, Sizes DEF Word
<1> QED
  BY <1>3, <1>6, ExtendType DEF r, h, LowHalf, HighHalf

LEMMA OrType == \A v, w \in Word : OrWords(v, w) \in Word
BY BinaryAssumption DEF OrWords

LEMMA QuotientType ==
    ASSUME NEW a \in Int, NEW b \in Int, b # 0
    PROVE  Quotient(a, b) \in Int /\ Remainder(a, b) \in Int
<1>1. Magnitude(a) \in Nat /\ Magnitude(b) \in Nat \ {0}
  BY DEF Magnitude
<1>2. Magnitude(a) \div Magnitude(b) \in Int
  BY <1>1, DivisionType
<1>3. Quotient(a, b) \in Int
  BY <1>2 DEF Quotient
<1> QED
  BY <1>3 DEF Remainder

-----------------------------------------------------------------------------
(* Lanes.                                                                  *)

LEMMA PackType == \A l, h \in Int : Pack(l, h) \in Word
<1> SUFFICES ASSUME NEW l \in Int, NEW h \in Int PROVE Pack(l, h) \in Word
  OBVIOUS
<1> DEFINE x == l % LaneSize
           y == h % LaneSize
<1>1. x \in 0 .. (LaneSize - 1) /\ y \in 0 .. (LaneSize - 1)
  BY Sizes
<1> HIDE DEF x, y
<1>2. LaneSize * y <= LaneSize * (LaneSize - 1) /\ LaneSize * y >= 0
  BY <1>1, Sizes
<1>3. LaneSize * (LaneSize - 1) = LaneSize * LaneSize - LaneSize
  BY Sizes
<1>4. x + LaneSize * y \in Word
  BY <1>1, <1>2, <1>3, Sizes DEF Word
<1> QED
  BY <1>4 DEF Pack, x, y

LEMMA LaneTypes ==
    ASSUME NEW w \in Word
    PROVE  /\ LowLane(w) \in Nat /\ HighLane(w) \in Nat
           /\ SignedLane(LowLane(w)) \in Int /\ SignedLane(HighLane(w)) \in Int
           /\ Clamp(w) \in Int
<1>1. w \in Nat
  BY Sizes DEF Word
<1>2. LowLane(w) \in Nat
  BY <1>1, Sizes DEF LowLane
<1>3. HighLane(w) \in Nat
  BY <1>1, Sizes, DivisionType DEF HighLane
<1>4. Clamp(w) \in Int
  BY Sizes, SignedType DEF Clamp
<1> QED
  BY <1>2, <1>3, <1>4, Sizes DEF SignedLane

\* What the six shifts make of a word, and that they make zero of zero.
LEMMA ShiftTypes ==
    ASSUME NEW w \in Word, NEW f \in Factors
    PROVE  /\ Left(w, f) \in Word /\ Logical(w, f) \in Word /\ Arithmetic(w, f) \in Word
           /\ LeftLanes(w, f) \in Word /\ LogicalLanes(w, f) \in Word
           /\ ArithmeticLanes(w, f) \in Word
<1>1. w \in Nat /\ f \in Nat \ {0} /\ Signed(w) \in Int
  BY LaneAssumption, SignedType, Sizes DEF Word
<1>2. Left(w, f) \in Word
  <2>1. w * f \in Int
    BY <1>1
  <2> QED
    BY <2>1, Sizes DEF Left, Word
<1>3. Logical(w, f) \in Word
  BY <1>1, DivisionType, Sizes DEF Logical, Word
<1>4. \A n \in Int : n \div f \in Int
  BY <1>1
<1>5. Arithmetic(w, f) \in Word
  BY <1>1, <1>4, ToWordType DEF Arithmetic
<1>6. LowLane(w) * f \in Int /\ HighLane(w) * f \in Int
  BY <1>1, LaneTypes
<1>7. /\ LowLane(w) \div f \in Int /\ HighLane(w) \div f \in Int
      /\ SignedLane(LowLane(w)) \div f \in Int /\ SignedLane(HighLane(w)) \div f \in Int
  BY <1>4, LaneTypes
<1> QED
  BY <1>2, <1>3, <1>5, <1>6, <1>7, PackType
     DEF LeftLanes, LogicalLanes, ArithmeticLanes

LEMMA ShiftsOfZero ==
    ASSUME NEW f \in Factors
    PROVE  /\ Left(0, f) = 0 /\ Logical(0, f) = 0 /\ Arithmetic(0, f) = 0
           /\ LeftLanes(0, f) = 0 /\ LogicalLanes(0, f) = 0 /\ ArithmeticLanes(0, f) = 0
<1>1. f \in Nat \ {0}
  BY LaneAssumption
<1>2. 0 * f = 0 /\ 0 \div f = 0
  BY <1>1
<1>3. 0 % WordSize = 0 /\ 0 % LaneSize = 0 /\ 0 \div LaneSize = 0 /\ Signed(0) = 0
      /\ SignedLane(0) = 0
  BY Sizes, WordSizeAssumption DEF Signed, Negative, Half, SignedLane
<1>4. Pack(0, 0) = 0
  BY <1>3, Sizes DEF Pack
<1> QED
  BY <1>2, <1>3, <1>4
     DEF Left, Logical, Arithmetic, ToWord, LeftLanes, LogicalLanes, ArithmeticLanes,
         LowLane, HighLane

-----------------------------------------------------------------------------
(* Type correctness.                                                       *)

\* What the shared parts of the handlers need.
LEMMA SetHiLoKeeps ==
    ASSUME TypeOK, NEW p \in Pipelines, NEW h \in Double, NEW l \in Double, SetHiLo(p, h, l)
    PROVE  lo' \in Quad /\ hi' \in Quad /\ lo'[p] \in Double
BY DEF TypeOK, SetHiLo, Quad

LEMMA DestinationKeeps ==
    ASSUME TypeOK, NEW p \in Pipelines, NEW rd \in Regs, lo'[p] \in Double,
           ToDestination(p, rd)
    PROVE  gpr' \in [Regs -> Quad]
BY DEF TypeOK, ToDestination, Quad, Pipelines

LEMMA OperandTypes ==
    ASSUME TypeOK, NEW r \in Regs
    PROVE  u32(r) \in Word /\ u32(r) \in Nat /\ i32(r) \in Int
<1>1. gpr[r][0].lo \in Word
  BY DEF TypeOK, Quad, Pipelines, Double
<1> QED
  BY <1>1, SignedType, Sizes DEF u32, i32, Word

LEMMA AccumulatedType ==
    ASSUME TypeOK, NEW p \in Pipelines
    PROVE  Accumulated(p) \in Int
<1>1. /\ lo[p].lo \in Word /\ lo[p].hi \in Word /\ hi[p].lo \in Word
      /\ OrWords(lo[p].hi, hi[p].lo) \in Word
  BY OrType DEF TypeOK, Quad, Double
<1>2. Unmasked(p) \in Int /\ Masked(p) \in Int
  BY <1>1, SignedType, Sizes DEF Unmasked, Masked
<1> QED
  BY <1>2 DEF Accumulated, Pipelines

\* Every product, sum and quotient.
LEMMA ProductKeeps ==
    ASSUME TypeOK, NEW p \in Pipelines, NEW i \in Int, SetProduct(p, ToWide(i))
    PROVE  lo' \in Quad /\ hi' \in Quad /\ lo'[p] \in Double
BY HalvesType, SetHiLoKeeps DEF SetProduct

LEMMA QuotientKeeps ==
    ASSUME TypeOK, NEW p \in Pipelines, NEW rs \in Regs, NEW rt \in Regs,
           SetQuotient(p, rs, rt)
    PROVE  lo' \in Quad /\ hi' \in Quad /\ lo'[p] \in Double
<1> DEFINE a == i32(rs)
           b == i32(rt)
<1>1. a \in Int /\ b \in Int /\ u32(rs) \in Word
  BY OperandTypes
<1>2. CASE b = 0
  <2>1. SetHiLo(p, SignExtend(u32(rs)), ZeroExtend(IF a >= 0 THEN WordSize - 1 ELSE 1))
    BY <1>2 DEF SetQuotient
  <2>2. (IF a >= 0 THEN WordSize - 1 ELSE 1) \in Word
    BY SmallWords
  <2> QED
    BY <1>1, <2>1, <2>2, ExtendType, SetHiLoKeeps
<1>3. CASE b # 0 /\ b = -1 /\ a = -Half
  <2>1. SetHiLo(p, ZeroDouble, ZeroExtend(Half))
    BY <1>3 DEF SetQuotient
  <2> QED
    BY <2>1, SmallWords, ZeroType, ExtendType, SetHiLoKeeps
<1>4. CASE b # 0 /\ ~ (b = -1 /\ a = -Half)
  <2>1. SetHiLo(p, SignExtend(ToWord(Remainder(a, b))), SignExtend(ToWord(Quotient(a, b))))
    BY <1>4 DEF SetQuotient
  <2>2. ToWord(Remainder(a, b)) \in Word /\ ToWord(Quotient(a, b)) \in Word
    BY <1>1, <1>4, QuotientType, ToWordType
  <2> QED
    BY <2>1, <2>2, ExtendType, SetHiLoKeeps
<1> QED
  BY <1>2, <1>3, <1>4

LEMMA QuotientUnsignedKeeps ==
    ASSUME TypeOK, NEW p \in Pipelines, NEW rs \in Regs, NEW rt \in Regs,
           SetQuotientUnsigned(p, rs, rt)
    PROVE  lo' \in Quad /\ hi' \in Quad /\ lo'[p] \in Double
<1> DEFINE a == u32(rs)
           b == u32(rt)
<1>1. a \in Word /\ a \in Nat /\ b \in Word /\ b \in Nat
  BY OperandTypes
<1>2. CASE b = 0
  <2>1. SetHiLo(p, ZeroExtend(a), ZeroExtend(WordSize - 1))
    BY <1>2 DEF SetQuotientUnsigned
  <2> QED
    BY <1>1, <2>1, SmallWords, ExtendType, SetHiLoKeeps
<1>3. CASE b # 0
  <2>1. SetHiLo(p, ZeroExtend(a % b), ZeroExtend(a \div b))
    BY <1>3 DEF SetQuotientUnsigned
  <2> HIDE DEF a, b
  <2>2. a % b \in 0 .. (b - 1) /\ a \div b \in 0 .. a
    BY <1>1, <1>3, DivisionType
  <2>3. a % b \in Word /\ a \div b \in Word
    BY <1>1, <2>2, Sizes DEF Word
  <2> QED
    BY <2>1, <2>3, ExtendType, SetHiLoKeeps
<1> QED
  BY <1>2, <1>3

\* The handlers of 128 bits.
LEMMA FormatTypes ==
    ASSUME TypeOK, NEW p \in Pipelines
    PROVE  LW(p) \in Double /\ UW(p) \in Double /\ LH(p) \in Double /\ SH(p) \in Double
<1>1. /\ lo[p].lo \in Word /\ lo[p].hi \in Word
      /\ hi[p].lo \in Word /\ hi[p].hi \in Word
  BY DEF TypeOK, Quad, Double
<1>2. LW(p) \in Double /\ UW(p) \in Double
  BY <1>1 DEF LW, UW, Double
<1>3. LH(p) \in Double
  <2>1. LowLane(lo[p].lo) \in Nat /\ LowLane(lo[p].hi) \in Nat
    BY <1>1, LaneTypes
  <2>2. \A l, h \in Nat : Pack(l, h) \in Word
    BY PackType
  <2>3. Pack(LowLane(lo[p].lo), LowLane(lo[p].hi)) \in Word
    BY <2>1, <2>2
  <2> QED
    BY <2>3 DEF LH, Double
<1>4. SH(p) \in Double
  <2>1. /\ Pack(Clamp(lo[p].lo), Clamp(lo[p].hi)) \in Word
        /\ Pack(Clamp(hi[p].lo), Clamp(hi[p].hi)) \in Word
    BY <1>1, LaneTypes, PackType
  <2> QED
    BY <2>1 DEF SH, Double
<1> QED
  BY <1>2, <1>3, <1>4

LEMMA QuadKeeps ==
    ASSUME TypeOK, NEW rd \in Regs, NEW q \in Quad, SetQuad(rd, q)
    PROVE  TypeOK'
BY DEF TypeOK, SetQuad

LEMMA ShiftKeeps ==
    ASSUME TypeOK, NEW rt \in Regs, NEW rd \in Regs, NEW f \in Factors,
           \/ PSLLH(rt, rd, f) \/ PSRLH(rt, rd, f) \/ PSRAH(rt, rd, f)
           \/ PSLLW(rt, rd, f) \/ PSRLW(rt, rd, f) \/ PSRAW(rt, rd, f)
    PROVE  /\ TypeOK'
           /\ UNCHANGED <<lo, hi>>
           /\ \A r \in Regs : gpr[r][1] = ZeroDouble => gpr'[r][1] = ZeroDouble
<1>1. PICK q : /\ SetQuad(rd, q)
               /\ \/ q = EachWord(gpr[rd], LeftLanes, f)
                  \/ q = EachWord(gpr[rd], LogicalLanes, f)
                  \/ q = EachWord(gpr[rd], ArithmeticLanes, f)
                  \/ q = EachWord(gpr[rd], Left, f)
                  \/ q = EachWord(gpr[rd], Logical, f)
                  \/ q = EachWord(gpr[rd], Arithmetic, f)
  BY DEF PSLLH, PSRLH, PSRAH, PSLLW, PSRLW, PSRAW, EachWord
<1>2. \A p \in Pipelines : gpr[rd][p].lo \in Word /\ gpr[rd][p].hi \in Word
  BY DEF TypeOK, Quad, Double
<1>3. q \in Quad
  BY <1>1, <1>2, ShiftTypes DEF Quad, Double, EachWord
<1>4. gpr[rd][1] = ZeroDouble => q[1] = ZeroDouble
  BY <1>1, ShiftsOfZero DEF Pipelines, ZeroDouble, EachWord
<1>5. TypeOK' /\ UNCHANGED <<lo, hi>>
  BY <1>1, <1>3, QuadKeeps DEF SetQuad
<1>6. \A r \in Regs : gpr[r][1] = ZeroDouble => gpr'[r][1] = ZeroDouble
  BY <1>1, <1>4 DEF SetQuad, TypeOK
<1> QED
  BY <1>5, <1>6

LEMMA FormatKeeps ==
    ASSUME TypeOK, NEW rd \in Regs, NEW fmt, PMFHL(rd, fmt)
    PROVE  TypeOK'
<1>1. \/ SetQuad(rd, [p \in Pipelines |-> LW(p)])
      \/ SetQuad(rd, [p \in Pipelines |-> UW(p)])
      \/ SetQuad(rd, [p \in Pipelines |-> LH(p)])
      \/ SetQuad(rd, [p \in Pipelines |-> SH(p)])
      \/ UNCHANGED vars
  BY DEF PMFHL
<1>2. /\ [p \in Pipelines |-> LW(p)] \in Quad /\ [p \in Pipelines |-> UW(p)] \in Quad
      /\ [p \in Pipelines |-> LH(p)] \in Quad /\ [p \in Pipelines |-> SH(p)] \in Quad
  BY FormatTypes DEF Quad
<1>3. CASE UNCHANGED vars
  BY <1>3 DEF vars, TypeOK
<1> QED
  BY <1>1, <1>2, <1>3, QuadKeeps

LEMMA MoveKeeps ==
    ASSUME TypeOK, NEW r \in Regs,
           \/ MFHI(r) \/ MFHI1(r) \/ MFLO(r) \/ MFLO1(r)
           \/ MTHI(r) \/ MTHI1(r) \/ MTLO(r) \/ MTLO1(r)
           \/ \E d \in Values : Other(r, d)
    PROVE  TypeOK'
<1>1. /\ lo[0] \in Double /\ lo[1] \in Double /\ hi[0] \in Double /\ hi[1] \in Double
      /\ gpr[r][0] \in Double
  BY DEF TypeOK, Quad, Pipelines
<1>2. ASSUME NEW d \in Double, Take(d, r) PROVE TypeOK'
  BY <1>2 DEF Take, TypeOK, Quad, Pipelines
<1>3. CASE MTHI(r) \/ MTHI1(r) \/ MTLO(r) \/ MTLO1(r)
  <2>1. PICK p \in Pipelines, h \in Double, l \in Double : SetHiLo(p, h, l)
    BY <1>1, <1>3 DEF MTHI, MTHI1, MTLO, MTLO1, Pipelines
  <2>2. UNCHANGED gpr
    BY <1>3 DEF MTHI, MTHI1, MTLO, MTLO1, NoDestination
  <2> QED
    BY <2>1, <2>2, SetHiLoKeeps DEF TypeOK
<1>4. CASE MFHI(r) \/ MFHI1(r) \/ MFLO(r) \/ MFLO1(r)
  BY <1>1, <1>2, <1>4 DEF MFHI, MFHI1, MFLO, MFLO1
<1>5. CASE \E d \in Values : Other(r, d)
  BY <1>2, <1>5, ValuesAssumption DEF Other
<1> QED
  BY <1>3, <1>4, <1>5

\* The handlers that compute.
Arithmetic0(rs, rt) ==
    \/ MULT(rs, rt) \/ MULTU(rs, rt) \/ DIV(rs, rt) \/ DIVU(rs, rt)

Arithmetic1(rs, rt, rd) ==
    \/ MADD(rs, rt, rd) \/ MADDU(rs, rt, rd)
    \/ MULT1(rs, rt, rd) \/ MULTU1(rs, rt, rd) \/ DIV1(rs, rt, rd) \/ DIVU1(rs, rt, rd)
    \/ MADD1(rs, rt, rd) \/ MADDU1(rs, rt, rd)

LEMMA ProductTypes ==
    ASSUME TypeOK, NEW rs \in Regs, NEW rt \in Regs, NEW p \in Pipelines
    PROVE  /\ i32(rs) * i32(rt) \in Int /\ u32(rs) * u32(rt) \in Int
           /\ Accumulated(p) + i32(rs) * i32(rt) \in Int
           /\ Accumulated(p) + u32(rs) * u32(rt) \in Int
BY OperandTypes, AccumulatedType

LEMMA ArithmeticKeeps ==
    ASSUME TypeOK, NEW rs \in Regs, NEW rt \in Regs, NEW rd \in Regs,
           Arithmetic0(rs, rt) \/ Arithmetic1(rs, rt, rd)
    PROVE  /\ TypeOK'
           /\ UNCHANGED gpr \/ \E p \in Pipelines : ToDestination(p, rd)
<1>1. PICK p \in Pipelines :
        /\ \/ \E i \in Int : SetProduct(p, ToWide(i))
           \/ SetQuotient(p, rs, rt)
           \/ SetQuotientUnsigned(p, rs, rt)
        /\ UNCHANGED gpr \/ ToDestination(p, rd)
  <2>1. 0 \in Pipelines /\ 1 \in Pipelines
    BY DEF Pipelines
  <2>2. CASE Arithmetic0(rs, rt)
    BY <2>1, <2>2, ProductTypes
       DEF Arithmetic0, MULT, MULTU, DIV, DIVU, NoDestination
  <2>3. CASE Arithmetic1(rs, rt, rd)
    <3>1. CASE MADD(rs, rt, rd) \/ MADDU(rs, rt, rd)
      BY <2>1, <3>1, ProductTypes DEF MADD, MADDU
    <3>2. CASE MADD1(rs, rt, rd) \/ MADDU1(rs, rt, rd)
      BY <2>1, <3>2, ProductTypes DEF MADD1, MADDU1
    <3>3. CASE MULT1(rs, rt, rd) \/ MULTU1(rs, rt, rd)
      BY <2>1, <3>3, ProductTypes DEF MULT1, MULTU1
    <3>4. CASE DIV1(rs, rt, rd) \/ DIVU1(rs, rt, rd)
      BY <2>1, <3>4 DEF DIV1, DIVU1
    <3> QED
      BY <2>3, <3>1, <3>2, <3>3, <3>4 DEF Arithmetic1
  <2> QED
    BY <2>2, <2>3
<1>2. lo' \in Quad /\ hi' \in Quad /\ lo'[p] \in Double
  BY <1>1, ProductKeeps, QuotientKeeps, QuotientUnsignedKeeps
<1>3. gpr' \in [Regs -> Quad]
  BY <1>1, <1>2, DestinationKeeps DEF TypeOK
<1> QED
  BY <1>1, <1>2, <1>3 DEF TypeOK

Move(r) ==
    \/ MFHI(r) \/ MFHI1(r) \/ MFLO(r) \/ MFLO1(r)
    \/ MTHI(r) \/ MTHI1(r) \/ MTLO(r) \/ MTLO1(r)
    \/ \E d \in Values : Other(r, d)

Shift(rt, rd, f) ==
    \/ PSLLH(rt, rd, f) \/ PSRLH(rt, rd, f) \/ PSRAH(rt, rd, f)
    \/ PSLLW(rt, rd, f) \/ PSRLW(rt, rd, f) \/ PSRAW(rt, rd, f)

LEMMA Kinds ==
    ASSUME Next
    PROVE  \/ \E rs, rt, rd \in Regs : Arithmetic0(rs, rt) \/ Arithmetic1(rs, rt, rd)
           \/ \E r \in Regs : Move(r)
           \/ \E rd \in Regs, fmt \in Formats : PMFHL(rd, fmt)
           \/ \E rt, rd \in Regs, f \in Factors : Shift(rt, rd, f)
BY DEF Next, Arithmetic0, Arithmetic1, Move, Shift

LEMMA InitType == Init => TypeOK
BY ZeroType DEF Init, TypeOK, Quad, ZeroQuad

LEMMA NextType == TypeOK /\ [Next]_vars => TypeOK'
<1> SUFFICES ASSUME TypeOK, [Next]_vars PROVE TypeOK'
  OBVIOUS
<1>1. CASE UNCHANGED vars
  BY <1>1 DEF vars, TypeOK
<1>2. CASE \E rs, rt, rd \in Regs : Arithmetic0(rs, rt) \/ Arithmetic1(rs, rt, rd)
  BY <1>2, ArithmeticKeeps
<1>3. CASE \E r \in Regs : Move(r)
  BY <1>3, MoveKeeps DEF Move
<1>4. CASE \E rd \in Regs, fmt \in Formats : PMFHL(rd, fmt)
  BY <1>4, FormatKeeps
<1>5. CASE \E rt, rd \in Regs, f \in Factors : Shift(rt, rd, f)
  BY <1>5, ShiftKeeps DEF Shift
<1> QED
  BY <1>1, <1>2, <1>3, <1>4, <1>5, Kinds

\* HI, LO and the registers hold 128 bits each whatever is computed from them:
\* quotients of the smallest number, sums that carry out of 64 bits, saturated
\* lanes.
THEOREM TypeCorrect == Spec => []TypeOK
<1>1. Init => TypeOK
  BY InitType
<1>2. TypeOK /\ [Next]_vars => TypeOK'
  BY NextType
<1> QED
  BY <1>1, <1>2, PTL DEF Spec

-----------------------------------------------------------------------------
(* The upper doublewords.                                                  *)

\* PMFHL makes zero of an empty pipeline.
LEMMA FormatsOfZero ==
    ASSUME lo[1] = ZeroDouble, hi[1] = ZeroDouble
    PROVE  /\ LW(1) = ZeroDouble /\ UW(1) = ZeroDouble
           /\ LH(1) = ZeroDouble /\ SH(1) = ZeroDouble
<1>1. lo[1].lo = 0 /\ lo[1].hi = 0 /\ hi[1].lo = 0 /\ hi[1].hi = 0
  BY DEF ZeroDouble
<1>2. LowLane(0) = 0 /\ Pack(0, 0) = 0
  BY Sizes DEF LowLane, Pack
<1>3. Signed(0) = 0
  BY Sizes, WordSizeAssumption DEF Signed, Negative, Half
<1>4. LaneSize \div 2 \in Nat /\ LaneSize \div 2 >= 1
  BY Sizes
<1>5. Clamp(0) = 0
  BY <1>3, <1>4 DEF Clamp
<1> QED
  BY <1>1, <1>2, <1>5 DEF LW, UW, LH, SH, ZeroDouble

LEMMA UpperKept ==
    ASSUME TypeOK, Next, lo[1] = ZeroDouble, hi[1] = ZeroDouble,
           NEW r \in Regs, gpr[r][1] = ZeroDouble
    PROVE  gpr'[r][1] = ZeroDouble
<1>1. CASE \E rs, rt, rd \in Regs : Arithmetic0(rs, rt) \/ Arithmetic1(rs, rt, rd)
  <2>1. UNCHANGED gpr \/ \E rd \in Regs, p \in Pipelines : ToDestination(p, rd)
    BY <1>1, ArithmeticKeeps
  <2> QED
    BY <2>1 DEF ToDestination, TypeOK, Quad, Pipelines
<1>2. CASE \E s \in Regs : Move(s)
  <2>1. UNCHANGED gpr \/ \E s \in Regs : \E d : Take(d, s)
    BY <1>2 DEF Move, MFHI, MFHI1, MFLO, MFLO1, MTHI, MTHI1, MTLO, MTLO1, Other,
                NoDestination
  <2> QED
    BY <2>1 DEF Take, TypeOK, Quad, Pipelines
<1>3. CASE \E rd \in Regs, fmt \in Formats : PMFHL(rd, fmt)
  <2>1. PICK rd \in Regs :
          \/ SetQuad(rd, [p \in Pipelines |-> LW(p)])
          \/ SetQuad(rd, [p \in Pipelines |-> UW(p)])
          \/ SetQuad(rd, [p \in Pipelines |-> LH(p)])
          \/ SetQuad(rd, [p \in Pipelines |-> SH(p)])
          \/ UNCHANGED vars
    BY <1>3 DEF PMFHL
  <2> QED
    BY <2>1, FormatsOfZero DEF SetQuad, vars, TypeOK, Pipelines
<1>4. CASE \E rt, rd \in Regs, f \in Factors : Shift(rt, rd, f)
  BY <1>4, ShiftKeeps DEF Shift
<1> QED
  BY <1>1, <1>2, <1>3, <1>4, Kinds

\* Without anything in an upper doubleword there is never anything: PMFHL and
\* the parallel shifts make zero of zero, and everything else writes the lower
\* doubleword.
THEOREM UpperStaysEmpty == Spec => UpperFromUpper
<1>1. TypeOK /\ [Next]_vars =>
        [\A r \in Regs : gpr'[r][1] # ZeroDouble =>
           \/ lo[1] # ZeroDouble \/ hi[1] # ZeroDouble
           \/ \E s \in Regs : gpr[s][1] # ZeroDouble]_vars
  BY UpperKept
<1> QED
  BY <1>1, TypeCorrect, PTL DEF Spec, UpperFromUpper

-----------------------------------------------------------------------------
(* Numbers of two digits.                                                  *)

LEMMA Digits ==
    ASSUME NEW d \in Nat \ {0}, NEW q \in Int, NEW r \in 0 .. (d - 1)
    PROVE  (d * q + r) \div d = q /\ (d * q + r) % d = r
<1> DEFINE n == d * q + r
           p == n \div d
           m == n % d
<1>1. n \in Int /\ p \in Int /\ m \in 0 .. (d - 1) /\ n = d * p + m
  OBVIOUS
<1>2. d * (p - q) = r - m
  <2> HIDE DEF p, m
  <2>1. d * (p - q) = d * p - d * q
    BY <1>1
  <2> QED
    BY <1>1, <2>1
<1>3. p = q
  <2> HIDE DEF n, p, m
  <2>1. CASE p - q >= 1
    <3>1. d * (p - q) >= d * 1
      BY <2>1, <1>1
    <3> QED
      BY <3>1, <1>1, <1>2
  <2>2. CASE p - q <= -1
    <3>1. d * (p - q) <= d * (-1)
      BY <2>2, <1>1
    <3> QED
      BY <3>1, <1>1, <1>2
  <2> QED
    BY <2>1, <2>2, <1>1
<1> QED
  BY <1>1, <1>2, <1>3

\* What is a multiple of d does not matter modulo d.
LEMMA AddMultiple ==
    ASSUME NEW d \in Nat \ {0}, NEW a \in Int, NEW i \in Int
    PROVE  (a + d * i) % d = a % d
<1> DEFINE q == a \div d
           r == a % d
<1>1. q \in Int /\ r \in 0 .. (d - 1) /\ a = d * q + r
  OBVIOUS
<1> HIDE DEF q, r
<1>2. a + d * i = d * (q + i) + r
  BY <1>1
<1>3. (d * (q + i) + r) % d = r
  BY <1>1, q + i \in Int, Digits
<1> QED
  BY <1>2, <1>3 DEF r

-----------------------------------------------------------------------------
(* Truncation and saturation.                                              *)

LEMMA HalfLane ==
    /\ LaneSize \div 2 \in Nat /\ LaneSize \div 2 >= 1
    /\ LaneSize = 2 * (LaneSize \div 2)
BY Sizes, LaneAssumption

LEMMA PackLanes ==
    ASSUME NEW l \in Int, NEW h \in Int
    PROVE  LowLane(Pack(l, h)) = l % LaneSize /\ HighLane(Pack(l, h)) = h % LaneSize
<1> DEFINE x == l % LaneSize
           y == h % LaneSize
<1>1. x \in 0 .. (LaneSize - 1) /\ y \in Int
  BY Sizes
<1>2. Pack(l, h) = LaneSize * y + x
  BY <1>1, Sizes DEF Pack
<1> HIDE DEF x, y
<1>3. (LaneSize * y + x) \div LaneSize = y /\ (LaneSize * y + x) % LaneSize = x
  BY <1>1, Sizes, Digits
<1> QED
  BY <1>2, <1>3 DEF LowLane, HighLane, x, y

\* A number that fits in a lane comes out of it.
LEMMA LaneFits ==
    ASSUME NEW c \in Int, -LaneSize <= 2 * c, 2 * c < LaneSize
    PROVE  SignedLane(c % LaneSize) = c
<1>1. CASE c >= 0
  <2>1. c % LaneSize = c
    BY <1>1, Sizes
  <2> QED
    BY <1>1, <2>1, Sizes DEF SignedLane
<1>2. CASE c < 0
  <2>1. c % LaneSize = c + LaneSize
    <3>1. c = LaneSize * (-1) + (c + LaneSize) /\ c + LaneSize \in 0 .. (LaneSize - 1)
      BY <1>2, Sizes
    <3> QED
      BY <3>1, Sizes, Digits
  <2> QED
    BY <1>2, <2>1, Sizes DEF SignedLane
<1> QED
  BY <1>1, <1>2

\* Saturation keeps the order, stays in a lane, and changes nothing that fits.
LEMMA ClampFacts ==
    ASSUME NEW w \in Word
    PROVE  /\ Clamp(w) \in Int /\ -LaneSize <= 2 * Clamp(w) /\ 2 * Clamp(w) < LaneSize
           /\ -LaneSize <= 2 * Signed(w) /\ 2 * Signed(w) < LaneSize => Clamp(w) = Signed(w)
           /\ \A v \in Word : Signed(w) <= Signed(v) => Clamp(w) <= Clamp(v)
<1>1. \A v \in Word : Signed(v) \in Int
  BY SignedType
<1> QED
  BY <1>1, HalfLane DEF Clamp

LEMMA SignedModulo ==
    ASSUME NEW w \in Word
    PROVE  Signed(w) % LaneSize = LowLane(w) % LaneSize
<1>1. w \in Int /\ LaneSize \in Nat \ {0}
  BY Sizes DEF Word
<1>2. LowLane(w) % LaneSize = w % LaneSize
  <2>1. w % LaneSize \in 0 .. (LaneSize - 1)
    BY <1>1
  <2> QED
    BY <1>1, <2>1 DEF LowLane
<1>3. (w + LaneSize * (-LaneSize)) % LaneSize = w % LaneSize
  BY <1>1, -LaneSize \in Int, AddMultiple
<1>4. w + LaneSize * (-LaneSize) = w - WordSize
  BY <1>1, Sizes
<1> QED
  BY <1>2, <1>3, <1>4 DEF Signed

\* PMFHL.LH and PMFHL.SH make the same lanes of words that fit in a lane, and
\* PMFHL.SH keeps the order of all others, whatever the handlers have left in
\* HI and LO.
THEOREM FormatsAlwaysAgree == Spec => []FormatsAgree
<1>1. TypeOK => FormatsAgree
  <2> SUFFICES ASSUME TypeOK, NEW p \in Pipelines
               PROVE  FormatsAgree!(p)
    BY DEF FormatsAgree
  <2>1. /\ lo[p].lo \in Word /\ lo[p].hi \in Word
        /\ hi[p].lo \in Word /\ hi[p].hi \in Word
    BY DEF TypeOK, Quad, Double
  <2>2. ASSUME NEW a \in Word, NEW b \in Word,
               -LaneSize <= 2 * Signed(a), 2 * Signed(a) < LaneSize,
               -LaneSize <= 2 * Signed(b), 2 * Signed(b) < LaneSize
        PROVE  Pack(Clamp(a), Clamp(b)) = Pack(LowLane(a), LowLane(b))
    BY <2>2, ClampFacts, SignedModulo DEF Pack
  <2>3. ASSUME NEW a \in Word, NEW b \in Word
        PROVE  /\ SignedLane(LowLane(Pack(Clamp(a), Clamp(b)))) = Clamp(a)
               /\ SignedLane(HighLane(Pack(Clamp(a), Clamp(b)))) = Clamp(b)
    BY <2>3, ClampFacts, PackLanes, LaneFits
  <2> QED
    BY <2>1, <2>2, <2>3, ClampFacts DEF SH, LH
<1> QED
  BY <1>1, TypeCorrect, PTL

-----------------------------------------------------------------------------
(* Bitwise OR with zero.                                                   *)

\* Induction, on sets of numbers.
LEMMA SetInduction ==
    ASSUME NEW S, 0 \in S, \A n \in Nat : n \in S => n + 1 \in S
    PROVE  \A n \in Nat : n \in S
<1> DEFINE T == Nat \ S
           R == OpToRel(<, Nat)
<1>1. SUFFICES ASSUME T # {} PROVE FALSE
  OBVIOUS
<1>2. PICK x \in T : \A y \in T : ~ (<<y, x>> \in R)
  <2> HIDE DEF R
  <2>1. IsWellFoundedOn(R, Nat)
    BY NatLessThanWellFounded DEF R
  <2> QED
    BY <1>1, <2>1, WFMin
<1>3. x - 1 \in Nat
  OBVIOUS
<1>4. x - 1 \notin T
  <2>1. <<x - 1, x>> \in R
    BY <1>3 DEF OpToRel
  <2> QED
    BY <2>1, <1>2
<1> QED
  BY <1>3, <1>4

\* The weight of a bit is a number without an odd divisor but 1.
IsWeight(b) == \A d \in 1 .. b : b % d = 0 => d = 1 \/ d % 2 = 0

LEMMA TwiceIsWeight ==
    ASSUME NEW b \in Nat \ {0}, IsWeight(b)
    PROVE  IsWeight(2 * b)
<1> SUFFICES ASSUME NEW d \in 1 .. (2 * b), (2 * b) % d = 0, d % 2 # 0
             PROVE  d = 1
  BY DEF IsWeight
<1> DEFINE q == (2 * b) \div d
           e == d \div 2
           f == q \div 2
<1>1. q \in Int /\ 2 * b = d * q
  BY 2 * b \in Int
<1>2. e \in Int /\ d = 2 * e + 1
  OBVIOUS
<1>3. f \in Int /\ (q = 2 * f \/ q = 2 * f + 1)
  BY <1>1
<1> HIDE DEF q, e, f
<1>4. d * q = 2 * (e * q) + q /\ e * q \in Int
  BY <1>1, <1>2
<1>5. q = 2 * f
  BY <1>1, <1>3, <1>4
<1>6. d * q = 2 * (d * f) /\ d * f \in Int
  BY <1>3, <1>5
<1>7. b = d * f
  BY <1>1, <1>6
<1>8. f >= 1
  <2>1. CASE f <= 0
    <3>1. d * f <= d * 0
      BY <2>1, <1>3
    <3> QED
      BY <3>1, <1>7
  <2> QED
    BY <2>1, <1>3
<1>9. d <= b
  <2>1. d * f >= d * 1
    BY <1>3, <1>8
  <2> QED
    BY <2>1, <1>7
<1>10. b % d = 0
  <2>1. (d * f + 0) % d = 0
    BY <1>3, Digits, d \in Nat \ {0}, 0 \in 0 .. (d - 1)
  <2> QED
    BY <2>1, <1>6, <1>7
<1> QED
  BY <1>9, <1>10 DEF IsWeight

\* Dividing by two and then by b is dividing by twice b.
LEMMA HalvesThen ==
    ASSUME NEW u \in Nat, NEW b \in Nat \ {0}
    PROVE  u \div (2 * b) = (u \div 2) \div b
<1> DEFINE q == u \div 2
           p == q \div b
<1>1. q \in Int /\ u % 2 \in 0 .. 1 /\ u = 2 * q + (u % 2)
  OBVIOUS
<1> HIDE DEF q
<1>2. p \in Int /\ q % b \in 0 .. (b - 1) /\ q = b * p + (q % b)
  BY <1>1
<1> HIDE DEF p
<1>3. u = (2 * b) * p + (2 * (q % b) + (u % 2))
  <2>1. (2 * b) * p = 2 * (b * p) /\ b * p \in Int
    BY <1>2
  <2>2. 2 * (b * p + (q % b)) = 2 * (b * p) + 2 * (q % b)
    BY <1>2
  <2>3. 2 * q = 2 * (b * p + (q % b))
    BY <1>2
  <2>4. 2 * q = (2 * b) * p + 2 * (q % b)
    BY <2>1, <2>2, <2>3
  <2>5. (2 * b) * p \in Int /\ 2 * (q % b) \in Int /\ u % 2 \in Int
    BY <1>1, <1>2
  <2> QED
    BY <1>1, <2>4, <2>5
<1>4. 2 * (q % b) + (u % 2) \in 0 .. (2 * b - 1) /\ 2 * b \in Nat \ {0}
  BY <1>1, <1>2
<1>5. ((2 * b) * p + (2 * (q % b) + (u % 2))) \div (2 * b) = p
  BY <1>2, <1>4, Digits
<1> QED
  BY <1>3, <1>5 DEF p, q

\* Two numbers that differ, differ in a bit.
LEMMA BitsTell ==
    ASSUME NEW u \in Word, NEW v \in Word, u # v
    PROVE  \E b \in Weights : Bit(u, b) # Bit(v, b)
<1> DEFINE Differ(x, y) ==
              \E b \in Nat \ {0} : /\ b <= x \/ b <= y
                                   /\ IsWeight(b)
                                   /\ Bit(x, b) # Bit(y, b)
           S == {n \in Nat : \A x, y \in Nat : x < n /\ y < n /\ x # y => Differ(x, y)}
<1>1. 0 \in S
  OBVIOUS
<1>2. ASSUME NEW n \in Nat, n \in S PROVE n + 1 \in S
  <2> SUFFICES ASSUME NEW x \in Nat, NEW y \in Nat, x < n + 1, y < n + 1, x # y
               PROVE  Differ(x, y)
    OBVIOUS
  <2>1. CASE x % 2 # y % 2
    <3>1. IsWeight(1)
      BY DEF IsWeight
    <3>2. x \div 1 = x /\ y \div 1 = y
      OBVIOUS
    <3>3. Bit(x, 1) # Bit(y, 1)
      BY <2>1, <3>2 DEF Bit
    <3>4. 1 <= x \/ 1 <= y
      OBVIOUS
    <3> QED
      BY <3>1, <3>3, <3>4
  <2>2. CASE x % 2 = y % 2
    <3> DEFINE s == x \div 2
               t == y \div 2
    <3>1. s \in Nat /\ t \in Nat /\ x = 2 * s + (x % 2) /\ y = 2 * t + (y % 2)
      OBVIOUS
    <3>2. s # t
      BY <2>2, <3>1
    <3>3. s < n /\ t < n
      BY <3>1, <3>2, <2>2
    <3>4. PICK b \in Nat \ {0} : /\ b <= s \/ b <= t
                                 /\ IsWeight(b)
                                 /\ Bit(s, b) # Bit(t, b)
      BY <1>2, <3>1, <3>2, <3>3
    <3>5. Bit(x, 2 * b) = Bit(s, b) /\ Bit(y, 2 * b) = Bit(t, b)
      BY HalvesThen DEF Bit
    <3>6. 2 * b <= x \/ 2 * b <= y
      BY <3>1, <3>4
    <3>7. 2 * b \in Nat \ {0} /\ IsWeight(2 * b)
      BY <3>4, TwiceIsWeight
    <3> HIDE DEF s, t
    <3> QED
      BY <3>4, <3>5, <3>6, <3>7
  <2> QED
    BY <2>1, <2>2
<1>3. WordSize \in S
  <2> HIDE DEF S
  <2> QED
    BY <1>1, <1>2, SetInduction, Sizes
<1>4. u \in Nat /\ v \in Nat /\ u < WordSize /\ v < WordSize
  BY Sizes DEF Word
<1>5. Differ(u, v)
  BY <1>3, <1>4
<1>6. PICK b \in Nat \ {0} : (b <= u \/ b <= v) /\ IsWeight(b) /\ Bit(u, b) # Bit(v, b)
  BY <1>5
<1>7. b \in Weights
  BY <1>4, <1>6, Sizes DEF Weights, IsWeight, Word
<1> QED
  BY <1>6, <1>7

LEMMA OrWithZero ==
    ASSUME NEW w \in Word
    PROVE  OrWords(0, w) = w
<1>1. \A b \in Weights : ~ Bit(0, b)
  <2> TAKE b \in Weights
  <2>1. b \in Nat \ {0}
    BY Sizes DEF Weights, Word
  <2>2. 0 = b * 0 + 0
    BY <2>1
  <2>3. 0 \div b = 0
    BY <2>1
  <2> QED
    BY <2>3 DEF Bit
<1> DEFINE IsOr(u) == \A b \in Weights : Bit(u, b) = (Bit(0, b) \/ Bit(w, b))
<1>2. IsOr(w)
  BY <1>1 DEF Bit
<1>3. ASSUME NEW u \in Word, IsOr(u) PROVE u = w
  <2>1. \A b \in Weights : Bit(u, b) = Bit(w, b)
    BY <1>1, <1>3 DEF Bit
  <2> QED
    BY <2>1, BitsTell
<1>4. OrWords(0, w) = CHOOSE u \in Word : IsOr(u)
  BY DEF OrWords
<1> HIDE DEF IsOr
<1> QED
  BY <1>2, <1>3, <1>4

-----------------------------------------------------------------------------
(* The accumulators.                                                       *)

LEMMA SamePromise ==
    /\ Promise!Double = Double /\ Promise!ZeroDouble = ZeroDouble
    /\ Promise!Pipelines = Pipelines
    /\ \A w : /\ Promise!Signed(w) = Signed(w)
              /\ Promise!SignExtend(w) = SignExtend(w)
              /\ Promise!ZeroExtend(w) = ZeroExtend(w)
    /\ \A i : Promise!ToWide(i) = ToWide(i)
BY DEF Promise!Double, Double, Promise!Word, Word, Promise!ZeroDouble, ZeroDouble,
       Promise!Pipelines, Pipelines, Promise!Signed, Signed, Promise!Negative, Negative,
       Promise!Half, Half, Promise!SignExtend, SignExtend, Promise!ZeroExtend, ZeroExtend,
       Promise!ToWide, ToWide, WideSize

LEMMA WideDigits ==
    ASSUME NEW h \in Word, NEW l \in Word
    PROVE  /\ h * WordSize + l \in Promise!Wide
           /\ Promise!Low(h * WordSize + l) = l
           /\ Promise!High(h * WordSize + l) = h
           /\ h * WordSize + l = WordSize * h + l
<1>1. h \in Nat /\ l \in 0 .. (WordSize - 1) /\ h <= WordSize - 1
  BY Sizes DEF Word
<1>2. h * WordSize + l = WordSize * h + l
  BY <1>1, Sizes
<1>3. WordSize * h <= WordSize * (WordSize - 1) /\ WordSize * h >= 0
  BY <1>1, Sizes
<1>4. WordSize * (WordSize - 1) = WordSize * WordSize - WordSize
  BY Sizes
<1>5. h * WordSize + l \in Promise!Wide
  BY <1>1, <1>2, <1>3, <1>4, Sizes DEF Promise!Wide
<1>6. WordSize \in Nat \ {0} /\ h \in Int
  BY <1>1, Sizes
<1>7. (WordSize * h + l) \div WordSize = h /\ (WordSize * h + l) % WordSize = l
  BY <1>1, <1>6, Digits
<1> QED
  BY <1>2, <1>5, <1>7 DEF Promise!Low, Promise!High

\* A number is its quotient and its remainder.
LEMMA DivisionParts ==
    ASSUME NEW d \in Nat \ {0}, NEW i \in Int
    PROVE  i \div d \in Int /\ i % d \in Int /\ i = d * (i \div d) + (i % d)
OBVIOUS

\* A 64-bit number is its two halves.
LEMMA WideHalves ==
    ASSUME NEW i \in Int
    PROVE  /\ ToWide(i) % WordSize \in Word /\ ToWide(i) \div WordSize \in Word
           /\ (ToWide(i) \div WordSize) * WordSize + (ToWide(i) % WordSize) = ToWide(i)
           /\ ToWide(i) % WordSize = i % WordSize
<1> DEFINE r == ToWide(i)
<1>1. LowHalf(r) \in Double /\ HighHalf(r) \in Double
  BY HalvesType
<1>2. r % WordSize \in Word /\ r \div WordSize \in Word
  BY <1>1 DEF LowHalf, HighHalf, SignExtend, Double
<1>3. WideSize \in Nat \ {0} /\ WideSize = WordSize * WordSize
  BY Sizes DEF WideSize
<1>4. r \in Int /\ \E j \in Int : i = WideSize * j + r
  <2>1. WideSize \in Nat \ {0}
    BY <1>3
  <2>2. i \div WideSize \in Int /\ i % WideSize \in Int
        /\ i = WideSize * (i \div WideSize) + (i % WideSize)
    BY <2>1, DivisionParts
  <2> QED
    BY <2>2 DEF ToWide
<1>5. i % WordSize = r % WordSize
  <2> HIDE DEF r
  <2>1. PICK j \in Int : i = WideSize * j + r
    BY <1>4
  <2>2. PICK m \in Int : m = WordSize * j
    BY Sizes
  <2>3. WideSize * j = WordSize * m
    BY <1>3, <2>2, Sizes
  <2>4. i = r + WordSize * m
    BY <1>3, <1>4, <2>1, <2>3, Sizes
  <2>5. WordSize \in Nat \ {0}
    BY Sizes
  <2>6. (r + WordSize * m) % WordSize = r % WordSize
    BY <1>4, <2>5, AddMultiple
  <2> QED
    BY <2>4, <2>6
<1> HIDE DEF r
<1>6. r = WordSize * (r \div WordSize) + (r % WordSize)
  BY <1>4, Sizes
<1>7. (r \div WordSize) * WordSize = WordSize * (r \div WordSize)
  BY <1>2, Sizes DEF Word
<1> QED
  BY <1>2, <1>5, <1>6, <1>7 DEF r

\* What a handler that computes leaves in pipeline p and in its destinations.
Leaves(p, dst, h, l) ==
    /\ h \in Double /\ l \in Double
    /\ l = SignExtend(l.lo) \/ l = ZeroExtend(l.lo)
    /\ SetHiLo(p, h, l)
    /\ \/ dst = {} /\ UNCHANGED gpr
       \/ \E rd \in Regs : dst = {rd} /\ ToDestination(p, rd)

LEMMA LeavesRefines ==
    ASSUME TypeOK, NEW p \in Pipelines, NEW dst, NEW h, NEW l, Leaves(p, dst, h, l)
    PROVE  /\ dst \in Promise!Destinations
           /\ Promise!Leave(p, dst)
           /\ [q \in Pipelines |-> Value(q)]'[p] = h.lo * WordSize + l.lo
           /\ h.lo * WordSize + l.lo \in Promise!Wide
           /\ Promise!Low(h.lo * WordSize + l.lo) = l.lo
           /\ Promise!High(h.lo * WordSize + l.lo) = h.lo
<1>1. dst \in Promise!Destinations
  BY DEF Leaves, Promise!Destinations
<1>2. /\ lo' = [lo EXCEPT ![p] = l] /\ hi' = [hi EXCEPT ![p] = h]
      /\ lo'[p] = l /\ hi'[p] = h
  BY DEF Leaves, SetHiLo, TypeOK, Quad
<1>3. /\ h.lo * WordSize + l.lo \in Promise!Wide
      /\ Promise!Low(h.lo * WordSize + l.lo) = l.lo
      /\ Promise!High(h.lo * WordSize + l.lo) = h.lo
  BY WideDigits DEF Leaves, Double
<1> DEFINE A == [q \in Pipelines |-> Value(q)]
           S == [q \in Pipelines |-> lo[q].hi]
           R == [r \in Regs |-> gpr[r][0]]
<1>4. A'[p] = h.lo * WordSize + l.lo
  BY <1>2 DEF Value
<1>5. A' = [A EXCEPT ![p] = A'[p]]
  <2>1. \A q \in Pipelines : q # p => Value(q)' = Value(q)
    BY <1>2 DEF Value, TypeOK, Quad
  <2> QED
    BY <2>1
<1>6. S' = [S EXCEPT ![p] = l.hi]
  <2>1. \A q \in Pipelines : lo'[q].hi = IF q = p THEN l.hi ELSE lo[q].hi
    BY <1>2 DEF TypeOK, Quad
  <2> QED
    BY <2>1
<1>7. R' = [r \in Regs |-> IF r \in dst THEN l ELSE R[r]]
  <2>1. CASE dst = {} /\ UNCHANGED gpr
    BY <2>1
  <2>2. CASE \E rd \in Regs : dst = {rd} /\ ToDestination(p, rd)
    <3>1. PICK rd \in Regs : dst = {rd} /\ gpr' = [gpr EXCEPT ![rd][0] = l]
      BY <1>2, <2>2 DEF ToDestination
    <3>2. \A r \in Regs : gpr'[r][0] = IF r = rd THEN l ELSE gpr[r][0]
      BY <3>1 DEF TypeOK, Quad, Pipelines
    <3> QED
      BY <3>1, <3>2
  <2> QED
    BY <2>1, <2>2 DEF Leaves
<1>8. l \in Promise!Extensions(Promise!Low(A'[p]))
  BY <1>3, <1>4, SamePromise DEF Leaves, Promise!Extensions
<1>9. Promise!Leave(p, dst)
  BY <1>5, <1>6, <1>7, <1>8 DEF Promise!Leave
<1> QED
  BY <1>1, <1>3, <1>4, <1>9

\* Products and sums.
LEMMA ProductLeaves ==
    ASSUME TypeOK, NEW p \in Pipelines, NEW i \in Int, SetProduct(p, ToWide(i)), NEW dst,
           \/ dst = {} /\ UNCHANGED gpr
           \/ \E rd \in Regs : dst = {rd} /\ ToDestination(p, rd)
    PROVE  /\ dst \in Promise!Destinations
           /\ Promise!Leave(p, dst)
           /\ [q \in Pipelines |-> Value(q)]'[p] = ToWide(i)
           /\ ToWide(i) \in Promise!Wide
<1> DEFINE h == HighHalf(ToWide(i))
           l == LowHalf(ToWide(i))
<1>1. h \in Double /\ l \in Double
  BY HalvesType
<1>2. h.lo = ToWide(i) \div WordSize /\ l.lo = ToWide(i) % WordSize /\ l = SignExtend(l.lo)
  BY DEF HighHalf, LowHalf, SignExtend
<1>3. Leaves(p, dst, h, l)
  BY <1>1, <1>2 DEF Leaves, SetProduct
<1>4. h.lo * WordSize + l.lo = ToWide(i)
  BY <1>2, WideHalves
<1> HIDE DEF h, l
<1> QED
  BY <1>3, <1>4, LeavesRefines

LEMMA SameOperands ==
    ASSUME TypeOK, NEW rs \in Regs, NEW rt \in Regs
    PROVE  /\ <<i32(rs), i32(rt)>> \in Promise!Operands(rs, rt)
           /\ <<u32(rs), u32(rt)>> \in Promise!Operands(rs, rt)
BY SamePromise DEF Promise!Operands, i32, u32

\* The multiplications of both pipelines.
LEMMA MultiplyRefines ==
    ASSUME TypeOK, NEW p \in Pipelines, NEW rs \in Regs, NEW rt \in Regs, NEW dst,
           \/ SetProduct(p, ToWide(i32(rs) * i32(rt)))
           \/ SetProduct(p, ToWide(u32(rs) * u32(rt))),
           \/ dst = {} /\ UNCHANGED gpr
           \/ \E rd \in Regs : dst = {rd} /\ ToDestination(p, rd)
    PROVE  Promise!ANext
<1> USE SameOperands
<1>1. PICK o \in Promise!Operands(rs, rt) :
        /\ o[1] \in Int /\ o[2] \in Int /\ SetProduct(p, ToWide(o[1] * o[2]))
  <2>1. CASE SetProduct(p, ToWide(i32(rs) * i32(rt)))
    <3> WITNESS <<i32(rs), i32(rt)>> \in Promise!Operands(rs, rt)
    <3> QED
      BY <2>1, OperandTypes
  <2>2. CASE SetProduct(p, ToWide(u32(rs) * u32(rt)))
    <3> WITNESS <<u32(rs), u32(rt)>> \in Promise!Operands(rs, rt)
    <3> QED
      BY <2>2, OperandTypes
  <2> QED
    BY <2>1, <2>2
<1>2. o[1] * o[2] \in Int
  BY <1>1
<1>3. /\ dst \in Promise!Destinations
      /\ Promise!Leave(p, dst)
      /\ [q \in Pipelines |-> Value(q)]'[p] = ToWide(o[1] * o[2])
      /\ ToWide(o[1] * o[2]) \in Promise!Wide
  BY <1>1, <1>2, ProductLeaves
<1>4. Promise!Multiply(p, rs, rt)
  BY <1>1, <1>3, SamePromise DEF Promise!Multiply
<1> QED
  BY <1>3, <1>4, SamePromise DEF Promise!ANext

\* The sums: exact in pipeline 1, and in pipeline 0 if nothing is above LO;
\* otherwise the lower word is.
LEMMA SumAgrees ==
    ASSUME TypeOK, NEW p \in Pipelines, NEW i \in Int
    PROVE  \/ ToWide(Accumulated(p) + i) = ToWide(Value(p) + i)
           \/ /\ p = 0 /\ lo[p].hi # 0
              /\ Promise!Low(ToWide(Accumulated(p) + i))
                   = Promise!Low(ToWide(Value(p) + i))
<1> DEFINE w == OrWords(lo[p].hi, hi[p].lo)
<1>1. /\ lo[p].lo \in Word /\ lo[p].hi \in Word /\ hi[p].lo \in Word /\ w \in Word
  BY OrType DEF TypeOK, Quad, Double
<1>2. /\ lo[p].lo \in Int /\ hi[p].lo \in Int /\ w \in Int
      /\ WordSize \in Nat \ {0}
  BY <1>1, Sizes DEF Word
<1>3. hi[p].lo * WordSize = WordSize * hi[p].lo
  BY <1>2
<1>4. CASE p = 1
  BY <1>2, <1>3, <1>4 DEF Accumulated, Masked, Value
<1>5. CASE p = 0 /\ lo[p].hi = 0
  <2>1. w = hi[p].lo
    BY <1>1, <1>5, OrWithZero
  <2> QED
    BY <1>2, <1>3, <1>5, <2>1 DEF Accumulated, Unmasked, Value
<1>6. CASE p = 0 /\ lo[p].hi # 0
  <2> DEFINE a == Accumulated(p) + i
             b == Value(p) + i
             c == lo[p].lo + i
  <2>1. a = c + WordSize * w /\ b = c + WordSize * hi[p].lo /\ c \in Int
    <3>1. WordSize * w \in Int /\ WordSize * hi[p].lo \in Int
      BY <1>2
    <3> HIDE DEF w
    <3>2. Accumulated(p) = lo[p].lo + WordSize * w
      BY <1>6 DEF Accumulated, Unmasked, w
    <3>3. Value(p) = WordSize * hi[p].lo + lo[p].lo
      BY <1>3 DEF Value
    <3>4. a = c + WordSize * w
      BY <1>2, <3>1, <3>2
    <3>5. b = c + WordSize * hi[p].lo
      BY <1>2, <3>1, <3>3
    <3> QED
      BY <1>2, <3>4, <3>5
  <2> HIDE DEF w
  <2>2. (c + WordSize * w) % WordSize = c % WordSize
    BY <1>2, <2>1, AddMultiple
  <2>3. (c + WordSize * hi[p].lo) % WordSize = c % WordSize
    BY <1>2, <2>1, AddMultiple
  <2>4. a \in Int /\ b \in Int
    BY <1>2, <2>1
  <2> HIDE DEF a, b, c
  <2>5. a % WordSize = b % WordSize
    BY <2>1, <2>2, <2>3
  <2>6. ToWide(a) % WordSize = ToWide(b) % WordSize
    BY <2>4, <2>5, WideHalves
  <2> QED
    BY <1>6, <2>6 DEF a, b, Promise!Low
<1> QED
  BY <1>4, <1>5, <1>6 DEF Pipelines

LEMMA MultiplyAddRefines ==
    ASSUME TypeOK, NEW p \in Pipelines, NEW rs \in Regs, NEW rt \in Regs, NEW rd \in Regs,
           \/ SetProduct(p, ToWide(Accumulated(p) + i32(rs) * i32(rt)))
           \/ SetProduct(p, ToWide(Accumulated(p) + u32(rs) * u32(rt))),
           ToDestination(p, rd)
    PROVE  Promise!ANext
<1>1. PICK o \in Promise!Operands(rs, rt) :
        /\ o[1] * o[2] \in Int /\ Accumulated(p) + o[1] * o[2] \in Int
        /\ SetProduct(p, ToWide(Accumulated(p) + o[1] * o[2]))
  <2>1. CASE SetProduct(p, ToWide(Accumulated(p) + i32(rs) * i32(rt)))
    BY <2>1, SameOperands, ProductTypes
  <2>2. CASE SetProduct(p, ToWide(Accumulated(p) + u32(rs) * u32(rt)))
    BY <2>2, SameOperands, ProductTypes
  <2> QED
    BY <2>1, <2>2
<1> DEFINE i == o[1] * o[2]
<1>2. /\ {rd} \in Promise!Destinations
      /\ Promise!Leave(p, {rd})
      /\ [q \in Pipelines |-> Value(q)]'[p] = ToWide(Accumulated(p) + i)
      /\ ToWide(Accumulated(p) + i) \in Promise!Wide
  BY <1>1, ProductLeaves
<1>3. \/ ToWide(Accumulated(p) + i) = ToWide(Value(p) + i)
      \/ /\ p = 0 /\ lo[p].hi # 0
         /\ Promise!Low(ToWide(Accumulated(p) + i)) = Promise!Low(ToWide(Value(p) + i))
  BY <1>1, SumAgrees
<1>4. Promise!MultiplyAdd(p, rs, rt)
  BY <1>1, <1>2, <1>3, SamePromise DEF Promise!MultiplyAdd
<1> QED
  BY <1>2, <1>4, SamePromise DEF Promise!ANext

\* Division that truncates towards zero.
LEMMA TruncatedDivision ==
    ASSUME NEW a \in Int, NEW b \in Int, b # 0
    PROVE  /\ Promise!IsDivision(a, b, Quotient(a, b), Remainder(a, b))
           /\ Magnitude(Quotient(a, b)) <= Magnitude(a)
           /\ Magnitude(Remainder(a, b)) < Magnitude(b)
<1> DEFINE m == Magnitude(a)
           n == Magnitude(b)
           q == m \div n
           r == m % n
<1>1. m \in Nat /\ n \in Nat \ {0} /\ (a = m \/ a = -m) /\ (b = n \/ b = -n)
      /\ (a < 0 => a = -m) /\ (a >= 0 => a = m) /\ (b < 0 => b = -n) /\ (b >= 0 => b = n)
  BY DEF Magnitude
<1>2. q \in 0 .. m /\ r \in 0 .. (n - 1) /\ m = n * q + r
  <2> HIDE DEF m, n
  <2>1. q \in 0 .. m
    BY <1>1, DivisionType
  <2>2. r \in 0 .. (n - 1) /\ m = n * q + r
    BY <1>1
  <2> QED
    BY <2>1, <2>2
<1>3. Quotient(a, b) = IF (a < 0) = (b < 0) THEN q ELSE -q
  BY DEF Quotient
<1> HIDE DEF m, n, q, r
<1> DEFINE s == Quotient(a, b)
           t == Remainder(a, b)
<1>4. s \in Int /\ n * q \in Int /\ b * s \in Int /\ t = a - b * s
  BY <1>1, <1>2, <1>3 DEF Remainder
<1>5. b * s = IF a < 0 THEN -(n * q) ELSE n * q
  <2>1. CASE a < 0 /\ b < 0
    BY <1>1, <1>2, <1>3, <2>1
  <2>2. CASE a < 0 /\ b > 0
    BY <1>1, <1>2, <1>3, <2>2
  <2>3. CASE a >= 0 /\ b < 0
    BY <1>1, <1>2, <1>3, <2>3
  <2>4. CASE a >= 0 /\ b > 0
    BY <1>1, <1>2, <1>3, <2>4
  <2> QED
    BY <2>1, <2>2, <2>3, <2>4
<1>6. t = IF a < 0 THEN -r ELSE r
  BY <1>1, <1>2, <1>4, <1>5
<1>7. a = s * b + t
  <2>1. s * b = b * s
    BY <1>4
  <2> QED
    BY <1>4, <2>1
<1>8. IF b > 0 THEN -b < t /\ t < b ELSE b < t /\ t < -b
  BY <1>1, <1>2, <1>6
<1>9. t # 0 => (t < 0) = (a < 0)
  BY <1>2, <1>6
<1>10. Magnitude(s) <= m /\ Magnitude(t) < n
  BY <1>1, <1>2, <1>3, <1>6 DEF Magnitude
<1> HIDE DEF s, t
<1>11. Promise!IsDivision(a, b, s, t)
  BY <1>7, <1>8, <1>9 DEF Promise!IsDivision
<1> QED
  BY <1>10, <1>11 DEF s, t, m, n

\* A number near zero can be read from its word.
LEMMA NearZero ==
    ASSUME NEW i \in Int, -WordSize <= i, i < WordSize
    PROVE  i \in Promise!Readings(ToWord(i))
<1>1. CASE i >= 0
  <2>1. ToWord(i) = i
    BY <1>1, Sizes DEF ToWord
  <2> QED
    BY <2>1 DEF Promise!Readings
<1>2. CASE i < 0
  <2>1. i = WordSize * (-1) + (i + WordSize) /\ i + WordSize \in 0 .. (WordSize - 1)
    BY <1>2, Sizes
  <2>2. (WordSize * (-1) + (i + WordSize)) % WordSize = i + WordSize
    <3>1. WordSize \in Nat \ {0} /\ -1 \in Int
      BY Sizes
    <3> QED
      BY <2>1, <3>1, Digits
  <2>3. ToWord(i) = i + WordSize
    BY <2>1, <2>2 DEF ToWord
  <2> QED
    BY <2>3, Sizes DEF Promise!Readings
<1> QED
  BY <1>1, <1>2

LEMMA SignedRange ==
    ASSUME NEW w \in Word
    PROVE  /\ -Half <= Signed(w) /\ Signed(w) < Half
           /\ Signed(w) \in {w, w - WordSize} /\ Signed(w) \in Int
           /\ 2 * Half = WordSize
<1>1. 2 * Half = WordSize
  BY WordSizeAssumption DEF Half
<1> QED
  BY <1>1, Sizes DEF Signed, Negative, Word

\* What the two divisions leave is a quotient and a remainder.
LEMMA QuotientLeaves ==
    ASSUME TypeOK, NEW p \in Pipelines, NEW rs \in Regs, NEW rt \in Regs,
           SetQuotient(p, rs, rt) \/ SetQuotientUnsigned(p, rs, rt)
    PROVE  \E h, l \in Double :
             /\ SetHiLo(p, h, l)
             /\ l = SignExtend(l.lo) \/ l = ZeroExtend(l.lo)
             /\ \E q \in Promise!Readings(l.lo), r \in Promise!Readings(h.lo),
                   o \in Promise!Operands(rs, rt) :
                     Promise!IsDivision(o[1], o[2], q, r)
<1> DEFINE Divided(h, l) ==
             \E q \in Promise!Readings(l.lo), r \in Promise!Readings(h.lo),
                o \in Promise!Operands(rs, rt) :
                  Promise!IsDivision(o[1], o[2], q, r)
<1>1. /\ u32(rs) \in Word /\ u32(rt) \in Word /\ u32(rs) \in Nat /\ u32(rt) \in Nat
      /\ i32(rs) = Signed(u32(rs)) /\ i32(rt) = Signed(u32(rt))
      /\ i32(rs) \in Int /\ i32(rt) \in Int
  BY OperandTypes DEF i32, u32
<1>2. /\ \A w \in Word : SignExtend(w).lo = w /\ ZeroExtend(w).lo = w
      /\ ZeroDouble = ZeroExtend(0)
  BY DEF SignExtend, ZeroExtend, ZeroDouble
\* It is enough to name the words, the quotient and the remainder.
<1>3. ASSUME NEW h \in Double, NEW l \in Double, SetHiLo(p, h, l),
             l = SignExtend(l.lo) \/ l = ZeroExtend(l.lo),
             NEW q \in Promise!Readings(l.lo), NEW r \in Promise!Readings(h.lo),
             \/ Promise!IsDivision(i32(rs), i32(rt), q, r)
             \/ Promise!IsDivision(u32(rs), u32(rt), q, r)
      PROVE  \E hh, ll \in Double : /\ SetHiLo(p, hh, ll)
                                    /\ ll = SignExtend(ll.lo) \/ ll = ZeroExtend(ll.lo)
                                    /\ Divided(hh, ll)
  <2>1. CASE Promise!IsDivision(i32(rs), i32(rt), q, r)
    <3> DEFINE o == <<i32(rs), i32(rt)>>
    <3>1. o \in Promise!Operands(rs, rt) /\ Promise!IsDivision(o[1], o[2], q, r)
      BY <2>1, SameOperands
    <3> QED
      BY <1>3, <3>1
  <2>2. CASE Promise!IsDivision(u32(rs), u32(rt), q, r)
    <3> DEFINE o == <<u32(rs), u32(rt)>>
    <3>1. o \in Promise!Operands(rs, rt) /\ Promise!IsDivision(o[1], o[2], q, r)
      BY <2>2, SameOperands
    <3> QED
      BY <1>3, <3>1
  <2> QED
    BY <1>3, <2>1, <2>2
<1>4. \A w \in Word : w \in Promise!Readings(w) /\ Signed(w) \in Promise!Readings(w)
  BY SignedRange DEF Promise!Readings
<1>5. \A x, q \in Int : Promise!IsDivision(x, 0, q, x)
  BY DEF Promise!IsDivision
<1>6. CASE SetQuotient(p, rs, rt)
  <2> DEFINE a == i32(rs)
             b == i32(rt)
  <2>1. CASE b = 0
    <3> DEFINE h == SignExtend(u32(rs))
               v == IF a >= 0 THEN WordSize - 1 ELSE 1
               l == ZeroExtend(v)
    <3>1. SetHiLo(p, h, l)
      BY <1>6, <2>1 DEF SetQuotient
    <3>2. v \in Word /\ v \in Int
      BY SmallWords, Sizes
    <3>3. h \in Double /\ l \in Double /\ h.lo = u32(rs) /\ l.lo = v
      BY <1>1, <1>2, <3>2, ExtendType
    <3>4. v \in Promise!Readings(l.lo) /\ a \in Promise!Readings(h.lo)
      BY <1>1, <1>4, <3>2, <3>3
    <3>5. Promise!IsDivision(a, b, v, a)
      BY <1>1, <1>5, <2>1, <3>2
    <3> HIDE DEF h, v
    <3> QED
      BY <1>3, <3>1, <3>3, <3>4, <3>5
  <2>2. CASE b # 0 /\ b = -1 /\ a = -Half
    <3>1. SetHiLo(p, ZeroDouble, ZeroExtend(Half))
      BY <1>6, <2>2 DEF SetQuotient
    <3>2. /\ ZeroDouble \in Double /\ ZeroExtend(Half) \in Double
          /\ ZeroDouble.lo = 0 /\ ZeroExtend(Half).lo = Half
      BY <1>2, ZeroType, ExtendType, SmallWords
    <3>3. Half \in Promise!Readings(Half) /\ 0 \in Promise!Readings(0)
      BY <1>4, SmallWords
    <3>4. Promise!IsDivision(a, b, Half, 0)
      BY <2>2, Sizes DEF Promise!IsDivision
    <3> QED
      BY <1>3, <3>1, <3>2, <3>3, <3>4
  <2>3. CASE b # 0 /\ ~ (b = -1 /\ a = -Half)
    <3> DEFINE q == Quotient(a, b)
               r == Remainder(a, b)
               h == SignExtend(ToWord(r))
               l == SignExtend(ToWord(q))
    <3>1. SetHiLo(p, h, l)
      BY <1>6, <2>3 DEF SetQuotient
    <3>2. q \in Int /\ r \in Int /\ ToWord(q) \in Word /\ ToWord(r) \in Word
      BY <1>1, <2>3, QuotientType, ToWordType
    <3>3. /\ Promise!IsDivision(a, b, q, r)
          /\ Magnitude(q) <= Magnitude(a) /\ Magnitude(r) < Magnitude(b)
      BY <1>1, <2>3, TruncatedDivision
    <3>4. h \in Double /\ l \in Double /\ h.lo = ToWord(r) /\ l.lo = ToWord(q)
      BY <1>2, <3>2, ExtendType
    <3>5. /\ -Half <= a /\ a < Half /\ -Half <= b /\ b < Half
          /\ 2 * Half = WordSize /\ Half \in Nat
      BY <1>1, SignedRange, Sizes
    <3>6. -WordSize <= q /\ q < WordSize /\ -WordSize <= r /\ r < WordSize
      <4> HIDE DEF q, r
      <4> QED
        BY <1>1, <3>2, <3>3, <3>5, Sizes DEF Magnitude
    <3>7. q \in Promise!Readings(l.lo) /\ r \in Promise!Readings(h.lo)
      <4> HIDE DEF q, r
      <4> QED
        BY <3>2, <3>4, <3>6, NearZero
    <3> HIDE DEF q, r
    <3> QED
      BY <1>3, <3>1, <3>3, <3>4, <3>7
  <2> QED
    BY <2>1, <2>2, <2>3
<1>7. CASE SetQuotientUnsigned(p, rs, rt)
  <2> DEFINE a == u32(rs)
             b == u32(rt)
  <2>1. CASE b = 0
    <3>1. SetHiLo(p, ZeroExtend(a), ZeroExtend(WordSize - 1))
      BY <1>7, <2>1 DEF SetQuotientUnsigned
    <3>2. /\ ZeroExtend(a) \in Double /\ ZeroExtend(WordSize - 1) \in Double
          /\ ZeroExtend(a).lo = a /\ ZeroExtend(WordSize - 1).lo = WordSize - 1
      BY <1>1, <1>2, ExtendType, SmallWords
    <3>3. WordSize - 1 \in Promise!Readings(WordSize - 1) /\ a \in Promise!Readings(a)
      BY <1>1, <1>4, SmallWords
    <3>4. Promise!IsDivision(a, b, WordSize - 1, a)
      BY <1>1, <1>5, <2>1, Sizes
    <3> QED
      BY <1>3, <3>1, <3>2, <3>3, <3>4
  <2>2. CASE b # 0
    <3> DEFINE q == a \div b
               r == a % b
    <3>1. SetHiLo(p, ZeroExtend(r), ZeroExtend(q))
      BY <1>7, <2>2 DEF SetQuotientUnsigned
    <3> HIDE DEF a, b
    <3>2. a \in Nat /\ b \in Nat \ {0} /\ a \in Word /\ b \in Word
      BY <1>1, <2>2 DEF a, b
    <3>3. q \in 0 .. a /\ r \in 0 .. (b - 1) /\ a = b * q + r
      BY <3>2, DivisionType
    <3>4. q \in Word /\ r \in Word
      BY <3>2, <3>3, Sizes DEF Word
    <3>5. Promise!IsDivision(a, b, q, r)
      <4> HIDE DEF q, r
      <4>1. b * q = q * b
        BY <3>2, <3>3
      <4> QED
        BY <3>2, <3>3, <4>1 DEF Promise!IsDivision
    <3> HIDE DEF q, r
    <3>6. /\ ZeroExtend(r) \in Double /\ ZeroExtend(q) \in Double
          /\ ZeroExtend(r).lo = r /\ ZeroExtend(q).lo = q
      BY <1>2, <3>4, ExtendType
    <3>7. q \in Promise!Readings(q) /\ r \in Promise!Readings(r)
      BY <1>4, <3>4
    <3> QED
      BY <1>3, <3>1, <3>5, <3>6, <3>7 DEF a, b
  <2> QED
    BY <2>1, <2>2
<1> QED
  BY <1>6, <1>7

LEMMA DivideRefines ==
    ASSUME TypeOK, NEW p \in Pipelines, NEW rs \in Regs, NEW rt \in Regs, NEW dst,
           SetQuotient(p, rs, rt) \/ SetQuotientUnsigned(p, rs, rt),
           \/ dst = {} /\ UNCHANGED gpr
           \/ \E rd \in Regs : dst = {rd} /\ ToDestination(p, rd)
    PROVE  Promise!ANext
<1>1. PICK h \in Double, l \in Double :
        /\ SetHiLo(p, h, l)
        /\ l = SignExtend(l.lo) \/ l = ZeroExtend(l.lo)
        /\ \E q \in Promise!Readings(l.lo), r \in Promise!Readings(h.lo),
              o \in Promise!Operands(rs, rt) :
                Promise!IsDivision(o[1], o[2], q, r)
  BY QuotientLeaves
<1>2. Leaves(p, dst, h, l)
  BY <1>1 DEF Leaves
<1>3. /\ dst \in Promise!Destinations
      /\ Promise!Leave(p, dst)
      /\ [q \in Pipelines |-> Value(q)]'[p] = h.lo * WordSize + l.lo
      /\ h.lo * WordSize + l.lo \in Promise!Wide
      /\ Promise!Low(h.lo * WordSize + l.lo) = l.lo
      /\ Promise!High(h.lo * WordSize + l.lo) = h.lo
  BY <1>2, LeavesRefines
<1>4. Promise!Divide(p, rs, rt)
  BY <1>1, <1>3 DEF Promise!Divide
<1> QED
  BY <1>3, <1>4, SamePromise DEF Promise!ANext

\* The registers change in one place and the accumulators not at all.
LEMMA RegisterChanged ==
    ASSUME TypeOK, NEW rd \in Regs, NEW q \in Quad, gpr' = [gpr EXCEPT ![rd] = q],
           UNCHANGED <<lo, hi>>
    PROVE  /\ [r \in Regs |-> gpr[r][0]]' = [[r \in Regs |-> gpr[r][0]] EXCEPT ![rd] = q[0]]
           /\ UNCHANGED [p \in Pipelines |-> Value(p)]
           /\ UNCHANGED [p \in Pipelines |-> lo[p].hi]
           /\ q[0] \in Double
<1>1. \A r \in Regs : gpr'[r][0] = IF r = rd THEN q[0] ELSE gpr[r][0]
  BY DEF TypeOK
<1> QED
  BY <1>1 DEF Value, Quad, Pipelines

LEMMA QuadRefines ==
    ASSUME TypeOK, NEW rd \in Regs, NEW q \in Quad, SetQuad(rd, q)
    PROVE  Promise!ANext
<1> DEFINE R == [r \in Regs |-> gpr[r][0]]
<1>1. Promise!Rework(rd)
  <2>1. /\ R' = [R EXCEPT ![rd] = q[0]] /\ q[0] \in Double
        /\ UNCHANGED <<[p \in Pipelines |-> Value(p)], [p \in Pipelines |-> lo[p].hi]>>
    BY RegisterChanged DEF SetQuad
  <2>2. R'[rd] = q[0]
    <3>1. rd \in DOMAIN R /\ R = [r \in DOMAIN R |-> R[r]]
      OBVIOUS
    <3> HIDE DEF R
    <3> QED
      BY <2>1, <3>1
  <2> QED
    BY <2>1, <2>2, SamePromise DEF Promise!Rework
<1> QED
  BY <1>1 DEF Promise!ANext

LEMMA TakeChanges ==
    ASSUME TypeOK, NEW rd \in Regs, NEW d \in Double, Take(d, rd)
    PROVE  /\ [r \in Regs |-> gpr[r][0]]' = [[r \in Regs |-> gpr[r][0]] EXCEPT ![rd] = d]
           /\ UNCHANGED [p \in Pipelines |-> Value(p)]
           /\ UNCHANGED [p \in Pipelines |-> lo[p].hi]
<1> DEFINE q == [gpr[rd] EXCEPT ![0] = d]
<1>1. q \in Quad /\ q[0] = d
  BY DEF TypeOK, Quad, Pipelines
<1>2. gpr' = [gpr EXCEPT ![rd] = q] /\ UNCHANGED <<lo, hi>>
  BY DEF Take
<1> HIDE DEF q
<1> QED
  BY <1>1, <1>2, RegisterChanged

\* The moves from HI and LO.
LEMMA MoveFromRefines ==
    ASSUME TypeOK, NEW p \in Pipelines, NEW rd \in Regs,
           Take(hi[p], rd) \/ Take(lo[p], rd)
    PROVE  Promise!ANext
<1>1. hi[p] \in Double /\ lo[p] \in Double /\ hi[p].lo \in Word /\ lo[p].lo \in Word
  BY DEF TypeOK, Quad, Double
<1>2. Promise!Low(Value(p)) = lo[p].lo /\ Promise!High(Value(p)) = hi[p].lo
  BY <1>1, WideDigits DEF Value
<1>3. PICK d \in Double : Take(d, rd) /\ (d = hi[p] \/ d = lo[p])
  BY <1>1
<1>4. Promise!MoveFrom(p, rd)
  BY <1>2, <1>3, TakeChanges, SamePromise DEF Promise!MoveFrom
<1> QED
  BY <1>4, SamePromise DEF Promise!ANext

\* The moves to HI and LO.
LEMMA MoveToRefines ==
    ASSUME TypeOK, NEW p \in Pipelines, NEW rs \in Regs, UNCHANGED gpr,
           SetHiLo(p, gpr[rs][0], lo[p]) \/ SetHiLo(p, hi[p], gpr[rs][0])
    PROVE  Promise!ANext
<1> DEFINE A == [q \in Pipelines |-> Value(q)]
           S == [q \in Pipelines |-> lo[q].hi]
           d == gpr[rs][0]
<1>1. /\ d \in Double /\ d.lo \in Word /\ hi[p].lo \in Word /\ lo[p].lo \in Word
      /\ lo[p] \in Double /\ hi[p] \in Double
  BY DEF TypeOK, Quad, Double, Pipelines
<1>2. Promise!Low(A[p]) = lo[p].lo /\ Promise!High(A[p]) = hi[p].lo
  BY <1>1, WideDigits DEF Value
<1>3. UNCHANGED [r \in Regs |-> gpr[r][0]]
  OBVIOUS
<1>4. CASE SetHiLo(p, d, lo[p])
  <2>1. /\ \A q \in Pipelines : lo'[q] = lo[q]
        /\ \A q \in Pipelines : hi'[q] = IF q = p THEN d ELSE hi[q]
    BY <1>4 DEF SetHiLo, TypeOK, Quad
  <2>2. A' = [A EXCEPT ![p] = Promise!Join(d.lo, Promise!Low(A[p]))]
    BY <1>2, <2>1 DEF Value, Promise!Join
  <2>3. S' = S
    BY <2>1
  <2>4. Promise!MoveToHigh(p, rs)
    BY <1>3, <2>2, <2>3 DEF Promise!MoveToHigh
  <2> QED
    BY <2>4, SamePromise DEF Promise!ANext
<1>5. CASE SetHiLo(p, hi[p], d)
  <2>1. /\ \A q \in Pipelines : hi'[q] = hi[q]
        /\ \A q \in Pipelines : lo'[q] = IF q = p THEN d ELSE lo[q]
    BY <1>5 DEF SetHiLo, TypeOK, Quad
  <2>2. A' = [A EXCEPT ![p] = Promise!Join(Promise!High(A[p]), d.lo)]
    BY <1>2, <2>1 DEF Value, Promise!Join
  <2>3. S' = [S EXCEPT ![p] = d.hi]
    BY <2>1
  <2>4. Promise!MoveToLow(p, rs)
    BY <1>3, <2>2, <2>3 DEF Promise!MoveToLow
  <2> QED
    BY <2>4, SamePromise DEF Promise!ANext
<1> QED
  BY <1>4, <1>5

LEMMA MovesRefine ==
    ASSUME TypeOK, NEW r \in Regs, Move(r)
    PROVE  Promise!ANext
<1>1. 0 \in Pipelines /\ 1 \in Pipelines
  BY DEF Pipelines
<1>2. CASE MFHI(r) \/ MFHI1(r) \/ MFLO(r) \/ MFLO1(r)
  BY <1>1, <1>2, MoveFromRefines DEF MFHI, MFHI1, MFLO, MFLO1
<1>3. CASE MTHI(r) \/ MTHI1(r) \/ MTLO(r) \/ MTLO1(r)
  BY <1>1, <1>3, MoveToRefines DEF MTHI, MTHI1, MTLO, MTLO1, NoDestination
<1>4. CASE \E d \in Values : Other(r, d)
  <2>1. PICK d \in Values : Take(d, r)
    BY <1>4 DEF Other
  <2>2. Promise!Other(r)
    BY <2>1, TakeChanges, ValuesAssumption DEF Promise!Other
  <2> QED
    BY <2>2 DEF Promise!ANext
<1> QED
  BY <1>2, <1>3, <1>4 DEF Move

\* The handlers that compute.
LEMMA ArithmeticRefines ==
    ASSUME TypeOK, NEW rs \in Regs, NEW rt \in Regs, NEW rd \in Regs,
           Arithmetic0(rs, rt) \/ Arithmetic1(rs, rt, rd)
    PROVE  Promise!ANext
<1>1. 0 \in Pipelines /\ 1 \in Pipelines
  BY DEF Pipelines
<1>2. CASE MULT(rs, rt) \/ MULTU(rs, rt)
  BY <1>1, <1>2, MultiplyRefines DEF MULT, MULTU, NoDestination
<1>3. CASE DIV(rs, rt) \/ DIVU(rs, rt)
  BY <1>1, <1>3, DivideRefines DEF DIV, DIVU, NoDestination
<1>4. CASE MADD(rs, rt, rd) \/ MADDU(rs, rt, rd)
  BY <1>1, <1>4, MultiplyAddRefines DEF MADD, MADDU
<1>5. CASE MADD1(rs, rt, rd) \/ MADDU1(rs, rt, rd)
  BY <1>1, <1>5, MultiplyAddRefines DEF MADD1, MADDU1
<1>6. CASE MULT1(rs, rt, rd) \/ MULTU1(rs, rt, rd)
  BY <1>1, <1>6, MultiplyRefines DEF MULT1, MULTU1
<1>7. CASE DIV1(rs, rt, rd) \/ DIVU1(rs, rt, rd)
  BY <1>1, <1>7, DivideRefines DEF DIV1, DIVU1
<1> QED
  BY <1>2, <1>3, <1>4, <1>5, <1>6, <1>7 DEF Arithmetic0, Arithmetic1

LEMMA FormatRefines ==
    ASSUME TypeOK, NEW rd \in Regs, NEW fmt, PMFHL(rd, fmt)
    PROVE  Promise!ANext \/ UNCHANGED vars
<1>1. \/ \E q \in Quad : SetQuad(rd, q)
      \/ UNCHANGED vars
  <2>1. \/ SetQuad(rd, [p \in Pipelines |-> LW(p)])
        \/ SetQuad(rd, [p \in Pipelines |-> UW(p)])
        \/ SetQuad(rd, [p \in Pipelines |-> LH(p)])
        \/ SetQuad(rd, [p \in Pipelines |-> SH(p)])
        \/ UNCHANGED vars
    BY DEF PMFHL
  <2>2. /\ [p \in Pipelines |-> LW(p)] \in Quad /\ [p \in Pipelines |-> UW(p)] \in Quad
        /\ [p \in Pipelines |-> LH(p)] \in Quad /\ [p \in Pipelines |-> SH(p)] \in Quad
    BY FormatTypes DEF Quad
  <2> QED
    BY <2>1, <2>2
<1> QED
  BY <1>1, QuadRefines

LEMMA ShiftRefines ==
    ASSUME TypeOK, NEW rt \in Regs, NEW rd \in Regs, NEW f \in Factors, Shift(rt, rd, f)
    PROVE  Promise!ANext
<1>1. PICK q : SetQuad(rd, q)
  BY DEF Shift, PSLLH, PSRLH, PSRAH, PSLLW, PSRLW, PSRAW
<1>2. q \in Quad
  <2>1. gpr' \in [Regs -> Quad]
    BY ShiftKeeps DEF Shift, TypeOK
  <2>2. gpr'[rd] = q
    BY <1>1 DEF SetQuad, TypeOK
  <2> QED
    BY <2>1, <2>2
<1> QED
  BY <1>1, <1>2, QuadRefines

LEMMA InitRefines == Init => Promise!AInit
<1> SUFFICES ASSUME Init PROVE Promise!AInit
  OBVIOUS
<1>1. \A p \in Pipelines : lo[p] = ZeroDouble /\ hi[p] = ZeroDouble
  BY DEF Init, ZeroQuad
<1>2. \A r \in Regs : gpr[r][0] = ZeroDouble
  BY DEF Init, ZeroQuad, Pipelines
<1>3. ZeroDouble.lo = 0 /\ ZeroDouble.hi = 0
  BY DEF ZeroDouble
<1>4. 0 * WordSize + 0 = 0
  BY Sizes
<1>5. \A p \in Pipelines : Value(p) = 0
  BY <1>1, <1>3, <1>4 DEF Value
<1> QED
  BY <1>1, <1>2, <1>3, <1>5, SamePromise DEF Promise!AInit

LEMMA NextRefines ==
    ASSUME TypeOK, [Next]_vars
    PROVE  [Promise!ANext]_(Promise!avars)
<1>1. CASE UNCHANGED vars
  BY <1>1 DEF vars, Promise!avars, Value
<1>2. CASE \E rs, rt, rd \in Regs : Arithmetic0(rs, rt) \/ Arithmetic1(rs, rt, rd)
  BY <1>2, ArithmeticRefines
<1>3. CASE \E r \in Regs : Move(r)
  BY <1>3, MovesRefine
<1>4. CASE \E rd \in Regs, fmt \in Formats : PMFHL(rd, fmt)
  BY <1>1, <1>4, FormatRefines
<1>5. CASE \E rt, rd \in Regs, f \in Factors : Shift(rt, rd, f)
  BY <1>5, ShiftRefines
<1> QED
  BY <1>1, <1>2, <1>3, <1>4, <1>5, Kinds

\* The two pipelines are 64-bit accumulators, for words of any size: products
\* and quotients are exact, and sums are unless LO of pipeline 0, which the
\* code does not mask, carries a sign extension into the upper word.
THEOREM AccumulatorImplemented == Spec => ImplementsAccumulator
<1>1. Init => Promise!AInit
  BY InitRefines
<1>2. TypeOK /\ [Next]_vars => [Promise!ANext]_(Promise!avars)
  BY NextRefines
<1> QED
  BY <1>1, <1>2, TypeCorrect, PTL DEF Spec, ImplementsAccumulator, Promise!ASpec

=============================================================================
