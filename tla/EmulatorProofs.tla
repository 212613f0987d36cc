--------------------------- MODULE EmulatorProofs ---------------------------
(***************************************************************************)
(* The application executes what was written in assembly language: for     *)
(* every program, memory, word size and test process that the assumptions  *)
(* of Emulator and Encoding allow.  First, what reads back of an encoded   *)
(* instruction.                                                            *)
(***************************************************************************)
EXTENDS Emulator, TLAPS

LEMMA Digit ==
    ASSUME NEW n \in Nat \ {0}, NEW a \in Nat, NEW b \in 0 .. (n - 1)
    PROVE  /\ (a * n + b) \div n = a
           /\ (a * n + b) % n = b
           /\ a * n + b \in Nat
<1>1. a * n \in Nat
  OBVIOUS
<1>2. a * n + b \in Nat /\ a * n + b = n * a + b
  BY <1>1
<1> DEFINE q == (a * n + b) \div n
           r == (a * n + b) % n
<1>3. q \in Int /\ r \in 0 .. (n - 1) /\ a * n + b = n * q + r
  BY <1>2
<1>4. q = a
  <2> HIDE DEF q, r
  <2>1. CASE q >= a + 1
    <3>1. n * q >= n * (a + 1)
      BY <2>1, <1>3
    <3>2. n * (a + 1) = n * a + n
      OBVIOUS
    <3> QED
      BY <3>1, <3>2, <1>2, <1>3
  <2>2. CASE q <= a - 1
    <3>1. n * q <= n * (a - 1)
      BY <2>2, <1>3
    <3>2. n * (a - 1) = n * a - n
      OBVIOUS
    <3> QED
      BY <3>1, <3>2, <1>2, <1>3
  <2> QED
    BY <2>1, <2>2, <1>3
<1> QED
  BY <1>2, <1>3, <1>4

LEMMA TwoDigits ==
    ASSUME NEW m \in Nat \ {0}, NEW n \in Nat \ {0},
           NEW a \in Nat, NEW b \in 0 .. (m - 1), NEW c \in 0 .. (n - 1)
    PROVE  /\ ((a * (m * n) + (b * n + c)) \div n) % m = b
           /\ a * (m * n) + (b * n + c) = (a * m + b) * n + c
<1>1. a * m + b \in Nat /\ (a * m + b) % m = b
  BY Digit
<1>2. a * (m * n) + (b * n + c) = (a * m + b) * n + c
  OBVIOUS
<1>3. ((a * m + b) * n + c) \div n = a * m + b
  BY <1>1, Digit
<1> QED
  BY <1>1, <1>2, <1>3

LEMMA DigitsFit ==
    ASSUME NEW m \in Nat \ {0}, NEW n \in Nat \ {0},
           NEW b \in 0 .. (m - 1), NEW c \in 0 .. (n - 1)
    PROVE  b * n + c \in 0 .. (m * n - 1)
<1>1. b * n \in Nat /\ m * n \in Nat
  OBVIOUS
<1>2. b * n <= (m - 1) * n
  OBVIOUS
<1>3. (m - 1) * n = m * n - n
  OBVIOUS
<1> QED
  BY <1>1, <1>2, <1>3

LEMMA Product ==
    ASSUME NEW m \in Nat \ {0}, NEW n \in Nat \ {0}
    PROVE  m * n \in Nat \ {0}
OBVIOUS

LEMMA Sizes ==
    /\ RegSize \in Nat \ {0} /\ SaSize \in Nat \ {0} /\ FuncSize \in Nat \ {0}
    /\ SaSize * FuncSize \in Nat \ {0}
    /\ ImmSize \in Nat \ {0}
    /\ RegSize * ImmSize \in Nat \ {0}
    /\ TargetSize \in Nat \ {0}
    /\ WordSize = OpcodeSize * TargetSize
    /\ OpcodeSize \in Nat \ {0}
<1>1. /\ RegSize \in Nat \ {0} /\ SaSize \in Nat \ {0} /\ FuncSize \in Nat \ {0}
      /\ WordSize = OpcodeSize * TargetSize
      /\ OpcodeSize \in Nat \ {0}
  BY EncodingAssumption DEF OpcodeSize
<1>2. SaSize * FuncSize \in Nat \ {0}
  BY <1>1, Product
<1>3. ImmSize \in Nat \ {0}
  BY <1>1, <1>2, Product DEF ImmSize
<1>4. RegSize * ImmSize \in Nat \ {0}
  BY <1>1, <1>3, Product
<1>5. TargetSize \in Nat \ {0}
  BY <1>1, <1>4, Product DEF TargetSize
<1> QED
  BY <1>1, <1>2, <1>3, <1>4, <1>5

-----------------------------------------------------------------------------
\* Immediate format.

LEMMA ItypeFields ==
    ASSUME NEW opcode \in Opcodes, NEW rs \in Registers, NEW rt \in Registers,
           NEW immediate \in Int
    PROVE  LET w == encode_itype(opcode, rs, rt, immediate) IN
           /\ w \in Word
           /\ decode_opcode(w) = opcode
           /\ decode_rs(w) = rs
           /\ decode_rt(w) = rt
           /\ decode_imm_u16(w) = immediate % ImmSize
           /\ w = ((opcode * RegSize + rs) * RegSize + rt) * ImmSize + (immediate % ImmSize)
           /\ (opcode * RegSize + rs) * RegSize + rt \in Nat
<1> DEFINE u == immediate % ImmSize
           low == rt * ImmSize + u
           lower == rs * (RegSize * ImmSize) + low
           w == opcode * TargetSize + lower
<1>1. u \in 0 .. (ImmSize - 1)
  BY Sizes
<1>2. rs \in 0 .. (RegSize - 1) /\ rt \in 0 .. (RegSize - 1)
      /\ opcode \in 0 .. (OpcodeSize - 1) /\ opcode \in Nat
  BY DEF Registers, Opcodes, OpcodeSize
<1> HIDE DEF u
<1>3. low \in 0 .. (RegSize * ImmSize - 1)
  BY <1>1, <1>2, Sizes, DigitsFit
<1> HIDE DEF low
<1>4. lower \in 0 .. (TargetSize - 1)
  BY <1>2, <1>3, Sizes, DigitsFit DEF TargetSize
<1>5. /\ decode_rs(w) = rs
      /\ w = (opcode * RegSize + rs) * (RegSize * ImmSize) + low
  <2>1. w = opcode * (RegSize * (RegSize * ImmSize)) + (rs * (RegSize * ImmSize) + low)
    BY DEF TargetSize
  <2> DEFINE P == RegSize * ImmSize
  <2>2. P \in Nat \ {0} /\ low \in 0 .. (P - 1)
    BY <1>3, Sizes
  <2> HIDE DEF P
  <2>3. /\ ((opcode * (RegSize * P) + (rs * P + low)) \div P) % RegSize = rs
        /\ opcode * (RegSize * P) + (rs * P + low) = (opcode * RegSize + rs) * P + low
    <3>1. /\ RegSize \in Nat \ {0} /\ P \in Nat \ {0} /\ opcode \in Nat
          /\ rs \in 0 .. (RegSize - 1) /\ low \in 0 .. (P - 1)
      BY <2>2, <1>2, Sizes
    <3> QED
      BY <3>1, TwoDigits
  <2> HIDE DEF w
  <2>4. w = opcode * (RegSize * P) + (rs * P + low)
    BY <2>1 DEF P
  <2>5. decode_rs(w) = (w \div P) % RegSize
    BY DEF decode_rs, P
  <2>6. decode_rs(w) = rs
    BY <2>3, <2>4, <2>5, Zenon
  <2>7. w = (opcode * RegSize + rs) * P + low
    BY <2>3, <2>4, Zenon
  <2> QED
    BY <2>6, <2>7 DEF P
<1> HIDE DEF lower
<1>6. w \in Word
  <2>1. w \in 0 .. (OpcodeSize * TargetSize - 1)
    BY <1>2, <1>4, Sizes, DigitsFit
  <2> QED
    BY <2>1, Sizes DEF Word
<1>7. decode_opcode(w) = opcode
  BY <1>2, <1>4, Sizes, Digit DEF decode_opcode
<1> HIDE DEF w
<1>8. opcode * RegSize + rs \in Nat
  BY <1>2, Sizes, Digit
<1>9. /\ decode_rt(w) = rt
      /\ w = ((opcode * RegSize + rs) * RegSize + rt) * ImmSize + u
  <2> DEFINE a == opcode * RegSize + rs
             b == a * RegSize + rt
  <2>1. a \in Nat
    BY <1>8
  <2>2. w = a * (RegSize * ImmSize) + (rt * ImmSize + u)
    BY <1>5 DEF low
  <2> HIDE DEF a
  <2>3. b \in Nat /\ b % RegSize = rt
    BY <2>1, <1>2, Sizes, Digit
  <2>4. a * (RegSize * ImmSize) + (rt * ImmSize + u) = b * ImmSize + u
    BY <2>1, <1>1, <1>2, Sizes
  <2> HIDE DEF b
  <2>5. (b * ImmSize + u) \div ImmSize = b
    BY <2>3, <1>1, Sizes, Digit
  <2>6. decode_rt(w) = rt /\ w = b * ImmSize + u
    BY <2>2, <2>3, <2>4, <2>5 DEF decode_rt
  <2> QED
    BY <2>6 DEF a, b
<1>10. (opcode * RegSize + rs) * RegSize + rt \in Nat
  BY <1>8, <1>2, Sizes, Digit
<1>11. decode_imm_u16(w) = u
  <2> DEFINE a == (opcode * RegSize + rs) * RegSize + rt
  <2>1. a \in Nat /\ w = a * ImmSize + u
    BY <1>9, <1>10
  <2> HIDE DEF a
  <2> QED
    BY <2>1, <1>1, Sizes, Digit DEF decode_imm_u16
<1>12. w = encode_itype(opcode, rs, rt, immediate)
  BY DEF w, lower, low, u, encode_itype
<1> QED
  BY <1>5, <1>6, <1>7, <1>9, <1>10, <1>11, <1>12 DEF u

\* ImmSize is even, so a signed immediate survives the mask and the test of
\* its sign bit.
LEMMA SignedImmediate ==
    ASSUME NEW immediate \in Immediates
    PROVE  LET u == immediate % ImmSize IN
           (IF 2 * u >= ImmSize THEN u - ImmSize ELSE u) = immediate
<1>1. ImmSize \in Nat \ {0} /\ ImmSize % 2 = 0
  <2>1. PICK h \in Nat : FuncSize = 2 * h
    BY EncodingAssumption
  <2>2. RegSize \in Nat /\ SaSize \in Nat
    BY Sizes
  <2>3. RegSize * (SaSize * (2 * h)) = 2 * (RegSize * (SaSize * h))
    BY <2>2
  <2>4. RegSize * (SaSize * h) \in Nat
    BY <2>2
  <2> QED
    BY <2>1, <2>3, <2>4, Sizes DEF ImmSize
<1>2. immediate \in Int /\ - ImmSize <= 2 * immediate /\ 2 * immediate < ImmSize
  BY <1>1 DEF Immediates
<1>3. CASE immediate >= 0
  <2>1. immediate % ImmSize = immediate
    BY <1>1, <1>2, <1>3
  <2> QED
    BY <1>1, <1>2, <1>3, <2>1
<1>4. CASE immediate < 0
  <2>1. immediate % ImmSize = immediate + ImmSize
    BY <1>1, <1>2, <1>4
  <2> QED
    BY <1>1, <1>2, <1>4, <2>1
<1> QED
  BY <1>2, <1>3, <1>4

\* decode_opcode, decode_rs, decode_rt and decode_imm_i16 return what
\* encode_itype was given: a negative offset of a branch or a negative addend
\* of ADDI arrives with its sign, and reaches into no other field.
THEOREM ItypeRoundTrip ==
    \A opcode \in Opcodes, rs \in Registers, rt \in Registers, immediate \in Immediates :
        LET i == encode_itype(opcode, rs, rt, immediate) IN
        /\ i \in Word
        /\ decode_opcode(i) = opcode
        /\ decode_rs(i) = rs
        /\ decode_rt(i) = rt
        /\ decode_imm_i16(i) = immediate
<1> TAKE opcode \in Opcodes, rs \in Registers, rt \in Registers, immediate \in Immediates
<1>1. immediate \in Int
  BY Sizes DEF Immediates
<1> DEFINE i == encode_itype(opcode, rs, rt, immediate)
<1>2. /\ i \in Word
      /\ decode_opcode(i) = opcode
      /\ decode_rs(i) = rs
      /\ decode_rt(i) = rt
      /\ decode_imm_u16(i) = immediate % ImmSize
  BY <1>1, ItypeFields
<1> HIDE DEF i
<1>3. decode_imm_i16(i) = immediate
  BY <1>2, SignedImmediate DEF decode_imm_i16
<1> QED
  BY <1>2, <1>3 DEF i

-----------------------------------------------------------------------------
\* Register format: encode_rtype is encode_itype of an immediate whose digits
\* are rd, sa and func.

LEMMA RtypeIsItype ==
    ASSUME NEW opcode \in Opcodes, NEW rs \in Registers, NEW rt \in Registers,
           NEW rd \in Registers, NEW sa \in Amounts, NEW func \in Functions
    PROVE  LET m == rd * (SaSize * FuncSize) + (sa * FuncSize + func) IN
           /\ m \in 0 .. (ImmSize - 1)
           /\ encode_rtype(opcode, rs, rt, rd, sa, func) = encode_itype(opcode, rs, rt, m)
<1> DEFINE low == sa * FuncSize + func
           m == rd * (SaSize * FuncSize) + low
<1>1. rd \in 0 .. (RegSize - 1) /\ sa \in 0 .. (SaSize - 1) /\ func \in 0 .. (FuncSize - 1)
  BY DEF Registers, Amounts, Functions
<1>2. low \in 0 .. (SaSize * FuncSize - 1)
  BY <1>1, Sizes, DigitsFit
<1> HIDE DEF low
<1>3. m \in 0 .. (ImmSize - 1)
  BY <1>1, <1>2, Sizes, DigitsFit DEF ImmSize
<1> HIDE DEF m
<1>4. m % ImmSize = m
  BY <1>3, Sizes
<1>5. encode_rtype(opcode, rs, rt, rd, sa, func)
        = opcode * TargetSize + (rs * (RegSize * ImmSize) + (rt * ImmSize + m))
  BY DEF encode_rtype, m, low
<1> QED
  BY <1>3, <1>4, <1>5, Zenon DEF encode_itype, m, low

\* The six fields of encode_rtype come back from a word; the shift amount and
\* the function, which choose the handler in exec_special and exec_mmi, too.
THEOREM RtypeRoundTrip ==
    \A opcode \in Opcodes, rs \in Registers, rt \in Registers,
       rd \in Registers, sa \in Amounts, func \in Functions :
        LET i == encode_rtype(opcode, rs, rt, rd, sa, func) IN
        /\ i \in Word
        /\ decode_opcode(i) = opcode
        /\ decode_rs(i) = rs
        /\ decode_rt(i) = rt
        /\ decode_rd(i) = rd
        /\ decode_sa(i) = sa
        /\ decode_func(i) = func
<1> TAKE opcode \in Opcodes, rs \in Registers, rt \in Registers,
         rd \in Registers, sa \in Amounts, func \in Functions
<1> DEFINE i == encode_rtype(opcode, rs, rt, rd, sa, func)
           low == sa * FuncSize + func
           m == rd * (SaSize * FuncSize) + low
           top == (opcode * RegSize + rs) * RegSize + rt
<1>1. rd \in 0 .. (RegSize - 1) /\ sa \in 0 .. (SaSize - 1) /\ func \in 0 .. (FuncSize - 1)
  BY DEF Registers, Amounts, Functions
<1>2. m \in 0 .. (ImmSize - 1) /\ i = encode_itype(opcode, rs, rt, m)
  BY RtypeIsItype
<1>3. m \in Int /\ m % ImmSize = m
  BY <1>2, Sizes
<1>4. /\ i \in Word
      /\ decode_opcode(i) = opcode
      /\ decode_rs(i) = rs
      /\ decode_rt(i) = rt
      /\ i = top * ImmSize + m
      /\ top \in Nat
  <2> HIDE DEF m, i
  <2> QED
    BY <1>2, <1>3, ItypeFields
<1>5. low \in 0 .. (SaSize * FuncSize - 1)
  BY <1>1, Sizes, DigitsFit
<1> HIDE DEF i, top
<1> DEFINE Q == SaSize * FuncSize
           a == top * RegSize + rd
<1>6. Q \in Nat \ {0} /\ ImmSize = RegSize * Q /\ i = top * (RegSize * Q) + (rd * Q + low)
  BY <1>4, Sizes DEF ImmSize
<1>7. a \in Nat /\ a % RegSize = rd
  BY <1>1, <1>4, Sizes, Digit
<1>8. top * (RegSize * Q) + (rd * Q + low) = a * Q + low
  <2> HIDE DEF Q, low
  <2> QED
    BY <1>1, <1>4, <1>5, <1>6, Sizes
<1>9. decode_rd(i) = rd
  <2> HIDE DEF a, low
  <2>1. low \in 0 .. (Q - 1)
    BY <1>5
  <2> HIDE DEF Q
  <2>2. (a * Q + low) \div Q = a
    BY <2>1, <1>6, <1>7, Digit
  <2>3. decode_rd(i) = (i \div Q) % RegSize
    BY DEF decode_rd, Q
  <2> QED
    BY <2>2, <2>3, <1>6, <1>7, <1>8
<1> HIDE DEF a
<1> DEFINE b == a * SaSize + sa
<1>10. b \in Nat /\ b % SaSize = sa
  BY <1>1, <1>7, Sizes, Digit
<1>11. a * Q + low = b * FuncSize + func
  BY <1>1, <1>7, Sizes
<1>12. decode_sa(i) = sa /\ decode_func(i) = func
  <2> HIDE DEF b, low, Q, m
  <2>1. i = b * FuncSize + func
    BY <1>6, <1>8, <1>11, Zenon
  <2>2. (b * FuncSize + func) \div FuncSize = b /\ (b * FuncSize + func) % FuncSize = func
    BY <1>1, <1>10, Sizes, Digit
  <2> QED
    BY <2>1, <2>2, <1>10 DEF decode_sa, decode_func
<1> QED
  BY <1>4, <1>9, <1>12 DEF i

\* exec_regimm takes its function from where the immediate ends: of the word
\* of an instruction in immediate format, decode_func is the immediate modulo
\* the size of that field and rt has no part in it.
THEOREM RegimmFunction ==
    \A opcode \in Opcodes, rs \in Registers, rt \in Registers, immediate \in Immediates :
        decode_func(encode_itype(opcode, rs, rt, immediate)) = immediate % FuncSize
<1> TAKE opcode \in Opcodes, rs \in Registers, rt \in Registers, immediate \in Immediates
<1> DEFINE i == encode_itype(opcode, rs, rt, immediate)
           top == (opcode * RegSize + rs) * RegSize + rt
           R == RegSize * SaSize
           q == immediate \div ImmSize
           u == immediate % ImmSize
           c == immediate \div FuncSize
           d == immediate % FuncSize
<1>1. immediate \in Int
  BY Sizes DEF Immediates
<1>2. i = top * ImmSize + u /\ top \in Nat
  BY <1>1, ItypeFields
<1> HIDE DEF i, top
<1>3. R \in Nat \ {0} /\ ImmSize = R * FuncSize
  BY Sizes, Product DEF ImmSize
<1>4. q \in Int /\ u \in Nat /\ immediate = ImmSize * q + u
  BY <1>1, Sizes
<1>5. c \in Int /\ d \in 0 .. (FuncSize - 1) /\ immediate = FuncSize * c + d
  BY <1>1, Sizes
<1> HIDE DEF R, q, u, c, d
<1> DEFINE e == top * R + c - R * q
<1>6. e \in Int /\ i = e * FuncSize + d
  <2>1. top * ImmSize = (top * R) * FuncSize
    BY <1>2, <1>3, Sizes
  <2>2. u = FuncSize * c + d - (R * FuncSize) * q
    BY <1>3, <1>4, <1>5, Sizes
  <2>3. (top * R + c - R * q) * FuncSize
          = (top * R) * FuncSize + FuncSize * c - (R * FuncSize) * q
    BY <1>2, <1>3, <1>4, <1>5, Sizes
  <2> QED
    BY <1>2, <1>3, <1>4, <1>5, <2>1, <2>2, <2>3, Sizes
<1>7. i \in Nat
  BY <1>1, ItypeFields, WordSizeAssumption DEF i, Word
<1>8. e >= 0
  <2> HIDE DEF e
  <2>1. CASE e <= -1
    <3>1. e * FuncSize <= (-1) * FuncSize
      BY <2>1, <1>6, Sizes
    <3> QED
      BY <3>1, <1>5, <1>6, <1>7, Sizes
  <2> QED
    BY <2>1, <1>6
<1>9. decode_func(i) = d
  <2> HIDE DEF e
  <2> QED
    BY <1>5, <1>6, <1>8, Sizes, Digit DEF decode_func
<1> QED
  BY <1>9 DEF i, d

-----------------------------------------------------------------------------
\* Jump and exception formats.

\* J and JAL go where the operand of encode_jtype says: four times the target
\* that tick decodes, which it joins to the region of the jump, is the operand
\* again if that is the address of a word in the first region (a region is a
\* sixteenth of the address space).  The two bits below are lost, and those
\* above come from the address of the jump.
THEOREM JtypeRoundTrip ==
    \A opcode \in Opcodes, target \in Word :
        LET i == encode_jtype(opcode, target) IN
        /\ i \in Word
        /\ decode_opcode(i) = opcode
        /\ decode_target(i) = (target \div 4) % TargetSize
        /\ (target % 4 = 0 /\ target < 4 * TargetSize) => 4 * decode_target(i) = target
<1> TAKE opcode \in Opcodes, target \in Word
<1> DEFINE t == (target \div 4) % TargetSize
           i == opcode * TargetSize + t
<1>1. target \in Nat /\ TargetSize \in Nat \ {0} /\ WordSize = OpcodeSize * TargetSize
  BY Sizes, WordSizeAssumption DEF Word
<1>2. t \in 0 .. (TargetSize - 1)
  BY <1>1
<1>3. (target % 4 = 0 /\ target < 4 * TargetSize) => 4 * t = target
  BY <1>1
<1> HIDE DEF t
<1>4. opcode \in Nat /\ opcode \in 0 .. (OpcodeSize - 1)
  BY DEF Opcodes, OpcodeSize
<1>5. i \in Word
  <2>1. i \in 0 .. (OpcodeSize * TargetSize - 1)
    BY <1>1, <1>2, <1>4, Sizes, DigitsFit
  <2> QED
    BY <2>1, <1>1 DEF Word
<1>6. decode_opcode(i) = opcode /\ decode_target(i) = t
  BY <1>1, <1>2, <1>4, Digit DEF decode_opcode, decode_target
<1>7. i = encode_jtype(opcode, target)
  BY DEF i, t, encode_jtype
<1> HIDE DEF i
<1> QED
  BY <1>3, <1>5, <1>6, <1>7 DEF t

\* The code of SYSCALL, BREAK or SYNC takes the place of rs, rt, rd and sa and
\* reaches neither the opcode nor the function: exec_special finds the stub
\* whatever the code is.
THEOREM ExceptionRoundTrip ==
    \A opcode \in Opcodes, code \in Codes, func \in Functions :
        LET i == encode_exception(opcode, code, func) IN
        /\ i \in Word
        /\ decode_opcode(i) = opcode
        /\ decode_func(i) = func
<1> TAKE opcode \in Opcodes, code \in Codes, func \in Functions
<1> DEFINE C == RegSize * (RegSize * (RegSize * SaSize))
           low == code * FuncSize + func
           i == opcode * TargetSize + low
<1>1. code \in 0 .. (C - 1) /\ func \in 0 .. (FuncSize - 1)
      /\ opcode \in Nat /\ opcode \in 0 .. (OpcodeSize - 1)
  BY DEF Codes, Functions, Opcodes, OpcodeSize
<1>2. C \in Nat \ {0} /\ TargetSize = C * FuncSize
  <2>1. RegSize * SaSize \in Nat \ {0}
    BY Sizes, Product
  <2>2. RegSize * (RegSize * SaSize) \in Nat \ {0}
    BY <2>1, Sizes, Product
  <2>3. C \in Nat \ {0}
    BY <2>2, Sizes, Product
  <2>4. RegSize * (RegSize * (RegSize * (SaSize * FuncSize))) = C * FuncSize
    BY Sizes
  <2> QED
    BY <2>3, <2>4 DEF TargetSize, ImmSize
<1> HIDE DEF C
<1>3. low \in 0 .. (TargetSize - 1)
  BY <1>1, <1>2, Sizes, DigitsFit
<1>4. low % FuncSize = func
  <2>1. code \in Nat
    BY <1>1, <1>2
  <2> QED
    BY <2>1, <1>1, Sizes, Digit
<1>5. i = (opcode * C + code) * FuncSize + func
  BY <1>1, <1>2, Sizes
<1>6. opcode * C + code \in Nat
  BY <1>1, <1>2, Digit
<1>7. decode_func(i) = func
  <2> DEFINE a == opcode * C + code
  <2>1. a \in Nat /\ i = a * FuncSize + func
    BY <1>5, <1>6
  <2> HIDE DEF a, i
  <2> QED
    BY <2>1, <1>1, Sizes, Digit DEF decode_func
<1> HIDE DEF low
<1>8. i \in Word
  <2>1. i \in 0 .. (OpcodeSize * TargetSize - 1)
    BY <1>1, <1>3, Sizes, DigitsFit
  <2> QED
    BY <2>1, Sizes DEF Word
<1>9. decode_opcode(i) = opcode
  BY <1>1, <1>3, Sizes, Digit DEF decode_opcode
<1>10. i = encode_exception(opcode, code, func)
  BY DEF i, low, encode_exception
<1> HIDE DEF i
<1> QED
  BY <1>7, <1>8, <1>9, <1>10

-----------------------------------------------------------------------------
(* Sizes and addresses.                                                    *)

\* A region is four bytes for each value of a target, and memory ends two
\* instructions before the first one does.
LEMMA Layout ==
    /\ TargetSize \in Nat \ {0} /\ WordSize = 64 * TargetSize
    /\ RegionSize = 4 * TargetSize /\ Half = 32 * TargetSize
    /\ MemorySize \in Nat /\ MemorySize % 4 = 0
    /\ MemorySize + 8 <= 4 * TargetSize
<1>1. TargetSize \in Nat \ {0} /\ WordSize = 64 * TargetSize
  BY Sizes DEF OpcodeSize
<1> QED
  BY <1>1, EmulatorAssumption DEF RegionSize, Half

LEMMA CellIsWord ==
    \A a \in Cells : a \in Word /\ a \in Nat /\ a % 4 = 0 /\ a + 4 <= MemorySize
  BY Layout DEF Cells, Word

\* A place in a program is a cell.
LEMMA PlaceIsCell ==
    ASSUME NEW p \in Programs \cup {TestProgram}, NEW j \in 0 .. (Len(p) - 1)
    PROVE  Base + 4 * j \in Cells
<1>1. p \in Seq(Instructions) /\ Base + 4 * Len(p) <= MemorySize
  BY EmulatorAssumption DEF FitsMemory
<1>2. Len(p) \in Nat
  BY <1>1
<1>3. Base \in Nat /\ Base % 4 = 0
  BY EmulatorAssumption, CellIsWord
<1> QED
  BY <1>1, <1>2, <1>3, Layout DEF Cells

\* What Words says for itself and for the instances of it.
LEMMA SameWords ==
    /\ Flow!Word = Word /\ Flow!Double = Double
    /\ \A a, i : Flow!Plus(a, i) = Plus(a, i)
    /\ Flow!ZeroDouble = ZeroDouble
    /\ Flow!RegionSize = RegionSize
  BY DEF Flow!Word, Word, Flow!Double, Double, Flow!Plus, Plus, Flow!ToWord,
         ToWord, Flow!ZeroDouble, ZeroDouble, Flow!RegionSize, RegionSize

LEMMA PlusType ==
    ASSUME NEW a \in Word, NEW i \in Int
    PROVE  /\ Plus(a, i) \in Word /\ Flow!Plus(a, i) = Plus(a, i)
           /\ (a % 4 = 0 /\ i % 4 = 0) => Plus(a, i) % 4 = 0
<1>0. a \in Nat
  BY Layout DEF Word
<1>1. Plus(a, i) \in Word
  BY <1>0, Layout DEF Plus, ToWord, Word
<1>2. ASSUME a % 4 = 0, i % 4 = 0 PROVE Plus(a, i) % 4 = 0
  <2>1. (a + i) \in Int /\ (a + i) % 4 = 0
    BY <1>0, <1>2
  <2>2. PICK q \in Int : (a + i) % (64 * TargetSize) = (a + i) - (64 * TargetSize) * q
    <3> DEFINE m == 64 * TargetSize
    <3>1. m \in Nat \ {0} /\ a + i \in Int
      BY <1>0, Layout
    <3> HIDE DEF m
    <3>2. (a + i) \div m \in Int /\ (a + i) % m = (a + i) - m * ((a + i) \div m)
      BY <3>1
    <3> QED
      BY <3>2 DEF m
  <2>3. (64 * TargetSize) * q = 4 * (16 * TargetSize * q) /\ 16 * TargetSize * q \in Int
    BY Layout
  <2> QED
    BY <2>1, <2>2, <2>3, Layout DEF Plus, ToWord
<1> QED
  BY <1>1, <1>2, SameWords, Zenon

-----------------------------------------------------------------------------
(* Instructions and words.                                                 *)

LEMMA ImmSizeIsEven == ImmSize \in Nat \ {0} /\ ImmSize % 2 = 0
<1>1. PICK h \in Nat : FuncSize = 2 * h
  BY EncodingAssumption
<1>2. RegSize \in Nat /\ SaSize \in Nat
  BY Sizes
<1>3. RegSize * (SaSize * (2 * h)) = 2 * (RegSize * (SaSize * h))
  BY <1>2
<1>4. RegSize * (SaSize * h) \in Nat
  BY <1>2
<1> QED
  BY <1>1, <1>3, <1>4, Sizes DEF ImmSize

\* The decode functions return members of their fields.
LEMMA FieldTypes ==
    ASSUME NEW w \in Word
    PROVE  /\ decode_rs(w) \in Registers
           /\ decode_rt(w) \in Registers
           /\ decode_imm_i16(w) \in Immediates
           /\ decode_target(w) \in 0 .. (TargetSize - 1)
<1>1. w \in Nat
  BY Layout DEF Word
<1>2. decode_imm_i16(w) \in Immediates
  <2>1. w % ImmSize \in 0 .. (ImmSize - 1)
    BY <1>1, ImmSizeIsEven
  <2> QED
    BY <2>1, ImmSizeIsEven DEF decode_imm_i16, decode_imm_u16, Immediates
<1>3. decode_target(w) \in 0 .. (TargetSize - 1)
  BY <1>1, Sizes DEF decode_target
<1>4. w \div ImmSize \in Int /\ w \div (RegSize * ImmSize) \in Int
  BY <1>1, Sizes
<1>5. decode_rs(w) \in Registers /\ decode_rt(w) \in Registers
  BY <1>4, Sizes DEF decode_rs, decode_rt, Registers
<1> QED
  BY <1>2, <1>3, <1>5

\* The opcodes.
LEMMA OpcodeNumbers ==
    /\ \A op \in Immediate \cup Jumps : Opcode[op] \in Opcodes /\ Opcode[op] # MIPS_OP_SPECIAL
    /\ MIPS_OP_SPECIAL \in Opcodes
    /\ \A op \in DOMAIN Stubs : Stubs[op] \in Functions /\ Stubs[op] # 0
  BY EncodingAssumption
     DEF Immediate, Jumps, Branches, Opcode, Opcodes, OpcodeSize, Stubs, Functions,
         MIPS_OP_SPECIAL, MIPS_OP_J, MIPS_OP_JAL, MIPS_OP_BEQ, MIPS_OP_BNE,
         MIPS_OP_BLEZ, MIPS_OP_BGTZ, MIPS_OP_ADDI, MIPS_OP_BEQL, MIPS_OP_BNEL,
         MIPS_OP_BLEZL, MIPS_OP_BGTZL, MIPS_SPECIAL_SYSCALL, MIPS_SPECIAL_BREAK,
         MIPS_SPECIAL_SYNC

\* The kinds of instructions.
LEMMA Kinds ==
    ASSUME NEW i \in Instructions
    PROVE  \/ /\ i.op \in Immediate
              /\ i.rs \in Registers /\ i.rt \in Registers /\ i.imm \in Immediates
           \/ i.op \in Jumps /\ i.target \in Cells
           \/ i.op \in DOMAIN Stubs /\ i.code \in Codes
           \/ i.op = "NOP"
BY DEF Instructions

LEMMA KindsDiffer ==
    /\ Immediate \cap Jumps = {} /\ Immediate \cap DOMAIN Stubs = {}
    /\ Jumps \cap DOMAIN Stubs = {}
    /\ "NOP" \notin Immediate \cup Jumps \cup DOMAIN Stubs
BY DEF Immediate, Jumps, Branches, Stubs

\* What tick decodes from the word of an instruction.
LEMMA DecodedImmediate ==
    ASSUME NEW i \in Instructions, i.op \in Immediate
    PROVE  LET w == Assembled(i) IN
           /\ w \in Word
           /\ decode_opcode(w) = Opcode[i.op]
           /\ decode_rs(w) = i.rs
           /\ decode_rt(w) = i.rt
           /\ decode_imm_i16(w) = i.imm
<1>1. i.rs \in Registers /\ i.rt \in Registers /\ i.imm \in Immediates
  BY Kinds, KindsDiffer
<1>2. Opcode[i.op] \in Opcodes
  BY OpcodeNumbers
<1>3. Assembled(i) = encode_itype(Opcode[i.op], i.rs, i.rt, i.imm)
  BY KindsDiffer DEF Assembled
<1> QED
  BY <1>1, <1>2, <1>3, ItypeRoundTrip

LEMMA DecodedJump ==
    ASSUME NEW i \in Instructions, i.op \in Jumps
    PROVE  LET w == Assembled(i) IN
           /\ w \in Word
           /\ decode_opcode(w) = Opcode[i.op]
           /\ 4 * decode_target(w) = i.target
           /\ i.target \in Cells
<1>1. i.target \in Cells
  BY Kinds, KindsDiffer
<1>2. i.target \in Word /\ i.target % 4 = 0 /\ i.target < 4 * TargetSize
  BY <1>1, CellIsWord, Layout
<1>3. Opcode[i.op] \in Opcodes
  BY OpcodeNumbers
<1>4. Assembled(i) = encode_jtype(Opcode[i.op], i.target)
  BY KindsDiffer DEF Assembled
<1> QED
  BY <1>1, <1>2, <1>3, <1>4, JtypeRoundTrip

LEMMA DecodedStub ==
    ASSUME NEW i \in Instructions, i.op \in DOMAIN Stubs
    PROVE  LET w == Assembled(i) IN
           /\ w \in Word
           /\ decode_opcode(w) = MIPS_OP_SPECIAL
           /\ decode_func(w) = Stubs[i.op]
<1>1. i.code \in Codes
  BY Kinds, KindsDiffer
<1>2. Stubs[i.op] \in Functions /\ MIPS_OP_SPECIAL \in Opcodes
  BY OpcodeNumbers
<1>3. Assembled(i) = encode_exception(MIPS_OP_SPECIAL, i.code, Stubs[i.op])
  BY KindsDiffer DEF Assembled
<1> QED
  BY <1>1, <1>2, <1>3, ExceptionRoundTrip

LEMMA AssembledNop ==
    ASSUME NEW i, i.op = "NOP"
    PROVE  Assembled(i) = mips_nop
BY KindsDiffer DEF Assembled

LEMMA NopWord ==
    /\ mips_nop \in Word
    /\ decode_opcode(mips_nop) = MIPS_OP_SPECIAL
    /\ decode_func(mips_nop) = 0
BY Layout, Sizes DEF mips_nop, Word, decode_opcode, decode_func, MIPS_OP_SPECIAL

LEMMA AssembledIsWord ==
    ASSUME NEW i \in Instructions
    PROVE  Assembled(i) \in Word
BY Kinds, DecodedImmediate, DecodedJump, DecodedStub, AssembledNop, NopWord

\* Opcodes tell the instructions apart.
LEMMA OpcodesDiffer ==
    ASSUME NEW i \in Instructions, Assembled(i) # mips_nop
    PROVE  LET c == decode_opcode(Assembled(i)) IN
           /\ \A op \in Immediate \cup Jumps : c = Opcode[op] => i.op = op
           /\ c = MIPS_OP_SPECIAL => i.op \in DOMAIN Stubs
<1>1. \A o, p \in Immediate \cup Jumps : Opcode[o] = Opcode[p] => o = p
  BY DEF Immediate, Jumps, Branches, Opcode, MIPS_OP_J, MIPS_OP_JAL, MIPS_OP_BEQ,
         MIPS_OP_BNE, MIPS_OP_BLEZ, MIPS_OP_BGTZ, MIPS_OP_ADDI, MIPS_OP_BEQL,
         MIPS_OP_BNEL, MIPS_OP_BLEZL, MIPS_OP_BGTZL
<1>2. i.op # "NOP"
  BY AssembledNop
<1> QED
  BY <1>1, <1>2, Kinds, DecodedImmediate, DecodedJump, DecodedStub, OpcodeNumbers

-----------------------------------------------------------------------------
(* Type correctness.                                                       *)

Aligned == pc % 4 = 0 /\ next_pc % 4 = 0

Counters == pc \in Word /\ next_pc \in Word /\ Aligned

\* What the shared parts of the handlers leave in the program counters.
LEMMA AdvanceKeeps == Counters /\ Flow!Advance => Counters'
  BY PlusType DEF Counters, Aligned, Flow!Advance

LEMMA AnnulKeeps == Counters /\ Flow!AdvanceThenAnnul => Counters'
<1> SUFFICES ASSUME Counters, Flow!AdvanceThenAnnul PROVE Counters'
  OBVIOUS
<1>1. Plus(next_pc, 4) \in Word /\ Plus(next_pc, 4) % 4 = 0
  BY PlusType DEF Counters, Aligned
<1>2. Plus(Plus(next_pc, 4), 4) \in Word /\ Plus(Plus(next_pc, 4), 4) % 4 = 0
  BY <1>1, PlusType
<1> QED
  BY <1>1, <1>2, PlusType DEF Counters, Aligned, Flow!AdvanceThenAnnul

LEMMA JumpKeeps ==
    ASSUME Counters, NEW target \in Word, target % 4 = 0,
           Flow!AdvanceThenJump(target)
    PROVE  Counters'
BY DEF Counters, Aligned, Flow!AdvanceThenJump

LEMMA BranchTargetType ==
    ASSUME Counters, NEW imm \in Immediates
    PROVE  Flow!BranchTarget(imm) \in Word /\ Flow!BranchTarget(imm) % 4 = 0
<1>1. 4 * imm \in Int /\ (4 * imm) % 4 = 0
  BY ImmSizeIsEven DEF Immediates
<1> QED
  BY <1>1, PlusType DEF Flow!BranchTarget, Counters, Aligned

LEMMA BranchKeeps ==
    ASSUME Counters, NEW imm \in Immediates, NEW cond,
           Flow!BranchOn(cond, imm) \/ Flow!BranchLikelyOn(cond, imm)
    PROVE  Counters'
<1>1. \/ Flow!AdvanceThenJump(Flow!BranchTarget(imm))
      \/ Flow!Advance
      \/ Flow!AdvanceThenAnnul
  BY DEF Flow!BranchOn, Flow!BranchLikelyOn
<1> QED
  BY <1>1, BranchTargetType, JumpKeeps, AdvanceKeeps, AnnulKeeps

\* Memory lies in region 0: a decoded target is relative to nothing.
LEMMA JumpTargetIsAddress ==
    ASSUME Counters, Flow!Fetchable(pc), NEW t \in 0 .. (TargetSize - 1)
    PROVE  /\ pc \in Cells /\ pc + 8 < Half
           /\ Flow!JumpTarget(t) = 4 * t
           /\ 4 * t \in Word /\ (4 * t) % 4 = 0
<1>1. pc + 0 \in Mapped /\ pc \in Nat
  BY DEF Flow!Fetchable, Counters, Word
<1>2. pc \in Cells
  BY <1>1 DEF Mapped, Cells, Counters, Aligned
<1>3. pc < RegionSize /\ RegionSize \in Nat \ {0}
  BY <1>1, Layout DEF Mapped
<1>4. pc % RegionSize = pc
  BY <1>1, <1>3
<1>5. Flow!RegionBase(pc) = 0
  BY <1>1, <1>4, SameWords DEF Flow!RegionBase
<1>6. Flow!JumpTarget(t) = 4 * t
  BY <1>5 DEF Flow!JumpTarget
<1>7. pc + 8 < Half
  BY <1>1, Layout DEF Mapped
<1> QED
  BY <1>2, <1>6, <1>7, Layout DEF Word

\* The parts of the type invariant.
CpuOK ==
    /\ Counters
    /\ current_pc \in Word
    /\ gpr \in [Registers -> Double]
    /\ running \in BOOLEAN

SharedOK ==
    /\ program \in Programs
    /\ memory \in [Cells -> Word]
    /\ written \in 0 .. Len(program)
    /\ phase \in {"idle", "writing", "erasing", "dead"}
    /\ k \in 0 .. Len(TestProgram)
    /\ disturbed \in BOOLEAN

LEMMA Parts == TypeOK <=> CpuOK /\ SharedOK
BY SameWords DEF TypeOK, CpuOK, SharedOK, Flow!TypeOK, Counters, Aligned

LEMMA WordFetched ==
    ASSUME CpuOK, SharedOK, Flow!Fetchable(pc)
    PROVE  pc \in Cells /\ instruction \in Word
<1>1. 0 \in 0 .. (TargetSize - 1)
  BY Layout
<1>2. pc \in Cells
  BY <1>1, JumpTargetIsAddress DEF CpuOK
<1> QED
  BY <1>2 DEF SharedOK, instruction

LEMMA DoubleTypes ==
    /\ \A w \in Word : SignExtend(w) \in Double /\ ZeroExtend(w) \in Double
    /\ ZeroDouble \in Double
BY Layout DEF SignExtend, ZeroExtend, ZeroDouble, Double, Word

LEMMA LinkType ==
    ASSUME CpuOK
    PROVE  Flow!Link = ZeroExtend(Plus(pc, 8)) /\ Flow!Link \in Double
<1>1. Plus(pc, 8) \in Word /\ Flow!Plus(pc, 8) = Plus(pc, 8)
  BY PlusType DEF CpuOK, Counters
<1> QED
  BY <1>1, DoubleTypes DEF Flow!Link, Flow!ZeroExtend, ZeroExtend

LEMMA RaIsRegister == RA \in Registers
BY Sizes DEF RA, Registers

\* Every handler keeps the types of the processor.
LEMMA TickKeepsCpu ==
    ASSUME CpuOK, SharedOK, tick
    PROVE  CpuOK'
<1>1. Counters
  BY DEF CpuOK
<1>2. ASSUME Flow!Fetch, Counters', gpr' \in [Registers -> Double] PROVE CpuOK'
  BY <1>2 DEF CpuOK, Flow!Fetch, Counters
<1>3. ASSUME Flow!Fetchable(pc)
      PROVE  /\ Rs \in Registers /\ Rt \in Registers /\ Imm \in Immediates
             /\ decode_rt(instruction) \in Registers
             /\ decode_target(instruction) \in 0 .. (TargetSize - 1)
  BY <1>3, WordFetched, FieldTypes DEF Rs, Rt, Imm
<1>4. ASSUME NOP PROVE CpuOK'
  BY <1>1, <1>2, <1>4, AdvanceKeeps DEF NOP, Flow!NoResult, CpuOK
<1>5. ASSUME ADDI PROVE CpuOK'
  <2>1. Flow!Fetchable(pc)
    BY <1>5 DEF ADDI, Case
  <2> DEFINE sum == Signed(gpr[decode_rs(instruction)].lo) + decode_imm_i16(instruction)
             d == SignExtend(ToWord(sum))
  <2>2. \/ Flow!Compute(decode_rt(instruction), d)
        \/ Flow!NoResult
    BY <1>5 DEF ADDI
  <2>3. d \in Double
    <3>1. gpr[decode_rs(instruction)].lo \in Word
      BY <2>1, <1>3 DEF CpuOK, Double, Rs
    <3>2. sum \in Int
      BY <3>1, <2>1, <1>3, ImmSizeIsEven, Layout DEF Imm, Immediates, Signed, Negative, Word
    <3>3. ToWord(sum) \in Word
      BY <3>2, Layout DEF ToWord, Word
    <3> QED
      BY <3>3, DoubleTypes
  <2> HIDE DEF d
  <2>4. Flow!Fetch /\ Flow!Advance /\ gpr' \in [Registers -> Double]
    BY <2>1, <2>2, <2>3, <1>3 DEF Flow!Compute, Flow!NoResult, CpuOK
  <2> QED
    BY <1>1, <1>2, <2>4, AdvanceKeeps
<1>6. ASSUME J PROVE CpuOK'
  <2>1. /\ Flow!Fetchable(pc) /\ Flow!Fetch /\ UNCHANGED gpr
        /\ Flow!AdvanceThenJump(Flow!JumpTarget(decode_target(instruction)))
    BY <1>6 DEF J, Case, Flow!J
  <2>2. Counters'
    BY <1>1, <1>3, <2>1, JumpTargetIsAddress, JumpKeeps
  <2> QED
    BY <1>2, <2>1, <2>2 DEF CpuOK
<1>7. ASSUME JAL PROVE CpuOK'
  <2>1. /\ Flow!Fetchable(pc) /\ Flow!Fetch /\ gpr' = [gpr EXCEPT ![RA] = Flow!Link]
        /\ Flow!AdvanceThenJump(Flow!JumpTarget(decode_target(instruction)))
    BY <1>7 DEF JAL, Case, Flow!JAL
  <2>2. Counters'
    BY <1>1, <1>3, <2>1, JumpTargetIsAddress, JumpKeeps
  <2>3. gpr' \in [Registers -> Double]
    BY <2>1, LinkType, RaIsRegister DEF CpuOK
  <2> QED
    BY <1>2, <2>1, <2>2, <2>3
<1>8. ASSUME BEQ \/ BNE \/ BLEZ \/ BGTZ \/ BEQL \/ BNEL \/ BLEZL \/ BGTZL
      PROVE  CpuOK'
  <2>1. Flow!Fetchable(pc)
    BY <1>8 DEF BEQ, BNE, BLEZ, BGTZ, BEQL, BNEL, BLEZL, BGTZL, Case
  <2>2. PICK c \in BOOLEAN : Flow!BranchOn(c, Imm) \/ Flow!BranchLikelyOn(c, Imm)
    BY <1>8
       DEF BEQ, BNE, BLEZ, BGTZ, BEQL, BNEL, BLEZL, BGTZL, Flow!BEQ, Flow!BNE,
           Flow!BLEZ, Flow!BGTZ, Flow!BEQL, Flow!BNEL, Flow!BLEZL, Flow!BGTZL,
           Flow!AtMostZero
  <2>3. Counters' /\ Flow!Fetch /\ UNCHANGED gpr
    BY <1>1, <1>3, <2>1, <2>2, BranchKeeps DEF Flow!BranchOn, Flow!BranchLikelyOn
  <2> QED
    BY <1>2, <2>3 DEF CpuOK
<1>9. ASSUME NEW func, Stub(func) PROVE CpuOK'
  BY <1>1, <1>2, <1>9, AdvanceKeeps DEF Stub, Flow!NoResult, CpuOK
<1>10. ASSUME Flow!Crash PROVE CpuOK'
  BY <1>1, <1>10, AdvanceKeeps DEF Flow!Crash, CpuOK, Counters
<1> QED
  BY <1>4, <1>5, <1>6, <1>7, <1>8, <1>9, <1>10 DEF tick

LEMMA ProgramTypes ==
    ASSUME NEW p \in Programs \cup {TestProgram}
    PROVE  /\ Len(p) \in Nat \ {0}
           /\ \A j \in 1 .. Len(p) : p[j] \in Instructions
BY EmulatorAssumption

LEMMA InitType == Init => CpuOK /\ SharedOK
<1> SUFFICES ASSUME Init PROVE CpuOK /\ SharedOK
  OBVIOUS
<1>1. Base \in Nat /\ Base % 4 = 0 /\ Base \in Word /\ Base < 2 * RegionSize
      /\ RegionSize \in Nat \ {0}
  BY EmulatorAssumption, CellIsWord, Layout
<1>2. Base % (2 * RegionSize) = Base
  BY <1>1
<1>3. pc = Base /\ next_pc = Plus(Base, 4)
  BY <1>1, <1>2, SameWords, PlusType DEF Init, Flow!Init
<1>4. Plus(Base, 4) \in Word /\ Plus(Base, 4) % 4 = 0
  BY <1>1, PlusType
<1>5. Counters
  BY <1>1, <1>3, <1>4 DEF Counters, Aligned
<1>6. current_pc \in Word /\ running \in BOOLEAN /\ gpr \in [Registers -> Double]
  BY Layout, SameWords, DoubleTypes DEF Init, Flow!Init, Word
<1>7. SharedOK
  <2>1. program \in Programs
    BY DEF Init
  <2>2. program \in Programs \cup {TestProgram} /\ TestProgram \in Programs \cup {TestProgram}
    BY <2>1
  <2>3. Len(program) \in Nat /\ Len(TestProgram) \in Nat
    BY <2>2, ProgramTypes
  <2>4. memory \in [Cells -> Word]
    BY NopWord DEF Init
  <2>5. written \in 0 .. Len(program) /\ k \in 0 .. Len(TestProgram)
    BY <2>3 DEF Init
  <2>6. phase \in {"idle", "writing", "erasing", "dead"} /\ disturbed \in BOOLEAN
    BY DEF Init
  <2> QED
    BY <2>1, <2>4, <2>5, <2>6 DEF SharedOK
<1> QED
  BY <1>5, <1>6, <1>7 DEF CpuOK

LEMMA NextType ==
    ASSUME CpuOK, SharedOK, [Next]_vars
    PROVE  CpuOK' /\ SharedOK'
<1>1. program \in Programs \cup {TestProgram} /\ TestProgram \in Programs \cup {TestProgram}
  BY DEF SharedOK
<1>2. ASSUME Write PROVE CpuOK' /\ SharedOK'
  <2>1. written \in 0 .. (Len(program) - 1)
    BY <1>1, <1>2, ProgramTypes DEF Write, Loaded, SharedOK
  <2>2. Assembled(program[written + 1]) \in Word
    BY <1>1, <2>1, ProgramTypes, AssembledIsWord
  <2>3. memory' \in [Cells -> Word]
    BY <1>1, <1>2, <2>1, <2>2, PlaceIsCell DEF Write, SharedOK
  <2> QED
    BY <1>1, <1>2, <2>1, <2>3, ProgramTypes
       DEF Write, SharedOK, CpuOK, cpu, test, Counters, Aligned
<1>3. ASSUME Tick PROVE CpuOK' /\ SharedOK'
  BY <1>3, TickKeepsCpu DEF Tick, SharedOK, test
<1>4. ASSUME TestWrite PROVE CpuOK' /\ SharedOK'
  <2>1. k \in 0 .. (Len(TestProgram) - 1)
    BY <1>1, <1>4, ProgramTypes DEF TestWrite, SharedOK
  <2>2. Assembled(TestProgram[k + 1]) \in Word
    BY <1>1, <2>1, ProgramTypes, AssembledIsWord
  <2>3. memory' \in [Cells -> Word]
    BY <1>1, <1>4, <2>1, <2>2, PlaceIsCell DEF TestWrite, SharedOK
  <2> QED
    BY <1>1, <1>4, <2>1, <2>3, ProgramTypes
       DEF TestWrite, SharedOK, CpuOK, cpu, Counters, Aligned
<1>5. ASSUME TestErase PROVE CpuOK' /\ SharedOK'
  <2>1. k \in 0 .. (Len(TestProgram) - 1)
    BY <1>1, <1>5, ProgramTypes DEF TestErase, SharedOK
  <2>2. memory' \in [Cells -> Word]
    BY <1>1, <1>5, <2>1, NopWord, PlaceIsCell DEF TestErase, SharedOK
  <2> QED
    BY <1>1, <1>5, <2>1, <2>2, ProgramTypes
       DEF TestErase, SharedOK, CpuOK, cpu, Counters, Aligned
<1>6. ASSUME BeginRun \/ BeginErase \/ EndRun \/ Die PROVE CpuOK' /\ SharedOK'
  <2>1. UNCHANGED <<program, memory, written, cpu>>
    BY <1>6 DEF BeginRun, BeginErase, EndRun, Die
  <2>2. CpuOK'
    BY <2>1 DEF CpuOK, cpu, Counters, Aligned
  <2>3. Len(TestProgram) \in Nat
    BY <1>1, ProgramTypes
  <2>4. k' \in 0 .. Len(TestProgram)
    BY <1>6, <2>3 DEF BeginRun, BeginErase, EndRun, Die, SharedOK
  <2>5. phase' \in {"idle", "writing", "erasing", "dead"} /\ disturbed' \in BOOLEAN
    BY <1>6 DEF BeginRun, BeginErase, EndRun, Die, SharedOK
  <2> QED
    BY <2>1, <2>2, <2>4, <2>5 DEF SharedOK
<1>7. CASE UNCHANGED vars
  BY <1>7 DEF vars, cpu, test, SharedOK, CpuOK, Counters, Aligned
<1> QED
  BY <1>2, <1>3, <1>4, <1>5, <1>6, <1>7 DEF Next, Test

\* Whatever program runs, and whatever a test process makes of it, words are
\* fetched at aligned addresses and every register holds a 64-bit value.
THEOREM TypeCorrect == Spec => []TypeOK
<1>1. Init => CpuOK /\ SharedOK
  BY InitType
<1>2. (CpuOK /\ SharedOK) /\ [Next]_vars => (CpuOK /\ SharedOK)'
  BY NextType
<1>3. CpuOK /\ SharedOK => TypeOK
  BY Parts
<1> QED
  BY <1>1, <1>2, <1>3, PTL DEF Spec

-----------------------------------------------------------------------------
(* Who has written what.                                                   *)

\* The cells of the first n instructions of a program.
Placed(n) == {Base + 4 * j : j \in 0 .. (n - 1)}

\* What main has put in a cell.
Loading(a) ==
    IF a \in Placed(written) THEN Assembled(program[(a - Base) \div 4 + 1]) ELSE mips_nop

\* As long as no run has overlapped with the program of main, memory is that
\* of the one or of the other, and what a run has written it erases.
Clean ==
    ~ disturbed =>
        /\ written > 0 => phase = "idle"
        /\ phase = "idle" => \A a \in Cells : memory[a] = Loading(a)
        /\ phase = "writing" =>
             \A a \in Cells : memory[a] # mips_nop => a \in Placed(k)
        /\ phase = "erasing" =>
             \A a \in Cells : memory[a] # mips_nop =>
                 \E j \in k .. (Len(TestProgram) - 1) : a = Base + 4 * j

LEMMA BaseIsNat == Base \in Nat /\ Base % 4 = 0 /\ Base \in Cells
BY EmulatorAssumption, CellIsWord

LEMMA NothingPlaced == Placed(0) = {}
BY DEF Placed

LEMMA OneMorePlaced ==
    ASSUME NEW n \in Nat
    PROVE  /\ Placed(n + 1) = Placed(n) \cup {Base + 4 * n}
           /\ Base + 4 * n \notin Placed(n)
           /\ (Base + 4 * n - Base) \div 4 + 1 = n + 1
<1>1. \A j \in 0 .. n : j \in 0 .. (n - 1) \/ j = n
  OBVIOUS
<1>2. Placed(n + 1) = Placed(n) \cup {Base + 4 * n}
  BY <1>1, BaseIsNat DEF Placed
<1>3. Base + 4 * n \notin Placed(n)
  BY BaseIsNat DEF Placed
<1> QED
  BY <1>2, <1>3, BaseIsNat

LEMMA InitClean == Init => Clean
BY NothingPlaced DEF Init, Clean, Loading

LEMMA NextClean ==
    ASSUME CpuOK, SharedOK, Clean, [Next]_vars
    PROVE  Clean'
<1>1. /\ written \in Nat /\ k \in Nat /\ Len(TestProgram) \in Nat
      /\ memory \in [Cells -> Word]
  <2>1. program \in Programs \cup {TestProgram} /\ TestProgram \in Programs \cup {TestProgram}
    BY DEF SharedOK
  <2>2. Len(program) \in Nat /\ Len(TestProgram) \in Nat
    BY <2>1, ProgramTypes
  <2> QED
    BY <2>2 DEF SharedOK
<1>2. ASSUME Write PROVE Clean'
  <2> SUFFICES ASSUME ~ disturbed' PROVE Clean'
    BY DEF Clean
  <2>1. phase = "idle" /\ ~ disturbed /\ phase' = "idle"
    BY <1>2 DEF Write, test
  <2>2. \A a \in Cells : memory[a] = Loading(a)
    BY <2>1 DEF Clean
  <2>3. /\ written' = written + 1 /\ program' = program
        /\ memory' = [memory EXCEPT ![Base + 4 * written] = Assembled(program[written + 1])]
    BY <1>2 DEF Write
  <2>4. ASSUME NEW a \in Cells PROVE memory'[a] = Loading(a)'
    <3>1. CASE a = Base + 4 * written
      <4>1. memory'[a] = Assembled(program[written + 1])
        BY <1>1, <2>3, <3>1
      <4>2. a \in Placed(written + 1)
        BY <1>1, <3>1, OneMorePlaced
      <4>3. (a - Base) \div 4 + 1 = written + 1
        BY <1>1, <3>1, BaseIsNat
      <4> QED
        BY <2>3, <4>1, <4>2, <4>3 DEF Loading
    <3>2. CASE a # Base + 4 * written
      <4>1. memory'[a] = memory[a]
        BY <1>1, <2>3, <3>2
      <4>2. a \in Placed(written) <=> a \in Placed(written + 1)
        BY <1>1, <3>2, OneMorePlaced
      <4> QED
        BY <2>2, <2>3, <4>1, <4>2 DEF Loading
    <3> QED
      BY <3>1, <3>2
  <2> QED
    BY <2>1, <2>4 DEF Clean
<1>3. ASSUME Tick PROVE Clean'
  BY <1>3 DEF Tick, test, Clean, Loading
<1>4. ASSUME BeginRun PROVE Clean'
  <2> SUFFICES ASSUME ~ disturbed' PROVE Clean'
    BY DEF Clean
  <2>0. ~ disturbed /\ ~ (written > 0)
    BY <1>4 DEF BeginRun
  <2>1. ~ disturbed /\ written = 0 /\ phase = "idle" /\ phase' = "writing"
        /\ k' = 0 /\ memory' = memory /\ written' = written
    BY <1>1, <1>4, <2>0 DEF BeginRun
  <2>2. \A a \in Cells : memory[a] = mips_nop
    BY <2>1, NothingPlaced DEF Clean, Loading
  <2> QED
    BY <2>1, <2>2 DEF Clean
<1>5. ASSUME TestWrite PROVE Clean'
  <2> SUFFICES ASSUME ~ disturbed' PROVE Clean'
    BY DEF Clean
  <2>1. /\ ~ disturbed /\ phase = "writing" /\ phase' = "writing" /\ k' = k + 1
        /\ written' = written
        /\ memory' = [memory EXCEPT ![Base + 4 * k] = Assembled(TestProgram[k + 1])]
    BY <1>5 DEF TestWrite
  <2>2. ~ (written > 0) /\ \A a \in Cells : memory[a] # mips_nop => a \in Placed(k)
    BY <2>1 DEF Clean
  <2>3. ASSUME NEW a \in Cells, memory'[a] # mips_nop PROVE a \in Placed(k + 1)
    <3>1. a = Base + 4 * k \/ memory[a] # mips_nop
      BY <1>1, <2>1, <2>3
    <3> QED
      BY <1>1, <2>2, <3>1, OneMorePlaced
  <2> QED
    BY <2>1, <2>2, <2>3 DEF Clean
<1>6. ASSUME BeginErase PROVE Clean'
  <2> SUFFICES ASSUME ~ disturbed' PROVE Clean'
    BY DEF Clean
  <2>1. /\ ~ disturbed /\ phase = "writing" /\ phase' = "erasing" /\ k' = 0
        /\ k = Len(TestProgram) /\ written' = written /\ memory' = memory
    BY <1>6 DEF BeginErase
  <2>2. ~ (written > 0) /\ \A a \in Cells : memory[a] # mips_nop => a \in Placed(k)
    BY <2>1 DEF Clean
  <2> QED
    BY <2>1, <2>2 DEF Clean, Placed
<1>7. ASSUME TestErase PROVE Clean'
  <2> SUFFICES ASSUME ~ disturbed' PROVE Clean'
    BY DEF Clean
  <2>1. /\ ~ disturbed /\ phase = "erasing" /\ phase' = "erasing" /\ k' = k + 1
        /\ k < Len(TestProgram) /\ written' = written
        /\ memory' = [memory EXCEPT ![Base + 4 * k] = mips_nop]
    BY <1>7 DEF TestErase
  <2>2. /\ ~ (written > 0)
        /\ \A a \in Cells : memory[a] # mips_nop =>
               \E j \in k .. (Len(TestProgram) - 1) : a = Base + 4 * j
    BY <2>1 DEF Clean
  <2>3. ASSUME NEW a \in Cells, memory'[a] # mips_nop
        PROVE  \E j \in (k + 1) .. (Len(TestProgram) - 1) : a = Base + 4 * j
    <3>1. a # Base + 4 * k /\ memory[a] # mips_nop
      BY <1>1, <2>1, <2>3
    <3>2. PICK j \in k .. (Len(TestProgram) - 1) : a = Base + 4 * j
      BY <2>2, <3>1
    <3>3. j \in (k + 1) .. (Len(TestProgram) - 1)
      BY <1>1, <3>1, <3>2
    <3> QED
      BY <3>2, <3>3
  <2>4. k' \in Nat /\ TestProgram = TestProgram'
    BY <1>1, <2>1
  <2> QED
    BY <2>1, <2>2, <2>3 DEF Clean
<1>8. ASSUME EndRun PROVE Clean'
  <2> SUFFICES ASSUME ~ disturbed' PROVE Clean'
    BY DEF Clean
  <2>1. /\ ~ disturbed /\ phase = "erasing" /\ phase' = "idle" /\ k = Len(TestProgram)
        /\ written' = written /\ memory' = memory
    BY <1>8 DEF EndRun
  <2>2. /\ ~ (written > 0)
        /\ \A a \in Cells : memory[a] # mips_nop =>
               \E j \in k .. (Len(TestProgram) - 1) : a = Base + 4 * j
    BY <2>1 DEF Clean
  <2>3. written = 0 /\ \A a \in Cells : memory[a] = mips_nop
    BY <1>1, <2>1, <2>2
  <2> QED
    BY <2>1, <2>3, NothingPlaced DEF Clean, Loading
<1>9. ASSUME Die PROVE Clean'
  BY <1>9 DEF Die, Clean
<1>10. CASE UNCHANGED vars
  BY <1>10 DEF vars, test, Clean, Loading
<1> QED
  BY <1>2, <1>3, <1>4, <1>5, <1>6, <1>7, <1>8, <1>9, <1>10 DEF Next, Test

-----------------------------------------------------------------------------
(* What is fetched is what was written.                                    *)

\* The instruction that the programmer wrote at pc.
Here == Source!InstructionAt(pc)

LEMMA HereIsInstruction ==
    ASSUME CpuOK, SharedOK, Flow!Fetchable(pc)
    PROVE  Here \in Instructions
<1>1. program \in Programs \cup {TestProgram}
  BY DEF SharedOK
<1>2. CASE pc \in {Base + 4 * j : j \in 0 .. (Len(program) - 1)}
  <2>1. PICK j \in 0 .. (Len(program) - 1) : pc = Base + 4 * j
    BY <1>2
  <2>2. (pc - Base) \div 4 + 1 = j + 1 /\ j + 1 \in 1 .. Len(program)
    BY <1>1, <2>1, BaseIsNat, ProgramTypes
  <2> QED
    BY <1>1, <1>2, <2>2, ProgramTypes DEF Here, Source!InstructionAt
<1>3. CASE pc \notin {Base + 4 * j : j \in 0 .. (Len(program) - 1)}
  BY <1>3 DEF Here, Source!InstructionAt, Source!Nop, Instructions
<1> QED
  BY <1>2, <1>3

LEMMA FetchedIsWritten ==
    ASSUME CpuOK, SharedOK, Clean, Loaded, ~ disturbed, Flow!Fetchable(pc)
    PROVE  instruction = Assembled(Here)
<1>1. written = Len(program) /\ written > 0
  <2>1. program \in Programs \cup {TestProgram}
    BY DEF SharedOK
  <2> QED
    BY <2>1, ProgramTypes DEF Loaded
<1>2. pc \in Cells
  BY WordFetched
<1>3. memory[pc] = Loading(pc)
  BY <1>1, <1>2 DEF Clean
<1>4. CASE pc \in Placed(written)
  BY <1>1, <1>3, <1>4
     DEF instruction, Loading, Placed, Here, Source!InstructionAt
<1>5. CASE pc \notin Placed(written)
  <2>1. Here = [op |-> "NOP"]
    BY <1>1, <1>5 DEF Placed, Here, Source!InstructionAt, Source!Nop
  <2> QED
    BY <1>3, <1>5, <2>1, AssembledNop DEF instruction, Loading
<1> QED
  BY <1>4, <1>5

\* Only a NOP is assembled into the word that tick skips.
LEMMA OnlyNopIsZero ==
    ASSUME NEW i \in Instructions, Assembled(i) = mips_nop
    PROVE  i.op = "NOP"
BY Kinds, DecodedImmediate, DecodedJump, DecodedStub, OpcodeNumbers, NopWord

-----------------------------------------------------------------------------
(* The handlers are steps of the architecture.                             *)

LEMMA SameArch ==
    /\ \A a, i : Source!Flow!Plus(a, i) = Flow!Plus(a, i)
    /\ \A d : Source!Flow!AtMostZero(d) = Flow!AtMostZero(d)
    /\ Source!Flow!Fetchable(pc) = Flow!Fetchable(pc)
BY DEF Source!Flow!Plus, Source!Flow!ToWord, Flow!Plus, Flow!ToWord,
       Source!Flow!AtMostZero, Flow!AtMostZero, Source!Flow!Negative, Flow!Negative,
       Source!Flow!Half, Flow!Half, Source!Flow!ZeroDouble, Flow!ZeroDouble,
       Source!Flow!Fetchable, Flow!Fetchable

\* Control goes to next_pc, whether a transfer is in flight or not.
LEMMA ReachedIsNextPc == Source!Flow!Reached = {next_pc}
BY SameArch DEF Source!Flow!Reached, Flow!InFlight

LEMMA AdvanceIsSequential == Flow!Advance => Source!Flow!Sequential
BY ReachedIsNextPc DEF Flow!Advance, Source!Flow!Sequential, Flow!InFlight

LEMMA JumpIsTransfer ==
    ASSUME NEW target, Flow!AdvanceThenJump(target)
    PROVE  Source!Flow!TransferTo(target)
BY ReachedIsNextPc, SameArch
   DEF Flow!AdvanceThenJump, Source!Flow!TransferTo, Flow!InFlight

LEMMA AnnulIsNullify == Flow!AdvanceThenAnnul => Source!Flow!Nullify
BY ReachedIsNextPc, SameArch
   DEF Flow!AdvanceThenAnnul, Source!Flow!Nullify, Flow!InFlight

LEMMA FetchIsExecuting == Flow!Fetch => Source!Flow!Executing
BY SameArch DEF Flow!Fetch, Source!Flow!Executing

\* The zero-extended link is the sign-extended return address.
LEMMA LinkIsReturnAddress ==
    ASSUME Counters, Flow!Fetchable(pc)
    PROVE  Flow!Link = Source!Flow!ReturnAddress
<1>1. 0 \in 0 .. (TargetSize - 1)
  BY Layout
<1>2. pc + 8 < Half /\ pc \in Nat
  BY <1>1, JumpTargetIsAddress, Layout DEF Counters, Word
<1>3. (pc + 8) % WordSize = pc + 8
  BY <1>2, Layout
<1>4. ~ (pc + 8 >= WordSize \div 2)
  BY <1>2, Layout DEF Half
<1> QED
  BY <1>3, <1>4
     DEF Flow!Link, Flow!ZeroExtend, Flow!Plus, Flow!ToWord,
         Source!Flow!ReturnAddress, Source!Flow!SignExtend, Source!Flow!Negative,
         Source!Flow!Half, Source!Flow!Plus, Source!Flow!ToWord

\* The conditions that the handlers test.
LEMMA Holding ==
    \A i : /\ Source!Holds("BEQ", i) = (gpr[i.rs] = gpr[i.rt])
           /\ Source!Holds("BEQL", i) = (gpr[i.rs] = gpr[i.rt])
           /\ Source!Holds("BNE", i) = (gpr[i.rs] # gpr[i.rt])
           /\ Source!Holds("BNEL", i) = (gpr[i.rs] # gpr[i.rt])
           /\ Source!Holds("BLEZ", i) = Flow!AtMostZero(gpr[i.rs])
           /\ Source!Holds("BLEZL", i) = Flow!AtMostZero(gpr[i.rs])
           /\ Source!Holds("BGTZ", i) = ~ Flow!AtMostZero(gpr[i.rs])
           /\ Source!Holds("BGTZL", i) = ~ Flow!AtMostZero(gpr[i.rs])
BY SameArch DEF Source!Holds, Source!Flow!Condition

LEMMA BranchTargetIsArch ==
    \A imm : Flow!BranchTarget(imm) = Source!Flow!BranchTarget(imm)
BY SameArch DEF Flow!BranchTarget, Source!Flow!BranchTarget

\* What every step of the processor leaves alone, and that the word at pc is
\* the one that was assembled from Here.
Executed(i) ==
    /\ Flow!Fetch
    /\ UNCHANGED <<program, disturbed>>
    /\ i = Here

LEMMA BranchImplements ==
    ASSUME NEW i \in Instructions, Executed(i), UNCHANGED gpr,
           i.op \in {"BEQ", "BNE", "BLEZ", "BGTZ"},
           Flow!BranchOn(Source!Holds(i.op, i), i.imm)
    PROVE  Source!Execute
<1>1. IF Source!Holds(i.op, i)
      THEN Source!Flow!TransferTo(Source!Flow!BranchTarget(i.imm))
      ELSE Source!Flow!Sequential
  BY BranchTargetIsArch, JumpIsTransfer, AdvanceIsSequential DEF Flow!BranchOn
<1>2. Source!Branch(i)
  BY <1>1 DEF Source!Branch
<1> QED
  BY <1>2, FetchIsExecuting DEF Source!Execute, Executed, Here

LEMMA BranchLikelyImplements ==
    ASSUME NEW i \in Instructions, Executed(i), UNCHANGED gpr,
           i.op \in {"BEQL", "BNEL", "BLEZL", "BGTZL"},
           Flow!BranchLikelyOn(Source!Holds(i.op, i), i.imm)
    PROVE  Source!Execute
<1>1. IF Source!Holds(i.op, i)
      THEN Source!Flow!TransferTo(Source!Flow!BranchTarget(i.imm))
      ELSE Source!Flow!Nullify
  BY BranchTargetIsArch, JumpIsTransfer, AnnulIsNullify DEF Flow!BranchLikelyOn
<1>2. Source!Branch(i)
  BY <1>1 DEF Source!Branch
<1> QED
  BY <1>2, FetchIsExecuting DEF Source!Execute, Executed, Here

\* The instruction that a case of tick finds.
LEMMA Found ==
    ASSUME CpuOK, SharedOK, Clean, Loaded, ~ disturbed,
           NEW op \in Immediate \cup Jumps, Case(Opcode[op])
    PROVE  /\ Here \in Instructions /\ Here.op = op /\ Flow!Fetchable(pc)
           /\ op \in Immediate => Rs = Here.rs /\ Rt = Here.rt /\ Imm = Here.imm
           /\ op \in Jumps => 4 * decode_target(instruction) = Here.target
<1>1. /\ Flow!Fetchable(pc) /\ instruction # mips_nop
      /\ decode_opcode(instruction) = Opcode[op]
  BY DEF Case
<1>2. Here \in Instructions /\ instruction = Assembled(Here)
  BY <1>1, HereIsInstruction, FetchedIsWritten
<1>3. Here.op = op
  BY <1>1, <1>2, OpcodesDiffer
<1>4. op \in Immediate => Rs = Here.rs /\ Rt = Here.rt /\ Imm = Here.imm
  BY <1>2, <1>3, DecodedImmediate DEF Rs, Rt, Imm
<1>5. op \in Jumps => 4 * decode_target(instruction) = Here.target
  BY <1>2, <1>3, DecodedJump
<1> QED
  BY <1>1, <1>2, <1>3, <1>4, <1>5

LEMMA OpcodeTable ==
    /\ Opcode["ADDI"] = MIPS_OP_ADDI /\ Opcode["J"] = MIPS_OP_J
    /\ Opcode["JAL"] = MIPS_OP_JAL
    /\ Opcode["BEQ"] = MIPS_OP_BEQ /\ Opcode["BNE"] = MIPS_OP_BNE
    /\ Opcode["BLEZ"] = MIPS_OP_BLEZ /\ Opcode["BGTZ"] = MIPS_OP_BGTZ
    /\ Opcode["BEQL"] = MIPS_OP_BEQL /\ Opcode["BNEL"] = MIPS_OP_BNEL
    /\ Opcode["BLEZL"] = MIPS_OP_BLEZL /\ Opcode["BGTZL"] = MIPS_OP_BGTZL
    /\ Immediate = {"ADDI", "BEQ", "BNE", "BLEZ", "BGTZ", "BEQL", "BNEL", "BLEZL", "BGTZL"}
    /\ Jumps = {"J", "JAL"}
BY DEF Opcode, Immediate, Branches, Jumps

\* A tick executes the instruction at pc as it was written.
LEMMA TickImplements ==
    ASSUME CpuOK, SharedOK, Clean, Tick, ~ disturbed
    PROVE  Source!ANext
<1>1. Loaded /\ tick /\ UNCHANGED <<program, disturbed>> /\ Counters
  BY DEF Tick, CpuOK
<1>2. ASSUME Flow!Fetch PROVE Executed(Here)
  BY <1>1, <1>2 DEF Executed
<1>3. ASSUME NOP PROVE Source!Execute
  <2>1. Flow!Fetchable(pc) /\ instruction = mips_nop /\ Flow!NoResult
    BY <1>3 DEF NOP
  <2>2. Here \in Instructions /\ Assembled(Here) = mips_nop
    BY <1>1, <2>1, HereIsInstruction, FetchedIsWritten
  <2>3. Here.op = "NOP"
    BY <2>2, OnlyNopIsZero
  <2>4. Source!Flow!Executing /\ Source!Nothing
    BY <2>1, FetchIsExecuting, AdvanceIsSequential DEF Flow!NoResult, Source!Nothing
  <2> QED
    BY <1>1, <2>3, <2>4 DEF Source!Execute, Here
<1>4. ASSUME NEW op \in DOMAIN Stubs, Stub(Stubs[op]) PROVE Source!Execute
  <2>1. /\ Flow!Fetchable(pc) /\ instruction # mips_nop /\ Flow!NoResult
        /\ decode_opcode(instruction) = MIPS_OP_SPECIAL
    BY <1>4 DEF Stub, Case
  <2>2. Here \in Instructions /\ Assembled(Here) = instruction
    BY <1>1, <2>1, HereIsInstruction, FetchedIsWritten
  <2>3. Here.op \in {"SYSCALL", "BREAK", "SYNC"}
    BY <2>1, <2>2, OpcodesDiffer DEF Stubs
  <2>4. Source!Flow!Executing /\ Source!Nothing
    BY <2>1, FetchIsExecuting, AdvanceIsSequential DEF Flow!NoResult, Source!Nothing
  <2> QED
    BY <1>1, <2>3, <2>4 DEF Source!Execute, Here
<1>5. ASSUME ADDI PROVE Source!Execute
  <2>1. Case(Opcode["ADDI"]) /\ "ADDI" \in Immediate
    BY <1>5, OpcodeTable DEF ADDI
  <2>2. Here.op = "ADDI" /\ Rs = Here.rs /\ Rt = Here.rt /\ Imm = Here.imm
    BY <1>1, <2>1, Found
  <2> DEFINE sum == Signed(gpr[Here.rs].lo) + Here.imm
  <2>3. IF -Half <= sum /\ sum < Half
        THEN Flow!Compute(Here.rt, SignExtend(ToWord(sum)))
        ELSE Flow!NoResult
    BY <1>5, <2>2 DEF ADDI, Rs, Rt, Imm
  <2>4. Source!Flow!Executing /\ Source!Flow!Sequential
    BY <2>3, FetchIsExecuting, AdvanceIsSequential DEF Flow!Compute, Flow!NoResult
  <2>5. /\ Source!Fits(sum) <=> (-Half <= sum /\ sum < Half)
        /\ Source!SignExtend(Source!ToWord(sum)) = SignExtend(ToWord(sum))
        /\ sum = Source!Signed(gpr[Here.rs].lo) + Here.imm
    BY DEF Source!Fits, Source!Half, Half, Source!SignExtend, SignExtend,
           Source!ToWord, ToWord, Source!Signed, Signed, Source!Negative, Negative
  <2> HIDE DEF sum
  <2>6. IF Source!Fits(sum)
        THEN Source!Flow!Write(Here.rt, Source!SignExtend(Source!ToWord(sum)))
        ELSE UNCHANGED gpr
    BY <2>3, <2>5 DEF Flow!Compute, Flow!NoResult, Source!Flow!Write
  <2>7. Source!ADDI(Here)
    BY <2>4, <2>5, <2>6 DEF Source!ADDI
  <2> QED
    BY <1>1, <2>2, <2>4, <2>7 DEF Source!Execute, Here
<1>6. ASSUME J PROVE Source!Execute
  <2>1. Case(Opcode["J"]) /\ "J" \in Jumps /\ Flow!J(decode_target(instruction))
    BY <1>6, OpcodeTable DEF J
  <2>2. /\ Here.op = "J" /\ Flow!Fetchable(pc)
        /\ 4 * decode_target(instruction) = Here.target
    BY <1>1, <2>1, Found
  <2>3. Flow!JumpTarget(decode_target(instruction)) = Here.target
    BY <1>1, <2>2, WordFetched, FieldTypes, JumpTargetIsAddress
  <2>4. Source!Flow!Executing /\ Source!Jump(Here)
    BY <2>1, <2>2, <2>3, FetchIsExecuting, JumpIsTransfer DEF Flow!J, Source!Jump
  <2> QED
    BY <1>1, <2>2, <2>4 DEF Source!Execute, Here
<1>7. ASSUME JAL PROVE Source!Execute
  <2>1. Case(Opcode["JAL"]) /\ "JAL" \in Jumps /\ Flow!JAL(decode_target(instruction))
    BY <1>7, OpcodeTable DEF JAL
  <2>2. /\ Here.op = "JAL" /\ Flow!Fetchable(pc)
        /\ 4 * decode_target(instruction) = Here.target
    BY <1>1, <2>1, Found
  <2>3. Flow!JumpTarget(decode_target(instruction)) = Here.target
    BY <1>1, <2>2, WordFetched, FieldTypes, JumpTargetIsAddress
  <2>4. Source!Flow!Write(RA, Source!Flow!ReturnAddress)
    BY <1>1, <2>1, <2>2, LinkIsReturnAddress DEF Flow!JAL, Source!Flow!Write
  <2>5. Source!Flow!Executing /\ Source!Jump(Here)
    BY <2>1, <2>2, <2>3, <2>4, FetchIsExecuting, JumpIsTransfer
       DEF Flow!JAL, Source!Jump
  <2> QED
    BY <1>1, <2>2, <2>5 DEF Source!Execute, Here
<1>8. ASSUME BEQ \/ BNE \/ BLEZ \/ BGTZ PROVE Source!Execute
  <2>1. PICK op \in {"BEQ", "BNE", "BLEZ", "BGTZ"} :
          /\ Case(Opcode[op])
          /\ CASE op = "BEQ"  -> Flow!BEQ(Rs, Rt, Imm)
               [] op = "BNE"  -> Flow!BNE(Rs, Rt, Imm)
               [] op = "BLEZ" -> Flow!BLEZ(Rs, Imm)
               [] op = "BGTZ" -> Flow!BGTZ(Rs, Imm)
    BY <1>8, OpcodeTable DEF BEQ, BNE, BLEZ, BGTZ
  <2>2. /\ Here \in Instructions /\ Here.op = op
        /\ Rs = Here.rs /\ Rt = Here.rt /\ Imm = Here.imm
    BY <1>1, <2>1, OpcodeTable, Found
  <2>3. Flow!BranchOn(Source!Holds(op, Here), Here.imm)
    <3>1. CASE op = "BEQ"
      <4>1. Flow!BranchOn(gpr[Rs] = gpr[Rt], Imm)
        BY <2>1, <3>1 DEF Flow!BEQ
      <4>2. Source!Holds(op, Here) = (gpr[Rs] = gpr[Rt])
        BY <2>2, <3>1, Holding, Zenon
      <4> QED
        BY <2>2, <4>1, <4>2, Zenon
    <3>2. CASE op = "BNE"
      <4>1. Flow!BranchOn(gpr[Rs] # gpr[Rt], Imm)
        BY <2>1, <3>2 DEF Flow!BNE
      <4>2. Source!Holds(op, Here) = (gpr[Rs] # gpr[Rt])
        BY <2>2, <3>2, Holding, Zenon
      <4> QED
        BY <2>2, <4>1, <4>2, Zenon
    <3>3. CASE op = "BLEZ"
      <4>1. Flow!BranchOn(Flow!AtMostZero(gpr[Rs]), Imm)
        BY <2>1, <3>3 DEF Flow!BLEZ
      <4>2. Source!Holds(op, Here) = Flow!AtMostZero(gpr[Rs])
        BY <2>2, <3>3, Holding, Zenon
      <4> QED
        BY <2>2, <4>1, <4>2, Zenon
    <3>4. CASE op = "BGTZ"
      <4>1. Flow!BranchOn(~ Flow!AtMostZero(gpr[Rs]), Imm)
        BY <2>1, <3>4 DEF Flow!BGTZ
      <4>2. Source!Holds(op, Here) = (~ Flow!AtMostZero(gpr[Rs]))
        BY <2>2, <3>4, Holding, Zenon
      <4> QED
        BY <2>2, <4>1, <4>2, Zenon
    <3> QED
      BY <2>1, <3>1, <3>2, <3>3, <3>4
  <2>4. Executed(Here) /\ UNCHANGED gpr
    BY <1>2, <2>3 DEF Flow!BranchOn
  <2> QED
    BY <2>2, <2>3, <2>4, BranchImplements
<1>9. ASSUME BEQL \/ BNEL \/ BLEZL \/ BGTZL PROVE Source!Execute
  <2>1. PICK op \in {"BEQL", "BNEL", "BLEZL", "BGTZL"} :
          /\ Case(Opcode[op])
          /\ CASE op = "BEQL"  -> Flow!BEQL(Rs, Rt, Imm)
               [] op = "BNEL"  -> Flow!BNEL(Rs, Rt, Imm)
               [] op = "BLEZL" -> Flow!BLEZL(Rs, Imm)
               [] op = "BGTZL" -> Flow!BGTZL(Rs, Imm)
    BY <1>9, OpcodeTable DEF BEQL, BNEL, BLEZL, BGTZL
  <2>2. /\ Here \in Instructions /\ Here.op = op
        /\ Rs = Here.rs /\ Rt = Here.rt /\ Imm = Here.imm
    BY <1>1, <2>1, OpcodeTable, Found
  <2>3. Flow!BranchLikelyOn(Source!Holds(op, Here), Here.imm)
    <3>1. CASE op = "BEQL"
      <4>1. Flow!BranchLikelyOn(gpr[Rs] = gpr[Rt], Imm)
        BY <2>1, <3>1 DEF Flow!BEQL
      <4>2. Source!Holds(op, Here) = (gpr[Rs] = gpr[Rt])
        BY <2>2, <3>1, Holding, Zenon
      <4> QED
        BY <2>2, <4>1, <4>2, Zenon
    <3>2. CASE op = "BNEL"
      <4>1. Flow!BranchLikelyOn(gpr[Rs] # gpr[Rt], Imm)
        BY <2>1, <3>2 DEF Flow!BNEL
      <4>2. Source!Holds(op, Here) = (gpr[Rs] # gpr[Rt])
        BY <2>2, <3>2, Holding, Zenon
      <4> QED
        BY <2>2, <4>1, <4>2, Zenon
    <3>3. CASE op = "BLEZL"
      <4>1. Flow!BranchLikelyOn(Flow!AtMostZero(gpr[Rs]), Imm)
        BY <2>1, <3>3 DEF Flow!BLEZL
      <4>2. Source!Holds(op, Here) = Flow!AtMostZero(gpr[Rs])
        BY <2>2, <3>3, Holding, Zenon
      <4> QED
        BY <2>2, <4>1, <4>2, Zenon
    <3>4. CASE op = "BGTZL"
      <4>1. Flow!BranchLikelyOn(~ Flow!AtMostZero(gpr[Rs]), Imm)
        BY <2>1, <3>4 DEF Flow!BGTZL
      <4>2. Source!Holds(op, Here) = (~ Flow!AtMostZero(gpr[Rs]))
        BY <2>2, <3>4, Holding, Zenon
      <4> QED
        BY <2>2, <4>1, <4>2, Zenon
    <3> QED
      BY <2>1, <3>1, <3>2, <3>3, <3>4
  <2>4. Executed(Here) /\ UNCHANGED gpr
    BY <1>2, <2>3 DEF Flow!BranchLikelyOn
  <2> QED
    BY <2>2, <2>3, <2>4, BranchLikelyImplements
<1>10. ASSUME Flow!Crash PROVE Source!Fault
  BY <1>1, <1>10, SameArch, AdvanceIsSequential
     DEF Flow!Crash, Source!Fault, Source!Flow!Fault
<1> QED
  BY <1>1, <1>3, <1>4, <1>5, <1>6, <1>7, <1>8, <1>9, <1>10 DEF tick, Source!ANext

-----------------------------------------------------------------------------
(* Refinement.                                                             *)

LEMMA InitRefines == Init => Source!AInit
<1> SUFFICES ASSUME Init PROVE Source!AInit
  OBVIOUS
<1>1. Base % (2 * RegionSize) = Base
  BY BaseIsNat, CellIsWord, Layout
<1>2. pc = Base /\ Flow!InFlight = {}
  BY <1>1, SameWords DEF Init, Flow!Init, Flow!InFlight
<1> QED
  BY <1>2
     DEF Init, Flow!Init, Source!AInit, Source!ZeroDouble, Flow!ZeroDouble

LEMMA NextRefines ==
    ASSUME CpuOK, SharedOK, Clean, [Next]_vars
    PROVE  [Source!ANext]_(Source!avars)
<1>1. ASSUME Tick, ~ disturbed PROVE Source!ANext
  BY <1>1, TickImplements
<1>2. ASSUME disturbed PROVE Source!ANext
  <2>1. disturbed'
    BY <1>2 DEF Next, Write, Tick, Test, BeginRun, TestWrite, BeginErase, TestErase,
                EndRun, Die, vars
  <2> QED
    BY <1>2, <2>1 DEF Source!ANext, Source!Anything
<1>3. ASSUME Write \/ Test PROVE Source!ANext \/ UNCHANGED Source!avars
  <2>1. UNCHANGED <<program, cpu>>
    BY <1>3 DEF Write, Test, BeginRun, TestWrite, BeginErase, TestErase, EndRun, Die
  <2>2. UNCHANGED <<program, pc, Flow!InFlight, gpr, running>>
    BY <2>1 DEF cpu, Flow!InFlight, Flow!Plus, Flow!ToWord
  <2>3. disturbed' \/ disturbed' = disturbed
    BY <1>3 DEF SharedOK, Write, Test, BeginRun, TestWrite, BeginErase, TestErase,
                EndRun, Die
  <2>4. CASE disturbed'
    BY <2>2, <2>4 DEF Source!ANext, Source!Lose
  <2>5. CASE disturbed' = disturbed
    BY <2>2, <2>5 DEF Source!avars
  <2> QED
    BY <2>3, <2>4, <2>5
<1>4. CASE UNCHANGED vars
  BY <1>4 DEF vars, cpu, Source!avars, Flow!InFlight, Flow!Plus, Flow!ToWord
<1> QED
  BY <1>1, <1>2, <1>3, <1>4 DEF Next

\* The application executes its program as it was written in assembly
\* language: no field of an instruction is lost on the way through the encode
\* functions, guest memory and the decode functions of tick, and a run of a
\* test process that was over before leaves nothing behind.
THEOREM AssemblyImplemented == Spec => ImplementsAssembly
<1> DEFINE IInv == CpuOK /\ SharedOK /\ Clean
<1>1. Init => IInv
  BY InitType, InitClean
<1>2. IInv /\ [Next]_vars => IInv'
  BY NextType, NextClean
<1>3. Init => Source!AInit
  BY InitRefines
<1>4. IInv /\ [Next]_vars => [Source!ANext]_(Source!avars)
  BY NextRefines
<1> HIDE DEF IInv
<1> QED
  BY <1>1, <1>2, <1>3, <1>4, PTL DEF Spec, ImplementsAssembly, Source!ASpec

=============================================================================
