----------------------------- MODULE FpuProofs -----------------------------
(***************************************************************************)
(* Proofs about Fpu, for any set of registers.  TypeOK needs no            *)
(* strengthening: that the accumulator holds no signalling NaN and no      *)
(* pattern of all ones is what limits where the latter can come from.      *)
(***************************************************************************)
EXTENDS Fpu, TLAPS

\* What a sum, a product or a quotient may be: floats, the signalling NaN never
\* among them, and the pattern of all ones only with a NaN that can become it.
LEMMA ArithmeticFloats ==
    ASSUME NEW a \in Float, NEW b \in Float,
           NEW f \in Sum(a, b) \cup Product(a, b) \cup Quotient(a, b)
    PROVE  /\ f \in Float /\ f # "signal"
           /\ f = "ones" => a \in {"signal", "ones"} \/ b \in {"signal", "ones"}
<1>1. CASE {a, b} \cap NotANumber # {}
  <2>1. f \in OfNaN({a, b})
    <3>0. a \in NotANumber \/ b \in NotANumber
      BY <1>1
    <3>1. Sum(a, b) = OfNaN({a, b})
      BY <1>1, <3>0 DEF Sum, With, Finite, NotANumber
    <3>2. Product(a, b) = OfNaN({a, b})
      BY <1>1, <3>0 DEF Product, With, Finite, Nonzero, NotANumber
    <3>3. Quotient(a, b) = OfNaN({a, b})
      BY <1>1, <3>0 DEF Quotient, Finite, Nonzero, NotANumber
    <3> QED
      BY <3>1, <3>2, <3>3
  <2>2. PICK g \in {a, b} \cap NotANumber : f \in Quieted(g)
    BY <2>1 DEF OfNaN
  <2> QED
    BY <2>2 DEF Quieted, NotANumber, Float
<1>2. CASE {a, b} \cap NotANumber = {}
  <2>1. a \in Finite \cup {"inf"} /\ b \in Finite \cup {"inf"}
    BY <1>2 DEF Float, Finite
  <2>2. \A x \in Sum(a, b) : x \in Finite \cup {"inf", "nan"}
    BY <1>2, <2>1 DEF Sum, Finite, With
  <2>3. \A x \in Product(a, b) : x \in Finite \cup {"inf", "nan"}
    <3>1. CASE a = "zero" \/ b = "zero"
      BY <3>1, <1>2, <2>1 DEF Product, Finite, Nonzero, With
    <3>2. CASE {a, b} \in With("inf", Nonzero \cup {"inf"})
      <4>1. {a, b} # {"inf", "zero"}
        BY <3>2 DEF With, Nonzero, Finite
      <4>2. {a, b} \notin With("zero", Finite)
        BY <3>2 DEF With, Nonzero, Finite
      <4>3. a = "inf" \/ b = "inf"
        BY <3>2 DEF With
      <4>4. Product(a, b) = {"inf"}
        BY <3>2, <4>1, <4>2, <4>3, <1>2 DEF Product
      <4> QED
        BY <4>4
    <3>3. CASE {a, b} \subseteq Nonzero
      <4>1. {a, b} \notin With("inf", Nonzero \cup {"inf"})
        BY <3>3 DEF With, Nonzero, Finite
      <4>2. {a, b} \notin With("zero", Finite)
        BY <3>3 DEF With, Nonzero, Finite
      <4>3. {a, b} # {"inf", "zero"}
        BY <3>3 DEF Nonzero, Finite
      <4> QED
        BY <3>3, <1>2, <4>1, <4>2, <4>3 DEF Product, Finite, Nonzero
    <3> QED
      BY <2>1, <3>1, <3>2, <3>3 DEF Finite, Nonzero, With
  <2>4. \A x \in Quotient(a, b) : x \in Finite \cup {"inf", "nan"}
    BY <1>2, <2>1 DEF Quotient, Finite, Nonzero
  <2> QED
    BY <2>2, <2>3, <2>4 DEF Finite, Float, NotANumber
<1> QED
  BY <1>1, <1>2

\* What a write stores is a float the clamp lets through.
LEMMA ClampedFloats ==
    ASSUME NEW f \in Float
    PROVE  /\ Clamped(f) \in Float \ {"denormal", "ones"}
           /\ f # "signal" => Clamped(f) # "signal"
BY DEF Clamped, Float, NotANumber

\* A square root and its reciprocal are floats.
LEMMA SquareRootFloats ==
    ASSUME NEW f \in Float, NEW g \in SquareRoot(f)
    PROVE  g \in Float /\ Reciprocal(g) \in Float
BY DEF SquareRoot, Quieted, Reciprocal, Float, NotANumber

-----------------------------------------------------------------------------
(* The invariant over the writes.                                          *)

IInv == TypeOK /\ StickyCovers /\ FlagsDescribeLast

FlagsOK ==
    /\ flags \subseteq Flags
    /\ sticky \subseteq Flags
    /\ StickyCovers
    /\ FlagsDescribeLast

\* Where the pattern of all ones can come from.
OnesInRegister == \E r \in FRegs : fpr[r] \in {"signal", "ones"}

\* An overflow that a step raises.
OverflowStep == "overflow" \in flags' \ flags => OnesInRegister

\* The flags describe the value that was just written.
LEMMA FlaggedFlags ==
    ASSUME IInv, NEW f \in Float, Flagged(f), last' = f
    PROVE  FlagsOK' /\ ("overflow" \in flags' => f = "ones")
BY DEF IInv, TypeOK, FlagsOK, StickyCovers, FlagsDescribeLast, Flagged, Raised,
       Cleared, Flags, Float, NotANumber

LEMMA FprWrites ==
    ASSUME IInv, NEW reg \in FRegs, NEW f \in Float, write_fpr(reg, f)
    PROVE  IInv' /\ ("overflow" \in flags' => f = "ones")
<1>1. Taken(reg, f) \in Float /\ Taken(reg, f) \in {"zero", f}
  BY DEF Taken, Float
<1>2. FlagsOK' /\ ("overflow" \in flags' => Taken(reg, f) = "ones")
  BY <1>1, FlaggedFlags DEF write_fpr
<1>3. fpr' \in [FRegs -> Float] /\ facc' = facc /\ last' \in Float
  BY <1>1, ClampedFloats DEF write_fpr, IInv, TypeOK
<1> QED
  BY <1>1, <1>2, <1>3 DEF IInv, TypeOK, FlagsOK

LEMMA FaccWrites ==
    ASSUME IInv, NEW f \in Float, f # "signal", write_facc(f)
    PROVE  IInv' /\ ("overflow" \in flags' => f = "ones")
<1>1. FlagsOK' /\ ("overflow" \in flags' => f = "ones")
  BY FlaggedFlags DEF write_facc
<1>2. fpr' = fpr /\ facc' \in Float \ {"denormal", "signal", "ones"} /\ last' = f
  BY ClampedFloats DEF write_facc
<1> QED
  BY <1>1, <1>2 DEF IInv, TypeOK, FlagsOK

\* The results of arithmetic on the registers and perhaps the accumulator,
\* which never holds what could become the pattern of all ones.
LEMMA Operands ==
    ASSUME IInv, NEW fs \in FRegs, NEW ft \in FRegs,
           NEW f \in UNION {Sum(fpr[fs], fpr[ft]), Product(fpr[fs], fpr[ft]),
                            Quotient(fpr[fs], fpr[ft]), MultiplyAdd(fs, ft)}
    PROVE  f \in Float /\ f # "signal" /\ (f = "ones" => OnesInRegister)
<1>1. fpr[fs] \in Float /\ fpr[ft] \in Float
  BY DEF IInv, TypeOK
<1>2. facc \in Float /\ facc \notin {"signal", "ones"}
  BY DEF IInv, TypeOK
<1>3. ASSUME NEW g \in Sum(fpr[fs], fpr[ft]) \cup Product(fpr[fs], fpr[ft])
                        \cup Quotient(fpr[fs], fpr[ft])
      PROVE  g \in Float /\ g # "signal" /\ (g = "ones" => OnesInRegister)
  BY <1>1, ArithmeticFloats DEF OnesInRegister
<1>4. CASE f \in MultiplyAdd(fs, ft)
  <2>1. PICK g \in Product(fpr[fs], fpr[ft]) : f \in Sum(facc, g)
    BY <1>4 DEF MultiplyAdd
  <2>2. g \in Float /\ g # "signal" /\ (g = "ones" => OnesInRegister)
    BY <1>3
  <2>3. f \in Float /\ f # "signal"
    BY <1>2, <2>1, <2>2, ArithmeticFloats
  <2>4. f = "ones" => g \in {"signal", "ones"}
    BY <1>2, <2>1, <2>2, ArithmeticFloats
  <2> QED
    BY <2>2, <2>3, <2>4
<1> QED
  BY <1>3, <1>4

\* Writes past write_fpr raise no overflow.
LEMMA OtherWrites ==
    ASSUME IInv, NEW reg \in FRegs, NEW f \in Float,
           Bypassing(reg, f) \/ Silent(reg, f)
    PROVE  IInv' /\ OverflowStep
<1>1. fpr' \in [FRegs -> Float] /\ facc' = facc
  BY DEF Bypassing, Silent, IInv, TypeOK
<1>2. FlagsOK' /\ last' \in Float \cup {"none"} /\ flags' \subseteq flags
  BY DEF Bypassing, Silent, Cleared, IInv, TypeOK, FlagsOK, StickyCovers,
         FlagsDescribeLast, Flags, Float, NotANumber
<1> QED
  BY <1>1, <1>2 DEF IInv, TypeOK, FlagsOK, OverflowStep

\* Causes other than overflow and underflow leave the description alone.
LEMMA RootFlags ==
    ASSUME IInv, NEW cleared \in SUBSET {"invalid_operation", "division_by_zero"},
           \/ \E flag \in {"invalid_operation", "division_by_zero"} :
                Raised(flag, cleared)
           \/ Cleared(cleared),
           last' = last
    PROVE  FlagsOK' /\ OverflowStep
BY DEF Raised, Cleared, IInv, TypeOK, FlagsOK, StickyCovers, FlagsDescribeLast,
       Flags, OverflowStep

-----------------------------------------------------------------------------
LEMMA NextIInv ==
    ASSUME IInv, [Next]_vars
    PROVE  IInv' /\ OverflowStep
<1>1. ASSUME NEW fd \in FRegs, NEW fs \in FRegs, NEW ft \in FRegs,
             \/ ADD_S(fd, fs, ft)
             \/ MUL_S(fd, fs, ft)
             \/ DIV_S(fd, fs, ft)
             \/ MADD_S(fd, fs, ft)
      PROVE  IInv' /\ OverflowStep
  <2>1. PICK f \in UNION {Sum(fpr[fs], fpr[ft]), Product(fpr[fs], fpr[ft]),
                          Quotient(fpr[fs], fpr[ft]), MultiplyAdd(fs, ft)} :
            write_fpr(fd, f)
    BY <1>1 DEF ADD_S, MUL_S, DIV_S, MADD_S
  <2>2. f \in Float /\ (f = "ones" => OnesInRegister)
    BY Operands
  <2> QED
    BY <2>1, <2>2, FprWrites DEF OverflowStep
<1>2. ASSUME NEW fd \in FRegs, NEW fs \in FRegs, NEW ft \in FRegs, Extremum(fs, ft, fd)
      PROVE  IInv' /\ OverflowStep
  <2>1. PICK f \in {fpr[fs], fpr[ft]} : Bypassing(fd, f)
    BY <1>2 DEF Extremum
  <2>2. f \in Float
    BY DEF IInv, TypeOK
  <2> QED
    BY <2>1, <2>2, OtherWrites
<1>3. ASSUME NEW fs \in FRegs, NEW ft \in FRegs,
             ADDA_S(fs, ft) \/ MULA_S(fs, ft) \/ MADDA_S(fs, ft)
      PROVE  IInv' /\ OverflowStep
  <2>1. PICK f \in UNION {Sum(fpr[fs], fpr[ft]), Product(fpr[fs], fpr[ft]),
                          Quotient(fpr[fs], fpr[ft]), MultiplyAdd(fs, ft)} :
            write_facc(f)
    BY <1>3 DEF ADDA_S, MULA_S, MADDA_S
  <2>2. f \in Float /\ f # "signal" /\ (f = "ones" => OnesInRegister)
    BY Operands
  <2> QED
    BY <2>1, <2>2, FaccWrites DEF OverflowStep
<1>4. ASSUME NEW fd \in FRegs, NEW fs \in FRegs, SQRT_S(fd, fs)
      PROVE  IInv' /\ OverflowStep
  <2>1. fpr[fs] \in Float
    BY DEF IInv, TypeOK
  <2>2. fpr' \in [FRegs -> Float]
    BY <1>4, <2>1, SquareRootFloats DEF SQRT_S, IInv, TypeOK
  <2>3. FlagsOK' /\ OverflowStep
    <3>1. last' = last
      BY <1>4 DEF SQRT_S
    <3>2. \/ Raised("invalid_operation", {"division_by_zero"})
          \/ Cleared({"invalid_operation", "division_by_zero"})
      BY <1>4 DEF SQRT_S
    <3>3. CASE Raised("invalid_operation", {"division_by_zero"})
      <4> DEFINE cleared == {"division_by_zero"}
      <4>1. cleared \in SUBSET {"invalid_operation", "division_by_zero"}
        OBVIOUS
      <4>2. \E flag \in {"invalid_operation", "division_by_zero"} :
               Raised(flag, cleared)
        BY <3>3
      <4> QED
        BY <3>1, <4>1, <4>2, RootFlags
    <3>4. CASE Cleared({"invalid_operation", "division_by_zero"})
      BY <3>1, <3>4, RootFlags
    <3> QED
      BY <3>2, <3>3, <3>4
  <2> QED
    BY <1>4, <2>2, <2>3 DEF SQRT_S, IInv, TypeOK, FlagsOK
<1>5. ASSUME NEW fd \in FRegs, NEW fs \in FRegs, RSQRT_S(fd, fs)
      PROVE  IInv' /\ OverflowStep
  <2>1. fpr[fs] \in Float
    BY DEF IInv, TypeOK
  <2>2. PICK g \in SquareRoot(fpr[fs]) : write_fpr2(fd, Reciprocal(g))
    BY <1>5 DEF RSQRT_S
  <2>3. Reciprocal(g) \in Float
    BY <2>1, SquareRootFloats
  <2>4. Taken(fd, Reciprocal(g)) \in Float
    BY <2>3 DEF Taken, Float
  <2>5. fpr' \in [FRegs -> Float]
    BY <2>2, <2>4, ClampedFloats DEF write_fpr2, IInv, TypeOK
  <2>6. \/ \E flag \in {"invalid_operation", "division_by_zero"} : Raised(flag, {})
        \/ Cleared({})
    BY <1>5 DEF RSQRT_S
  <2>7. FlagsOK' /\ OverflowStep
    BY <1>5, <2>6, RootFlags DEF RSQRT_S
  <2> QED
    BY <1>5, <2>5, <2>7 DEF RSQRT_S, IInv, TypeOK, FlagsOK
<1>6. ASSUME NEW fd \in FRegs, NEW fs \in FRegs,
             ChangedSign(fs, fd) \/ MOV_S(fs, fd) \/ CVT_W(fd, fs) \/ CVT_S(fd, fs)
      PROVE  IInv' /\ OverflowStep
  <2>1. fpr[fs] \in Float
    BY DEF IInv, TypeOK
  <2>2. \E f \in Float : Bypassing(fd, f) \/ Silent(fd, f)
    BY <1>6, <2>1 DEF ChangedSign, MOV_S, CVT_W, CVT_S, Float
  <2> QED
    BY <2>2, OtherWrites
<1>7. ASSUME NEW ft \in FRegs, LWC1(ft)
      PROVE  IInv' /\ OverflowStep
  BY <1>7, OtherWrites DEF LWC1
<1>8. CASE UNCHANGED vars
  BY <1>8 DEF vars, IInv, TypeOK, StickyCovers, FlagsDescribeLast, OverflowStep
<1> QED
  BY <1>1, <1>2, <1>3, <1>4, <1>5, <1>6, <1>7, <1>8 DEF Next

\* In the first state nothing is set and every register is zero.
LEMMA InitIInv == Init => IInv
BY DEF Init, IInv, TypeOK, StickyCovers, FlagsDescribeLast, Float, Flags

\* IInv holds throughout.
LEMMA Invariance == Spec => []IInv
<1>1. IInv /\ [Next]_vars => IInv'
  BY NextIInv
<1> QED
  BY InitIInv, <1>1, PTL DEF Spec

\* The accumulator never holds a denormal, a signalling NaN or the pattern of
\* all ones.
THEOREM TypeCorrect == Spec => []TypeOK
<1>1. IInv => TypeOK
  BY DEF IInv
<1> QED
  BY Invariance, <1>1, PTL

\* No handler clears a sticky flag whose cause it leaves set, or sets a cause
\* without its sticky flag.
THEOREM StickyFlagsCover == Spec => []StickyCovers
<1>1. IInv => StickyCovers
  BY DEF IInv
<1> QED
  BY Invariance, <1>1, PTL

\* The overflow and underflow flags describe the last value written, except for
\* an underflow flag that an overflow leaves stale.
THEOREM FlagsDescribe == Spec => []FlagsDescribeLast
<1>1. IInv => FlagsDescribeLast
  BY DEF IInv
<1> QED
  BY Invariance, <1>1, PTL

\* Whatever is computed, an overflow comes from a NaN in a register.
THEOREM OverflowsFromNaN == Spec => OverflowFromNaN
<1>1. IInv /\ [Next]_vars =>
        [ "overflow" \in flags' \ flags =>
            \E r \in FRegs : fpr[r] \in {"signal", "ones"} ]_vars
  BY NextIInv DEF OverflowStep, OnesInRegister
<1> QED
  BY Invariance, <1>1, PTL DEF Spec, OverflowFromNaN

=============================================================================
