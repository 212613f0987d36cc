-------------------------------- MODULE Fpu --------------------------------
(***************************************************************************)
(* The floating-point unit of R5900VCPU (exec_fpu in                       *)
(* src/src/r5900_vcpu.cpp, write_fpr, write_facc and write_fpr2 in         *)
(* src/src/r5900_vcpu.h).  A float is the class of its bits: what the code *)
(* and the host treat differently.  Signs are left out: whether a float is *)
(* below zero is a choice wherever it can be, and an addition stands for   *)
(* the subtraction as well.  The host computes in IEEE single precision;   *)
(* operands of one register are taken for any two floats of its class.     *)
(* The comparisons (C.F, C.EQ, C.LT, C.LE) are stubs without an effect.    *)
(***************************************************************************)
EXTENDS Naturals

CONSTANT FRegs      \* the floating-point registers, 0 among them

ASSUME FRegsAssumption == 0 \in FRegs

VARIABLES
    fpr,      \* the floating-point registers
    facc,     \* the accumulator
    flags,    \* the causes set in control_fpu
    sticky,   \* the sticky flags set in control_fpu
    last      \* history: what write_fpr or write_facc was last given

vars == <<fpr, facc, flags, sticky, last>>

\* max is 0x7f7fffff, inf 0x7f800000, ones 0x7fffffff with any sign; a nan is
\* any other quiet NaN and a signal a signalling one.
NotANumber == {"signal", "nan", "ones"}

Float == {"zero", "denormal", "normal", "max", "inf"} \cup NotANumber

Flags == {"underflow", "overflow", "division_by_zero", "invalid_operation"}

\* The host quiets a NaN it computes with: one bit is set, and every other
\* bit kept.
Quieted(f) == IF f = "signal" THEN {"nan", "ones"} ELSE {f}

Finite == {"zero", "denormal", "normal", "max"}

Nonzero == Finite \ {"zero"}

\* f with one of others, in either order.
With(f, others) == {{f, g} : g \in others}

\* An operation with a NaN returns one of its NaNs.
OfNaN(operands) == UNION {Quieted(f) : f \in operands \cap NotANumber}

\* What a + b and a - b may be for operands of these classes and of any sign,
\* rounded to nearest: two denormals can add up to a normal, and the largest
\* float is itself plus any denormal.
Sum(a, b) ==
    CASE {a, b} \cap NotANumber # {}   -> OfNaN({a, b})
      [] {a, b} = {"inf"}              -> {"inf", "nan"}
      [] {a, b} \in With("inf", Finite) -> {"inf"}
      [] {a, b} \in With("zero", Finite) -> {IF a = "zero" THEN b ELSE a}
      [] {a, b} = {"denormal"}         -> {"zero", "denormal", "normal"}
      [] {a, b} = {"denormal", "normal"} -> {"denormal", "normal"}
      [] {a, b} = {"denormal", "max"}  -> {"max"}
      [] {a, b} = {"normal"}           -> Finite \cup {"inf"}
      [] {a, b} = {"normal", "max"}    -> {"normal", "max", "inf"}
      [] {a, b} = {"max"}              -> {"zero", "inf"}

\* The same for a * b: the product of the largest float and the smallest
\* denormal is a normal, that of two denormals rounds to zero.
Product(a, b) ==
    CASE {a, b} \cap NotANumber # {}   -> OfNaN({a, b})
      [] {a, b} = {"inf", "zero"}      -> {"nan"}
      [] {a, b} \in With("inf", Nonzero \cup {"inf"}) -> {"inf"}
      [] {a, b} \in With("zero", Finite) -> {"zero"}
      [] {a, b} = {"denormal"}         -> {"zero"}
      [] {a, b} = {"denormal", "normal"} -> {"zero", "denormal", "normal"}
      [] {a, b} = {"denormal", "max"}  -> {"normal"}
      [] {a, b} = {"normal"}           -> Finite \cup {"inf"}
      [] {a, b} = {"normal", "max"}    -> {"normal", "max", "inf"}
      [] {a, b} = {"max"}              -> {"inf"}

\* And for a / b.
Quotient(a, b) ==
    CASE {a, b} \cap NotANumber # {}          -> OfNaN({a, b})
      [] a = b /\ a \in {"zero", "inf"}       -> {"nan"}
      [] a = b /\ a \in {"denormal", "max"}   -> {"normal"}
      [] a = b /\ a = "normal"                -> Finite \cup {"inf"}
      [] a = "inf" /\ b \in Finite            -> {"inf"}
      [] a \in Finite /\ b = "inf"            -> {"zero"}
      [] a = "zero" /\ b \in Nonzero          -> {"zero"}
      [] a \in Nonzero /\ b = "zero"          -> {"inf"}
      [] a = "denormal" /\ b = "max"          -> {"zero"}
      [] a = "max" /\ b = "denormal"          -> {"inf"}
      [] \/ a = "denormal" /\ b = "normal"
         \/ a = "normal" /\ b = "max"         -> {"zero", "denormal", "normal"}
      [] \/ a = "normal" /\ b = "denormal"
         \/ a = "max" /\ b = "normal"         -> {"normal", "max", "inf"}

\* Whether f < 0.0f may hold.
BelowZero(f) == IF f \in NotANumber \cup {"zero"} THEN {FALSE} ELSE BOOLEAN
-----------------------------------------------------------------------------
(* Writes with flags.                                                      *)

RaisedOnly(flag, cleared) ==
    /\ flags' = (flags \cup {flag}) \ cleared
    /\ UNCHANGED sticky

\* A cause and its sticky flag are set, and other causes cleared.
Raised(flag, cleared) ==
    /\ flags' = (flags \cup {flag}) \ cleared
    /\ sticky' = sticky \cup {flag}

Cleared(cleared) == flags' = flags \ cleared /\ UNCHANGED sticky

DenormalsKept(f) == IF f = "ones" THEN "max" ELSE f

\* What is stored for a value.
Clamped(f) ==
    CASE f = "ones" -> "max"
      [] f = "denormal" -> "zero"
      [] OTHER -> f

UnderflowFirst(f) ==
    CASE f = "denormal" -> Raised("underflow", {})
      [] f = "ones" -> Raised("overflow", {"underflow"})
      [] OTHER -> Cleared({"overflow", "underflow"})

InfinityOverflows(f) ==
    CASE f \in {"ones", "inf"} -> Raised("overflow", {})
      [] f = "denormal" -> Raised("underflow", {"overflow"})
      [] OTHER -> Cleared({"overflow", "underflow"})

\* The flags of a value.  The return at an overflow leaves underflow as it was.
Flagged(f) ==
    CASE f = "ones" -> Raised("overflow", {})
      [] f = "denormal" -> Raised("underflow", {"overflow"})
      [] OTHER -> Cleared({"overflow", "underflow"})

\* Register 0 takes no value but zero.
Taken(reg, f) == IF reg = 0 THEN "zero" ELSE f

write_fpr(reg, f) ==
    /\ fpr' = [fpr EXCEPT ![reg] = Clamped(Taken(reg, f))]
    /\ Flagged(Taken(reg, f))
    /\ last' = Taken(reg, f)
    /\ UNCHANGED facc

write_facc(f) ==
    /\ facc' = Clamped(f)
    /\ Flagged(f)
    /\ last' = f
    /\ UNCHANGED fpr

\* The write of RSQRT.S, which leaves overflow and underflow alone.
write_fpr2(reg, f) == fpr' = [fpr EXCEPT ![reg] = Clamped(Taken(reg, f))]
-----------------------------------------------------------------------------
(* The handlers.                                                           *)

\* ADD.S and SUB.S
ADD_S(fd, fs, ft) == \E f \in Sum(fpr[fs], fpr[ft]) : write_fpr(fd, f)

MUL_S(fd, fs, ft) == \E f \in Product(fpr[fs], fpr[ft]) : write_fpr(fd, f)

\* A division by zero sets no flag of its own.
DIV_S(fd, fs, ft) == \E f \in Quotient(fpr[fs], fpr[ft]) : write_fpr(fd, f)

\* facc + fs * ft and facc - fs * ft, rounded twice.
MultiplyAdd(fs, ft) == UNION {Sum(facc, f) : f \in Product(fpr[fs], fpr[ft])}

\* MADD.S and MSUB.S
MADD_S(fd, fs, ft) == \E f \in MultiplyAdd(fs, ft) : write_fpr(fd, f)

\* ADDA.S and SUBA.S
ADDA_S(fs, ft) == \E f \in Sum(fpr[fs], fpr[ft]) : write_facc(f)

MULA_S(fs, ft) == \E f \in Product(fpr[fs], fpr[ft]) : write_facc(f)

\* MADDA.S and MSUBA.S
MADDA_S(fs, ft) == \E f \in MultiplyAdd(fs, ft) : write_facc(f)

\* std::sqrt(std::abs(f))
SquareRoot(f) ==
    IF f \in {"denormal", "max"} THEN {"normal"} ELSE Quieted(f)

\* Stores past write_fpr, into register 0 too.
SQRT_S(fd, fs) ==
    /\ \E f \in SquareRoot(fpr[fs]) : fpr' = [fpr EXCEPT ![fd] = f]
    /\ \E negative \in BelowZero(fpr[fs]) :
         IF negative
         THEN Raised("invalid_operation", {"division_by_zero"})
         ELSE Cleared({"invalid_operation", "division_by_zero"})
    /\ UNCHANGED <<facc, last>>

\* 1.0f / f of a square root
Reciprocal(f) ==
    CASE f = "zero" -> "inf"
      [] f = "inf" -> "zero"
      [] OTHER -> f

\* Sets causes and clears none.
RSQRT_S(fd, fs) ==
    /\ \E f \in SquareRoot(fpr[fs]) : write_fpr2(fd, Reciprocal(f))
    /\ \E negative \in BelowZero(fpr[fs]) :
         CASE negative -> Raised("invalid_operation", {})
           [] fpr[fs] = "zero" -> Raised("division_by_zero", {})
           [] OTHER -> Cleared({})
    /\ UNCHANGED <<facc, last>>

\* A register is written past write_fpr, and two causes are cleared.
Bypassing(reg, f) ==
    /\ fpr' = [fpr EXCEPT ![reg] = f]
    /\ Cleared({"overflow", "underflow"})
    /\ last' = "none"
    /\ UNCHANGED facc

\* ABS.S and NEG.S change the sign only.  Their operand and destination are
\* the fields rt and sa.
ChangedSign(rt, sa) == Bypassing(sa, fpr[rt])

\* MAX.S and MIN.S, a >= b ? a : b and a <= b ? a : b: b if either is not a
\* number.
Extremum(rt, rd, sa) ==
    LET a == fpr[rd]  b == fpr[rt]
    IN  \E f \in IF {a, b} \cap NotANumber = {} THEN {a, b} ELSE {b} :
            Bypassing(sa, f)

\* A register is written, and no flag.
Silent(reg, f) ==
    /\ fpr' = [fpr EXCEPT ![reg] = f]
    /\ UNCHANGED <<facc, flags, sticky, last>>

MOV_S(rt, sa) == Silent(sa, fpr[rt])

\* The bits of (int32_t) f, any of which is some float; what is out of range is
\* undefined, and 0x80000000 from the conversion of the host.
CVT_W(fd, fs) ==
    \E f \in IF fpr[fs] = "normal" THEN Float ELSE {"zero"} : Silent(fd, f)

\* (float) of the integer whose bits a register holds.  0x80000000 is the bits
\* of a zero and of no zero integer.
CVT_S(fd, fs) ==
    \E f \in IF fpr[fs] = "zero" THEN {"zero", "normal"} ELSE {"normal"} :
        Silent(fd, f)

\* LWC1 loads any bits.
LWC1(ft) == \E f \in Float : Silent(ft, f)
-----------------------------------------------------------------------------
Init ==
    /\ fpr = [r \in FRegs |-> "zero"]
    /\ facc = "zero"
    /\ flags = {}
    /\ sticky = {}
    /\ last = "none"

Next ==
    \/ \E fd, fs, ft \in FRegs :
         \/ ADD_S(fd, fs, ft)
         \/ MUL_S(fd, fs, ft)
         \/ DIV_S(fd, fs, ft)
         \/ MADD_S(fd, fs, ft)
         \/ Extremum(fs, ft, fd)
    \/ \E fs, ft \in FRegs :
         \/ ADDA_S(fs, ft)
         \/ MULA_S(fs, ft)
         \/ MADDA_S(fs, ft)
    \/ \E fd, fs \in FRegs :
         \/ SQRT_S(fd, fs)
         \/ RSQRT_S(fd, fs)
         \/ ChangedSign(fs, fd)
         \/ MOV_S(fs, fd)
         \/ CVT_W(fd, fs)
         \/ CVT_S(fd, fs)
    \/ \E ft \in FRegs : LWC1(ft)

Spec == Init /\ [][Next]_vars
-----------------------------------------------------------------------------
(* Properties.                                                             *)

\* The registers hold floats, but the accumulator, which only write_facc
\* writes, never a denormal, a signalling NaN or the pattern of all ones.
TypeOK ==
    /\ fpr \in [FRegs -> Float]
    /\ facc \in Float \ {"denormal", "signal", "ones"}
    /\ flags \subseteq Flags
    /\ sticky \subseteq Flags
    /\ last \in Float \cup {"none"}

\* Every cause that is set is also set among the sticky flags, whichever
\* handlers of exec_fpu ran in between.
StickyCovers == flags \subseteq sticky

\* The overflow flag tells whether the last value given to write_fpr or
\* write_facc was the pattern of all ones.  The underflow flag tells whether it
\* was a denormal, except that it is stale after an overflow.
FlagsDescribeLast ==
    /\ "overflow" \in flags <=> last = "ones"
    /\ last = "denormal" => "underflow" \in flags
    /\ "underflow" \in flags => last \in {"denormal", "ones"}

\* No computation with numbers overflows: the flag is raised only where a
\* register holds a NaN that a load, a move or an integer conversion brought
\* there past write_fpr.
OverflowFromNaN ==
    [][ "overflow" \in flags' \ flags =>
            \E r \in FRegs : fpr[r] \in {"signal", "ones"} ]_vars

\* The comment in write_fpr (src/src/r5900_vcpu.h) says that a result that
\* reaches infinity is set to the largest float and flagged as an overflow;
\* write_facc, the only writer of facc, is the same code.  So while every
\* register is zero or the largest float, where only an overflow gives an
\* infinity, a finite accumulator stays finite.
InfinityClamped ==
    [][ (\A r \in FRegs : fpr[r] \in {"zero", "max"}) /\ facc' = "inf"
            => facc = "inf" ]_vars

=============================================================================
