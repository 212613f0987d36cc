------------------------------- MODULE Words -------------------------------
(***************************************************************************)
(* Machine words.  WordSize is the number of values of a 32-bit word of    *)
(* the source (2^32 there); TLC is given a small one, the theorems hold    *)
(* for each.  The low 64 bits of a register of the emulated processor      *)
(* (R5900Register, u64 and i64) are two words, lo and hi.                  *)
(***************************************************************************)
EXTENDS Integers

CONSTANT WordSize

ASSUME WordSizeAssumption ==
    /\ WordSize \in Nat
    /\ WordSize >= 4
    /\ WordSize % 2 = 0

Word == 0 .. (WordSize - 1)

Half == WordSize \div 2

\* Arithmetic on uint32_t: the result is reduced to the width of the word.
ToWord(i) == i % WordSize

Plus(a, i) == ToWord(a + i)

\* The sign bit of an int32_t.
Negative(w) == w >= Half

\* The int32_t with the bits of w.
Signed(w) == IF Negative(w) THEN w - WordSize ELSE w

-----------------------------------------------------------------------------
\* 64-bit values, as two words.
Double == [lo : Word, hi : Word]

ZeroDouble == [lo |-> 0, hi |-> 0]

\* (int64_t)(int32_t) w
SignExtend(w) ==
    [lo |-> w, hi |-> IF Negative(w) THEN WordSize - 1 ELSE 0]

\* (uint64_t)(uint32_t) w
ZeroExtend(w) == [lo |-> w, hi |-> 0]

\* i64 <= 0
AtMostZero(d) == Negative(d.hi) \/ d = ZeroDouble

=============================================================================
