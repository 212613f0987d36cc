---------------------------- MODULE Accumulator ----------------------------
(***************************************************************************)
(* What the two multiply-divide pipelines promise.  Each keeps a 64-bit    *)
(* value, acc[p], whose upper word is HI and whose lower word is LO.  A    *)
(* multiplication sets it, a multiply-add adds to it, a division leaves a  *)
(* quotient and a remainder.  The word that is stored above LO (stray) is  *)
(* of no consequence in pipeline 1; in pipeline 0 a multiply-add is exact  *)
(* in its upper word only if there is nothing there.                       *)
(***************************************************************************)
EXTENDS Words

CONSTANTS Regs,     \* the general-purpose registers
          Values    \* what other instructions may leave in them

VARIABLES acc, stray,
          reg       \* the low doublewords of the registers

avars == <<acc, stray, reg>>

Pipelines == {0, 1}

Wide == 0 .. (WordSize * WordSize - 1)

ToWide(i) == i % (WordSize * WordSize)

Low(w) == w % WordSize

High(w) == w \div WordSize

Join(h, l) == h * WordSize + l

\* A word in a 64-bit register is zero- or sign-extended.
Extensions(l) == {ZeroExtend(l), SignExtend(l)}

\* The instruction changes one pipeline, and leaves its lower word in the
\* registers of dst (none or one).
Leave(p, dst) ==
    /\ acc' = [acc EXCEPT ![p] = acc'[p]]
    /\ \E d \in Extensions(Low(acc'[p])) :
         /\ stray' = [stray EXCEPT ![p] = d.hi]
         /\ reg' = [r \in Regs |-> IF r \in dst THEN d ELSE reg[r]]

Destinations == {{}} \cup {{r} : r \in Regs}

\* The operands, both signed or both unsigned.
Operands(rs, rt) ==
    { <<Signed(reg[rs].lo), Signed(reg[rt].lo)>>, <<reg[rs].lo, reg[rt].lo>> }

Multiply(p, rs, rt) ==
    \E o \in Operands(rs, rt) : acc'[p] = ToWide(o[1] * o[2])

MultiplyAdd(p, rs, rt) ==
    \E o \in Operands(rs, rt) :
        LET sum == ToWide(acc[p] + o[1] * o[2]) IN
        \/ acc'[p] = sum
        \/ p = 0 /\ stray[p] # 0 /\ Low(acc'[p]) = Low(sum)

\* x = q * y + r, with a remainder smaller than the divisor and of the sign
\* of the dividend; when y is zero, r is x and q unspecified.
IsDivision(x, y, q, r) ==
    /\ x = q * y + r
    /\ y # 0 => /\ IF y > 0 THEN -y < r /\ r < y ELSE y < r /\ r < -y
                /\ r # 0 => (r < 0) = (x < 0)

\* The numbers near zero with the same word: one quotient does not fit in it.
Readings(w) == {w - WordSize, w}

Divide(p, rs, rt) ==
    \E q \in Readings(Low(acc'[p])), r \in Readings(High(acc'[p])),
       o \in Operands(rs, rt) : IsDivision(o[1], o[2], q, r)

MoveToHigh(p, rs) ==
    /\ acc' = [acc EXCEPT ![p] = Join(reg[rs].lo, Low(@))]
    /\ UNCHANGED <<stray, reg>>

MoveToLow(p, rs) ==
    /\ acc' = [acc EXCEPT ![p] = Join(High(@), reg[rs].lo)]
    /\ stray' = [stray EXCEPT ![p] = reg[rs].hi]
    /\ UNCHANGED reg

MoveFrom(p, rd) ==
    /\ \E d \in Double : /\ d.lo \in {Low(acc[p]), High(acc[p])}
                         /\ reg' = [reg EXCEPT ![rd] = d]
    /\ UNCHANGED <<acc, stray>>

\* PMFHL and the parallel shifts: a register gets any value.
Rework(rd) ==
    /\ reg'[rd] \in Double
    /\ reg' = [reg EXCEPT ![rd] = reg'[rd]]
    /\ UNCHANGED <<acc, stray>>

Other(rd) ==
    /\ \E d \in Values : reg' = [reg EXCEPT ![rd] = d]
    /\ UNCHANGED <<acc, stray>>

AInit ==
    /\ acc = [p \in Pipelines |-> 0]
    /\ stray = [p \in Pipelines |-> 0]
    /\ reg = [r \in Regs |-> ZeroDouble]

ANext ==
    \/ \E p \in Pipelines, dst \in Destinations :
         /\ Leave(p, dst)
         /\ acc'[p] \in Wide
         /\ \E rs, rt \in Regs :
              \/ Multiply(p, rs, rt)
              \/ MultiplyAdd(p, rs, rt)
              \/ Divide(p, rs, rt)
    \/ \E p \in Pipelines, r \in Regs :
         \/ MoveToHigh(p, r)
         \/ MoveToLow(p, r)
         \/ MoveFrom(p, r)
    \/ \E r \in Regs : Other(r) \/ Rework(r)

ASpec == AInit /\ [][ANext]_avars

=============================================================================
