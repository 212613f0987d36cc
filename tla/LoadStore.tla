----------------------------- MODULE LoadStore -----------------------------
(***************************************************************************)
(* The loads and stores of R5900VCPU (tick in src/src/r5900_vcpu.cpp) over *)
(* the accessors of MMU.  Registers and memory are bytes, least            *)
(* significant first, as the build's machine has them.  Guest addresses    *)
(* that the MMU maps select cells, and those of the three views of EE main *)
(* memory select the same ones.  LDL, LDR, LWL, LBU, LHU, LQ, SQ and the   *)
(* other stores of parts are stubs without an effect.                      *)
(***************************************************************************)
EXTENDS Bytes

CONSTANTS Regs,       \* the general-purpose registers
          FRegs,      \* the floating-point registers
          Offsets,    \* decode_imm_i16
          Cell,       \* a function: the cell of each guest address mapped
          Values      \* what other handlers may leave in a register

\* The low 64 bits of an R5900Register, and an R5900RegisterFPU.
Register == [0 .. 7 -> Byte]

FloatRegister == [0 .. 3 -> Byte]

Cells == {Cell[a] : a \in DOMAIN Cell}

\* Areas begin and end at multiples of eight, and are contiguous.
ASSUME LoadStoreAssumption ==
    /\ Weight[4] % 8 = 0
    /\ Offsets \subseteq Int
    /\ Values \subseteq Register
    /\ \A a \in DOMAIN Cell :
         /\ a \in 0 .. (Weight[4] - 1) /\ Cell[a] \in Nat
         /\ LET base == a - (a % 8)
            IN  /\ base \in DOMAIN Cell
                /\ Cell[base] % 8 = 0 /\ Cell[a] = Cell[base] + (a % 8)
         /\ a % 8 # 7 => a + 1 \in DOMAIN Cell

VARIABLES memory, gpr, fpr, running

vars == <<memory, gpr, fpr, running>>

-----------------------------------------------------------------------------
\* gpr[rs].u32 + offset
Address(rs, offset) == (Number(gpr[rs], 4) + offset) % Weight[4]

\* The bytes that readN and writeN touch are mapped.
Reaches(a, n) == \A i \in 0 .. (n - 1) : (a + i) \in DOMAIN Cell

\* A byte of memory that one of the accessors reads.
ByteAt(a) == memory[Cell[a]]

\* (int64_t) or (uint64_t) of what readN returns, which is unsigned.
Loaded(a, n) == [i \in 0 .. 7 |-> IF i < n THEN ByteAt(a + i) ELSE 0]

\* A register of eight bytes where one of four is meant.
LoadedWide(a) == Loaded(a, 4)

\* read32 into a R5900RegisterFPU
LoadedFloat(a) == [i \in 0 .. 3 |-> ByteAt(a + i)]

LWResult(a) == Loaded(a, 4)

LWUResult(a) == Loaded(a, 4)

\* The check is for one size less.
HalfChecked(a, n) == n > 1 /\ a % (n \div 2) # 0

\* addr & (n - 1) is logged and nothing else is done.
Misaligned(a, n) == a % n # 0

Ignored == UNCHANGED <<memory, gpr, fpr, running>>

\* An access outside the memory map ends the process.
Crashes == running' = FALSE /\ UNCHANGED <<memory, gpr, fpr>>

\* The part common to the loads into gpr[rt].
LoadChecked(a, n, rt, result) ==
    /\ running
    /\ \/ Misaligned(a, n) /\ Ignored
       \/ ~ Misaligned(a, n) /\ ~ Reaches(a, n) /\ Crashes
       \/ /\ ~ Misaligned(a, n) /\ Reaches(a, n)
          /\ gpr' = [gpr EXCEPT ![rt] = result]
          /\ UNCHANGED <<memory, fpr, running>>

\* writeN
Stored(a, n, b) ==
    [c \in Cells |->
        IF \E i \in 0 .. (n - 1) : Cell[a + i] = c
        THEN b[CHOOSE i \in 0 .. (n - 1) : Cell[a + i] = c]
        ELSE memory[c]]

\* The part common to the stores.
StoreChecked(a, n, b) ==
    /\ running
    /\ \/ Misaligned(a, n) /\ Ignored
       \/ ~ Misaligned(a, n) /\ ~ Reaches(a, n) /\ Crashes
       \/ /\ ~ Misaligned(a, n) /\ Reaches(a, n)
          /\ memory' = Stored(a, n, b)
          /\ UNCHANGED <<gpr, fpr, running>>
-----------------------------------------------------------------------------
(* One action for each handler.                                            *)

LB(rs, rt, offset) ==
    LET a == Address(rs, offset) IN LoadChecked(a, 1, rt, Loaded(a, 1))

LH(rs, rt, offset) ==
    LET a == Address(rs, offset) IN LoadChecked(a, 2, rt, Loaded(a, 2))

LW(rs, rt, offset) ==
    LET a == Address(rs, offset) IN LoadChecked(a, 4, rt, LWResult(a))

LWU(rs, rt, offset) ==
    LET a == Address(rs, offset) IN LoadChecked(a, 4, rt, LWUResult(a))

LD(rs, rt, offset) ==
    LET a == Address(rs, offset) IN LoadChecked(a, 8, rt, Loaded(a, 8))

\* Reads a word at any address.
LWR(rs, rt, offset) ==
    LET a == Address(rs, offset) IN
    /\ running
    /\ IF Reaches(a, 4)
       THEN /\ gpr' = [gpr EXCEPT ![rt] = Loaded(a, 4)]
            /\ UNCHANGED <<memory, fpr, running>>
       ELSE Crashes

LWC1(rs, ft, offset) ==
    LET a == Address(rs, offset) IN
    /\ running
    /\ \/ Misaligned(a, 4) /\ Ignored
       \/ ~ Misaligned(a, 4) /\ ~ Reaches(a, 4) /\ Crashes
       \/ /\ ~ Misaligned(a, 4) /\ Reaches(a, 4)
          /\ fpr' = [fpr EXCEPT ![ft] = LoadedFloat(a)]
          /\ UNCHANGED <<memory, gpr, running>>

SB(rs, rt, offset) == StoreChecked(Address(rs, offset), 1, gpr[rt])

SH(rs, rt, offset) == StoreChecked(Address(rs, offset), 2, gpr[rt])

SW(rs, rt, offset) == StoreChecked(Address(rs, offset), 4, gpr[rt])

SD(rs, rt, offset) == StoreChecked(Address(rs, offset), 8, gpr[rt])

SWC1(rs, ft, offset) == StoreChecked(Address(rs, offset), 4, fpr[ft])

\* A handler that computes a register from others.
Compute(r, v) ==
    /\ running
    /\ gpr' = [gpr EXCEPT ![r] = v]
    /\ UNCHANGED <<memory, fpr, running>>

\* A handler of exec_fpu, which can leave any bits.
ComputeFloat(f, v) ==
    /\ running
    /\ fpr' = [fpr EXCEPT ![f] = [i \in 0 .. 3 |-> v[i]]]
    /\ UNCHANGED <<memory, gpr, running>>
-----------------------------------------------------------------------------
Init ==
    /\ memory = [c \in Cells |-> 0]
    /\ gpr = [r \in Regs |-> [i \in 0 .. 7 |-> 0]]
    /\ fpr = [f \in FRegs |-> [i \in 0 .. 3 |-> 0]]
    /\ running = TRUE

Next ==
    \/ \E rs, rt \in Regs, offset \in Offsets :
         \/ LB(rs, rt, offset)
         \/ LH(rs, rt, offset)
         \/ LW(rs, rt, offset)
         \/ LWU(rs, rt, offset)
         \/ LD(rs, rt, offset)
         \/ LWR(rs, rt, offset)
         \/ SB(rs, rt, offset)
         \/ SH(rs, rt, offset)
         \/ SW(rs, rt, offset)
         \/ SD(rs, rt, offset)
    \/ \E rs \in Regs, ft \in FRegs, offset \in Offsets :
         \/ LWC1(rs, ft, offset)
         \/ SWC1(rs, ft, offset)
    \/ \E r \in Regs, v \in Values : Compute(r, v)
    \/ \E f \in FRegs, v \in Values : ComputeFloat(f, v)

Spec == Init /\ [][Next]_vars
-----------------------------------------------------------------------------
(* Properties.                                                             *)

\* Memory keeps its cells and every register its bytes.
TypeOK ==
    /\ memory \in [Cells -> Byte]
    /\ gpr \in [Regs -> Register]
    /\ fpr \in [FRegs -> FloatRegister]
    /\ running \in BOOLEAN

\* The doublewords of memory, each named by its first cell.
Firsts == {c \in Cells : c % 8 = 0}

Promise == INSTANCE Doublewords
           WITH dword <- [d \in Firsts |->
                             Number([i \in 0 .. 7 |-> memory[d + i]], 8)],
                reg <- [r \in Regs |-> Number(gpr[r], 8)],
                freg <- [f \in FRegs |-> Number(fpr[f], 4)],
                alive <- running,
                Location <- [a \in {x \in DOMAIN Cell : x % 8 = 0} |-> Cell[a]],
                Numbers <- {Number(v, 8) : v \in Values}

\* Accesses of every size, through every mirror, at every offset, agree on one
\* array of doublewords: what a store leaves is what any later load of any
\* part of it returns, a store changes no other byte, an aligned access never
\* leaves its area, and a misaligned one changes nothing.
ImplementsDoublewords == Promise!DSpec

\* LW and LWU are two instructions: they differ on a word whose sign bit is
\* set.  LB and LH zero-extend as well, but LBU and LHU are stubs.
WordLoadsDiffer ==
    \A a \in DOMAIN Cell :
        a % 4 = 0 /\ 2 * ByteAt(a + 3) >= ByteSize => LWResult(a) # LWUResult(a)

=============================================================================
