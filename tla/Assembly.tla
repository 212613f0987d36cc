------------------------------ MODULE Assembly ------------------------------
(***************************************************************************)
(* What the emulator promises to whoever writes a program in assembly      *)
(* language: the instructions of the program, which are not words but      *)
(* what the programmer wrote, are executed one after the other, with the   *)
(* delay slots of MipsFlow; there are NOPs in the rest of memory.  That    *)
(* ends when someone else uses the memory of the program (lost).           *)
(***************************************************************************)
EXTENDS Words, Sequences

CONSTANTS Regs,     \* the general-purpose registers
          RA,       \* the register JAL links
          Mapped,   \* the byte addresses of memory
          Base,     \* the address of the first instruction
          Programs  \* sequences of instructions

VARIABLES program, here, pending, reg, running, lost

avars == <<program, here, pending, reg, running, lost>>

Flow == INSTANCE MipsFlow
        WITH Entries <- {Base}, Results <- Double, Imms <- Int, Targets <- Nat

Nop == [op |-> "NOP"]

\* The instruction that the programmer put at an address.
InstructionAt(a) ==
    IF a \in {Base + 4 * k : k \in 0 .. (Len(program) - 1)}
    THEN program[(a - Base) \div 4 + 1]
    ELSE Nop

\* Representable as an int32_t.
Fits(n) == -Half <= n /\ n < Half

ADDI(i) ==
    LET sum == Signed(reg[i.rs].lo) + i.imm IN
    /\ Flow!Sequential
    /\ IF Fits(sum) THEN Flow!Write(i.rt, SignExtend(ToWord(sum))) ELSE UNCHANGED reg

Holds(op, i) ==
    CASE op \in {"BEQ", "BEQL"}   -> Flow!Condition("eq", i.rs, i.rt)
      [] op \in {"BNE", "BNEL"}   -> Flow!Condition("ne", i.rs, i.rt)
      [] op \in {"BLEZ", "BLEZL"} -> Flow!Condition("lez", i.rs, i.rt)
      [] op \in {"BGTZ", "BGTZL"} -> Flow!Condition("gtz", i.rs, i.rt)

Branch(i) ==
    /\ IF Holds(i.op, i)
       THEN Flow!TransferTo(Flow!BranchTarget(i.imm))
       ELSE IF i.op \in {"BEQL", "BNEL", "BLEZL", "BGTZL"}
            THEN Flow!Nullify
            ELSE Flow!Sequential
    /\ UNCHANGED reg

\* The operand of a jump is the address of an instruction.
Jump(i) ==
    /\ Flow!TransferTo(i.target)
    /\ IF i.op = "JAL" THEN Flow!Write(RA, Flow!ReturnAddress) ELSE UNCHANGED reg

\* NOP, and SYSCALL, BREAK and SYNC, at which nothing stops.
Nothing == Flow!Sequential /\ UNCHANGED reg

Execute ==
    LET i == InstructionAt(here) IN
    /\ Flow!Executing
    /\ CASE i.op = "ADDI"            -> ADDI(i)
         [] i.op \in {"J", "JAL"}    -> Jump(i)
         [] i.op \in {"NOP", "SYSCALL", "BREAK", "SYNC"} -> Nothing
         [] OTHER                    -> Branch(i)
    /\ UNCHANGED <<program, lost>>

\* Execution leaves memory.
Fault == Flow!Fault /\ UNCHANGED <<program, lost>>

Lose == lost' /\ UNCHANGED <<program, here, pending, reg, running>>

\* Nothing is promised any more.
Anything == lost /\ lost'

AInit ==
    /\ program \in Programs
    /\ here = Base
    /\ pending = {}
    /\ reg = [r \in Regs |-> ZeroDouble]
    /\ running = TRUE
    /\ lost = FALSE

ANext == Execute \/ Fault \/ Lose \/ Anything

ASpec == AInit /\ [][ANext]_avars

=============================================================================
